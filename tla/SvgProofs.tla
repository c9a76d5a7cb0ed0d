------------------------------ MODULE SvgProofs ------------------------------
(***************************************************************************)
(* Theorems of what canvg draws.                                           *)
(*                                                                         *)
(* SvgPath: a path is drawn as SVG says where no control point is off, and *)
(* its markers follow it, for any points, control points and number of     *)
(* segments.                                                               *)
(*                                                                         *)
(* SvgPaint: a shape is painted with the colour of its tween and with its  *)
(* opacity once, and its sibling keeps its paint, for any texts, opacities *)
(* and number of frames.                                                   *)
(*                                                                         *)
(* SvgStyles: every element of every drawing is filled as the cascade says *)
(* or as one of the exceptions named in the module, for any document.      *)
(*                                                                         *)
(* StackBlur: what lies under a transparent pixel does not show in the     *)
(* blurred image, for any image and radius.                                *)
(***************************************************************************)
EXTENDS SvgPaint, SvgPath, SvgStyles, StackBlur, SequenceTheorems, WellFoundedInduction, TLAPS

-----------------------------------------------------------------------------
(* Paths and their markers.                                                *)

\* A point, the points of a marker, its angle.
Place == Int \X Int
MarkerPlace == Place \cup ({"half way"} \X Place \X Place)
Angle == {None} \cup (Place \X Place) \cup ({"arc"} \X Place \X Place)
\* The markers of the parser and those that SVG means.
Marker == [p : MarkerPlace, angle : Angle]
MeantMarker == [p : MarkerPlace, kind : Letters, angle : Angle]

\* The types of the parser and of what is meant; a curve has a control point.
PathTypeOK ==
    /\ command \in Letters \cup {None} /\ previousCommand \in Letters \cup {None}
    /\ relative \in BOOLEAN /\ first \in BOOLEAN /\ off \in BOOLEAN
    /\ start \in Place /\ control \in Place /\ current \in Place
    /\ markers \in Seq(Marker)
    /\ meant.at \in Place /\ meant.start \in Place /\ meant.kind \in Letters \cup {None}
    /\ meant.markers \in Seq(MeantMarker)
    /\ meant.kind \in {"C", "S", "Q", "T"} => meant.control \in Place
    /\ meant = [at |-> meant.at, start |-> meant.start, kind |-> meant.kind,
                control |-> meant.control, call |-> meant.call, markers |-> meant.markers]

\* The parser stands where SVG says, and has the control point SVG reflects.
PenInv ==
    /\ current = meant.at /\ start = meant.start
    /\ meant.kind \in {"C", "S", "Q"} => control = meant.control
    /\ meant.kind = "T" /\ ~off => control = meant.control

\* A marker is open while it is the last one and that of a moveto; there the
\* parser stands at the start, and no curve was read since.
OpenInv ==
    LET n == Len(markers)
    IN  /\ n = Len(meant.markers)
        /\ n > 0 =>
             /\ markers[n].angle = None <=> meant.markers[n].kind = "M"
             /\ meant.markers[n].kind = "M" =>
                  /\ meant.markers[n].angle = None
                  /\ markers[n].p = meant.at /\ start = meant.at
                  /\ meant.kind \in {"M", "Z"}
                  /\ \/ command \in {"M", "Z"}
                     \/ first /\ previousCommand \in {"M", "Z"}

\* A marker has the angle it is meant to have, or takes it from the next one.
AnglesInv ==
    \A i \in DOMAIN markers :
        /\ markers[i].p = meant.markers[i].p
        /\ meant.markers[i].angle # None =>
             \/ markers[i].angle = meant.markers[i].angle
             \/ markers[i].angle = None /\ i < Len(markers)
                /\ markers[i + 1].angle = meant.markers[i].angle

\* The inductive invariant of the parser.
PathInv == PathTypeOK /\ PenInv /\ OpenInv /\ AnglesInv /\ DrawnAsMeant

\* The end point of a call is its last argument.
LEMMA EndOfCall ==
    ASSUME NEW k, NEW x, NEW y, NEW z
    PROVE  /\ EndOf(<<k, x>>) = x /\ EndOf(<<k, x, y>>) = y /\ EndOf(<<k, x, y, z>>) = z
  <1>1. Len(<<k, x>>) = 2 /\ <<k, x>>[2] = x
    OBVIOUS
  <1>2. Len(<<k, x, y>>) = 3 /\ <<k, x, y>>[3] = y
    OBVIOUS
  <1>3. Len(<<k, x, y, z>>) = 4 /\ <<k, x, y, z>>[4] = z
    OBVIOUS
  <1> QED BY <1>1, <1>2, <1>3 DEF EndOf

\* None is told apart from a letter, a point and a direction.
LEMMA NoneApart == None \notin Letters /\ None \notin Place /\ None \notin Place \X Place
                   /\ None \notin {"arc"} \X Place \X Place
  BY PathAssumption DEF Place

\* The markers after one was added, and those SVG means.
MeantFilled(c, leaving) ==
    LET n == Len(meant.markers)
    IN  IF n > 0 /\ meant.markers[n].kind = "M"
        THEN [meant.markers EXCEPT ![n] = [p |-> @.p, kind |-> c, angle |-> leaving]]
        ELSE meant.markers

\* The markers SVG means after a segment.
LEMMA FilledIs ==
    ASSUME PathTypeOK, OpenInv, NEW target \in Place, NEW c \in Letters,
           NEW leaving \in Angle, NEW arriving \in Angle
    PROVE  LET n == Len(meant.markers)
               s == Append(MeantFilled(c, leaving), [p |-> target, kind |-> c, angle |-> arriving])
           IN  /\ s \in Seq(MeantMarker) /\ Len(s) = n + 1
               /\ \A i \in 1..n : s[i].p = meant.markers[i].p
               /\ \A i \in 1..n : s[i].angle =
                     IF i = n /\ meant.markers[n].kind = "M" THEN leaving
                     ELSE meant.markers[i].angle
               /\ s[n + 1] = [p |-> target, kind |-> c, angle |-> arriving]
  <1> DEFINE t == meant.markers
             n == Len(t)
             f == MeantFilled(c, leaving)
             m == [p |-> target, kind |-> c, angle |-> arriving]
  <1>1. t \in Seq(MeantMarker) /\ n \in Nat
    BY DEF PathTypeOK
  <1>2. m \in MeantMarker
    BY DEF MeantMarker, MarkerPlace
  <1>3. /\ f \in Seq(MeantMarker) /\ Len(f) = n
        /\ \A i \in 1..n : f[i].p = t[i].p
        /\ \A i \in 1..n : f[i].angle = IF i = n /\ t[n].kind = "M" THEN leaving ELSE t[i].angle
    <2>1. CASE n > 0 /\ t[n].kind = "M"
      <3> DEFINE r == [p |-> t[n].p, kind |-> c, angle |-> leaving]
      <3>1. f = [t EXCEPT ![n] = r]
        BY <2>1 DEF MeantFilled
      <3>2. n \in 1..n /\ t[n] \in MeantMarker
        BY <1>1, <2>1
      <3>3. r \in MeantMarker
        BY <3>2 DEF MeantMarker
      <3> HIDE DEF f, r, t
      <3>4. f \in Seq(MeantMarker) /\ Len(f) = n
        BY <1>1, <3>1, <3>2, <3>3, ExceptSeq
      <3>5. \A i \in 1..n : f[i] = IF i = n THEN r ELSE t[i]
        BY <1>1, <3>1, <3>2
      <3> QED BY <2>1, <3>4, <3>5 DEF r
    <2>2. CASE ~(n > 0 /\ t[n].kind = "M")
      <3>1. f = t
        BY <2>2 DEF MeantFilled
      <3> HIDE DEF f, t
      <3> QED BY <1>1, <2>2, <3>1
    <2> QED BY <2>1, <2>2
  <1> HIDE DEF f, t, m
  <1>4. /\ Append(f, m) \in Seq(MeantMarker) /\ Len(Append(f, m)) = n + 1
        /\ \A i \in 1..n : Append(f, m)[i] = f[i]
        /\ Append(f, m)[n + 1] = m
    BY <1>1, <1>2, <1>3, AppendProperties
  <1> QED BY <1>3, <1>4 DEF f, t, m

\* The markers of the parser after addMarker.
LEMMA AddedIs ==
    ASSUME PathTypeOK, OpenInv, NEW target \in Place,
           NEW origin \in Place \cup {None}, NEW priorTo \in Place \cup {None}
    PROVE  LET n == Len(markers)
               s == AddMarker(target, origin, priorTo)
               m == [p |-> target, angle |-> IF origin = None THEN None ELSE <<origin, target>>]
           IN  /\ s \in Seq(Marker) /\ Len(s) = n + 1
               /\ \A i \in 1..n : s[i].p = markers[i].p
               /\ \A i \in 1..n : s[i].angle =
                     IF i = n /\ priorTo # None /\ markers[n].angle = None
                     THEN <<markers[n].p, priorTo>> ELSE markers[i].angle
               /\ s[n + 1] = m
  <1> DEFINE t == markers
             n == Len(t)
             m == [p |-> target, angle |-> IF origin = None THEN None ELSE <<origin, target>>]
             fills == priorTo # None /\ n > 0 /\ t[n].angle = None
             f == IF fills THEN [t EXCEPT ![n].angle = <<t[n].p, priorTo>>] ELSE t
  <1>1. t \in Seq(Marker) /\ n \in Nat
    BY DEF PathTypeOK
  <1>2. m \in Marker
    <2>1. (IF origin = None THEN None ELSE <<origin, target>>) \in Angle
      BY DEF Angle
    <2> QED BY <2>1 DEF Marker, MarkerPlace
  <1>3. /\ f \in Seq(Marker) /\ Len(f) = n
        /\ \A i \in 1..n : f[i].p = t[i].p
        /\ \A i \in 1..n : f[i].angle =
              IF i = n /\ priorTo # None /\ t[n].angle = None
              THEN <<t[n].p, priorTo>> ELSE t[i].angle
    <2>1. CASE fills
      <3> DEFINE r == [t[n] EXCEPT !.angle = <<t[n].p, priorTo>>]
      <3>1. f = [t EXCEPT ![n] = r]
        BY <2>1
      <3>2. n \in 1..n /\ t[n] \in Marker
        BY <1>1, <2>1
      <3>3. t[n].p \in Place /\ priorTo \in Place
        BY <1>1, <2>1 DEF PathTypeOK, OpenInv
      <3>4. r \in Marker /\ r.p = t[n].p /\ r.angle = <<t[n].p, priorTo>>
        BY <3>2, <3>3 DEF Marker, Angle
      <3>5. fills
        BY <2>1
      <3>6. priorTo # None /\ t[n].angle = None
        BY <3>5
      <3> HIDE DEF f, r, t, fills
      <3>7. f \in Seq(Marker) /\ Len(f) = n
        BY <1>1, <3>1, <3>2, <3>4, ExceptSeq
      <3>8. \A i \in 1..n : f[i] = IF i = n THEN r ELSE t[i]
        BY <1>1, <3>1, <3>2
      <3> QED BY <3>4, <3>6, <3>7, <3>8
    <2>2. CASE ~fills
      <3>1. f = t
        BY <2>2
      <3>2. \A i \in 1..n : ~(i = n /\ priorTo # None /\ t[n].angle = None)
        BY <1>1, <2>2
      <3> HIDE DEF f, t, fills
      <3> QED BY <1>1, <3>1, <3>2
    <2> QED BY <2>1, <2>2
  <1>4. AddMarker(target, origin, priorTo) = Append(f, m)
    BY DEF AddMarker
  <1> HIDE DEF f, t, m
  <1>5. /\ Append(f, m) \in Seq(Marker) /\ Len(Append(f, m)) = n + 1
        /\ \A i \in 1..n : Append(f, m)[i] = f[i]
        /\ Append(f, m)[n + 1] = m
    BY <1>1, <1>2, <1>3, AppendProperties
  <1> QED BY <1>3, <1>4, <1>5 DEF t, m

\* The markers stay right when one is added here and one there: it is the same
\* point; the direction of arrival is that of the marker; the direction in which
\* a subpath leaves is filled in or is that of the new marker.
LEMMA BothAdded ==
    ASSUME PathTypeOK, PenInv, OpenInv, AnglesInv, NEW target \in Place,
           NEW origin \in Place \cup {None}, NEW priorTo \in Place \cup {None},
           NEW c \in Letters, NEW leaving \in Angle, NEW arriving \in Angle,
           markers' = AddMarker(target, origin, priorTo),
           meant'.markers = Append(MeantFilled(c, leaving),
                                   [p |-> target, kind |-> c, angle |-> arriving]),
           arriving # None => origin # None /\ arriving = <<origin, target>>,
           Len(markers) > 0 /\ meant.markers[Len(markers)].kind = "M" /\ leaving # None =>
               IF priorTo # None THEN leaving = <<meant.at, priorTo>>
               ELSE origin # None /\ leaving = <<origin, target>>
    PROVE  /\ AnglesInv'
           /\ markers' \in Seq(Marker) /\ meant'.markers \in Seq(MeantMarker)
           /\ Len(markers') = Len(markers) + 1 /\ Len(meant'.markers) = Len(markers) + 1
           /\ markers'[Len(markers')].p = target
           /\ markers'[Len(markers')].angle = IF origin = None THEN None ELSE <<origin, target>>
           /\ meant'.markers[Len(markers')].kind = c
           /\ meant'.markers[Len(markers')].angle = arriving
  <1> DEFINE n == Len(markers)
             open == n > 0 /\ meant.markers[n].kind = "M"
             S == markers'
             M == meant'.markers
             new == IF origin = None THEN None ELSE <<origin, target>>
  <1>0. \A i \in 1..n : i = n => n > 0
    BY DEF PathTypeOK
  <1>1. n \in Nat /\ n = Len(meant.markers) /\ DOMAIN markers = 1..n
    BY DEF PathTypeOK, OpenInv
  <1>2. /\ S \in Seq(Marker) /\ Len(S) = n + 1
        /\ \A i \in 1..n : S[i].p = markers[i].p
        /\ \A i \in 1..n : S[i].angle =
              IF i = n /\ priorTo # None /\ markers[n].angle = None
              THEN <<markers[n].p, priorTo>> ELSE markers[i].angle
        /\ S[n + 1] = [p |-> target, angle |-> new]
    BY AddedIs
  <1>3. /\ M \in Seq(MeantMarker) /\ Len(M) = n + 1
        /\ \A i \in 1..n : M[i].p = meant.markers[i].p
        /\ \A i \in 1..n : M[i].angle =
              IF i = n /\ meant.markers[n].kind = "M" THEN leaving
              ELSE meant.markers[i].angle
        /\ M[n + 1] = [p |-> target, kind |-> c, angle |-> arriving]
    BY FilledIs, <1>1
  <1>10. /\ S[n + 1].p = target /\ S[n + 1].angle = new
         /\ M[n + 1].p = target /\ M[n + 1].angle = arriving
    <2> HIDE DEF S, M, n, new
    <2>1. S[n + 1].p = target /\ S[n + 1].angle = new
      BY <1>2
    <2>2. M[n + 1].p = target /\ M[n + 1].angle = arriving
      BY <1>3
    <2> QED BY <2>1, <2>2
  <1>4. open => markers[n].angle = None /\ markers[n].p = meant.at
    BY <1>1 DEF OpenInv
  <1>5. n > 0 /\ ~open => markers[n].angle # None
    BY <1>1 DEF OpenInv
  <1>6. ASSUME NEW i \in 1..n
        PROVE  /\ S[i].p = M[i].p
               /\ M[i].angle # None =>
                    \/ S[i].angle = M[i].angle
                    \/ S[i].angle = None /\ i < n + 1 /\ S[i + 1].angle = M[i].angle
    <2>1. S[i].p = M[i].p
      BY <1>1, <1>2, <1>3 DEF AnglesInv
    <2>2. CASE i = n /\ open
      <3>1. M[i].angle = leaving
        BY <1>3, <2>2
      <3>2. S[i].angle = IF priorTo # None THEN <<meant.at, priorTo>> ELSE None
        <4>1. S[i].angle = IF i = n /\ priorTo # None /\ markers[n].angle = None
                           THEN <<markers[n].p, priorTo>> ELSE markers[i].angle
          BY <1>2
        <4>2. i = n /\ markers[n].angle = None /\ markers[n].p = meant.at
          BY <1>4, <2>2
        <4> HIDE DEF S, n
        <4> QED BY <4>1, <4>2
      <3>3. S[i + 1].angle = new
        BY <1>10, <2>2
      <3>4. leaving # None => IF priorTo # None THEN leaving = <<meant.at, priorTo>>
                              ELSE leaving = new
        BY <1>0, <2>2
      <3>5. i < n + 1
        BY <1>1, <2>2
      <3> HIDE DEF S, M, n, new
      <3> QED BY <2>1, <3>1, <3>2, <3>3, <3>4, <3>5
    <2>3. CASE ~(i = n /\ open)
      <3>1. M[i].angle = meant.markers[i].angle
        BY <1>1, <1>3, <2>3
      <3>2. S[i].angle = markers[i].angle
        BY <1>1, <1>2, <1>5, <2>3
      <3>3. i < n => S[i + 1].angle = markers[i + 1].angle \/ markers[i + 1].angle = None
        BY <1>1, <1>2
      <3>4. M[i].angle # None =>
                \/ markers[i].angle = M[i].angle
                \/ markers[i].angle = None /\ i < n /\ markers[i + 1].angle = M[i].angle
        BY <1>1, <3>1 DEF AnglesInv
      <3>5. i <= n /\ i < n + 1 /\ n \in Nat
        BY <1>1
      <3> HIDE DEF S, M, n, new
      <3> QED BY <2>1, <3>2, <3>3, <3>4, <3>5
    <2> QED BY <2>2, <2>3
  <1>7. /\ S[n + 1].p = M[n + 1].p
        /\ M[n + 1].angle # None => S[n + 1].angle = M[n + 1].angle
    <2>1. arriving # None => new = arriving
      OBVIOUS
    <2> HIDE DEF S, M, n, new
    <2> QED BY <1>10, <2>1
  <1>8. DOMAIN S = 1..(n + 1) /\ \A i \in 1..(n + 1) : i \in 1..n \/ i = n + 1
    BY <1>1, <1>2
  <1>9. AnglesInv'
    <2> SUFFICES ASSUME NEW i \in 1..(n + 1)
                 PROVE  /\ S[i].p = M[i].p
                        /\ M[i].angle # None =>
                             \/ S[i].angle = M[i].angle
                             \/ S[i].angle = None /\ i < n + 1 /\ S[i + 1].angle = M[i].angle
      BY <1>2, <1>8 DEF AnglesInv
    <2> QED BY <1>6, <1>7, <1>8
  <1> QED BY <1>1, <1>2, <1>3, <1>9

\* What is meant after a segment, field by field.
LEMMA MeansIs ==
    ASSUME NEW c, NEW call, NEW ctl, NEW leaving, NEW arriving, NEW target, EndOf(call) = target,
           Means(c, call, ctl, leaving, arriving)
    PROVE  /\ meant'.at = target /\ meant'.kind = c /\ meant'.control = ctl /\ meant'.call = call
           /\ meant'.start = IF c = "M" THEN target ELSE meant.start
           /\ meant'.markers = Append(MeantFilled(c, leaving),
                                      [p |-> target, kind |-> c, angle |-> arriving])
           /\ meant' = [at |-> meant'.at, start |-> meant'.start, kind |-> meant'.kind,
                        control |-> meant'.control, call |-> meant'.call,
                        markers |-> meant'.markers]
  BY DEF Means, MeantFilled

\* What the segments have in common: the pen goes where SVG says, and a marker is
\* added on each side.
LEMMA SegmentKeeps ==
    ASSUME PathInv, NEW k \in Letters, NEW d \in Letters, NEW call, NEW mcall,
           NEW ctl, NEW target \in Place,
           NEW origin \in Place \cup {None}, NEW priorTo \in Place \cup {None},
           NEW leaving \in Angle, NEW arriving \in Angle,
           EndOf(call) = target, EndOf(mcall) = target,
           Segment(k, call, AddMarker(target, origin, priorTo)),
           Means(d, mcall, ctl, leaving, arriving),
           IF d = "M" THEN k = "M" /\ origin = None /\ start' = target
           ELSE origin # None /\ start' = start,
           arriving # None => origin # None /\ arriving = <<origin, target>>,
           Len(markers) > 0 /\ meant.markers[Len(markers)].kind = "M" /\ leaving # None =>
               IF priorTo # None THEN leaving = <<meant.at, priorTo>>
               ELSE origin # None /\ leaving = <<origin, target>>,
           control' \in Place, off' \in BOOLEAN,
           d \in {"C", "S", "Q"} \/ (d = "T" /\ ~off') => control' = ctl,
           d \in {"C", "S", "Q", "T"} => ctl \in Place,
           ~off' => call = mcall, arriving # None => d # "M"
    PROVE  PathInv'
  <1> USE DEF PathInv
  <1>1. /\ meant'.at = target /\ meant'.kind = d /\ meant'.control = ctl /\ meant'.call = mcall
        /\ meant'.start = IF d = "M" THEN target ELSE meant.start
        /\ meant'.markers = Append(MeantFilled(d, leaving),
                                   [p |-> target, kind |-> d, angle |-> arriving])
        /\ meant' = [at |-> meant'.at, start |-> meant'.start, kind |-> meant'.kind,
                     control |-> meant'.control, call |-> meant'.call,
                     markers |-> meant'.markers]
    BY MeansIs
  <1>2. /\ command = k /\ drawn' = call /\ current' = target
        /\ markers' = AddMarker(target, origin, priorTo)
        /\ first' = FALSE /\ UNCHANGED <<command, previousCommand, relative>>
    BY DEF Segment
  <1>3. /\ AnglesInv'
        /\ markers' \in Seq(Marker) /\ meant'.markers \in Seq(MeantMarker)
        /\ Len(markers') = Len(markers) + 1 /\ Len(meant'.markers) = Len(markers) + 1
        /\ markers'[Len(markers')].p = target
        /\ markers'[Len(markers')].angle = IF origin = None THEN None ELSE <<origin, target>>
        /\ meant'.markers[Len(markers')].kind = d
        /\ meant'.markers[Len(markers')].angle = arriving
    <2>1. PathTypeOK /\ PenInv /\ OpenInv /\ AnglesInv
      OBVIOUS
    <2>2. /\ markers' = AddMarker(target, origin, priorTo)
          /\ meant'.markers = Append(MeantFilled(d, leaving),
                                     [p |-> target, kind |-> d, angle |-> arriving])
      BY <1>1, <1>2
    <2>3. /\ arriving # None => origin # None /\ arriving = <<origin, target>>
          /\ Len(markers) > 0 /\ meant.markers[Len(markers)].kind = "M" /\ leaving # None =>
               IF priorTo # None THEN leaving = <<meant.at, priorTo>>
               ELSE origin # None /\ leaving = <<origin, target>>
      OBVIOUS
    <2> QED BY ONLY <2>1, <2>2, <2>3, BothAdded, target \in Place, origin \in Place \cup {None},
               priorTo \in Place \cup {None}, d \in Letters, leaving \in Angle, arriving \in Angle
  <1>4. start' \in Place /\ meant'.start \in Place
    BY <1>1 DEF PathTypeOK
  <1>5. PathTypeOK'
    <2>1. /\ command' \in Letters \cup {None} /\ previousCommand' \in Letters \cup {None}
          /\ relative' \in BOOLEAN /\ first' \in BOOLEAN /\ off' \in BOOLEAN
      BY <1>2 DEF PathTypeOK
    <2>2. /\ start' \in Place /\ control' \in Place /\ current' \in Place
          /\ meant'.at \in Place /\ meant'.kind \in Letters \cup {None}
      BY <1>1, <1>2, <1>4
    <2>3. meant'.kind \in {"C", "S", "Q", "T"} => meant'.control \in Place
      BY <1>1
    <2> QED BY <1>1, <1>3, <1>4, <2>1, <2>2, <2>3 DEF PathTypeOK
  <1>6. PenInv'
    <2>1. start' = meant'.start
      BY <1>1 DEF PenInv
    <2>2. meant'.kind = d /\ meant'.control = ctl /\ meant'.at = target /\ current' = target
      BY <1>1, <1>2
    <2>3. /\ meant'.kind \in {"C", "S", "Q"} => control' = ctl
          /\ meant'.kind = "T" /\ ~off' => control' = ctl
      BY ONLY <2>2, d \in {"C", "S", "Q"} \/ (d = "T" /\ ~off') => control' = ctl
    <2> QED BY <2>1, <2>2, <2>3 DEF PenInv
  <1>7. OpenInv'
    <2> DEFINE n == Len(markers')
    <2>1. n = Len(meant'.markers) /\ n > 0
      BY <1>3 DEF PathTypeOK
    <2>2. markers'[n].p = target /\ meant'.markers[n].kind = d /\ meant'.markers[n].angle = arriving
      BY <1>3
    <2>3. markers'[n].angle = None <=> d = "M"
      <3>1. markers'[n].angle = IF origin = None THEN None ELSE <<origin, target>>
        BY <1>3
      <3>2. origin # None => <<origin, target>> # None
        BY NoneApart
      <3> QED BY <3>1, <3>2
    <2>4. d = "M" => /\ arriving = None /\ target = meant'.at /\ start' = meant'.at
                     /\ meant'.kind = "M" /\ command' = "M"
      BY <1>1, <1>2
    <2> QED BY <2>1, <2>2, <2>3, <2>4 DEF OpenInv
  <1>8. DrawnAsMeant'
    BY <1>1, <1>2 DEF DrawnAsMeant
  <1> QED BY <1>3, <1>5, <1>6, <1>7, <1>8

\* A relative point is added to the same place by the parser and by SVG.
LEMMA Absolute ==
    ASSUME PathTypeOK, PenInv, NEW p \in Place
    PROVE  MakeAbsolute(p) = Meant(p) /\ MakeAbsolute(p) \in Place
  BY DEF MakeAbsolute, Meant, PathTypeOK, PenInv, Plus, Place

\* A control point is reflected as SVG says unless the parser strays, or the one
\* to be reflected is off itself.
LEMMA Reflections ==
    ASSUME PathTypeOK, PenInv, NEW kinds
    PROVE  /\ GetReflectedControlPoint \in Place
           /\ (kinds = {"C", "S"} \/ (kinds = {"Q", "T"} /\ ~(off /\ meant.kind = "T")))
              /\ ~Strays(kinds) => GetReflectedControlPoint = MeantReflection(kinds)
           /\ Strays(kinds) \in BOOLEAN
  <1>1. GetReflectedControlPoint \in Place
    BY DEF GetReflectedControlPoint, Reflected, PathTypeOK, Place
  <1>2. ASSUME ~Strays(kinds),
               kinds = {"C", "S"} \/ (kinds = {"Q", "T"} /\ ~(off /\ meant.kind = "T"))
        PROVE  GetReflectedControlPoint = MeantReflection(kinds)
    <2>1. current = meant.at
      BY DEF PenInv
    <2>2. CASE meant.kind \in kinds
      <3>1. previousCommand \in {"C", "S", "Q", "T"}
        BY <1>2, <2>2 DEF Strays
      <3>2. control = meant.control
        BY <1>2, <2>2 DEF PenInv
      <3> QED BY <2>1, <2>2, <3>1, <3>2 DEF GetReflectedControlPoint, MeantReflection
    <2>3. CASE meant.kind \notin kinds
      <3>1. previousCommand \notin {"C", "S", "Q", "T"}
        BY <1>2, <2>3 DEF Strays
      <3> QED BY <2>1, <2>3, <3>1 DEF GetReflectedControlPoint, MeantReflection
    <2> QED BY <2>2, <2>3
  <1>3. Strays(kinds) \in BOOLEAN
    BY DEF Strays
  <1> QED BY <1>1, <1>2, <1>3

\* Where a subpath has just begun nothing is reflected.
LEMMA OpenReflection ==
    ASSUME OpenInv, PathTypeOK, PenInv, first \/ command \notin {"M", "Z"},
           command \notin {"M", "Z"},
           Len(markers) > 0, meant.markers[Len(markers)].kind = "M", NEW kinds,
           kinds \in {{"C", "S"}, {"Q", "T"}}
    PROVE  GetReflectedControlPoint = meant.at /\ MeantReflection(kinds) = meant.at
  BY DEF OpenInv, PenInv, GetReflectedControlPoint, MeantReflection

\* A direction from a point to a point, or none, is an angle.
LEMMA NoLeaving == None \in Angle /\ \A a, b \in Place : <<a, b>> \in Angle /\ <<a, b>> # None
  BY NoneApart DEF Angle

\* Each operation of the parser keeps the invariant.
LEMMA MoveToKeeps == ASSUME PathInv, NEW p \in Point, MoveTo(p) PROVE PathInv'
  <1> DEFINE target == MakeAbsolute(p)
             call == <<"moveTo", target>>
             k == "M"
  <1>1. p \in Place
    BY PathAssumption DEF Place
  <1>2. target = Meant(p) /\ target \in Place
    BY <1>1, Absolute DEF PathInv
  <1>3. /\ Segment("M", <<"moveTo", target>>, AddMarker(target, None, None)) /\ start' = target
        /\ Means("M", <<"moveTo", target>>, None, None, None)
        /\ off' = FALSE /\ control' = control
    BY <1>2 DEF MoveTo
  <1>4. control \in Place
    BY DEF PathInv, PathTypeOK
  <1> HIDE DEF target
  <1>5. EndOf(<<"moveTo", target>>) = target
    BY EndOfCall
  <1>6. None \in Angle /\ None \in Place \cup {None}
    BY NoLeaving
  <1>7. control' \in Place /\ off' \in BOOLEAN
    BY <1>3, <1>4
  <1>8. /\ Segment(k, call, AddMarker(target, None, None)) /\ start' = target
        /\ Means(k, call, None, None, None) /\ EndOf(call) = target
    BY <1>3, <1>5
  <1>9. k = "M" /\ k \in Letters
    BY DEF Letters
  <1> HIDE DEF k, call
  <1>10. ~(k \in {"C", "S", "Q"} \/ (k = "T" /\ ~off'))
    BY <1>9
  <1>11. IF k = "M" THEN k = "M" /\ None = None /\ start' = target
         ELSE None # None /\ start' = start
    BY <1>9, <1>8
  <1> QED BY <1>2, <1>8, <1>9, <1>6, <1>7, <1>10, <1>11, SegmentKeeps

LEMMA ImplicitLineToKeeps == ASSUME PathInv, NEW p \in Point, ImplicitLineTo(p) PROVE PathInv'
  <1> DEFINE target == MakeAbsolute(p)
             arriving == IF start = current THEN <<meant.at, target>> ELSE None
             call == <<"lineTo", target>>
             k == "M"
             d == "L"
  <1>1. p \in Place
    BY PathAssumption DEF Place
  <1>2. target = Meant(p) /\ target \in Place
    BY <1>1, Absolute DEF PathInv
  <1>3. /\ Segment(k, call, AddMarker(target, start, None))
        /\ Means(d, call, None, <<meant.at, target>>, arriving)
        /\ off' = FALSE /\ start' = start /\ control' = control
    BY <1>2 DEF ImplicitLineTo
  <1>4. /\ start \in Place /\ control \in Place /\ meant.at \in Place /\ current = meant.at
        /\ start # None
    BY NoneApart DEF PathInv, PathTypeOK, PenInv
  <1>5. <<meant.at, target>> \in Angle /\ arriving \in Angle /\ None \in Angle
    BY <1>2, <1>4, NoLeaving
  <1>6. arriving # None => arriving = <<start, target>>
    BY <1>4
  <1>7. Len(markers) > 0 /\ meant.markers[Len(markers)].kind = "M" => start = meant.at
    BY DEF PathInv, OpenInv
  <1>8. control' \in Place /\ off' \in BOOLEAN
    BY <1>3, <1>4
  <1>9. EndOf(call) = target
    BY EndOfCall
  <1>10. k \in Letters /\ d \in Letters /\ d \notin {"M", "C", "S", "Q", "T"}
    BY DEF Letters
  <1>11. IF d = "M" THEN k = "M" /\ start = None /\ start' = target
         ELSE start # None /\ start' = start
    BY <1>3, <1>4, <1>10
  <1> HIDE DEF target, arriving, call, k, d
  <1> QED BY <1>2, <1>3, <1>4, <1>5, <1>6, <1>7, <1>8, <1>9, <1>10, <1>11, SegmentKeeps

LEMMA LineToKeeps ==
    ASSUME PathInv, NEW c \in {"L", "H", "V"}, NEW target \in Place, LineTo(c, target, target)
    PROVE  PathInv'
  <1> DEFINE call == <<"lineTo", target>>
  <1>1. /\ Segment(c, call, AddMarker(target, current, None))
        /\ Means(c, call, None, <<meant.at, target>>, <<meant.at, target>>)
        /\ off' = FALSE /\ start' = start /\ control' = control
    BY DEF LineTo
  <1>2. /\ current \in Place /\ control \in Place /\ meant.at \in Place /\ current = meant.at
        /\ current # None
    BY NoneApart DEF PathInv, PathTypeOK, PenInv
  <1>3. <<meant.at, target>> \in Angle /\ <<meant.at, target>> = <<current, target>>
    BY <1>2, NoLeaving
  <1>4. control' \in Place /\ off' \in BOOLEAN
    BY <1>1, <1>2
  <1>5. EndOf(call) = target
    BY EndOfCall
  <1>6. c \in Letters /\ c \notin {"M", "C", "S", "Q", "T"}
    BY DEF Letters
  <1>7. IF c = "M" THEN c = "M" /\ current = None /\ start' = target
        ELSE current # None /\ start' = start
    BY <1>1, <1>2, <1>6
  <1> HIDE DEF call
  <1> QED BY <1>1, <1>2, <1>3, <1>4, <1>5, <1>6, <1>7, SegmentKeeps

LEMMA CurveKeeps ==
    ASSUME PathInv, NEW c1 \in Control, NEW c2 \in Control, NEW p \in Point, Curve(c1, c2, p)
    PROVE  PathInv'
  <1> DEFINE p1 == MakeAbsolute(c1)
             cntrl == MakeAbsolute(c2)
             target == MakeAbsolute(p)
             d == "C"
             call == <<"bezierCurveTo", p1, cntrl, target>>
  <1>1. p \in Place /\ c1 \in Place /\ c2 \in Place
    BY PathAssumption DEF Place
  <1>2. /\ target = Meant(p) /\ p1 = Meant(c1) /\ cntrl = Meant(c2)
        /\ target \in Place /\ p1 \in Place /\ cntrl \in Place
    BY <1>1, Absolute DEF PathInv
  <1>3. /\ Segment(d, call, AddMarker(target, cntrl, p1))
        /\ Means(d, call, cntrl, <<meant.at, p1>>, <<cntrl, target>>)
        /\ control' = cntrl /\ off' = FALSE /\ start' = start
    BY <1>2 DEF Curve
  <1> HIDE DEF p1, cntrl, target, call, d
  <1>4. meant.at \in Place /\ cntrl # None /\ p1 # None
    BY <1>2, NoneApart DEF PathInv, PathTypeOK
  <1>5. <<meant.at, p1>> \in Angle /\ <<cntrl, target>> \in Angle
    BY <1>2, <1>4, NoLeaving
  <1>6. control' \in Place /\ off' \in BOOLEAN
    BY <1>2, <1>3
  <1>7. EndOf(call) = target
    <2>1. Len(call) = 4 /\ call[4] = target
      BY DEF call
    <2> QED BY <2>1 DEF EndOf
  <1>8. d \in Letters /\ d # "M"
    BY DEF Letters, d
  <1>9. IF d = "M" THEN d = "M" /\ cntrl = None /\ start' = target
         ELSE cntrl # None /\ start' = start
    BY <1>3, <1>8, <1>4
  <1> QED BY <1>2, <1>3, <1>4, <1>5, <1>6, <1>7, <1>8, <1>9, SegmentKeeps

LEMMA QuadraticKeeps ==
    ASSUME PathInv, NEW c1 \in Control, NEW p \in Point, Quadratic(c1, p)
    PROVE  PathInv'
  <1> DEFINE cntrl == MakeAbsolute(c1)
             target == MakeAbsolute(p)
             d == "Q"
             call == <<"quadraticCurveTo", cntrl, target>>
  <1>1. p \in Place /\ c1 \in Place
    BY PathAssumption DEF Place
  <1>2. target = Meant(p) /\ cntrl = Meant(c1) /\ target \in Place /\ cntrl \in Place
    BY <1>1, Absolute DEF PathInv
  <1>3. /\ Segment(d, call, AddMarker(target, cntrl, cntrl))
        /\ Means(d, call, cntrl, <<meant.at, cntrl>>, <<cntrl, target>>)
        /\ control' = cntrl /\ off' = FALSE /\ start' = start
    BY <1>2 DEF Quadratic
  <1> HIDE DEF cntrl, target, call, d
  <1>4. meant.at \in Place /\ cntrl # None
    BY <1>2, NoneApart DEF PathInv, PathTypeOK
  <1>5. <<meant.at, cntrl>> \in Angle /\ <<cntrl, target>> \in Angle
    BY <1>2, <1>4, NoLeaving
  <1>6. control' \in Place /\ off' \in BOOLEAN
    BY <1>2, <1>3
  <1>7. EndOf(call) = target
    <2>1. Len(call) = 3 /\ call[3] = target
      BY DEF call
    <2> QED BY <2>1 DEF EndOf
  <1>8. d \in Letters /\ d # "M"
    BY DEF Letters, d
  <1>9. IF d = "M" THEN d = "M" /\ cntrl = None /\ start' = target
         ELSE cntrl # None /\ start' = start
    BY <1>3, <1>8, <1>4
  <1> QED BY <1>2, <1>3, <1>4, <1>5, <1>6, <1>7, <1>8, <1>9, SegmentKeeps

\* A subpath that has just begun has no control point to reflect, for the parser
\* as for SVG.
LEMMA SmoothLeaves ==
    ASSUME PathInv, command \notin {"M", "Z"}, NEW kinds, kinds \in {{"C", "S"}, {"Q", "T"}},
           Len(markers) > 0, meant.markers[Len(markers)].kind = "M"
    PROVE  GetReflectedControlPoint = MeantReflection(kinds)
  BY OpenReflection DEF PathInv, OpenInv

LEMMA SmoothCurveKeeps ==
    ASSUME PathInv, NEW c2 \in Control, NEW p \in Point, SmoothCurve(c2, p)
    PROVE  PathInv'
  <1> DEFINE p1 == GetReflectedControlPoint
             q1 == MeantReflection({"C", "S"})
             cntrl == MakeAbsolute(c2)
             target == MakeAbsolute(p)
             d == "S"
             call == <<"bezierCurveTo", p1, cntrl, target>>
             mcall == <<"bezierCurveTo", q1, cntrl, target>>
  <1>1. p \in Place /\ c2 \in Place
    BY PathAssumption DEF Place
  <1>2. target = Meant(p) /\ cntrl = Meant(c2) /\ target \in Place /\ cntrl \in Place
    BY <1>1, Absolute DEF PathInv
  <1>3. /\ Segment(d, call, AddMarker(target, cntrl, p1))
        /\ Means(d, mcall, cntrl, <<meant.at, q1>>, <<cntrl, target>>)
        /\ control' = cntrl /\ off' = Strays({"C", "S"}) /\ start' = start
    BY <1>2 DEF SmoothCurve
  <1>4. /\ p1 \in Place /\ (~Strays({"C", "S"}) => p1 = q1)
        /\ Strays({"C", "S"}) \in BOOLEAN
    BY Reflections DEF PathInv
  <1>5. q1 \in Place
    BY DEF MeantReflection, Reflected, PathInv, PathTypeOK, PenInv, Place
  <1>6. Len(markers) > 0 /\ meant.markers[Len(markers)].kind = "M" => p1 = q1
    BY <1>3, SmoothLeaves DEF Segment
  <1> HIDE DEF p1, q1, cntrl, target, call, mcall, d
  <1>7. meant.at \in Place /\ cntrl # None /\ p1 # None
    BY <1>2, <1>4, NoneApart DEF PathInv, PathTypeOK
  <1>8. <<meant.at, q1>> \in Angle /\ <<cntrl, target>> \in Angle
    BY <1>2, <1>5, <1>7, NoLeaving
  <1>9. control' \in Place /\ off' \in BOOLEAN
    BY <1>2, <1>3, <1>4
  <1>10. EndOf(call) = target /\ EndOf(mcall) = target
    <2>1. Len(call) = 4 /\ call[4] = target /\ Len(mcall) = 4 /\ mcall[4] = target
      BY DEF call, mcall
    <2> QED BY <2>1 DEF EndOf
  <1>11. ~off' => call = mcall
    BY <1>3, <1>4 DEF call, mcall
  <1>12. Len(markers) > 0 /\ meant.markers[Len(markers)].kind = "M" =>
            <<meant.at, q1>> = <<meant.at, p1>>
    BY <1>6 DEF p1, q1
  <1>13. d \in Letters /\ d # "M"
    BY DEF Letters, d
  <1>14. IF d = "M" THEN d = "M" /\ cntrl = None /\ start' = target
         ELSE cntrl # None /\ start' = start
    BY <1>3, <1>13, <1>7
  <1> QED BY <1>2, <1>3, <1>4, <1>7, <1>8, <1>9, <1>10, <1>11, <1>12, <1>13, <1>14, SegmentKeeps

LEMMA SmoothQuadraticKeeps ==
    ASSUME PathInv, NEW p \in Point, SmoothQuadratic(p)
    PROVE  PathInv'
  <1> DEFINE cntrl == GetReflectedControlPoint
             through == MeantReflection({"Q", "T"})
             target == MakeAbsolute(p)
             d == "T"
             call == <<"quadraticCurveTo", cntrl, target>>
             mcall == <<"quadraticCurveTo", through, target>>
             arriving == IF off' THEN None ELSE <<through, target>>
  <1>1. p \in Place
    BY PathAssumption DEF Place
  <1>2. target = Meant(p) /\ target \in Place
    BY <1>1, Absolute DEF PathInv
  <1>3. /\ Segment(d, call, AddMarker(target, cntrl, cntrl))
        /\ Means(d, mcall, through, <<meant.at, through>>, arriving)
        /\ control' = cntrl /\ start' = start
        /\ off' = (Strays({"Q", "T"}) \/ (off /\ meant.kind = "T"))
    BY <1>2 DEF SmoothQuadratic
  <1>4. /\ cntrl \in Place /\ off' \in BOOLEAN
        /\ ~off' => cntrl = through
    BY <1>3, Reflections DEF PathInv, PathTypeOK
  <1>5. through \in Place
    BY DEF MeantReflection, Reflected, PathInv, PathTypeOK, PenInv, Place
  <1>6. Len(markers) > 0 /\ meant.markers[Len(markers)].kind = "M" => cntrl = through
    <2>1. command \notin {"M", "Z"}
      BY <1>3 DEF Segment
    <2> QED BY <2>1, SmoothLeaves
  <1> HIDE DEF cntrl, through, target, call, mcall, d
  <1>7. meant.at \in Place /\ cntrl # None
    BY <1>4, NoneApart DEF PathInv, PathTypeOK
  <1>8. <<meant.at, through>> \in Angle /\ arriving \in Angle
    BY <1>2, <1>5, <1>7, NoLeaving
  <1>9. control' \in Place
    BY <1>3, <1>4
  <1>10. EndOf(call) = target /\ EndOf(mcall) = target
    <2>1. Len(call) = 3 /\ call[3] = target /\ Len(mcall) = 3 /\ mcall[3] = target
      BY DEF call, mcall
    <2> QED BY <2>1 DEF EndOf
  <1>11. ~off' => call = mcall
    BY <1>4 DEF call, mcall
  <1>12. arriving # None => arriving = <<cntrl, target>>
    BY <1>4
  <1>13. Len(markers) > 0 /\ meant.markers[Len(markers)].kind = "M" =>
            <<meant.at, through>> = <<meant.at, cntrl>>
    BY <1>6
  <1>14. d \in Letters /\ d \notin {"M", "C", "S", "Q"}
    BY DEF Letters, d
  <1>15. IF d = "M" THEN d = "M" /\ cntrl = None /\ start' = target
         ELSE cntrl # None /\ start' = start
    BY <1>3, <1>7, <1>14
  <1>16. d \in {"C", "S", "Q"} \/ (d = "T" /\ ~off') => control' = through
    BY <1>3, <1>4, <1>14
  <1> HIDE DEF arriving
  <1> QED BY <1>2, <1>3, <1>4, <1>5, <1>7, <1>8, <1>9, <1>10, <1>11, <1>12, <1>13, <1>14,
             <1>15, <1>16, SegmentKeeps

LEMMA NextCommandKeeps ==
    ASSUME PathInv, NEW c \in Letters, NEW lower \in BOOLEAN, NextCommand(c, lower)
    PROVE  PathInv'
  <1> USE DEF PathInv
  <1>1. /\ previousCommand' = command /\ command' = c /\ relative' = lower /\ ~first
        /\ UNCHANGED markers
    BY DEF NextCommand, pen
  <1>2. previousCommand' \in Letters \cup {None} /\ command' \in Letters \cup {None}
    BY <1>1 DEF PathTypeOK
  <1>3. CASE c = "Z"
    <2>1. /\ current' = start /\ drawn' = <<"closePath">> /\ off' = FALSE /\ first' = FALSE
          /\ UNCHANGED <<start, control, markers>>
          /\ meant' = [meant EXCEPT !.at = meant.start, !.kind = "Z", !.call = <<"closePath">>]
      BY <1>3 DEF NextCommand
    <2>2. /\ meant'.at = meant.start /\ meant'.start = meant.start /\ meant'.kind = "Z"
          /\ meant'.call = <<"closePath">> /\ meant'.markers = meant.markers
          /\ meant'.control = meant.control
          /\ meant' = [at |-> meant'.at, start |-> meant'.start, kind |-> meant'.kind,
                       control |-> meant'.control, call |-> meant'.call,
                       markers |-> meant'.markers]
      BY <2>1 DEF PathTypeOK
    <2>3. PathTypeOK'
      BY <1>1, <1>2, <2>1, <2>2 DEF PathTypeOK, Letters
    <2>4. PenInv' /\ DrawnAsMeant' /\ AnglesInv'
      BY <2>1, <2>2 DEF PenInv, DrawnAsMeant, AnglesInv
    <2>5. OpenInv'
      BY <1>1, <1>3, <2>1, <2>2 DEF OpenInv, PenInv
    <2> QED BY <2>3, <2>4, <2>5
  <1>4. CASE c # "Z"
    <2>1. first' = TRUE /\ UNCHANGED <<start, control, current, drawn, markers, meant, off>>
      BY <1>4 DEF NextCommand, pen
    <2>2. PathTypeOK'
      BY <1>1, <1>2, <2>1 DEF PathTypeOK
    <2>3. PenInv' /\ DrawnAsMeant' /\ AnglesInv'
      BY <2>1 DEF PenInv, DrawnAsMeant, AnglesInv
    <2>4. OpenInv'
      BY <1>1, <2>1 DEF OpenInv
    <2> QED BY <2>2, <2>3, <2>4
  <1> QED BY <1>3, <1>4

\* The markers of an arc: two on each side, the open one is closed without an angle.
\* The markers SVG means when an arc closes the open one.
MeantClosed ==
    [i \in DOMAIN meant.markers |->
        IF i = Len(meant.markers) /\ meant.markers[i].kind = "M"
        THEN [meant.markers[i] EXCEPT !.kind = "A"] ELSE meant.markers[i]]

LEMMA ArcMarkers ==
    ASSUME PathInv, NEW m1 \in Marker, NEW m2 \in Marker,
           NEW q1 \in MeantMarker, NEW q2 \in MeantMarker,
           m1.p = q1.p, m2.p = q2.p, q1.angle = None, q2.angle = None,
           markers' = markers \o <<m1, m2>>,
           meant'.markers = MeantClosed \o <<q1, q2>>
    PROVE  /\ AnglesInv'
           /\ markers' \in Seq(Marker) /\ meant'.markers \in Seq(MeantMarker)
           /\ Len(markers') = Len(meant'.markers) /\ Len(markers') > 0
           /\ markers'[Len(markers')] = m2 /\ meant'.markers[Len(markers')] = q2
  <1> DEFINE n == Len(markers)
             closed == MeantClosed
             S == markers'
             M == meant'.markers
  <1>1. /\ n \in Nat /\ n = Len(meant.markers) /\ DOMAIN markers = 1..n
        /\ meant.markers \in Seq(MeantMarker) /\ markers \in Seq(Marker)
        /\ DOMAIN meant.markers = 1..n
    BY DEF PathInv, PathTypeOK, OpenInv
  <1>2. /\ closed \in Seq(MeantMarker) /\ Len(closed) = n
        /\ \A i \in 1..n : closed[i].p = meant.markers[i].p
                           /\ closed[i].angle = meant.markers[i].angle
    <2>1. \A i \in 1..n : [meant.markers[i] EXCEPT !.kind = "A"] \in MeantMarker
      <3> SUFFICES ASSUME NEW i \in 1..n
                   PROVE  [meant.markers[i] EXCEPT !.kind = "A"] \in MeantMarker
        OBVIOUS
      <3>1. meant.markers[i] \in MeantMarker
        BY <1>1
      <3> QED BY <3>1 DEF MeantMarker, Letters
    <2> USE DEF MeantClosed
    <2>2. \A i \in 1..n : closed[i] \in MeantMarker
      BY <1>1, <2>1
    <2>3. closed = [i \in 1..n |-> closed[i]]
      BY <1>1
    <2>4. closed \in Seq(MeantMarker) /\ Len(closed) = n
      <3>1. n \in Nat
        BY <1>1
      <3> HIDE DEF n, closed
      <3> QED BY ONLY <3>1, <2>2, <2>3
    <2>5. ASSUME NEW i \in 1..n
          PROVE  closed[i].p = meant.markers[i].p /\ closed[i].angle = meant.markers[i].angle
      <3>1. meant.markers[i] \in MeantMarker
        BY <1>1
      <3> QED BY <1>1, <3>1 DEF MeantMarker
    <2> QED BY <2>4, <2>5
  <1>3. /\ S \in Seq(Marker) /\ Len(S) = n + 2
        /\ \A i \in 1..n : S[i] = markers[i]
        /\ S[n + 1] = m1 /\ S[n + 2] = m2
    <2>1. /\ <<m1, m2>> \in Seq(Marker) /\ Len(<<m1, m2>>) = 2
          /\ <<m1, m2>>[1] = m1 /\ <<m1, m2>>[2] = m2
      OBVIOUS
    <2> QED BY <1>1, <2>1, ConcatProperties
  <1>4. /\ M \in Seq(MeantMarker) /\ Len(M) = n + 2
        /\ \A i \in 1..n : M[i] = closed[i]
        /\ M[n + 1] = q1 /\ M[n + 2] = q2
    <2>1. /\ <<q1, q2>> \in Seq(MeantMarker) /\ Len(<<q1, q2>>) = 2
          /\ <<q1, q2>>[1] = q1 /\ <<q1, q2>>[2] = q2
      OBVIOUS
    <2> QED BY <1>1, <1>2, <2>1, ConcatProperties
  <1> HIDE DEF S, M
  <1>5. ASSUME NEW i \in 1..n
        PROVE  /\ S[i].p = M[i].p
               /\ M[i].angle # None =>
                    \/ S[i].angle = M[i].angle
                    \/ S[i].angle = None /\ i < n + 2 /\ S[i + 1].angle = M[i].angle
    <2>1. S[i] = markers[i] /\ M[i].p = meant.markers[i].p /\ M[i].angle = meant.markers[i].angle
      BY <1>2, <1>3, <1>4
    <2>2. i < n => S[i + 1] = markers[i + 1]
      BY <1>1, <1>3
    <2>3. /\ markers[i].p = meant.markers[i].p
          /\ meant.markers[i].angle # None =>
               \/ markers[i].angle = meant.markers[i].angle
               \/ markers[i].angle = None /\ i < n
                  /\ markers[i + 1].angle = meant.markers[i].angle
      BY <1>1 DEF PathInv, AnglesInv
    <2>4. i < n + 2
      BY <1>1
    <2> QED BY <2>1, <2>2, <2>3, <2>4
  <1>6. /\ S[n + 1].p = M[n + 1].p /\ M[n + 1].angle = None
        /\ S[n + 2].p = M[n + 2].p /\ M[n + 2].angle = None
    BY <1>3, <1>4
  <1>7. /\ n \in Nat
        /\ \A i \in 1..(n + 2) : i \in 1..n \/ i = n + 1 \/ i = n + 2
    <2>1. n \in Nat
      BY <1>1
    <2> HIDE DEF n
    <2> QED BY <2>1
  <1>8. AnglesInv'
    <2> SUFFICES ASSUME NEW i \in 1..(n + 2)
                 PROVE  /\ S[i].p = M[i].p
                        /\ M[i].angle # None =>
                             \/ S[i].angle = M[i].angle
                             \/ S[i].angle = None /\ i < n + 2 /\ S[i + 1].angle = M[i].angle
      <3>1. DOMAIN markers' = 1..(n + 2) /\ Len(markers') = n + 2
        BY <1>1, <1>3 DEF S
      <3> QED BY <3>1 DEF AnglesInv, S, M
    <2> QED BY <1>5, <1>6, <1>7
  <1>9. Len(S) = Len(M) /\ Len(S) > 0 /\ S[Len(S)] = m2 /\ M[Len(S)] = q2
    BY <1>3, <1>4, <1>7
  <1> QED BY <1>3, <1>4, <1>8, <1>9 DEF S, M

LEMMA ArcKeeps == ASSUME PathInv, NEW p \in Point, Arc(p) PROVE PathInv'
  <1> DEFINE target == MakeAbsolute(p)
             at == <<"half way", current, target>>
             angle == <<"arc", current, target>>
             m1 == [p |-> at, angle |-> angle]
             m2 == [p |-> target, angle |-> angle]
             q1 == [p |-> at, kind |-> "A", angle |-> None]
             q2 == [p |-> target, kind |-> "A", angle |-> None]
             closed == MeantClosed
  <1>1. p \in Place
    BY PathAssumption DEF Place
  <1>2. target = Meant(p) /\ target \in Place
    BY <1>1, Absolute DEF PathInv
  <1>3. current = meant.at /\ current \in Place /\ start = meant.start
    BY DEF PathInv, PenInv, PathTypeOK
  <1>4. /\ Segment("A", <<"arc", current, target>>, markers \o <<m1, m2>>)
        /\ meant' = [meant EXCEPT !.at = target, !.kind = "A", !.control = None,
                                  !.call = <<"arc", current, target>>,
                                  !.markers = closed \o <<q1, [q1 EXCEPT !.p = target]>>]
        /\ off' = FALSE /\ UNCHANGED <<start, control>>
    BY <1>2, <1>3 DEF Arc, MeantClosed
  <1>5. [q1 EXCEPT !.p = target] = q2
    <2> HIDE DEF at, target
    <2> QED OBVIOUS
  <1>6. /\ meant'.at = target /\ meant'.kind = "A" /\ meant'.call = <<"arc", current, target>>
        /\ meant'.start = meant.start /\ meant'.markers = closed \o <<q1, q2>>
        /\ meant' = [at |-> meant'.at, start |-> meant'.start, kind |-> meant'.kind,
                     control |-> meant'.control, call |-> meant'.call,
                     markers |-> meant'.markers]
    <2> HIDE DEF q1, q2, closed, target
    <2> QED BY <1>4, <1>5 DEF PathInv, PathTypeOK
  <1>7. /\ drawn' = <<"arc", current, target>> /\ current' = EndOf(<<"arc", current, target>>)
        /\ markers' = markers \o <<m1, m2>> /\ first' = FALSE
        /\ UNCHANGED <<command, previousCommand, relative>>
    BY <1>4 DEF Segment
  <1>8. EndOf(<<"arc", current, target>>) = target
    <2> DEFINE call == <<"arc", current, target>>
    <2>1. Len(call) = 3 /\ call[3] = target
      OBVIOUS
    <2> QED BY <2>1 DEF EndOf
  <1>9. m1 \in Marker /\ m2 \in Marker
    <2>1. at \in MarkerPlace /\ target \in MarkerPlace /\ angle \in Angle
      BY <1>2, <1>3 DEF MarkerPlace, Angle
    <2> HIDE DEF at, target, angle
    <2> QED BY <2>1 DEF Marker
  <1>10. q1 \in MeantMarker /\ q2 \in MeantMarker
    <2>1. at \in MarkerPlace /\ target \in MarkerPlace /\ None \in Angle
      BY <1>2, <1>3 DEF MarkerPlace, Angle
    <2> HIDE DEF at, target
    <2> QED BY <2>1 DEF MeantMarker, Letters
  <1>11. angle # None
    BY <1>2, <1>3, NoneApart
  <1>12. /\ m1.p = q1.p /\ m2.p = q2.p /\ q1.angle = None /\ q2.angle = None
         /\ m2.angle = angle /\ q2.kind = "A"
    <2> HIDE DEF target, angle, at
    <2> QED OBVIOUS
  <1> HIDE DEF m1, m2, q1, q2, target, angle, at
  <1>13. /\ AnglesInv'
         /\ markers' \in Seq(Marker) /\ meant'.markers \in Seq(MeantMarker)
         /\ Len(markers') = Len(meant'.markers) /\ Len(markers') > 0
         /\ markers'[Len(markers')] = m2 /\ meant'.markers[Len(markers')] = q2
    <2> QED BY <1>6, <1>7, <1>9, <1>10, <1>12, ArcMarkers
  <1> HIDE DEF closed
  <1>14. PathTypeOK'
    <2>1. meant'.kind \in Letters /\ meant'.kind \notin {"C", "S", "Q", "T"}
      BY <1>6 DEF Letters
    <2>2. /\ meant'.at \in Place /\ meant'.start \in Place /\ current' \in Place
          /\ start' \in Place /\ control' \in Place /\ off' \in BOOLEAN
          /\ command' \in Letters \cup {None} /\ previousCommand' \in Letters \cup {None}
          /\ relative' \in BOOLEAN /\ first' \in BOOLEAN
      BY <1>2, <1>4, <1>6, <1>7, <1>8 DEF PathInv, PathTypeOK
    <2> QED BY <1>6, <1>13, <2>1, <2>2 DEF PathTypeOK
  <1>15. PenInv' /\ DrawnAsMeant'
    BY <1>3, <1>4, <1>6, <1>7, <1>8 DEF PenInv, DrawnAsMeant
  <1>16. OpenInv'
    <2>1. markers'[Len(markers')].angle = angle /\ meant'.markers[Len(markers')].kind = "A"
      BY <1>12, <1>13
    <2> QED BY <1>11, <1>13, <2>1 DEF OpenInv
  <1> QED BY <1>13, <1>14, <1>15, <1>16 DEF PathInv

\* The invariant holds when the parser is reset.
LEMMA PathInvInit == PathInit => PathInv
  <1> SUFFICES ASSUME PathInit PROVE PathInv
    OBVIOUS
  <1>1. /\ command = None /\ previousCommand = None /\ relative = FALSE /\ first = FALSE
        /\ start = Origin /\ control = Origin /\ current = Origin /\ markers = <<>>
        /\ meant.at = Origin /\ meant.start = Origin /\ meant.kind = None
        /\ meant.control = None /\ meant.call = drawn /\ meant.markers = <<>> /\ off = FALSE
        /\ meant = [at |-> meant.at, start |-> meant.start, kind |-> meant.kind,
                    control |-> meant.control, call |-> meant.call, markers |-> meant.markers]
    BY DEF PathInit
  <1>2. Origin \in Place
    BY DEF Origin, Place
  <1>3. None \notin {"C", "S", "Q", "T"}
    BY NoneApart DEF Letters
  <1>4. PathTypeOK
    <2>1. markers \in Seq(Marker) /\ meant.markers \in Seq(MeantMarker)
      BY <1>1
    <2>2. /\ command \in Letters \cup {None} /\ previousCommand \in Letters \cup {None}
          /\ relative \in BOOLEAN /\ first \in BOOLEAN /\ off \in BOOLEAN
          /\ start \in Place /\ control \in Place /\ current \in Place
          /\ meant.at \in Place /\ meant.start \in Place /\ meant.kind \in Letters \cup {None}
      BY <1>1, <1>2
    <2>3. meant.kind \notin {"C", "S", "Q", "T"}
      BY <1>1, <1>3
    <2> QED BY <1>1, <2>1, <2>2, <2>3 DEF PathTypeOK
  <1>5. PenInv /\ DrawnAsMeant
    BY <1>1, <1>3 DEF PenInv, DrawnAsMeant
  <1>6. Len(markers) = 0 /\ Len(meant.markers) = 0 /\ DOMAIN markers = {}
    BY <1>1
  <1>7. OpenInv /\ AnglesInv
    BY <1>6 DEF OpenInv, AnglesInv
  <1> QED BY <1>4, <1>5, <1>7 DEF PathInv

\* Every step of the parser keeps it.
LEMMA PathInvNext == PathInv /\ [PathNext]_pathVars => PathInv'
  <1> SUFFICES ASSUME PathInv, [PathNext]_pathVars PROVE PathInv'
    OBVIOUS
  <1>1. ASSUME NEW c \in Letters, NEW lower \in BOOLEAN, NextCommand(c, lower)
        PROVE  PathInv'
    BY <1>1, NextCommandKeeps
  <1>2. ASSUME NEW p \in Point, Line(p) \/ Horizontal(p) \/ Vertical(p) PROVE PathInv'
    <2>1. p \in Place
      BY PathAssumption DEF Place
    <2>2. MakeAbsolute(p) = Meant(p) /\ MakeAbsolute(p) \in Place
      BY <2>1, Absolute DEF PathInv
    <2>3. CASE Line(p)
      BY <2>2, <2>3, LineToKeeps DEF Line
    <2>4. CASE Horizontal(p)
      <3> DEFINE target == <<(IF relative THEN current[1] ELSE 0) + p[1], current[2]>>
      <3>1. target \in Place /\ target = <<Meant(p)[1], meant.at[2]>>
        BY <2>1 DEF Meant, Plus, PathInv, PathTypeOK, PenInv, Place
      <3>2. LineTo("H", target, target)
        BY <2>4, <3>1 DEF Horizontal
      <3> HIDE DEF target
      <3> QED BY <3>1, <3>2, LineToKeeps
    <2>5. CASE Vertical(p)
      <3> DEFINE target == <<current[1], (IF relative THEN current[2] ELSE 0) + p[2]>>
      <3>1. target \in Place /\ target = <<meant.at[1], Meant(p)[2]>>
        BY <2>1 DEF Meant, Plus, PathInv, PathTypeOK, PenInv, Place
      <3>2. LineTo("V", target, target)
        BY <2>5, <3>1 DEF Vertical
      <3> HIDE DEF target
      <3> QED BY <3>1, <3>2, LineToKeeps
    <2> QED BY <1>2, <2>3, <2>4, <2>5
  <1>3. ASSUME NEW p \in Point,
               MoveTo(p) \/ ImplicitLineTo(p) \/ SmoothQuadratic(p) \/ Arc(p)
        PROVE  PathInv'
    BY <1>3, MoveToKeeps, ImplicitLineToKeeps, SmoothQuadraticKeeps, ArcKeeps
  <1>4. ASSUME NEW p \in Point, NEW c2 \in Control, SmoothCurve(c2, p) \/ Quadratic(c2, p)
        PROVE  PathInv'
    BY <1>4, SmoothCurveKeeps, QuadraticKeeps
  <1>5. ASSUME NEW p \in Point, NEW c2 \in Control, NEW c1 \in Control, Curve(c1, c2, p)
        PROVE  PathInv'
    BY <1>5, CurveKeeps
  <1>6. ASSUME UNCHANGED pathVars PROVE PathInv'
    <2>1. UNCHANGED <<command, previousCommand, relative, first, start, control, current,
                      markers, drawn, meant, off>>
      BY <1>6 DEF pathVars, pen
    <2>2. PathTypeOK' /\ PenInv'
      BY <2>1 DEF PathInv, PathTypeOK, PenInv
    <2>3. OpenInv'
      BY <2>1 DEF PathInv, OpenInv
    <2>4. AnglesInv' /\ DrawnAsMeant'
      BY <2>1 DEF PathInv, AnglesInv, DrawnAsMeant
    <2> QED BY <2>2, <2>3, <2>4 DEF PathInv
  <1> QED BY <1>1, <1>2, <1>3, <1>4, <1>5, <1>6 DEF PathNext

\* The angle that GetMarkerAngles finds is that of the marker, or of the next one.
LEMMA NextAngle ==
    ASSUME PathTypeOK, OpenInv, AnglesInv
    PROVE  MarkersFollowThePath
  <1> DEFINE n == Len(markers)
             GivenAfter(i) == {j \in i..n : markers[j].angle # None}
             NextGiven(i) == CHOOSE j \in GivenAfter(i) : \A k \in GivenAfter(i) : j <= k
  <1>1. n \in Nat /\ DOMAIN markers = 1..n /\ n = Len(meant.markers)
    BY DEF PathTypeOK, OpenInv
  <1>2. ASSUME NEW i \in 1..n, meant.markers[i].angle # None
        PROVE  GetMarkerAngles[i] = meant.markers[i].angle
    <2>1. GetMarkerAngles[i] = IF GivenAfter(i) = {} THEN None ELSE markers[NextGiven(i)].angle
      BY <1>1 DEF GetMarkerAngles
    <2>2. ASSUME NEW m \in GivenAfter(i), \A k \in GivenAfter(i) : m <= k,
                 markers[m].angle = meant.markers[i].angle
          PROVE  GetMarkerAngles[i] = meant.markers[i].angle
      <3>1. NextGiven(i) \in GivenAfter(i) /\ \A k \in GivenAfter(i) : NextGiven(i) <= k
        BY <2>2
      <3>2. NextGiven(i) \in Int /\ m \in Int
        BY <1>1, <3>1
      <3>3. NextGiven(i) = m
        <4> HIDE DEF NextGiven, GivenAfter
        <4> QED BY <2>2, <3>1, <3>2
      <3> QED BY <2>1, <2>2, <3>3
    <2>3. CASE markers[i].angle = meant.markers[i].angle
      <3>1. i \in GivenAfter(i) /\ \A k \in GivenAfter(i) : i <= k
        BY <1>1, <1>2, <2>3
      <3> QED BY <2>2, <2>3, <3>1
    <2>4. CASE /\ markers[i].angle = None /\ i < n
               /\ markers[i + 1].angle = meant.markers[i].angle
      <3>1. i + 1 \in GivenAfter(i) /\ \A k \in GivenAfter(i) : i + 1 <= k
        BY <1>1, <1>2, <2>4
      <3> HIDE DEF GivenAfter
      <3> QED BY <2>2, <2>4, <3>1
    <2> QED BY <1>1, <1>2, <2>3, <2>4 DEF AnglesInv
  <1> QED BY <1>1, <1>2 DEF MarkersFollowThePath, AnglesInv

\* Every segment is drawn as SVG says unless its control point is off, for any path:
\* DrawnAsMeant of the run.
THEOREM PathsDrawnAsMeant == PathSpec => []DrawnAsMeant
  <1>1. PathInv => DrawnAsMeant
    BY DEF PathInv
  <1> QED BY <1>1, PathInvInit, PathInvNext, PTL DEF PathSpec

\* Every point has its marker with the angle SVG means, for any path:
\* MarkersFollowThePath of the run.
THEOREM PathMarkersFollow == PathSpec => []MarkersFollowThePath
  <1>1. PathInv => MarkersFollowThePath
    BY NextAngle DEF PathInv
  <1> QED BY <1>1, PathInvInit, PathInvNext, PTL DEF PathSpec

-----------------------------------------------------------------------------
(* Colours.                                                                *)

\* The fills are texts or none; frames are counted.
PaintTypeOK ==
    /\ fill \in [{"g", "shape", "sibling"} -> Text \cup {NoText}]
    /\ frame \in Nat
    /\ from \in Texts /\ to \in Texts

\* What is painted is the fill of now; the shape shows the value of the frame.
ShapeInv ==
    /\ painted = [e \in {"shape", "sibling"} |-> Painted(fill, opacity, e)]
    /\ frame > 0 => Style(fill, "shape", NoText) = CalcValue(frame)

\* The fill of the group changes only where the property handed out is its own.
GroupInv ==
    /\ fill.sibling = NoText /\ given.sibling = NoText
    /\ fill.shape = NoText => given.shape = NoText
    /\ fill.g = given.g \/ (attributeType = "CSS" /\ given.shape = NoText /\ given.g # NoText)

\* The inductive invariant of a frame.
PaintInv == PaintTypeOK /\ ShapeInv /\ GroupInv

\* A name stands for a number.
LEMMA NamedColours == \A name \in DOMAIN simple_colors : simple_colors[name] \in Int
  BY DEF simple_colors

\* What RGBColor reads of a text are numbers, whatever form the text has.
LEMMA ChannelsRead ==
    ASSUME NEW text \in Text, NEW i \in 1..3, Channels(text) # <<>>
    PROVE  Channels(text)[i] \in Int
  <1>1. CASE text.form = "name"
    <2> DEFINE n == simple_colors[text.name]
    <2>1. text.name \in DOMAIN simple_colors
      BY <1>1 DEF Text
    <2>2. n \in Int
      BY <2>1, NamedColours
    <2>3. Channels(text) = <<n \div 65536, (n \div 256) % 256, n % 256>>
      BY <1>1 DEF Channels, Named
    <2> HIDE DEF n
    <2>4. n \div 65536 \in Int /\ (n \div 256) % 256 \in Int /\ n % 256 \in Int
      BY <2>2
    <2> QED BY <2>3, <2>4
  <1>2. CASE text.form = "rgb"
    <2>1. text.n \in [1..3 -> Int]
      BY <1>2 DEF Text
    <2>2. Channels(text) = text.n
      BY <1>2 DEF Channels
    <2> QED BY <2>1, <2>2
  <1>3. CASE text.form = "word"
    <2>1. text.d \in [1..3 -> 0..NoDigit] \/ text.d \in [1..6 -> 0..NoDigit]
      BY <1>3 DEF Text
    <2>2. \A d, e \in 0..NoDigit : ParseInt16(d, e) \in Int
      BY DEF ParseInt16, NoDigit, NoNumber
    <2>3. CASE text.d \in [1..3 -> 0..NoDigit]
      <3>1. Len(text.d) = 3
        BY <2>3
      <3>2. Channels(text) = [j \in 1..3 |-> ParseInt16(text.d[j], text.d[j])]
        BY <1>3, <3>1 DEF Channels
      <3> QED BY <2>2, <2>3, <3>2
    <2>4. CASE text.d \in [1..6 -> 0..NoDigit]
      <3>1. Len(text.d) = 6
        BY <2>4
      <3>2. Channels(text) = [j \in 1..3 |-> ParseInt16(text.d[2 * j - 1], text.d[2 * j])]
        BY <1>3, <3>1 DEF Channels
      <3>3. 2 * i - 1 \in 1..6 /\ 2 * i \in 1..6
        OBVIOUS
      <3>4. text.d[2 * i - 1] \in 0..NoDigit /\ text.d[2 * i] \in 0..NoDigit
        BY <2>4, <3>3
      <3>5. Channels(text)[i] = ParseInt16(text.d[2 * i - 1], text.d[2 * i])
        BY <3>2
      <3> QED BY <2>2, <3>4, <3>5
    <2> QED BY <2>1, <2>3, <2>4
  <1>4. CASE text.form \notin {"name", "rgb", "word"}
    BY <1>4 DEF Channels
  <1> QED BY <1>1, <1>2, <1>3, <1>4

\* "validate/cleanup values" leaves bytes.
LEMMA RGBColorRange ==
    ASSUME NEW text \in Text, NEW i \in 1..3
    PROVE  RGBColor(text).c[i] \in 0..255
  <1>1. CASE Channels(text) = <<>>
    BY <1>1 DEF RGBColor
  <1>2. CASE Channels(text) # <<>>
    <2>1. RGBColor(text).c[i] = Cleaned(Channels(text)[i])
      BY <1>2 DEF RGBColor
    <2>2. Channels(text)[i] \in Int
      BY <1>2, ChannelsRead
    <2>3. \A v \in Int : Cleaned(v) \in 0..255
      BY DEF Cleaned
    <2> QED BY <2>1, <2>2, <2>3
  <1> QED BY <1>1, <1>2

\* A quotient of what lies between two multiples lies between the factors.
LEMMA QuotientBetween ==
    ASSUME NEW a \in Int, NEW b \in Int, NEW w \in Int, NEW F \in Nat \ {0},
           a * F <= w, w <= b * F
    PROVE  w \div F \in Int /\ a <= w \div F /\ w \div F <= b
  <1> DEFINE r == w \div F
  <1>1. r \in Int /\ F * r <= w /\ w < F * r + F
    OBVIOUS
  <1> HIDE DEF r
  <1>2. F * a < F * (r + 1) /\ F * r <= F * b
    BY <1>1
  <1>3. a < r + 1 /\ r <= b
    BY <1>1, <1>2
  <1> QED BY <1>1, <1>3 DEF r

\* A product grows with its factor.
LEMMA ProductBetween ==
    ASSUME NEW d \in Nat, NEW k \in Nat, NEW F \in Nat, k <= F
    PROVE  0 <= d * k /\ d * k <= d * F
  <1> DEFINE e == F - k
  <1>1. e \in Nat /\ F = k + e
    OBVIOUS
  <1> HIDE DEF e
  <1>2. d * F = d * k + d * e /\ d * k \in Nat /\ d * e \in Nat
    BY <1>1
  <1> QED BY <1>2

\* Between two bytes no truncated quotient leaves them, and the last one is the
\* second.
LEMMA TweenBetween ==
    ASSUME NEW a \in 0..255, NEW b \in 0..255, NEW k \in 0..Frames
    PROVE  LET v == Truncated(a * Frames + (b - a) * k, Frames)
           IN  /\ v \in 0..255 /\ Between(v, a, b)
               /\ k = Frames => v = b
  <1> DEFINE F == Frames
             w == a * F + (b - a) * k
             v == Truncated(w, F)
  <1>1. F \in Nat /\ F > 0 /\ k \in Nat /\ k <= F
    BY PaintAssumption
  <1>2. w \in Int
    BY <1>1
  <1>3. ASSUME a <= b PROVE v \in 0..255 /\ Between(v, a, b)
    <2>1. (b - a) * k >= 0 /\ (b - a) * k <= (b - a) * F
      BY <1>1, <1>3, ProductBetween, b - a \in Nat
    <2>2. a * F <= w /\ w <= b * F
      BY <1>1, <2>1
    <2>3. w >= 0
      BY <1>1, <2>2
    <2> HIDE DEF w, F
    <2>4. v = w \div F
      BY <1>2, <2>3 DEF Truncated
    <2>5. w \div F \in Int /\ a <= w \div F /\ w \div F <= b
      BY <1>1, <1>2, <2>2, QuotientBetween
    <2> HIDE DEF v
    <2>6. v \in Int /\ a <= v /\ v <= b
      BY <2>4, <2>5
    <2> QED BY <2>6 DEF Between
  <1>4. ASSUME b <= a PROVE v \in 0..255 /\ Between(v, a, b)
    <2>1. (a - b) * k >= 0 /\ (a - b) * k <= (a - b) * F
      BY <1>1, <1>4, ProductBetween, a - b \in Nat
    <2>2. b * F <= w /\ w <= a * F
      BY <1>1, <2>1
    <2>3. w >= 0
      BY <1>1, <2>2
    <2> HIDE DEF w, F
    <2>4. v = w \div F
      BY <1>2, <2>3 DEF Truncated
    <2>5. w \div F \in Int /\ b <= w \div F /\ w \div F <= a
      BY <1>1, <1>2, <2>2, QuotientBetween
    <2> HIDE DEF v
    <2>6. v \in Int /\ b <= v /\ v <= a
      BY <2>4, <2>5
    <2> QED BY <2>6 DEF Between
  <1>5. ASSUME k = F PROVE v = b
    <2>1. w = b * F /\ w >= 0
      BY <1>1, <1>5
    <2> HIDE DEF w, F
    <2>2. v = w \div F
      BY <1>2, <2>1 DEF Truncated
    <2>3. w \div F <= b /\ b <= w \div F /\ w \div F \in Int
      BY <1>1, <1>2, <2>1, QuotientBetween
    <2> HIDE DEF v
    <2> QED BY <2>2, <2>3
  <1>6. a <= b \/ b <= a
    OBVIOUS
  <1> HIDE DEF v
  <1>7. (v \in 0..255 /\ Between(v, a, b)) /\ (k = F => v = b)
    BY <1>3, <1>4, <1>5, <1>6
  <1> QED BY <1>7 DEF v

\* A tweened channel is a number, at any frame.
LEMMA TweenIsInt ==
    ASSUME NEW a \in 0..255, NEW b \in 0..255, NEW k \in Nat
    PROVE  Truncated(a * Frames + (b - a) * k, Frames) \in Int
  <1> DEFINE w == a * Frames + (b - a) * k
  <1>1. w \in Int /\ Frames \in Nat \ {0}
    BY PaintAssumption
  <1> HIDE DEF w
  <1>2. Truncated(w, Frames) \in Int
    BY <1>1 DEF Truncated
  <1> QED BY <1>2 DEF w

\* The value of a frame is a text again, and its channels are those of the tween.
LEMMA CalcValueIs ==
    ASSUME from \in Text, to \in Text, NEW k \in Nat
    PROVE  /\ CalcValue(k) \in Text
           /\ RGBColor(from).ok /\ RGBColor(to).ok =>
                /\ CalcValue(k).form = "rgb"
                /\ \A i \in 1..3 : CalcValue(k).n[i] =
                     Truncated(RGBColor(from).c[i] * Frames
                                 + (RGBColor(to).c[i] - RGBColor(from).c[i]) * k, Frames)
  <1> DEFINE a(i) == RGBColor(from).c[i]
             b(i) == RGBColor(to).c[i]
             tween == [i \in 1..3 |-> Truncated(a(i) * Frames + (b(i) - a(i)) * k, Frames)]
  <1>1. CASE RGBColor(from).ok /\ RGBColor(to).ok
    <2>1. CalcValue(k) = [form |-> "rgb", n |-> tween]
      BY <1>1 DEF CalcValue
    <2>2. ASSUME NEW i \in 1..3
          PROVE  Truncated(a(i) * Frames + (b(i) - a(i)) * k, Frames) \in Int
      <3>1. a(i) \in 0..255 /\ b(i) \in 0..255
        BY RGBColorRange
      <3> HIDE DEF a, b
      <3> QED BY <3>1, TweenIsInt
    <2>3. tween \in [1..3 -> Int]
      BY <2>2
    <2>4. \A i \in 1..3 : tween[i] = Truncated(a(i) * Frames + (b(i) - a(i)) * k, Frames)
      OBVIOUS
    <2> HIDE DEF tween
    <2>5. CalcValue(k) \in Text
      BY <2>1, <2>3 DEF Text
    <2> QED BY <2>1, <2>4, <2>5
  <1>2. CASE ~(RGBColor(from).ok /\ RGBColor(to).ok)
    BY <1>2 DEF CalcValue
  <1> QED BY <1>1, <1>2

\* The invariant holds before the animation.
LEMMA PaintInvInit == PaintInit => PaintInv
  <1> SUFFICES ASSUME PaintInit PROVE PaintInv
    OBVIOUS
  <1>1. Texts \subseteq Text
    BY PaintAssumption
  <1>2. PaintTypeOK
    BY <1>1 DEF PaintInit, PaintTypeOK
  <1>3. ShapeInv
    BY DEF PaintInit, ShapeInv
  <1>4. GroupInv
    BY DEF PaintInit, GroupInv
  <1> QED BY <1>2, <1>3, <1>4 DEF PaintInv

\* Every frame keeps it, whichever fill is written to.
LEMMA PaintInvNext == PaintInv /\ [PaintNext]_paintVars => PaintInv'
  <1> SUFFICES ASSUME PaintInv, [PaintNext]_paintVars PROVE PaintInv'
    OBVIOUS
  <1>1. CASE Frame
    <2> DEFINE k == frame + 1
               x == Target(fill)
    <2>1. /\ frame' = k /\ fill' = [fill EXCEPT ![x] = CalcValue(k)]
          /\ painted' = [e \in {"shape", "sibling"} |-> Painted(fill', opacity, e)]
          /\ UNCHANGED <<opacity, from, to, attributeType, given>>
      BY <1>1 DEF Frame, Draw, paintArgs
    <2>2. /\ fill \in [{"g", "shape", "sibling"} -> Text \cup {NoText}]
          /\ frame \in Nat /\ from \in Text /\ to \in Text
      BY PaintAssumption DEF PaintInv, PaintTypeOK
    <2>3. CalcValue(k) \in Text /\ CalcValue(k) # NoText
      <3>1. k \in Nat
        BY <2>2
      <3> HIDE DEF k
      <3> QED BY <2>2, <3>1, CalcValueIs, PaintAssumption
    <2>4. /\ x \in {"g", "shape"}
          /\ x = "g" <=> attributeType = "CSS" /\ fill.shape = NoText /\ fill.g # NoText
      BY DEF Target
    <2>5. PaintTypeOK'
      <3>1. k \in Nat /\ from \in Texts /\ to \in Texts
        BY <2>2 DEF PaintInv, PaintTypeOK
      <3> HIDE DEF k, x
      <3>2. fill' \in [{"g", "shape", "sibling"} -> Text \cup {NoText}]
        BY <2>1, <2>2, <2>3, <2>4
      <3> QED BY <2>1, <3>1, <3>2 DEF PaintTypeOK
    <2>6. CalcValue(frame)' = CalcValue(k)
      <3>1. from' = from /\ to' = to /\ frame' = k
        BY <2>1
      <3> HIDE DEF k
      <3> QED BY <3>1 DEF CalcValue
    <2> HIDE DEF x, k
    <2>7. CASE x = "g"
      <3>1. fill'.g = CalcValue(k) /\ fill'.shape = fill.shape /\ fill'.sibling = fill.sibling
        BY <2>1, <2>2, <2>7
      <3>2. Style(fill, "shape", NoText)' = CalcValue(k)
        BY <2>4, <2>7, <3>1 DEF Style
      <3>3. ShapeInv'
        BY <2>1, <2>6, <3>2 DEF ShapeInv
      <3>4. GroupInv'
        BY <2>1, <2>4, <2>7, <3>1 DEF PaintInv, GroupInv
      <3> QED BY <2>5, <3>3, <3>4 DEF PaintInv
    <2>8. CASE x = "shape"
      <3>1. fill'.g = fill.g /\ fill'.shape = CalcValue(k) /\ fill'.sibling = fill.sibling
        BY <2>1, <2>2, <2>8
      <3>2. Style(fill, "shape", NoText)' = CalcValue(k)
        BY <2>3, <3>1 DEF Style
      <3>3. ShapeInv'
        BY <2>1, <2>6, <3>2 DEF ShapeInv
      <3>4. GroupInv'
        BY <2>1, <2>3, <3>1 DEF PaintInv, GroupInv
      <3> QED BY <2>5, <3>3, <3>4 DEF PaintInv
    <2> QED BY <2>4, <2>7, <2>8
  <1>2. CASE UNCHANGED paintVars
    BY <1>2 DEF paintVars, paintArgs, PaintInv, PaintTypeOK, ShapeInv, GroupInv, Style,
                CalcValue, Painted
  <1> QED BY <1>1, <1>2 DEF PaintNext

\* The opacity is given once: the second setContext finds the colour of the group
\* with it, or a colour of its own without.
LEMMA OpacityOnce ==
    ASSUME NEW e \in {"shape", "sibling"}, Readable(e),
           fill \in [{"g", "shape", "sibling"} -> Text \cup {NoText}]
    PROVE  Painted(fill, opacity, e).opacity =
              IF Style(opacity, e, NoOpacity) = NoOpacity THEN 100
              ELSE Style(opacity, e, NoOpacity)
  <1> DEFINE text == Style(fill, e, NoText)
             asked == Style(opacity, e, NoOpacity)
             black == [c |-> <<0, 0, 0>>, opacity |-> 100]
             group == SetFill(black, fill.g, opacity.g)
  <1>1. Painted(fill, opacity, e) = SetFill(group, text, asked)
    BY DEF Painted
  <1>2. CASE text = NoText
    <2>1. fill.g = NoText /\ opacity[e] = NoOpacity
      BY <1>2 DEF Readable, Style
    <2>2. asked = opacity.g
      BY <2>1 DEF Style
    <2>3. group = AddOpacity(black, asked)
      BY <2>1, <2>2 DEF SetFill
    <2>4. SetFill(group, text, asked) = AddOpacity(group, asked)
      BY <1>2 DEF SetFill
    <2> HIDE DEF asked, text, group
    <2>5. group.opacity = IF asked = NoOpacity THEN 100 ELSE asked
      BY <2>3 DEF AddOpacity
    <2>6. CASE asked = NoOpacity
      BY <1>1, <2>4, <2>5, <2>6 DEF AddOpacity, asked
    <2>7. CASE asked # NoOpacity
      <3>1. AddOpacity(group, asked).opacity = asked
        <4>1. CASE group.opacity # 100
          BY <2>5, <2>7, <4>1 DEF AddOpacity
        <4>2. CASE group.opacity = 100
          <5>1. AddOpacity(group, asked) = [group EXCEPT !.opacity = asked]
            BY <2>7, <4>2 DEF AddOpacity
          <5>2. group = [black EXCEPT !.opacity = asked]
            BY <2>3, <2>7 DEF AddOpacity
          <5> QED BY <5>1, <5>2
        <4> QED BY <4>1, <4>2
      <3> QED BY <1>1, <2>4, <2>7, <3>1 DEF asked
    <2> QED BY <2>6, <2>7
  <1>3. CASE text # NoText
    <2>1. CanvasReads(text)
      BY <1>3 DEF Readable
    <2>2. text.form \notin {"none", "inherit"}
      BY <2>1 DEF CanvasReads
    <2>3. SetFill(group, text, asked) = AddOpacity(CanvasColor(text), asked)
      BY <1>3, <2>1, <2>2 DEF SetFill
    <2>4. \E c : CanvasColor(text) = [c |-> c, opacity |-> 100]
      BY DEF CanvasColor
    <2> HIDE DEF asked, text
    <2>5. AddOpacity(CanvasColor(text), asked).opacity = IF asked = NoOpacity THEN 100 ELSE asked
      BY <2>4 DEF AddOpacity
    <2> QED BY <1>1, <2>3, <2>5 DEF asked
  <1> QED BY <1>2, <1>3

\* Where both colours are read, the shape is painted with the channels of the
\* frame, which are bytes: the canvas clamps none of them.
LEMMA ShapeIsTweened ==
    ASSUME PaintInv, frame > 0, frame <= Frames,
           RGBColor(from).ok, RGBColor(to).ok, NEW i \in 1..3
    PROVE  painted.shape.c[i] =
             Truncated(RGBColor(from).c[i] * Frames
                         + (RGBColor(to).c[i] - RGBColor(from).c[i]) * frame, Frames)
  <1> DEFINE text == CalcValue(frame)
             a == RGBColor(from).c[i]
             b == RGBColor(to).c[i]
             v == Truncated(a * Frames + (b - a) * frame, Frames)
             group == SetFill([c |-> <<0, 0, 0>>, opacity |-> 100], fill.g, opacity.g)
             asked == Style(opacity, "shape", NoOpacity)
  <1>1. from \in Text /\ to \in Text /\ frame \in Nat
    BY PaintAssumption DEF PaintInv, PaintTypeOK
  <1>2. text \in Text /\ text.form = "rgb" /\ text.n[i] = v
    BY <1>1, CalcValueIs
  <1>3. v \in 0..255
    <2>1. a \in 0..255 /\ b \in 0..255 /\ frame \in 0..Frames
      BY <1>1, RGBColorRange, PaintAssumption
    <2> HIDE DEF a, b
    <2> QED BY <2>1, TweenBetween
  <1>4. text # NoText /\ Style(fill, "shape", NoText) = text
    BY <1>2, PaintAssumption DEF PaintInv, ShapeInv
  <1>5. painted.shape = SetFill(group, text, asked)
    BY <1>4 DEF PaintInv, ShapeInv, Painted
  <1> HIDE DEF group, asked, text, v
  <1>6. SetFill(group, text, asked) = AddOpacity(CanvasColor(text), asked)
    BY <1>2, <1>4 DEF SetFill, CanvasReads
  <1>7. AddOpacity(CanvasColor(text), asked).c = CanvasColor(text).c
    <2>1. \E c : CanvasColor(text) = [c |-> c, opacity |-> 100]
      BY DEF CanvasColor
    <2> QED BY <2>1 DEF AddOpacity
  <1>8. CanvasColor(text).c[i] = CanvasClamps(text.n[i])
    BY <1>2 DEF CanvasColor
  <1>9. CanvasClamps(v) = v
    BY <1>3 DEF CanvasClamps
  <1> QED BY <1>2, <1>5, <1>6, <1>7, <1>8, <1>9 DEF v

\* The invariant says what is painted.
LEMMA InvPaintedAsTweened == PaintInv => PaintedAsTweened
  <1> SUFFICES ASSUME PaintInv PROVE PaintedAsTweened
    OBVIOUS
  <1>1. fill \in [{"g", "shape", "sibling"} -> Text \cup {NoText}]
        /\ frame \in Nat /\ from \in Text /\ to \in Text
    BY PaintAssumption DEF PaintInv, PaintTypeOK
  <1>2. ASSUME NEW e \in {"shape", "sibling"}, Readable(e)
        PROVE  painted[e].opacity = IF Style(opacity, e, NoOpacity) = NoOpacity THEN 100
                                    ELSE Style(opacity, e, NoOpacity)
    <2>1. painted[e] = Painted(fill, opacity, e)
      BY DEF PaintInv, ShapeInv
    <2> QED BY <1>1, <1>2, <2>1, OpacityOnce
  <1>3. ASSUME frame > 0, RGBColor(from).ok, RGBColor(to).ok, NEW i \in 1..3, frame <= Frames
        PROVE  /\ Between(painted.shape.c[i], RGBColor(from).c[i], RGBColor(to).c[i])
               /\ frame = Frames => painted.shape.c[i] = RGBColor(to).c[i]
    <2> DEFINE a == RGBColor(from).c[i]
               b == RGBColor(to).c[i]
    <2>1. a \in 0..255 /\ b \in 0..255 /\ frame \in 0..Frames
      <3>1. from \in Text /\ to \in Text /\ frame \in Nat /\ frame <= Frames
        BY <1>1, <1>3
      <3> QED BY <3>1, RGBColorRange, PaintAssumption
    <2>2. painted.shape.c[i] = Truncated(a * Frames + (b - a) * frame, Frames)
      BY <1>3, ShapeIsTweened
    <2> HIDE DEF a, b
    <2>3. Between(painted.shape.c[i], a, b) /\ (frame = Frames => painted.shape.c[i] = b)
      <3> DEFINE v == Truncated(a * Frames + (b - a) * frame, Frames)
      <3>1. Between(v, a, b) /\ (frame = Frames => v = b)
        BY <2>1, TweenBetween
      <3> HIDE DEF v
      <3>2. painted.shape.c[i] = v
        BY <2>2 DEF v
      <3> QED BY <3>1, <3>2
    <2> QED BY <2>3 DEF a, b
  <1>4. frame = Frames => frame <= Frames
    BY PaintAssumption
  <1> QED BY <1>2, <1>3, <1>4 DEF PaintedAsTweened

\* Shapes are painted with their opacity once and with the colour of their tween,
\* for any texts and number of frames: PaintedAsTweened of the run.
THEOREM ColoursPaintedAsTweened == PaintSpec => []PaintedAsTweened
  BY PaintInvInit, PaintInvNext, InvPaintedAsTweened, PTL DEF PaintSpec

\* The animation of a shape leaves its sibling alone unless it animates a style of
\* the group: SiblingKeepsItsPaint of the run.
THEOREM SiblingsKeepTheirPaint == PaintSpec => []SiblingKeepsItsPaint
  <1>1. PaintInv => SiblingKeepsItsPaint
    BY DEF PaintInv, ShapeInv, GroupInv, SiblingKeepsItsPaint, Painted, Style
  <1> QED BY <1>1, PaintInvInit, PaintInvNext, PTL DEF PaintSpec

-----------------------------------------------------------------------------
(* The fill of the elements, by the cascade.                               *)

\* What the parser and the drawings go through.
StylesTypeOK ==
    /\ sheet \in Sheets
    /\ made \in 0..Len(sheet.order) /\ looked \in Nat /\ complete \in BOOLEAN
    /\ Styles \in Seq(DOMAIN sheet.rules)
    /\ styles \in [Element -> Property \cup {Unset}]
    /\ stylesSpecificity \in [Element -> Nat]
    /\ DOMAIN colourOf = PropertiesOf(sheet)
    /\ reached \in 0..(Len(sheet.order) - 1) /\ (~complete => reached = 0)
    /\ DOMAIN filled = Element /\ (~complete => \A e \in Element : filled[e] = Unset)
    /\ complete => made = Len(sheet.order)

\* How many of the rules are known.
Known ==
    IF Position(StyleTag) <= made THEN Len(sheet.rules)
    ELSE IF Current = StyleTag THEN looked ELSE 0

\* Each selector of these is there once, with the last of its rules.
KnownInv ==
    /\ Known <= Len(sheet.rules)
    /\ \A k \in DOMAIN Styles : Styles[k] \in 1..Known
    /\ \A j \in 1..Known : \E k \in DOMAIN Styles :
         sheet.rules[Styles[k]].selector = sheet.rules[j].selector
    /\ \A k \in DOMAIN Styles : \A j \in 1..Known :
         sheet.rules[Styles[k]].selector = sheet.rules[j].selector => j <= Styles[k]
    /\ \A j, k \in DOMAIN Styles :
         sheet.rules[Styles[j]].selector = sheet.rules[Styles[k]].selector => j = k

\* The rules that an element has looked at, the root when it looks again.
LookedAt == {Styles[j] : j \in {x \in DOMAIN Styles : x <= looked}}
AllKnown == {Styles[j] : j \in DOMAIN Styles}
Took(e) ==
    IF ~complete /\ e = Current THEN LookedAt
    ELSE IF \/ e = Root /\ complete
            \/ e # Root /\ Position(StyleTag) < Position(e) /\ Position(e) <= made
    THEN AllKnown ELSE {}

\* What it has without the rules.
Plain(e) ==
    IF sheet.inline[e] # Unset /\ Position(e) <= made THEN InlineOf(e)
    ELSE IF sheet.attribute[e] # Unset THEN AttributeOf(e) ELSE Unset

\* It has the most specific of S, or what it has without.
BestOf(e, S) ==
    /\ \A i \in S : Matches(e, i) => Specificity(i) <= stylesSpecificity[e]
    /\ \/ stylesSpecificity[e] = 0 /\ OwnStyle(e) = Plain(e)
       \/ \E i \in S : /\ Matches(e, i) /\ Specificity(i) = stylesSpecificity[e]
                       /\ stylesSpecificity[e] > 0 /\ OwnStyle(e) = RuleProperty(i)

ElementInv(e) ==
    IF e # Root /\ Plain(e) = InlineOf(e) THEN OwnStyle(e) = InlineOf(e)
    ELSE BestOf(e, Took(e))

\* A Property belongs to the element that has it, or to all that its rule matches.
Owns(e, p) ==
    \/ p = AttributeOf(e) /\ sheet.attribute[e] # Unset
    \/ p = InlineOf(e) /\ sheet.inline[e] # Unset
    \/ \E i \in DOMAIN sheet.rules : p = RuleProperty(i) /\ Matches(e, i)

\* It has the colour it was given, or the colour of one of them over currentColor.
ColourInv ==
    \A p \in PropertiesOf(sheet) :
        \/ colourOf[p] = Given(p)
        \/ /\ Given(p) = "currentColor"
           /\ \E e \in Element : Owns(e, p) /\ colourOf[p] = Color(e)

\* What a drawing has come past has no currentColor left.
DrawnInv ==
    \A e \in Element :
        /\ Position(e) <= reached => filled[e] # Unset
        /\ filled[e] # Unset /\ OwnStyle(e) # Unset => colourOf[OwnStyle(e)] # "currentColor"

StylesInv ==
    /\ StylesTypeOK /\ KnownInv /\ \A e \in Element : ElementInv(e)
    /\ ColourInv /\ DrawnInv /\ FilledByCascade

-----------------------------------------------------------------------------
\* What the assumption says of the document in hand.
LEMMA SheetIs ==
    ASSUME sheet \in Sheets
    PROVE  /\ sheet.order \in Seq(Element \cup {StyleTag}) /\ Len(sheet.order) \in Nat \ {0}
           /\ sheet.order[1] = Root
           /\ \A x \in Element \cup {StyleTag} : \E k \in DOMAIN sheet.order : sheet.order[k] = x
           /\ \A j, k \in DOMAIN sheet.order : sheet.order[j] = sheet.order[k] => j = k
           /\ DOMAIN sheet.order = 1..Len(sheet.order)
           /\ \A e \in Element :
                /\ sheet.up[e] \in Seq(Element) /\ Len(sheet.up[e]) \in Nat \ {0}
                /\ sheet.up[e][1] = e /\ DOMAIN sheet.up[e] = 1..Len(sheet.up[e])
           /\ DOMAIN sheet.rules = 1..Len(sheet.rules) /\ Len(sheet.rules) \in Nat
           /\ \A i \in DOMAIN sheet.rules :
                /\ sheet.rules[i].matches \subseteq Element /\ sheet.rules[i].specificity \in Nat
                /\ sheet.rules[i].fill # Unset
  <1>1. /\ sheet.order \in Seq(Element \cup {StyleTag}) /\ sheet.order # <<>>
        /\ sheet.rules \in Seq([selector : STRING, matches : SUBSET Element, specificity : Nat,
                                fill : STRING \ {Unset}])
        /\ sheet.order[1] = Root
        /\ \A x \in Element \cup {StyleTag} : \E k \in DOMAIN sheet.order : sheet.order[k] = x
        /\ \A j, k \in DOMAIN sheet.order : sheet.order[j] = sheet.order[k] => j = k
    BY SheetAssumption
  <1>2. ASSUME NEW e \in Element
        PROVE  /\ sheet.up[e] \in Seq(Element) /\ sheet.up[e] # <<>> /\ sheet.up[e][1] = e
    BY SheetAssumption
  <1>3. ASSUME NEW e \in Element
        PROVE  /\ sheet.up[e] \in Seq(Element) /\ Len(sheet.up[e]) \in Nat \ {0}
               /\ sheet.up[e][1] = e /\ DOMAIN sheet.up[e] = 1..Len(sheet.up[e])
    BY <1>2
  <1>4. ASSUME NEW i \in DOMAIN sheet.rules
        PROVE  /\ sheet.rules[i].matches \subseteq Element /\ sheet.rules[i].specificity \in Nat
               /\ sheet.rules[i].fill # Unset
    <2> DEFINE R == [selector : STRING, matches : SUBSET Element, specificity : Nat,
                     fill : STRING \ {Unset}]
    <2>1. sheet.rules \in Seq(R)
      BY <1>1
    <2>2. sheet.rules[i] \in R
      <3> HIDE DEF R
      <3> QED BY <2>1
    <2> QED BY <2>2
  <1>5. DOMAIN sheet.rules = 1..Len(sheet.rules) /\ Len(sheet.rules) \in Nat
    BY <1>1
  <1>6. Len(sheet.order) \in Nat \ {0} /\ DOMAIN sheet.order = 1..Len(sheet.order)
    BY <1>1
  <1> QED BY <1>1, <1>3, <1>4, <1>5, <1>6

\* Everything has one place in the order, and the root has the first.
LEMMA Positions ==
    ASSUME sheet \in Sheets, NEW x \in Element \cup {StyleTag}
    PROVE  /\ Position(x) \in 1..Len(sheet.order) /\ sheet.order[Position(x)] = x
           /\ \A k \in 1..Len(sheet.order) : sheet.order[k] = x <=> k = Position(x)
           /\ Position(x) = 1 <=> x = Root
  <1>1. PICK k \in DOMAIN sheet.order : sheet.order[k] = x
    BY SheetIs
  <1>2. Position(x) \in DOMAIN sheet.order /\ sheet.order[Position(x)] = x
    BY <1>1 DEF Position
  <1>3. \A j \in DOMAIN sheet.order : sheet.order[j] = x <=> j = Position(x)
    BY <1>2, SheetIs
  <1>4. /\ 1 \in DOMAIN sheet.order /\ sheet.order[1] = Root
        /\ DOMAIN sheet.order = 1..Len(sheet.order)
    BY SheetIs
  <1> QED BY <1>2, <1>3, <1>4

\* What is being made stands just after what was made.
LEMMA CurrentIs ==
    ASSUME sheet \in Sheets, made \in 0..Len(sheet.order)
    PROVE  /\ Current \in Element \cup {StyleTag}
           /\ made < Len(sheet.order) =>
                /\ Position(Current) = made + 1
                /\ \A x \in Element \cup {StyleTag} : Position(x) = made + 1 <=> x = Current
           /\ made = Len(sheet.order) => Current = Root
  <1>1. CASE made < Len(sheet.order)
    <2>1. Current = sheet.order[made + 1] /\ made + 1 \in 1..Len(sheet.order)
      BY <1>1, SheetIs DEF Current
    <2>2. Current \in Element \cup {StyleTag}
      BY <2>1, SheetIs
    <2> QED BY <1>1, <2>1, <2>2, Positions
  <1>2. CASE made = Len(sheet.order)
    BY <1>2, SheetIs, SheetAssumption DEF Current
  <1> QED BY <1>1, <1>2, SheetIs

\* A set of places on a way has a first one.
LEMMA FirstPlace ==
    ASSUME NEW S \in SUBSET Nat, S # {}
    PROVE  \E x \in S : \A y \in S : x <= y
  <1> DEFINE R == {p \in Nat \X Nat : p[1] < p[2]}
  <1>1. R = OpToRel(<, Nat)
    BY DEF OpToRel
  <1>2. IsWellFoundedOn(R, Nat)
    BY <1>1, NatLessThanWellFounded
  <1>3. PICK x \in S : \A y \in S : ~(<<y, x>> \in R)
    <2> HIDE DEF R
    <2> QED BY <1>2, WFMin
  <1>4. ASSUME NEW y \in S PROVE x <= y
    <2>1. ~(<<y, x>> \in R) /\ <<y, x>> \in Nat \X Nat
      BY <1>3
    <2> QED BY <2>1
  <1> QED BY <1>4

\* The nearest in a set is the one with none of the set before it on the way.
LEMMA NearestIs ==
    ASSUME sheet \in Sheets, NEW e \in Element, NEW S, NEW k \in DOMAIN sheet.up[e],
           sheet.up[e][k] \in S, \A j \in 1..(k - 1) : sheet.up[e][j] \notin S
    PROVE  Nearest(e, S) = sheet.up[e][k]
  <1> DEFINE way == sheet.up[e]
             found == {i \in DOMAIN way : way[i] \in S}
  <1>1. DOMAIN way = 1..Len(way) /\ Len(way) \in Nat
    BY SheetIs
  <1>2. k \in found /\ \A j \in found : k <= j
    BY <1>1
  <1>3. (CHOOSE i \in found : \A j \in found : i <= j) = k
    <2>1. \A i \in found : (\A j \in found : i <= j) => i = k
      BY <1>1, <1>2
    <2> HIDE DEF found
    <2> QED BY <1>2, <2>1
  <1> QED BY <1>2, <1>3 DEF Nearest

LEMMA NearestNone ==
    ASSUME NEW e, NEW S, \A k \in DOMAIN sheet.up[e] : sheet.up[e][k] \notin S
    PROVE  Nearest(e, S) = Unset
  BY DEF Nearest

\* On the way either none is in the set, or there is a first.
LEMMA SomeOrNone ==
    ASSUME sheet \in Sheets, NEW e \in Element, NEW S
    PROVE  \/ \A k \in DOMAIN sheet.up[e] : sheet.up[e][k] \notin S
           \/ \E k \in DOMAIN sheet.up[e] :
                sheet.up[e][k] \in S /\ \A j \in 1..(k - 1) : sheet.up[e][j] \notin S
  <1> DEFINE way == sheet.up[e]
             found == {i \in DOMAIN way : way[i] \in S}
  <1>1. DOMAIN way = 1..Len(way) /\ Len(way) \in Nat
    BY SheetIs
  <1>2. CASE found # {}
    <2>1. found \in SUBSET Nat
      BY <1>1
    <2>2. PICK x \in found : \A y \in found : x <= y
      <3> HIDE DEF found
      <3> QED BY <1>2, <2>1, FirstPlace
    <2>3. \A j \in 1..(x - 1) : way[j] \notin S
      BY <1>1, <2>2
    <2> QED BY <2>2, <2>3
  <1> QED BY <1>2

\* A Property of a fill comes from the nearest that has one, which is on the way.
LEMMA NearestOnWay ==
    ASSUME sheet \in Sheets, NEW e \in Element, NEW S, Nearest(e, S) # Unset
    PROVE  /\ Nearest(e, S) \in Element /\ Nearest(e, S) \in S
           /\ Nearest(e, S) # e => Position(Nearest(e, S)) < Position(e)
           /\ e \in S => Nearest(e, S) = e
  <1>1. PICK k \in DOMAIN sheet.up[e] :
            sheet.up[e][k] \in S /\ \A j \in 1..(k - 1) : sheet.up[e][j] \notin S
    BY SomeOrNone, NearestNone
  <1>2. Nearest(e, S) = sheet.up[e][k]
    BY <1>1, NearestIs
  <1>3. /\ sheet.up[e] \in Seq(Element) /\ DOMAIN sheet.up[e] = 1..Len(sheet.up[e])
        /\ sheet.up[e][1] = e /\ Len(sheet.up[e]) \in Nat
    BY SheetIs
  <1>4. sheet.up[e][k] \in Element
    BY <1>3
  <1>5. k # 1 => Position(sheet.up[e][k]) < Position(e)
    <2> DEFINE a == sheet.up[e][k]
    <2>1. /\ Position(a) \in DOMAIN sheet.order /\ sheet.order[Position(a)] = a
          /\ Position(e) \in DOMAIN sheet.order /\ sheet.order[Position(e)] = e
      BY <1>4, Positions, SheetIs
    <2>2. \A i \in DOMAIN sheet.up[e], j, n \in DOMAIN sheet.order :
              sheet.order[j] = sheet.up[e][i] /\ sheet.order[n] = e => j < n \/ i = 1
      BY SheetAssumption
    <2> QED BY <2>1, <2>2
  <1>6. e \in S => k = 1
    BY <1>1, <1>3
  <1> QED BY <1>1, <1>2, <1>3, <1>4, <1>5, <1>6

\* The colour of an element is a colour.
LEMMA ColourIs ==
    ASSUME sheet \in Sheets, NEW e \in Element
    PROVE  Color(e) # Unset /\ Color(e) # "currentColor"
  <1> DEFINE S == {x \in Element : sheet.color[x] # Unset}
  <1>1. PICK k \in DOMAIN sheet.up[e] : sheet.up[e][k] = Root
    BY SheetAssumption
  <1>2. Root \in S
    BY SheetAssumption
  <1>3. PICK n \in DOMAIN sheet.up[e] :
            sheet.up[e][n] \in S /\ \A j \in 1..(n - 1) : sheet.up[e][j] \notin S
    BY <1>1, <1>2, SomeOrNone
  <1>4. Nearest(e, S) = sheet.up[e][n]
    BY <1>3, NearestIs
  <1>5. Nearest(e, S) \in S
    BY <1>3, <1>4
  <1>6. Color(e) = sheet.color[Nearest(e, S)]
    BY DEF Color
  <1>7. \A x \in Element : sheet.color[x] # "currentColor"
    BY SheetAssumption
  <1> HIDE DEF S
  <1>8. Nearest(e, S) \in Element /\ sheet.color[Nearest(e, S)] # Unset
    BY <1>5 DEF S
  <1> QED BY <1>6, <1>7, <1>8

-----------------------------------------------------------------------------
\* What speaks of the document alone stays as it is.
LEMMA SheetKept ==
    ASSUME sheet' = sheet
    PROVE  /\ \A x : Position(x)' = Position(x)
           /\ \A e : Color(e)' = Color(e) /\ Cascade(e)' = Cascade(e) /\ Parts(e)' = Parts(e)
           /\ \A p : Given(p)' = Given(p)
           /\ \A e, p : Owns(e, p)' = Owns(e, p)
           /\ \A e, i : Matches(e, i)' = Matches(e, i)
           /\ \A i : Specificity(i)' = Specificity(i)
           /\ SharedCurrentColor' = SharedCurrentColor
  <1>1. \A x : Position(x)' = Position(x)
    BY DEF Position
  <1>2. \A e, i : Matches(e, i)' = Matches(e, i)
    BY DEF Matches
  <1>3. \A i : Specificity(i)' = Specificity(i)
    BY DEF Specificity
  <1>4. \A e : Color(e)' = Color(e)
    BY DEF Color, Nearest
  <1>5. \A p : Given(p)' = Given(p)
    BY DEF Given
  <1>6. \A e, p : Owns(e, p)' = Owns(e, p)
    BY DEF Owns, Matches
  <1>7. SharedCurrentColor' = SharedCurrentColor
    BY DEF SharedCurrentColor, Color, Nearest
  <1>8. \A e : Cascade(e)' = Cascade(e)
    BY DEF Cascade, Nearest, Own, Rules, Winner, Matches, Specificity, Color
  <1>9. \A e : Parts(e)' = Parts(e)
    BY DEF Parts, PartsHere, MadeBeforeItsRules, EquallySpecific, Universal, RuleOverStyle,
           Own, Rules, Winner, Matches, Specificity, Position
  <1> QED BY <1>1, <1>2, <1>3, <1>4, <1>5, <1>6, <1>7, <1>8, <1>9

\* What is known stays so while the rules and how many are known do.
LEMMA KnownKept ==
    ASSUME KnownInv, sheet' = sheet, Styles' = Styles, Known' = Known
    PROVE  KnownInv'
  BY DEF KnownInv

\* Before the style element is reached nothing is known.
LEMMA NoneKnown ==
    ASSUME StylesTypeOK, KnownInv, made < Position(StyleTag), Current # StyleTag
    PROVE  Styles = <<>> /\ Known = 0
  <1>1. Position(StyleTag) \in Nat
    BY Positions DEF StylesTypeOK
  <1>2. Known = 0
    BY <1>1 DEF Known, StylesTypeOK
  <1>3. DOMAIN Styles = {}
    <2>1. ASSUME NEW k \in DOMAIN Styles PROVE FALSE
      <3>1. Styles[k] \in 1..0
        BY <1>2 DEF KnownInv
      <3> QED BY <3>1
    <2> QED BY <2>1
  <1>4. Styles \in Seq(DOMAIN sheet.rules)
    BY DEF StylesTypeOK
  <1> QED BY <1>2, <1>3, <1>4

\* An element keeps its invariant while nothing it speaks of changes.
LEMMA ElementKept ==
    ASSUME NEW x, ElementInv(x), sheet' = sheet, OwnStyle(x)' = OwnStyle(x),
           stylesSpecificity'[x] = stylesSpecificity[x], Took(x)' = Took(x), Plain(x)' = Plain(x)
    PROVE  ElementInv(x)'
  BY DEF ElementInv, BestOf, InlineOf, RuleProperty, Matches, Specificity

\* While the document is made nothing is drawn.
LEMMA NothingDrawn ==
    ASSUME StylesTypeOK, ColourInv, ~complete,
           UNCHANGED <<sheet, colourOf, reached, filled>>
    PROVE  ColourInv' /\ DrawnInv' /\ FilledByCascade'
  <1>1. ColourInv'
    BY SheetKept DEF ColourInv
  <1>2. reached' = 0 /\ \A e \in Element : filled'[e] = Unset
    BY DEF StylesTypeOK
  <1>3. \A e \in Element : Position(e)' \in Nat \ {0}
    BY SheetKept, Positions, SheetIs DEF StylesTypeOK
  <1>4. DrawnInv'
    BY <1>2, <1>3 DEF DrawnInv
  <1>5. FilledByCascade'
    BY <1>2 DEF FilledByCascade
  <1> QED BY <1>1, <1>4, <1>5

\* The invariant holds of an empty document.
LEMMA StylesInvInit == StylesInit => StylesInv
  <1> SUFFICES ASSUME StylesInit PROVE StylesInv
    OBVIOUS
  <1>1. sheet \in Sheets
    BY DEF StylesInit
  <1>2. StylesTypeOK
    <2>1. Len(sheet.order) \in Nat \ {0}
      BY <1>1, SheetIs
    <2>2. Styles \in Seq(DOMAIN sheet.rules)
      BY DEF StylesInit
    <2>3. /\ styles \in [Element -> Property \cup {Unset}]
          /\ stylesSpecificity \in [Element -> Nat]
          /\ DOMAIN colourOf = PropertiesOf(sheet) /\ DOMAIN filled = Element
          /\ \A e \in Element : filled[e] = Unset
      BY DEF StylesInit
    <2>4. made = 0 /\ looked = 0 /\ complete = FALSE /\ reached = 0
      BY DEF StylesInit
    <2>5. 0 \in 0..Len(sheet.order) /\ 0 \in 0..(Len(sheet.order) - 1)
      BY <2>1
    <2> QED BY <1>1, <2>2, <2>3, <2>4, <2>5 DEF StylesTypeOK
  <1>3. Position(StyleTag) \in Nat \ {0} /\ \A e \in Element : Position(e) \in Nat \ {0}
    BY <1>1, Positions, SheetIs
  <1>4. Known = 0 /\ DOMAIN Styles = {}
    BY <1>3, <1>1, SheetIs DEF StylesInit, Known
  <1>5. KnownInv
    BY <1>4, <1>1, SheetIs DEF KnownInv
  <1>6. ASSUME NEW e \in Element PROVE ElementInv(e)
    <2>1. Plain(e) = OwnStyle(e)
      BY <1>3 DEF StylesInit, Plain, OwnStyle
    <2>2. Took(e) = {}
      BY <1>3, <1>4 DEF StylesInit, Took, LookedAt, AllKnown
    <2>3. BestOf(e, {})
      BY <2>1 DEF BestOf, StylesInit
    <2> QED BY <2>1, <2>2, <2>3 DEF ElementInv
  <1>7. ColourInv
    BY DEF ColourInv, StylesInit
  <1>8. DrawnInv /\ FilledByCascade
    BY <1>3 DEF DrawnInv, FilledByCascade, StylesInit
  <1> QED BY <1>2, <1>5, <1>6, <1>7, <1>8 DEF StylesInv

\* Looking at a selector.
LEMMA AddStylesKeeps ==
    ASSUME StylesInv, AddStyles
    PROVE  StylesInv'
  <1> DEFINE e == Current
             i == Styles[looked + 1]
  <1>1. /\ StylesTypeOK /\ KnownInv /\ ColourInv /\ sheet \in Sheets
        /\ made \in 0..Len(sheet.order) /\ looked \in Nat /\ Len(sheet.order) \in Nat
    BY SheetIs DEF StylesInv, StylesTypeOK
  <1>2. /\ ~complete /\ e # StyleTag /\ looked < Len(Styles) /\ looked' = looked + 1
        /\ UNCHANGED <<sheet, made, complete, Styles, colourOf, reached, filled>>
        /\ IF Overrides(e, i)
           THEN /\ styles' = [styles EXCEPT ![e] = RuleProperty(i)]
                /\ stylesSpecificity' = [stylesSpecificity EXCEPT ![e] = Specificity(i)]
           ELSE UNCHANGED <<styles, stylesSpecificity>>
    BY DEF AddStyles
  <1>3. e \in Element /\ Current' = e
    BY <1>1, <1>2, CurrentIs DEF Current
  <1>4. /\ Styles \in Seq(DOMAIN sheet.rules) /\ looked + 1 \in DOMAIN Styles
        /\ i \in DOMAIN sheet.rules
    BY <1>1, <1>2 DEF StylesTypeOK
  <1>5. /\ RuleProperty(i) \in Property /\ RuleProperty(i) # Unset
        /\ Specificity(i) \in Nat
    <2>1. i \in Nat /\ Specificity(i) \in Nat
      BY <1>1, <1>4, SheetIs DEF Specificity
    <2>2. RuleProperty(i) \in Property
      BY <2>1 DEF RuleProperty, Property
    <2> QED BY <2>1, <2>2, SheetAssumption
  <1>6. /\ styles \in [Element -> Property \cup {Unset}]
        /\ stylesSpecificity \in [Element -> Nat]
    BY <1>1 DEF StylesTypeOK
  <1> HIDE DEF i
  <1>7. /\ styles' \in [Element -> Property \cup {Unset}]
        /\ stylesSpecificity' \in [Element -> Nat]
        /\ \A x \in Element : x # e => /\ styles'[x] = styles[x]
                                       /\ stylesSpecificity'[x] = stylesSpecificity[x]
        /\ Overrides(e, i) => /\ styles'[e] = RuleProperty(i)
                              /\ stylesSpecificity'[e] = Specificity(i)
        /\ ~Overrides(e, i) => /\ styles'[e] = styles[e]
                               /\ stylesSpecificity'[e] = stylesSpecificity[e]
    BY <1>2, <1>3, <1>5, <1>6
  <1>8. StylesTypeOK'
    BY <1>1, <1>2, <1>7 DEF StylesTypeOK
  <1>9. KnownInv'
    <2>1. Known' = Known
      BY <1>2, <1>3, SheetKept DEF Known
    <2> QED BY <1>1, <1>2, <2>1, KnownKept
  <1>10. ASSUME NEW x \in Element PROVE ElementInv(x)'
    <2>1. Plain(x)' = Plain(x)
      BY <1>2, SheetKept DEF Plain, InlineOf, AttributeOf
    <2>2. ElementInv(x)
      BY DEF StylesInv
    <2>3. CASE x # e
      <3>1. OwnStyle(x)' = OwnStyle(x) /\ stylesSpecificity'[x] = stylesSpecificity[x]
        BY <1>2, <1>7, <2>3 DEF OwnStyle, AttributeOf
      <3>2. Took(x)' = Took(x)
        BY <1>2, <1>3, <2>3, SheetKept DEF Took, AllKnown
      <3> QED BY <1>2, <2>1, <2>2, <3>1, <3>2, ElementKept
    <2>4. CASE x = e
      <3>1. ~(x # Root /\ Plain(x) = InlineOf(x))
        <4>1. CASE made < Len(sheet.order)
          <5>1. Position(x) = made + 1
            BY <1>1, <2>4, <4>1, CurrentIs
          <5>2. Plain(x) = AttributeOf(x) \/ Plain(x) = Unset
            BY <1>1, <5>1 DEF Plain
          <5>3. InlineOf(x) # AttributeOf(x) /\ InlineOf(x) # Unset
            BY SheetAssumption DEF InlineOf, AttributeOf, Property
          <5> QED BY <5>2, <5>3
        <4>2. CASE made = Len(sheet.order)
          BY <1>1, <2>4, <4>2, CurrentIs
        <4> QED BY <1>1, <4>1, <4>2
      <3>2. BestOf(x, Took(x))
        BY <2>2, <3>1 DEF ElementInv
      <3>3. Took(x) = LookedAt /\ Took(x)' = LookedAt'
        BY <1>2, <1>3, <2>4 DEF Took
      <3>4. LookedAt' = LookedAt \cup {i}
        BY <1>1, <1>2, <1>4 DEF LookedAt, i
      <3>5. BestOf(x, LookedAt)'
        <4>1. /\ \A j : Matches(x, j)' = Matches(x, j) /\ Specificity(j)' = Specificity(j)
              /\ \A j : RuleProperty(j)' = RuleProperty(j)
          BY <1>2, SheetKept DEF RuleProperty
        <4>2. CASE Overrides(x, i)
          <5>1. /\ stylesSpecificity'[x] = Specificity(i) /\ Matches(x, i)
                /\ Specificity(i) > stylesSpecificity[x]
            BY <1>7, <2>4, <4>2 DEF Overrides
          <5>2. OwnStyle(x)' = RuleProperty(i)
            BY <1>5, <1>7, <2>4, <4>2 DEF OwnStyle
          <5>3. \A j \in LookedAt : Specificity(j) \in Nat
            <6>1. LookedAt \subseteq DOMAIN sheet.rules
              BY <1>4 DEF LookedAt
            <6> QED BY <1>1, <6>1, SheetIs DEF Specificity
          <5>4. stylesSpecificity[x] \in Nat /\ Specificity(i) \in Nat
            BY <1>5, <1>6
          <5>5. \A j \in LookedAt : Matches(x, j) => Specificity(j) <= stylesSpecificity[x]
            BY <3>2, <3>3 DEF BestOf
          <5>6. \A j \in LookedAt \cup {i} : Matches(x, j) => Specificity(j) <= Specificity(i)
            BY <5>1, <5>3, <5>4, <5>5
          <5> QED BY <3>4, <4>1, <5>1, <5>2, <5>4, <5>6 DEF BestOf
        <4>3. CASE ~Overrides(x, i)
          <5>1. OwnStyle(x)' = OwnStyle(x) /\ stylesSpecificity'[x] = stylesSpecificity[x]
            BY <1>2, <1>7, <2>4, <4>3 DEF OwnStyle, AttributeOf
          <5>2. Matches(x, i) => Specificity(i) <= stylesSpecificity[x]
            BY <1>5, <1>6, <4>3 DEF Overrides
          <5> QED BY <2>1, <3>2, <3>3, <3>4, <4>1, <5>1, <5>2 DEF BestOf
        <4> QED BY <4>2, <4>3
      <3>6. x # Root /\ Plain(x)' = InlineOf(x)' => FALSE
        BY <2>1, <3>1 DEF InlineOf
      <3> QED BY <3>3, <3>5, <3>6 DEF ElementInv, BestOf
    <2> QED BY <2>3, <2>4
  <1>11. ColourInv' /\ DrawnInv' /\ FilledByCascade'
    BY <1>1, <1>2, NothingDrawn
  <1> QED BY <1>8, <1>9, <1>10, <1>11 DEF StylesInv

\* An element is made.
LEMMA CreateElementKeeps ==
    ASSUME StylesInv, CreateElement
    PROVE  StylesInv'
  <1> SUFFICES ASSUME NEW e, e = Current PROVE StylesInv'
    OBVIOUS
  <1>1. /\ StylesTypeOK /\ KnownInv /\ ColourInv /\ sheet \in Sheets
        /\ made \in 0..Len(sheet.order) /\ Len(sheet.order) \in Nat
    BY SheetIs DEF StylesInv, StylesTypeOK
  <1>2. /\ made < Len(sheet.order) /\ e # StyleTag /\ looked = Len(Styles)
        /\ made' = made + 1 /\ looked' = 0
        /\ styles' = IF sheet.inline[e] # Unset
                     THEN [styles EXCEPT ![e] = InlineOf(e)] ELSE styles
        /\ UNCHANGED <<sheet, complete, Styles, stylesSpecificity, colourOf, reached, filled>>
    BY DEF CreateElement
  <1>3. e \in Element /\ Position(e) = made + 1 /\ ~complete
    BY <1>1, <1>2, CurrentIs DEF StylesTypeOK
  <1>4. \A x \in Element \cup {StyleTag} : /\ Position(x) \in Nat \ {0}
                                           /\ x # e => Position(x) # made + 1
                                           /\ Position(x) = 1 <=> x = Root
    BY <1>1, <1>2, CurrentIs, Positions
  <1>5. InlineOf(e) \in Property /\ InlineOf(e) # Unset
    BY <1>3, SheetAssumption DEF InlineOf, Property
  <1>6. styles \in [Element -> Property \cup {Unset}] /\ Styles \in Seq(DOMAIN sheet.rules)
    BY <1>1 DEF StylesTypeOK
  <1>7. /\ styles' \in [Element -> Property \cup {Unset}]
        /\ \A x \in Element : x # e \/ sheet.inline[e] = Unset => styles'[x] = styles[x]
        /\ sheet.inline[e] # Unset => styles'[e] = InlineOf(e)
    BY <1>2, <1>3, <1>5, <1>6
  <1>8. StylesTypeOK'
    BY <1>1, <1>2, <1>3, <1>7 DEF StylesTypeOK
  <1>9. KnownInv'
    <2>1. Position(StyleTag)' = Position(StyleTag) /\ Position(StyleTag) # made + 1
      BY <1>2, <1>3, <1>4, SheetKept, SheetAssumption
    <2>2. CASE Position(StyleTag) <= made
      BY <1>1, <1>2, <1>4, <2>1, <2>2, KnownKept DEF Known
    <2>3. CASE ~(Position(StyleTag) <= made)
      <3>1. Known = 0
        BY <1>2, <2>3 DEF Known
      <3>2. Known' = 0
        BY <1>1, <1>2, <1>4, <2>1, <2>3 DEF Known
      <3> QED BY <1>1, <1>2, <3>1, <3>2, KnownKept
    <2> QED BY <2>2, <2>3
  <1>10. LookedAt' = {} /\ LookedAt = AllKnown /\ AllKnown' = AllKnown
    <2>1. Len(Styles) \in Nat /\ DOMAIN Styles = 1..Len(Styles)
      BY <1>6
    <2> QED BY <1>2, <2>1 DEF LookedAt, AllKnown
  <1>11. ASSUME NEW x \in Element, x # e PROVE ElementInv(x)'
    <2>1. Position(x)' = Position(x) /\ Position(x) \in Nat /\ Position(x) # made + 1
          /\ Position(StyleTag)' = Position(StyleTag)
      BY <1>2, <1>4, <1>11, SheetKept
    <2>2. Plain(x)' = Plain(x)
      BY <1>1, <1>2, <2>1 DEF Plain, InlineOf, AttributeOf
    <2>3. OwnStyle(x)' = OwnStyle(x) /\ stylesSpecificity'[x] = stylesSpecificity[x]
      BY <1>2, <1>7, <1>11 DEF OwnStyle, AttributeOf
    <2>4. Took(x)' = Took(x)
      <3>1. CASE x = Root
        BY <1>2, <1>3, <1>10, <1>11, <3>1 DEF Took
      <3>2. CASE x # Root /\ x # Current'
        BY <1>1, <1>2, <1>3, <1>10, <1>11, <2>1, <3>2 DEF Took
      <3>3. CASE x # Root /\ x = Current'
        <4>1. made' < Len(sheet'.order) /\ sheet' \in Sheets /\ made' \in 0..Len(sheet'.order)
          BY <1>1, <1>2, <3>3 DEF Current
        <4>2. x = sheet.order[made + 2] /\ made + 2 \in 1..Len(sheet.order)
          BY <1>1, <1>2, <3>3, <4>1 DEF Current
        <4>3. Position(x) = made + 2
          BY <1>1, <4>2, Positions
        <4> QED BY <1>1, <1>2, <1>3, <1>10, <1>11, <2>1, <3>3, <4>3 DEF Took
      <3> QED BY <3>1, <3>2, <3>3
    <2>5. ElementInv(x)
      BY DEF StylesInv
    <2> QED BY <1>2, <2>2, <2>3, <2>4, <2>5, ElementKept
  <1>12. ElementInv(e)'
    <2>1. ElementInv(e) /\ Took(e) = AllKnown
      BY <1>3, <1>10 DEF StylesInv, Took
    <2>2. InlineOf(e) # AttributeOf(e) /\ InlineOf(e) # Unset
      BY SheetAssumption, <1>5 DEF InlineOf, AttributeOf
    <2>3. ~(Position(e) <= made) /\ Position(e) <= made'
      BY <1>1, <1>2, <1>3
    <2>4. Plain(e) # InlineOf(e) /\ BestOf(e, AllKnown)
      BY <2>1, <2>2, <2>3 DEF Plain, ElementInv
    <2>5. Current' # e \/ e = Root
      <3>1. CASE made' < Len(sheet.order)
        <4>1. Current' = sheet.order[made + 2] /\ made + 2 \in 1..Len(sheet.order)
          BY <1>1, <1>2, <3>1 DEF Current
        <4> QED BY <1>1, <1>3, <4>1, Positions
      <3>2. CASE ~(made' < Len(sheet.order))
        BY <1>2, <3>2 DEF Current
      <3> QED BY <3>1, <3>2
    <2>6. made < Position(StyleTag) => Styles = <<>> /\ AllKnown = {}
      <3>1. made < Position(StyleTag) => Styles = <<>>
        BY <1>1, <1>2, NoneKnown
      <3> QED BY <3>1 DEF AllKnown
    <2>7. Took(e)' = AllKnown
      <3>1. CASE e = Root
        <4>1. made = 0 /\ made < Position(StyleTag)
          BY <1>1, <1>3, <1>4, <3>1
        <4>2. Took(e)' = {}
          BY <1>2, <1>3, <1>10, <3>1 DEF Took
        <4> QED BY <2>6, <4>1, <4>2
      <3>2. CASE e # Root
        <4>1. Position(e)' = Position(e) /\ Position(StyleTag)' = Position(StyleTag)
              /\ Position(StyleTag) # Position(e)
          BY <1>2, <1>3, <1>4, SheetKept, SheetAssumption
        <4>2. Took(e)' = IF Position(StyleTag) < Position(e) /\ Position(e) <= made'
                         THEN AllKnown ELSE {}
          BY <1>2, <1>3, <1>10, <2>5, <3>2, <4>1 DEF Took
        <4> QED BY <1>1, <1>3, <1>4, <2>3, <2>6, <4>1, <4>2
      <3> QED BY <3>1, <3>2
    <2>8. /\ Position(e)' = Position(e)
          /\ \A j : Matches(e, j)' = Matches(e, j) /\ Specificity(j)' = Specificity(j)
      BY <1>2, SheetKept
    <2>9. CASE sheet.inline[e] = Unset
      <3>1. Plain(e)' = Plain(e) /\ OwnStyle(e)' = OwnStyle(e)
        BY <1>2, <1>3, <1>7, <2>9 DEF Plain, OwnStyle, AttributeOf, InlineOf
      <3> QED BY <1>2, <2>4, <2>7, <2>8, <3>1 DEF ElementInv, BestOf, InlineOf, RuleProperty
    <2>10. CASE sheet.inline[e] # Unset
      <3>1. Plain(e)' = InlineOf(e) /\ OwnStyle(e)' = InlineOf(e)
        BY <1>2, <1>7, <2>2, <2>3, <2>8, <2>10 DEF Plain, OwnStyle, InlineOf
      <3>2. CASE e # Root
        BY <3>1, <3>2 DEF ElementInv, InlineOf
      <3>3. CASE e = Root
        <4>1. AllKnown = {}
          BY <1>1, <1>3, <1>4, <2>6, <3>3
        <4>2. stylesSpecificity[e] = 0
          BY <2>4, <4>1 DEF BestOf
        <4>3. Took(e)' = {} /\ stylesSpecificity'[e] = 0
          BY <1>2, <2>7, <4>1, <4>2
        <4>4. BestOf(e, Took(e))'
          BY <3>1, <4>3 DEF BestOf
        <4> QED BY <3>3, <4>4 DEF ElementInv
      <3> QED BY <3>2, <3>3
    <2> QED BY <2>9, <2>10
  <1>13. ColourInv' /\ DrawnInv' /\ FilledByCascade'
    BY <1>1, <1>2, <1>3, NothingDrawn
  <1> QED BY <1>8, <1>9, <1>11, <1>12, <1>13 DEF StylesInv

\* While the style element is made nothing else is.
LEMMA StyleMade ==
    ASSUME StylesInv, Current = StyleTag, sheet' = sheet, made' \in {made, made + 1},
           UNCHANGED <<complete, styles, stylesSpecificity>>,
           made' = made + 1 => looked' = 0, \A j \in DOMAIN Styles' : j \in Nat /\ j > 0
    PROVE  \A x \in Element : ElementInv(x)'
  <1> SUFFICES ASSUME NEW x \in Element PROVE ElementInv(x)'
    OBVIOUS
  <1>1. /\ StylesTypeOK /\ KnownInv /\ sheet \in Sheets
        /\ made \in 0..Len(sheet.order) /\ Len(sheet.order) \in Nat
    BY SheetIs DEF StylesInv, StylesTypeOK
  <1>2. StyleTag \notin Element /\ Root \in Element
    BY SheetAssumption
  <1>3. made < Len(sheet.order) /\ ~complete
    <2>1. made # Len(sheet.order)
      BY <1>1, <1>2, CurrentIs
    <2> QED BY <1>1, <2>1 DEF StylesTypeOK
  <1>4. /\ Position(StyleTag) = made + 1 /\ Position(x) \in Nat \ {0} /\ Position(x) # made + 1
        /\ Position(x)' = Position(x) /\ Position(StyleTag)' = Position(StyleTag)
        /\ Position(x) = 1 <=> x = Root
    BY <1>1, <1>2, <1>3, CurrentIs, Positions, SheetKept
  <1>5. Took(x) = {}
    BY <1>1, <1>2, <1>3, <1>4 DEF Took
  <1>6. Took(x)' = {}
    <2>1. CASE made' = made
      <3>1. Current' = Current
        BY <2>1 DEF Current
      <3> QED BY <1>1, <1>2, <1>3, <1>4, <2>1, <3>1 DEF Took
    <2>2. CASE made' = made + 1
      <3>1. LookedAt' = {}
        <4>1. looked' = 0 /\ \A j \in DOMAIN Styles' : ~(j <= 0)
          BY <1>1, <2>2
        <4> QED BY <4>1 DEF LookedAt
      <3> QED BY <1>1, <1>2, <1>3, <1>4, <2>2, <3>1 DEF Took
    <2> QED BY <2>1, <2>2
  <1>7. Plain(x)' = Plain(x)
    <2>1. (Position(x) <= made') <=> (Position(x) <= made)
      BY <1>1, <1>4
    <2> QED BY <1>4, <2>1 DEF Plain, InlineOf, AttributeOf
  <1>8. OwnStyle(x)' = OwnStyle(x) /\ ElementInv(x)
    BY DEF OwnStyle, AttributeOf, StylesInv
  <1> QED BY <1>5, <1>6, <1>7, <1>8, ElementKept

\* The style element is complete.
LEMMA CreateStyleKeeps ==
    ASSUME StylesInv, CreateStyle
    PROVE  StylesInv'
  <1>1. /\ StylesTypeOK /\ KnownInv /\ ColourInv /\ sheet \in Sheets
        /\ made \in 0..Len(sheet.order) /\ Len(sheet.order) \in Nat
    BY SheetIs DEF StylesInv, StylesTypeOK
  <1>2. /\ Current = StyleTag /\ looked = Len(sheet.rules) /\ made' = made + 1 /\ looked' = 0
        /\ UNCHANGED <<sheet, complete, Styles, styles, stylesSpecificity, colourOf, reached,
                       filled>>
    BY DEF CreateStyle
  <1>3. made < Len(sheet.order) /\ ~complete
    <2>1. made # Len(sheet.order)
      BY <1>1, <1>2, CurrentIs, SheetAssumption
    <2> QED BY <1>1, <2>1 DEF StylesTypeOK
  <1>4. StylesTypeOK'
    BY <1>1, <1>2, <1>3 DEF StylesTypeOK
  <1>5. KnownInv'
    <2>1. Position(StyleTag) = made + 1 /\ Position(StyleTag)' = Position(StyleTag)
      BY <1>1, <1>2, <1>3, CurrentIs, SheetKept
    <2>2. Known' = Known
      BY <1>1, <1>2, <2>1 DEF Known
    <2> QED BY <1>1, <1>2, <2>2, KnownKept
  <1>6. \A x \in Element : ElementInv(x)'
    <2>1. Styles' \in Seq(DOMAIN sheet.rules)
      BY <1>1, <1>2 DEF StylesTypeOK
    <2>2. \A j \in DOMAIN Styles' : j \in Nat /\ j > 0
      BY <2>1
    <2> QED BY <1>2, <2>2, StyleMade
  <1>7. ColourInv' /\ DrawnInv' /\ FilledByCascade'
    BY <1>1, <1>2, <1>3, NothingDrawn
  <1> QED BY <1>4, <1>5, <1>6, <1>7 DEF StylesInv

\* The root has looked at every selector again.
LEMMA CompleteKeeps ==
    ASSUME StylesInv, Complete
    PROVE  StylesInv'
  <1>1. /\ StylesTypeOK /\ KnownInv /\ ColourInv /\ sheet \in Sheets
        /\ made \in 0..Len(sheet.order) /\ Len(sheet.order) \in Nat
    BY SheetIs DEF StylesInv, StylesTypeOK
  <1>2. /\ made = Len(sheet.order) /\ ~complete /\ looked = Len(Styles) /\ complete' = TRUE
        /\ UNCHANGED <<sheet, made, looked, Styles, styles, stylesSpecificity, colourOf, reached,
                       filled>>
    BY DEF Complete
  <1>3. StylesTypeOK'
    BY <1>1, <1>2 DEF StylesTypeOK
  <1>4. KnownInv'
    <2>1. Known' = Known
      BY <1>2, SheetKept DEF Known, Current
    <2> QED BY <1>1, <1>2, <2>1, KnownKept
  <1>5. ASSUME NEW x \in Element PROVE ElementInv(x)'
    <2>1. Plain(x)' = Plain(x) /\ OwnStyle(x)' = OwnStyle(x) /\ ElementInv(x)
      BY <1>2, SheetKept DEF Plain, OwnStyle, InlineOf, AttributeOf, StylesInv
    <2>2. Current = Root /\ Current' = Root
      BY <1>1, <1>2, CurrentIs DEF Current
    <2>3. LookedAt = AllKnown /\ AllKnown' = AllKnown
      <3>1. Styles \in Seq(DOMAIN sheet.rules)
        BY <1>1 DEF StylesTypeOK
      <3>2. Len(Styles) \in Nat /\ DOMAIN Styles = 1..Len(Styles)
        BY <3>1
      <3> QED BY <1>2, <3>2 DEF LookedAt, AllKnown
    <2>4. Took(x)' = Took(x)
      BY <1>2, <2>2, <2>3, SheetKept DEF Took
    <2> QED BY <1>2, <2>1, <2>4, ElementKept
  <1>6. ColourInv' /\ DrawnInv' /\ FilledByCascade'
    BY <1>1, <1>2, NothingDrawn
  <1> QED BY <1>3, <1>4, <1>5, <1>6 DEF StylesInv

\* The style element adds a rule.
LEMMA AddRuleKeeps ==
    ASSUME StylesInv, AddRule
    PROVE  StylesInv'
  <1> DEFINE n == looked
             sel(j) == sheet.rules[j].selector
             same == {j \in DOMAIN Styles : sel(Styles[j]) = sel(n + 1)}
  <1>1. /\ StylesTypeOK /\ KnownInv /\ ColourInv /\ sheet \in Sheets
        /\ made \in 0..Len(sheet.order) /\ Len(sheet.order) \in Nat /\ n \in Nat
        /\ Len(sheet.rules) \in Nat /\ DOMAIN sheet.rules = 1..Len(sheet.rules)
    BY SheetIs DEF StylesInv, StylesTypeOK
  <1>2. /\ Current = StyleTag /\ n < Len(sheet.rules)
        /\ looked' = n + 1 /\ Styles' = WithRule(n + 1)
        /\ UNCHANGED <<sheet, made, complete, styles, stylesSpecificity, colourOf, reached, filled>>
    BY DEF AddRule
  <1>3. made < Len(sheet.order) /\ ~complete
    <2>1. made # Len(sheet.order)
      BY <1>1, <1>2, CurrentIs, SheetAssumption
    <2> QED BY <1>1, <2>1 DEF StylesTypeOK
  <1>4. Known = n /\ Known' = n + 1
    <2>1. Position(StyleTag) = made + 1 /\ Position(StyleTag)' = Position(StyleTag)
      BY <1>1, <1>2, <1>3, CurrentIs, SheetKept
    <2>2. Current' = Current
      BY <1>2 DEF Current
    <2> QED BY <1>1, <1>2, <2>1, <2>2 DEF Known
  <1>5. /\ Styles \in Seq(1..Len(sheet.rules)) /\ Len(Styles) \in Nat
        /\ DOMAIN Styles = 1..Len(Styles) /\ n + 1 \in 1..Len(sheet.rules)
    BY <1>1, <1>2 DEF StylesTypeOK
  <1>6. /\ \A k \in DOMAIN Styles : Styles[k] \in 1..n
        /\ \A j \in 1..n : \E k \in DOMAIN Styles : sel(Styles[k]) = sel(j)
        /\ \A k \in DOMAIN Styles : \A j \in 1..n : sel(Styles[k]) = sel(j) => j <= Styles[k]
        /\ \A j, k \in DOMAIN Styles : sel(Styles[j]) = sel(Styles[k]) => j = k
    BY <1>1, <1>4 DEF KnownInv
  <1>7. /\ Styles' \in Seq(1..Len(sheet.rules))
        /\ \A k \in DOMAIN Styles' : Styles'[k] \in 1..(n + 1)
        /\ \A j \in 1..(n + 1) : \E k \in DOMAIN Styles' : sel(Styles'[k]) = sel(j)
        /\ \A k \in DOMAIN Styles' : \A j \in 1..(n + 1) :
             sel(Styles'[k]) = sel(j) => j <= Styles'[k]
        /\ \A j, k \in DOMAIN Styles' : sel(Styles'[j]) = sel(Styles'[k]) => j = k
    <2>1. CASE same = {}
      <3>1. Styles' = Append(Styles, n + 1)
        BY <1>2, <2>1 DEF WithRule
      <3>2. /\ Styles' \in Seq(1..Len(sheet.rules)) /\ DOMAIN Styles' = 1..(Len(Styles) + 1)
            /\ \A k \in 1..Len(Styles) : Styles'[k] = Styles[k]
            /\ Styles'[Len(Styles) + 1] = n + 1
        BY <1>5, <3>1
      <3>3. \A k \in 1..Len(Styles) : sel(Styles[k]) # sel(n + 1)
        BY <1>5, <2>1
      <3> HIDE DEF sel, same
      <3>4. \A k \in DOMAIN Styles' : Styles'[k] \in 1..(n + 1)
        <4> TAKE k \in DOMAIN Styles'
        <4>1. k \in 1..Len(Styles) => Styles[k] \in 1..n
          BY <1>5, <1>6
        <4> QED BY <1>1, <1>5, <3>2, <4>1
      <3>5. ASSUME NEW j \in 1..(n + 1)
            PROVE  \E k \in DOMAIN Styles' : sel(Styles'[k]) = sel(j)
        <4>1. CASE j = n + 1
          BY <1>5, <3>2, <4>1
        <4>2. CASE j \in 1..n
          <5>1. PICK k \in 1..Len(Styles) : sel(Styles[k]) = sel(j)
            BY <1>5, <1>6, <4>2
          <5>2. k \in DOMAIN Styles' /\ Styles'[k] = Styles[k]
            BY <1>5, <3>2
          <5> QED BY <5>1, <5>2
        <4> QED BY <1>1, <4>1, <4>2
      <3>6. ASSUME NEW k \in DOMAIN Styles', NEW j \in 1..(n + 1), sel(Styles'[k]) = sel(j)
            PROVE  j <= Styles'[k]
        <4>1. CASE k = Len(Styles) + 1
          BY <1>1, <3>2, <4>1
        <4>2. CASE k \in 1..Len(Styles)
          <5>1. j # n + 1
            BY <3>2, <3>3, <3>6, <4>2
          <5>2. j \in 1..n /\ sel(Styles[k]) = sel(j)
            BY <1>1, <3>2, <3>6, <4>2, <5>1
          <5> QED BY <1>5, <1>6, <3>2, <4>2, <5>2
        <4> QED BY <1>5, <3>2, <4>1, <4>2
      <3>7. ASSUME NEW j \in DOMAIN Styles', NEW k \in DOMAIN Styles',
                   sel(Styles'[j]) = sel(Styles'[k])
            PROVE  j = k
        <4>1. CASE j \in 1..Len(Styles) /\ k \in 1..Len(Styles)
          BY <1>5, <1>6, <3>2, <3>7, <4>1
        <4>2. CASE j = Len(Styles) + 1 \/ k = Len(Styles) + 1
          BY <1>5, <3>2, <3>3, <3>7, <4>2
        <4> QED BY <1>5, <3>2, <4>1, <4>2
      <3> QED BY <3>2, <3>4, <3>5, <3>6, <3>7
    <2>2. CASE same # {}
      <3>1. PICK m \in same : Styles' = [Styles EXCEPT ![m] = n + 1]
        BY <1>2, <2>2 DEF WithRule
      <3>2. m \in 1..Len(Styles) /\ sel(Styles[m]) = sel(n + 1)
        BY <1>5
      <3>3. /\ Styles' \in Seq(1..Len(sheet.rules)) /\ DOMAIN Styles' = 1..Len(Styles)
            /\ \A k \in 1..Len(Styles) : k # m => Styles'[k] = Styles[k]
            /\ Styles'[m] = n + 1
        BY <1>5, <3>1, <3>2
      <3> HIDE DEF sel, same
      <3>4. \A k \in 1..Len(Styles) : sel(Styles'[k]) = sel(Styles[k])
        BY <3>2, <3>3
      <3>5. \A k \in DOMAIN Styles' : Styles'[k] \in 1..(n + 1)
        <4> TAKE k \in DOMAIN Styles'
        <4>1. k \in 1..Len(Styles) => Styles[k] \in 1..n
          BY <1>5, <1>6
        <4> QED BY <1>1, <1>5, <3>3, <4>1
      <3>6. ASSUME NEW j \in 1..(n + 1)
            PROVE  \E k \in DOMAIN Styles' : sel(Styles'[k]) = sel(j)
        <4>1. CASE j = n + 1
          BY <3>2, <3>3, <3>4, <4>1
        <4>2. CASE j \in 1..n
          <5>1. PICK k \in 1..Len(Styles) : sel(Styles[k]) = sel(j)
            BY <1>5, <1>6, <4>2
          <5> QED BY <3>3, <3>4, <5>1
        <4> QED BY <1>1, <4>1, <4>2
      <3>7. ASSUME NEW k \in DOMAIN Styles', NEW j \in 1..(n + 1), sel(Styles'[k]) = sel(j)
            PROVE  j <= Styles'[k]
        <4>1. CASE k = m
          BY <1>1, <3>3, <4>1
        <4>2. CASE k # m
          <5>1. k \in DOMAIN Styles /\ m \in DOMAIN Styles /\ sel(Styles[k]) = sel(j)
            BY <1>5, <3>2, <3>3, <3>4, <3>7
          <5>2. j # n + 1
            BY <1>6, <3>2, <4>2, <5>1
          <5>3. j \in 1..n
            BY <1>1, <5>2
          <5> QED BY <1>6, <3>3, <4>2, <5>1, <5>3
        <4> QED BY <4>1, <4>2
      <3>8. ASSUME NEW j \in DOMAIN Styles', NEW k \in DOMAIN Styles',
                   sel(Styles'[j]) = sel(Styles'[k])
            PROVE  j = k
        <4>1. j \in 1..Len(Styles) /\ k \in 1..Len(Styles)
          BY <3>3
        <4>2. sel(Styles[j]) = sel(Styles[k])
          BY <3>4, <3>8, <4>1
        <4> QED BY <1>5, <1>6, <4>1, <4>2
      <3> QED BY <3>3, <3>5, <3>6, <3>7, <3>8
    <2> QED BY <2>1, <2>2
  <1>8. KnownInv'
    <2>1. n + 1 <= Len(sheet.rules)
      BY <1>1, <1>2
    <2> QED BY <1>2, <1>4, <1>7, <2>1 DEF KnownInv
  <1>9. StylesTypeOK'
    <2>1. looked' \in Nat
      BY <1>1, <1>2
    <2>2. Styles' \in Seq(DOMAIN sheet'.rules)
      BY <1>1, <1>2, <1>7
    <2>3. PropertiesOf(sheet)' = PropertiesOf(sheet)
      BY <1>2 DEF PropertiesOf
    <2> HIDE DEF n, sel, same
    <2> QED BY <1>1, <1>2, <2>1, <2>2, <2>3 DEF StylesTypeOK
  <1>10. \A x \in Element : ElementInv(x)'
    <2>1. \A j \in DOMAIN Styles' : j \in Nat /\ j > 0
      BY <1>7
    <2> QED BY <1>1, <1>2, <2>1, StyleMade
  <1>11. ColourInv' /\ DrawnInv' /\ FilledByCascade'
    BY <1>1, <1>2, <1>3, NothingDrawn
  <1> QED BY <1>8, <1>9, <1>10, <1>11 DEF StylesInv

-----------------------------------------------------------------------------
\* What each kind of Property is given.
LEMMA GivenIs ==
    /\ \A e : Given(AttributeOf(e)) = sheet.attribute[e]
    /\ \A e : Given(InlineOf(e)) = sheet.inline[e]
    /\ \A i : Given(RuleProperty(i)) = sheet.rules[i].fill
  BY DEF Given, AttributeOf, InlineOf, RuleProperty

\* The Property an element has is its own, and was given a fill.
LEMMA OwnerIs ==
    ASSUME StylesTypeOK, NEW e \in Element, ElementInv(e), OwnStyle(e) # Unset
    PROVE  /\ Owns(e, OwnStyle(e)) /\ OwnStyle(e) \in PropertiesOf(sheet)
           /\ Given(OwnStyle(e)) # Unset
  <1>1. sheet \in Sheets /\ Styles \in Seq(DOMAIN sheet.rules)
    BY DEF StylesTypeOK
  <1>2. Took(e) \subseteq DOMAIN sheet.rules
    <2>1. \A k \in DOMAIN Styles : Styles[k] \in DOMAIN sheet.rules
      BY <1>1
    <2> QED BY <2>1 DEF Took, LookedAt, AllKnown
  <1>3. CASE OwnStyle(e) = Plain(e)
    <2>1. \/ OwnStyle(e) = InlineOf(e) /\ sheet.inline[e] # Unset
          \/ OwnStyle(e) = AttributeOf(e) /\ sheet.attribute[e] # Unset
      BY <1>3 DEF Plain
    <2>2. OwnStyle(e) \in PropertiesOf(sheet)
      BY <2>1 DEF InlineOf, AttributeOf, PropertiesOf
    <2> QED BY <2>1, <2>2, GivenIs DEF Owns
  <1>4. ASSUME NEW i \in Took(e), Matches(e, i), OwnStyle(e) = RuleProperty(i)
        PROVE  /\ Owns(e, OwnStyle(e)) /\ OwnStyle(e) \in PropertiesOf(sheet)
               /\ Given(OwnStyle(e)) # Unset
    <2>1. i \in DOMAIN sheet.rules
      BY <1>2
    <2>2. OwnStyle(e) \in PropertiesOf(sheet)
      BY <1>4, <2>1 DEF RuleProperty, PropertiesOf
    <2>3. sheet.rules[i].fill # Unset
      BY <1>1, <2>1, SheetIs
    <2> QED BY <1>4, <2>1, <2>2, <2>3, GivenIs DEF Owns
  <1> QED BY <1>3, <1>4 DEF ElementInv, BestOf

\* If rules for elements of different colours have none, owners are of one colour.
LEMMA OwnersAlike ==
    ASSUME NEW x \in Element, NEW y \in Element, NEW p, Owns(x, p), Owns(y, p),
           Given(p) = "currentColor", ~SharedCurrentColor
    PROVE  Color(x) = Color(y)
  <1>1. CASE x = y
    BY <1>1
  <1>2. CASE x # y
    <2>1. PICK i \in DOMAIN sheet.rules : p = RuleProperty(i) /\ Matches(x, i)
      BY <1>2 DEF Owns, AttributeOf, InlineOf, RuleProperty
    <2>2. PICK j \in DOMAIN sheet.rules : p = RuleProperty(j) /\ Matches(y, j)
      BY <1>2, <2>1 DEF Owns, AttributeOf, InlineOf, RuleProperty
    <2>3. i = j /\ sheet.rules[i].fill = "currentColor"
      BY <2>1, <2>2, GivenIs DEF RuleProperty
    <2> QED BY <2>1, <2>2, <2>3 DEF SharedCurrentColor, Matches
  <1> QED BY <1>1, <1>2

\* Of the rules an element looked at it has the one that wins the cascade.
LEMMA WinnerIs ==
    ASSUME StylesTypeOK, KnownInv, complete, NEW e \in Element, BestOf(e, AllKnown),
           Rules(e) # {}, ~EquallySpecific(e), ~Universal(e)
    PROVE  Winner(e) \in DOMAIN sheet.rules /\ OwnStyle(e) = RuleProperty(Winner(e))
  <1>1. /\ sheet \in Sheets /\ Styles \in Seq(DOMAIN sheet.rules) /\ made = Len(sheet.order)
        /\ stylesSpecificity[e] \in Nat
    BY DEF StylesTypeOK
  <1>2. /\ DOMAIN sheet.rules = 1..Len(sheet.rules) /\ Len(sheet.rules) \in Nat
        /\ \A i \in DOMAIN sheet.rules : Specificity(i) \in Nat
    BY <1>1, SheetIs DEF Specificity
  <1>3. Known = Len(sheet.rules)
    BY <1>1, Positions, SheetIs DEF Known
  <1>4. \A k \in DOMAIN Styles : Styles[k] \in DOMAIN sheet.rules
    BY <1>1
  <1>5. \A i, j \in DOMAIN sheet.rules : sheet.rules[i].selector = sheet.rules[j].selector =>
            /\ Matches(e, i) = Matches(e, j) /\ Specificity(i) = Specificity(j)
    BY <1>1, SheetAssumption DEF Matches, Specificity
  <1>6. \A j \in Rules(e) : \E i \in AllKnown :
            /\ i \in Rules(e) /\ Specificity(i) = Specificity(j)
            /\ sheet.rules[i].selector = sheet.rules[j].selector
    <2> TAKE j \in Rules(e)
    <2>1. j \in 1..Known /\ j \in DOMAIN sheet.rules
      BY <1>2, <1>3 DEF Rules
    <2>2. PICK k \in DOMAIN Styles : sheet.rules[Styles[k]].selector = sheet.rules[j].selector
      BY <2>1 DEF KnownInv
    <2>3. Styles[k] \in AllKnown
      BY DEF AllKnown
    <2> QED BY <1>4, <1>5, <2>1, <2>2, <2>3 DEF Rules
  <1>7. \A j \in Rules(e) : Specificity(j) \in Nat /\ Specificity(j) > 0
    BY <1>2 DEF Universal, Rules
  <1>8. \A j \in Rules(e) : Specificity(j) <= stylesSpecificity[e]
    BY <1>6 DEF BestOf, Rules
  <1>9. stylesSpecificity[e] > 0
    BY <1>1, <1>7, <1>8
  <1>10. PICK i \in AllKnown : /\ Matches(e, i) /\ Specificity(i) = stylesSpecificity[e]
                               /\ OwnStyle(e) = RuleProperty(i)
    BY <1>9 DEF BestOf
  <1>11. i \in Rules(e) /\ i \in DOMAIN sheet.rules /\ i \in Nat
    BY <1>2, <1>4, <1>10 DEF AllKnown, Rules
  <1>12. \A j \in Rules(e) : \/ Specificity(i) > Specificity(j)
                             \/ Specificity(i) = Specificity(j) /\ i >= j
    <2> TAKE j \in Rules(e)
    <2>1. CASE Specificity(i) = Specificity(j)
      <3>1. sheet.rules[i].selector = sheet.rules[j].selector
        BY <1>11, <2>1 DEF EquallySpecific
      <3>2. j \in 1..Known
        BY <1>2, <1>3 DEF Rules
      <3>3. PICK k \in DOMAIN Styles : i = Styles[k]
        BY DEF AllKnown
      <3>4. j <= i
        BY <3>1, <3>2, <3>3 DEF KnownInv
      <3> QED BY <1>11, <2>1, <3>2, <3>4
    <2>2. CASE Specificity(i) # Specificity(j)
      BY <1>7, <1>8, <1>10, <1>11, <2>2
    <2> QED BY <2>1, <2>2
  <1>13. Winner(e) = i
    <2> DEFINE Wins(m) == \A j \in Rules(e) : \/ Specificity(m) > Specificity(j)
                                              \/ Specificity(m) = Specificity(j) /\ m >= j
    <2>1. Rules(e) \subseteq Nat
      BY <1>2 DEF Rules
    <2>2. \A m \in Rules(e) : Wins(m) => m = i
      BY <1>7, <1>11, <1>12, <2>1
    <2>3. Winner(e) = CHOOSE m \in Rules(e) : Wins(m)
      BY DEF Winner
    <2>4. Wins(i)
      BY <1>12
    <2> HIDE DEF Wins
    <2> QED BY <1>11, <2>2, <2>3, <2>4
  <1> QED BY <1>10, <1>11, <1>13

\* Where the code does not part from the cascade, an element has the fill that the
\* cascade gives it, or has none as there.
LEMMA Agrees ==
    ASSUME StylesTypeOK, KnownInv, complete, NEW e \in Element, ElementInv(e), ~PartsHere(e)
    PROVE  /\ OwnStyle(e) # Unset <=> Own(e) # Unset
           /\ OwnStyle(e) # Unset => Given(OwnStyle(e)) = Own(e)
  <1>1. /\ sheet \in Sheets /\ made = Len(sheet.order)
        /\ ~MadeBeforeItsRules(e) /\ ~EquallySpecific(e) /\ ~Universal(e) /\ ~RuleOverStyle(e)
    BY DEF StylesTypeOK, PartsHere
  <1>2. /\ Position(e) \in 1..Len(sheet.order) /\ Position(StyleTag) \in 1..Len(sheet.order)
        /\ Position(e) # Position(StyleTag)
    BY <1>1, Positions, SheetAssumption
  <1>3. /\ InlineOf(e) # Unset /\ AttributeOf(e) # Unset /\ InlineOf(e) # AttributeOf(e)
        /\ \A i \in Nat : RuleProperty(i) # Unset /\ RuleProperty(i) # InlineOf(e)
    <2>1. /\ InlineOf(e) \in Property /\ AttributeOf(e) \in Property
          /\ \A i \in Nat : RuleProperty(i) \in Property
      BY DEF InlineOf, AttributeOf, RuleProperty, Property
    <2> QED BY <2>1, SheetAssumption DEF InlineOf, AttributeOf, RuleProperty
  <1>4. Position(e) <= made
    BY <1>1, <1>2
  <1>5. CASE sheet.inline[e] # Unset
    <2>1. Plain(e) = InlineOf(e) /\ Own(e) = sheet.inline[e]
      BY <1>4, <1>5 DEF Plain, Own
    <2>2. OwnStyle(e) = InlineOf(e)
      <3>1. CASE e # Root
        BY <2>1, <3>1 DEF ElementInv
      <3>2. CASE e = Root
        <4>1. \A i \in DOMAIN sheet.rules : ~Matches(e, i)
          BY <1>1, <1>5, <3>2 DEF RuleOverStyle, Rules
        <4>2. Took(e) \subseteq DOMAIN sheet.rules
          BY DEF Took, LookedAt, AllKnown, StylesTypeOK
        <4> QED BY <2>1, <3>2, <4>1, <4>2 DEF ElementInv, BestOf
      <3> QED BY <3>1, <3>2
    <2> QED BY <1>3, <1>5, <2>1, <2>2, GivenIs
  <1>6. CASE sheet.inline[e] = Unset
    <2>1. Plain(e) # InlineOf(e) /\ BestOf(e, Took(e))
      BY <1>3, <1>6 DEF Plain, ElementInv
    <2>2. CASE Rules(e) = {}
      <3>1. Took(e) \subseteq DOMAIN sheet.rules
        BY DEF Took, LookedAt, AllKnown, StylesTypeOK
      <3>2. OwnStyle(e) = Plain(e)
        BY <2>1, <2>2, <3>1 DEF BestOf, Rules
      <3> QED BY <1>3, <1>6, <2>2, <3>2, GivenIs DEF Plain, Own
    <2>3. CASE Rules(e) # {}
      <3>1. Took(e) = AllKnown
        BY <1>1, <1>2, <1>4, <2>3 DEF Took, MadeBeforeItsRules
      <3>2. Winner(e) \in DOMAIN sheet.rules /\ OwnStyle(e) = RuleProperty(Winner(e))
        BY <1>1, <2>1, <2>3, <3>1, WinnerIs
      <3>3. Own(e) = sheet.rules[Winner(e)].fill
        BY <1>6, <2>3 DEF Own
      <3>4. Winner(e) \in Nat /\ sheet.rules[Winner(e)].fill # Unset
        BY <1>1, <3>2, SheetIs
      <3> QED BY <1>3, <3>2, <3>3, <3>4, GivenIs
    <2> QED BY <2>2, <2>3
  <1> QED BY <1>5, <1>6

\* Then both find the fill at the same ancestor.
LEMMA SameAncestor ==
    ASSUME StylesTypeOK, KnownInv, complete, \A x \in Element : ElementInv(x),
           NEW e \in Element, ~Parts(e)
    PROVE  /\ StyleFrom(e) = Nearest(e, {x \in Element : Own(x) # Unset})
           /\ StyleFrom(e) # Unset => Given(OwnStyle(StyleFrom(e))) = Own(StyleFrom(e))
  <1> DEFINE way == sheet.up[e]
             SL == {x \in Element : OwnStyle(x) # Unset}
             SO == {x \in Element : Own(x) # Unset}
  <1>1. /\ sheet \in Sheets /\ way \in Seq(Element) /\ DOMAIN way = 1..Len(way)
        /\ Len(way) \in Nat
    BY SheetIs DEF StylesTypeOK
  <1>2. \A k \in DOMAIN way : way[k] \in Element
    BY <1>1
  <1>3. StyleFrom(e) = Nearest(e, SL)
    BY DEF StyleFrom
  <1>4. CASE \A k \in DOMAIN way : way[k] \notin SO
    <2>1. \A k \in DOMAIN way : Own(way[k]) = Unset
      BY <1>2, <1>4
    <2>2. \A k \in DOMAIN way : ~PartsHere(way[k])
      BY <1>1, <2>1 DEF Parts
    <2>3. \A k \in DOMAIN way : way[k] \notin SL
      BY <1>2, <2>1, <2>2, Agrees
    <2>4. Nearest(e, SL) = Unset /\ Nearest(e, SO) = Unset
      BY <1>4, <2>3, NearestNone
    <2> QED BY <1>3, <2>4
  <1>5. ASSUME NEW k \in DOMAIN way, way[k] \in SO, \A j \in 1..(k - 1) : way[j] \notin SO
        PROVE  /\ StyleFrom(e) = Nearest(e, SO)
               /\ StyleFrom(e) # Unset => Given(OwnStyle(StyleFrom(e))) = Own(StyleFrom(e))
    <2>1. \A j \in 1..(k - 1) : j \in DOMAIN way /\ Own(way[j]) = Unset
      BY <1>1, <1>2, <1>5
    <2>2. \A j \in 1..k : j \in DOMAIN way /\ ~PartsHere(way[j])
      <3> TAKE j \in 1..k
      <3>1. j \in DOMAIN way /\ \A i \in 1..(j - 1) : i \in 1..(k - 1)
        BY <1>1
      <3> QED BY <2>1, <3>1 DEF Parts
    <2>3. \A j \in 1..(k - 1) : way[j] \notin SL
      <3> TAKE j \in 1..(k - 1)
      <3>1. j \in 1..k
        BY <1>1
      <3> QED BY <1>2, <2>1, <2>2, <3>1, Agrees
    <2>4. way[k] \in SL /\ Given(OwnStyle(way[k])) = Own(way[k])
      <3>1. k \in 1..k
        BY <1>1
      <3> QED BY <1>2, <1>5, <2>2, <3>1, Agrees
    <2>5. Nearest(e, SL) = way[k] /\ Nearest(e, SO) = way[k]
      BY <1>1, <1>5, <2>3, <2>4, NearestIs
    <2> QED BY <1>3, <2>4, <2>5
  <1> QED BY <1>1, <1>4, <1>5, SomeOrNone

-----------------------------------------------------------------------------
\* An element is drawn.
LEMMA SetFillStyleKeeps ==
    ASSUME StylesInv, NEW e \in Element, complete, SetFillStyle(e), Position(e) = reached + 1,
           reached' = reached + 1 \/ reached' = 0,
           UNCHANGED <<sheet, made, looked, complete, Styles, stylesSpecificity>>
    PROVE  /\ styles' \in [Element -> Property \cup {Unset}]
           /\ DOMAIN colourOf' = PropertiesOf(sheet) /\ DOMAIN filled' = Element
           /\ \A x : OwnStyle(x)' = OwnStyle(x)
           /\ ColourInv' /\ DrawnInv' /\ FilledByCascade'
  <1> DEFINE a == StyleFrom(e)
             p == OwnStyle(a)
  <1>1. /\ StylesTypeOK /\ KnownInv /\ ColourInv /\ DrawnInv /\ FilledByCascade
        /\ \A x \in Element : ElementInv(x)
        /\ sheet \in Sheets /\ styles \in [Element -> Property \cup {Unset}]
        /\ DOMAIN colourOf = PropertiesOf(sheet) /\ DOMAIN filled = Element /\ reached \in Nat
    BY SheetIs DEF StylesInv, StylesTypeOK
  <1>2. /\ SharedCurrentColor' = SharedCurrentColor
        /\ \A x : /\ Color(x)' = Color(x) /\ Cascade(x)' = Cascade(x) /\ Parts(x)' = Parts(x)
                  /\ Position(x)' = Position(x)
        /\ \A q : Given(q)' = Given(q) /\ \A x : Owns(x, q)' = Owns(x, q)
    BY SheetKept
  <1>3. Color(e) # Unset /\ Color(e) # "currentColor"
    BY <1>1, ColourIs
  <1>4. \A x \in Element : Position(x) <= reached + 1 => Position(x) <= reached \/ x = e
    <2> TAKE x \in Element
    <2>1. /\ Position(x) \in Nat /\ Position(e) \in Nat
          /\ sheet.order[Position(x)] = x /\ sheet.order[Position(e)] = e
      BY <1>1, Positions, SheetIs
    <2> QED BY <1>1, <2>1
  <1>5. ASSUME a # Unset
        PROVE  /\ a \in Element /\ p # Unset /\ Owns(a, p) /\ p \in PropertiesOf(sheet)
               /\ Given(p) # Unset
               /\ a # e => colourOf[p] # "currentColor"
    <2>1. /\ a \in Element /\ p # Unset /\ a # e => Position(a) < Position(e)
      BY <1>1, <1>5, NearestOnWay DEF StyleFrom
    <2>2. a \in Element /\ p # Unset
      BY <1>1, <1>5, NearestOnWay DEF StyleFrom
    <2>3. Owns(a, p) /\ p \in PropertiesOf(sheet) /\ Given(p) # Unset
      BY <1>1, <2>2, OwnerIs
    <2>4. a # e => colourOf[p] # "currentColor"
      <3> SUFFICES ASSUME a # e PROVE colourOf[p] # "currentColor"
        OBVIOUS
      <3>1. Position(a) < Position(e)
        BY <1>1, <1>5, NearestOnWay DEF StyleFrom
      <3>2. Position(a) \in Nat
        BY <1>1, <2>2, Positions, SheetIs
      <3>3. Position(a) <= reached
        BY <1>1, <3>1, <3>2
      <3> QED BY <1>1, <2>2, <3>3 DEF DrawnInv
    <2> QED BY <2>2, <2>3, <2>4
  <1>6. a = Unset => OwnStyle(e) = Unset
    <2> SUFFICES ASSUME OwnStyle(e) # Unset PROVE a # Unset
      OBVIOUS
    <2> DEFINE S == {x \in Element : OwnStyle(x) # Unset}
    <2>1. sheet.up[e][1] = e /\ 1 \in DOMAIN sheet.up[e] /\ \A j \in 1..(1 - 1) : FALSE
      BY <1>1, SheetIs
    <2>2. e \in S
      OBVIOUS
    <2> HIDE DEF S
    <2>3. Nearest(e, S) = e
      BY <1>1, <2>1, <2>2, NearestIs
    <2> QED BY <2>3, SheetAssumption DEF StyleFrom, S
  <1>7. OwnStyle(e) # Unset => a = e
    BY <1>1, <1>6, NearestOnWay DEF StyleFrom
  <1>8. CASE a = Unset
    <2>1. filled' = [filled EXCEPT ![e] = "black"] /\ UNCHANGED <<styles, colourOf>>
      BY <1>8 DEF SetFillStyle
    <2>2. /\ DOMAIN filled' = Element /\ filled'[e] = "black"
          /\ \A x \in Element : x # e => filled'[x] = filled[x]
      BY <1>1, <2>1
    <2>3. \A x : OwnStyle(x)' = OwnStyle(x)
      BY <2>1 DEF OwnStyle, AttributeOf
    <2>4. ColourInv'
      BY <1>1, <1>2, <2>1 DEF ColourInv
    <2>5. DrawnInv'
      <3> SUFFICES ASSUME NEW x \in Element
                   PROVE  /\ Position(x) <= reached' => filled'[x] # Unset
                          /\ filled'[x] # Unset /\ OwnStyle(x) # Unset =>
                               colourOf[OwnStyle(x)] # "currentColor"
        BY <1>2, <2>1, <2>3 DEF DrawnInv
      <3>1. CASE x = e
        BY <1>6, <1>8, <2>2, <3>1, SheetAssumption
      <3>2. CASE x # e
        <4>1. Position(x) \in Nat \ {0}
          BY <1>1, Positions, SheetIs
        <4>2. Position(x) <= reached' => Position(x) <= reached
          BY <1>1, <1>4, <3>2, <4>1
        <4> QED BY <1>1, <2>2, <3>2, <4>2 DEF DrawnInv
      <3> QED BY <3>1, <3>2
    <2>6. FilledByCascade'
      <3> SUFFICES ASSUME ~SharedCurrentColor, NEW x \in Element, filled'[x] # Unset, ~Parts(x)
                   PROVE  filled'[x] = Cascade(x)
        BY <1>2 DEF FilledByCascade
      <3>1. CASE x = e
        <4>1. Nearest(e, {y \in Element : Own(y) # Unset}) = Unset
          BY <1>1, <1>8, <3>1, SameAncestor
        <4> QED BY <2>2, <3>1, <4>1 DEF Cascade
      <3>2. CASE x # e
        BY <1>1, <2>2, <3>2 DEF FilledByCascade
      <3> QED BY <3>1, <3>2
    <2> QED BY <1>1, <2>1, <2>2, <2>3, <2>4, <2>5, <2>6
  <1>9. CASE a # Unset
    <2> DEFINE colour == IF colourOf[p] = "currentColor" THEN Color(e) ELSE colourOf[p]
    <2>1. /\ styles' = [styles EXCEPT ![a] = p]
          /\ colourOf' = [colourOf EXCEPT ![p] = colour]
          /\ filled' = [filled EXCEPT ![e] = colour]
      BY <1>9 DEF SetFillStyle
    <2>2. /\ a \in Element /\ p # Unset /\ Owns(a, p) /\ p \in PropertiesOf(sheet)
          /\ Given(p) # Unset /\ a # e => colourOf[p] # "currentColor"
      BY <1>5, <1>9
    <2>3. /\ a \in Element /\ p # Unset /\ Owns(a, p) /\ p \in PropertiesOf(sheet)
          /\ Given(p) # Unset
      BY <1>5, <1>9
    <2>4. colourOf[p] = "currentColor" => a = e
      BY <1>5, <1>9
    <2>5. p \in Property
      <3>1. p = styles[a] \/ p = AttributeOf(a)
        BY <2>3 DEF OwnStyle
      <3>2. AttributeOf(a) \in Property
        BY <2>3 DEF AttributeOf, Property
      <3> QED BY <1>1, <2>3, <3>1, <3>2
    <2> HIDE DEF p, a
    <2>6. /\ styles' \in [Element -> Property \cup {Unset}] /\ styles'[a] = p
          /\ \A x : x # a => styles'[x] = styles[x]
      BY <1>1, <2>1, <2>3, <2>5
    <2>7. /\ DOMAIN colourOf' = PropertiesOf(sheet) /\ colourOf'[p] = colour
          /\ \A q \in PropertiesOf(sheet) : q # p => colourOf'[q] = colourOf[q]
      BY <1>1, <2>1, <2>3
    <2>8. /\ DOMAIN filled' = Element /\ filled'[e] = colour
          /\ \A x \in Element : x # e => filled'[x] = filled[x]
      BY <1>1, <2>1
    <2>9. \A x : OwnStyle(x)' = OwnStyle(x)
      <3> TAKE x
      <3>1. CASE x = a
        <4>1. OwnStyle(x)' = p
          BY <2>3, <2>6, <3>1 DEF OwnStyle
        <4> QED BY <3>1, <4>1 DEF p
      <3>2. CASE x # a
        BY <2>6, <3>2 DEF OwnStyle, AttributeOf
      <3> QED BY <3>1, <3>2
    <2>10. colour # "currentColor" /\ colour # Unset
      <3>1. colourOf[p] = Given(p) \/ \E x \in Element : colourOf[p] = Color(x)
        BY <1>1, <2>3 DEF ColourInv
      <3>2. colourOf[p] # Unset
        BY <1>1, <2>3, <3>1, ColourIs
      <3> QED BY <1>3, <3>2
    <2>11. \/ colour = Given(p)
           \/ /\ Given(p) = "currentColor"
              /\ \E x \in Element : Owns(x, p) /\ colour = Color(x)
      <3>1. CASE colourOf[p] = "currentColor"
        <4>1. Given(p) = "currentColor"
          <5>1. \A x \in Element : colourOf[p] # Color(x)
            BY <1>1, <3>1, ColourIs
          <5> QED BY <1>1, <2>3, <3>1, <5>1 DEF ColourInv
        <4>2. Owns(e, p) /\ colour = Color(e)
          BY <2>3, <2>4, <3>1
        <4> QED BY <4>1, <4>2
      <3>2. CASE colourOf[p] # "currentColor"
        BY <1>1, <2>3, <3>2 DEF ColourInv
      <3> QED BY <3>1, <3>2
    <2>12. ColourInv'
      <3> SUFFICES ASSUME NEW q \in PropertiesOf(sheet)
                   PROVE  \/ colourOf'[q] = Given(q)
                          \/ /\ Given(q) = "currentColor"
                             /\ \E x \in Element : Owns(x, q) /\ colourOf'[q] = Color(x)
        BY <1>2 DEF ColourInv, PropertiesOf
      <3> HIDE DEF colour
      <3>1. CASE q = p
        BY <2>7, <2>11, <3>1
      <3>2. CASE q # p
        BY <1>1, <2>7, <3>2 DEF ColourInv
      <3> QED BY <3>1, <3>2
    <2> HIDE DEF colour
    <2>13. DrawnInv'
      <3> SUFFICES ASSUME NEW x \in Element
                   PROVE  /\ Position(x) <= reached' => filled'[x] # Unset
                          /\ filled'[x] # Unset /\ OwnStyle(x) # Unset =>
                               colourOf'[OwnStyle(x)] # "currentColor"
        BY <1>2, <2>9 DEF DrawnInv
      <3>1. CASE x = e
        <4>1. OwnStyle(x) # Unset => OwnStyle(x) = p
          BY <1>7, <3>1 DEF p, a
        <4> QED BY <2>7, <2>8, <2>10, <3>1, <4>1
      <3>2. CASE x # e
        <4>1. Position(x) \in Nat \ {0}
          BY <1>1, Positions, SheetIs
        <4>2. Position(x) <= reached' => Position(x) <= reached
          BY <1>1, <1>4, <3>2, <4>1
        <4>3. OwnStyle(x) # Unset => OwnStyle(x) \in PropertiesOf(sheet)
          BY <1>1, OwnerIs
        <4>4. filled[x] # Unset /\ OwnStyle(x) # Unset => colourOf'[OwnStyle(x)] # "currentColor"
          <5>1. CASE OwnStyle(x) = p
            BY <2>7, <2>10, <5>1
          <5>2. CASE OwnStyle(x) # p
            BY <1>1, <2>7, <4>3, <5>2 DEF DrawnInv
          <5> QED BY <5>1, <5>2
        <4> QED BY <1>1, <2>8, <3>2, <4>2, <4>4 DEF DrawnInv
      <3> QED BY <3>1, <3>2
    <2>14. FilledByCascade'
      <3> SUFFICES ASSUME ~SharedCurrentColor, NEW x \in Element, filled'[x] # Unset, ~Parts(x)
                   PROVE  filled'[x] = Cascade(x)
        BY <1>2 DEF FilledByCascade
      <3>1. CASE x = e
        <4>1. a = Nearest(e, {y \in Element : Own(y) # Unset}) /\ Given(p) = Own(a)
          BY <1>1, <1>9, <3>1, SameAncestor DEF a, p
        <4>2. Cascade(e) = IF Own(a) = "currentColor" THEN Color(a) ELSE Own(a)
          BY <1>9, <4>1 DEF Cascade
        <4>3. CASE Own(a) = "currentColor"
          <5>1. PICK y \in Element : Owns(y, p) /\ colour = Color(y)
            BY <2>10, <2>11, <4>1, <4>3
          <5>2. Color(y) = Color(a)
            BY <2>3, <4>1, <4>3, <5>1, OwnersAlike
          <5> QED BY <2>8, <3>1, <4>2, <4>3, <5>1, <5>2
        <4>4. CASE Own(a) # "currentColor"
          BY <2>8, <2>11, <3>1, <4>1, <4>2, <4>4
        <4> QED BY <4>3, <4>4
      <3>2. CASE x # e
        BY <1>1, <2>8, <3>2 DEF FilledByCascade
      <3> QED BY <3>1, <3>2
    <2> QED BY <2>6, <2>7, <2>8, <2>9, <2>12, <2>13, <2>14
  <1> QED BY <1>8, <1>9

\* A drawing goes on.
LEMMA RenderKeeps ==
    ASSUME StylesInv, RenderNext
    PROVE  StylesInv'
  <1> SUFFICES ASSUME NEW e, e = sheet.order[reached + 1] PROVE StylesInv'
    OBVIOUS
  <1> DEFINE n == Len(sheet.order)
  <1>1. /\ StylesTypeOK /\ KnownInv /\ ColourInv /\ DrawnInv /\ FilledByCascade
        /\ \A x \in Element : ElementInv(x)
        /\ sheet \in Sheets /\ n \in Nat \ {0} /\ reached \in 0..(n - 1)
    BY SheetIs DEF StylesInv, StylesTypeOK
  <1>2. /\ complete /\ reached' = (reached + 1) % n
        /\ UNCHANGED <<sheet, made, looked, complete, Styles, stylesSpecificity>>
        /\ IF e = StyleTag THEN UNCHANGED <<styles, colourOf, filled>> ELSE SetFillStyle(e)
    BY DEF RenderNext
  <1>3. reached' \in 0..(n - 1) /\ (reached' = reached + 1 \/ reached' = 0)
    <2> HIDE DEF n
    <2>1. CASE reached + 1 < n
      <3>1. (reached + 1) % n = reached + 1
        BY <1>1, <2>1
      <3> QED BY <1>1, <1>2, <2>1, <3>1
    <2>2. CASE reached + 1 = n
      <3>1. n % n = 0
        BY <1>1
      <3> QED BY <1>1, <1>2, <2>2, <3>1
    <2> QED BY <1>1, <2>1, <2>2
  <1>4. e \in Element \cup {StyleTag} /\ Position(e) = reached + 1
    <2>1. reached + 1 \in 1..n /\ reached + 1 \in DOMAIN sheet.order
      BY <1>1, SheetIs
    <2>2. e \in Element \cup {StyleTag}
      BY <1>1, <2>1, SheetIs
    <2> QED BY <1>1, <2>1, <2>2, Positions
  <1> HIDE DEF n
  <1>5. /\ styles' \in [Element -> Property \cup {Unset}]
        /\ DOMAIN colourOf' = PropertiesOf(sheet) /\ DOMAIN filled' = Element
        /\ \A x : OwnStyle(x)' = OwnStyle(x)
        /\ ColourInv' /\ DrawnInv' /\ FilledByCascade'
    <2>1. CASE e = StyleTag
      <3>1. UNCHANGED <<sheet, styles, colourOf, filled>>
        BY <1>2, <2>1
      <3>2. \A x : OwnStyle(x)' = OwnStyle(x)
        BY <3>1 DEF OwnStyle, AttributeOf
      <3>3. ColourInv' /\ FilledByCascade'
        BY <1>1, <3>1, SheetKept DEF ColourInv, FilledByCascade
      <3>4. DrawnInv'
        <4> SUFFICES ASSUME NEW x \in Element, Position(x) <= reached'
                     PROVE  Position(x) <= reached
          BY <1>1, <1>2, <3>1, <3>2, SheetKept DEF DrawnInv
        <4>1. Position(x) \in Nat \ {0} /\ sheet.order[Position(x)] = x
          BY <1>1, Positions, SheetIs
        <4>2. Position(x) # reached + 1
          <5> SUFFICES ASSUME Position(x) = reached + 1 PROVE FALSE
            OBVIOUS
          <5>1. x = StyleTag
            BY <2>1, <4>1
          <5> QED BY <5>1, SheetAssumption
        <4> QED BY <1>1, <1>3, <4>1, <4>2
      <3> QED BY <1>1, <3>1, <3>2, <3>3, <3>4 DEF StylesTypeOK
    <2>2. CASE e # StyleTag
      BY <1>2, <1>3, <1>4, <2>2, SetFillStyleKeeps
    <2> QED BY <2>1, <2>2
  <1>6. StylesTypeOK'
    BY <1>1, <1>2, <1>3, <1>5 DEF StylesTypeOK, n
  <1>7. KnownInv'
    <2>1. Known' = Known
      BY <1>2, SheetKept DEF Known, Current
    <2> QED BY <1>1, <1>2, <2>1, KnownKept
  <1>8. ASSUME NEW x \in Element PROVE ElementInv(x)'
    <2>1. Took(x)' = Took(x) /\ Plain(x)' = Plain(x)
      BY <1>2, SheetKept DEF Took, AllKnown, Plain, InlineOf, AttributeOf
    <2> QED BY <1>1, <1>2, <1>5, <2>1, ElementKept
  <1> QED BY <1>5, <1>6, <1>7, <1>8 DEF StylesInv

\* Every step keeps the invariant.
LEMMA StylesInvNext == StylesInv /\ [StylesNext]_stylesVars => StylesInv'
  <1> SUFFICES ASSUME StylesInv, [StylesNext]_stylesVars PROVE StylesInv'
    OBVIOUS
  <1>1. CASE UNCHANGED stylesVars
    <2>1. StylesTypeOK'
      BY <1>1 DEF StylesInv, StylesTypeOK, stylesVars
    <2>2. KnownInv'
      <3>1. Known' = Known
        BY <1>1, SheetKept DEF Known, Current, stylesVars
      <3> QED BY <1>1, <3>1, KnownKept DEF StylesInv, stylesVars
    <2>3. ASSUME NEW x \in Element PROVE ElementInv(x)'
      <3>1. /\ Took(x)' = Took(x) /\ Plain(x)' = Plain(x) /\ OwnStyle(x)' = OwnStyle(x)
            /\ stylesSpecificity'[x] = stylesSpecificity[x] /\ sheet' = sheet
        BY <1>1, SheetKept DEF Took, AllKnown, LookedAt, Current, Plain, OwnStyle, InlineOf,
                               AttributeOf, stylesVars
      <3> QED BY <3>1, ElementKept DEF StylesInv
    <2>4. ColourInv' /\ DrawnInv' /\ FilledByCascade'
      <3>1. \A x : OwnStyle(x)' = OwnStyle(x)
        BY <1>1 DEF OwnStyle, AttributeOf, stylesVars
      <3> QED BY <1>1, <3>1, SheetKept
              DEF StylesInv, ColourInv, DrawnInv, FilledByCascade, stylesVars
    <2> QED BY <2>1, <2>2, <2>3, <2>4 DEF StylesInv
  <1> QED BY <1>1, AddStylesKeeps, CreateElementKeeps, AddRuleKeeps, CreateStyleKeeps,
             CompleteKeeps, RenderKeeps DEF StylesNext

\* Every drawing fills each element as the cascade does, or as one of the named
\* exceptions: StylesInv is inductive and contains it.
THEOREM FillsFollowTheCascade == StylesSpec => []FilledByCascade
  <1>1. StylesInv => FilledByCascade
    BY DEF StylesInv
  <1> QED BY <1>1, StylesInvInit, StylesInvNext, PTL DEF StylesSpec

-----------------------------------------------------------------------------
(* The blur.                                                               *)

\* The image with its colours multiplied, after the rows and after the columns.
Read == EachPixel(Premultiplied, original)
AfterRows == BlurRows(Read, radius, TRUE)
AfterColumns == BlurColumns(AfterRows, radius, TRUE)

\* The inductive invariant: in every phase the data are what the passes so far make
\* of the image.
BlurInv ==
    /\ original \in Seq(Seq([c : 0..255, a : 0..255])) /\ radius \in Nat
    /\ phase = "start" => canvas = original
    /\ alphaToo /\ phase = "rows" => data = Read
    /\ alphaToo /\ phase = "columns" => data = AfterRows
    /\ alphaToo /\ phase = "put" => data = AfterColumns
    /\ alphaToo /\ phase = "done" /\ radius >= 1 =>
         canvas = EachPixel(Unpremultiplied, AfterColumns)

\* The invariant holds when the call begins.
LEMMA BlurInvInit == BlurInit => BlurInv
  BY BlurAssumption DEF BlurInit, BlurInv

\* Every phase keeps it.
LEMMA BlurInvNext == BlurInv /\ [BlurNext]_blurVars => BlurInv'
  <1> SUFFICES ASSUME BlurInv, [BlurNext]_blurVars PROVE BlurInv'
    OBVIOUS
  <1> USE DEF BlurInv
  <1>1. /\ UNCHANGED <<original, radius, alphaToo>>
        /\ Read' = Read /\ AfterRows' = AfterRows /\ AfterColumns' = AfterColumns
    <2>1. UNCHANGED <<original, radius, alphaToo>>
      BY DEF BlurNext, Nothing, GetImageData, CannotAccess, Rows, Columns, PutImageData,
             args, blurVars
    <2>2. Read' = Read
      BY <2>1 DEF Read
    <2>3. AfterRows' = AfterRows
      BY <2>1, <2>2 DEF AfterRows
    <2> QED BY <2>1, <2>2, <2>3 DEF AfterColumns
  <1>2. CASE Nothing
    BY <1>1, <1>2 DEF Nothing
  <1>3. CASE GetImageData
    BY <1>1, <1>3 DEF GetImageData, Read
  <1>4. CASE CannotAccess
    BY <1>1, <1>4 DEF CannotAccess
  <1>5. CASE Rows
    <2>1. alphaToo => data' = AfterRows
      <3> SUFFICES ASSUME alphaToo = TRUE PROVE data' = AfterRows
        OBVIOUS
      <3> QED BY <1>5 DEF Rows, AfterRows
    <2> QED BY <1>1, <1>5, <2>1 DEF Rows
  <1>6. CASE Columns
    <2>1. alphaToo => data' = AfterColumns
      BY <1>6 DEF Columns, AfterColumns
    <2> QED BY <1>1, <1>6, <2>1 DEF Columns
  <1>7. CASE PutImageData
    BY <1>1, <1>7 DEF PutImageData
  <1>8. CASE UNCHANGED blurVars
    BY <1>1, <1>8 DEF blurVars, args
  <1> QED BY <1>2, <1>3, <1>4, <1>5, <1>6, <1>7, <1>8 DEF BlurNext

\* Multiplied by its alpha, a transparent pixel is black already.
LEMMA BlackenedReadsSame == BlurInv => EachPixel(Premultiplied, Blackened(original)) = Read
  <1> SUFFICES ASSUME BlurInv PROVE EachPixel(Premultiplied, Blackened(original)) = Read
    OBVIOUS
  <1> DEFINE Pixel == [c : 0..255, a : 0..255]
             Black(p) == IF p.a = 0 THEN [c |-> 0, a |-> 0] ELSE p
  <1>1. original \in Seq(Seq(Pixel))
    BY DEF BlurInv
  <1>2. ASSUME NEW p \in Pixel PROVE Premultiplied(Black(p)) = Premultiplied(p)
    <2>1. CASE p.a = 0
      <3>1. Premultiplied(Black(p)) = [c |-> 0, a |-> 0]
        BY <2>1 DEF Premultiplied
      <3>2. p = [c |-> p.c, a |-> 0]
        BY <2>1
      <3>3. (2 * p.c * p.a + 255) \div 510 = 0
        BY <2>1
      <3> QED BY <3>1, <3>2, <3>3 DEF Premultiplied
    <2>2. CASE p.a # 0
      BY <2>2
    <2> QED BY <2>1, <2>2
  <1>3. EachPixel(Premultiplied, Blackened(original)) =
          [y \in DOMAIN original |->
             [x \in DOMAIN original[y] |-> Premultiplied(Black(original[y][x]))]]
    <2> DEFINE B == Blackened(original)
    <2>1. B = [y \in DOMAIN original |->
                 [x \in DOMAIN original[y] |-> Black(original[y][x])]]
      BY DEF Blackened, EachPixel
    <2>2. EachPixel(Premultiplied, B) =
            [y \in DOMAIN B |-> [x \in DOMAIN B[y] |-> Premultiplied(B[y][x])]]
      BY DEF EachPixel
    <2> HIDE DEF B, Black
    <2>3. DOMAIN B = DOMAIN original
      BY <2>1
    <2>4. ASSUME NEW y \in DOMAIN original
          PROVE  [x \in DOMAIN B[y] |-> Premultiplied(B[y][x])] =
                 [x \in DOMAIN original[y] |-> Premultiplied(Black(original[y][x]))]
      <3>1. B[y] = [x \in DOMAIN original[y] |-> Black(original[y][x])]
        BY <2>1
      <3>2. /\ DOMAIN B[y] = DOMAIN original[y]
            /\ \A x \in DOMAIN original[y] : B[y][x] = Black(original[y][x])
        BY <3>1
      <3> QED BY <3>2
    <2> QED BY <2>2, <2>3, <2>4 DEF B
  <1>4. Read = [y \in DOMAIN original |->
                  [x \in DOMAIN original[y] |-> Premultiplied(original[y][x])]]
    BY DEF EachPixel, Read
  <1>5. \A y \in DOMAIN original : \A x \in DOMAIN original[y] : original[y][x] \in Pixel
    <2> HIDE DEF Pixel
    <2> SUFFICES ASSUME NEW y \in DOMAIN original, NEW x \in DOMAIN original[y]
                 PROVE  original[y][x] \in Pixel
      OBVIOUS
    <2>1. original[y] \in Seq(Pixel)
      BY <1>1
    <2> DEFINE row == original[y]
    <2>2. row \in Seq(Pixel) /\ x \in DOMAIN row
      BY <2>1
    <2> HIDE DEF row
    <2>3. row[x] \in Pixel
      BY <2>2
    <2> QED BY <2>3 DEF row
  <1> HIDE DEF Pixel, Black
  <1> QED BY <1>2, <1>3, <1>4, <1>5

\* The colours under transparent pixels do not show in the blurred image, for any
\* image and radius: HiddenColoursDoNotShow of the run.
THEOREM HiddenColoursHidden == BlurSpec => []HiddenColoursDoNotShow
  <1>1. BlurInv => HiddenColoursDoNotShow
    BY BlackenedReadsSame DEF BlurInv, HiddenColoursDoNotShow, AfterColumns, AfterRows
  <1> QED BY <1>1, BlurInvInit, BlurInvNext, PTL DEF BlurSpec
=============================================================================
