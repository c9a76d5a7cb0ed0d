------------------------------- MODULE SvgPaint -------------------------------
(***************************************************************************)
(* Colours in the renderer of SVG: what RGBColor (rgbcolor.js) reads in a  *)
(* text, and what canvg.js makes of it.  A shape in a group is filled with *)
(* its own fill and fill-opacity or with those of the group; setContext    *)
(* sets the fill of the canvas for the group and then for the shape.       *)
(* animateColor writes a colour between two others into the fill of one of *)
(* them at every frame, and its last frame lies beyond the end.            *)
(*                                                                         *)
(* A text is one of: a name; a word of three or six letters and digits,    *)
(* each 0..15 or NoDigit, with a # or not; rgb(r, g, b) with any numbers;  *)
(* none, inherit; another text.  Strokes are treated as fills are.         *)
(***************************************************************************)
EXTENDS Integers, Sequences

CONSTANTS
    Texts,     \* the texts for from, to and the attributes
    Opacities, \* the fill-opacities, in percent
    NoText, NoOpacity,
    Frames,    \* frames from the begin of the animation to its end
    Beyond     \* bound: frames the last one may lie beyond the end

NoDigit == 16
NoNumber == -1

simple_colors == [
    aliceblue |-> \hf0f8ff, antiquewhite |-> \hfaebd7, aqua |-> \h00ffff,
    aquamarine |-> \h7fffd4, azure |-> \hf0ffff, beige |-> \hf5f5dc,
    bisque |-> \hffe4c4, black |-> \h000000, blanchedalmond |-> \hffebcd,
    blue |-> \h0000ff, blueviolet |-> \h8a2be2, brown |-> \ha52a2a,
    burlywood |-> \hdeb887, cadetblue |-> \h5f9ea0, chartreuse |-> \h7fff00,
    chocolate |-> \hd2691e, coral |-> \hff7f50, cornflowerblue |-> \h6495ed,
    cornsilk |-> \hfff8dc, crimson |-> \hdc143c, cyan |-> \h00ffff,
    darkblue |-> \h00008b, darkcyan |-> \h008b8b, darkgoldenrod |-> \hb8860b,
    darkgray |-> \ha9a9a9, darkgreen |-> \h006400, darkkhaki |-> \hbdb76b,
    darkmagenta |-> \h8b008b, darkolivegreen |-> \h556b2f, darkorange |-> \hff8c00,
    darkorchid |-> \h9932cc, darkred |-> \h8b0000, darksalmon |-> \he9967a,
    darkseagreen |-> \h8fbc8f, darkslateblue |-> \h483d8b,
    darkslategray |-> \h2f4f4f, darkturquoise |-> \h00ced1, darkviolet |-> \h9400d3,
    deeppink |-> \hff1493, deepskyblue |-> \h00bfff, dimgray |-> \h696969,
    dodgerblue |-> \h1e90ff, feldspar |-> \hd19275, firebrick |-> \hb22222,
    floralwhite |-> \hfffaf0, forestgreen |-> \h228b22, fuchsia |-> \hff00ff,
    gainsboro |-> \hdcdcdc, ghostwhite |-> \hf8f8ff, gold |-> \hffd700,
    goldenrod |-> \hdaa520, gray |-> \h808080, green |-> \h008000,
    greenyellow |-> \hadff2f, honeydew |-> \hf0fff0, hotpink |-> \hff69b4,
    indianred |-> \hcd5c5c, indigo |-> \h4b0082, ivory |-> \hfffff0,
    khaki |-> \hf0e68c, lavender |-> \he6e6fa, lavenderblush |-> \hfff0f5,
    lawngreen |-> \h7cfc00, lemonchiffon |-> \hfffacd, lightblue |-> \hadd8e6,
    lightcoral |-> \hf08080, lightcyan |-> \he0ffff,
    lightgoldenrodyellow |-> \hfafad2, lightgrey |-> \hd3d3d3,
    lightgreen |-> \h90ee90, lightpink |-> \hffb6c1, lightsalmon |-> \hffa07a,
    lightseagreen |-> \h20b2aa, lightskyblue |-> \h87cefa,
    lightslateblue |-> \h8470ff, lightslategray |-> \h778899,
    lightsteelblue |-> \hb0c4de, lightyellow |-> \hffffe0, lime |-> \h00ff00,
    limegreen |-> \h32cd32, linen |-> \hfaf0e6, magenta |-> \hff00ff,
    maroon |-> \h800000, mediumaquamarine |-> \h66cdaa, mediumblue |-> \h0000cd,
    mediumorchid |-> \hba55d3, mediumpurple |-> \h9370d8,
    mediumseagreen |-> \h3cb371, mediumslateblue |-> \h7b68ee,
    mediumspringgreen |-> \h00fa9a, mediumturquoise |-> \h48d1cc,
    mediumvioletred |-> \hc71585, midnightblue |-> \h191970, mintcream |-> \hf5fffa,
    mistyrose |-> \hffe4e1, moccasin |-> \hffe4b5, navajowhite |-> \hffdead,
    navy |-> \h000080, oldlace |-> \hfdf5e6, olive |-> \h808000,
    olivedrab |-> \h6b8e23, orange |-> \hffa500, orangered |-> \hff4500,
    orchid |-> \hda70d6, palegoldenrod |-> \heee8aa, palegreen |-> \h98fb98,
    paleturquoise |-> \hafeeee, palevioletred |-> \hd87093, papayawhip |-> \hffefd5,
    peachpuff |-> \hffdab9, peru |-> \hcd853f, pink |-> \hffc0cb, plum |-> \hdda0dd,
    powderblue |-> \hb0e0e6, purple |-> \h800080, red |-> \hff0000,
    rosybrown |-> \hbc8f8f, royalblue |-> \h4169e1, saddlebrown |-> \h8b4513,
    salmon |-> \hfa8072, sandybrown |-> \hf4a460, seagreen |-> \h2e8b57,
    seashell |-> \hfff5ee, sienna |-> \ha0522d, silver |-> \hc0c0c0,
    skyblue |-> \h87ceeb, slateblue |-> \h6a5acd, slategray |-> \h708090,
    snow |-> \hfffafa, springgreen |-> \h00ff7f, steelblue |-> \h4682b4,
    tan |-> \hd2b48c, teal |-> \h008080, thistle |-> \hd8bfd8, tomato |-> \hff6347,
    turquoise |-> \h40e0d0, violet |-> \hee82ee, violetred |-> \hd02090,
    wheat |-> \hf5deb3, white |-> \hffffff, whitesmoke |-> \hf5f5f5,
    yellow |-> \hffff00, yellowgreen |-> \h9acd32 ]

Text ==
    [form : {"name"}, name : DOMAIN simple_colors]
    \cup [form : {"rgb"}, n : [1..3 -> Int]]
    \cup [form : {"word"}, hash : BOOLEAN,
          d : [1..3 -> 0..NoDigit] \cup [1..6 -> 0..NoDigit]]
    \cup [form : {"none", "inherit", "other"}]

ASSUME PaintAssumption ==
    /\ Texts \subseteq Text /\ NoText \notin Text
    /\ Frames \in Nat \ {0} /\ Beyond \in Nat

-----------------------------------------------------------------------------
\* parseInt of two digits to the base 16 stops at what is no digit.
ParseInt16(d, e) ==
    IF d = NoDigit THEN NoNumber ELSE IF e = NoDigit THEN d ELSE 16 * d + e

Named(name) ==
    LET n == simple_colors[name]
    IN  <<n \div 65536, (n \div 256) % 256, n % 256>>

\* The bits of the definition that matches, or none; a name is replaced first.
Channels(text) ==
    CASE text.form = "name" -> Named(text.name)
      [] text.form = "rgb" /\ \A i \in 1..3 : text.n[i] \in 0..999 -> text.n
      [] text.form = "word" /\ Len(text.d) = 6 ->
            [i \in 1..3 |-> ParseInt16(text.d[2 * i - 1], text.d[2 * i])]
      [] text.form = "word" /\ Len(text.d) = 3 ->
            [i \in 1..3 |-> ParseInt16(text.d[i], text.d[i])]
      [] OTHER -> <<>>

\* "validate/cleanup values"
Cleaned(v) == IF v < 0 THEN 0 ELSE IF v > 255 THEN 255 ELSE v

RGBColor(text) ==
    LET channels == Channels(text)
    IN  IF channels = <<>> THEN [ok |-> FALSE, c |-> <<0, 0, 0>>]
        ELSE [ok |-> TRUE, c |-> [i \in 1..3 |-> Cleaned(channels[i])]]

-----------------------------------------------------------------------------
VARIABLES
    fill,      \* the fill of the group, of the shape and of its sibling
    opacity,   \* their fill-opacity
    from, to, attributeType,  \* of the animation of the shape's fill
    frame,     \* frames since its begin
    given,     \* history: fill before the animation
    painted    \* what the shape and its sibling are filled with

paintArgs == <<opacity, from, to, attributeType, given>>
paintVars == <<fill, frame, painted, paintArgs>>

\* style(): the element's own, or that of its parent.
Style(values, e, none) == IF values[e] # none THEN values[e] ELSE values.g

\* What a canvas does with a text for a colour: one that it cannot read is
\* ignored; numbers are clamped, of any size.
CanvasReads(text) ==
    \/ text.form \in {"name", "rgb"}
    \/ text.form = "word" /\ text.hash /\ \A i \in DOMAIN text.d : text.d[i] # NoDigit
CanvasClamps(v) == IF v < 0 THEN 0 ELSE IF v > 255 THEN 255 ELSE v
CanvasColor(text) ==
    LET c == IF text.form = "rgb" THEN text.n ELSE Channels(text)
    IN  [c |-> [i \in 1..3 |-> CanvasClamps(c[i])], opacity |-> 100]

\* A faulty variant: the opacity is added again to a colour that has one.
AddOpacityAgain(color, percent) ==
    IF percent = NoOpacity THEN color
    ELSE [color EXCEPT !.opacity = (color.opacity * percent) \div 100]

\* addOpacity reads the colour back from the canvas, which writes it rgba(...)
\* as soon as it is not opaque, and RGBColor does not read that.
AddOpacity(color, percent) ==
    IF percent = NoOpacity \/ color.opacity # 100 THEN color
    ELSE [color EXCEPT !.opacity = percent]

\* setContext, for the fill of one element.
SetFill(color, text, percent) ==
    AddOpacity(IF text = NoText \/ text.form = "inherit" THEN color
               ELSE IF text.form = "none" THEN [c |-> <<0, 0, 0>>, opacity |-> 0]
               ELSE IF CanvasReads(text) THEN CanvasColor(text)
               ELSE color,
               percent)

\* The shape is rendered inside its group; the canvas starts with opaque black.
Painted(fills, opacities, e) ==
    LET group == SetFill([c |-> <<0, 0, 0>>, opacity |-> 100], fills.g, opacities.g)
    IN  SetFill(group, Style(fills, e, NoText), Style(opacities, e, NoOpacity))

Draw(fills) ==
    painted' = [e \in {"shape", "sibling"} |-> Painted(fills, opacity, e)]

\* The quotient, towards zero as parseInt takes it.
Truncated(n, d) == IF n < 0 THEN -((-n) \div d) ELSE n \div d

\* animateColor.calcValue after k of Frames frames.
CalcValue(k) ==
    LET f == RGBColor(from)
        t == RGBColor(to)
        Tween(i) == Truncated(f.c[i] * Frames + (t.c[i] - f.c[i]) * k, Frames)
    IN  IF f.ok /\ t.ok THEN [form |-> "rgb", n |-> [i \in 1..3 |-> Tween(i)]] ELSE from

\* A faulty variant: the property is always looked up as a style.
StyleTarget(fills) ==
    IF fills.shape = NoText /\ fills.g # NoText THEN "g" ELSE "shape"

\* getProperty: style() hands out the property of the group where the shape has
\* none of its own, and the group's is the one written to.
Target(fills) ==
    IF attributeType = "CSS" /\ fills.shape = NoText /\ fills.g # NoText
    THEN "g" ELSE "shape"

PaintInit ==
    /\ fill \in [{"g", "shape", "sibling"} -> Texts \cup {NoText}]
    /\ fill.sibling = NoText
    /\ opacity \in [{"g", "shape", "sibling"} -> Opacities \cup {NoOpacity}]
    /\ opacity.sibling = NoOpacity
    /\ from \in Texts /\ to \in Texts /\ attributeType \in {"XML", "CSS"}
    /\ given = fill /\ frame = 0
    /\ painted = [e \in {"shape", "sibling"} |-> Painted(fill, opacity, e)]

\* One frame: the animation writes the colour and the picture is drawn again.
Frame ==
    /\ frame < Frames + Beyond
    /\ frame' = frame + 1
    /\ fill' = [fill EXCEPT ![Target(fill)] = CalcValue(frame')]
    /\ Draw(fill')
    /\ UNCHANGED paintArgs

PaintNext == Frame
PaintSpec == PaintInit /\ [][PaintNext]_paintVars

-----------------------------------------------------------------------------
Between(v, a, b) == (a <= v /\ v <= b) \/ (b <= v /\ v <= a)

\* A fill that the canvas can read, or none at all and no opacity of its own.
\* (An element that has only an opacity does not get it if its group has one.)
Readable(e) ==
    LET text == Style(fill, e, NoText)
    IN  IF text = NoText THEN opacity[e] = NoOpacity ELSE CanvasReads(text)

\* An element with such a fill is painted with its own opacity or that of its
\* group, given once although setContext runs for both.  While the fill of the
\* shape is tweened its colour is between the two, at the end the second.
PaintedAsTweened ==
    LET f == RGBColor(from)
        t == RGBColor(to)
    IN  /\ \A e \in {"shape", "sibling"} :
             LET asked == Style(opacity, e, NoOpacity)
             IN  Readable(e) =>
                    painted[e].opacity = IF asked = NoOpacity THEN 100 ELSE asked
        /\ frame > 0 /\ f.ok /\ t.ok =>
             \A i \in 1..3 :
                 /\ frame <= Frames => Between(painted.shape.c[i], f.c[i], t.c[i])
                 /\ frame = Frames => painted.shape.c[i] = t.c[i]

\* The animation of the shape leaves the rest of the group as it was, unless it
\* animates a style that the shape has from the group.
SiblingKeepsItsPaint ==
    \/ painted.sibling = Painted(given, opacity, "sibling")
    \/ attributeType = "CSS" /\ given.shape = NoText /\ given.g # NoText
=============================================================================
