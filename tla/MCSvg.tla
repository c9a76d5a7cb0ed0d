--------------------------------- MODULE MCSvg ---------------------------------
(***************************************************************************)
(* What canvg draws: the paths of a document, its colours, its styles, its *)
(* masks, filters and uses, and the blur.  These parts work one after the  *)
(* other and share none of their state, so one of them moves in each       *)
(* behaviour, on all its documents, while the others stand at the start of *)
(* one of theirs.                                                          *)
(***************************************************************************)
EXTENDS SvgPaint, SvgPath, SvgStyles, StackBlur

VARIABLES
    part,
    doc, attached, mask, filter, value, parent, size, beginPath,          \* SvgRender
    images, picture, thrown

-----------------------------------------------------------------------------
\* SvgPaint: a name, rgb() in and out of range, words that are colours and
\* words that are not, none, inherit and a text that no one can read.
Plain == [form |-> "none"]
PaintTexts == {
    [form |-> "name", name |-> "tomato"],
    [form |-> "rgb", n |-> <<300, 20, 0>>],
    [form |-> "rgb", n |-> <<1000, 0, 0>>],
    [form |-> "word", hash |-> FALSE, d |-> <<16, 4, 12, 16, 1, 1>>],
    [form |-> "word", hash |-> TRUE, d |-> <<8, 15, 0>>],
    Plain, [form |-> "inherit"], [form |-> "other"] }

\* SvgPath: one end point and two control points: the coordinates differ, so
\* that no two of the places a segment could reach coincide by chance.
EndPoints == {<<1, 3>>}
ControlPoints == {<<0, 2>>, <<7, 1>>}

-----------------------------------------------------------------------------
\* SvgStyles: a root with a group and a shape in it, a style element in one of
\* three places, and two rules.
Fills == {"red", "blue", "currentColor"}

Rule(selector, matches, specificity, colour) ==
    [selector |-> selector, matches |-> matches, specificity |-> specificity, fill |-> colour]

RulePairs ==
    {<<Rule(s[1], s[2], s[3], f), Rule(t[1], t[2], t[3], h)>> :
        s, t \in {<<"*", {"root", "g", "shape"}, 0>>, <<"g", {"g"}, 1>>,
                  <<".all", {"root", "g", "shape"}, 10>>, <<".in", {"g", "shape"}, 10>>,
                  <<"#shape", {"shape"}, 100>>, <<"svg", {"root"}, 1>>},
        f \in Fills, h \in {"green", "currentColor"}}

On(root, g, shape) ==
    [e \in {"root", "g", "shape"} |-> IF e = "root" THEN root ELSE IF e = "g" THEN g ELSE shape]

Sheet(order, rules, a, b, c) ==
    [order |-> order, rules |-> rules,
     up |-> On(<<"root">>, <<"g", "root">>, <<"shape", "g", "root">>),
     attribute |-> On(Unset, a[1], a[2]), inline |-> On(b[1], b[2], Unset),
     color |-> On("cyan", c, Unset)]

PlainSheet == Sheet(<<"root", "style", "g", "shape">>, <<>>, <<Unset, Unset>>,
                    <<Unset, Unset>>, Unset)

AllSheets ==
    {Sheet(order, rules, a, b, c) :
        order \in {<<"root", "style", "g", "shape">>, <<"root", "g", "style", "shape">>,
                   <<"root", "g", "shape", "style">>},
        rules \in RulePairs,
        a \in {<<"pink", Unset>>, <<"currentColor", Unset>>, <<Unset, "gold">>},
        b \in {<<Unset, Unset>>, <<"navy", Unset>>, <<Unset, "currentColor">>},
        c \in {Unset, "lime"}}
        \cup {PlainSheet}

-----------------------------------------------------------------------------
\* SvgRender: a group with a shape or an image, a nested svg element, a use of
\* one of them or of what it stands in, a mask, a clip path and a symbol, put
\* together in all the ways that the choices below allow.
Elements == {"root", "a", "b", "v", "c", "u", "m", "n", "k", "p", "y", "z"}

Document(b, use, inClip, where, masked, fa, fb, fu, clip, width, uwidth) ==
    LET set(pairs) == [e \in Elements |->
                          IF \E q \in pairs : q[1] = e
                          THEN (CHOOSE q \in pairs : q[1] = e)[2] ELSE None]
        inRoot == IF where = "root" THEN <<"a", "v", "u">> ELSE <<"a", "u", "v">>
    IN  [type |-> set({<<"root", "svg">>, <<"a", "g">>, <<"b", b>>, <<"v", "svg">>,
                       <<"c", "shape">>, <<"u", "use">>, <<"m", "mask">>, <<"n", "shape">>,
                       <<"k", "clipPath">>, <<"p", IF inClip = None THEN "shape" ELSE "use">>,
                       <<"y", "symbol">>, <<"z", "shape">>}),
         children |-> [e \in Elements |->
             CASE e = "root" -> IF where = "root" THEN <<"k", "y", "m">> \o inRoot
                                ELSE <<"k">> \o inRoot
               [] e = "a" -> IF where = "root" THEN <<"b">> ELSE <<"y", "m", "b">>
               [] e = "v" -> <<"c">> [] e = "m" -> <<"n">>
               [] e = "k" -> <<"p">> [] e = "y" -> <<"z">> [] OTHER -> <<>>],
         mask |-> set({<<e, "m">> : e \in masked}),
         filter |-> set({<<"a", fa>>, <<"b", fb>>, <<"u", fu>>}),
         clip |-> set({<<clip, "k">>}),
         ref |-> set({<<"u", use>>, <<"p", inClip>>}),
         size |-> set({<<"root", width>>, <<"v", "10">>, <<"u", uwidth>>})]

DrawnDocuments ==
    {Document(b, use, inClip, where, masked, fa, fb, fu, clip, w[1], w[2]) :
        b \in {"shape", "image"}, use \in {"a", "b", "v", "y", "root"},
        inClip \in {None, "n", "a"}, where \in {"root", "a"},
        masked \in {{}, {"a"}, {"b", "u"}},
        fa \in {None, "a"}, fb \in {None, "b", "a"}, fu \in {None, "u"},
        clip \in {None, "b"}, w \in {<<None, None>>, <<"20", "5">>}}

OneDocument ==
    {Document("shape", "v", None, "root", {}, None, None, None, None, None, None)}

Render == INSTANCE SvgRender WITH
    Element <- Elements, Root <- "root", Documents <- DrawnDocuments, MaxDepth <- 9
StillRender == INSTANCE SvgRender WITH
    Element <- Elements, Root <- "root", Documents <- OneDocument, MaxDepth <- 9

-----------------------------------------------------------------------------
\* StackBlur: all small images of three pixels over two colours, an image of
\* one row, and one of one colour for every radius at an end of the tables.
Pixel == [c : {0, 200}, a : {0, 128, 255}]
SmallImages == {<<<<p, q>>, <<q, r>>, <<p, p>>>> : p, q, r \in Pixel}
               \cup {<<<<p, q, r>>>> : p, q, r \in Pixel}
PlainImages == {<<<<p>>, <<p>>>> : p \in [c : {90, 126, 129, 255}, a : {255}]}
BlurCases == (SmallImages \X {0, 1, 2, 5}) \cup (PlainImages \X {180, 181, 254, 255})
Clear == [c |-> 0, a |-> 0]

-----------------------------------------------------------------------------
\* The part that moves begins with any of its documents, the others with one.
OneFill ==
    /\ fill = [e \in {"g", "shape", "sibling"} |-> NoText]
    /\ opacity = [e \in {"g", "shape", "sibling"} |-> NoOpacity]
    /\ from = Plain /\ to = Plain /\ attributeType = "XML"
    /\ PaintInit
OneBlur == original = <<<<Clear, Clear, Clear>>>> /\ radius = 1 /\ byFilter = TRUE /\ BlurInit

SvgInit ==
    /\ part \in {"paint", "path", "styles", "render", "blur"}
    /\ IF part = "styles" THEN StylesInit ELSE sheet = PlainSheet /\ StylesInit
    /\ PathInit
    /\ IF part = "paint" THEN PaintInit ELSE OneFill
    /\ IF part = "render" THEN Render!Init ELSE StillRender!Init /\ attached
    /\ IF part = "blur" THEN BlurInit ELSE OneBlur

renderVars == <<doc, attached, mask, filter, value, parent, size, beginPath, images,
                picture, thrown>>

PaintStep ==
    /\ part = "paint" /\ PaintNext
    /\ UNCHANGED <<part, pathVars, stylesVars, renderVars, blurVars>>
PathStep ==
    /\ part = "path" /\ PathNext
    /\ UNCHANGED <<part, paintVars, stylesVars, renderVars, blurVars>>
StylesStep ==
    /\ part = "styles" /\ StylesNext
    /\ UNCHANGED <<part, paintVars, pathVars, renderVars, blurVars>>
RenderStep ==
    /\ part = "render" /\ Render!Next
    /\ UNCHANGED <<part, paintVars, pathVars, stylesVars, blurVars>>
BlurStep ==
    /\ part = "blur" /\ BlurNext
    /\ UNCHANGED <<part, paintVars, pathVars, stylesVars, renderVars>>

SvgNext == PaintStep \/ PathStep \/ StylesStep \/ RenderStep \/ BlurStep

SvgSpec ==
    SvgInit /\ [][SvgNext]_<<part, paintVars, pathVars, stylesVars, renderVars, blurVars>>

-----------------------------------------------------------------------------
\* SvgRender: every drawing shows the document, whatever earlier drawings took
\* off its elements and put back, but where filters are shared or a use resizes.
ShowsTheDocument == Render!ShowsTheDocument
=============================================================================
