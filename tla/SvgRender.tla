------------------------------- MODULE SvgRender -------------------------------
(***************************************************************************)
(* One drawing of a document by canvg.js after another.  draw() walks the  *)
(* tree of elements, and on the way it changes what the next walk starts   *)
(* from: a mask takes itself off the element it draws, a filter likewise,  *)
(* use takes the element it shows away from its parent, a clip path turns  *)
(* beginPath of all canvases into nothing.  All this is put back behind    *)
(* the element, if nothing threw meanwhile: a broken image cannot be       *)
(* drawn, a clip path may use an element that is no path, use may show     *)
(* what it is itself a part of.                                            *)
(*                                                                         *)
(* A drawing is one step.  Its picture is a sequence of items: a shape or  *)
(* an image; <<"group", element, clip, items>>; <<"svg", element, clip,    *)
(* size, items>>; <<"masked", items, items of the mask>>;                  *)
(* <<"filtered", items>>.  Masks, filters and clip paths are those of one  *)
(* document; patterns, markers and text are left out, and so are all       *)
(* sizes but the width of svg elements, which stands for the height too.   *)
(* Masks have a size, and no symbol has a clip path.                       *)
(***************************************************************************)
EXTENDS Integers, Sequences, SequencesExt

CONSTANTS
    Element,    \* the elements of the documents
    Root,       \* the outermost one
    Documents,  \* [type, children, mask, filter, clip, ref, size]
    None,
    MaxDepth    \* bound: calls of render in one another before the stack is full

VARIABLES
    doc,        \* the document, as it was read
    attached,   \* the canvas is in the page
    mask,       \* the mask attribute of each element; None if empty
    filter,     \* its own filter property; a rule shares one among elements
    value,      \* of each such property: "on", or "" while it is taken off
    parent, size,
    beginPath,  \* of all canvases: "real", or "nothing"
    images,     \* the images that are loading, loaded or broken
    picture,    \* what the last drawing showed; None since an image settled
    thrown      \* history: a drawing threw

tree == <<mask, filter, value, parent, size, beginPath>>
vars == <<doc, attached, tree, images, picture, thrown>>

ParentOf(d) ==
    [e \in Element |->
        IF \E p \in Element : Contains(d.children[p], e)
        THEN CHOOSE p \in Element : Contains(d.children[p], e) ELSE None]

Init ==
    /\ doc \in Documents /\ attached \in BOOLEAN
    /\ mask = doc.mask /\ filter = doc.filter
    /\ value = [e \in Element |-> "on"]
    /\ parent = ParentOf(doc) /\ size = doc.size
    /\ beginPath = "real"
    /\ images = [e \in Element |-> IF doc.type[e] = "image" THEN "loading" ELSE None]
    /\ picture = None /\ thrown = FALSE

-----------------------------------------------------------------------------
\* Op(v), with v evaluated once.
With(v, Op(_)) == CHOOSE result \in {Op(x) : x \in {v}} : TRUE

\* s is all that a drawing works on: the tree, items and thrown.
Throw(s) == [s EXCEPT !.thrown = TRUE]
Drawing(s, item) == [s EXCEPT !.items = Append(@, item)]

\* style('filter'): the own property, though it be empty, or that of the nearest
\* ancestor that has one that is not.
RECURSIVE StyleFilter(_, _)
StyleFilter(s, e) ==
    IF s.filter[e] # None THEN s.filter[e]
    ELSE IF s.parent[e] = None THEN None
    ELSE LET above == StyleFilter(s, s.parent[e])
         IN  IF above # None /\ s.value[above] = "on" THEN above ELSE None

\* getBoundingBox: svg elements have none, and a use of nothing gives none.
RECURSIVE HasBox(_, _)
HasBox(e, depth) ==
    /\ depth > 0 /\ doc.type[e] \in {"shape", "image", "g", "use"}
    /\ doc.type[e] = "g" =>
         \A i \in DOMAIN doc.children[e] : HasBox(doc.children[e][i], depth - 1)
    /\ doc.type[e] = "use" => doc.ref[e] # None /\ HasBox(doc.ref[e], depth - 1)

\* path, as clip.apply calls it: <<>> for what has no path, None if it throws.
RECURSIVE PathOf(_, _)
PathOf(e, depth) ==
    CASE depth = 0 -> None
      [] doc.type[e] = "shape" -> <<e>>
      [] doc.type[e] = "use" /\ doc.ref[e] = None -> <<>>
      [] doc.type[e] = "use" /\ doc.type[doc.ref[e]] \in {"shape", "use"} ->
            PathOf(doc.ref[e], depth - 1)
      [] doc.type[e] = "use" -> None
      [] OTHER -> <<>>

ClipPaths(k) == [i \in DOMAIN doc.children[k] |-> PathOf(doc.children[k][i], MaxDepth)]

\* clip.apply: beginPath does nothing until the paths are collected.
ClipApply(s, k) ==
    IF k = None THEN s
    ELSE IF Contains(ClipPaths(k), None) THEN Throw([s EXCEPT !.beginPath = "nothing"])
    ELSE s

ClipItem(k) == IF k = None THEN None ELSE FlattenSeq(ClipPaths(k))

RECURSIVE Render(_, _, _)
RenderChildren(s, e, depth) ==
    FoldLeft(LAMBDA t, c : Render(t, c, depth - 1), s, doc.children[e])

\* mask.apply; the mask is rendered on a canvas of its own, the element on another.
MaskApply(s, e, depth) ==
    LET m == s.mask[e]
        off == [s EXCEPT !.mask[e] = None, !.items = <<>>]
        PutBack(drawn, maskItems) ==
            IF drawn.thrown THEN drawn
            ELSE [drawn EXCEPT !.items = Append(s.items, <<"masked", drawn.items, maskItems>>),
                               !.mask[e] = m]
    IN  With(RenderChildren(off, m, depth), LAMBDA masked :
            With(Render([masked EXCEPT !.items = <<>>], e, depth - 1), LAMBDA drawn :
                PutBack(drawn, masked.items)))

\* A faulty variant: the filter is not put back.
FilterLost(s, e) == s

\* style('filter', true) afterwards may be another property, a new one too.
FilterPutBack(s, e) ==
    IF StyleFilter(s, e) # None THEN [s EXCEPT !.value[StyleFilter(s, e)] = "on"]
    ELSE [s EXCEPT !.filter[e] = e, !.value[e] = "on"]

\* filter.apply
FilterApply(s, e, depth) ==
    LET off == [s EXCEPT !.value[StyleFilter(s, e)] = "", !.items = <<>>]
        PutBack(drawn) ==
            IF drawn.thrown THEN drawn
            ELSE With([drawn EXCEPT !.items = Append(s.items, <<"filtered", drawn.items>>)],
                      LAMBDA shown : FilterPutBack(shown, e))
    IN  IF HasBox(e, MaxDepth) THEN With(Render(off, e, depth - 1), PutBack) ELSE Throw(s)

\* The svg element draws its children into a view port of its width.
SvgRender(s, e, width, depth) ==
    With(RenderChildren([s EXCEPT !.items = <<>>], e, depth), LAMBDA inner :
        [inner EXCEPT !.items =
            Append(s.items, <<"svg", e, ClipItem(doc.clip[e]), width, inner.items>>)])

\* use: a symbol is drawn as an svg element made for it; an svg element takes
\* the width of the use for its own; others are drawn as they are.
UseRender(s, e, depth) ==
    LET r == doc.ref[e]
        asked == IF doc.size[e] # None THEN doc.size[e] ELSE "100%"
        sized == IF doc.type[r] = "svg" /\ doc.size[e] # None
                 THEN [s EXCEPT !.size[r] = doc.size[e]] ELSE s
        PutBack(drawn) ==
            IF drawn.thrown THEN drawn ELSE [drawn EXCEPT !.parent[r] = s.parent[r]]
    IN  IF r = None THEN s
        ELSE IF doc.type[r] = "symbol" THEN SvgRender(s, r, asked, depth)
        ELSE With(Render([sized EXCEPT !.parent[r] = None], r, depth - 1), PutBack)

\* A drawing between setContext and clearContext.
Inside(s, e, depth) ==
    LET t == [s EXCEPT !.items = <<>>]
        width == IF s.size[e] = None THEN "100%" ELSE s.size[e]
    IN  CASE doc.type[e] = "shape" ->
                Drawing(s, <<"shape", e, ClipItem(doc.clip[e]), s.beginPath>>)
          [] doc.type[e] = "image" ->
                IF images[e] = "broken" THEN Throw(s)
                ELSE IF images[e] = "loaded"
                THEN Drawing(s, <<"image", e, ClipItem(doc.clip[e])>>) ELSE s
          [] doc.type[e] = "svg" -> SvgRender([s EXCEPT !.size[e] = width], e, width, depth)
          [] OTHER ->
                With(IF doc.type[e] = "use" THEN UseRender(t, e, depth)
                     ELSE RenderChildren(t, e, depth),
                     LAMBDA inner : [inner EXCEPT !.items =
                        Append(s.items, <<"group", e, ClipItem(doc.clip[e]), inner.items>>)])

\* render
RenderNow(s, e, depth) ==
    IF doc.type[e] \in {"symbol", "mask", "clipPath"} THEN s
    ELSE IF s.mask[e] # None THEN MaskApply(s, e, depth)
    ELSE IF StyleFilter(s, e) # None /\ s.value[StyleFilter(s, e)] = "on"
    THEN FilterApply(s, e, depth)
    ELSE LET t == ClipApply(s, doc.clip[e])
         IN  IF t.thrown THEN t ELSE Inside(t, e, depth)

Render(s, e, depth) ==
    With(s, LAMBDA t : IF t.thrown THEN t
                       ELSE IF depth = 0 THEN Throw(t)
                       ELSE RenderNow(t, e, depth))

\* draw(): the canvas takes the width of the root, if that has one.  A
\* percentage is of the parent of the canvas, which there must be.
CanvasSize ==
    CASE size[Root] = None -> "as it is"
      [] size[Root] = "100%" -> "of the parent"
      [] OTHER -> size[Root]

Draw ==
    LET s == [mask |-> mask, filter |-> filter, value |-> value, parent |-> parent,
              size |-> size, beginPath |-> beginPath, items |-> <<>>,
              thrown |-> size[Root] = "100%" /\ ~attached]
    IN  \E t \in {Render(s, Root, MaxDepth)} :
            /\ mask' = t.mask /\ filter' = t.filter /\ value' = t.value
            /\ parent' = t.parent /\ size' = t.size /\ beginPath' = t.beginPath
            /\ picture' = IF t.thrown THEN None ELSE <<CanvasSize, t.items>>
            /\ thrown' = (thrown \/ t.thrown)
            /\ UNCHANGED <<doc, attached, images>>

\* An image arrives, or it does not; the next drawing will differ.
ImageSettles(e) ==
    /\ images[e] = "loading"
    /\ \E result \in {"loaded", "broken"} : images' = [images EXCEPT ![e] = result]
    /\ picture' = None
    /\ UNCHANGED <<doc, attached, tree, thrown>>

Next == Draw \/ \E e \in Element : ImageSettles(e)
Spec == Init /\ [][Next]_vars

-----------------------------------------------------------------------------
\* What a document shows, by the document alone: its own filter, then its mask,
\* around its children in their order; a used svg element or symbol in the
\* width of the use.
RECURSIVE Shown(_, _)
Shown(e, width) ==
    LET clip == ClipItem(doc.clip[e])
        Children(p) == FlattenSeq([i \in DOMAIN doc.children[p] |->
                           Shown(doc.children[p][i], doc.size[doc.children[p][i]])])
        OfUse(r) == IF r = None THEN <<>>
                    ELSE IF doc.type[r] = "symbol"
                    THEN <<<<"svg", r, ClipItem(doc.clip[r]),
                             IF doc.size[e] # None THEN doc.size[e] ELSE "100%", Children(r)>>>>
                    ELSE Shown(r, IF doc.size[e] # None THEN doc.size[e] ELSE doc.size[r])
        plain ==
            CASE doc.type[e] \in {"symbol", "mask", "clipPath"} -> <<>>
              [] doc.type[e] = "shape" -> <<<<"shape", e, clip, "real">>>>
              [] doc.type[e] = "image" ->
                    IF images[e] = "loaded" THEN <<<<"image", e, clip>>>> ELSE <<>>
              [] doc.type[e] = "svg" ->
                    <<<<"svg", e, clip, IF width = None THEN "100%" ELSE width, Children(e)>>>>
              [] doc.type[e] = "use" -> <<<<"group", e, clip, OfUse(doc.ref[e])>>>>
              [] OTHER -> <<<<"group", e, clip, Children(e)>>>>
        filtered == IF doc.filter[e] = None THEN plain ELSE <<<<"filtered", plain>>>>
    IN  IF doc.type[e] \in {"symbol", "mask", "clipPath"} THEN <<>>
        ELSE IF doc.mask[e] = None THEN filtered
        ELSE <<<<"masked", filtered, Children(doc.mask[e])>>>>

\* What is drawn while an element is.
Within(e) ==
    LET Below(S) == {y \in Element : \E x \in S : \/ Contains(doc.children[x], y)
                                                \/ doc.ref[x] = y \/ doc.mask[x] = y}
    IN  FoldLeft(LAMBDA S, i : S \cup Below(S), Below({e}), [i \in 1..MaxDepth |-> i])

\* A filter from a rule for an element and for one within it.
SharesFilter ==
    \E x \in Element : doc.filter[x] # None /\
        \E y \in Within(x) \ {x} : doc.filter[x] = doc.filter[y]

\* A mask or symbol stands in an element with a filter: its content gets it.
InheritsFilter ==
    \E x, y \in Element : Contains(doc.children[x], y) /\ doc.filter[x] # None
                          /\ doc.type[y] \in {"mask", "symbol"}

\* A use gives its width to an svg element, for good.
ResizesSvg ==
    \E u \in Element : doc.type[u] = "use" /\ doc.size[u] # None
                       /\ doc.ref[u] # None /\ doc.type[doc.ref[u]] = "svg"

\* Every drawing shows the document, the first and the later ones, whatever the
\* ones before took off and put back, as long as none threw; but for filters that
\* an element shares with one within it or has from around a mask or symbol, and
\* for an svg element that a use resizes.
ShowsTheDocument ==
    picture # None /\ ~thrown /\ ~SharesFilter /\ ~InheritsFilter /\ ~ResizesSvg =>
        picture[2] = Shown(Root, doc.size[Root])
=============================================================================
