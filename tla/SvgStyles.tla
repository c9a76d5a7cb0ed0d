------------------------------- MODULE SvgStyles -------------------------------
(***************************************************************************)
(* How canvg.js finds the fill of an element.  Elements are made in the    *)
(* order of the document; one looks at the selectors that are known when   *)
(* it is made, one after the other, takes the declarations of the more     *)
(* specific, and then its own of the style attribute.  A style element     *)
(* adds its rules when it is made.  The root looks at the selectors once   *)
(* more when the document is complete.  A drawing asks every element for   *)
(* its fill, which may come from its attribute or from its ancestors, and  *)
(* writes the colour over a fill currentColor: into the Property it found, *)
(* which all the elements of a rule have in common.                        *)
(*                                                                         *)
(* Nothing else runs between the steps.  A rule is [selector, matches,     *)
(* specificity, fill]; matching is left to the browser.  A specificity     *)
(* counts below ten ids, classes and names, so that the text the code      *)
(* compares is a number of three digits.                                   *)
(***************************************************************************)
EXTENDS Integers, Sequences

CONSTANTS
    Element,    \* the elements that are drawn
    Root,
    Sheets,     \* [order, up, rules, attribute, inline, color]
    StyleTag,   \* stands in order where the style element does
    Unset

VARIABLES
    sheet,      \* the document; up is the way from each element to the root
    made,       \* how much of sheet.order was made
    looked,     \* how many of the selectors, or rules, the next has looked at
    complete,   \* the root has looked at the selectors once more
    Styles,     \* the rules known, in the order of their selectors
    styles,     \* of each element, the Property of its fill, or Unset
    stylesSpecificity,
    colourOf,   \* of each Property, a colour or "currentColor"
    reached,    \* how much of sheet.order a drawing has come to
    filled      \* the fill each element was drawn with; Unset before

stylesVars == <<sheet, made, looked, complete, Styles, styles, stylesSpecificity,
                colourOf, reached, filled>>

\* A Property: of an attribute, of a style attribute, or of a rule.
AttributeOf(e) == <<"attribute", e>>
InlineOf(e) == <<"inline", e>>
RuleProperty(i) == <<"rule", i>>
Property == {"attribute", "inline"} \X Element \cup {"rule"} \X Nat

PropertiesOf(d) == {"attribute", "inline"} \X Element \cup {"rule"} \X DOMAIN d.rules

\* What the document gives a Property.
Given(p) ==
    CASE p[1] = "attribute" -> sheet.attribute[p[2]]
      [] p[1] = "inline" -> sheet.inline[p[2]]
      [] OTHER -> sheet.rules[p[2]].fill

\* In the order of a document the root comes first, every element after those it
\* is in, and each once.  Rules of one selector match the same elements.  The root
\* has a colour, and no colour is currentColor.
ASSUME SheetAssumption ==
    /\ Root \in Element /\ StyleTag \notin Element /\ Unset \notin Element \cup Property
    /\ Unset # "currentColor" /\ Unset # "black"
    /\ \A d \in Sheets :
         /\ d.order \in Seq(Element \cup {StyleTag}) /\ d.order # <<>> /\ d.order[1] = Root
         /\ \A x \in Element \cup {StyleTag} : \E k \in DOMAIN d.order : d.order[k] = x
         /\ \A j, k \in DOMAIN d.order : d.order[j] = d.order[k] => j = k
         /\ \A e \in Element :
              /\ d.up[e] \in Seq(Element) /\ d.up[e] # <<>> /\ d.up[e][1] = e
              /\ d.color[e] # "currentColor"
              /\ \E k \in DOMAIN d.up[e] : d.up[e][k] = Root
              /\ \A i \in DOMAIN d.up[e], j, k \in DOMAIN d.order :
                   d.order[j] = d.up[e][i] /\ d.order[k] = e => j < k \/ i = 1
         /\ d.rules \in Seq([selector : STRING, matches : SUBSET Element, specificity : Nat,
                             fill : STRING \ {Unset}])
         /\ \A i, j \in DOMAIN d.rules : d.rules[i].selector = d.rules[j].selector =>
              /\ d.rules[i].matches = d.rules[j].matches
              /\ d.rules[i].specificity = d.rules[j].specificity
         /\ d.color[Root] # Unset

StylesInit ==
    /\ sheet \in Sheets
    /\ made = 0 /\ looked = 0 /\ complete = FALSE
    /\ Styles = <<>>
    /\ styles = [e \in Element |-> Unset]
    /\ stylesSpecificity = [e \in Element |-> 0]
    /\ colourOf = [p \in PropertiesOf(sheet) |-> Given(p)]
    /\ reached = 0 /\ filled = [e \in Element |-> Unset]

-----------------------------------------------------------------------------
Matches(e, i) == e \in sheet.rules[i].matches
Specificity(i) == sheet.rules[i].specificity

\* A faulty variant: a later rule wins, whatever its specificity.
LastRule(e, i) == Matches(e, i)

\* A rule must be more specific than what is there.
Overrides(e, i) == Matches(e, i) /\ Specificity(i) > stylesSpecificity[e]

\* What is being made; the root looks again when everything is.
Current == IF made < Len(sheet.order) THEN sheet.order[made + 1] ELSE Root

\* addStylesFromStyleDefinition: the next selector.
AddStyles ==
    LET e == Current
        i == Styles[looked + 1]
    IN  /\ ~complete /\ e # StyleTag /\ looked < Len(Styles)
        /\ looked' = looked + 1
        /\ IF Overrides(e, i)
           THEN /\ styles' = [styles EXCEPT ![e] = RuleProperty(i)]
                /\ stylesSpecificity' = [stylesSpecificity EXCEPT ![e] = Specificity(i)]
           ELSE UNCHANGED <<styles, stylesSpecificity>>
        /\ UNCHANGED <<sheet, made, complete, Styles, colourOf, reached, filled>>

\* The style attribute, after all the selectors; with it the element is made.
CreateElement ==
    LET e == Current
    IN  /\ made < Len(sheet.order) /\ e # StyleTag /\ looked = Len(Styles)
        /\ made' = made + 1 /\ looked' = 0
        /\ styles' = IF sheet.inline[e] # Unset
                     THEN [styles EXCEPT ![e] = InlineOf(e)] ELSE styles
        /\ UNCHANGED <<sheet, complete, Styles, stylesSpecificity, colourOf, reached, filled>>

\* svg.Styles[selector] = props: a selector that is known keeps its place.
WithRule(i) ==
    LET same == {j \in DOMAIN Styles :
                    sheet.rules[Styles[j]].selector = sheet.rules[i].selector}
    IN  IF same = {} THEN Append(Styles, i)
        ELSE [Styles EXCEPT ![CHOOSE j \in same : TRUE] = i]

\* The style element adds its next rule, and is made after the last.
AddRule ==
    /\ Current = StyleTag /\ looked < Len(sheet.rules)
    /\ looked' = looked + 1 /\ Styles' = WithRule(looked + 1)
    /\ UNCHANGED <<sheet, made, complete, styles, stylesSpecificity, colourOf, reached, filled>>
CreateStyle ==
    /\ Current = StyleTag /\ looked = Len(sheet.rules)
    /\ made' = made + 1 /\ looked' = 0
    /\ UNCHANGED <<sheet, complete, Styles, styles, stylesSpecificity, colourOf, reached, filled>>

\* e.addStylesFromStyleDefinition() has come to its end.
Complete ==
    /\ made = Len(sheet.order) /\ ~complete /\ looked = Len(Styles)
    /\ complete' = TRUE
    /\ UNCHANGED <<sheet, made, looked, Styles, styles, stylesSpecificity, colourOf, reached,
                   filled>>

\* Of an element and its ancestors the nearest in S; Unset if none is.
Nearest(e, S) ==
    LET way == sheet.up[e]
        found == {k \in DOMAIN way : way[k] \in S}
    IN  IF found = {} THEN Unset ELSE way[CHOOSE k \in found : \A j \in found : k <= j]

\* style('fill') of an element without its ancestors.
OwnStyle(e) ==
    IF styles[e] # Unset THEN styles[e]
    ELSE IF sheet.attribute[e] # Unset THEN AttributeOf(e) ELSE Unset

\* style('fill') finds the Property of the nearest that has one.
StyleFrom(e) == Nearest(e, {x \in Element : OwnStyle(x) # Unset})

\* style('color'), which only attributes give here; the root has one.
Color(e) == sheet.color[Nearest(e, {x \in Element : sheet.color[x] # Unset})]

\* setContext of an element of a drawing; what has no fill at all is black, as the
\* canvas begins.  An attribute that is found on the way up moves into the styles.
SetFillStyle(e) ==
    LET a == StyleFrom(e)
        p == OwnStyle(a)
        colour == IF colourOf[p] = "currentColor" THEN Color(e) ELSE colourOf[p]
    IN  IF a = Unset
        THEN filled' = [filled EXCEPT ![e] = "black"] /\ UNCHANGED <<styles, colourOf>>
        ELSE /\ styles' = [styles EXCEPT ![a] = p]
             /\ colourOf' = [colourOf EXCEPT ![p] = colour]
             /\ filled' = [filled EXCEPT ![e] = colour]

\* A drawing: the elements in their order; a style element draws nothing.
RenderNext ==
    LET e == sheet.order[reached + 1]
    IN  /\ complete
        /\ reached' = (reached + 1) % Len(sheet.order)
        /\ IF e = StyleTag THEN UNCHANGED <<styles, colourOf, filled>> ELSE SetFillStyle(e)
        /\ UNCHANGED <<sheet, made, looked, complete, Styles, stylesSpecificity>>

StylesNext ==
    AddStyles \/ CreateElement \/ AddRule \/ CreateStyle \/ Complete \/ RenderNext
StylesSpec == StylesInit /\ [][StylesNext]_stylesVars

-----------------------------------------------------------------------------
\* The cascade, from the document alone: the style attribute, the rule of the
\* highest specificity (of these the last), the attribute, what the parent has.
\* currentColor is the colour of the element that has it.
Rules(e) == {i \in DOMAIN sheet.rules : Matches(e, i)}
Winner(e) ==
    CHOOSE i \in Rules(e) : \A j \in Rules(e) :
        \/ Specificity(i) > Specificity(j)
        \/ Specificity(i) = Specificity(j) /\ i >= j
Own(e) ==
    IF sheet.inline[e] # Unset THEN sheet.inline[e]
    ELSE IF Rules(e) # {} THEN sheet.rules[Winner(e)].fill
    ELSE sheet.attribute[e]
Cascade(e) ==
    LET a == Nearest(e, {x \in Element : Own(x) # Unset})
    IN  IF a = Unset THEN "black"
        ELSE IF Own(a) = "currentColor" THEN Color(a) ELSE Own(a)

Position(x) == CHOOSE k \in DOMAIN sheet.order : sheet.order[k] = x

\* Where the code is known to part from the cascade, for one element.
MadeBeforeItsRules(e) == e # Root /\ Position(e) < Position(StyleTag) /\ Rules(e) # {}
EquallySpecific(e) ==
    \E i, j \in Rules(e) : /\ sheet.rules[i].selector # sheet.rules[j].selector
                           /\ Specificity(i) = Specificity(j)
Universal(e) == \E i \in Rules(e) : Specificity(i) = 0
RuleOverStyle(e) == e = Root /\ sheet.inline[e] # Unset /\ Rules(e) # {}
SharedCurrentColor ==
    \E i \in DOMAIN sheet.rules :
        /\ sheet.rules[i].fill = "currentColor"
        /\ \E x, y \in sheet.rules[i].matches : Color(x) # Color(y)

\* It parts there for the element, or for an ancestor that it has its fill from.
PartsHere(e) ==
    MadeBeforeItsRules(e) \/ EquallySpecific(e) \/ Universal(e) \/ RuleOverStyle(e)
Parts(e) ==
    LET way == sheet.up[e]
    IN  \E k \in DOMAIN way : PartsHere(way[k]) /\ \A j \in 1..(k - 1) : Own(way[j]) = Unset

\* The first drawing and every later one give each element the fill that the
\* cascade gives it, though the attributes are cached and the colours written
\* over currentColor stay; but for the elements made before their rules, those
\* with rules as specific as each other or for all elements, a style attribute of
\* the root, and a currentColor of a rule for elements of different colours.
FilledByCascade ==
    SharedCurrentColor \/
    \A e \in Element : filled[e] # Unset /\ ~Parts(e) => filled[e] = Cascade(e)
=============================================================================
