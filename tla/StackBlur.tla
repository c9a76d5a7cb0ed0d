------------------------------- MODULE StackBlur -------------------------------
(***************************************************************************)
(* The blur of StackBlur.js, as stackBlurImage and the feGaussianBlur      *)
(* filter of canvg.js call it.  An image is a sequence of rows of pixels;  *)
(* a pixel is one colour and its alpha, both in 0..255.  The other two     *)
(* colours are treated as the one.                                         *)
(*                                                                         *)
(* A pass replaces each line, of a row and then of a column, by weighted   *)
(* sums that a window of 2 * radius + 1 values keeps up to date: a ring    *)
(* with two ends, the sum of the half that leaves, the sum of the half     *)
(* that comes in, and the weighted sum.  The sum is divided by a           *)
(* multiplication and a shift of 32 bits, with constants from two tables,  *)
(* that end at radius 254.  A value read outside the image is undefined,   *)
(* makes every sum NaN, and NaN is stored as 0.                            *)
(***************************************************************************)
EXTENDS Integers, Sequences, SequencesExt

CONSTANTS
    Cases     \* the images to blur, each with a radius

ASSUME BlurAssumption ==
    \A case \in Cases :
        case[1] \in Seq(Seq([c : 0..255, a : 0..255])) /\ case[2] \in Nat

Min2(a, b) == IF a < b THEN a ELSE b
Clamped(v) == IF v < 0 THEN 0 ELSE Min2(v, 255)

\* f[lo] + ... + f[hi], by halves: windows are wide and recursion is not.
SumOver(f, lo, hi) ==
    LET Sum[i, j \in Int] ==
            IF i > j THEN 0
            ELSE IF i = j THEN f[i]
            ELSE Sum[i, (i + j) \div 2] + Sum[(i + j) \div 2 + 1, j]
    IN  Sum[lo, hi]

\* mul_table[r] / 2^shg_table[r] is 1 / (r + 1)^2, rounded up.
mul_table == <<
  512, 512, 456, 512, 328, 456, 335, 512, 405, 328, 271, 456, 388, 335, 292, 512, 454, 405, 364, 328,
  298, 271, 496, 456, 420, 388, 360, 335, 312, 292, 273, 512, 482, 454, 428, 405, 383, 364, 345, 328,
  312, 298, 284, 271, 259, 496, 475, 456, 437, 420, 404, 388, 374, 360, 347, 335, 323, 312, 302, 292,
  282, 273, 265, 512, 497, 482, 468, 454, 441, 428, 417, 405, 394, 383, 373, 364, 354, 345, 337, 328,
  320, 312, 305, 298, 291, 284, 278, 271, 265, 259, 507, 496, 485, 475, 465, 456, 446, 437, 428, 420,
  412, 404, 396, 388, 381, 374, 367, 360, 354, 347, 341, 335, 329, 323, 318, 312, 307, 302, 297, 292,
  287, 282, 278, 273, 269, 265, 261, 512, 505, 497, 489, 482, 475, 468, 461, 454, 447, 441, 435, 428,
  422, 417, 411, 405, 399, 394, 389, 383, 378, 373, 368, 364, 359, 354, 350, 345, 341, 337, 332, 328,
  324, 320, 316, 312, 309, 305, 301, 298, 294, 291, 287, 284, 281, 278, 274, 271, 268, 265, 262, 259,
  257, 507, 501, 496, 491, 485, 480, 475, 470, 465, 460, 456, 451, 446, 442, 437, 433, 428, 424, 420,
  416, 412, 408, 404, 400, 396, 392, 388, 385, 381, 377, 374, 370, 367, 363, 360, 357, 354, 350, 347,
  344, 341, 338, 335, 332, 329, 326, 323, 320, 318, 315, 312, 310, 307, 304, 302, 299, 297, 294, 292,
  289, 287, 285, 282, 280, 278, 275, 273, 271, 269, 267, 265, 263, 261, 259 >>

shg_table == <<
  9, 11, 12, 13, 13, 14, 14, 15, 15, 15, 15, 16, 16, 16, 16, 17, 17, 17, 17, 17, 17, 17, 18, 18,
  18, 18, 18, 18, 18, 18, 18, 19, 19, 19, 19, 19, 19, 19, 19, 19, 19, 19, 19, 19, 19, 20, 20, 20,
  20, 20, 20, 20, 20, 20, 20, 20, 20, 20, 20, 20, 20, 20, 20, 21, 21, 21, 21, 21, 21, 21, 21, 21,
  21, 21, 21, 21, 21, 21, 21, 21, 21, 21, 21, 21, 21, 21, 21, 21, 21, 21, 22, 22, 22, 22, 22, 22,
  22, 22, 22, 22, 22, 22, 22, 22, 22, 22, 22, 22, 22, 22, 22, 22, 22, 22, 22, 22, 22, 22, 22, 22,
  22, 22, 22, 22, 22, 22, 22, 23, 23, 23, 23, 23, 23, 23, 23, 23, 23, 23, 23, 23, 23, 23, 23, 23,
  23, 23, 23, 23, 23, 23, 23, 23, 23, 23, 23, 23, 23, 23, 23, 23, 23, 23, 23, 23, 23, 23, 23, 23,
  23, 23, 23, 23, 23, 23, 23, 23, 23, 23, 23, 23, 23, 24, 24, 24, 24, 24, 24, 24, 24, 24, 24, 24,
  24, 24, 24, 24, 24, 24, 24, 24, 24, 24, 24, 24, 24, 24, 24, 24, 24, 24, 24, 24, 24, 24, 24, 24,
  24, 24, 24, 24, 24, 24, 24, 24, 24, 24, 24, 24, 24, 24, 24, 24, 24, 24, 24, 24, 24, 24, 24, 24,
  24, 24, 24, 24, 24, 24, 24, 24, 24, 24, 24, 24, 24, 24, 24 >>

-----------------------------------------------------------------------------
\* (sum * mul_sum) >> shg_sum, stored in a byte.  The product can exceed 2^31;
\* it is taken apart here, and its top bit is the sign of what is shifted.
Scaled(sum, radius) ==
    LET mul == mul_table[radius + 1]
        shg == shg_table[radius + 1]
        product512 == (sum \div 512) * mul + ((sum % 512) * mul) \div 512
        width == 32 - shg
        shifted == (product512 \div 2^(shg - 9)) % 2^width
    IN  IF shifted >= 2^(width - 1) THEN 0 ELSE Clamped(shifted)

\* Where the window starts: the first value radius + 1 times, then the values
\* ahead, the last of them repeated.  stackOut is radius + 1 slots ahead of stackIn.
RingOf(line, radius, ahead) ==
    [s \in 0..2 * radius |-> IF s <= radius THEN line[1] ELSE line[ahead[s - radius] + 1]]

\* A faulty variant: the value that leaves is taken one slot too late.
SlideLate(w, line, x, radius) ==
    LET div == 2 * radius + 1
        next == line[Min2(x + radius + 1, Len(line) - 1) + 1]
        out == (x + radius + 2) % div
        ring == [w.ring EXCEPT ![x % div] = next]
        inSum == w.inSum + next
    IN  [ring |-> ring,
         sum |-> w.sum - w.outSum + inSum,
         outSum |-> w.outSum - w.ring[x % div] + ring[out],
         inSum |-> inSum - ring[out]]

\* The window moves past the value at x.
Slide(w, line, x, radius) ==
    LET div == 2 * radius + 1
        next == line[Min2(x + radius + 1, Len(line) - 1) + 1]
        out == (x + radius + 1) % div
        ring == [w.ring EXCEPT ![x % div] = next]
        inSum == w.inSum + next
    IN  [ring |-> ring,
         sum |-> w.sum - w.outSum + inSum,
         outSum |-> w.outSum - w.ring[x % div] + ring[out],
         inSum |-> inSum - ring[out]]

\* One line; ahead[i] is the index the i-th value ahead of the first is read at.
BlurLine(line, radius, ahead) ==
    LET ring == RingOf(line, radius, ahead)
        start == [ring   |-> ring,
                  sum    |-> line[1] * (((radius + 1) * (radius + 2)) \div 2)
                             + SumOver([i \in 1..radius |->
                                          ring[radius + i] * (radius + 1 - i)], 1, radius),
                  outSum |-> (radius + 1) * line[1],
                  inSum  |-> SumOver(ring, radius + 1, 2 * radius)]
        Step(at, x) ==
            LET stored == [at.line EXCEPT ![x] = Scaled(at.window.sum, radius)]
            IN  [window |-> Slide(at.window, stored, x - 1, radius), line |-> stored]
    IN  IF radius >= Len(mul_table) \/ ahead[1] >= Len(line)
        THEN [x \in DOMAIN line |-> 0]
        ELSE FoldLeft(Step, [window |-> start, line |-> line],
                      [x \in DOMAIN line |-> x]).line

\* The next value of a row is read at the clamped index, in a column the second
\* value is read even where there is none.
RowAhead(line, radius) == [i \in 1..radius |-> Min2(i, Len(line) - 1)]
ColumnAhead(line, radius) == [RowAhead(line, radius) EXCEPT ![1] = 1]

Channel(f, line) == [x \in DOMAIN line |-> line[x][f]]
Pixels(colours, alphas) == [x \in DOMAIN colours |-> [c |-> colours[x], a |-> alphas[x]]]
Transposed(image) == [x \in DOMAIN image[1] |-> [y \in DOMAIN image |-> image[y][x]]]
EachPixel(op(_), image) == [y \in DOMAIN image |-> [x \in DOMAIN image[y] |-> op(image[y][x])]]

\* stackBlurCanvasRGB leaves the alphas alone.
Blurred(line, radius, ahead, alphaToo) ==
    Pixels(BlurLine(Channel("c", line), radius, ahead),
           IF alphaToo THEN BlurLine(Channel("a", line), radius, ahead) ELSE Channel("a", line))

BlurRows(image, radius, alphaToo) ==
    [y \in DOMAIN image |->
        Blurred(image[y], radius, RowAhead(image[y], radius), alphaToo)]
BlurColumns(image, radius, alphaToo) ==
    LET columns == Transposed(image)
    IN  Transposed([x \in DOMAIN columns |->
            Blurred(columns[x], radius, ColumnAhead(columns[x], radius), alphaToo)])

\* A faulty variant: colours are taken as they are.
NotPremultiplied(p) == p

\* The product of a colour and a / 255, rounded to the nearest byte; no tie occurs.
Premultiplied(p) == [p EXCEPT !.c = (2 * p.c * p.a + 255) \div 510]

\* Divided again, ties to even.  (At 23 pairs the quotient of doubles is just
\* beside the tie; the model rounds as if it were exact.)
Unpremultiplied(p) ==
    IF p.a = 0 THEN p
    ELSE LET q == (255 * p.c) \div p.a
             twice == 2 * ((255 * p.c) % p.a)
             up == twice > p.a \/ (twice = p.a /\ q % 2 = 1)
         IN  [p EXCEPT !.c = Clamped(IF up THEN q + 1 ELSE q)]

-----------------------------------------------------------------------------
VARIABLES
    canvas,      \* what the canvas shows
    original,    \* history: what it showed when the call began
    data,        \* the pixels that are worked on
    before,      \* history: data before the last pass
    radius,
    alphaToo,    \* stackBlurCanvasRGBA, or stackBlurCanvasRGB
    byFilter,    \* called by feGaussianBlur, else by stackBlurImage
    inDocument,  \* the canvas of the filter is a child of the document
    phase

args == <<original, radius, alphaToo, byFilter>>
blurVars == <<canvas, data, before, inDocument, phase, args>>

BlurInit ==
    /\ \E case \in Cases : original = case[1] /\ radius = case[2]
    /\ byFilter \in BOOLEAN /\ alphaToo \in BOOLEAN
    /\ byFilter => alphaToo
    /\ canvas = original /\ data = <<>> /\ before = <<>>
    /\ inDocument = byFilter
    /\ phase = "start"

\* A radius below one: nothing is blurred.
Nothing ==
    /\ phase = "start" /\ radius < 1
    /\ phase' = "done" /\ inDocument' = FALSE
    /\ UNCHANGED <<canvas, data, before, args>>

GetImageData ==
    /\ phase = "start" /\ radius >= 1
    /\ data' = IF alphaToo THEN EachPixel(Premultiplied, canvas) ELSE canvas
    /\ before' = data'
    /\ phase' = "rows"
    /\ UNCHANGED <<canvas, inDocument, args>>

\* The canvas shows a picture of another site: the call throws, and the filter
\* does not reach removeChild.
CannotAccess ==
    /\ phase = "start" /\ radius >= 1
    /\ phase' = "thrown"
    /\ UNCHANGED <<canvas, data, before, inDocument, args>>

Rows ==
    /\ phase = "rows"
    /\ data' = BlurRows(data, radius, alphaToo)
    /\ before' = data
    /\ phase' = "columns"
    /\ UNCHANGED <<canvas, inDocument, args>>

Columns ==
    /\ phase = "columns"
    /\ data' = BlurColumns(data, radius, alphaToo)
    /\ before' = data
    /\ phase' = "put"
    /\ UNCHANGED <<canvas, inDocument, args>>

PutImageData ==
    /\ phase = "put"
    /\ canvas' = IF alphaToo THEN EachPixel(Unpremultiplied, data) ELSE data
    /\ phase' = "done" /\ inDocument' = FALSE
    /\ UNCHANGED <<data, before, args>>

BlurNext == Nothing \/ GetImageData \/ CannotAccess \/ Rows \/ Columns \/ PutImageData
BlurSpec == BlurInit /\ [][BlurNext]_blurVars

-----------------------------------------------------------------------------
\* What a value is meant to become: the average of its line with weights that
\* fall from radius + 1 in steps of one, the ends of the line repeated.
WeightedSum(line, x) ==
    LET Weight(d) == radius + 1 - (IF d < 0 THEN -d ELSE d)
        At(i) == line[IF i < 1 THEN 1 ELSE Min2(i, Len(line))]
    IN  SumOver([d \in (-radius)..radius |-> Weight(d) * At(x + d)], -radius, radius)

Averaged(line, blurred) ==
    \A x \in DOMAIN line :
        LET sum == WeightedSum(line, x)
            n == (radius + 1) * (radius + 1)
        IN  sum < 127 * n \/ radius <= 180 => blurred[x] - sum \div n \in {0, 1}

passed == IF alphaToo THEN {"c", "a"} ELSE {"c"}

\* Each pass makes every value the weighted average of its line, rounded down
\* or one more; but for a radius that has no entry in the tables, for bright
\* lines with a radius over 180, where the product overflows, and for the
\* columns of an image of one row, which the pass turns to 0.
EachPassAverages ==
    /\ phase = "columns" /\ radius <= 254 =>
         \A y \in DOMAIN data : \A f \in passed :
             Averaged(Channel(f, before[y]), Channel(f, data[y]))
    /\ phase = "put" /\ radius <= 254 /\ Len(data) > 1 =>
         \A x \in DOMAIN data[1] : \A f \in passed :
             Averaged(Channel(f, Transposed(before)[x]), Channel(f, Transposed(data)[x]))

\* The colour under a transparent pixel does not show: the RGBA blur of the
\* image is that of the image where such pixels are black.
Blackened(image) ==
    EachPixel(LAMBDA p : IF p.a = 0 THEN [c |-> 0, a |-> 0] ELSE p, image)
HiddenColoursDoNotShow ==
    phase = "done" /\ alphaToo /\ radius >= 1 =>
        \E read \in {EachPixel(Premultiplied, Blackened(original))} :
        \E rows \in {BlurRows(read, radius, TRUE)} :
        \E blurred \in {BlurColumns(rows, radius, TRUE)} :
            canvas = EachPixel(Unpremultiplied, blurred)
=============================================================================
