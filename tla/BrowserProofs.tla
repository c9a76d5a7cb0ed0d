----------------------------- MODULE BrowserProofs -----------------------------
(***************************************************************************)
(* Theorems of what runs in a browser's event loop.                        *)
(*                                                                         *)
(* RoadMap: the map shows the path of the last answer, for any number of   *)
(* queries, cities and paths, and whatever the library does at a point     *)
(* that is undefined.                                                      *)
(*                                                                         *)
(* SvgLoop: a loop that draws beside the current one was being built when  *)
(* canvg was called again, for any number of calls, images and events and  *)
(* however deep the calls stand within each other's callbacks.             *)
(*                                                                         *)
(* SvgAnimation: an animation with its attribute to itself ends as its     *)
(* fill asks, for any document, any values and frames of any length.       *)
(***************************************************************************)
EXTENDS RoadMap, SvgLoop, SvgAnimation, SequenceTheorems, TLAPS

-----------------------------------------------------------------------------
(* The road map page.                                                      *)

\* The jobs end with the query answered last, and paths is what it was answered.
JobsInv ==
    /\ jobs \in Seq(Nat) /\ answers \in Seq([query : Nat, path : Seq(City)])
    /\ asked \in Nat /\ flying \subseteq 1..MaxQueries
    /\ jobs # <<>> => answers # <<>> /\ Last(jobs) = Last(answers).query
    /\ answers # <<>> => paths = Last(answers).path

\* The inductive invariant: what is on the map is the line remembered even
\* while jobs wait.
IInv ==
    /\ JobsInv
    /\ overlays \subseteq {lastline} \ {NoLine}
    /\ jobs = <<>> /\ lastline # NoLine => answers # <<>> /\ lastline = Last(answers)

LEMMA InitInv == Init => IInv
  BY RoadMapAssumption DEF Init, IInv, JobsInv

\* A job taken from the queue leaves the one that was last, or was that one.
LEMMA TailLast ==
    ASSUME NEW s \in Seq(Nat), s # <<>>
    PROVE  /\ Head(s) \in Nat /\ Tail(s) \in Seq(Nat)
           /\ Tail(s) = <<>> => Head(s) = Last(s)
           /\ Tail(s) # <<>> => Last(Tail(s)) = Last(s)
  <1>1. Len(s) \in Nat /\ Len(s) > 0 /\ Head(s) = s[1] /\ Head(s) \in Nat
    OBVIOUS
  <1>2. Tail(s) \in Seq(Nat) /\ Len(Tail(s)) = Len(s) - 1
    OBVIOUS
  <1>3. ASSUME Tail(s) = <<>> PROVE Head(s) = Last(s)
    <2> DEFINE t == Tail(s)
    <2>1. t = <<>> /\ Len(t) = Len(s) - 1
      BY <1>2, <1>3
    <2> HIDE DEF t
    <2>2. Len(t) = 0
      BY <2>1
    <2>3. Len(s) = 1
      BY <1>1, <2>1, <2>2
    <2> QED BY <1>1, <2>3 DEF Last
  <1>4. ASSUME Tail(s) # <<>> PROVE Last(Tail(s)) = Last(s)
    <2> DEFINE n == Len(Tail(s))
    <2>1. n \in Nat /\ n > 0 /\ n + 1 = Len(s)
      BY <1>1, <1>2, <1>4
    <2>2. \A i \in 1..n : Tail(s)[i] = s[i + 1]
      BY HeadTailProperties
    <2>3. Tail(s)[n] = s[n + 1]
      <3> HIDE DEF n
      <3> QED BY <2>1, <2>2
    <2>4. Last(s) = s[n + 1] /\ Last(Tail(s)) = Tail(s)[n]
      <3>1. Last(Tail(s)) = Tail(s)[n]
        BY DEF Last
      <3> QED BY <2>1, <3>1 DEF Last
    <2> QED BY <2>3, <2>4
  <1> QED BY <1>1, <1>2, <1>3, <1>4

LEMMA AppendLast ==
    ASSUME NEW S, NEW s \in Seq(S), NEW x \in S
    PROVE  Append(s, x) \in Seq(S) /\ Append(s, x) # <<>> /\ Last(Append(s, x)) = x
  <1>1. Append(s, x) \in Seq(S) /\ Len(Append(s, x)) = Len(s) + 1 /\ Len(s) \in Nat
    OBVIOUS
  <1>2. Append(s, x)[Len(s) + 1] = x
    OBVIOUS
  <1> QED BY <1>1, <1>2 DEF Last

LEMMA SeqLast == ASSUME NEW S, NEW s \in Seq(S), s # <<>> PROVE Last(s) \in S
  <1>1. Len(s) \in Nat /\ Len(s) > 0
    OBVIOUS
  <1>2. s[Len(s)] \in S
    BY <1>1
  <1> QED BY <1>2 DEF Last

LEMMA AnswerInv ==
    ASSUME IInv, NEW q \in 1..MaxQueries, NEW p \in Path, Answer(q, p)
    PROVE  IInv'
  <1> DEFINE a == [query |-> q, path |-> p]
  <1>1. q \in Nat /\ p \in Seq(City) /\ a \in [query : Nat, path : Seq(City)]
    BY RoadMapAssumption DEF RoadMapAssumption
  <1>2. /\ jobs' = Append(jobs, q) /\ paths' = p
        /\ answers' = Append(answers, a)
        /\ flying' \subseteq flying
        /\ UNCHANGED <<asked, overlays, lastline>>
    BY DEF Answer
  <1> HIDE DEF a
  <1>3. Append(jobs, q) \in Seq(Nat) /\ Append(jobs, q) # <<>> /\ Last(Append(jobs, q)) = q
    <2>1. jobs \in Seq(Nat)
      BY DEF IInv, JobsInv
    <2> QED BY <1>1, <2>1, AppendLast
  <1>4. /\ Append(answers, a) \in Seq([query : Nat, path : Seq(City)])
        /\ Append(answers, a) # <<>> /\ Last(Append(answers, a)) = a
    <2>1. answers \in Seq([query : Nat, path : Seq(City)])
      BY DEF IInv, JobsInv
    <2> DEFINE S == [query : Nat, path : Seq(City)]
    <2>2. answers \in Seq(S) /\ a \in S
      BY <1>1, <2>1
    <2> HIDE DEF S
    <2>3. Append(answers, a) \in Seq(S) /\ Append(answers, a) # <<>> /\ Last(Append(answers, a)) = a
      BY <2>2, AppendLast
    <2> QED BY <2>3 DEF S
  <1>5. Last(jobs') = q /\ Last(answers') = a
    BY <1>2, <1>3, <1>4 DEF Last
  <1>6. a.query = q /\ a.path = p
    BY DEF a
  <1>7. JobsInv'
    BY <1>2, <1>3, <1>4, <1>5, <1>6 DEF IInv, JobsInv
  <1> QED
    BY <1>2, <1>3, <1>7 DEF IInv

LEMMA MarkPathInv == ASSUME IInv, MarkPath PROVE IInv'
  <1> DEFINE line == [query |-> Head(jobs), path |-> paths]
  <1>1. /\ jobs # <<>> /\ jobs' = Tail(jobs) /\ lastline' \in {NoLine, line}
        /\ overlays' \subseteq (overlays \ {lastline}) \cup ({lastline'} \ {NoLine})
        /\ UNCHANGED <<asked, flying, paths, answers>>
    <2>1. CASE lastline' = line /\ overlays' = (overlays \ {lastline}) \cup {line}
      <3>1. line # NoLine
        <4>1. jobs # <<>> /\ Head(jobs) \in Nat /\ answers # <<>>
          BY TailLast DEF MarkPath, IInv, JobsInv
        <4>2. Last(answers) \in [query : Nat, path : Seq(City)]
          BY <4>1, SeqLast DEF IInv, JobsInv
        <4>3. paths \in Seq(City)
          BY <4>1, <4>2 DEF IInv, JobsInv
        <4> QED BY <4>1, <4>3, RoadMapAssumption DEF RoadMapAssumption
      <3> QED BY <2>1, <3>1 DEF MarkPath
    <2>2. CASE lastline' \in {NoLine, line} /\ overlays' = overlays \ {lastline}
      BY <2>2 DEF MarkPath
    <2> QED BY <2>1, <2>2 DEF MarkPath
  <1>2. overlays' \subseteq {lastline'} \ {NoLine}
    BY <1>1 DEF IInv
  <1>3. JobsInv'
    BY <1>1, TailLast DEF IInv, JobsInv
  <1>4. ASSUME jobs' = <<>>, lastline' # NoLine
        PROVE  answers' # <<>> /\ lastline' = Last(answers')
    <2>1. answers # <<>> /\ Head(jobs) = Last(answers).query /\ paths = Last(answers).path
      BY <1>1, <1>4, TailLast DEF IInv, JobsInv
    <2>2. Last(answers) \in [query : Nat, path : Seq(City)]
      BY <2>1, SeqLast DEF IInv, JobsInv
    <2>3. line = Last(answers)
      BY <2>1, <2>2
    <2>4. answers' = answers /\ lastline' = line
      BY <1>1, <1>4
    <2> QED BY <2>1, <2>3, <2>4 DEF Last
  <1> QED BY <1>2, <1>3, <1>4 DEF IInv

LEMMA StepInv == IInv /\ [Next]_vars => IInv'
  <1> SUFFICES ASSUME IInv, [Next]_vars PROVE IInv'
    OBVIOUS
  <1>1. ASSUME NEW c \in City, AddCity(c) PROVE IInv'
    BY <1>1 DEF AddCity, querying, loading, IInv, JobsInv
  <1>2. CASE ReadCities
    BY <1>2 DEF ReadCities, querying, IInv, JobsInv
  <1>3. CASE ReadRoads
    BY <1>3 DEF ReadRoads, querying, IInv, JobsInv
  <1>4. CASE LoadingFails
    BY <1>4 DEF LoadingFails, querying, IInv, JobsInv
  <1>5. CASE OnQuery
    BY <1>5, RoadMapAssumption DEF RoadMapAssumption, OnQuery, loading, IInv, JobsInv
  <1>6. ASSUME NEW q \in 1..MaxQueries, Refuse(q) PROVE IInv'
    BY <1>6 DEF Refuse, loading, IInv, JobsInv
  <1>7. CASE UNCHANGED vars
    BY <1>7 DEF vars, querying, loading, IInv, JobsInv
  <1> QED
    BY <1>1, <1>2, <1>3, <1>4, <1>5, <1>6, <1>7, AnswerInv, MarkPathInv DEF Next

\* The property of the run: at rest the map shows the last answer, and only it.
\* It needs that jobs are drawn in the order of the answers and that paths is
\* never read between an answer and the job queued with it without that job
\* still to come, which is what JobsInv says.
THEOREM MapShowsLastAnswer == Spec => []ShowsLastAnswer
  <1>1. IInv => ShowsLastAnswer
    BY DEF IInv, ShowsLastAnswer
  <1> QED BY InitInv, StepInv, <1>1, PTL DEF Spec

-----------------------------------------------------------------------------
(* The render loop.                                                        *)

Entry == [call : 1..calls, kind : {"build", "tick"}, at : {"built", "callback"}]

LoopTypeOK ==
    /\ calls \in 0..MaxCalls
    /\ current \in 0..calls
    /\ stack \in Seq(Entry)
    /\ interval \in [Call -> {"none", "on", "off"}]
    /\ under \in [Call -> SUBSET Call]

\* Nothing was built under a call to come, and it has no interval.
ToCome == \A c \in Call : c > calls => under[c] = {} /\ interval[c] = "none"

\* A call stands on the stack once, and has no interval before it returns.
BuiltOnce ==
    \A i, j \in 1..Len(stack) :
        stack[i].kind = "build" =>
            /\ interval[stack[i].call] = "none"
            /\ stack[j].kind = "build" /\ stack[i].call = stack[j].call => i = j

\* A call that another one has replaced while it was built is on record.
ReplacedInBuilding ==
    \A i \in 1..Len(stack) :
        stack[i].kind = "build" /\ stack[i].call # current =>
            \E d \in Call : stack[i].call \in under[d]

\* OneLoop is not inductive: that the loop about to be set is current, or on
\* record, was settled when the last call began.
LoopInv == LoopTypeOK /\ ToCome /\ BuiltOnce /\ ReplacedInBuilding /\ OneLoop

LEMMA LoopInitInv == LoopInit => LoopInv
  BY SvgLoopAssumption DEF LoopInit, Call, NoCall, OneLoop, LoopInv,
         LoopTypeOK, ToCome, BuiltOnce, ReplacedInBuilding

\* Stopping the current loop.
LEMMA Stopped ==
  ASSUME LoopInv, Stop
  PROVE  /\ interval' \in [Call -> {"none", "on", "off"}]
         /\ \A c \in Call : /\ interval[c] = "none" <=> interval'[c] = "none"
                            /\ interval'[c] = "on" => interval[c] = "on" /\ c # current
  BY SvgLoopAssumption DEF LoopInv, LoopTypeOK, Stop, Call, NoCall

\* A loop that is on after a call began was on record, and still is.
LEMMA OthersOnRecord ==
  ASSUME LoopInv, Stop, calls < MaxCalls,
         NEW S, under' = [under EXCEPT ![calls + 1] = S],
         NEW c \in Call, interval'[c] = "on"
  PROVE  \E d \in Call : c \in under'[d]
  <1>1. interval[c] = "on" /\ c # current
    BY Stopped
  <1>2. PICK d \in Call : c \in under[d]
    BY <1>1 DEF LoopInv, OneLoop
  <1>3. d # calls + 1
    BY <1>2 DEF LoopInv, LoopTypeOK, ToCome, Call
  <1>4. QED
    BY <1>2, <1>3 DEF LoopInv, LoopTypeOK, Call

LEMMA CallKeeps ==
  ASSUME LoopInv, NEW k, NEW shown, Canvg(k, shown)
  PROVE  LoopInv'
  <1> DEFINE c == calls + 1
             e == [call |-> c, kind |-> "build", at |-> "built"]
  <1> USE SvgLoopAssumption DEF LoopInv, LoopTypeOK
  <1>1. /\ calls < MaxCalls /\ calls' = c /\ current' = c /\ Stop
        /\ under' = [under EXCEPT ![c] = Building]
        /\ stack' = Append(stack, e)
    BY DEF Canvg
  <1>2. c \in Call /\ c \in 1..MaxCalls
    BY <1>1 DEF Call
  <1>3. \A i \in 1..Len(stack) : stack[i] \in Entry /\ stack[i].call \in 1..calls
    <2>1. \A i \in 1..Len(stack) : stack[i] \in Entry
      OBVIOUS
    <2>2. QED
      BY <2>1 DEF Entry
  <1>4. /\ stack \in Seq(Entry') /\ e \in Entry'
    <2>1. 1..calls \subseteq 1..c /\ c \in 1..c
      OBVIOUS
    <2>2. e \in Entry'
      BY <1>1, <2>1 DEF Entry
    <2>3. Entry \subseteq Entry'
      BY <1>1, <2>1 DEF Entry
    <2>4. QED
      BY <2>2, <2>3
  <1>5. /\ stack' \in Seq(Entry') /\ Len(stack') = Len(stack) + 1
        /\ stack'[Len(stack) + 1] = e
        /\ \A i \in 1..Len(stack) : stack'[i] = stack[i]
    <2> HIDE DEF e
    <2>1. QED
      BY <1>1, <1>4
  <1>6. \A i \in 1..Len(stack) : stack[i].kind = "build" => stack[i].call \in Building
    BY DEF Building
  <1>7. Building \subseteq 1..calls
    BY <1>3 DEF Building
  <1>8. LoopTypeOK'
    <2>1. under' \in [Call -> SUBSET Call]
      BY <1>1, <1>2, <1>7 DEF Call
    <2>2. QED
      BY <1>1, <1>2, <1>5, <2>1, Stopped
  <1>9. ToCome'
    BY <1>1, <1>2, Stopped DEF ToCome, Call
  <1>10. ASSUME NEW i \in 1..Len(stack'), stack'[i].kind = "build"
         PROVE  interval'[stack'[i].call] = "none"
    <2>1. CASE i \in 1..Len(stack)
      BY <1>1, <1>2, <1>3, <1>5, <1>10, <2>1, Stopped DEF BuiltOnce, Call
    <2>2. CASE i = Len(stack) + 1
      BY <1>1, <1>2, <1>5, <2>2, Stopped DEF ToCome, Call
    <2>3. QED
      BY <1>5, <2>1, <2>2
  <1>11. ASSUME NEW i \in 1..Len(stack'), NEW j \in 1..Len(stack'), stack'[i].kind = "build",
                stack'[j].kind = "build", stack'[i].call = stack'[j].call
         PROVE  i = j
    <2>1. \A n \in 1..Len(stack) : stack'[n].call # c
      BY <1>3, <1>5
    <2>2. stack'[Len(stack) + 1].call = c
      BY <1>5
    <2>3. i \in 1..Len(stack) \/ i = Len(stack) + 1
      BY <1>5
    <2>4. j \in 1..Len(stack) \/ j = Len(stack) + 1
      BY <1>5
    <2>5. CASE i \in 1..Len(stack) /\ j \in 1..Len(stack)
      BY <1>5, <1>11, <2>5 DEF BuiltOnce
    <2>6. QED
      BY <1>11, <2>1, <2>2, <2>3, <2>4, <2>5
  <1>12. ReplacedInBuilding'
    <2> SUFFICES ASSUME NEW i \in 1..Len(stack'), stack'[i].kind = "build", stack'[i].call # c
                 PROVE  \E d \in Call : stack'[i].call \in under'[d]
      BY <1>1 DEF ReplacedInBuilding
    <2>1. i \in 1..Len(stack)
      BY <1>5
    <2>2. stack'[i].call \in under'[c]
      BY <1>1, <1>2, <1>5, <1>6, <2>1
    <2>3. QED
      BY <1>2, <2>2
  <1>13. OneLoop'
    BY <1>1, OthersOnRecord DEF OneLoop, Call
  <1>14. BuiltOnce'
    BY <1>10, <1>11 DEF BuiltOnce
  <1>15. QED
    BY <1>8, <1>9, <1>12, <1>13, <1>14

\* What an exception leaves that is caught in the callback of the k-th.
LEMMA PrefixIs ==
  ASSUME LoopTypeOK, NEW k \in 0..Len(stack)
  PROVE  /\ SubSeq(stack, 1, k) \in Seq(Entry)
         /\ Len(SubSeq(stack, 1, k)) = k
         /\ \A i \in 1..k : SubSeq(stack, 1, k)[i] = stack[i]
  <1>1. Len(stack) \in Nat /\ k \in Int /\ 0 <= k /\ \A i \in 1..k : stack[i] \in Entry
    BY DEF LoopTypeOK
  <1>2. /\ SubSeq(stack, 1, k) \in Seq(Entry)
        /\ Len(SubSeq(stack, 1, k)) = IF 1 <= k THEN k - 1 + 1 ELSE 0
        /\ \A i \in 1..k - 1 + 1 : SubSeq(stack, 1, k)[i] = stack[1 + i - 1]
    BY <1>1, SubSeqProperties
  <1>3. QED
    BY <1>1, <1>2

LEMMA UrlKeeps ==
  ASSUME LoopInv, CanvgUrl
  PROVE  LoopInv'
  <1> DEFINE c == calls + 1
  <1> USE SvgLoopAssumption DEF LoopInv, LoopTypeOK
  <1>1. /\ calls < MaxCalls /\ calls' = c /\ current' = c /\ Stop
        /\ under' = [under EXCEPT ![c] = Building]
    BY DEF CanvgUrl
  <1>2. c \in Call /\ c \in 1..MaxCalls
    BY <1>1 DEF Call
  <1>3. \A i \in 1..Len(stack) : stack[i] \in Entry /\ stack[i].call \in 1..calls
    <2>1. \A i \in 1..Len(stack) : stack[i] \in Entry
      OBVIOUS
    <2>2. QED
      BY <2>1 DEF Entry
  <1>4. Building \subseteq Call /\ \A i \in 1..Len(stack) :
                                     stack[i].kind = "build" => stack[i].call \in Building
    <2>1. \A i \in 1..Len(stack) : stack[i].call \in Call
      BY <1>2, <1>3 DEF Call
    <2>2. DOMAIN stack = 1..Len(stack)
      OBVIOUS
    <2>3. QED
      BY <2>1, <2>2 DEF Building
  <1>5. PICK k \in 0..Len(stack) : stack' = SubSeq(stack, 1, k)
    BY DEF CanvgUrl
  <1>6. /\ stack' \in Seq(Entry) /\ Len(stack') = k
        /\ \A i \in 1..k : stack'[i] = stack[i] /\ i \in 1..Len(stack)
    BY <1>5, PrefixIs
  <1>7. LoopTypeOK'
    <2>1. Entry \subseteq Entry'
      <3>1. 1..calls \subseteq 1..c
        OBVIOUS
      <3>2. QED
        BY <1>1, <3>1 DEF Entry
    <2>2. stack' \in Seq(Entry')
      BY <1>6, <2>1
    <2>3. QED
      BY <1>1, <1>2, <1>4, <2>2, Stopped DEF Call
  <1>8. ToCome'
    BY <1>1, <1>2, Stopped DEF ToCome, Call
  <1>9. BuiltOnce'
    <2>1. \A i \in 1..Len(stack) : stack[i].call \in Call
      BY <1>1, <1>3 DEF Call
    <2>2. QED
      BY <1>1, <1>6, <2>1, Stopped DEF BuiltOnce
  <1>10. ReplacedInBuilding'
    <2>1. \A i \in 1..Len(stack) : stack[i].kind = "build" => stack[i].call \in under'[c]
      BY <1>1, <1>2, <1>4
    <2>2. QED
      BY <1>2, <1>6, <2>1 DEF ReplacedInBuilding
  <1>11. OneLoop'
    BY <1>1, OthersOnRecord DEF OneLoop, Call
  <1>12. QED
    BY <1>7, <1>8, <1>9, <1>10, <1>11

\* Steps that change no call on the stack: they drop the last, or its place.
LEMMA StackKeeps ==
  ASSUME LoopInv, UNCHANGED <<calls, current, interval, under>>,
         stack' \in Seq(Entry),
         \A i \in 1..Len(stack') : stack'[i].kind = "build" =>
             /\ i \in 1..Len(stack) /\ stack[i].kind = "build"
             /\ stack'[i].call = stack[i].call
  PROVE  LoopInv'
  <1> USE SvgLoopAssumption DEF LoopInv
  <1>1. Entry' = Entry
    BY DEF Entry
  <1>2. LoopTypeOK' /\ ToCome' /\ OneLoop'
    BY <1>1 DEF LoopTypeOK, ToCome, OneLoop, Call
  <1>3. BuiltOnce' /\ ReplacedInBuilding'
    BY DEF BuiltOnce, ReplacedInBuilding
  <1>4. QED
    BY <1>2, <1>3

\* What Popped leaves.
LEMMA PoppedIs ==
  ASSUME LoopTypeOK, stack # <<>>
  PROVE  /\ Len(stack) \in Nat \ {0} /\ stack[Len(stack)] \in Entry
         /\ Popped \in Seq(Entry)
         /\ Len(Popped) = Len(stack) - 1
         /\ \A i \in 1..Len(stack) - 1 : Popped[i] = stack[i]
  <1>1. Len(stack) \in Nat \ {0} /\ stack[Len(stack)] \in Entry
    BY DEF LoopTypeOK
  <1>2. Len(stack) - 1 \in 0..Len(stack) /\ Popped = SubSeq(stack, 1, Len(stack) - 1)
    BY <1>1 DEF Popped
  <1>3. QED
    BY <1>1, <1>2, PrefixIs

LEMMA SetIntervalKeeps ==
  ASSUME LoopInv, SetInterval
  PROVE  LoopInv'
  <1> DEFINE n == Len(stack)
             c == stack[n].call
  <1> USE SvgLoopAssumption DEF LoopInv
  <1>1. /\ stack # <<>> /\ stack[n].kind = "build"
        /\ interval' = [interval EXCEPT ![c] = "on"]
        /\ stack' = Popped
        /\ UNCHANGED <<calls, current, under>>
    BY DEF SetInterval, Top, Idle
  <1>2. /\ n \in Nat \ {0} /\ stack[n] \in Entry /\ stack' \in Seq(Entry)
        /\ Len(stack') = n - 1 /\ \A i \in 1..n - 1 : stack'[i] = stack[i]
    BY <1>1, PoppedIs
  <1>3. c \in 1..calls /\ c \in Call /\ n \in 1..n
    BY <1>2 DEF Entry, LoopTypeOK, Call
  <1>4. LoopTypeOK'
    <2>1. Entry' = Entry
      BY <1>1 DEF Entry
    <2>2. QED
      BY <1>1, <1>2, <2>1 DEF LoopTypeOK, Call
  <1>5. ToCome'
    BY <1>1, <1>3 DEF ToCome, LoopTypeOK, Call
  <1>6. \A i \in 1..n - 1 : stack[i].kind = "build" => stack[i].call # c
    BY <1>1, <1>2, <1>3 DEF BuiltOnce
  <1>7. BuiltOnce'
    <2>1. \A i \in 1..n - 1 : stack[i] \in Entry
      BY <1>2 DEF LoopTypeOK
    <2>2. \A i \in 1..n - 1 : stack[i].call \in Call
      BY <2>1 DEF LoopTypeOK, Entry, Call
    <2>3. QED
      BY <1>1, <1>2, <1>6, <2>2 DEF BuiltOnce, LoopTypeOK
  <1>8. ReplacedInBuilding'
    BY <1>1, <1>2 DEF ReplacedInBuilding, Call
  <1>9. c = current \/ \E d \in Call : c \in under[d]
    BY <1>1, <1>3 DEF ReplacedInBuilding
  <1>10. OneLoop'
    BY <1>1, <1>3, <1>9 DEF OneLoop, LoopTypeOK, Call
  <1>11. QED
    BY <1>4, <1>5, <1>7, <1>8, <1>10

LEMMA LoopNextInv == LoopInv /\ [LoopNext]_loopVars => LoopInv'
  <1> SUFFICES ASSUME LoopInv, [LoopNext]_loopVars
               PROVE  LoopInv'
    OBVIOUS
  <1>0. stack \in Seq(Entry)
    BY DEF LoopInv, LoopTypeOK
  <1>1. CASE FirstDraw
    <2> DEFINE n == Len(stack)
    <2>1. /\ stack # <<>> /\ stack' = [stack EXCEPT ![n].at = "callback"]
          /\ UNCHANGED <<calls, current, interval, under>>
      BY <1>1 DEF FirstDraw, Idle
    <2>2. n \in Nat \ {0} /\ stack[n] \in Entry
      BY <2>1, PoppedIs DEF LoopInv
    <2>3. [stack[n] EXCEPT !.at = "callback"] \in Entry
      BY <2>2 DEF Entry
    <2>4. /\ stack' \in Seq(Entry) /\ Len(stack') = n
          /\ \A i \in 1..n : /\ stack'[i].kind = stack[i].kind
                             /\ stack'[i].call = stack[i].call
      <3>1. stack' = [stack EXCEPT ![n] = [stack[n] EXCEPT !.at = "callback"]]
        BY <2>1
      <3>2. stack' \in Seq(Entry) /\ Len(stack') = n
        <4> DEFINE e == [stack[n] EXCEPT !.at = "callback"]
        <4>1. e \in Entry /\ stack' = [stack EXCEPT ![n] = e]
          BY <2>3, <3>1
        <4> HIDE DEF e
        <4>2. QED
          BY <1>0, <2>2, <4>1
      <3>3. \A i \in 1..n : stack[i] \in Entry
        BY <1>0
      <3>4. QED
        BY <1>0, <2>2, <3>1, <3>2, <3>3 DEF Entry
    <2>5. QED
      BY <2>1, <2>4, StackKeeps
  <1>2. CASE Return
    <2>1. /\ stack # <<>> /\ stack' = Popped
          /\ UNCHANGED <<calls, current, interval, under>>
      BY <1>2 DEF Return, InCallback, Idle
    <2>2. QED
      BY <2>1, PoppedIs, StackKeeps DEF LoopInv
  <1>3. ASSUME NEW c \in Call, NEW update \in BOOLEAN, Tick(c, update)
        PROVE  LoopInv'
    <2> DEFINE e == [call |-> c, kind |-> "tick", at |-> "callback"]
    <2>1. /\ interval[c] = "on" /\ (stack' = stack \/ stack' = <<e>>)
          /\ UNCHANGED <<calls, current, interval, under>>
      BY <1>3, Zenon DEF Tick
    <2>2. c \in 1..calls
      BY <2>1 DEF LoopInv, LoopTypeOK, ToCome, Call
    <2>3. e \in Entry
      BY <2>2 DEF Entry
    <2>4. CASE stack' = <<e>>
      <3>1. /\ stack' \in Seq(Entry) /\ Len(stack') = 1 /\ stack'[1] = e
        <4> HIDE DEF e
        <4>1. QED
          BY <2>3, <2>4
      <3>2. QED
        BY <2>1, <3>1, StackKeeps
    <2>5. CASE stack' = stack
      BY <1>0, <2>1, <2>5, StackKeeps
    <2>6. QED
      BY <2>1, <2>4, <2>5
  <1>4. CASE \/ \E c \in Call, i \in Image : ImageSettles(c, i)
             \/ MouseEvent
             \/ UNCHANGED loopVars
    <2>1. UNCHANGED <<calls, current, interval, under, stack>>
      BY <1>4 DEF ImageSettles, MouseEvent, loopVars
    <2>2. QED
      BY <1>0, <2>1, StackKeeps
  <1>5. QED
    BY <1>1, <1>2, <1>3, <1>4, CallKeeps, UrlKeeps, SetIntervalKeeps DEF LoopNext

\* canvg, stop, draw: but for a loop that was still being built, in its own
\* renderCallback, when canvg was called again, only the loop of the last call
\* draws on the canvas.
THEOREM OneLoopDraws == LoopSpec => []OneLoop
  <1>1. LoopInv => OneLoop
    BY DEF LoopInv
  <1>2. QED
    BY <1>1, LoopInitInv, LoopNextInv, PTL DEF LoopSpec

-----------------------------------------------------------------------------
(* The animations.                                                         *)

\* What an attribute can hold: a number, or what no number is.
Values == Int \cup {NaN}

\* The types of the document, of its attributes and of the state of its animations.
AnimationTypeOK ==
    /\ doc \in Documents /\ turn \in Nat
    /\ base = [x \in Attr |-> -1]
    /\ value \in [Attr -> Values]
    /\ state \in [DOMAIN doc -> [duration : Nat, initial : Values \cup {None},
                                 frozen : BOOLEAN, removed : BOOLEAN]]
    /\ parent \in [frozen : BOOLEAN, value : Values \cup {None}]
    /\ parent.frozen => parent.value \in Values

\* An animation that has its attribute to itself: the attribute is as it was until
\* the animation has remembered it; what it remembers is that; frozen and removed
\* are for an end that was reached; past the end an unremoved tween stands where
\* its clock does, and that is less than a frame beyond.
AloneInv(i) ==
    LET a == doc[i]
        s == state[i]
        v == value[a.attr]
    IN  /\ s.initial = None => v = base[a.attr]
        /\ s.initial # None => s.initial = base[a.attr]
        /\ s.frozen => a.fill = "freeze" /\ Ended(i) /\ ~a.indefinite
        /\ s.removed => a.fill = "remove" /\ Ended(i) /\ ~a.indefinite
        /\ s.removed /\ (\A j \in DOMAIN doc : doc[j].fill # "freeze") => v = base[a.attr]
        /\ ~a.list /\ Ended(i) /\ ~s.removed =>
             v = CalcValue(a, s.duration) /\ s.duration <= MaxDuration(a) + FrameTime

\* The inductive invariant: the above of every animation that is alone.
AnimationInv ==
    /\ AnimationTypeOK
    /\ parent.frozen => \E j \in DOMAIN doc : doc[j].fill = "freeze"
    /\ \A i \in DOMAIN doc : Alone(i) => AloneInv(i)

\* What the assumption on documents says of one animation.
LEMMA DocType ==
    ASSUME NEW d \in Documents, NEW i \in DOMAIN d
    PROVE  /\ d[i] \in AnimationType
           /\ Begin(d[i]) \in Nat /\ Length(d[i]) \in Nat /\ Length(d[i]) > 0
           /\ MaxDuration(d[i]) \in Nat /\ MaxDuration(d[i]) > Begin(d[i])
           /\ MaxDuration(d[i]) = Begin(d[i]) + Length(d[i])
           /\ Len(d[i].values) > 1
           /\ ~d[i].list => (d[i].values[2] - d[i].values[1]) % Length(d[i]) = 0
  <1>1. d[i] \in AnimationType
    <2>1. d \in Seq(AnimationType)
      BY AnimationAssumption
    <2> QED BY <2>1
  <1>2. \A t \in Time : ToMilliseconds(t) \in Nat
    BY DEF Time, ToMilliseconds
  <1>3. d[i].begin \in Time /\ d[i].dur \in Time
    BY <1>1 DEF AnimationType
  <1>4. Begin(d[i]) \in Nat /\ Length(d[i]) \in Nat
    BY <1>2, <1>3 DEF Begin, Length
  <1>5. /\ Length(d[i]) > 0 /\ Len(d[i].values) > 1
        /\ ~d[i].list => (d[i].values[2] - d[i].values[1]) % Length(d[i]) = 0
    BY AnimationAssumption
  <1> QED BY <1>1, <1>4, <1>5 DEF MaxDuration

\* A multiple is divided exactly.
LEMMA ProductDivided == \A q \in Int : \A n \in Nat \ {0} : (q * n) \div n = q
  <1> SUFFICES ASSUME NEW q \in Int, NEW n \in Nat \ {0} PROVE (q * n) \div n = q
    OBVIOUS
  <1> DEFINE p == q * n
             r == p \div n
  <1>1. p \in Int
    OBVIOUS
  <1> HIDE DEF p
  <1>2. r \in Int /\ n * r <= p /\ p < n * r + n
    BY <1>1
  <1> HIDE DEF r
  <1>3. n * r <= n * q /\ n * q < n * (r + 1)
    BY <1>2 DEF p
  <1>4. r <= q /\ q < r + 1
    BY <1>2, <1>3
  <1> QED BY <1>2, <1>4 DEF r, p

\* A tween that divides goes on by as much at every millisecond.
LEMMA Slope ==
    ASSUME NEW d \in Documents, NEW i \in DOMAIN d, ~d[i].list
    PROVE  \E k \in Int :
             /\ d[i].values[2] - d[i].values[1] = k * Length(d[i])
             /\ \A n \in Nat : CalcValue(d[i], n) = d[i].values[1] + k * (n - Begin(d[i]))
  <1> DEFINE L == Length(d[i])
             b == Begin(d[i])
             x == d[i].values[1]
             y == d[i].values[2]
             k == (y - x) \div L
  <1>1. L \in Nat /\ L > 0 /\ b \in Nat /\ (y - x) % L = 0
    BY DocType
  <1>2. x \in Int /\ y \in Int
    <2>1. d[i].values \in Seq(Int) /\ Len(d[i].values) > 1
      BY DocType DEF AnimationType
    <2> QED BY <2>1
  <1>3. \A n \in Nat : CalcValue(d[i], n) = x + ((y - x) * (n - b)) \div L
    BY DEF CalcValue
  <1> HIDE DEF L, b, x, y
  <1>4. k \in Int /\ y - x = L * k + ((y - x) % L)
    BY <1>1, <1>2
  <1> HIDE DEF k
  <1>5. y - x = k * L
    <2>1. L * k = k * L /\ L * k \in Int
      BY <1>1, <1>4
    <2> QED BY <1>1, <1>2, <1>4, <2>1
  <1>6. ASSUME NEW n \in Nat PROVE ((y - x) * (n - b)) \div L = k * (n - b)
    <2> DEFINE m == n - b
    <2>1. m \in Int
      BY <1>1
    <2> HIDE DEF m
    <2>2. (y - x) * m = (k * m) * L
      <3>1. (k * L) * m = (k * m) * L
        BY <2>1, <1>1, <1>4
      <3> QED BY <3>1, <1>5
    <2>3. \A q \in Int : (q * L) \div L = q
      BY <1>1, ProductDivided
    <2>4. k * m \in Int
      BY <2>1, <1>4
    <2>5. ((k * m) * L) \div L = k * m
      BY <2>3, <2>4
    <2>6. ((y - x) * m) \div L = k * m
      BY <2>2, <2>5
    <2> QED BY <2>6 DEF m
  <1> QED BY <1>3, <1>4, <1>5, <1>6 DEF L, b, x, y

\* The value at a moment is a number, or NaN where the list has run out.
LEMMA CalcType ==
    ASSUME NEW d \in Documents, NEW i \in DOMAIN d, NEW n \in Nat, Begin(d[i]) < n
    PROVE  CalcValue(d[i], n) \in Values
  <1> DEFINE L == Length(d[i])
             b == Begin(d[i])
             v == d[i].values
             segments == Len(v) - 1
             covered == (n - b) * segments
             lb == covered \div L
  <1>1. L \in Nat /\ L > 0 /\ b \in Nat /\ v \in Seq(Int) /\ Len(v) > 1
    BY DocType DEF AnimationType
  <1>2. CASE ~d[i].list
    <2>1. PICK k \in Int : CalcValue(d[i], n) = v[1] + k * (n - b)
      BY <1>2, Slope
    <2>2. v[1] \in Int /\ k * (n - b) \in Int
      BY <1>1
    <2> QED BY <2>1, <2>2 DEF Values
  <1>3. CASE d[i].list
    <2>1. CalcValue(d[i], n) = IF covered % L = 0 \/ lb >= segments THEN NaN
                 ELSE v[lb + 1] + ((v[lb + 2] - v[lb + 1]) * (covered - lb * L)) \div L
      BY <1>3 DEF CalcValue
    <2>2. segments \in Nat /\ Len(v) = segments + 1 /\ n - b \in Nat
      BY <1>1
    <2> HIDE DEF L, b, segments
    <2>3. covered \in Nat
      BY <2>2
    <2> HIDE DEF covered
    <2>4. lb \in Nat
      BY <2>3, <1>1
    <2> HIDE DEF lb
    <2>5. CASE lb < segments
      <3>1. v[lb + 1] \in Int /\ v[lb + 2] \in Int
        BY <2>2, <2>4, <2>5, <1>1
      <3> DEFINE p == (v[lb + 2] - v[lb + 1]) * (covered - lb * L)
      <3>2. p \in Int
        BY <2>3, <2>4, <3>1, <1>1
      <3> HIDE DEF p
      <3>3. p \div L \in Int
        BY <3>2, <1>1
      <3> HIDE DEF v
      <3>4. CalcValue(d[i], n) \in {NaN, v[lb + 1] + p \div L}
        BY <2>1 DEF p
      <3> QED BY <3>1, <3>3, <3>4 DEF Values
    <2>6. CASE ~(lb < segments)
      BY <2>1, <2>2, <2>4, <2>6 DEF Values
    <2> QED BY <2>5, <2>6
  <1> QED BY <1>2, <1>3

-----------------------------------------------------------------------------
\* One update leaves the document alone and moves one animation, the one whose turn it is.
LEMMA UpdateSteps ==
    ASSUME AnimationTypeOK, Update
    PROVE  \E i \in DOMAIN doc :
             /\ \/ ~Ended(i) /\ Tween(i)
                \/ Ended(i) /\ doc[i].indefinite /\ Loop(i)
                \/ Ended(i) /\ ~doc[i].indefinite /\ doc[i].fill = "freeze" /\ Freeze(i)
                \/ Ended(i) /\ ~doc[i].indefinite /\ doc[i].fill = "remove" /\ Restore(i)
                \/ Ended(i) /\ Rest(i)
             /\ UNCHANGED <<doc, base>> /\ turn' \in Nat
  <1> DEFINE i == turn + 1
  <1>1. doc \in Seq(AnimationType)
    BY AnimationAssumption DEF AnimationTypeOK
  <1>2. i \in DOMAIN doc /\ Len(doc) > 0 /\ Len(doc) \in Nat /\ i \in Nat
    BY <1>1 DEF AnimationTypeOK, Update
  <1>3. turn' \in Nat /\ UNCHANGED <<doc, base>>
    BY <1>2 DEF Update
  <1>4. IF Ended(i) THEN PastEnd(i) ELSE Tween(i)
    BY DEF Update
  <1> HIDE DEF i
  <1>5. Ended(i) => \/ doc[i].indefinite /\ Loop(i)
                    \/ ~doc[i].indefinite /\ doc[i].fill = "freeze" /\ Freeze(i)
                    \/ ~doc[i].indefinite /\ doc[i].fill = "remove" /\ Restore(i)
                    \/ Rest(i)
    BY <1>4 DEF PastEnd
  <1> QED BY <1>2, <1>3, <1>4, <1>5

\* An update keeps the types.
LEMMA TypeStep ==
    ASSUME AnimationTypeOK, NEW i \in DOMAIN doc, UNCHANGED <<doc, base>>, turn' \in Nat,
           Tween(i) \/ Loop(i) \/ Freeze(i) \/ Restore(i) \/ Rest(i)
    PROVE  AnimationTypeOK'
  <1>1. doc[i] \in AnimationType /\ doc[i].attr \in Attr
    BY DocType DEF AnimationTypeOK, AnimationType
  <1>2. Initial(i) \in Values /\ value[doc[i].attr] \in Values
    BY <1>1 DEF AnimationTypeOK, Initial
  <1>3. FrameTime \in Nat
    BY AnimationAssumption
  <1>4. \A d \in Nat, f, m \in BOOLEAN : Becomes(i, d, f, m) =>
          state' \in [DOMAIN doc -> [duration : Nat, initial : Values \cup {None},
                                     frozen : BOOLEAN, removed : BOOLEAN]]
    BY <1>2 DEF AnimationTypeOK, Becomes
  <1>5. CASE Tween(i)
    <2>1. value' \in [Attr -> Values]
      BY <1>1, <1>3, <1>5, CalcType DEF Tween, AnimationTypeOK
    <2> QED BY <1>3, <1>4, <1>5, <2>1 DEF Tween, AnimationTypeOK
  <1>6. CASE Loop(i)
    BY <1>4, <1>6 DEF Loop, AnimationTypeOK
  <1>7. CASE Freeze(i)
    BY <1>2, <1>4, <1>7 DEF Freeze, AnimationTypeOK
  <1>8. CASE Restore(i)
    BY <1>1, <1>2, <1>4, <1>8 DEF Restore, AnimationTypeOK
  <1>9. CASE Rest(i)
    BY <1>4, <1>9 DEF Rest, AnimationTypeOK
  <1> QED BY <1>5, <1>6, <1>7, <1>8, <1>9

\* An animation that has its attribute to itself keeps its invariant while
\* another one is updated.
LEMMA OtherStep ==
    ASSUME AnimationTypeOK, NEW i \in DOMAIN doc, NEW j \in DOMAIN doc, j # i,
           Alone(j), AloneInv(j), UNCHANGED <<doc, base>>,
           Tween(i) \/ Loop(i) \/ Freeze(i) \/ Restore(i) \/ Rest(i)
    PROVE  AloneInv(j)'
  <1>0. doc[j].attr \in Attr
    BY DocType DEF AnimationTypeOK, AnimationType
  <1>1. doc[i].attr # doc[j].attr
    BY DEF Alone
  <1>2. state'[j] = state[j]
    BY DEF Tween, Loop, Freeze, Restore, Rest, Becomes, AnimationTypeOK
  <1>3. value'[doc[j].attr] = value[doc[j].attr]
    <2>1. \A v : value' = [value EXCEPT ![doc[i].attr] = v]
                  => value'[doc[j].attr] = value[doc[j].attr]
      BY <1>0, <1>1 DEF AnimationTypeOK
    <2> QED BY <2>1 DEF Tween, Loop, Freeze, Restore, Rest
  <1> QED BY <1>2, <1>3 DEF AloneInv, Ended

\* An animation that has its attribute to itself keeps its invariant in its own update.
LEMMA OwnStep ==
    ASSUME AnimationInv, NEW i \in DOMAIN doc, Alone(i), UNCHANGED <<doc, base>>,
           \/ ~Ended(i) /\ Tween(i)
           \/ Ended(i) /\ doc[i].indefinite /\ Loop(i)
           \/ Ended(i) /\ ~doc[i].indefinite /\ doc[i].fill = "freeze" /\ Freeze(i)
           \/ Ended(i) /\ ~doc[i].indefinite /\ doc[i].fill = "remove" /\ Restore(i)
           \/ Ended(i) /\ Rest(i)
    PROVE  AloneInv(i)'
  <1> DEFINE a == doc[i]
             b == base[a.attr]
  <1>1. a \in AnimationType /\ a.attr \in Attr /\ MaxDuration(a) \in Nat
        /\ MaxDuration(a) > Begin(a) /\ Begin(a) \in Nat
    BY DocType DEF AnimationInv, AnimationTypeOK, AnimationType
  <1>2. b = -1 /\ b # None /\ FrameTime \in Nat
    BY <1>1, AnimationAssumption DEF AnimationInv, AnimationTypeOK
  <1>3. AloneInv(i)
    BY DEF AnimationInv
  <1>4. Initial(i) = b
    BY <1>3 DEF AloneInv, Initial
  <1>5. /\ state[i].duration \in Nat /\ state[i].frozen \in BOOLEAN
        /\ state[i].removed \in BOOLEAN /\ doc' = doc /\ base' = base
    BY DEF AnimationInv, AnimationTypeOK
  <1>6. \A d \in Nat, f, m \in BOOLEAN : Becomes(i, d, f, m) =>
          state'[i] = [duration |-> d, initial |-> b, frozen |-> f, removed |-> m]
    BY <1>4 DEF Becomes, AnimationInv, AnimationTypeOK
  <1>7. CASE ~Ended(i) /\ Tween(i)
    <2> DEFINE n == state[i].duration + FrameTime
    <2>1. state'[i] = [duration |-> n, initial |-> b, frozen |-> state[i].frozen,
                       removed |-> state[i].removed]
      BY <1>2, <1>5, <1>6, <1>7 DEF Tween
    <2>2. ~state[i].frozen /\ ~state[i].removed
      BY <1>3, <1>7 DEF AloneInv
    <2>3. n \in Nat /\ n <= MaxDuration(a) + FrameTime
      BY <1>1, <1>2, <1>5, <1>7 DEF Ended
    <2>4. n > MaxDuration(a) => value'[a.attr] = CalcValue(a, n)
      BY <1>1, <1>7, <2>3 DEF Tween, AnimationInv, AnimationTypeOK
    <2> QED BY <1>2, <1>5, <2>1, <2>2, <2>3, <2>4 DEF AloneInv, Ended
  <1>8. CASE Ended(i) /\ a.indefinite /\ Loop(i)
    <2>1. state'[i] = [duration |-> 0, initial |-> b, frozen |-> state[i].frozen,
                       removed |-> state[i].removed]
      BY <1>5, <1>6, <1>8 DEF Loop
    <2>2. ~state[i].frozen /\ ~state[i].removed
      BY <1>3, <1>8 DEF AloneInv
    <2> QED BY <1>1, <1>2, <1>5, <2>1, <2>2 DEF AloneInv, Ended
  <1>9. CASE Ended(i) /\ ~a.indefinite /\ a.fill = "freeze" /\ Freeze(i)
    <2>1. state'[i] = [duration |-> state[i].duration, initial |-> b, frozen |-> TRUE,
                       removed |-> state[i].removed] /\ value' = value
      BY <1>5, <1>6, <1>9 DEF Freeze
    <2> QED BY <1>2, <1>3, <1>5, <1>9, <2>1 DEF AloneInv, Ended
  <1>10. CASE Ended(i) /\ ~a.indefinite /\ a.fill = "remove" /\ Restore(i)
    <2>1. state'[i] = [duration |-> state[i].duration, initial |-> b,
                       frozen |-> state[i].frozen, removed |-> TRUE]
      BY <1>5, <1>6, <1>10 DEF Restore
    <2>2. (\A j \in DOMAIN doc : doc[j].fill # "freeze") => value'[a.attr] = b
      BY <1>1, <1>4, <1>10 DEF Restore, AnimationInv, AnimationTypeOK
    <2> QED BY <1>2, <1>3, <1>5, <1>10, <2>1, <2>2 DEF AloneInv, Ended
  <1>11. CASE Ended(i) /\ Rest(i)
    <2>1. state'[i] = [duration |-> state[i].duration, initial |-> b,
                       frozen |-> state[i].frozen, removed |-> state[i].removed]
          /\ value' = value
      BY <1>5, <1>6, <1>11 DEF Rest
    <2> QED BY <1>2, <1>3, <1>5, <1>11, <2>1 DEF AloneInv, Ended
  <1> QED BY <1>7, <1>8, <1>9, <1>10, <1>11

\* The invariant holds when the document is loaded.
LEMMA AnimationInvInit == AnimationInit => AnimationInv
  <1> SUFFICES ASSUME AnimationInit PROVE AnimationInv
    OBVIOUS
  <1>1. AnimationTypeOK
    BY DEF AnimationInit, AnimationTypeOK, Values
  <1>2. ASSUME NEW i \in DOMAIN doc PROVE AloneInv(i)
    <2>1. MaxDuration(doc[i]) \in Nat
      BY DocType, <1>1 DEF AnimationTypeOK
    <2> QED BY <2>1 DEF AnimationInit, AloneInv, Ended
  <1> QED BY <1>1, <1>2 DEF AnimationInit, AnimationInv

\* Every update keeps the invariant.
LEMMA AnimationInvNext == AnimationInv /\ [Update]_animationVars => AnimationInv'
  <1>1. ASSUME AnimationInv, Update PROVE AnimationInv'
    <2>1. AnimationTypeOK
      BY <1>1 DEF AnimationInv
    <2>2. PICK i \in DOMAIN doc :
             /\ \/ ~Ended(i) /\ Tween(i)
                \/ Ended(i) /\ doc[i].indefinite /\ Loop(i)
                \/ Ended(i) /\ ~doc[i].indefinite /\ doc[i].fill = "freeze" /\ Freeze(i)
                \/ Ended(i) /\ ~doc[i].indefinite /\ doc[i].fill = "remove" /\ Restore(i)
                \/ Ended(i) /\ Rest(i)
             /\ UNCHANGED <<doc, base>> /\ turn' \in Nat
      BY <1>1, <2>1, UpdateSteps
    <2>3. Tween(i) \/ Loop(i) \/ Freeze(i) \/ Restore(i) \/ Rest(i)
      BY <2>2
    <2>4. AnimationTypeOK'
      BY <2>1, <2>2, <2>3, TypeStep
    <2>5. parent'.frozen => \E j \in DOMAIN doc : doc[j].fill = "freeze"
      BY <1>1, <2>2 DEF AnimationInv, Tween, Loop, Freeze, Restore, Rest
    <2>6. ASSUME NEW j \in DOMAIN doc, Alone(j) PROVE AloneInv(j)'
      <3>1. AloneInv(j)
        BY <1>1, <2>6 DEF AnimationInv
      <3>2. CASE j = i
        BY <1>1, <2>2, <2>6, <3>2, OwnStep
      <3>3. CASE j # i
        BY <2>1, <2>2, <2>3, <2>6, <3>1, <3>3, OtherStep
      <3> QED BY <3>2, <3>3
    <2>7. \A j \in DOMAIN doc' : Alone(j)' => AloneInv(j)'
      BY <2>2, <2>6 DEF Alone
    <2> QED BY <2>2, <2>4, <2>5, <2>7 DEF AnimationInv
  <1>2. ASSUME AnimationInv, UNCHANGED animationVars PROVE AnimationInv'
    BY <1>2 DEF AnimationInv, AnimationTypeOK, animationVars, Alone, AloneInv, Ended
  <1> QED BY <1>1, <1>2

\* Beyond the end a tween is off the last value by what it covers in less than a frame.
LEMMA BeyondEnd ==
    ASSUME NEW d \in Documents, NEW i \in DOMAIN d, ~d[i].list, NEW n \in Nat,
           n > MaxDuration(d[i]), n <= MaxDuration(d[i]) + FrameTime
    PROVE  Abs(CalcValue(d[i], n) - To(d[i])) * Length(d[i])
             <= Abs(To(d[i]) - d[i].values[1]) * FrameTime
  <1> DEFINE L == Length(d[i])
             x == d[i].values[1]
             y == d[i].values[2]
             over == n - MaxDuration(d[i])
  <1>1. PICK k \in Int : y - x = k * L
                         /\ CalcValue(d[i], n) = x + k * (n - Begin(d[i]))
    BY Slope
  <1>2. L \in Nat /\ L > 0 /\ Begin(d[i]) \in Nat /\ FrameTime \in Nat
        /\ MaxDuration(d[i]) = Begin(d[i]) + L
    BY DocType, AnimationAssumption
  <1>3. x \in Int /\ y \in Int
    <2>1. d[i].values \in Seq(Int) /\ Len(d[i].values) > 1
      BY DocType DEF AnimationType
    <2> QED BY <2>1
  <1>4. over \in Nat /\ over <= FrameTime /\ n - Begin(d[i]) = L + over
    BY <1>2
  <1> DEFINE c == CalcValue(d[i], n)
  <1>5. To(d[i]) = y
    BY DEF To
  <1> HIDE DEF L, x, y, over, c
  <1>6. c - y = k * over
    <2>1. c = x + k * (L + over)
      BY <1>1, <1>4 DEF c
    <2>2. k * (L + over) = k * L + k * over
      BY <1>2, <1>4
    <2>3. k * L \in Int /\ k * over \in Int
      BY <1>2, <1>4
    <2> QED BY <1>1, <1>3, <2>1, <2>2, <2>3
  <1>7. \A p, q \in Int : q >= 0 => Abs(p * q) = Abs(p) * q /\ Abs(p) \in Nat
    BY DEF Abs
  <1>8. Abs(c - y) = Abs(k) * over /\ Abs(y - x) = Abs(k) * L /\ Abs(k) \in Nat
    BY <1>1, <1>2, <1>4, <1>6, <1>7
  <1>9. (Abs(k) * over) * L <= (Abs(k) * L) * FrameTime
    <2> DEFINE m == Abs(k) * L
    <2>1. m \in Nat /\ (Abs(k) * over) * L = m * over
      BY <1>2, <1>4, <1>8
    <2> HIDE DEF m
    <2>2. m * over <= m * FrameTime
      BY <1>2, <1>4, <2>1
    <2> QED BY <2>1, <2>2 DEF m
  <1>10. Abs(c - y) * L <= Abs(y - x) * FrameTime
    BY <1>8, <1>9
  <1> QED BY <1>5, <1>10 DEF L, x, y, c

\* The invariant says that an animation ends as its fill asks.
LEMMA AnimationsEndAsAsked == AnimationInv => EndsAsAsked
  <1> SUFFICES ASSUME AnimationInv, NEW i \in DOMAIN doc, Alone(i)
               PROVE  /\ state[i].removed /\ (\A j \in DOMAIN doc : doc[j].fill # "freeze") =>
                           value[doc[i].attr] = base[doc[i].attr]
                      /\ state[i].frozen /\ ~doc[i].list =>
                           Abs(value[doc[i].attr] - To(doc[i])) * Length(doc[i])
                             <= Abs(To(doc[i]) - doc[i].values[1]) * FrameTime
    BY DEF EndsAsAsked
  <1>1. AloneInv(i)
    BY DEF AnimationInv
  <1>2. ASSUME state[i].frozen, ~doc[i].list
        PROVE  Abs(value[doc[i].attr] - To(doc[i])) * Length(doc[i])
                 <= Abs(To(doc[i]) - doc[i].values[1]) * FrameTime
    <2>1. state[i].duration \in Nat /\ doc \in Documents
      BY DEF AnimationInv, AnimationTypeOK
    <2>2. Ended(i) /\ ~state[i].removed
      BY <1>1, <1>2 DEF AloneInv
    <2>3. value[doc[i].attr] = CalcValue(doc[i], state[i].duration)
          /\ state[i].duration <= MaxDuration(doc[i]) + FrameTime
      BY <1>1, <1>2, <2>2 DEF AloneInv
    <2> QED BY <1>2, <2>1, <2>2, <2>3, BeyondEnd DEF Ended
  <1> QED BY <1>1, <1>2 DEF AloneInv

\* An animation that has its attribute to itself ends as its fill attribute asks,
\* for any document, any values and any length of a frame: EndsAsAsked of the run.
THEOREM AnimationsEndAsked == AnimationSpec => []EndsAsAsked
  <1>1. AnimationSpec => []AnimationInv
    BY AnimationInvInit, AnimationInvNext, PTL DEF AnimationSpec
  <1> QED BY <1>1, AnimationsEndAsAsked, PTL
=============================================================================
