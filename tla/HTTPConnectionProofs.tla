------------------------- MODULE HTTPConnectionProofs -------------------------
(***************************************************************************)
(* What the connection answers is what was asked for: AnswerIsAsked for    *)
(* every table of requests, every resource and every limit.  The argument: *)
(* at any time one thing only can call the connection on, a read that      *)
(* waits, a call that is queued, or the last piece of what it wrote        *)
(* (OneTurn), and it says how far the answer has come (Begun).             *)
(***************************************************************************)
EXTENDS HTTPConnection, QueueLemmas, FunctionTheorems

\* The calls that the connection goes on from; a header only precedes what it goes on from.
Turns(tag) == tag # "HTTP_PARTIAL_RESPONSE_HEADER"
Turn(call) == call.do = "didRead" \/ (call.do = "didWrite" /\ Turns(call.with))

Entries(queue) == {queue[i] : i \in DOMAIN queue}
NoTurn(queue) == \A i \in DOMAIN queue : ~Turn(queue[i])
SingleTurn(queue) ==
    \A i, j \in DOMAIN queue : Turn(queue[i]) /\ Turn(queue[j]) => i = j
NoEnd(queue) == \A i \in DOMAIN queue : queue[i].do # "didDisconnect"
EndIsLast(queue) ==
    \A i, j \in DOMAIN queue : queue[i].do = "didDisconnect" /\ Turn(queue[j]) => j < i
TagsIn(pieces) == {pieces[i].tag : i \in DOMAIN pieces}
TurnIsLast(pieces) == \A i \in DOMAIN pieces : Turns(pieces[i].tag) => i = Len(pieces)

OneTurn ==
    /\ SingleTurn(connectionQueue) /\ TurnIsLast(writes)
    /\ reading \/ ~NoTurn(connectionQueue) => writes = <<>>
    /\ reading => NoTurn(connectionQueue)

\* A socket that is closed neither reads nor writes, and says so last.
ClosedIsLast ==
    /\ ~open => ~reading /\ writes = <<>>
    /\ open => NoEnd(connectionQueue)
    /\ EndIsLast(connectionQueue)

SocketInv == SocketTypeOK /\ OneTurn /\ ClosedIsLast

\* Between two answers, and while header lines come.
AtRest == reading \/ \E call \in Entries(connectionQueue) : call.do = "didRead"
RestInv ==
    AtRest => /\ httpResponse = Nil /\ responseDataSizes = <<>>
              /\ numHeaderLines <= MAX_HEADER_LINES

\* What an answer sends: the ranges, or all of the resource as one.
Todo(found, length) ==
    IF found = <<>> THEN <<[location |-> 0, length |-> length]>> ELSE found
At == IF ranges = <<>> THEN 1 ELSE rangeIndex
PartOf(found) ==
    IF found = <<>> THEN "HTTP_PARTIAL_RESPONSE_BODY"
    ELSE IF Len(found) = 1 THEN "HTTP_PARTIAL_RANGE_RESPONSE_BODY"
    ELSE "HTTP_PARTIAL_RANGES_RESPONSE_BODY"
Marks(found, k) == IF Len(found) > 1 THEN k ELSE 0

\* The bytes of the ranges before the k-th, and of that one up to a place.
Covered(todo, k, upTo) ==
    {b \in Nat : \E i \in DOMAIN todo :
        \/ i < k /\ todo[i].location <= b /\ b < DDMaxRange(todo[i])
        \/ i = k /\ todo[i].location <= b /\ b < upTo}

\* The ranges that are found, in their order: each one ends where the next one begins.
LayOut(found, length) ==
    /\ found \in Seq(Ranges)
    /\ \A i \in DOMAIN found : DDMaxRange(found[i]) <= length
    /\ \A i, j \in DOMAIN found : i < j => DDMaxRange(found[i]) <= found[j].location
Spans(found) ==
    {b \in Nat : \E i \in DOMAIN found : found[i].location <= b /\ b < DDMaxRange(found[i])}

\* How far an answer has come: the body has all bytes before a place of the k-th range.
Stage(found, length, k, at, units) ==
    LET todo == Todo(found, length)
    IN  /\ LayOut(found, length) /\ k \in DOMAIN todo /\ at \in Nat
        /\ todo[k].location <= at /\ at <= DDMaxRange(todo[k])
        /\ units \in Seq(Units) /\ Ascending(units) /\ BoundariesInFront(units)
        /\ BytesOf(units) = Covered(todo, k, at)
        /\ Len(units) = Sums(todo)[k - 1] + (at - todo[k].location) + Marks(found, k)

Target == Says[request].target
Given ==
    /\ request \in Requests /\ Supported(request) /\ Target \in DOMAIN Length
    /\ httpResponse.target = Target
    /\ ranges \in ParseRangeRequest(Says[request].ranges, Length[Target])
    /\ declared = ContentLength(ranges, Length[Target])

\* What the next unit has to agree with: a boundary names the byte behind it.
EndsInByte(units) == units # <<>> /\ units[Len(units)].of = "byte"
FitsAt(units, at) ==
    units # <<>> => \/ units[Len(units)].of # "boundary"
                    \/ units[Len(units)].at = at

\* An answer of which the piece before is on its way.
Begun(tag) ==
    LET todo == Todo(ranges, Length[Target])
        at   == httpResponse.offset
    IN  /\ httpResponse # Nil /\ ~HeadOnly(request) /\ tag = PartOf(ranges)
        /\ Len(responseDataSizes) = 1
        /\ Stage(ranges, Length[Target], At, at, body)
        /\ tag # "HTTP_PARTIAL_RANGES_RESPONSE_BODY" => at < DDMaxRange(todo[At])
        /\ EndsInByte(body)
Complete ==
    /\ BytesOf(body) = Asked(request)
    /\ Says[request].method # "HEAD" => Len(body) = declared \/ RangesOfNothing

AnswerInv ==
    /\ httpResponse # Nil =>
          /\ Given
          /\ BytesOf(body) \subseteq Asked(request)
          /\ Ascending(body) /\ BoundariesInFront(body)
    /\ \A tag \in Tags : OnItsWay(tag) /\ Turns(tag) =>
          IF tag \in Final THEN httpResponse # Nil => Complete ELSE Begun(tag)

IInv == SocketInv /\ AnswerTypeOK /\ RestInv /\ AnswerInv
-----------------------------------------------------------------------------
(* The queue and the socket.                                               *)

LEMMA CallsAre ==
    /\ \A line \in Requests \cup {"more", "bad"} :
          /\ Call("didRead", line) \in Calls /\ Turn(Call("didRead", line))
          /\ Call("didRead", line).do # "didDisconnect"
    /\ \A tag \in Tags :
          /\ Call("didWrite", tag) \in Calls /\ Call("didWrite", tag).do # "didDisconnect"
          /\ Turn(Call("didWrite", tag)) <=> Turns(tag)
    /\ Call("abort", "") \in Calls /\ ~Turn(Call("abort", ""))
    /\ Call("abort", "").do # "didDisconnect"
    /\ Call("didDisconnect", "") \in Calls /\ ~Turn(Call("didDisconnect", ""))
    /\ Call("didDisconnect", "").do = "didDisconnect"
BY DEF Call, Calls, Turn

LEMMA ServedQueue ==
    ASSUME NEW q \in Seq(Calls), q # <<>>, NEW r, r = Tail(q)
    PROVE  /\ r \in Seq(Calls) /\ Head(q) = q[1] /\ Head(q) \in Calls
           /\ SingleTurn(q) => SingleTurn(r)
           /\ SingleTurn(q) /\ Turn(Head(q)) => NoTurn(r)
           /\ NoTurn(q) => NoTurn(r)
           /\ NoEnd(q) => NoEnd(r)
           /\ EndIsLast(q) => EndIsLast(r)
           /\ EndIsLast(q) /\ Head(q).do = "didDisconnect" => NoTurn(r)
           /\ Entries(r) \subseteq Entries(q)
           /\ Turn(Head(q)) => ~NoTurn(q)
<1> DEFINE S == Calls
<1> HIDE DEF S
<1>1. q \in Seq(S)
  BY DEF S
<1>2. /\ 1 \in DOMAIN q /\ Head(q) = q[1]
      /\ \A i \in DOMAIN r : /\ i \in Nat /\ i + 1 \in DOMAIN q /\ 1 < i + 1
                             /\ r[i] = q[i + 1]
  BY <1>1, TailIndex
<1>3. r \in Seq(S) /\ Head(q) \in S
  BY <1>1, EmptySeq, HeadTailProperties, <1>2, ElementOfSeq, LenProperties
<1>4. SingleTurn(q) => SingleTurn(r)
  BY <1>2 DEF SingleTurn
<1>5. SingleTurn(q) /\ Turn(Head(q)) => NoTurn(r)
  BY <1>2 DEF SingleTurn, NoTurn
<1>6. (NoTurn(q) => NoTurn(r)) /\ (NoEnd(q) => NoEnd(r))
  BY <1>2 DEF NoTurn, NoEnd
<1>7. EndIsLast(q) => EndIsLast(r)
  BY <1>2 DEF EndIsLast
<1>8. EndIsLast(q) /\ Head(q).do = "didDisconnect" => NoTurn(r)
  BY <1>2 DEF EndIsLast, NoTurn
<1>9. Turn(Head(q)) => ~NoTurn(q)
  BY <1>2 DEF NoTurn
<1>10. Entries(r) \subseteq Entries(q)
  BY <1>2 DEF Entries
<1> QED BY <1>2, <1>3, <1>4, <1>5, <1>6, <1>7, <1>8, <1>9, <1>10 DEF S

LEMMA LongerQueue ==
    ASSUME NEW q \in Seq(Calls), NEW e \in Calls, NEW r, r = Append(q, e) \/ r = q \o <<e>>
    PROVE  /\ r \in Seq(Calls)
           /\ NoTurn(q) => SingleTurn(r)
           /\ ~Turn(e) => (SingleTurn(q) => SingleTurn(r)) /\ (NoTurn(q) => NoTurn(r))
           /\ NoEnd(q) /\ e.do # "didDisconnect" => NoEnd(r)
           /\ NoEnd(q) => EndIsLast(r)
           /\ EndIsLast(q) /\ ~Turn(e) => EndIsLast(r)
           /\ Entries(r) \subseteq Entries(q) \cup {e}
<1> DEFINE S == Calls
<1> HIDE DEF S
<1>1. q \in Seq(S) /\ e \in S
  BY DEF S
<1>2. r = Append(q, e) /\ r \in Seq(S)
  BY <1>1, AppendIsConcat, AppendProperties
<1>3. /\ Len(q) \in Nat /\ DOMAIN q = 1..Len(q) /\ DOMAIN r = 1..(Len(q) + 1)
      /\ \A i \in DOMAIN q : r[i] = q[i]
      /\ r[Len(q) + 1] = e
  BY <1>1, <1>2, AppendIndex
<1>4. \A i \in DOMAIN r : /\ i \in Nat
                          /\ \/ i \in DOMAIN q /\ r[i] = q[i] /\ i < Len(q) + 1
                             \/ i = Len(q) + 1 /\ r[i] = e
  BY <1>3
<1>5. NoTurn(q) => SingleTurn(r)
  BY <1>4 DEF NoTurn, SingleTurn
<1>6. ~Turn(e) => (SingleTurn(q) => SingleTurn(r)) /\ (NoTurn(q) => NoTurn(r))
  BY <1>4 DEF NoTurn, SingleTurn
<1>7. NoEnd(q) /\ e.do # "didDisconnect" => NoEnd(r)
  BY <1>4 DEF NoEnd
<1>8. NoEnd(q) => EndIsLast(r)
  <2> SUFFICES ASSUME NoEnd(q), NEW i \in DOMAIN r, NEW j \in DOMAIN r,
                      r[i].do = "didDisconnect", Turn(r[j])
               PROVE  j < i
    BY DEF EndIsLast
  <2>1. i = Len(q) + 1 /\ e.do = "didDisconnect"
    BY <1>4 DEF NoEnd
  <2>2. r[j] # e
    BY <2>1 DEF Turn
  <2> QED BY <2>1, <2>2, <1>4
<1>9. EndIsLast(q) /\ ~Turn(e) => EndIsLast(r)
  <2> SUFFICES ASSUME EndIsLast(q), ~Turn(e), NEW i \in DOMAIN r, NEW j \in DOMAIN r,
                      r[i].do = "didDisconnect", Turn(r[j])
               PROVE  j < i
    BY DEF EndIsLast
  <2>1. j \in DOMAIN q /\ r[j] = q[j] /\ j < Len(q) + 1
    BY <1>4
  <2> QED BY <2>1, <1>4 DEF EndIsLast
<1>10. Entries(r) \subseteq Entries(q) \cup {e}
  BY <1>4 DEF Entries
<1> QED BY <1>2, <1>5, <1>6, <1>7, <1>8, <1>9, <1>10 DEF S

\* An empty queue has no places.
LEMMA EmptyHasNone == DOMAIN <<>> = {} /\ TurnIsLast(<<>>) /\ <<>> \in Seq(Pieces)
<1>1. DOMAIN <<>> = {}
  OBVIOUS
<1> QED BY <1>1, EmptySeq DEF TurnIsLast

\* A piece that calls the connection on, or the call, with this tag.
LEMMA OnItsWayIs ==
    ASSUME NEW tag \in Tags, Turns(tag)
    PROVE  /\ NoTurn(connectionQueue) /\ OnItsWay(tag) => \E i \in DOMAIN writes : writes[i].tag = tag
           /\ OnItsWay(tag) => writes # <<>> \/ ~NoTurn(connectionQueue)
<1>1. Turn(Call("didWrite", tag))
  BY CallsAre
<1>2. NoTurn(connectionQueue) /\ OnItsWay(tag) => \E i \in DOMAIN writes : writes[i].tag = tag
  BY <1>1 DEF OnItsWay, NoTurn
<1>3. OnItsWay(tag) => writes # <<>> \/ ~NoTurn(connectionQueue)
  <2> QED BY <1>2, EmptyHasNone
<1> QED BY <1>2, <1>3

\* A handler that leaves the socket as it is.
LEMMA Serves ==
    ASSUME SocketInv, connectionQueue # <<>>, connectionQueue' = Tail(connectionQueue),
           UNCHANGED socket
    PROVE  SocketInv'
<1> USE DEF SocketInv, SocketTypeOK, OneTurn, ClosedIsLast, socket
<1>1. /\ connectionQueue' \in Seq(Calls) /\ SingleTurn(connectionQueue')
      /\ NoTurn(connectionQueue) => NoTurn(connectionQueue')
      /\ NoEnd(connectionQueue) => NoEnd(connectionQueue') /\ EndIsLast(connectionQueue')
      /\ EndIsLast(connectionQueue')
  BY ServedQueue
<1> QED BY <1>1

\* The socket goes; the calls that are queued are still made.
LEMMA Closes ==
    ASSUME SocketInv, NEW calls \in Seq(Calls), Close(calls), SingleTurn(calls),
           open => NoEnd(calls), EndIsLast(calls)
    PROVE  /\ SocketInv' /\ ~reading' /\ writes' = <<>>
           /\ NoTurn(calls) => NoTurn(connectionQueue')
           /\ Entries(connectionQueue)' \subseteq Entries(calls) \cup {Call("didDisconnect", "")}
<1> DEFINE e == Call("didDisconnect", "")
<1>1. e \in Calls /\ ~Turn(e) /\ e.do = "didDisconnect"
  BY CallsAre
<1> HIDE DEF e
<1>2. CASE open
  <2>1. connectionQueue' = calls \o <<e>>
    BY <1>2 DEF e, Close
  <2>2. PICK r : r = calls \o <<e>>
    OBVIOUS
  <2>4. /\ r \in Seq(Calls) /\ SingleTurn(r) /\ (NoTurn(calls) => NoTurn(r))
        /\ EndIsLast(r)
        /\ Entries(r) \subseteq Entries(calls) \cup {e}
    <3>1. /\ r \in Seq(Calls)
          /\ ~Turn(e) => (SingleTurn(calls) => SingleTurn(r)) /\ (NoTurn(calls) => NoTurn(r))
          /\ NoEnd(calls) => EndIsLast(r)
          /\ Entries(r) \subseteq Entries(calls) \cup {e}
      BY <2>2, <1>1, LongerQueue
    <3>2. SingleTurn(calls) /\ NoEnd(calls)
      BY <1>2
    <3> QED BY <3>1, <3>2, <1>1
  <2>5. connectionQueue' = r
    BY <2>1, <2>2
  <2>3. ~open' /\ ~reading' /\ writes' = <<>> /\ {open', reading', closing'} \subseteq BOOLEAN
    BY DEF Close, SocketInv, SocketTypeOK
  <2> QED BY <2>4, <2>5, <2>3, EmptyHasNone DEF e, SocketInv, SocketTypeOK, OneTurn, ClosedIsLast
<1>3. CASE ~open
  <2>1. connectionQueue' = calls
    BY <1>3, ConcatEmptySeq DEF Close
  <2>2. ~open' /\ ~reading' /\ writes' = <<>> /\ {open', reading', closing'} \subseteq BOOLEAN
    BY DEF Close, SocketInv, SocketTypeOK
  <2> QED BY <2>1, <2>2, <1>3, EmptyHasNone DEF SocketInv, SocketTypeOK, OneTurn, ClosedIsLast
<1> QED BY <1>2, <1>3

\* A call that the connection goes on from is handled, and the next read is asked for.
LEMMA ReadsOn ==
    ASSUME SocketInv, connectionQueue # <<>>, Turn(Head(connectionQueue)),
           connectionQueue' = Tail(connectionQueue), reading' = open,
           UNCHANGED <<open, writes, closing>>
    PROVE  SocketInv' /\ NoTurn(connectionQueue') /\ writes' = <<>>
<1> USE DEF SocketInv, SocketTypeOK, OneTurn, ClosedIsLast
<1>1. /\ connectionQueue' \in Seq(Calls) /\ SingleTurn(connectionQueue')
      /\ NoTurn(connectionQueue') /\ ~NoTurn(connectionQueue)
      /\ NoEnd(connectionQueue) => NoEnd(connectionQueue')
      /\ EndIsLast(connectionQueue')
  BY ServedQueue
<1> QED BY <1>1

\* It is handled, and pieces are written, only the last of which calls the connection on.
LEMMA GoesOn ==
    ASSUME SocketInv, connectionQueue # <<>>, Turn(Head(connectionQueue)),
           NEW pieces \in Seq(Pieces), TurnIsLast(pieces), Writes(pieces),
           \/ connectionQueue' = Tail(connectionQueue)
           \/ connectionQueue' = Tail(connectionQueue) \o <<Call("abort", "")>>,
           UNCHANGED <<open, reading, closing>>
    PROVE  /\ SocketInv' /\ NoTurn(connectionQueue') /\ ~reading'
           /\ \A tag \in Tags : Turns(tag) /\ OnItsWay(tag)' => tag \in TagsIn(pieces)
<1> USE DEF SocketInv, SocketTypeOK, OneTurn, ClosedIsLast
<1> DEFINE e == Call("abort", "")
           t == Tail(connectionQueue)
<1>1. e \in Calls /\ ~Turn(e) /\ e.do # "didDisconnect"
  BY CallsAre
<1>2. /\ t \in Seq(Calls) /\ SingleTurn(t) /\ NoTurn(t) /\ ~NoTurn(connectionQueue)
      /\ NoEnd(connectionQueue) => NoEnd(t)
      /\ EndIsLast(t)
  BY ServedQueue
<1> HIDE DEF e
<1>3. /\ connectionQueue' \in Seq(Calls) /\ SingleTurn(connectionQueue')
      /\ NoTurn(connectionQueue') /\ (NoEnd(t) => NoEnd(connectionQueue'))
      /\ EndIsLast(connectionQueue')
  <2>1. CASE connectionQueue' = t
    BY <2>1, <1>2
  <2>2. CASE connectionQueue' = t \o <<e>>
    <3> HIDE DEF t
    <3> QED BY <2>2, <1>1, <1>2, LongerQueue
  <2> QED BY <2>1, <2>2 DEF e
<1>4. writes = <<>> /\ ~reading
  BY <1>2
<1>5. writes' = IF open /\ ~closing THEN pieces ELSE <<>>
  <2>1. <<>> \o pieces = pieces
    BY ConcatEmptySeq
  <2> QED BY <1>4, <2>1 DEF Writes
<1>6. writes' \in Seq(Pieces) /\ TurnIsLast(writes')
  <2>1. CASE open /\ ~closing
    BY ONLY <1>5, <2>1, pieces \in Seq(Pieces), TurnIsLast(pieces)
  <2>2. CASE ~(open /\ ~closing)
    BY ONLY <1>5, <2>2, EmptyHasNone
  <2> QED BY <2>1, <2>2
<1>7. SocketInv'
  <2>1. OneTurn'
    BY <1>3, <1>4, <1>6
  <2>2. ClosedIsLast'
    <3> HIDE DEF t
    <3>1. NoEnd(t) => NoEnd(connectionQueue)'
      BY <1>3
    <3> QED BY <1>2, <1>3, <1>4, <1>5, <3>1
  <2> QED BY <1>3, <1>6, <2>1, <2>2
<1>8. ASSUME NEW tag \in Tags, Turns(tag), OnItsWay(tag)'
      PROVE  tag \in TagsIn(pieces)
  <2>1. Turn(Call("didWrite", tag))
    BY <1>8, CallsAre
  <2>2. \E i \in DOMAIN writes' : writes'[i].tag = tag
    BY <1>3, <1>8, <2>1 DEF OnItsWay, NoTurn
  <2> QED BY <1>5, <2>2, EmptyHasNone DEF TagsIn
<1> QED BY <1>3, <1>4, <1>7, <1>8
-----------------------------------------------------------------------------
(* The actions that leave the answer as it is.                             *)

LEMMA AnswerKept ==
    ASSUME IInv, SocketInv', UNCHANGED <<request, answer>>, heard' \in 0..MaxRequests,
           numHeaderLines' \in 0..MAX_HEADER_LINES + 1,
           AtRest' => AtRest /\ numHeaderLines' <= MAX_HEADER_LINES,
           \A tag \in Tags : Turns(tag) /\ OnItsWay(tag)' => OnItsWay(tag)
    PROVE  IInv'
<1>1. AnswerTypeOK'
  BY DEF IInv, AnswerTypeOK, answer
<1>2. RestInv'
  BY DEF IInv, RestInv, answer
<1>3. (httpResponse # Nil =>
          /\ Given
          /\ BytesOf(body) \subseteq Asked(request)
          /\ Ascending(body) /\ BoundariesInFront(body))'
  BY DEF IInv, AnswerInv, Given, Target, answer
<1>4. Complete' <=> Complete
  BY DEF Complete, RangesOfNothing, answer
<1>5. ASSUME NEW tag PROVE Begun(tag)' <=> Begun(tag)
  BY DEF Begun, At, Target, answer
<1>6. ASSUME NEW tag \in Tags, OnItsWay(tag)', Turns(tag)
      PROVE  (IF tag \in Final THEN httpResponse # Nil => Complete ELSE Begun(tag))'
  <2>1. IF tag \in Final THEN httpResponse # Nil => Complete ELSE Begun(tag)
    BY <1>6 DEF IInv, AnswerInv
  <2> QED BY <2>1, <1>4, <1>5 DEF answer
<1> QED BY <1>1, <1>2, <1>3, <1>6 DEF IInv, AnswerInv

LEMMA OnItsWayIn ==
    ASSUME NEW tag
    PROVE  /\ OnItsWay(tag) <=> \/ \E i \in DOMAIN writes : writes[i].tag = tag
                                \/ Call("didWrite", tag) \in Entries(connectionQueue)
           /\ OnItsWay(tag)' <=> \/ \E i \in DOMAIN writes' : writes'[i].tag = tag
                                 \/ Call("didWrite", tag) \in Entries(connectionQueue')
BY DEF OnItsWay, Entries

LEMMA LineArrivesStep ==
    ASSUME IInv, NEW line \in Requests \cup {"more", "bad"}, LineArrives(line)
    PROVE  IInv'
<1> DEFINE e == Call("didRead", line)
<1>1. e \in Calls /\ Turn(e) /\ e.do = "didRead" /\ \A tag : Call("didWrite", tag) # e
  BY CallsAre DEF Call
<1> HIDE DEF e
<1>2. /\ SocketInv /\ reading /\ connectionQueue \in Seq(Calls) /\ NoTurn(connectionQueue)
      /\ open /\ NoEnd(connectionQueue) /\ writes = <<>>
  BY DEF IInv, SocketInv, SocketTypeOK, LineArrives, OneTurn, ClosedIsLast
<1>3. connectionQueue' = Append(connectionQueue, e)
  BY DEF LineArrives, e
<1>4. /\ connectionQueue' \in Seq(Calls) /\ SingleTurn(connectionQueue')
      /\ NoEnd(connectionQueue') /\ EndIsLast(connectionQueue')
      /\ Entries(connectionQueue') \subseteq Entries(connectionQueue) \cup {e}
  BY <1>1, <1>2, <1>3, LongerQueue
<1>5. SocketInv'
  BY <1>2, <1>4 DEF LineArrives, SocketInv, SocketTypeOK, OneTurn, ClosedIsLast
<1>6. AtRest' => AtRest /\ numHeaderLines' <= MAX_HEADER_LINES
  BY <1>2 DEF AtRest, IInv, RestInv, LineArrives
<1>7. ASSUME NEW tag \in Tags, Turns(tag), OnItsWay(tag)' PROVE OnItsWay(tag)
  BY <1>1, <1>4, <1>7, OnItsWayIn DEF LineArrives
<1>8. heard' \in 0..MaxRequests /\ numHeaderLines' \in 0..MAX_HEADER_LINES + 1
  BY BoundAssumption DEF LineArrives, IInv, AnswerTypeOK
<1> QED BY <1>5, <1>6, <1>7, <1>8, AnswerKept DEF LineArrives

\* Behind the only entry of a queue there is none.
LEMMA OneIsLast ==
    ASSUME NEW S, NEW s \in Seq(S), Len(s) = 1
    PROVE  Tail(s) = <<>>
<1>1. s # <<>>
  BY EmptySeq
<1> DEFINE t == Tail(s)
<1>2. t \in Seq(S) /\ Len(t) = 0
  BY <1>1, HeadTailProperties
<1> HIDE DEF t
<1> QED BY <1>2, EmptySeq DEF t

LEMMA OneAtMost ==
    ASSUME NEW S, NEW s \in Seq(S), Len(s) <= 1
    PROVE  s = <<>> \/ (Len(s) = 1 /\ Tail(s) = <<>>)
<1> DEFINE n == Len(s)
<1>1. n \in Nat /\ (n = 0 => s = <<>>)
  BY EmptySeq, LenProperties
<1>2. n <= 1
  OBVIOUS
<1>3. n = 1 => Tail(s) = <<>>
  BY OneIsLast
<1> HIDE DEF n
<1>4. n = 0 \/ n = 1
  BY <1>1, <1>2
<1> QED BY <1>1, <1>3, <1>4 DEF n

LEMMA CompleteCurrentWriteStep ==
    ASSUME IInv, CompleteCurrentWrite
    PROVE  IInv'
<1> DEFINE e == Call("didWrite", Head(writes).tag)
           calls == Append(connectionQueue, e)
           S == Pieces
<1> HIDE DEF S
<1>1. /\ writes \in Seq(S) /\ writes # <<>> /\ 1 \in DOMAIN writes /\ Head(writes) = writes[1]
      /\ Head(writes) \in S /\ Len(writes) \in Nat /\ DOMAIN writes = 1..Len(writes)
      /\ Tail(writes) \in Seq(S) /\ Len(Tail(writes)) = Len(writes) - 1
      /\ \A i \in DOMAIN Tail(writes) :
            i \in Nat /\ i + 1 \in DOMAIN writes /\ Tail(writes)[i] = writes[i + 1]
  <2>1. writes \in Seq(S) /\ writes # <<>>
    BY DEF IInv, SocketInv, SocketTypeOK, CompleteCurrentWrite, S
  <2>2. Len(writes) \in Nat /\ DOMAIN writes = 1..Len(writes)
    BY <2>1, LenProperties
  <2>3. Head(writes) \in S /\ Tail(writes) \in Seq(S) /\ Len(Tail(writes)) = Len(writes) - 1
    BY <2>1, EmptySeq, HeadTailProperties
  <2> QED BY <2>1, <2>2, <2>3, TailIndex
<1>2. /\ Head(writes).tag \in Tags /\ e \in Calls /\ e.do # "didDisconnect" /\ e.do # "didRead"
      /\ Turn(e) <=> Turns(Head(writes).tag)
  BY <1>1, CallsAre DEF S, Pieces, Call
<1> HIDE DEF e
<1>3. /\ connectionQueue \in Seq(Calls) /\ NoTurn(connectionQueue) /\ TurnIsLast(writes)
      /\ open /\ NoEnd(connectionQueue) /\ ~reading /\ SingleTurn(connectionQueue)
      /\ EndIsLast(connectionQueue)
  BY <1>1 DEF IInv, SocketInv, SocketTypeOK, OneTurn, ClosedIsLast
<1>4. /\ calls \in Seq(Calls) /\ SingleTurn(calls) /\ NoEnd(calls) /\ EndIsLast(calls)
      /\ Entries(calls) \subseteq Entries(connectionQueue) \cup {e}
      /\ ~Turn(e) => NoTurn(calls)
  BY <1>2, <1>3, LongerQueue
<1>5. Turn(e) => Tail(writes) = <<>>
  <2>1. Turn(e) => Len(writes) = 1
    BY <1>1, <1>2, <1>3 DEF TurnIsLast
  <2> QED BY <1>1, <2>1, OneIsLast
<1> HIDE DEF calls
<1> DEFINE d == Call("didDisconnect", "")
<1>6. /\ SocketInv' /\ ~reading' /\ (writes' = <<>> \/ writes' = Tail(writes))
      /\ Entries(connectionQueue)' \subseteq Entries(connectionQueue) \cup {e, d}
  <2>1. CASE closing /\ Len(writes) = 1
    <3>1. Close(calls)
      BY <2>1 DEF CompleteCurrentWrite, calls, e
    <3>2. /\ SocketInv' /\ ~reading' /\ writes' = <<>>
          /\ Entries(connectionQueue)' \subseteq Entries(calls) \cup {d}
      BY <1>4, <3>1, Closes DEF IInv
    <3> QED BY <3>2, <1>4
  <2>2. CASE ~(closing /\ Len(writes) = 1)
    <3>1. /\ writes' = Tail(writes) /\ connectionQueue' = calls
          /\ UNCHANGED <<open, reading, closing>>
      BY <2>2 DEF CompleteCurrentWrite, calls, e
    <3>2. TurnIsLast(Tail(writes))
      <4>1. DOMAIN Tail(writes) = 1..(Len(writes) - 1)
        BY <1>1, LenProperties
      <4> QED BY <1>1, <1>3, <4>1 DEF TurnIsLast
    <3>3. ~NoTurn(calls) => Tail(writes) = <<>>
      BY <1>4, <1>5
    <3>4. OneTurn'
      BY <3>1, <3>2, <3>3, <1>3, <1>4 DEF OneTurn
    <3>5. ClosedIsLast'
      BY <3>1, <1>3, <1>4 DEF ClosedIsLast
    <3>6. SocketTypeOK'
      BY <3>1, <1>1, <1>4 DEF SocketTypeOK, IInv, SocketInv, S
    <3> QED BY <3>1, <3>4, <3>5, <3>6, <1>3, <1>4 DEF SocketInv
  <2> QED BY <2>1, <2>2
<1>7. AtRest' => AtRest /\ numHeaderLines' <= MAX_HEADER_LINES
  <2>1. d.do # "didRead"
    BY DEF Call
  <2> HIDE DEF d
  <2> QED BY <1>2, <1>6, <2>1 DEF AtRest, IInv, RestInv, CompleteCurrentWrite
<1>8. ASSUME NEW tag \in Tags, Turns(tag), OnItsWay(tag)' PROVE OnItsWay(tag)
  <2>1. d # Call("didWrite", tag) /\ (e = Call("didWrite", tag) => tag = writes[1].tag)
    BY <1>1 DEF Call, e
  <2>2. CASE \E i \in DOMAIN writes' : writes'[i].tag = tag
    <3>1. writes' = Tail(writes)
      BY <1>6, <2>2, EmptyHasNone
    <3>2. \E i \in DOMAIN writes : writes[i].tag = tag
      BY <3>1, <2>2, <1>1
    <3> QED BY <3>2, OnItsWayIn
  <2> HIDE DEF d
  <2>3. CASE Call("didWrite", tag) \in Entries(connectionQueue')
    BY <2>1, <2>3, <1>1, <1>6, OnItsWayIn
  <2> QED BY <2>2, <2>3, <1>8, OnItsWayIn
<1>9. heard' \in 0..MaxRequests /\ numHeaderLines' \in 0..MAX_HEADER_LINES + 1
  BY DEF CompleteCurrentWrite, IInv, AnswerTypeOK
<1> QED BY <1>6, <1>7, <1>8, <1>9, AnswerKept DEF CompleteCurrentWrite

LEMMA SocketEndsStep ==
    ASSUME IInv, SocketEnds
    PROVE  IInv'
<1> DEFINE d == Call("didDisconnect", "")
<1>1. /\ connectionQueue \in Seq(Calls) /\ SingleTurn(connectionQueue)
      /\ open => NoEnd(connectionQueue)
      /\ EndIsLast(connectionQueue) /\ Close(connectionQueue) /\ SocketInv
  BY DEF IInv, SocketInv, SocketTypeOK, OneTurn, ClosedIsLast, SocketEnds
<1>2. /\ SocketInv' /\ ~reading' /\ writes' = <<>>
      /\ Entries(connectionQueue)' \subseteq Entries(connectionQueue) \cup {d}
  BY <1>1, Closes
<1>3. d.do # "didRead" /\ \A tag : d # Call("didWrite", tag)
  BY DEF Call
<1> HIDE DEF d
<1>4. AtRest' => AtRest /\ numHeaderLines' <= MAX_HEADER_LINES
  BY <1>2, <1>3 DEF AtRest, IInv, RestInv, SocketEnds
<1>5. ASSUME NEW tag \in Tags, Turns(tag), OnItsWay(tag)' PROVE OnItsWay(tag)
  BY <1>2, <1>3, <1>5, OnItsWayIn, EmptyHasNone
<1>6. heard' \in 0..MaxRequests /\ numHeaderLines' \in 0..MAX_HEADER_LINES + 1
  BY DEF SocketEnds, IInv, AnswerTypeOK
<1> QED BY <1>2, <1>4, <1>5, <1>6, AnswerKept DEF SocketEnds

\* What a call that is handled leaves in the queue.
LEMMA ServedEntries ==
    ASSUME IInv, connectionQueue # <<>>, NEW t, t = Tail(connectionQueue)
    PROVE  /\ t \in Seq(Calls) /\ SingleTurn(t) /\ EndIsLast(t) /\ (open => NoEnd(t))
           /\ Turn(Head(connectionQueue)) => NoTurn(t) /\ ~NoTurn(connectionQueue)
           /\ Head(connectionQueue).do = "didDisconnect" => NoTurn(t)
           /\ Entries(t) \subseteq Entries(connectionQueue)
           /\ Head(connectionQueue) \in Entries(connectionQueue)
           /\ connectionQueue \in Seq(Calls)
<1>1. /\ connectionQueue \in Seq(Calls) /\ SingleTurn(connectionQueue)
      /\ EndIsLast(connectionQueue) /\ (open => NoEnd(connectionQueue))
  BY DEF IInv, SocketInv, SocketTypeOK, OneTurn, ClosedIsLast
<1>2. Head(connectionQueue) \in Entries(connectionQueue)
  <2>1. 1 \in DOMAIN connectionQueue /\ Head(connectionQueue) = connectionQueue[1]
    BY <1>1, TailIndex
  <2> QED BY <2>1 DEF Entries
<1> QED BY <1>1, <1>2, ServedQueue

LEMMA AnotherLineStep ==
    ASSUME IInv, AnotherLine
    PROVE  IInv'
<1> DEFINE h == Head(connectionQueue)
<1>1. /\ connectionQueue # <<>> /\ h = Call("didRead", "more")
      /\ connectionQueue' = Tail(connectionQueue) /\ reading' = open
      /\ UNCHANGED <<open, writes, closing>> /\ SocketInv
  BY DEF AnotherLine, Heard, IInv
<1>2. Turn(h) /\ h.do = "didRead"
  BY <1>1 DEF Call, Turn
<1>3. SocketInv' /\ NoTurn(connectionQueue') /\ writes' = <<>>
  BY <1>1, <1>2, ReadsOn
<1>4. AtRest
  BY <1>1, <1>2, ServedEntries DEF AtRest
<1>5. numHeaderLines' <= MAX_HEADER_LINES /\ numHeaderLines' \in 0..MAX_HEADER_LINES + 1
  BY SizeAssumption DEF AnotherLine, IInv, AnswerTypeOK
<1>6. ASSUME NEW tag \in Tags, Turns(tag), OnItsWay(tag)' PROVE OnItsWay(tag)
  BY <1>1, <1>3, <1>6, OnItsWayIn, EmptyHasNone, ServedEntries
<1>7. heard' \in 0..MaxRequests
  BY DEF AnotherLine, Heard, IInv, AnswerTypeOK
<1> QED BY <1>3, <1>4, <1>5, <1>6, <1>7, AnswerKept DEF AnotherLine

LEMMA TooManyLinesStep ==
    ASSUME IInv, TooManyLines
    PROVE  IInv'
<1> DEFINE h == Head(connectionQueue)
           t == Tail(connectionQueue)
           d == Call("didDisconnect", "")
<1>1. connectionQueue # <<>> /\ h = Call("didRead", "more") /\ Close(t) /\ SocketInv
  BY DEF TooManyLines, Heard, IInv
<1>2. Turn(h) /\ h.do = "didRead"
  BY <1>1 DEF Call, Turn
<1>3. /\ t \in Seq(Calls) /\ SingleTurn(t) /\ EndIsLast(t) /\ (open => NoEnd(t)) /\ NoTurn(t)
      /\ h \in Entries(connectionQueue) /\ Entries(t) \subseteq Entries(connectionQueue)
  BY <1>1, <1>2, ServedEntries
<1> HIDE DEF t
<1>4. /\ SocketInv' /\ ~reading' /\ writes' = <<>> /\ NoTurn(connectionQueue)'
      /\ Entries(connectionQueue)' \subseteq Entries(t) \cup {d}
  BY <1>1, <1>3, Closes
<1>5. AtRest
  BY <1>2, <1>3 DEF AtRest
<1>6. d.do # "didRead" /\ \A tag : d # Call("didWrite", tag)
  BY DEF Call
<1> HIDE DEF d
<1>7. ~AtRest'
  BY <1>4 DEF AtRest, NoTurn, Turn, Entries
<1>8. numHeaderLines' \in 0..MAX_HEADER_LINES + 1 /\ heard' \in 0..MaxRequests
  BY <1>5, SizeAssumption DEF TooManyLines, Heard, IInv, AnswerTypeOK, RestInv
<1>9. ASSUME NEW tag \in Tags, Turns(tag), OnItsWay(tag)' PROVE OnItsWay(tag)
  BY <1>3, <1>4, <1>6, <1>9, OnItsWayIn, EmptyHasNone
<1> QED BY <1>4, <1>7, <1>8, <1>9, AnswerKept DEF TooManyLines

LEMMA HeaderWrittenStep ==
    ASSUME IInv, HeaderWritten
    PROVE  IInv'
<1>1. connectionQueue # <<>> /\ connectionQueue' = Tail(connectionQueue) /\ UNCHANGED socket
  BY DEF HeaderWritten, Wrote
<1>2. SocketInv'
  BY <1>1, Serves DEF IInv
<1>3. Entries(connectionQueue') \subseteq Entries(connectionQueue)
  BY <1>1, ServedEntries
<1>4. AtRest' => AtRest /\ numHeaderLines' <= MAX_HEADER_LINES
  BY <1>1, <1>3 DEF AtRest, IInv, RestInv, HeaderWritten, socket
<1>5. ASSUME NEW tag \in Tags, Turns(tag), OnItsWay(tag)' PROVE OnItsWay(tag)
  BY <1>1, <1>3, <1>5, OnItsWayIn DEF socket
<1>6. heard' \in 0..MaxRequests /\ numHeaderLines' \in 0..MAX_HEADER_LINES + 1
  BY DEF HeaderWritten, Wrote, IInv, AnswerTypeOK
<1> QED BY <1>2, <1>4, <1>5, <1>6, AnswerKept DEF HeaderWritten

LEMMA ResponseDidAbortStep ==
    ASSUME IInv, ResponseDidAbort
    PROVE  IInv'
<1> DEFINE t == Tail(connectionQueue)
           d == Call("didDisconnect", "")
<1>1. connectionQueue # <<>> /\ SocketInv
  BY DEF ResponseDidAbort, IInv
<1>2. /\ t \in Seq(Calls) /\ SingleTurn(t) /\ EndIsLast(t) /\ (open => NoEnd(t))
      /\ Entries(t) \subseteq Entries(connectionQueue)
  BY <1>1, ServedEntries
<1>3. /\ SocketInv' /\ (reading' => reading) /\ (writes' = writes \/ writes' = <<>>)
      /\ Entries(connectionQueue)' \subseteq Entries(connectionQueue) \cup {d}
  <2>1. CASE connectionQueue' = t /\ UNCHANGED socket
    <3>1. SocketInv'
      BY <1>1, <2>1, Serves
    <3> QED BY <2>1, <3>1, <1>2 DEF socket
  <2>2. CASE Close(t)
    <3> HIDE DEF t, d
    <3>1. /\ SocketInv' /\ ~reading' /\ writes' = <<>>
          /\ Entries(connectionQueue)' \subseteq Entries(t) \cup {Call("didDisconnect", "")}
      BY <1>1, <1>2, <2>2, Closes
    <3> QED BY <3>1, <1>2 DEF d
  <2>3. CASE closing' = TRUE /\ connectionQueue' = t /\ UNCHANGED <<open, reading, writes>>
    <3>1. NoTurn(connectionQueue) => NoTurn(t)
      BY <1>1, ServedQueue DEF SocketInv, SocketTypeOK
    <3> HIDE DEF t
    <3>2. SocketTypeOK' /\ OneTurn' /\ ClosedIsLast'
      BY <1>1, <1>2, <2>3, <3>1 DEF SocketInv, SocketTypeOK, OneTurn, ClosedIsLast
    <3> QED BY <2>3, <1>2, <3>2 DEF SocketInv
  <2> QED BY <2>1, <2>2, <2>3 DEF ResponseDidAbort
<1>4. d.do # "didRead" /\ \A tag : d # Call("didWrite", tag)
  BY DEF Call
<1> HIDE DEF d
<1>5. AtRest' => AtRest /\ numHeaderLines' <= MAX_HEADER_LINES
  BY <1>3, <1>4 DEF AtRest, IInv, RestInv, ResponseDidAbort
<1>6. ASSUME NEW tag \in Tags, Turns(tag), OnItsWay(tag)' PROVE OnItsWay(tag)
  BY <1>3, <1>4, <1>6, OnItsWayIn, EmptyHasNone
<1>7. heard' \in 0..MaxRequests /\ numHeaderLines' \in 0..MAX_HEADER_LINES + 1
  BY DEF ResponseDidAbort, IInv, AnswerTypeOK
<1> QED BY <1>3, <1>5, <1>6, <1>7, AnswerKept DEF ResponseDidAbort
-----------------------------------------------------------------------------
(* The actions that end an answer, or send none.                           *)

\* No response is left, and nothing is on its way but a last piece.
LEMMA AnswerGone ==
    ASSUME IInv, SocketInv', AnswerTypeOK', RestInv', httpResponse' = Nil,
           \A tag \in Tags : Turns(tag) /\ OnItsWay(tag)' => tag \in Final
    PROVE  IInv'
BY DEF IInv, AnswerInv

LEMMA SocketDidDisconnectStep ==
    ASSUME IInv, SocketDidDisconnect
    PROVE  IInv'
<1>1. /\ connectionQueue # <<>> /\ connectionQueue' = Tail(connectionQueue) /\ UNCHANGED socket
      /\ Head(connectionQueue).do = "didDisconnect"
  BY DEF SocketDidDisconnect
<1>2. SocketInv'
  BY <1>1, Serves DEF IInv
<1>3. /\ NoTurn(connectionQueue') /\ Head(connectionQueue) \in Entries(connectionQueue)
      /\ Entries(connectionQueue') \subseteq Entries(connectionQueue)
  BY <1>1, ServedEntries
<1>4. ~open /\ ~reading /\ writes = <<>>
  BY <1>1, <1>3 DEF Entries, IInv, SocketInv, ClosedIsLast, NoEnd
<1>5. AnswerTypeOK'
  BY DEF SocketDidDisconnect, IInv, AnswerTypeOK
<1>6. RestInv'
  BY <1>1, <1>3, <1>4 DEF RestInv, AtRest, NoTurn, Turn, Entries, socket
<1>7. ASSUME NEW tag \in Tags, Turns(tag), OnItsWay(tag)' PROVE FALSE
  BY <1>1, <1>3, <1>4, <1>7, OnItsWayIn, EmptyHasNone, CallsAre DEF socket, NoTurn, Entries
<1> QED BY <1>2, <1>5, <1>6, <1>7, AnswerGone DEF SocketDidDisconnect

\* While a line or a request is handled the connection is at rest.
LEMMA HeardAtRest ==
    ASSUME IInv, NEW line, Heard(line)
    PROVE  /\ connectionQueue # <<>> /\ Turn(Head(connectionQueue)) /\ AtRest
           /\ httpResponse = Nil /\ responseDataSizes = <<>> /\ numHeaderLines <= MAX_HEADER_LINES
<1>1. connectionQueue # <<>> /\ Head(connectionQueue) = Call("didRead", line)
  BY DEF Heard
<1>2. Head(connectionQueue).do = "didRead"
  BY <1>1 DEF Call
<1>3. AtRest
  BY <1>1, <1>2, ServedEntries DEF AtRest
<1> QED BY <1>1, <1>2, <1>3 DEF Turn, IInv, RestInv

LEMMA TagsAre ==
    /\ Final \subseteq Tags /\ \A tag \in Final : Turns(tag)
    /\ \A tag \in Tags : Header(tag) \in Pieces /\ Header(tag).tag = tag
BY EmptySeq DEF Final, Tags, Turns, Header, Piece, Pieces

LEMMA OnePiece ==
    ASSUME NEW p \in Pieces
    PROVE  /\ <<p>> \in Seq(Pieces) /\ TurnIsLast(<<p>>)
           /\ TagsIn(<<p>>) = {p.tag}
BY DEF TurnIsLast, TagsIn

LEMMA RefusesStep ==
    ASSUME IInv, NEW line \in Requests \cup {"bad"}, NEW tag \in Final, Refuses(line, tag)
    PROVE  IInv'
<1> DEFINE p == Header(tag)
<1>1. p \in Pieces /\ p.tag = tag
  BY TagsAre
<1> HIDE DEF p
<1>2. <<p>> \in Seq(Pieces) /\ TurnIsLast(<<p>>) /\ TagsIn(<<p>>) = {p.tag}
  BY <1>1, OnePiece
<1>3. /\ connectionQueue # <<>> /\ Turn(Head(connectionQueue)) /\ httpResponse = Nil
      /\ numHeaderLines <= MAX_HEADER_LINES
  BY HeardAtRest DEF Refuses
<1>4. Writes(<<p>>) /\ connectionQueue' = Tail(connectionQueue) /\ UNCHANGED <<open, reading, closing>>
  BY DEF Refuses, p
<1>5. /\ SocketInv' /\ NoTurn(connectionQueue') /\ ~reading'
      /\ \A g \in Tags : Turns(g) /\ OnItsWay(g)' => g \in TagsIn(<<p>>)
  BY <1>2, <1>3, <1>4, GoesOn DEF IInv
<1>6. AnswerTypeOK'
  BY EmptySeq DEF Refuses, Heard, IInv, AnswerTypeOK
<1>7. RestInv'
  BY <1>5 DEF RestInv, AtRest, NoTurn, Turn, Entries
<1>8. ASSUME NEW g \in Tags, Turns(g), OnItsWay(g)' PROVE g \in Final
  BY <1>1, <1>2, <1>5, <1>8
<1> QED BY <1>3, <1>5, <1>6, <1>7, <1>8, AnswerGone DEF Refuses

\* After the last piece the connection is at rest again.
LEMMA Finished ==
    ASSUME IInv, FinishResponse, heard' = heard, numHeaderLines' \in {0, numHeaderLines}
    PROVE  AnswerTypeOK' /\ httpResponse' = Nil /\ responseDataSizes' = <<>>
<1>1. responseDataSizes' = <<>>
  <2>1. CASE responseDataSizes = <<>>
    BY <2>1 DEF FinishResponse
  <2>2. CASE responseDataSizes # <<>>
    <3>1. responseDataSizes \in Seq(Sizes) /\ Len(responseDataSizes) <= 1
      BY DEF IInv, AnswerTypeOK
    <3> QED BY <3>1, <2>2, OneAtMost DEF FinishResponse
  <2> QED BY <2>1, <2>2
<1>2. AnswerTypeOK'
  <2>1. <<>> \in Seq(Sizes) /\ Len(<<>>) = 0 /\ <<>> \in Seq(Ranges)
    BY EmptySeq
  <2>2. AnswerTypeOK
    BY DEF IInv
  <2>3. numHeaderLines' \in 0..MAX_HEADER_LINES + 1
    BY <2>2, SizeAssumption DEF AnswerTypeOK
  <2>4. /\ request' = Nil /\ httpResponse' = Nil /\ ranges' = <<>>
        /\ UNCHANGED <<rangeIndex, declared, body, heard>>
    BY DEF FinishResponse
  <2> QED BY <1>1, <2>1, <2>2, <2>3, <2>4 DEF AnswerTypeOK
<1> QED BY <1>1, <1>2 DEF FinishResponse

LEMMA WroteTurn ==
    ASSUME IInv, NEW tag, Turns(tag), Wrote(tag)
    PROVE  /\ connectionQueue # <<>> /\ Turn(Head(connectionQueue)) /\ tag \in Tags /\ OnItsWay(tag)
           /\ heard' = heard
<1>1. connectionQueue # <<>> /\ Head(connectionQueue) = Call("didWrite", tag) /\ heard' = heard
  BY DEF Wrote
<1>2. Head(connectionQueue) \in Entries(connectionQueue) /\ Head(connectionQueue) \in Calls
  BY <1>1, ServedEntries, ServedQueue
<1>3. tag \in Tags
  <2>1. \A c \in Calls : c.do = "didWrite" => c.with \in Tags
    BY DEF Calls
  <2>2. Call("didWrite", tag) \in Calls
    BY <1>1, <1>2
  <2> QED BY <2>1, <2>2 DEF Call
<1> QED BY <1>1, <1>2, <1>3, CallsAre, OnItsWayIn

LEMMA LastWrittenStep ==
    ASSUME IInv, NEW tag \in Final, LastWritten(tag)
    PROVE  IInv'
<1>1. connectionQueue # <<>> /\ Turn(Head(connectionQueue)) /\ heard' = heard
  BY TagsAre, WroteTurn DEF LastWritten
<1>2. SocketInv' /\ NoTurn(connectionQueue') /\ writes' = <<>>
  BY <1>1, ReadsOn DEF LastWritten, IInv
<1>3. AnswerTypeOK' /\ httpResponse' = Nil /\ responseDataSizes' = <<>> /\ numHeaderLines' = 0
  BY <1>1, Finished DEF LastWritten
<1>4. RestInv'
  BY <1>3, SizeAssumption DEF RestInv
<1>5. ASSUME NEW g \in Tags, Turns(g), OnItsWay(g)' PROVE FALSE
  BY <1>2, <1>5, OnItsWayIn, EmptyHasNone, CallsAre DEF NoTurn, Entries
<1> QED BY <1>2, <1>3, <1>4, <1>5, AnswerGone

LEMMA DisconnectStep ==
    ASSUME IInv, NEW tag \in Final, Disconnect(tag)
    PROVE  IInv'
<1> DEFINE t == Tail(connectionQueue)
<1>1. /\ connectionQueue # <<>> /\ Turn(Head(connectionQueue)) /\ heard' = heard /\ Close(t)
      /\ SocketInv
  BY TagsAre, WroteTurn DEF Disconnect, IInv
<1>2. t \in Seq(Calls) /\ SingleTurn(t) /\ EndIsLast(t) /\ (open => NoEnd(t)) /\ NoTurn(t)
  BY <1>1, ServedEntries
<1> HIDE DEF t
<1>3. SocketInv' /\ NoTurn(connectionQueue)' /\ writes' = <<>> /\ ~reading'
  BY <1>1, <1>2, Closes
<1>4. AnswerTypeOK' /\ httpResponse' = Nil /\ responseDataSizes' = <<>>
  BY <1>1, Finished DEF Disconnect
<1>5. RestInv'
  BY <1>3 DEF RestInv, AtRest, NoTurn, Turn, Entries
<1>6. ASSUME NEW g \in Tags, Turns(g), OnItsWay(g)' PROVE FALSE
  BY <1>3, <1>6, OnItsWayIn, EmptyHasNone, CallsAre DEF NoTurn, Entries
<1> QED BY <1>3, <1>4, <1>5, <1>6, AnswerGone
-----------------------------------------------------------------------------
(* The sums of the lengths of ranges.                                      *)

LEMMA SumsAre ==
    ASSUME NEW s \in Seq(Ranges)
    PROVE  /\ Len(s) \in Nat /\ Sums(s) \in [0..Len(s) -> Nat] /\ Sums(s)[0] = 0
           /\ \A i \in 1..Len(s) : Sums(s)[i] = Sums(s)[i - 1] + s[i].length
<1> DEFINE n == Len(s)
           long == [i \in 1..n |-> s[i].length]
<1>1. n \in Nat /\ \A i \in 1..n : s[i] \in Ranges
  BY LenProperties, ElementOfSeq
<1>2. \A i \in 1..n : long[i] = s[i].length /\ long[i] \in Nat
  BY <1>1 DEF Ranges
<1> HIDE DEF n, long
<1> DEFINE Sum(f, m) == \A i \in 0..m : f[i] = IF i = 0 THEN 0 ELSE f[i - 1] + long[i]
           Has(m) == \E f \in [0..m -> Nat] : Sum(f, m)
           Bad == {m \in 0..n : ~Has(m)}
<1>3. Has(0)
  <2> DEFINE f == [i \in 0..0 |-> 0]
  <2>1. f \in [0..0 -> Nat] /\ Sum(f, 0)
    OBVIOUS
  <2> QED BY <2>1
<1>4. ASSUME NEW m \in 1..n, Has(m - 1) PROVE Has(m)
  <2>1. PICK f \in [0..(m - 1) -> Nat] : Sum(f, m - 1)
    BY <1>4
  <2> DEFINE g == [i \in 0..m |-> IF i = m THEN f[m - 1] + long[m] ELSE f[i]]
  <2>2. m \in Nat /\ m - 1 \in 0..(m - 1) /\ f[m - 1] \in Nat /\ long[m] \in Nat
    BY <1>1, <1>2
  <2>3. \A i \in 0..m : i # m => i \in 0..(m - 1) /\ f[i] \in Nat
    BY <2>2
  <2>4. g \in [0..m -> Nat]
    BY <2>2, <2>3
  <2>5. ASSUME NEW i \in 0..m PROVE g[i] = IF i = 0 THEN 0 ELSE g[i - 1] + long[i]
    <3>1. CASE i = m
      <4>1. i # 0 /\ i - 1 \in 0..m /\ i - 1 # m
        BY <2>2, <3>1
      <4> QED BY <3>1, <4>1, <2>2
    <3>2. CASE i # m /\ i = 0
      BY <3>2, <2>1, <2>3
    <3>3. CASE i # m /\ i # 0
      <4>1. i - 1 \in 0..m /\ i - 1 # m /\ i \in 0..(m - 1)
        BY <2>2, <3>3
      <4>2. f[i] = f[i - 1] + long[i]
        BY <4>1, <2>1, <3>3
      <4> QED BY <3>3, <4>1, <4>2
    <3> QED BY <3>1, <3>2, <3>3
  <2> HIDE DEF g
  <2>6. Sum(g, m)
    BY <2>5
  <2> QED BY <2>4, <2>6
<1>5. Bad = {}
  <2> SUFFICES ASSUME Bad # {} PROVE FALSE
    OBVIOUS
  <2>1. Bad \in SUBSET Nat
    BY <1>1
  <2>2. PICK m \in Bad : \A k \in Bad : m <= k
    BY <2>1, LeastNumber
  <2> HIDE DEF Has
  <2>3. m \in Nat /\ m \in 0..n /\ ~Has(m)
    BY <1>1
  <2>4. m # 0
    BY <1>3, <2>3
  <2>5. m \in 1..n /\ m - 1 \in 0..n /\ ~(m <= m - 1)
    BY <2>3, <2>4, <1>1
  <2>6. Has(m - 1)
    BY <2>2, <2>5
  <2> QED BY <1>4, <2>3, <2>5, <2>6
<1>6. PICK f \in [0..n -> Nat] : Sum(f, n)
  <2>1. Has(n)
    BY <1>1, <1>5
  <2> QED BY <2>1
<1> DEFINE Is(h) == h = [i \in 0..n |-> IF i = 0 THEN 0 ELSE h[i - 1] + s[i].length]
<1>7. Is(f)
  <2>1. \A i \in 0..n : i # 0 => i \in 1..n
    BY <1>1
  <2> QED BY <1>2, <1>6, <2>1
<1>8. Is(Sums(s))
  <2>1. Sums(s) = CHOOSE h : Is(h)
    BY DEF Sums, n
  <2> HIDE DEF Is
  <2> QED BY <1>7, <2>1
<1>9. ASSUME NEW h, Is(h)
      PROVE  h \in [0..n -> Nat] /\ h[0] = 0 /\ \A i \in 1..n : h[i] = h[i - 1] + s[i].length
  <2>1. h[0] = 0 /\ \A i \in 1..n : i - 1 \in 0..n /\ h[i] = h[i - 1] + long[i]
    <3>1. 0 \in 0..n /\ \A i \in 1..n : i \in 0..n /\ i # 0 /\ i - 1 \in 0..n
      BY <1>1
    <3> QED BY <1>2, <1>9, <3>1
  <2> DEFINE Wrong == {i \in 0..n : h[i] \notin Nat}
  <2>2. Wrong = {}
    <3> SUFFICES ASSUME Wrong # {} PROVE FALSE
      OBVIOUS
    <3>1. Wrong \in SUBSET Nat
      BY <1>1
    <3>2. PICK m \in Wrong : \A k \in Wrong : m <= k
      BY <3>1, LeastNumber
    <3>3. m \in Nat /\ m \in 0..n /\ h[m] \notin Nat
      BY <1>1
    <3>4. m \in 1..n /\ m - 1 \in 0..n /\ ~(m <= m - 1)
      BY <2>1, <3>3, <1>1
    <3>5. h[m - 1] \in Nat
      BY <3>2, <3>4
    <3> QED BY <2>1, <3>3, <3>4, <3>5, <1>2
  <2>3. h \in [0..n -> Nat]
    <3>1. h = [i \in 0..n |-> h[i]]
      BY <1>9
    <3>2. \A i \in 0..n : h[i] \in Nat
      BY <2>2
    <3> QED BY <3>1, <3>2
  <2> QED BY <2>1, <2>3, <1>2
<1> HIDE DEF Is
<1> QED BY <1>1, <1>8, <1>9 DEF n
-----------------------------------------------------------------------------
(* What parseRangeRequest: makes of a header.                              *)

Components == [from : Nat \cup {Nil}, to : Nat \cup {Nil}]

\* A component that lies within the resource stands for the bytes of its range; a range
\* without a byte is behind the last one.
LEMMA RangeIs ==
    ASSUME NEW c \in Components, NEW length \in Nat, Within(c, length),
           NEW r, r = DDRange(c, length)
    PROVE  /\ r \in Ranges /\ DDMaxRange(r) <= length
           /\ r.length = 0 => r.location = length
           /\ \A b : b \in Selects(c, length) <=> b \in Nat /\ r.location <= b /\ b < DDMaxRange(r)
<1>1. Nil \notin Nat
  BY NilAssumption
<1>2. /\ c.from = Nil \/ c.from \in Nat
      /\ c.to = Nil \/ c.to \in Nat
  BY DEF Components
<1>3. CASE c.from = Nil
  <2>1. c.to \in Nat /\ c.to <= length
    BY <1>2, <1>3 DEF Within
  <2>2. r = [location |-> length - c.to, length |-> c.to]
    BY <1>3 DEF DDRange
  <2>3. \A b : b \in Selects(c, length) <=> b \in 0..(length - 1) /\ b >= length - c.to
    BY <1>3 DEF Selects
  <2> QED BY <2>1, <2>2, <2>3 DEF Ranges, DDMaxRange
<1>4. CASE c.from # Nil /\ c.to = Nil
  <2>1. c.from \in Nat /\ c.from < length
    BY <1>2, <1>4 DEF Within
  <2>2. r = [location |-> c.from, length |-> length - c.from]
    BY <1>4 DEF DDRange
  <2>3. \A b : b \in Selects(c, length) <=> b \in 0..(length - 1) /\ b >= c.from
    BY <1>4 DEF Selects
  <2> QED BY <2>1, <2>2, <2>3 DEF Ranges, DDMaxRange
<1>5. CASE c.from # Nil /\ c.to # Nil
  <2>1. c.from \in Nat /\ c.to \in Nat /\ c.from <= c.to /\ c.to < length
    BY <1>2, <1>5 DEF Within
  <2>2. r = [location |-> c.from, length |-> c.to - c.from + 1]
    BY <1>5 DEF DDRange
  <2>3. \A b : b \in Selects(c, length) <=> b \in 0..(length - 1) /\ b >= c.from /\ b <= c.to
    BY <1>5 DEF Selects
  <2> QED BY <2>1, <2>2, <2>3 DEF Ranges, DDMaxRange
<1> QED BY <1>3, <1>4, <1>5

\* DDIntersectionRange finds a byte just when there is one.
LEMMA OverlapIs ==
    ASSUME NEW r \in Ranges, NEW s \in Ranges
    PROVE  /\ Overlap(r, s) <=> Overlap(s, r)
           /\ Overlap(r, s) <=> \E b \in Nat : /\ r.location <= b /\ b < DDMaxRange(r)
                                               /\ s.location <= b /\ b < DDMaxRange(s)
<1>1. r.location \in Nat /\ r.length \in Nat /\ s.location \in Nat /\ s.length \in Nat
  BY DEF Ranges
<1> DEFINE m == IF r.location > s.location THEN r.location ELSE s.location
           k == Least(DDMaxRange(r), DDMaxRange(s))
<1>2. Overlap(r, s) => /\ m \in Nat /\ r.location <= m /\ m < DDMaxRange(r)
                       /\ s.location <= m /\ m < DDMaxRange(s)
  BY <1>1 DEF Overlap, DDMaxRange, Least
<1>3. ASSUME NEW b \in Nat, r.location <= b, b < DDMaxRange(r), s.location <= b, b < DDMaxRange(s)
      PROVE  Overlap(r, s)
  BY <1>1, <1>3 DEF Overlap, DDMaxRange, Least
<1>4. Overlap(r, s) <=> Overlap(s, r)
  BY <1>1 DEF Overlap, DDMaxRange, Least
<1> QED BY <1>2, <1>3, <1>4

\* Ranges in their order, without a byte in common, end where the next ones begin.
LEMMA OneBehindTheOther ==
    ASSUME NEW r \in Ranges, NEW s \in Ranges, NEW length \in Nat,
           DDMaxRange(r) <= length, r.length = 0 => r.location = length,
           DDMaxRange(s) <= length, s.length = 0 => s.location = length,
           ~Overlap(r, s), ~DDRangeCompare(s, r)
    PROVE  DDMaxRange(r) <= s.location
<1>1. r.location \in Nat /\ r.length \in Nat /\ s.location \in Nat /\ s.length \in Nat
  BY DEF Ranges
<1> QED BY <1>1 DEF Overlap, DDMaxRange, Least, DDRangeCompare

LEMMA OrdersAre ==
    ASSUME NEW n \in Nat, NEW place \in Bijection(1..n, 1..n)
    PROVE  /\ place \in [1..n -> 1..n]
           /\ \A i, j \in 1..n : i # j => place[i] # place[j]
           /\ \A k \in 1..n : \E i \in 1..n : place[i] = k
BY DEF Bijection, Injection, Surjection, IsInjective

\* For every Range header and every resource, and whatever order the sort gives to ranges that
\* compare as equal: the ranges that are found lie one behind the other within the resource and
\* have exactly the bytes that the components select, and none are found exactly if the header is
\* not to be honoured (parseRangeRequest:withContentLength:, which sorts and tests for overlaps
\* with DDIntersectionRange; Honoured and Selects know only sets of bytes).
THEOREM ParsesWhatIsAsked ==
    ASSUME NEW components \in Seq(Components), NEW length \in Nat,
           NEW found \in ParseRangeRequest(components, length)
    PROVE  /\ LayOut(found, length)
           /\ found = <<>> <=> ~Honoured(components, length)
           /\ found # <<>> =>
                 Spans(found) = UNION {Selects(components[i], length) : i \in DOMAIN components}
<1> DEFINE n == Len(components)
           parsed == [i \in DOMAIN components |-> DDRange(components[i], length)]
           Fit == \A i \in 1..n : Within(components[i], length)
           Apart == \A i, j \in 1..n : i < j => ~Overlap(parsed[i], parsed[j])
<1>1. /\ n \in Nat /\ DOMAIN components = 1..n /\ DOMAIN parsed = 1..n
      /\ \A i \in 1..n : components[i] \in Components /\ parsed[i] = DDRange(components[i], length)
  BY LenProperties, ElementOfSeq
<1>2. found \in IF Fit /\ Apart THEN {seq \in Orders(parsed) : Sorted(seq)} ELSE {<<>>}
  BY <1>1 DEF ParseRangeRequest
<1>3. ASSUME Fit, NEW i \in 1..n
      PROVE  /\ parsed[i] \in Ranges /\ DDMaxRange(parsed[i]) <= length
             /\ parsed[i].length = 0 => parsed[i].location = length
             /\ \A b : b \in Selects(components[i], length) <=>
                   b \in Nat /\ parsed[i].location <= b /\ b < DDMaxRange(parsed[i])
  BY <1>1, <1>3, RangeIs
<1> HIDE DEF parsed, n
<1>4. ASSUME Fit, NEW i \in 1..n, NEW j \in 1..n
      PROVE  /\ Overlap(parsed[i], parsed[j]) <=> Overlap(parsed[j], parsed[i])
             /\ Overlap(parsed[i], parsed[j]) <=>
                   Selects(components[i], length) \cap Selects(components[j], length) # {}
  <2>1. parsed[i] \in Ranges /\ parsed[j] \in Ranges
    BY <1>3, <1>4
  <2>2. /\ Overlap(parsed[i], parsed[j]) <=> Overlap(parsed[j], parsed[i])
        /\ Overlap(parsed[i], parsed[j]) <=>
              \E b \in Nat : /\ parsed[i].location <= b /\ b < DDMaxRange(parsed[i])
                             /\ parsed[j].location <= b /\ b < DDMaxRange(parsed[j])
    BY <2>1, OverlapIs
  <2>3. /\ \A b : b \in Selects(components[i], length) <=>
              b \in Nat /\ parsed[i].location <= b /\ b < DDMaxRange(parsed[i])
        /\ \A b : b \in Selects(components[j], length) <=>
              b \in Nat /\ parsed[j].location <= b /\ b < DDMaxRange(parsed[j])
    BY <1>3, <1>4
  <2> QED BY <2>2, <2>3
<1>5. Honoured(components, length) <=> n # 0 /\ Fit /\ Apart
  <2>1. components = <<>> <=> n = 0
    BY EmptySeq DEF n
  <2>2. ASSUME Fit, n # 0 PROVE Honoured(components, length) <=> Apart
    <3>1. ASSUME Apart, NEW i \in 1..n, NEW j \in 1..n, i # j
          PROVE  Selects(components[i], length) \cap Selects(components[j], length) = {}
      <4>1. i < j \/ j < i
        BY <1>1, <3>1
      <4>2. ~Overlap(parsed[i], parsed[j])
        BY <4>1, <3>1, <1>4, <2>2
      <4> QED BY <4>2, <1>4, <2>2
    <3>2. ASSUME Honoured(components, length), NEW i \in 1..n, NEW j \in 1..n, i < j
          PROVE  ~Overlap(parsed[i], parsed[j])
      <4>1. i # j
        BY <1>1, <3>2
      <4>2. Selects(components[i], length) \cap Selects(components[j], length) = {}
        BY <4>1, <3>2, <1>1 DEF Honoured
      <4> QED BY <4>2, <1>4, <2>2
    <3> QED BY <3>1, <3>2, <2>1, <2>2, <1>1 DEF Honoured
  <2> QED BY <2>1, <2>2, <1>1 DEF Honoured
<1>6. CASE Fit /\ Apart
  <2>1. PICK place \in Bijection(1..n, 1..n) : found = [i \in 1..n |-> parsed[place[i]]]
    BY <1>1, <1>2, <1>6 DEF Orders
  <2>2. /\ place \in [1..n -> 1..n]
        /\ \A i, j \in 1..n : i # j => place[i] # place[j]
        /\ \A k \in 1..n : \E i \in 1..n : place[i] = k
    BY <1>1, <2>1, OrdersAre
  <2>3. DOMAIN found = 1..n /\ \A i \in 1..n : place[i] \in 1..n /\ found[i] = parsed[place[i]]
    BY <2>1, <2>2
  <2>4. \A i \in 1..n : /\ found[i] \in Ranges /\ DDMaxRange(found[i]) <= length
                        /\ found[i].length = 0 => found[i].location = length
    BY <2>3, <1>3, <1>6
  <2>5. found \in Seq(Ranges)
    <3>1. found \in [1..n -> Ranges]
      BY <2>1, <2>3, <2>4
    <3> QED BY <1>1, <3>1, FunctionIsSeq
  <2>6. ASSUME NEW i \in 1..n, NEW j \in 1..n, i < j
        PROVE  DDMaxRange(found[i]) <= found[j].location
    <3>1. ~DDRangeCompare(found[j], found[i])
      BY <1>2, <1>6, <2>3, <2>6 DEF Sorted
    <3>2. place[i] # place[j]
      BY <1>1, <2>2, <2>6
    <3>3. ~Overlap(found[i], found[j])
      <4>1. place[i] < place[j] \/ place[j] < place[i]
        BY <3>2, <2>3, <1>1
      <4> QED BY <4>1, <2>3, <1>4, <1>6
    <3> QED BY <2>4, <3>1, <3>3, OneBehindTheOther
  <2>7. LayOut(found, length)
    BY <2>3, <2>4, <2>5, <2>6 DEF LayOut
  <2>8. found = <<>> <=> n = 0
    <3>1. Len(found) = n
      BY <1>1, <2>3, <2>5, LenProperties
    <3> QED BY <2>5, <3>1, EmptySeq
  <2>9. Spans(found) = UNION {Selects(components[i], length) : i \in DOMAIN components}
    <3>1. ASSUME NEW b \in Nat, NEW i \in 1..n, found[i].location <= b, b < DDMaxRange(found[i])
          PROVE  b \in Selects(components[place[i]], length)
      BY <2>3, <3>1, <1>3, <1>6
    <3>2. ASSUME NEW k \in 1..n, NEW b \in Selects(components[k], length)
          PROVE  b \in Spans(found)
      <4>1. PICK i \in 1..n : place[i] = k
        BY <2>2
      <4>2. b \in Nat /\ found[i].location <= b /\ b < DDMaxRange(found[i])
        BY <4>1, <2>3, <1>3, <1>6
      <4> QED BY <4>2, <2>3 DEF Spans
    <3>3. Spans(found) \subseteq UNION {Selects(components[i], length) : i \in 1..n}
      BY <3>1, <2>3 DEF Spans
    <3> QED BY <3>2, <3>3, <1>1
  <2> QED BY <1>5, <1>6, <2>7, <2>8, <2>9
<1>7. CASE ~(Fit /\ Apart)
  <2>1. found = <<>>
    BY <1>2, <1>7
  <2>2. LayOut(<<>>, length)
    BY EmptyHasNone, EmptySeq DEF LayOut
  <2> QED BY <1>5, <1>7, <2>1, <2>2
<1> QED BY <1>6, <1>7
-----------------------------------------------------------------------------
(* Bytes and boundaries are added to a body.                               *)

\* So many bytes from a place on.
Run(at, c) == at..(at + c - 1)
With(units, at, c) == units \o Bytes(at, c)

LEMMA BytesAre ==
    ASSUME NEW at \in Nat, NEW c \in Nat
    PROVE  /\ Bytes(at, c) \in Seq(Units) /\ Len(Bytes(at, c)) = c
           /\ \A i \in 1..c : Bytes(at, c)[i] = Unit("byte", at + i - 1)
           /\ c = 0 => Bytes(at, c) = <<>>
<1> DEFINE s == Bytes(at, c)
<1>1. \A i \in 1..c : Unit("byte", at + i - 1) \in Units
  BY DEF Unit, Units
<1>2. s \in [1..c -> Units] /\ \A i \in 1..c : s[i] = Unit("byte", at + i - 1)
  BY <1>1 DEF Bytes
<1> HIDE DEF s
<1>3. s \in Seq(Units) /\ DOMAIN s = 1..c
  BY <1>2, FunctionIsSeq
<1>4. Len(s) = c
  BY <1>3, LenProperties
<1> QED BY <1>2, <1>3, <1>4, EmptySeq DEF s

LEMMA BodyGrows ==
    ASSUME NEW u \in Seq(Units), Ascending(u), BoundariesInFront(u),
           NEW at \in Nat, NEW c \in Nat, \A b \in BytesOf(u) : b < at, FitsAt(u, at),
           NEW v, v = With(u, at, c)
    PROVE  /\ v \in Seq(Units) /\ Len(v) = Len(u) + c
           /\ Ascending(v) /\ BoundariesInFront(v)
           /\ BytesOf(v) = BytesOf(u) \cup Run(at, c)
           /\ c # 0 => EndsInByte(v)
<1> DEFINE n == Len(u)
           m == Len(v)
<1>1. PICK s : s = Bytes(at, c)
  OBVIOUS
<1>2. /\ s \in Seq(Units) /\ Len(s) = c /\ n \in Nat /\ DOMAIN u = 1..n
      /\ \A i \in 1..c : s[i].of = "byte" /\ s[i].at = at + i - 1
  <2>1. /\ s \in Seq(Units) /\ Len(s) = c
        /\ \A i \in 1..c : s[i] = Unit("byte", at + i - 1)
    BY <1>1, BytesAre
  <2>2. n \in Nat /\ DOMAIN u = 1..n
    BY LenProperties
  <2>3. \A i \in 1..c : s[i].of = "byte" /\ s[i].at = at + i - 1
    BY <2>1 DEF Unit
  <2> QED BY <2>1, <2>2, <2>3
<1>3. /\ v \in Seq(Units) /\ Len(v) = n + Len(s)
      /\ \A i \in 1..(n + Len(s)) : v[i] = IF i <= n THEN u[i] ELSE s[i - n]
  BY <1>1, <1>2, ConcatProperties DEF With
<1>4. v \in Seq(Units) /\ m = n + c /\ DOMAIN v = 1..(n + c)
  BY <1>2, <1>3, LenProperties
<1> HIDE DEF n, m
<1>5. \A i \in 1..n : v[i] = u[i] /\ i \in DOMAIN u /\ i \in DOMAIN v
  BY <1>2, <1>3, <1>4
<1>6. ASSUME NEW i \in (n + 1)..(n + c)
      PROVE  v[i].of = "byte" /\ v[i].at = at + (i - n) - 1 /\ i \in DOMAIN v
  <2>1. i - n \in 1..c /\ i \in 1..(n + c) /\ ~(i <= n)
    BY <1>2
  <2> QED BY <2>1, <1>2, <1>3, <1>4
<1>7. \A i \in DOMAIN v : i \in Nat /\ (i \in 1..n \/ i \in (n + 1)..(n + c))
  BY <1>2, <1>4
<1>8. Ascending(v)
  <2> SUFFICES ASSUME NEW i \in DOMAIN v, NEW j \in DOMAIN v, i < j,
                      v[i].of = "byte", v[j].of = "byte"
               PROVE  v[i].at < v[j].at
    BY DEF Ascending
  <2>1. CASE j \in 1..n
    <3>1. i \in 1..n
      BY <2>1, <1>7, <1>2
    <3> QED BY <2>1, <3>1, <1>5 DEF Ascending
  <2>2. CASE i \in 1..n /\ j \in (n + 1)..(n + c)
    <3>1. v[i].at \in BytesOf(u) /\ v[i].at \in Nat
      <4>1. u[i] \in Units
        BY <2>2, <1>5, ElementOfSeq, <1>2
      <4> QED BY <4>1, <2>2, <1>5 DEF BytesOf, Units
    <3>2. v[i].at < at
      BY <3>1
    <3>3. j \in Nat /\ j >= n + 1 /\ v[j].at = at + (j - n) - 1
      BY <2>2, <1>6, <1>2
    <3> HIDE DEF n
    <3>4. at <= at + (j - n) - 1
      BY <3>3, <1>2
    <3> QED BY <3>1, <3>2, <3>3, <3>4, <1>2
  <2>3. CASE i \in (n + 1)..(n + c) /\ j \in (n + 1)..(n + c)
    <3>1. v[i].at = at + (i - n) - 1 /\ v[j].at = at + (j - n) - 1
      BY <2>3, <1>6
    <3>2. i \in Nat /\ j \in Nat
      BY <1>7
    <3> QED BY <3>1, <3>2, <1>2
  <2>4. ~(i \in (n + 1)..(n + c) /\ j \in 1..n)
    BY <1>2
  <2> QED BY <2>1, <2>2, <2>3, <1>7
<1>9. BoundariesInFront(v)
  <2> SUFFICES ASSUME NEW i \in DOMAIN v, NEW j \in DOMAIN v, j = i + 1,
                      v[i].of = "boundary", v[j].of = "byte"
               PROVE  v[i].at = v[j].at
    BY DEF BoundariesInFront
  <2>1. i \in 1..n
    BY <1>6, <1>7
  <2>2. CASE j \in 1..n
    BY <2>1, <2>2, <1>5 DEF BoundariesInFront
  <2>3. CASE j \in (n + 1)..(n + c)
    <3>1. i = n /\ j = n + 1 /\ n # 0
      BY <2>1, <2>3, <1>2
    <3>2. u # <<>>
      BY <3>1, EmptySeq DEF n
    <3>3. v[i].at = at
      BY <2>1, <3>1, <3>2, <1>5 DEF FitsAt, n
    <3>4. v[j].at = at + (j - n) - 1
      BY <2>3, <1>6
    <3> QED BY <3>1, <3>3, <3>4, <1>2
  <2> QED BY <2>2, <2>3, <1>7
<1>10. BytesOf(v) = BytesOf(u) \cup (at..(at + c - 1))
  <2>1. ASSUME NEW b \in BytesOf(v) PROVE b \in BytesOf(u) \cup (at..(at + c - 1))
    <3>1. PICK i \in DOMAIN v : v[i].of = "byte" /\ b = v[i].at
      BY DEF BytesOf
    <3>2. CASE i \in 1..n
      BY <3>1, <3>2, <1>5 DEF BytesOf
    <3>3. CASE i \in (n + 1)..(n + c)
      BY <3>1, <3>3, <1>6, <1>2
    <3> QED BY <3>2, <3>3, <1>7
  <2>2. ASSUME NEW b \in BytesOf(u) PROVE b \in BytesOf(v)
    BY <1>2, <1>5 DEF BytesOf
  <2>3. ASSUME NEW b \in at..(at + c - 1) PROVE b \in BytesOf(v)
    <3>1. b - at + n + 1 \in (n + 1)..(n + c)
      BY <1>2
    <3>2. PICK i \in (n + 1)..(n + c) : i = b - at + n + 1
      BY <3>1
    <3>3. v[i].of = "byte" /\ v[i].at = at + (i - n) - 1 /\ i \in DOMAIN v
      BY <1>6
    <3>4. at + (i - n) - 1 = b
      BY <3>2, <1>2
    <3> QED BY <3>3, <3>4 DEF BytesOf
  <2> QED BY <2>1, <2>2, <2>3
<1>11. c # 0 => v # <<>> /\ v[m].of = "byte"
  <2>1. c # 0 => m \in (n + 1)..(n + c) /\ m # 0
    BY <1>2, <1>4
  <2>2. v # <<>> \/ m = 0
    BY <1>4, EmptySeq DEF m
  <2> QED BY <2>1, <2>2, <1>6
<1> QED BY <1>4, <1>8, <1>9, <1>10, <1>11 DEF n, m, EndsInByte, Run

\* A unit that is no byte.
LEMMA BodyMarked ==
    ASSUME NEW u \in Seq(Units), Ascending(u), BoundariesInFront(u),
           NEW e \in Units, e.of # "byte", NEW v, v = Append(u, e)
    PROVE  /\ v \in Seq(Units) /\ Len(v) = Len(u) + 1
           /\ Ascending(v) /\ BoundariesInFront(v) /\ BytesOf(v) = BytesOf(u)
           /\ v # <<>> /\ v[Len(v)] = e
<1> DEFINE n == Len(u)
<1>1. v \in Seq(Units) /\ Len(v) = n + 1
  BY AppendProperties
<1>2. /\ n \in Nat /\ DOMAIN u = 1..n /\ DOMAIN v = 1..(n + 1)
      /\ \A i \in DOMAIN u : v[i] = u[i]
      /\ v[n + 1] = e
  BY AppendIndex
<1>3. v # <<>> /\ v[Len(v)] = e
  BY <1>1, <1>2, EmptyHasNone
<1> HIDE DEF n
<1>4. \A i \in DOMAIN v : i \in Nat /\ (v[i].of = "byte" => i \in DOMAIN u)
  BY <1>2
<1>5. Ascending(v)
  BY <1>2, <1>4 DEF Ascending
<1>6. BoundariesInFront(v)
  <2> SUFFICES ASSUME NEW i \in DOMAIN v, NEW j \in DOMAIN v, j = i + 1,
                      v[i].of = "boundary", v[j].of = "byte"
               PROVE  v[i].at = v[j].at
    BY DEF BoundariesInFront
  <2>1. j \in DOMAIN u /\ i \in DOMAIN u
    BY <1>2, <1>4
  <2> QED BY <2>1, <1>2 DEF BoundariesInFront
<1>7. BytesOf(v) = BytesOf(u)
  <2>1. DOMAIN u \subseteq DOMAIN v
    BY <1>2
  <2> QED BY <2>1, <1>2, <1>4 DEF BytesOf
<1> QED BY <1>1, <1>3, <1>5, <1>6, <1>7 DEF n
-----------------------------------------------------------------------------
(* How far an answer has come.                                             *)

LEMMA LayOutTypes ==
    ASSUME NEW length, NEW t, LayOut(t, length)
    PROVE  /\ Len(t) \in Nat /\ DOMAIN t = 1..Len(t) /\ t \in Seq(Ranges)
           /\ \A i \in DOMAIN t : /\ i \in Nat /\ t[i].location \in Nat /\ t[i].length \in Nat
                                  /\ DDMaxRange(t[i]) = t[i].location + t[i].length
<1>1. t \in Seq(Ranges)
  BY DEF LayOut
<1>2. Len(t) \in Nat /\ DOMAIN t = 1..Len(t) /\ \A i \in 1..Len(t) : t[i] \in Ranges
  BY <1>1, LenProperties, ElementOfSeq
<1> QED BY <1>1, <1>2 DEF Ranges, DDMaxRange

LEMMA CoveredIs ==
    ASSUME NEW length \in Nat, NEW t, LayOut(t, length), NEW k \in DOMAIN t, NEW at \in Nat,
           t[k].location <= at, at <= DDMaxRange(t[k])
    PROVE  /\ \A b \in Covered(t, k, at) : b \in Nat /\ b < at
           /\ Covered(t, k, at) \subseteq Spans(t)
           /\ at = DDMaxRange(t[k]) /\ k = Len(t) => Covered(t, k, at) = Spans(t)
<1>1. /\ Len(t) \in Nat /\ DOMAIN t = 1..Len(t)
      /\ \A i \in DOMAIN t : /\ i \in Nat /\ t[i].location \in Nat /\ t[i].length \in Nat
                             /\ DDMaxRange(t[i]) = t[i].location + t[i].length
  BY LayOutTypes
<1>2. \A i \in DOMAIN t : i < k => DDMaxRange(t[i]) <= at
  <2>1. \A i \in DOMAIN t : i < k => DDMaxRange(t[i]) <= t[k].location
    BY DEF LayOut
  <2> QED BY <1>1, <2>1
<1>3. \A b \in Covered(t, k, at) : b \in Nat /\ b < at
  BY <1>1, <1>2 DEF Covered
<1>5. Covered(t, k, at) \subseteq Spans(t)
  <2>1. \A b \in Nat : b < at => b < DDMaxRange(t[k])
    BY <1>1
  <2> QED BY <2>1 DEF Covered, Spans
<1>6. at = DDMaxRange(t[k]) /\ k = Len(t) => Covered(t, k, at) = Spans(t)
  <2>1. k = Len(t) => \A i \in DOMAIN t : i < k \/ i = k
    BY <1>1
  <2> QED BY <2>1 DEF Covered, Spans
<1> QED BY <1>3, <1>5, <1>6

LEMMA CoveredGrows ==
    ASSUME NEW t, NEW k \in DOMAIN t, NEW at \in Nat, t[k].location \in Nat,
           t[k].location <= at, NEW c \in Nat
    PROVE  Covered(t, k, at) \cup Run(at, c) = Covered(t, k, at + c)
<1>1. \A b \in Nat : t[k].location <= b => (b < at + c <=> b < at \/ b \in at..(at + c - 1))
  OBVIOUS
<1>2. \A b \in at..(at + c - 1) : b \in Nat /\ t[k].location <= b
  OBVIOUS
<1> QED BY <1>1, <1>2 DEF Covered, Run

LEMMA CoveredNext ==
    ASSUME NEW length \in Nat, NEW t, LayOut(t, length), NEW k \in DOMAIN t, k + 1 \in DOMAIN t
    PROVE  Covered(t, k + 1, t[k + 1].location) = Covered(t, k, DDMaxRange(t[k]))
<1>1. /\ Len(t) \in Nat /\ DOMAIN t = 1..Len(t) /\ \A i \in DOMAIN t : i \in Nat
      /\ t[k + 1].location \in Nat
  BY LayOutTypes
<1>2. \A i \in DOMAIN t : (i < k + 1 <=> i < k \/ i = k)
  BY <1>1
<1>3. \A b \in Nat : ~(t[k + 1].location <= b /\ b < t[k + 1].location)
  BY <1>1
<1> QED BY <1>2, <1>3 DEF Covered

LEMMA CoveredFirst ==
    ASSUME NEW length \in Nat, NEW t, LayOut(t, length), 1 \in DOMAIN t
    PROVE  Covered(t, 1, t[1].location) = {}
<1>1. t[1].location \in Nat /\ \A i \in DOMAIN t : ~(i < 1)
  BY LayOutTypes
<1> QED BY <1>1 DEF Covered

\* Without ranges the whole resource is one.
LEMMA TodoIs ==
    ASSUME NEW length \in Nat, NEW found, LayOut(found, length), NEW t, t = Todo(found, length)
    PROVE  /\ LayOut(t, length) /\ 1 \in DOMAIN t
           /\ found # <<>> => t = found
           /\ found = <<>> => /\ Len(t) = 1 /\ t[1].location = 0 /\ t[1].length = length
                              /\ Spans(t) = 0..(length - 1)
<1>1. CASE found = <<>>
  <2> DEFINE r == [location |-> 0, length |-> length]
  <2>1. t = <<r>> /\ r \in Ranges /\ DDMaxRange(r) = length
    BY <1>1 DEF Todo, Ranges, DDMaxRange
  <2>2. r.location = 0 /\ r.length = length
    OBVIOUS
  <2> HIDE DEF r
  <2>3. /\ t \in Seq(Ranges) /\ Len(t) = 1 /\ DOMAIN t = {1} /\ t[1] = r
    BY <2>1
  <2>4. LayOut(t, length)
    BY <2>1, <2>3 DEF LayOut
  <2>5. Spans(t) = 0..(length - 1)
    BY <2>1, <2>2, <2>3 DEF Spans
  <2> QED BY <1>1, <2>2, <2>3, <2>4, <2>5
<1>2. CASE found # <<>>
  <2>1. t = found
    BY <1>2 DEF Todo
  <2>2. Len(found) \in Nat /\ DOMAIN found = 1..Len(found) /\ Len(found) # 0
    BY <1>2, LayOutTypes, EmptySeq
  <2> QED BY <1>2, <2>1, <2>2
<1> QED BY <1>1, <1>2

\* What is asked for is what is to be sent.
LEMMA AskedIs ==
    ASSUME NEW r \in Requests, Says[r].target \in DOMAIN Length,
           NEW length, length = Length[Says[r].target],
           NEW found \in ParseRangeRequest(Says[r].ranges, length)
    PROVE  /\ length \in Nat /\ LayOut(found, length)
           /\ Says[r].method # "HEAD" => Asked(r) = Spans(Todo(found, length))
           /\ HeadOnly(r) => Asked(r) = {}
<1> DEFINE components == Says[r].ranges
<1>1. length \in Nat /\ components \in Seq(Components)
  BY LengthAssumption, SaysAssumption DEF Components
<1>2. /\ LayOut(found, length)
      /\ found = <<>> <=> ~Honoured(components, length)
      /\ found # <<>> =>
            Spans(found) = UNION {Selects(components[i], length) : i \in DOMAIN components}
  BY <1>1, ParsesWhatIsAsked
<1>3. /\ found # <<>> => Todo(found, length) = found
      /\ found = <<>> => Spans(Todo(found, length)) = 0..(length - 1)
  BY <1>1, <1>2, TodoIs
<1>4. Says[r].method # "HEAD" => Asked(r) = Spans(Todo(found, length))
  BY <1>2, <1>3 DEF Asked
<1>5. HeadOnly(r) => Asked(r) = {}
  <2>1. Asked(r) \subseteq 0..(length - 1) \/ Says[r].method = "HEAD"
    <3>1. \A c : Selects(c, length) \subseteq 0..(length - 1)
      BY DEF Selects
    <3> QED BY <3>1 DEF Asked
  <2>2. Says[r].method = "HEAD" => Asked(r) = {}
    BY DEF Asked
  <2>3. length = 0 => 0..(length - 1) = {}
    BY <1>1
  <2> QED BY <2>1, <2>2, <2>3 DEF HeadOnly
<1> QED BY <1>1, <1>2, <1>4, <1>5

LEMMA ContentLengthIs ==
    ASSUME NEW length \in Nat, NEW found, LayOut(found, length), NEW t, t = Todo(found, length)
    PROVE  /\ ContentLength(found, length) \in Nat
           /\ Len(found) <= 1 => ContentLength(found, length) = t[1].length
           /\ Len(found) > 1 =>
                 ContentLength(found, length)
                    = Sums(t)[Len(t) - 1] + t[Len(t)].length + Len(t) + 1
<1> DEFINE n == Len(found)
<1>1. /\ n \in Nat /\ DOMAIN found = 1..n /\ found \in Seq(Ranges)
      /\ \A i \in 1..n : found[i].length \in Nat
      /\ found = <<>> <=> n = 0
  BY LayOutTypes, EmptySeq
<1>2. /\ 1 \in DOMAIN t /\ (found # <<>> => t = found)
      /\ found = <<>> => t[1].length = length
  BY TodoIs
<1>3. /\ Sums(found) \in [0..n -> Nat]
      /\ \A i \in 1..n : Sums(found)[i] = Sums(found)[i - 1] + found[i].length
  BY <1>1, SumsAre
<1>4. /\ Total(found) = Sums(found)[n]
      /\ ContentLength(found, length) = IF n = 0 THEN length
                                        ELSE IF n = 1 THEN found[1].length
                                        ELSE Total(found) + n + 1
  BY <1>1 DEF Total, ContentLength
<1> HIDE DEF n
<1>5. CASE n = 0
  <2>1. ~(n > 1)
    BY <1>5
  <2> QED BY <1>1, <1>2, <1>4, <1>5, <2>1 DEF n
<1>6. CASE n = 1
  <2>1. ~(n > 1) /\ 1 \in 1..n /\ n # 0
    BY <1>6
  <2>2. t = found
    BY <1>1, <1>2, <2>1
  <2> QED BY <1>1, <1>4, <1>6, <2>1, <2>2 DEF n
<1>7. CASE n > 1
  <2>1. n \in 1..n /\ n # 0 /\ n # 1 /\ ~(n <= 1) /\ n \in 0..n /\ n - 1 \in 0..n
    BY <1>1, <1>7
  <2>2. t = found
    BY <1>1, <1>2, <2>1
  <2>3. Sums(found)[n] \in Nat /\ Sums(found)[n] = Sums(found)[n - 1] + found[n].length
    BY <1>3, <2>1
  <2>4. ContentLength(found, length) = Sums(found)[n] + n + 1
    BY <1>4, <2>1
  <2>5. /\ ContentLength(found, length) \in Nat
        /\ ContentLength(found, length) = Sums(found)[n - 1] + found[n].length + n + 1
    BY <2>3, <2>4, <1>1
  <2> QED BY <2>1, <2>2, <2>5 DEF n
<1>8. n = 0 \/ n = 1 \/ n > 1
  BY <1>1
<1> QED BY <1>5, <1>6, <1>7, <1>8
-----------------------------------------------------------------------------
(* A piece of an answer is delivered.                                      *)

\* How many bytes are read.
LEMMA ReadIs ==
    ASSUME NEW response, response.target \in DOMAIN Length, NEW at \in Nat, NEW n \in Nat,
           at + n <= Length[response.target], NEW c \in MayRead(response, at, Chunk(n))
    PROVE  c \in Nat /\ c <= n /\ c <= READ_CHUNKSIZE
<1> DEFINE length == Length[response.target]
           left == Least(Chunk(n), length - at)
<1>1. length \in Nat /\ READ_CHUNKSIZE \in Nat
  BY LengthAssumption, SizeAssumption
<1>2. left \in Nat /\ left <= n /\ left <= READ_CHUNKSIZE
  <2> HIDE DEF length
  <2>1. at + n <= length
    BY DEF length
  <2> QED BY <1>1, <2>1 DEF Least, Chunk
<1>3. c \in {0} \/ c \in 0..left \/ c \in {left}
  BY DEF MayRead
<1> HIDE DEF left
<1> QED BY <1>1, <1>2, <1>3

\* The pieces of one delivery: headers, and one piece behind them if something was read.
LEMMA PiecesAre ==
    ASSUME NEW headers \in Seq(Pieces), \A tag \in TagsIn(headers) : ~Turns(tag),
           NEW p \in Pieces, NEW q, q = <<>> \/ q = <<p>>, NEW pieces, pieces = headers \o q
    PROVE  /\ pieces \in Seq(Pieces) /\ TurnIsLast(pieces)
           /\ \A tag \in TagsIn(pieces) : Turns(tag) => q = <<p>> /\ tag = p.tag
<1> DEFINE S == Pieces
<1> HIDE DEF S
<1>1. headers \in Seq(S) /\ p \in S
  BY DEF S
<1>2. CASE q = <<>>
  <2>1. pieces = headers
    BY <1>1, <1>2, ConcatEmptySeq
  <2> QED BY <2>1, <1>1 DEF TurnIsLast, TagsIn, S
<1>3. CASE q = <<p>>
  <2>1. pieces = Append(headers, p)
    BY <1>1, <1>3, AppendIsConcat
  <2>2. /\ pieces \in Seq(S) /\ Len(headers) \in Nat /\ DOMAIN headers = 1..Len(headers)
        /\ DOMAIN pieces = 1..(Len(headers) + 1) /\ Len(pieces) = Len(headers) + 1
        /\ \A i \in DOMAIN headers : pieces[i] = headers[i]
        /\ pieces[Len(headers) + 1] = p
    BY <1>1, <2>1, AppendIndex, AppendProperties
  <2>3. \A i \in DOMAIN pieces : i \in DOMAIN headers \/ i = Len(headers) + 1
    BY <2>2
  <2>4. \A i \in DOMAIN pieces : Turns(pieces[i].tag) => i = Len(pieces) /\ pieces[i] = p
    BY <2>2, <2>3 DEF TagsIn
  <2> QED BY <2>2, <2>4, <1>3 DEF TurnIsLast, TagsIn, S
<1> QED BY <1>2, <1>3

\* The turn that is taken is handed on by the piece that is written, if one is.
LEMMA DeliversSocket ==
    ASSUME IInv, connectionQueue # <<>>, Turn(Head(connectionQueue)),
           UNCHANGED <<open, reading, closing>>,
           NEW headers \in Seq(Pieces), \A tag \in TagsIn(headers) : ~Turns(tag),
           NEW p \in Pieces, NEW q, q = <<>> \/ q = <<p>>,
           NEW pieces, pieces = headers \o q, Writes(pieces),
           \/ connectionQueue' = Tail(connectionQueue)
           \/ connectionQueue' = Tail(connectionQueue) \o <<Call("abort", "")>>
    PROVE  /\ SocketInv' /\ ~AtRest'
           /\ \A tag \in Tags : Turns(tag) /\ OnItsWay(tag)' => q = <<p>> /\ tag = p.tag
<1>1. /\ pieces \in Seq(Pieces) /\ TurnIsLast(pieces)
      /\ \A tag \in TagsIn(pieces) : Turns(tag) => q = <<p>> /\ tag = p.tag
  BY PiecesAre
<1>2. /\ SocketInv' /\ NoTurn(connectionQueue') /\ ~reading'
      /\ \A tag \in Tags : Turns(tag) /\ OnItsWay(tag)' => tag \in TagsIn(pieces)
  BY <1>1, GoesOn DEF IInv
<1>3. ~AtRest'
  BY <1>2 DEF AtRest, NoTurn, Turn, Entries
<1> QED BY <1>1, <1>2, <1>3

LEMMA StageGrows ==
    ASSUME NEW length \in Nat, NEW found, NEW k, NEW at, NEW u, Stage(found, length, k, at, u),
           FitsAt(u, at), NEW t, t = Todo(found, length),
           NEW c \in Nat, at + c <= DDMaxRange(t[k]), NEW v, v = With(u, at, c)
    PROVE  /\ Stage(found, length, k, at + c, v)
           /\ BytesOf(v) \subseteq Spans(t)
           /\ k = Len(t) /\ at + c = DDMaxRange(t[k]) => BytesOf(v) = Spans(t)
           /\ c # 0 => EndsInByte(v)
<1>1. /\ LayOut(found, length) /\ k \in DOMAIN t /\ at \in Nat
      /\ t[k].location <= at /\ at <= DDMaxRange(t[k])
      /\ u \in Seq(Units) /\ Ascending(u) /\ BoundariesInFront(u)
      /\ BytesOf(u) = Covered(t, k, at)
      /\ Len(u) = Sums(t)[k - 1] + (at - t[k].location) + Marks(found, k)
  BY DEF Stage
<1>2. LayOut(t, length)
  BY <1>1, TodoIs
<1>3. t[k].location \in Nat /\ t[k].length \in Nat /\ t \in Seq(Ranges) /\ k \in 1..Len(t)
  BY <1>1, <1>2, LayOutTypes
<1>4. \A b \in Covered(t, k, at) : b < at
  BY <1>1, <1>2, CoveredIs
<1>11. Covered(t, k, at) \cup Run(at, c) = Covered(t, k, at + c)
  BY <1>1, <1>3, CoveredGrows
<1>5. at + c \in Nat /\ t[k].location <= at + c
  BY <1>1, <1>3
<1>6. /\ v \in Seq(Units) /\ Len(v) = Len(u) + c
      /\ Ascending(v) /\ BoundariesInFront(v)
      /\ BytesOf(v) = BytesOf(u) \cup Run(at, c)
      /\ c # 0 => EndsInByte(v)
  <2>1. \A b \in BytesOf(u) : b < at
    BY <1>1, <1>4
  <2>2. u \in Seq(Units) /\ Ascending(u) /\ BoundariesInFront(u) /\ at \in Nat /\ c \in Nat /\ FitsAt(u, at)
    BY <1>1
  <2>3. v \in Seq(Units)
    BY <2>2, <2>1, BodyGrows
  <2>4. Len(v) = Len(u) + c
    BY <2>2, <2>1, BodyGrows
  <2>5. Ascending(v) /\ BoundariesInFront(v)
    BY <2>2, <2>1, BodyGrows
  <2>6. BytesOf(v) = BytesOf(u) \cup Run(at, c)
    BY <2>2, <2>1, BodyGrows
  <2>7. c # 0 => EndsInByte(v)
    BY <2>2, <2>1, BodyGrows
  <2> QED BY <2>3, <2>4, <2>5, <2>6, <2>7
<1>7. BytesOf(v) = Covered(t, k, at + c)
  BY <1>1, <1>11, <1>6
<1>8. /\ Covered(t, k, at + c) \subseteq Spans(t)
      /\ at + c = DDMaxRange(t[k]) /\ k = Len(t) => Covered(t, k, at + c) = Spans(t)
  BY <1>1, <1>2, <1>5, CoveredIs
<1>9. Len(v) = Sums(t)[k - 1] + ((at + c) - t[k].location) + Marks(found, k)
  <2>1. Sums(t)[k - 1] \in Nat
    <3>1. k - 1 \in 0..Len(t) /\ Len(t) \in Nat
      BY <1>3, LenProperties
    <3> QED BY <1>3, <3>1, SumsAre
  <2>2. Marks(found, k) \in Nat
    BY <1>3 DEF Marks
  <2>3. PICK l : l = Len(u)
    OBVIOUS
  <2>4. PICK s \in Nat, m \in Nat : s = Sums(t)[k - 1] /\ m = Marks(found, k)
    BY <2>1, <2>2
  <2>5. l = s + (at - t[k].location) + m /\ Len(v) = l + c
    BY <1>1, <1>6, <2>3, <2>4
  <2>6. l + c = s + ((at + c) - t[k].location) + m
    BY <1>1, <1>3, <2>5
  <2> QED BY <2>4, <2>5, <2>6
<1>10. Stage(found, length, k, at + c, v)
  BY <1>1, <1>5, <1>6, <1>7, <1>9 DEF Stage
<1> QED BY <1>6, <1>7, <1>8, <1>10

LEMMA DeliversStep ==
    ASSUME IInv, connectionQueue # <<>>, Turn(Head(connectionQueue)),
           UNCHANGED <<open, reading, closing, numHeaderLines, heard>>,
           NEW r \in Requests, Supported(r), Says[r].target \in DOMAIN Length, ~HeadOnly(r),
           request' = r, NEW length, length = Length[Says[r].target],
           NEW found \in ParseRangeRequest(Says[r].ranges, length), ranges' = found,
           declared' = ContentLength(found, length),
           rangeIndex' \in Nat \ {0}, NEW k, At' = k,
           NEW response \in [target : DOMAIN Length, offset : Nat, aborted : BOOLEAN],
           response.target = Says[r].target,
           NEW sizes, sizes = <<>>,
           NEW headers \in Seq(Pieces), \A tag \in TagsIn(headers) : ~Turns(tag),
           NEW units, NEW at, Stage(found, length, k, at, units), FitsAt(units, at),
           NEW n, n = DDMaxRange(Todo(found, length)[k]) - at,
           NEW part, part = PartOf(found),
           Delivers(Tail(connectionQueue), response, sizes, headers, units, at, n, part)
    PROVE  IInv'
<1> DEFINE t == Todo(found, length)
           q == Tail(connectionQueue)
<1>1. /\ length \in Nat /\ LayOut(found, length) /\ LayOut(t, length)
      /\ Asked(r) = Spans(t) /\ k \in DOMAIN t /\ at \in Nat /\ at <= DDMaxRange(t[k])
  <2>1. length \in Nat /\ LayOut(found, length) /\ Asked(r) = Spans(t)
    BY AskedIs DEF HeadOnly
  <2> QED BY <2>1, TodoIs DEF Stage
<1>2. /\ DDMaxRange(t[k]) \in Nat /\ DDMaxRange(t[k]) <= length
      /\ n \in Nat /\ at + n = DDMaxRange(t[k])
  <2>1. DDMaxRange(t[k]) \in Nat
    BY <1>1, LayOutTypes
  <2>2. DDMaxRange(t[k]) <= length
    BY <1>1 DEF LayOut
  <2> QED BY <1>1, <2>1, <2>2
<1>3. part \in Tags /\ Turns(part) /\ part \notin Final
  BY DEF PartOf, Tags, Final, Turns
<1> HIDE DEF t
<1>4. PICK c \in MayRead(response, at, Chunk(n)) :
         /\ httpResponse' = [target |-> response.target, offset |-> at + c,
                aborted |-> response.aborted
                              \/ (c = 0 /\ response.target \in Files /\ ~response.aborted)]
         /\ connectionQueue' = q \o
               (IF c = 0 /\ response.target \in Files /\ ~response.aborted
                THEN <<Call("abort", "")>> ELSE <<>>)
         /\ body' = units \o Bytes(at, c)
         /\ Writes(headers \o IF c = 0 THEN <<>> ELSE <<Piece(TagOf(part, c = n), Bytes(at, c))>>)
         /\ responseDataSizes' = IF c = 0 THEN sizes ELSE Append(sizes, c)
  BY DEF Delivers
<1>5. c \in Nat /\ c <= n /\ c <= READ_CHUNKSIZE
  BY <1>1, <1>2, ReadIs
<1>6. /\ SocketInv' /\ ~AtRest'
      /\ \A tag \in Tags : Turns(tag) /\ OnItsWay(tag)' => c # 0 /\ tag = TagOf(part, c = n)
  <2>1. PICK p : p = Piece(TagOf(part, c = n), Bytes(at, c))
    OBVIOUS
  <2>2. PICK tail : tail = IF c = 0 THEN <<>> ELSE <<p>>
    OBVIOUS
  <2>3. PICK pieces : pieces = headers \o tail
    OBVIOUS
  <2>4. p \in Pieces /\ p.tag = TagOf(part, c = n)
    <3>1. Bytes(at, c) \in Seq(Units)
      BY <1>1, <1>5, BytesAre
    <3>2. TagOf(part, c = n) \in Tags
      BY <1>3 DEF TagOf, Tags, Final
    <3> QED BY <2>1, <3>1, <3>2 DEF Piece, Pieces
  <2>5. (tail = <<>> \/ tail = <<p>>) /\ (tail = <<p>> => c # 0)
    <3>1. <<p>> # <<>>
      OBVIOUS
    <3> QED BY <2>2, <3>1
  <2>6. Writes(pieces)
    BY <1>4, <2>1, <2>2, <2>3
  <2>7. q \in Seq(Calls) /\ q \o <<>> = q
    <3>1. q \in Seq(Calls)
      BY ServedEntries
    <3> HIDE DEF q
    <3> QED BY <3>1, ConcatEmptySeq
  <2>8. connectionQueue' = q \/ connectionQueue' = q \o <<Call("abort", "")>>
    BY <1>4, <2>7
  <2>9. /\ SocketInv' /\ ~AtRest'
        /\ \A tag \in Tags : Turns(tag) /\ OnItsWay(tag)' => tail = <<p>> /\ tag = p.tag
    BY <2>3, <2>4, <2>5, <2>6, <2>8, DeliversSocket
  <2> QED BY <2>4, <2>5, <2>9
<1>7. /\ at + c \in Nat /\ at + c <= DDMaxRange(t[k])
      /\ c = n <=> at + c = DDMaxRange(t[k])
  BY <1>1, <1>2, <1>5
<1>8. /\ Stage(found, length, k, at + c, body')
      /\ BytesOf(body') \subseteq Spans(t)
      /\ k = Len(t) /\ c = n => BytesOf(body') = Spans(t)
      /\ c # 0 => EndsInByte(body')
  <2>1. PICK v : v = body'
    OBVIOUS
  <2>2. v = With(units, at, c)
    BY <1>4, <2>1 DEF With
  <2>3. /\ Stage(found, length, k, at + c, v)
        /\ BytesOf(v) \subseteq Spans(t)
        /\ k = Len(t) /\ at + c = DDMaxRange(t[k]) => BytesOf(v) = Spans(t)
        /\ c # 0 => EndsInByte(v)
    BY <1>1, <1>5, <1>7, <2>2, StageGrows DEF t
  <2> QED BY <1>7, <2>1, <2>3
<1>9. PICK aborted \in BOOLEAN :
         httpResponse' = [target |-> Says[r].target, offset |-> at + c, aborted |-> aborted]
  <2>1. PICK aborts : aborts = (c = 0 /\ response.target \in Files /\ ~response.aborted)
    OBVIOUS
  <2>2. aborts \in BOOLEAN
    BY <2>1
  <2>3. httpResponse' = [target |-> Says[r].target, offset |-> at + c,
                         aborted |-> response.aborted \/ aborts]
    BY <1>4, <2>1
  <2>4. (response.aborted \/ aborts) \in BOOLEAN
    BY <2>2
  <2> QED BY <2>3, <2>4
<1>10. /\ httpResponse' # Nil /\ httpResponse'.target = Says[r].target /\ httpResponse'.offset = at + c
       /\ httpResponse' \in [target : DOMAIN Length, offset : Nat, aborted : BOOLEAN]
  BY <1>7, <1>9, NilAssumption
<1>11. /\ responseDataSizes' \in Seq(Sizes) /\ Len(responseDataSizes') <= 1
       /\ c # 0 => Len(responseDataSizes') = 1
  <2>1. CASE c = 0
    <3>1. responseDataSizes' = <<>>
      BY <1>4, <2>1
    <3>2. <<>> \in Seq(Sizes) /\ Len(<<>>) = 0
      BY EmptySeq
    <3> QED BY ONLY <2>1, <3>1, <3>2
  <2>2. CASE c # 0
    <3>1. c \in Sizes
      BY <1>5, <2>2, SizeAssumption DEF Sizes
    <3>2. responseDataSizes' = <<c>>
      BY <1>4, <2>2
    <3> QED BY <3>1, <3>2
  <2> QED BY <2>1, <2>2
<1>12. AnswerTypeOK'
  <2>1. found \in Seq(Ranges) /\ declared' \in Nat /\ body' \in Seq(Units)
    BY <1>1, <1>8, ContentLengthIs DEF LayOut, Stage
  <2> QED BY <1>10, <1>11, <2>1 DEF AnswerTypeOK, IInv
<1>13. RestInv'
  BY <1>6 DEF RestInv
<1>14. Given' /\ Target' = Says[r].target
  BY <1>10 DEF Given, Target
<1>15. BytesOf(body') \subseteq Asked(r) /\ Ascending(body') /\ BoundariesInFront(body')
  BY <1>1, <1>8 DEF Stage
<1>16. ASSUME NEW tag \in Tags, OnItsWay(tag)', Turns(tag)
       PROVE  (IF tag \in Final THEN httpResponse # Nil => Complete ELSE Begun(tag))'
  <2>1. c # 0 /\ tag = TagOf(part, c = n)
    BY <1>6, <1>16
  <2>2. CASE c = n /\ part # "HTTP_PARTIAL_RANGES_RESPONSE_BODY"
    <3>1. tag \in Final
      BY <2>1, <2>2 DEF TagOf, Final
    <3>2. Len(found) <= 1 /\ Len(t) = 1
      <4>1. found = <<>> \/ Len(found) = 1
        BY <2>2 DEF PartOf
      <4>2. CASE found = <<>>
        <5>1. Len(found) <= 1
          BY <4>2
        <5>2. Len(t) = 1
          BY <1>1, <4>2, TodoIs DEF t
        <5> QED BY <5>1, <5>2
      <4>3. CASE found # <<>>
        <5>1. t = found
          BY <1>1, <4>3, TodoIs DEF t
        <5>2. Len(found) = 1
          BY ONLY <4>1, <4>3
        <5>3. Len(found) <= 1
          BY ONLY <5>2
        <5>4. Len(t) = 1
          BY ONLY <5>1, <5>2, Zenon
        <5> QED BY ONLY <5>3, <5>4
      <4> QED BY <4>2, <4>3
    <3>3. k = 1 /\ k = Len(t) /\ t[1].length \in Nat /\ t[1].location \in Nat
      BY <1>1, <3>2, LayOutTypes
    <3>4. BytesOf(body') = Asked(r)
      BY <1>1, <1>8, <2>2, <3>3
    <3>5. Len(body') = declared'
      <4>1. Len(body') = Sums(t)[k - 1] + ((at + c) - t[k].location) + Marks(found, k)
        BY <1>8 DEF Stage, t
      <4>2. Sums(t)[0] = 0
        BY <1>1, SumsAre DEF LayOut
      <4>3. Marks(found, k) = 0
        <5>1. Len(found) \in Nat
          BY <1>1, LayOutTypes
        <5> QED BY <3>2, <5>1 DEF Marks
      <4>4. at + c = t[1].location + t[1].length
        BY <1>7, <2>2, <3>3 DEF DDMaxRange
      <4>5. declared' = t[1].length
        BY <1>1, <3>2, ContentLengthIs DEF t
      <4>6. k - 1 = 0
        BY <3>3
      <4>7. Len(body') = 0 + ((at + c) - t[1].location) + 0
        BY <4>1, <4>2, <4>3, <4>6, <3>3
      <4> QED BY <4>4, <4>5, <4>7, <3>3
    <3>6. Complete'
      BY <3>4, <3>5 DEF Complete
    <3> QED BY <3>1, <3>6
  <2>3. CASE ~(c = n /\ part # "HTTP_PARTIAL_RANGES_RESPONSE_BODY")
    <3>1. tag = part
      BY <2>1, <2>3 DEF TagOf
    <3>2. tag # "HTTP_PARTIAL_RANGES_RESPONSE_BODY" => at + c < DDMaxRange(t[k])
      BY <1>1, <1>2, <1>5, <1>7, <2>3, <3>1
    <3>3. Begun(tag)'
      BY <1>8, <1>10, <1>11, <1>14, <2>1, <3>1, <3>2 DEF Begun, t
    <3> QED BY <1>3, <3>1, <3>3
  <2> QED BY <2>2, <2>3
<1> QED BY <1>6, <1>10, <1>12, <1>13, <1>14, <1>15, <1>16 DEF IInv, AnswerInv
-----------------------------------------------------------------------------
(* A request is answered.                                                  *)

LEMMA EmptyBody ==
    /\ <<>> \in Seq(Units) /\ Len(<<>>) = 0 /\ BytesOf(<<>>) = {}
    /\ Ascending(<<>>) /\ BoundariesInFront(<<>>)
<1>1. DOMAIN <<>> = {}
  BY EmptyHasNone
<1> QED BY <1>1, EmptySeq DEF BytesOf, Ascending, BoundariesInFront

\* Before the first byte: with several ranges their first boundary, and else nothing.
LEMMA FirstStage ==
    ASSUME NEW length \in Nat, NEW found, LayOut(found, length), NEW t, t = Todo(found, length),
           NEW at, at = t[1].location,
           NEW u, u = IF Len(found) > 1 THEN <<Boundary(found[1])>> ELSE <<>>
    PROVE  /\ Stage(found, length, 1, at, u) /\ FitsAt(u, at)
           /\ 1 \in DOMAIN t /\ at \in Nat /\ t[1].length \in Nat
           /\ DDMaxRange(t[1]) - at = t[1].length
<1>1. LayOut(t, length) /\ 1 \in DOMAIN t /\ (found # <<>> => t = found)
  BY TodoIs
<1>2. /\ at \in Nat /\ t[1].length \in Nat /\ DDMaxRange(t[1]) = at + t[1].length
      /\ t \in Seq(Ranges)
  BY <1>1, LayOutTypes
<1>3. at <= DDMaxRange(t[1]) /\ DDMaxRange(t[1]) - at = t[1].length
  BY <1>2
<1>4. Covered(t, 1, at) = {}
  BY <1>1, CoveredFirst
<1>5. Sums(t)[0] = 0
  BY <1>2, SumsAre
<1>6. /\ u \in Seq(Units) /\ Ascending(u) /\ BoundariesInFront(u) /\ BytesOf(u) = {}
      /\ Len(u) = Marks(found, 1) /\ FitsAt(u, at)
  <2>1. CASE Len(found) > 1
    <3>1. PICK e : e = Boundary(found[1])
      OBVIOUS
    <3>2. t = found
      <4>1. found # <<>>
        BY <2>1
      <4> QED BY <1>1, <4>1
    <3>3. e \in Units /\ e.of # "byte" /\ e.at = at
      BY <1>2, <3>1, <3>2 DEF Boundary, Unit, Units
    <3>4. u = Append(<<>>, e)
      BY <2>1, <3>1
    <3>5. /\ u \in Seq(Units) /\ Len(u) = Len(<<>>) + 1
          /\ Ascending(u) /\ BoundariesInFront(u) /\ BytesOf(u) = BytesOf(<<>>)
          /\ u # <<>> /\ u[Len(u)] = e
      BY <3>3, <3>4, EmptyBody, BodyMarked
    <3>6. Len(u) = 1 /\ Marks(found, 1) = 1
      BY <2>1, <3>5, EmptyBody DEF Marks
    <3> QED BY <3>3, <3>5, <3>6, EmptyBody DEF FitsAt
  <2>2. CASE ~(Len(found) > 1)
    BY <2>2, EmptyBody DEF Marks, FitsAt
  <2> QED BY <2>1, <2>2
<1>7. Len(u) = Sums(t)[1 - 1] + (at - t[1].location) + Marks(found, 1)
  <2>1. Marks(found, 1) \in Nat /\ 1 - 1 = 0 /\ at - t[1].location = 0
    BY <1>2 DEF Marks
  <2> QED BY <1>5, <1>6, <2>1
<1>8. t[1].location <= at
  BY <1>2
<1>9. Stage(found, length, 1, at, u)
  BY <1>1, <1>2, <1>3, <1>4, <1>6, <1>7, <1>8 DEF Stage
<1> QED BY <1>1, <1>2, <1>3, <1>6, <1>9

\* A request without a body to send: a header is all.
LEMMA HeadStep ==
    ASSUME IInv, NEW r \in Requests, Replies(r), HeadOnly(r),
           NEW length, length = Length[Says[r].target],
           NEW found \in ParseRangeRequest(Says[r].ranges, length), Chooses(found, length),
           Writes(<<Header("HTTP_RESPONSE")>>), httpResponse' = ResponseTo(r), body' = <<>>,
           connectionQueue' = Tail(connectionQueue), UNCHANGED responseDataSizes
    PROVE  IInv'
<1> DEFINE p == Header("HTTP_RESPONSE")
           t == Todo(found, length)
<1>1. p \in Pieces /\ p.tag = "HTTP_RESPONSE" /\ p.tag \in Final
  BY TagsAre DEF Tags, Final
<1> HIDE DEF p
<1>2. <<p>> \in Seq(Pieces) /\ TurnIsLast(<<p>>) /\ TagsIn(<<p>>) = {p.tag}
  BY <1>1, OnePiece
<1>3. /\ Heard(r) /\ Supported(r) /\ Says[r].target \in DOMAIN Length /\ request' = r
      /\ UNCHANGED <<open, reading, closing, numHeaderLines, heard>>
  BY DEF Replies, Heard
<1>4. /\ connectionQueue # <<>> /\ Turn(Head(connectionQueue)) /\ responseDataSizes = <<>>
      /\ numHeaderLines <= MAX_HEADER_LINES
  BY <1>3, HeardAtRest
<1>5. /\ SocketInv' /\ NoTurn(connectionQueue') /\ ~reading'
      /\ \A g \in Tags : Turns(g) /\ OnItsWay(g)' => g \in TagsIn(<<p>>)
  BY <1>2, <1>3, <1>4, GoesOn DEF IInv, p
<1>6. RestInv'
  BY <1>5 DEF RestInv, AtRest, NoTurn, Turn, Entries
<1>7. length \in Nat /\ LayOut(found, length) /\ Asked(r) = {}
  BY <1>3, AskedIs
<1>8. /\ ranges' = found /\ declared' = ContentLength(found, length)
      /\ rangeIndex' \in Nat \ {0}
  BY DEF Chooses, IInv, AnswerTypeOK
<1>9. /\ httpResponse' \in [target : DOMAIN Length, offset : Nat, aborted : BOOLEAN]
      /\ httpResponse'.target = Says[r].target
  BY <1>3 DEF ResponseTo
<1>10. AnswerTypeOK'
  <2>1. found \in Seq(Ranges) /\ declared' \in Nat
    BY <1>7, <1>8, ContentLengthIs DEF LayOut
  <2>2. responseDataSizes' = <<>> /\ <<>> \in Seq(Sizes) /\ Len(<<>>) <= 1
    BY <1>4, EmptySeq
  <2> QED BY <1>3, <1>8, <1>9, <2>1, <2>2, EmptyBody DEF AnswerTypeOK, IInv
<1>11. Given'
  BY <1>3, <1>8, <1>9 DEF Given, Target
<1>12. Says[r].method # "HEAD" => Len(body') = declared' \/ RangesOfNothing'
  <2> SUFFICES ASSUME Says[r].method # "HEAD" PROVE Len(body') = declared' \/ RangesOfNothing'
    OBVIOUS
  <2>1. length = 0
    BY DEF HeadOnly
  <2>2. CASE Len(found) > 1
    BY <1>8, <1>9, <2>1, <2>2 DEF RangesOfNothing
  <2>3. CASE Len(found) <= 1
    <3>1. LayOut(t, length) /\ 1 \in DOMAIN t
      BY <1>7, TodoIs
    <3>2. declared' = t[1].length
      BY <1>7, <1>8, <2>3, ContentLengthIs
    <3> HIDE DEF t
    <3>3. /\ t[1].location \in Nat /\ t[1].length \in Nat
          /\ DDMaxRange(t[1]) = t[1].location + t[1].length
      BY <3>1, LayOutTypes
    <3>4. DDMaxRange(t[1]) <= 0
      BY <2>1, <3>1 DEF LayOut
    <3>5. declared' = 0
      BY <3>2, <3>3, <3>4
    <3> QED BY <3>5, EmptyBody
  <2>4. Len(found) > 1 \/ Len(found) <= 1
    <3>1. Len(found) \in Nat
      BY <1>7, LayOutTypes
    <3> QED BY <3>1
  <2> QED BY <2>2, <2>3, <2>4
<1>13. Complete'
  BY <1>3, <1>7, <1>12, EmptyBody DEF Complete
<1>14. BytesOf(body') \subseteq Asked(r) /\ Ascending(body') /\ BoundariesInFront(body')
  BY EmptyBody
<1>15. ASSUME NEW tag \in Tags, Turns(tag), OnItsWay(tag)' PROVE tag \in Final
  BY <1>1, <1>2, <1>5, <1>15
<1> QED BY <1>3, <1>5, <1>6, <1>10, <1>11, <1>13, <1>14, <1>15 DEF IInv, AnswerInv

\* A request with a body: the header, the first boundary if there are several ranges,
\* and what can be read first.
LEMMA FirstPieceStep ==
    ASSUME IInv, NEW r \in Requests, Replies(r), ~HeadOnly(r),
           NEW length, length = Length[Says[r].target],
           NEW found \in ParseRangeRequest(Says[r].ranges, length), Chooses(found, length),
           NEW headers \in Seq(Pieces), \A tag \in TagsIn(headers) : ~Turns(tag),
           NEW units, units = IF Len(found) > 1 THEN <<Boundary(found[1])>> ELSE <<>>,
           NEW at, at = Todo(found, length)[1].location,
           NEW n, n = Todo(found, length)[1].length, NEW part, part = PartOf(found),
           Delivers(Tail(connectionQueue), ResponseTo(r), responseDataSizes, headers, units,
              at, n, part)
    PROVE  IInv'
<1>1. /\ Heard(r) /\ Supported(r) /\ Says[r].target \in DOMAIN Length /\ request' = r
      /\ UNCHANGED <<open, reading, closing, numHeaderLines, heard>>
  BY DEF Replies, Heard
<1>2. /\ connectionQueue # <<>> /\ Turn(Head(connectionQueue)) /\ responseDataSizes = <<>>
  BY <1>1, HeardAtRest
<1>3. length \in Nat /\ LayOut(found, length)
  BY <1>1, AskedIs
<1>4. PICK t : t = Todo(found, length)
  OBVIOUS
<1>5. /\ Stage(found, length, 1, at, units) /\ FitsAt(units, at)
      /\ DDMaxRange(t[1]) - at = t[1].length
  BY <1>3, <1>4, FirstStage
<1>6. /\ ranges' = found /\ declared' = ContentLength(found, length)
      /\ rangeIndex' \in Nat \ {0} /\ At' = 1
  BY DEF Chooses, IInv, AnswerTypeOK, At
<1>7. PICK response : response = ResponseTo(r)
  OBVIOUS
<1>8. /\ response \in [target : DOMAIN Length, offset : Nat, aborted : BOOLEAN]
      /\ response.target = Says[r].target
  BY <1>1, <1>7 DEF ResponseTo
<1>9. n = DDMaxRange(Todo(found, length)[1]) - at
  BY <1>4, <1>5
<1>10. Delivers(Tail(connectionQueue), response, responseDataSizes, headers, units, at, n, part)
  BY <1>7
<1> QED BY <1>1, <1>2, <1>5, <1>6, <1>8, <1>9, <1>10, DeliversStep

LEMMA HeadersAre ==
    /\ \A tag \in TagsIn(<<>>) : ~Turns(tag)
    /\ \A h \in Pieces : ~Turns(h.tag) =>
          <<h>> \in Seq(Pieces) /\ \A tag \in TagsIn(<<h>>) : ~Turns(tag)
    /\ \A h, g \in Pieces : ~Turns(h.tag) /\ ~Turns(g.tag) =>
          <<h, g>> \in Seq(Pieces) /\ \A tag \in TagsIn(<<h, g>>) : ~Turns(tag)
    /\ LET h == Header("HTTP_PARTIAL_RESPONSE_HEADER") IN h \in Pieces /\ ~Turns(h.tag)
    /\ \A r \in Ranges : LET h == Piece("HTTP_PARTIAL_RESPONSE_HEADER", <<Boundary(r)>>)
                         IN  h \in Pieces /\ ~Turns(h.tag)
<1>1. \A tag \in TagsIn(<<>>) : ~Turns(tag)
  BY EmptyHasNone DEF TagsIn
<1>2. ASSUME NEW h \in Pieces, ~Turns(h.tag)
      PROVE  <<h>> \in Seq(Pieces) /\ \A tag \in TagsIn(<<h>>) : ~Turns(tag)
  BY <1>2, OnePiece
<1>3. ASSUME NEW h \in Pieces, NEW g \in Pieces, ~Turns(h.tag), ~Turns(g.tag)
      PROVE  <<h, g>> \in Seq(Pieces) /\ \A tag \in TagsIn(<<h, g>>) : ~Turns(tag)
  BY <1>3 DEF TagsIn
<1>4. LET h == Header("HTTP_PARTIAL_RESPONSE_HEADER") IN h \in Pieces /\ ~Turns(h.tag)
  BY TagsAre DEF Tags, Turns
<1>5. ASSUME NEW r \in Ranges
      PROVE  LET h == Piece("HTTP_PARTIAL_RESPONSE_HEADER", <<Boundary(r)>>)
             IN  h \in Pieces /\ ~Turns(h.tag)
  <2>1. Boundary(r) \in Units
    BY DEF Boundary, Unit, Units, Ranges
  <2>2. <<Boundary(r)>> \in Seq(Units)
    BY <2>1
  <2> QED BY <2>2 DEF Piece, Pieces, Tags, Turns
<1> QED BY <1>1, <1>2, <1>3, <1>4, <1>5

LEMMA SendResponseStep ==
    ASSUME IInv, NEW r \in Requests, SendResponse(r)
    PROVE  IInv'
<1> DEFINE length == Length[Says[r].target]
           header == Header("HTTP_PARTIAL_RESPONSE_HEADER")
           calls  == Tail(connectionQueue)
<1>1. Replies(r) /\ Says[r].target \in DOMAIN Length
  BY DEF SendResponse, Replies
<1>2. PICK found \in ParseRangeRequest(Says[r].ranges, length) :
         /\ Chooses(found, length)
         /\ \/ /\ HeadOnly(r)
               /\ Writes(<<Header("HTTP_RESPONSE")>>)
               /\ httpResponse' = ResponseTo(r) /\ body' = <<>>
               /\ connectionQueue' = calls
               /\ UNCHANGED responseDataSizes
            \/ /\ ~HeadOnly(r) /\ found = <<>>
               /\ Delivers(calls, ResponseTo(r), responseDataSizes, <<header>>, <<>>,
                      0, length, "HTTP_PARTIAL_RESPONSE_BODY")
            \/ /\ ~HeadOnly(r) /\ Len(found) = 1
               /\ Delivers(calls, ResponseTo(r), responseDataSizes, <<header>>, <<>>,
                      found[1].location, found[1].length,
                      "HTTP_PARTIAL_RANGE_RESPONSE_BODY")
            \/ /\ ~HeadOnly(r) /\ Len(found) > 1
               /\ Delivers(calls, ResponseTo(r), responseDataSizes,
                      <<header,
                        Piece("HTTP_PARTIAL_RESPONSE_HEADER", <<Boundary(found[1])>>)>>,
                      <<Boundary(found[1])>>, found[1].location, found[1].length,
                      "HTTP_PARTIAL_RANGES_RESPONSE_BODY")
  BY DEF SendResponse
<1>3. length \in Nat /\ LayOut(found, length)
  BY <1>1, AskedIs
<1>4. PICK t : t = Todo(found, length)
  OBVIOUS
<1>5. /\ found # <<>> => t = found
      /\ found = <<>> => t[1].location = 0 /\ t[1].length = length
  BY <1>3, <1>4, TodoIs
<1>6. header \in Pieces /\ ~Turns(header.tag)
  BY HeadersAre
<1>7. ASSUME HeadOnly(r), Writes(<<Header("HTTP_RESPONSE")>>),
             httpResponse' = ResponseTo(r), body' = <<>>, connectionQueue' = calls,
             UNCHANGED responseDataSizes
      PROVE  IInv'
  BY <1>1, <1>2, <1>7, HeadStep
<1> HIDE DEF length, header, calls
<1>8. ASSUME ~HeadOnly(r), NEW headers \in Seq(Pieces), \A tag \in TagsIn(headers) : ~Turns(tag),
             NEW units, units = IF Len(found) > 1 THEN <<Boundary(found[1])>> ELSE <<>>,
             NEW at, at = t[1].location, NEW n, n = t[1].length, NEW part, part = PartOf(found),
             Delivers(calls, ResponseTo(r), responseDataSizes, headers, units, at, n, part)
      PROVE  IInv'
  BY <1>1, <1>2, <1>4, <1>8, FirstPieceStep DEF length, calls
<1>9. PICK h : h = <<header>>
  OBVIOUS
<1>10. h \in Seq(Pieces) /\ \A tag \in TagsIn(h) : ~Turns(tag)
  BY <1>6, <1>9, HeadersAre
<1>11. ASSUME ~HeadOnly(r), found = <<>>,
              Delivers(calls, ResponseTo(r), responseDataSizes, <<header>>, <<>>,
                      0, length, "HTTP_PARTIAL_RESPONSE_BODY")
       PROVE  IInv'
  <2>1. PICK units : units = <<>>
    OBVIOUS
  <2>2. units = IF Len(found) > 1 THEN <<Boundary(found[1])>> ELSE <<>>
    BY <1>11, <2>1
  <2>3. PICK part : part = "HTTP_PARTIAL_RESPONSE_BODY"
    OBVIOUS
  <2>4. part = PartOf(found)
    BY <1>11, <2>3 DEF PartOf
  <2>5. Delivers(calls, ResponseTo(r), responseDataSizes, h, units, 0, length, part)
    BY <1>9, <1>11, <2>1, <2>3
  <2> QED BY <1>5, <1>8, <1>10, <1>11, <2>2, <2>4, <2>5
<1>12. ASSUME ~HeadOnly(r), Len(found) = 1,
              Delivers(calls, ResponseTo(r), responseDataSizes, <<header>>, <<>>,
                      found[1].location, found[1].length, "HTTP_PARTIAL_RANGE_RESPONSE_BODY")
       PROVE  IInv'
  <2>1. PICK units : units = <<>>
    OBVIOUS
  <2>2. units = IF Len(found) > 1 THEN <<Boundary(found[1])>> ELSE <<>>
    BY <1>12, <2>1
  <2>3. PICK part : part = "HTTP_PARTIAL_RANGE_RESPONSE_BODY"
    OBVIOUS
  <2>4. found # <<>>
    <3>1. Len(found) = 1
      BY <1>12
    <3>2. Len(<<>>) = 0
      OBVIOUS
    <3> QED BY ONLY <3>1, <3>2
  <2>5. part = PartOf(found)
    BY <1>12, <2>3, <2>4 DEF PartOf
  <2>6. t = found
    BY <1>5, <2>4
  <2>7. Delivers(calls, ResponseTo(r), responseDataSizes, h, units, t[1].location, t[1].length, part)
    BY <1>9, <1>12, <2>1, <2>3, <2>6
  <2> QED BY <1>8, <1>10, <1>12, <2>2, <2>5, <2>7
<1>13. ASSUME ~HeadOnly(r), Len(found) > 1,
              Delivers(calls, ResponseTo(r), responseDataSizes,
                      <<header,
                        Piece("HTTP_PARTIAL_RESPONSE_HEADER", <<Boundary(found[1])>>)>>,
                      <<Boundary(found[1])>>, found[1].location, found[1].length,
                      "HTTP_PARTIAL_RANGES_RESPONSE_BODY")
       PROVE  IInv'
  <2>1. PICK units : units = <<Boundary(found[1])>>
    OBVIOUS
  <2>2. units = IF Len(found) > 1 THEN <<Boundary(found[1])>> ELSE <<>>
    BY <1>13, <2>1
  <2>3. PICK part : part = "HTTP_PARTIAL_RANGES_RESPONSE_BODY"
    OBVIOUS
  <2>4. found # <<>>
    <3>1. Len(found) > 1
      BY <1>13
    <3> QED BY ONLY <3>1
  <2>5. part = PartOf(found)
    BY <1>13, <2>3, <2>4 DEF PartOf
  <2>6. t = found
    BY <1>5, <2>4
  <2>7. PICK g : g = Piece("HTTP_PARTIAL_RESPONSE_HEADER", <<Boundary(found[1])>>)
    OBVIOUS
  <2>8. found[1] \in Ranges
    <3>1. LayOut(t, length) /\ 1 \in DOMAIN t
      BY <1>3, <1>4, TodoIs
    <3>2. found \in Seq(Ranges)
      BY <1>3 DEF LayOut
    <3> QED BY <2>6, <3>1, <3>2
  <2>9. g \in Pieces /\ ~Turns(g.tag)
    BY <2>7, <2>8, HeadersAre
  <2>10. PICK hs : hs = <<header, g>>
    OBVIOUS
  <2>11. hs \in Seq(Pieces) /\ \A tag \in TagsIn(hs) : ~Turns(tag)
    BY <1>6, <2>9, <2>10, HeadersAre
  <2>12. Delivers(calls, ResponseTo(r), responseDataSizes, hs, units, t[1].location, t[1].length, part)
    BY <1>13, <2>1, <2>3, <2>6, <2>7, <2>10
  <2> QED BY <1>8, <1>13, <2>2, <2>5, <2>11, <2>12
<1> QED BY <1>2, <1>7, <1>11, <1>12, <1>13
-----------------------------------------------------------------------------
(* An answer goes on.                                                      *)

\* What is known when the piece before was written.
LEMMA BegunIs ==
    ASSUME IInv, NEW part, part \notin Final, Turns(part), Wrote(part)
    PROVE  /\ connectionQueue # <<>> /\ Turn(Head(connectionQueue)) /\ heard' = heard
           /\ Begun(part) /\ Given /\ Written = <<>> /\ FitsAt(body, httpResponse.offset)
           /\ httpResponse \in [target : DOMAIN Length, offset : Nat, aborted : BOOLEAN]
           /\ Length[Target] \in Nat /\ LayOut(ranges, Length[Target])
<1>1. /\ connectionQueue # <<>> /\ Turn(Head(connectionQueue)) /\ heard' = heard
      /\ part \in Tags /\ OnItsWay(part)
  BY WroteTurn
<1>2. Begun(part)
  BY <1>1 DEF IInv, AnswerInv
<1>3. httpResponse # Nil /\ Len(responseDataSizes) = 1 /\ EndsInByte(body)
  BY <1>2 DEF Begun
<1>4. Given
  BY <1>3 DEF IInv, AnswerInv
<1>5. Written = <<>>
  BY <1>3, OneIsLast DEF Written, IInv, AnswerTypeOK
<1>6. httpResponse \in [target : DOMAIN Length, offset : Nat, aborted : BOOLEAN]
  BY <1>3 DEF IInv, AnswerTypeOK
<1>7. FitsAt(body, httpResponse.offset)
  BY <1>3 DEF FitsAt, EndsInByte
<1>8. Length[Target] \in Nat /\ LayOut(ranges, Length[Target])
  BY <1>4, AskedIs DEF Given, Target
<1> QED BY <1>1, <1>2, <1>4, <1>5, <1>6, <1>7, <1>8

LEMMA MoreStep ==
    ASSUME IInv, NEW part, part \notin Final, Turns(part), Wrote(part), Continues,
           rangeIndex' \in Nat \ {0}, NEW k, At' = k,
           NEW headers \in Seq(Pieces), \A tag \in TagsIn(headers) : ~Turns(tag),
           NEW units, NEW at, Stage(ranges, Length[Target], k, at, units), FitsAt(units, at),
           NEW n, n = DDMaxRange(Todo(ranges, Length[Target])[k]) - at,
           Delivers(Tail(connectionQueue), httpResponse, Written, headers, units, at, n, part)
    PROVE  IInv'
<1>1. /\ connectionQueue # <<>> /\ Turn(Head(connectionQueue)) /\ heard' = heard
      /\ Begun(part) /\ Given /\ Written = <<>>
      /\ httpResponse \in [target : DOMAIN Length, offset : Nat, aborted : BOOLEAN]
  BY BegunIs
<1>2. PICK r, length, found : r = request /\ length = Length[Says[r].target] /\ found = ranges
  OBVIOUS
<1>3. Says[r].target = Target /\ length = Length[Target]
  BY <1>2 DEF Target
<1>4. /\ r \in Requests /\ Supported(r) /\ Says[r].target \in DOMAIN Length
      /\ httpResponse.target = Says[r].target
      /\ found \in ParseRangeRequest(Says[r].ranges, length)
      /\ declared = ContentLength(found, length)
  BY <1>1, <1>2, <1>3 DEF Given
<1>5. ~HeadOnly(r) /\ part = PartOf(found)
  BY <1>1, <1>2 DEF Begun
<1>6. /\ UNCHANGED <<open, reading, closing, numHeaderLines, heard>>
      /\ request' = r /\ ranges' = found /\ declared' = ContentLength(found, length)
  BY <1>1, <1>2, <1>4 DEF Continues
<1>7. /\ Stage(found, length, k, at, units)
      /\ n = DDMaxRange(Todo(found, length)[k]) - at
  BY <1>2, <1>3
<1> QED BY <1>1, <1>2, <1>4, <1>5, <1>6, <1>7, DeliversStep

LEMMA NoHeaders == <<>> \in Seq(Pieces) /\ \A tag \in TagsIn(<<>>) : ~Turns(tag)
BY EmptyHasNone, HeadersAre

LEMMA PartsAre ==
    /\ \A part \in {"HTTP_PARTIAL_RESPONSE_BODY", "HTTP_PARTIAL_RANGE_RESPONSE_BODY",
                    "HTTP_PARTIAL_RANGES_RESPONSE_BODY"} : part \notin Final /\ Turns(part)
    /\ PartOf(ranges) = "HTTP_PARTIAL_RESPONSE_BODY" => ranges = <<>>
    /\ PartOf(ranges) = "HTTP_PARTIAL_RANGE_RESPONSE_BODY" => ranges # <<>> /\ Len(ranges) = 1
    /\ PartOf(ranges) = "HTTP_PARTIAL_RANGES_RESPONSE_BODY" => ranges # <<>> /\ Len(ranges) # 1
BY DEF PartOf, Final, Turns

LEMMA ContinueSendingStandardResponseBodyStep ==
    ASSUME IInv, ContinueSendingStandardResponseBody
    PROVE  IInv'
<1>1. PICK part : part = "HTTP_PARTIAL_RESPONSE_BODY"
  OBVIOUS
<1>2. /\ Wrote(part) /\ Continues /\ rangeIndex' = rangeIndex
      /\ Delivers(Tail(connectionQueue), httpResponse, Written, <<>>, body, httpResponse.offset,
            Length[httpResponse.target] - httpResponse.offset, part)
  BY <1>1 DEF ContinueSendingStandardResponseBody
<1>3. part \notin Final /\ Turns(part)
  BY <1>1, PartsAre
<1>4. /\ Begun(part) /\ Given /\ FitsAt(body, httpResponse.offset)
      /\ Length[Target] \in Nat /\ LayOut(ranges, Length[Target])
  BY <1>2, <1>3, BegunIs
<1>5. ranges = <<>> /\ Stage(ranges, Length[Target], At, httpResponse.offset, body)
  BY <1>1, <1>4, PartsAre DEF Begun
<1>6. PICK k : k = At
  OBVIOUS
<1>7. k = 1 /\ At' = k /\ rangeIndex' \in Nat \ {0}
  BY <1>2, <1>5, <1>6 DEF At, Continues, IInv, AnswerTypeOK
<1>8. PICK t : t = Todo(ranges, Length[Target])
  OBVIOUS
<1>9. LayOut(t, Length[Target]) /\ 1 \in DOMAIN t /\ t[1].location = 0 /\ t[1].length = Length[Target]
  BY <1>4, <1>5, <1>8, TodoIs
<1>10. DDMaxRange(t[1]) = Length[Target]
  BY <1>4, <1>9 DEF DDMaxRange
<1>11. Length[httpResponse.target] - httpResponse.offset
         = DDMaxRange(Todo(ranges, Length[Target])[k]) - httpResponse.offset
  BY <1>4, <1>7, <1>8, <1>10 DEF Given
<1>12. PICK h : h = <<>>
  OBVIOUS
<1>13. h \in Seq(Pieces) /\ \A tag \in TagsIn(h) : ~Turns(tag)
  BY <1>12, NoHeaders
<1>14. PICK n : n = Length[httpResponse.target] - httpResponse.offset
  OBVIOUS
<1>15. Delivers(Tail(connectionQueue), httpResponse, Written, h, body, httpResponse.offset, n, part)
  BY <1>2, <1>12, <1>14
<1>16. Stage(ranges, Length[Target], k, httpResponse.offset, body)
  BY <1>5, <1>6
<1>17. n = DDMaxRange(Todo(ranges, Length[Target])[k]) - httpResponse.offset
  BY <1>11, <1>14
<1> QED BY <1>2, <1>3, <1>4, <1>7, <1>13, <1>15, <1>16, <1>17, MoreStep

LEMMA ContinueSendingSingleRangeResponseBodyStep ==
    ASSUME IInv, ContinueSendingSingleRangeResponseBody
    PROVE  IInv'
<1>1. PICK part : part = "HTTP_PARTIAL_RANGE_RESPONSE_BODY"
  OBVIOUS
<1>2. /\ Wrote(part) /\ Continues /\ rangeIndex' = rangeIndex
      /\ Delivers(Tail(connectionQueue), httpResponse, Written, <<>>, body, httpResponse.offset,
            DDMaxRange(ranges[1]) - httpResponse.offset, part)
  BY <1>1 DEF ContinueSendingSingleRangeResponseBody
<1>3. part \notin Final /\ Turns(part)
  BY <1>1, PartsAre
<1>4. /\ Begun(part) /\ Given /\ FitsAt(body, httpResponse.offset)
      /\ Length[Target] \in Nat /\ LayOut(ranges, Length[Target])
  BY <1>2, <1>3, BegunIs
<1>5. /\ ranges # <<>> /\ Len(ranges) = 1
      /\ Stage(ranges, Length[Target], At, httpResponse.offset, body)
  BY <1>1, <1>4, PartsAre DEF Begun
<1>6. PICK k : k = At
  OBVIOUS
<1>8. PICK t : t = Todo(ranges, Length[Target])
  OBVIOUS
<1>9. t = ranges
  BY <1>4, <1>5, <1>8, TodoIs
<1>7. k = 1 /\ At' = k /\ rangeIndex' \in Nat \ {0}
  <2>1. k \in DOMAIN t
    BY <1>5, <1>6, <1>8 DEF Stage
  <2>2. DOMAIN t = 1..Len(t) /\ Len(t) = 1
    BY <1>4, <1>5, <1>9, LayOutTypes
  <2>3. k = 1
    BY <2>1, <2>2
  <2>4. At' = At
    BY <1>2 DEF At, Continues
  <2> QED BY <1>2, <1>6, <2>3, <2>4 DEF IInv, AnswerTypeOK
<1>12. PICK h : h = <<>>
  OBVIOUS
<1>13. h \in Seq(Pieces) /\ \A tag \in TagsIn(h) : ~Turns(tag)
  BY <1>12, NoHeaders
<1>14. PICK n : n = DDMaxRange(ranges[1]) - httpResponse.offset
  OBVIOUS
<1>15. Delivers(Tail(connectionQueue), httpResponse, Written, h, body, httpResponse.offset, n, part)
  BY <1>2, <1>12, <1>14
<1>16. Stage(ranges, Length[Target], k, httpResponse.offset, body)
  BY <1>5, <1>6
<1>17. n = DDMaxRange(Todo(ranges, Length[Target])[k]) - httpResponse.offset
  BY <1>7, <1>8, <1>9, <1>14
<1> QED BY <1>2, <1>3, <1>4, <1>7, <1>13, <1>15, <1>16, <1>17, MoreStep

\* The next range: its boundary is behind the bytes of the one before.
LEMMA NextStage ==
    ASSUME NEW length \in Nat, NEW found, LayOut(found, length), Len(found) > 1,
           NEW k, NEW at, NEW u, Stage(found, length, k, at, u),
           at = DDMaxRange(found[k]), NEW j, j = k + 1, j <= Len(found),
           NEW e, e = Boundary(found[j]), NEW v, v = Append(u, e),
           NEW next, next = found[j].location
    PROVE  Stage(found, length, j, next, v) /\ FitsAt(v, next)
<1>1. found # <<>> /\ Todo(found, length) = found
  <2>1. found # <<>>
    <3>1. Len(found) > 1
      OBVIOUS
    <3> QED BY ONLY <3>1
  <2> QED BY <2>1, TodoIs
<1>2. /\ k \in DOMAIN found /\ at \in Nat /\ u \in Seq(Units) /\ Ascending(u) /\ BoundariesInFront(u)
      /\ BytesOf(u) = Covered(found, k, at)
      /\ Len(u) = Sums(found)[k - 1] + (at - found[k].location) + Marks(found, k)
  BY <1>1 DEF Stage
<1>3. /\ DOMAIN found = 1..Len(found) /\ Len(found) \in Nat /\ found \in Seq(Ranges)
      /\ \A i \in DOMAIN found : /\ i \in Nat /\ found[i].location \in Nat /\ found[i].length \in Nat
                                 /\ DDMaxRange(found[i]) = found[i].location + found[i].length
  BY LayOutTypes
<1>4. k + 1 \in DOMAIN found /\ k \in 1..Len(found) /\ k + 1 \in 1..Len(found)
  <2>1. PICK m : m = Len(found)
    OBVIOUS
  <2>2. DOMAIN found = 1..m /\ m \in Nat /\ k + 1 <= m /\ k \in DOMAIN found
    BY <1>2, <1>3, <2>1
  <2>3. k \in 1..m /\ k + 1 \in 1..m
    BY <2>2
  <2> QED BY <2>1, <2>2, <2>3
<1>5. /\ next \in Nat /\ found[k + 1].length \in Nat
      /\ DDMaxRange(found[k + 1]) = next + found[k + 1].length
  BY <1>3, <1>4
<1>6. e \in Units /\ e.of # "byte" /\ e.at = next
  BY <1>5 DEF Boundary, Unit, Units
<1>7. /\ v \in Seq(Units) /\ Len(v) = Len(u) + 1
      /\ Ascending(v) /\ BoundariesInFront(v) /\ BytesOf(v) = BytesOf(u)
      /\ v # <<>> /\ v[Len(v)] = e
  BY <1>2, <1>6, BodyMarked
<1>8. FitsAt(v, next)
  BY <1>6, <1>7 DEF FitsAt
<1>9. BytesOf(v) = Covered(found, k + 1, next)
  BY <1>2, <1>4, <1>7, CoveredNext
<1>10. Len(v) = Sums(found)[(k + 1) - 1] + (next - found[k + 1].location) + Marks(found, k + 1)
  <2>1. PICK m : m = Len(found)
    OBVIOUS
  <2>2. Sums(found)[k] = Sums(found)[k - 1] + found[k].length /\ Sums(found)[k - 1] \in Nat
    <3>1. Sums(found) \in [0..m -> Nat] /\ \A i \in 1..m : Sums(found)[i] = Sums(found)[i - 1] + found[i].length
      BY <1>3, <2>1, SumsAre
    <3>2. k \in 1..m /\ m \in Nat
      BY <1>3, <1>4, <2>1
    <3>3. k - 1 \in 0..m
      BY <3>2
    <3> QED BY <3>1, <3>2, <3>3
  <2>3. Marks(found, k) = k /\ Marks(found, k + 1) = k + 1 /\ k \in Nat
    BY <1>2, <1>3 DEF Marks
  <2>4. at - found[k].location = found[k].length /\ found[k].length \in Nat
    BY <1>2, <1>3
  <2>5. PICK s, l : s = Sums(found)[k - 1] /\ l = found[k].length
    OBVIOUS
  <2>6. s \in Nat /\ l \in Nat /\ Len(u) = s + l + k /\ Sums(found)[k] = s + l
    BY <1>2, <2>2, <2>3, <2>4, <2>5
  <2>7. PICK lu, lv : lu = Len(u) /\ lv = Len(v)
    OBVIOUS
  <2>8. lv = (s + l) + (next - next) + (k + 1)
    <3>1. lv = lu + 1
      BY <1>7, <2>7
    <3>2. lu = s + l + k
      BY <2>6, <2>7
    <3>3. s \in Nat /\ l \in Nat /\ k \in Nat /\ next \in Nat
      BY <1>5, <2>3, <2>6
    <3> QED BY ONLY <3>1, <3>2, <3>3
  <2>9. (k + 1) - 1 = k
    BY <2>3
  <2> QED BY <2>3, <2>6, <2>7, <2>8, <2>9
<1>11. next <= DDMaxRange(found[k + 1]) /\ DDMaxRange(found[k + 1]) - next = found[k + 1].length
  BY <1>5
<1>12. Stage(found, length, k + 1, next, v)
  BY <1>1, <1>4, <1>5, <1>7, <1>9, <1>10, <1>11 DEF Stage
<1> QED BY <1>8, <1>11, <1>12

\* The closing boundary: the body is as long as the header says.
LEMMA LastStage ==
    ASSUME NEW length \in Nat, NEW found, LayOut(found, length), Len(found) > 1,
           NEW k, NEW at, NEW u, Stage(found, length, k, at, u),
           at = DDMaxRange(found[k]), k + 1 > Len(found),
           NEW v, v = Append(u, Unit("end", 0))
    PROVE  /\ v \in Seq(Units) /\ Ascending(v) /\ BoundariesInFront(v)
           /\ BytesOf(v) = Spans(Todo(found, length))
           /\ Len(v) = ContentLength(found, length)
<1>1. found # <<>> /\ Todo(found, length) = found
  <2>1. found # <<>>
    <3>1. Len(found) > 1
      OBVIOUS
    <3> QED BY ONLY <3>1
  <2> QED BY <2>1, TodoIs
<1>2. /\ k \in DOMAIN found /\ at \in Nat /\ u \in Seq(Units) /\ Ascending(u) /\ BoundariesInFront(u)
      /\ BytesOf(u) = Covered(found, k, at)
      /\ found[k].location <= at
      /\ Len(u) = Sums(found)[k - 1] + (at - found[k].location) + Marks(found, k)
  BY <1>1 DEF Stage
<1>3. /\ DOMAIN found = 1..Len(found) /\ Len(found) \in Nat /\ found \in Seq(Ranges)
      /\ \A i \in DOMAIN found : /\ i \in Nat /\ found[i].location \in Nat /\ found[i].length \in Nat
                                 /\ DDMaxRange(found[i]) = found[i].location + found[i].length
  BY LayOutTypes
<1>4. k = Len(found) /\ k \in Nat /\ k \in 1..Len(found)
  <2>1. PICK m : m = Len(found)
    OBVIOUS
  <2>2. DOMAIN found = 1..m /\ m \in Nat /\ k + 1 > m /\ k \in DOMAIN found
    BY <1>2, <1>3, <2>1
  <2>3. k = m /\ k \in Nat /\ k \in 1..m
    BY <2>2
  <2> QED BY <2>1, <2>3
<1>5. PICK e : e = Unit("end", 0)
  OBVIOUS
<1>6. e \in Units /\ e.of # "byte"
  BY <1>5 DEF Unit, Units
<1>7. /\ v \in Seq(Units) /\ Len(v) = Len(u) + 1
      /\ Ascending(v) /\ BoundariesInFront(v) /\ BytesOf(v) = BytesOf(u)
  BY <1>2, <1>5, <1>6, BodyMarked
<1>8. Covered(found, k, at) = Spans(found)
  <2>1. at <= DDMaxRange(found[k])
    BY <1>2
  <2> QED BY <1>2, <1>4, <2>1, CoveredIs
<1>9. Len(v) = ContentLength(found, length)
  <2>1. ContentLength(found, length) = Sums(found)[Len(found) - 1] + found[Len(found)].length + Len(found) + 1
    BY <1>1, ContentLengthIs
  <2>2. ContentLength(found, length) = Sums(found)[k - 1] + found[k].length + k + 1
    BY <1>4, <2>1
  <2>3. Sums(found)[k - 1] \in Nat
    <3>1. Sums(found) \in [0..Len(found) -> Nat]
      BY <1>3, SumsAre
    <3>2. k - 1 \in 0..Len(found)
      BY <1>4
    <3> QED BY <3>1, <3>2
  <2>4. Marks(found, k) = k
    BY DEF Marks
  <2>5. at - found[k].location = found[k].length /\ found[k].length \in Nat
    BY <1>2, <1>3
  <2>6. PICK s, l, lu, lv : s = Sums(found)[k - 1] /\ l = found[k].length /\ lu = Len(u) /\ lv = Len(v)
    OBVIOUS
  <2>7. lu = s + l + k /\ lv = lu + 1 /\ s \in Nat /\ l \in Nat
    BY <1>2, <1>7, <2>3, <2>4, <2>5, <2>6
  <2>8. ContentLength(found, length) = s + l + k + 1
    BY <2>2, <2>6
  <2> QED BY <1>4, <2>6, <2>7, <2>8
<1> QED BY <1>1, <1>2, <1>7, <1>8, <1>9

LEMMA ContinueSendingMultiRangeResponseBodyStep ==
    ASSUME IInv, ContinueSendingMultiRangeResponseBody
    PROVE  IInv'
<1>1. PICK part : part = "HTTP_PARTIAL_RANGES_RESPONSE_BODY"
  OBVIOUS
<1>2. PICK k, length, at : k = rangeIndex /\ length = Length[Target] /\ at = httpResponse.offset
  OBVIOUS
<1>3. Wrote(part) /\ Continues
  BY <1>1 DEF ContinueSendingMultiRangeResponseBody
<1>4. part \notin Final /\ Turns(part)
  BY <1>1, PartsAre
<1>5. /\ connectionQueue # <<>> /\ Turn(Head(connectionQueue)) /\ heard' = heard
      /\ Begun(part) /\ Given /\ Written = <<>> /\ FitsAt(body, at)
      /\ httpResponse \in [target : DOMAIN Length, offset : Nat, aborted : BOOLEAN]
      /\ length \in Nat /\ LayOut(ranges, length)
  BY <1>2, <1>3, <1>4, BegunIs
<1>6. ranges # <<>> /\ Len(ranges) > 1
  <2>1. ranges # <<>> /\ Len(ranges) # 1
    BY <1>1, <1>5, PartsAre DEF Begun
  <2>2. PICK m : m = Len(ranges)
    OBVIOUS
  <2>3. m \in Nat /\ m # 0 /\ m # 1
    BY <1>5, <2>1, <2>2, LayOutTypes, EmptySeq
  <2> QED BY <2>1, <2>2, <2>3
<1>7. At = k /\ Stage(ranges, length, k, at, body) /\ k \in Nat \ {0}
  BY <1>2, <1>5, <1>6 DEF At, Begun, IInv, AnswerTypeOK
<1>8. Todo(ranges, length) = ranges
  BY <1>5, <1>6, TodoIs
<1>9. k \in DOMAIN ranges /\ at \in Nat /\ DDMaxRange(ranges[k]) \in Nat
  <2>1. k \in DOMAIN ranges /\ at \in Nat
    BY <1>7, <1>8 DEF Stage
  <2>2. /\ ranges[k].location \in Nat /\ ranges[k].length \in Nat
        /\ DDMaxRange(ranges[k]) = ranges[k].location + ranges[k].length
    BY <1>5, <2>1, LayOutTypes
  <2> QED BY <2>1, <2>2
<1>10. ranges' = ranges /\ request' = request /\ declared' = declared
       /\ UNCHANGED <<open, reading, closing, numHeaderLines>>
  BY <1>3 DEF Continues
<1> DEFINE left == DDMaxRange(ranges[rangeIndex]) - httpResponse.offset
           next == ranges[rangeIndex + 1]
           More(headers, units, place, n) ==
               Delivers(Tail(connectionQueue), httpResponse, Written, headers, units, place, n,
                        "HTTP_PARTIAL_RANGES_RESPONSE_BODY")
<1>11. CASE left > 0 /\ More(<<>>, body, httpResponse.offset, left) /\ UNCHANGED rangeIndex
  <2>1. PICK h, n : h = <<>> /\ n = left
    OBVIOUS
  <2>2. h \in Seq(Pieces) /\ \A tag \in TagsIn(h) : ~Turns(tag)
    BY <2>1, NoHeaders
  <2>3. Delivers(Tail(connectionQueue), httpResponse, Written, h, body, at, n, part)
    BY <1>1, <1>2, <1>11, <2>1
  <2>4. n = DDMaxRange(Todo(ranges, Length[Target])[k]) - at
    BY <1>2, <1>8, <2>1
  <2>5. At' = k /\ rangeIndex' \in Nat \ {0}
    BY <1>2, <1>6, <1>7, <1>10, <1>11 DEF At
  <2>6. Stage(ranges, Length[Target], k, at, body)
    BY <1>2, <1>7
  <2> QED BY <1>3, <1>4, <1>5, <2>2, <2>3, <2>4, <2>5, <2>6, MoreStep
<1>12. CASE /\ left = 0
            /\ rangeIndex' = rangeIndex + 1 /\ rangeIndex' <= Len(ranges)
            /\ More(<<Piece("HTTP_PARTIAL_RESPONSE_HEADER", <<Boundary(next)>>)>>,
                    Append(body, Boundary(next)), next.location, next.length)
  <2>1. PICK g, h, place, n, e, units :
           /\ g = Piece("HTTP_PARTIAL_RESPONSE_HEADER", <<Boundary(next)>>) /\ h = <<g>>
           /\ place = next.location /\ n = next.length /\ e = Boundary(next) /\ units = Append(body, e)
    OBVIOUS
  <2>2. at = DDMaxRange(ranges[k]) /\ k + 1 <= Len(ranges)
    <3>1. at = DDMaxRange(ranges[k])
      <4>1. PICK m : m = DDMaxRange(ranges[k])
        OBVIOUS
      <4>2. m - at = 0 /\ m \in Nat
        BY <1>2, <1>9, <1>12, <4>1
      <4> QED BY <1>9, <4>1, <4>2
    <3> QED BY <1>2, <1>12, <3>1
  <2>3. next = ranges[k + 1]
    BY <1>2
  <2>4. /\ Stage(ranges, length, k + 1, place, units) /\ FitsAt(units, place)
        /\ DDMaxRange(ranges[k + 1]) - place = ranges[k + 1].length
    <3>1. PICK j : j = k + 1
      OBVIOUS
    <3>2. e = Boundary(ranges[j]) /\ place = ranges[j].location /\ units = Append(body, e)
      BY <2>1, <2>3, <3>1
    <3>3. j <= Len(ranges)
      BY <2>2, <3>1
    <3>4. Stage(ranges, length, j, place, units)
      BY <1>5, <1>6, <1>7, <2>2, <3>1, <3>2, <3>3, NextStage
    <3>5. FitsAt(units, place)
      BY <1>5, <1>6, <1>7, <2>2, <3>1, <3>2, <3>3, NextStage
    <3>6. DDMaxRange(ranges[j]) - place = ranges[j].length
      <4>1. j \in DOMAIN ranges
        BY <1>8, <3>4 DEF Stage
      <4>2. /\ ranges[j].location \in Nat /\ ranges[j].length \in Nat
            /\ DDMaxRange(ranges[j]) = ranges[j].location + ranges[j].length
        BY <1>5, <4>1, LayOutTypes
      <4> QED BY <3>2, <4>2
    <3> QED BY <3>1, <3>4, <3>5, <3>6
  <2>5. next \in Ranges
    <3>1. k + 1 \in DOMAIN ranges
      BY <1>8, <2>4 DEF Stage
    <3>2. ranges \in Seq(Ranges)
      BY <1>5 DEF LayOut
    <3> QED BY <2>3, <3>1, <3>2
  <2>6. h \in Seq(Pieces) /\ \A tag \in TagsIn(h) : ~Turns(tag)
    <3> HIDE DEF next
    <3>1. g \in Pieces /\ ~Turns(g.tag)
      BY <2>1, <2>5, HeadersAre
    <3> QED BY <2>1, <3>1, HeadersAre
  <2>7. Delivers(Tail(connectionQueue), httpResponse, Written, h, units, place, n, part)
    BY <1>1, <1>12, <2>1
  <2>8. n = DDMaxRange(Todo(ranges, Length[Target])[k + 1]) - place
    BY <1>2, <1>8, <2>1, <2>3, <2>4
  <2>9. At' = k + 1 /\ rangeIndex' \in Nat \ {0}
    BY <1>2, <1>6, <1>7, <1>10, <1>12 DEF At
  <2>10. Stage(ranges, Length[Target], k + 1, place, units)
    BY <1>2, <2>4
  <2> QED BY <1>3, <1>4, <2>4, <2>6, <2>7, <2>8, <2>9, <2>10, MoreStep
<1>13. CASE /\ left = 0
            /\ rangeIndex' = rangeIndex + 1 /\ rangeIndex' > Len(ranges)
            /\ Writes(<<Piece("HTTP_RESPONSE", <<Unit("end", 0)>>)>>)
            /\ body' = Append(body, Unit("end", 0))
            /\ responseDataSizes' = Written
            /\ connectionQueue' = Tail(connectionQueue)
            /\ UNCHANGED httpResponse
  <2>1. PICK p : p = Piece("HTTP_RESPONSE", <<Unit("end", 0)>>)
    OBVIOUS
  <2>2. p \in Pieces /\ p.tag = "HTTP_RESPONSE" /\ p.tag \in Final
    <3>1. Unit("end", 0) \in Units
      BY DEF Unit, Units
    <3>2. <<Unit("end", 0)>> \in Seq(Units)
      BY <3>1
    <3> QED BY <2>1, <3>2 DEF Piece, Pieces, Tags, Final
  <2>3. <<p>> \in Seq(Pieces) /\ TurnIsLast(<<p>>) /\ TagsIn(<<p>>) = {p.tag}
    BY <2>2, OnePiece
  <2>4. Writes(<<p>>) /\ connectionQueue' = Tail(connectionQueue)
    BY <1>13, <2>1
  <2>5. /\ SocketInv' /\ NoTurn(connectionQueue') /\ ~reading'
        /\ \A tag \in Tags : Turns(tag) /\ OnItsWay(tag)' => tag \in TagsIn(<<p>>)
    BY <1>5, <1>10, <2>3, <2>4, GoesOn DEF IInv
  <2>6. RestInv'
    BY <2>5 DEF RestInv, AtRest, NoTurn, Turn, Entries
  <2>7. at = DDMaxRange(ranges[k]) /\ k + 1 > Len(ranges)
    <3>1. at = DDMaxRange(ranges[k])
      <4>1. PICK m : m = DDMaxRange(ranges[k])
        OBVIOUS
      <4>2. m - at = 0 /\ m \in Nat
        BY <1>2, <1>9, <1>13, <4>1
      <4> QED BY <1>9, <4>1, <4>2
    <3> QED BY <1>2, <1>13, <3>1
  <2>8. PICK v : v = body'
    OBVIOUS
  <2>9. /\ v \in Seq(Units) /\ Ascending(v) /\ BoundariesInFront(v)
        /\ BytesOf(v) = Spans(Todo(ranges, length))
        /\ Len(v) = ContentLength(ranges, length)
    <3>1. v = Append(body, Unit("end", 0))
      BY <1>13, <2>8
    <3> QED BY <1>5, <1>6, <1>7, <2>7, <3>1, LastStage
  <2>10. BytesOf(v) = Asked(request)
    BY <1>2, <1>5, <2>9, AskedIs DEF Given, Target, Begun, HeadOnly
  <2>11. Complete'
    BY <1>2, <1>5, <1>10, <2>8, <2>9, <2>10 DEF Complete, Given
  <2>12. responseDataSizes' = <<>> /\ <<>> \in Seq(Sizes) /\ Len(<<>>) <= 1
    BY <1>5, <1>13, EmptySeq
  <2>13. rangeIndex' \in Nat \ {0}
    BY <1>2, <1>7, <1>13
  <2>14. AnswerTypeOK'
    BY <1>5, <1>10, <1>13, <2>8, <2>9, <2>12, <2>13 DEF AnswerTypeOK, IInv
  <2>15. Given'
    BY <1>5, <1>10, <1>13 DEF Given, Target
  <2>16. ASSUME NEW tag \in Tags, Turns(tag), OnItsWay(tag)' PROVE tag \in Final
    BY <2>2, <2>3, <2>5, <2>16
  <2>17. (BytesOf(body) \subseteq Asked(request) /\ Ascending(body) /\ BoundariesInFront(body))'
    BY <1>10, <2>8, <2>9, <2>10
  <2> QED BY <2>5, <2>6, <2>11, <2>14, <2>15, <2>16, <2>17 DEF IInv, AnswerInv
<1> QED BY <1>11, <1>12, <1>13 DEF ContinueSendingMultiRangeResponseBody
-----------------------------------------------------------------------------
(* The connection as a whole.                                              *)

LEMMA InitStep == Init => IInv
<1> SUFFICES ASSUME Init PROVE IInv
  OBVIOUS
<1>1. /\ connectionQueue = <<>> /\ writes = <<>> /\ reading /\ open /\ httpResponse = Nil
      /\ DOMAIN <<>> = {} /\ <<>> \in Seq(Calls) /\ <<>> \in Seq(Pieces)
  BY EmptyHasNone, EmptySeq DEF Init
<1>2. SocketInv
  BY <1>1 DEF Init, SocketInv, SocketTypeOK, OneTurn, ClosedIsLast, NoTurn, SingleTurn, TurnIsLast,
              NoEnd, EndIsLast
<1>3. AnswerTypeOK
  <2>1. /\ <<>> \in Seq(Ranges) /\ <<>> \in Seq(Sizes) /\ Len(<<>>) <= 1
        /\ 0 \in 0..MAX_HEADER_LINES + 1 /\ 0 \in 0..MaxRequests
    BY EmptySeq, SizeAssumption, BoundAssumption
  <2> QED BY <2>1, EmptyBody DEF Init, AnswerTypeOK
<1>4. RestInv
  BY SizeAssumption DEF Init, RestInv
<1>5. \A tag : ~OnItsWay(tag)
  BY <1>1 DEF OnItsWay
<1> QED BY <1>1, <1>2, <1>3, <1>4, <1>5 DEF IInv, AnswerInv

LEMMA RefusalSteps ==
    ASSUME IInv
    PROVE  /\ \A line \in Requests \cup {"bad"} : HandleInvalidRequest(line) => IInv'
           /\ \A r \in Requests : (\/ HandleUnknownMethod(r) \/ HandleVersionNotSupported(r)
                                   \/ HandleResourceNotFound(r)) => IInv'
<1>1. {"HTTP_RESPONSE", "HTTP_FINAL_RESPONSE"} \subseteq Final
  BY DEF Final
<1>2. ASSUME NEW line \in Requests \cup {"bad"}, HandleInvalidRequest(line) PROVE IInv'
  BY <1>1, <1>2, RefusesStep DEF HandleInvalidRequest
<1>3. ASSUME NEW r \in Requests, \/ HandleUnknownMethod(r) \/ HandleVersionNotSupported(r)
                                 \/ HandleResourceNotFound(r)
      PROVE  IInv'
  BY <1>1, <1>3, RefusesStep
     DEF HandleUnknownMethod, HandleVersionNotSupported, HandleResourceNotFound
<1> QED BY <1>2, <1>3

LEMMA Stutters ==
    ASSUME IInv, UNCHANGED vars
    PROVE  IInv'
<1>1. UNCHANGED <<socket, connectionQueue, numHeaderLines, request, answer, heard>>
  BY DEF vars
<1>2. UNCHANGED <<open, reading, writes, closing>>
  BY <1>1 DEF socket
<1>3. SocketInv'
  BY <1>1, <1>2 DEF IInv, SocketInv, SocketTypeOK, OneTurn, ClosedIsLast
<1>4. AtRest' => AtRest /\ numHeaderLines' <= MAX_HEADER_LINES
  BY <1>1, <1>2 DEF AtRest, IInv, RestInv
<1>5. ASSUME NEW tag \in Tags, Turns(tag), OnItsWay(tag)' PROVE OnItsWay(tag)
  BY <1>1, <1>2, <1>5 DEF OnItsWay
<1>6. heard' \in 0..MaxRequests /\ numHeaderLines' \in 0..MAX_HEADER_LINES + 1
  BY <1>1 DEF IInv, AnswerTypeOK
<1> QED BY <1>1, <1>3, <1>4, <1>5, <1>6, AnswerKept

LEMMA NextStep ==
    ASSUME IInv, [Next]_vars
    PROVE  IInv'
<1>1. CASE UNCHANGED vars
  BY <1>1, Stutters
<1>2. ASSUME NEW line \in Requests \cup {"more", "bad"}, LineArrives(line) PROVE IInv'
  BY <1>2, LineArrivesStep
<1>3. CASE CompleteCurrentWrite
  BY <1>3, CompleteCurrentWriteStep
<1>4. CASE SocketEnds
  BY <1>4, SocketEndsStep
<1>5. CASE OnConnectionQueue
  <2>1. CASE AnotherLine
    BY <2>1, AnotherLineStep
  <2>2. CASE TooManyLines
    BY <2>2, TooManyLinesStep
  <2>3. CASE HeaderWritten
    BY <2>3, HeaderWrittenStep
  <2>4. ASSUME NEW line \in Requests \cup {"bad"}, HandleInvalidRequest(line) PROVE IInv'
    BY <2>4, RefusalSteps
  <2>5. ASSUME NEW r \in Requests, \/ HandleUnknownMethod(r) \/ HandleVersionNotSupported(r)
                                   \/ HandleResourceNotFound(r)
        PROVE  IInv'
    BY <2>5, RefusalSteps
  <2>6. ASSUME NEW r \in Requests, SendResponse(r) PROVE IInv'
    BY <2>6, SendResponseStep
  <2>7. CASE ContinueSendingStandardResponseBody
    BY <2>7, ContinueSendingStandardResponseBodyStep
  <2>8. CASE ContinueSendingSingleRangeResponseBody
    BY <2>8, ContinueSendingSingleRangeResponseBodyStep
  <2>9. CASE ContinueSendingMultiRangeResponseBody
    BY <2>9, ContinueSendingMultiRangeResponseBodyStep
  <2>10. ASSUME NEW tag \in Final, LastWritten(tag) PROVE IInv'
    BY <2>10, LastWrittenStep
  <2>11. ASSUME NEW tag \in Final, Disconnect(tag) PROVE IInv'
    BY <2>11, DisconnectStep
  <2>12. CASE ResponseDidAbort
    BY <2>12, ResponseDidAbortStep
  <2>13. CASE SocketDidDisconnect
    BY <2>13, SocketDidDisconnectStep
  <2> QED BY <1>5, <2>1, <2>2, <2>3, <2>4, <2>5, <2>6, <2>7, <2>8, <2>9, <2>10, <2>11, <2>12, <2>13
          DEF OnConnectionQueue
<1> QED BY <1>1, <1>2, <1>3, <1>4, <1>5 DEF Next

LEMMA InvAlways == Spec => []IInv
<1>1. Init => IInv
  BY InitStep
<1>2. IInv /\ [Next]_vars => IInv'
  BY NextStep
<1> QED BY <1>1, <1>2, PTL DEF Spec

\* The variables keep their types; above all at most one size waits in
\* responseDataSizes, so that the sizes are those of the piece that is on its way.
THEOREM TypeCorrect == Spec => []TypeOK
<1>1. IInv => TypeOK
  BY DEF IInv, SocketInv, TypeOK
<1> QED BY <1>1, InvAlways, PTL

LEMMA InvIsAsked ==
    ASSUME IInv
    PROVE  AnswerIsAsked
<1> SUFFICES ASSUME httpResponse # Nil PROVE AnswerIsAsked
  BY DEF AnswerIsAsked
<1>1. /\ request \in Requests /\ BytesOf(body) \subseteq Asked(request)
      /\ Ascending(body) /\ BoundariesInFront(body)
  BY DEF IInv, AnswerInv, Given
<1>2. ASSUME NEW tag \in Final, OnItsWay(tag) PROVE Complete
  BY <1>2, TagsAre DEF IInv, AnswerInv
<1>3. \A i \in DOMAIN writes : writes[i].tag \in Final => i = Len(writes)
  BY TagsAre DEF IInv, SocketInv, OneTurn, TurnIsLast
<1> QED BY <1>1, <1>2, <1>3 DEF AnswerIsAsked, Complete

\* An answer has bytes that were asked for, in ascending order and each one once, whatever
\* short reads the file gave, a boundary stands in front of the range it names, and with
\* its last piece it has all of them and the length that its header announced, for
\* every table of requests and ranges, every resource and every READ_CHUNKSIZE
\* (sendResponseHeadersAndBody, the three continueSending methods, parseRangeRequest:).
THEOREM AnswerIsAskedAlways == Spec => []AnswerIsAsked
<1> QED BY InvIsAsked, InvAlways, PTL
===============================================================================
