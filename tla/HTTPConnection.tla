---------------------------- MODULE HTTPConnection ----------------------------
(***************************************************************************)
(* One connection and what goes over it (Core/HTTPConnection.m, with the   *)
(* responses HTTPFileResponse and HTTPDataResponse): header lines are read *)
(* one by one, a request is refused or answered, and an answer is written  *)
(* piece by piece, the next piece when the socket has reported the one     *)
(* before.  A file may be read short or not at all, and then the response  *)
(* aborts.  HTTPServer has the life of the socket and its queues; here a   *)
(* block on the socket queue runs where it is dispatched.                  *)
(* A header is one piece without units; the units of a body are bytes, by  *)
(* their place, and the boundaries of a multipart answer.                  *)
(***************************************************************************)
EXTENDS Naturals, Sequences, Functions

CONSTANTS
    Says,             \* what a request says: [Requests -> [method, target, ranges, fault, close]]
    Length,           \* [resources -> Nat]: how long each one is
    Files,            \* the resources that are files; the others are made in memory
    Nil,
    READ_CHUNKSIZE, MAX_HEADER_LINES,
    MaxRequests       \* bound: requests on the connection

Requests == DOMAIN Says

ASSUME SaysAssumption ==
    \A r \in Requests : Says[r].ranges \in Seq([from : Nat \cup {Nil}, to : Nat \cup {Nil}])
\* Nil and the lines that are no request differ from what they stand beside.
ASSUME NilAssumption ==
    /\ Nil \notin Nat \cup Requests /\ {"more", "bad"} \cap Requests = {}
    /\ Nil \notin [target : DOMAIN Length, offset : Nat, aborted : BOOLEAN]
ASSUME LengthAssumption == Length \in [DOMAIN Length -> Nat] /\ Files \subseteq DOMAIN Length
ASSUME SizeAssumption == READ_CHUNKSIZE \in Nat \ {0} /\ MAX_HEADER_LINES \in Nat
ASSUME BoundAssumption == MaxRequests \in Nat

VARIABLES
    open,             \* the socket
    reading,          \* whether a read waits for a header line
    writes,           \* its pieces to write, [tag, units]
    closing,          \* kDisconnectAfterWrites
    connectionQueue,  \* delegate calls and blocks, [do, with]
    numHeaderLines,
    request,          \* the one that is answered, "bad", or Nil
    httpResponse,     \* [target, offset, aborted], or Nil
    ranges, rangeIndex,
    responseDataSizes,
    heard,            \* how many complete requests came
    body, declared    \* history: the units handed to the socket for this answer, and the
                      \* Content-Length of its header

socket == <<open, reading, writes, closing>>
answer == <<httpResponse, ranges, rangeIndex, responseDataSizes, body, declared>>
vars   == <<socket, connectionQueue, numHeaderLines, request, answer, heard>>

Final == {"HTTP_RESPONSE", "HTTP_FINAL_RESPONSE"}
Tags  == Final \cup {"HTTP_PARTIAL_RESPONSE_HEADER", "HTTP_PARTIAL_RESPONSE_BODY",
                     "HTTP_PARTIAL_RANGE_RESPONSE_BODY", "HTTP_PARTIAL_RANGES_RESPONSE_BODY"}
Call(what, with)   == [do |-> what, with |-> with]
Unit(of, at)       == [of |-> of, at |-> at]
Piece(tag, units)  == [tag |-> tag, units |-> units]
Header(tag)        == Piece(tag, <<>>)
Bytes(at, n)       == [i \in 1..n |-> Unit("byte", at + i - 1)]
Least(m, n)        == IF m < n THEN m ELSE n

Init ==
    /\ open = TRUE /\ reading = TRUE /\ writes = <<>> /\ closing = FALSE
    /\ connectionQueue = <<>>
    /\ numHeaderLines = 0 /\ request = Nil /\ httpResponse = Nil
    /\ ranges = <<>> /\ rangeIndex = 1 /\ responseDataSizes = <<>>
    /\ heard = 0 /\ body = <<>> /\ declared = 0
-----------------------------------------------------------------------------
(* parseRangeRequest:withContentLength:                                    *)

\* A component is [from, to]; "4-" has no end and "-4" no beginning.
Within(c, length) ==
    CASE c.from = Nil -> c.to # Nil /\ c.to <= length
      [] c.from # Nil /\ c.to = Nil -> c.from < length
      [] OTHER -> c.from <= c.to /\ c.to < length

\* Slip for a mutant: the end of a range is not part of it.
DDRangeExclusive(c, length) ==
    CASE c.from = Nil -> [location |-> length - c.to, length |-> c.to]
      [] c.from # Nil /\ c.to = Nil -> [location |-> c.from, length |-> length - c.from]
      [] OTHER -> [location |-> c.from, length |-> c.to - c.from]
DDRange(c, length) ==
    CASE c.from = Nil -> [location |-> length - c.to, length |-> c.to]
      [] c.from # Nil /\ c.to = Nil -> [location |-> c.from, length |-> length - c.from]
      [] OTHER -> [location |-> c.from, length |-> c.to - c.from + 1]

DDMaxRange(r) == r.location + r.length

Overlap(r, s) ==
    /\ ~(DDMaxRange(r) < s.location) /\ ~(DDMaxRange(s) < r.location)
    /\ (IF r.location > s.location THEN r.location ELSE s.location)
          < Least(DDMaxRange(r), DDMaxRange(s))

DDRangeCompare(r, s) ==
    r.location < s.location \/ (r.location = s.location /\ r.length < s.length)

\* The same entries at other places.
Orders(seq) == {[i \in DOMAIN seq |-> seq[place[i]]] : place \in Bijection(DOMAIN seq, DOMAIN seq)}
Sorted(seq) == \A i, j \in DOMAIN seq : i < j => ~DDRangeCompare(seq[j], seq[i])

\* The ranges in an order that sortUsingSelector: may give them; none if the header is
\* to be ignored.
ParseRangeRequest(components, length) ==
    LET parsed == [i \in DOMAIN components |-> DDRange(components[i], length)]
    IN  IF /\ \A i \in DOMAIN components : Within(components[i], length)
           /\ \A i, j \in DOMAIN components : i < j => ~Overlap(parsed[i], parsed[j])
        THEN {seq \in Orders(parsed) : Sorted(seq)}
        ELSE {<<>>}
-----------------------------------------------------------------------------
(* The socket.                                                             *)

\* What is written to a socket that is closed, or about to be, is dropped.
Writes(pieces) == writes' = IF open /\ ~closing THEN writes \o pieces ELSE writes

Close(calls) ==
    /\ open' = FALSE /\ reading' = FALSE /\ writes' = <<>> /\ UNCHANGED closing
    /\ connectionQueue' = calls \o (IF open THEN <<Call("didDisconnect", "")>> ELSE <<>>)

\* A header line arrives: one with others to follow, one that is none, or the last of a request.
LineArrives(line) ==
    /\ reading
    /\ line \in Requests => heard < MaxRequests
    /\ reading' = FALSE
    /\ connectionQueue' = Append(connectionQueue, Call("didRead", line))
    /\ heard' = heard + (IF line \in Requests THEN 1 ELSE 0)
    /\ UNCHANGED <<open, writes, closing, numHeaderLines, request, answer>>

CompleteCurrentWrite ==
    /\ writes # <<>>
    /\ LET calls == Append(connectionQueue, Call("didWrite", Head(writes).tag))
       IN  IF closing /\ Len(writes) = 1
           THEN Close(calls)
           ELSE /\ writes' = Tail(writes) /\ connectionQueue' = calls
                /\ UNCHANGED <<open, reading, closing>>
    /\ UNCHANGED <<numHeaderLines, request, answer, heard>>

\* The peer, a timer or the network ends it.
SocketEnds ==
    /\ open
    /\ Close(connectionQueue)
    /\ UNCHANGED <<numHeaderLines, request, answer, heard>>
-----------------------------------------------------------------------------
(* The responses.                                                          *)

\* How many bytes readDataOfLength: may return; a file that gives none aborts its response.
MayRead(response, at, n) ==
    LET left == Least(n, Length[response.target] - at)
    IN  IF response.target \in Files
        THEN (IF response.aborted THEN {0} ELSE 0..left)
        ELSE {left}

\* Slip for a mutant: the whole rest of the response is read.
ChunkOfAll(n) == n
Chunk(n) == Least(n, READ_CHUNKSIZE)

\* The piece that reaches the end of the body has the tag of a whole answer; the closing
\* boundary of a multi-range answer comes later.
TagOf(part, complete) ==
    IF complete /\ part # "HTTP_PARTIAL_RANGES_RESPONSE_BODY" THEN "HTTP_RESPONSE" ELSE part

\* Reads at a place some of the n bytes still to come there, and hands headers and them to
\* the socket, with the tag of the part of a body.  At most one piece of a body is on its way (TypeOK), so that
\* the sizes are those of the pieces before it, and the queue has room.
Delivers(calls, response, sizes, headers, units, at, n, part) ==
    \E c \in MayRead(response, at, Chunk(n)) :
        LET aborts == c = 0 /\ response.target \in Files /\ ~response.aborted
            piece  == IF c = 0 THEN <<>> ELSE <<Piece(TagOf(part, c = n), Bytes(at, c))>>
        IN  /\ httpResponse' = [target |-> response.target, offset |-> at + c,
                                aborted |-> response.aborted \/ aborts]
            /\ connectionQueue' = calls \o (IF aborts THEN <<Call("abort", "")>> ELSE <<>>)
            /\ body' = units \o Bytes(at, c)
            /\ Writes(headers \o piece)
            /\ responseDataSizes' = IF c = 0 THEN sizes ELSE Append(sizes, c)
-----------------------------------------------------------------------------
(* The connection: a header line was read.                                 *)

Heard(line) ==
    /\ connectionQueue # <<>> /\ Head(connectionQueue) = Call("didRead", line)
    /\ UNCHANGED heard

AnotherLine ==
    /\ Heard("more")
    /\ connectionQueue' = Tail(connectionQueue)
    /\ numHeaderLines' = numHeaderLines + 1
    /\ numHeaderLines' <= MAX_HEADER_LINES
    /\ reading' = open
    /\ UNCHANGED <<open, writes, closing, request, answer>>

TooManyLines ==
    /\ Heard("more")
    /\ numHeaderLines' = numHeaderLines + 1
    /\ numHeaderLines' > MAX_HEADER_LINES
    /\ Close(Tail(connectionQueue))
    /\ UNCHANGED <<request, answer>>

\* A status line without a body.
Refuses(line, tag) ==
    /\ Heard(line)
    /\ connectionQueue' = Tail(connectionQueue)
    /\ request' = line
    /\ Writes(<<Header(tag)>>)
    /\ body' = <<>> /\ declared' = 0
    /\ UNCHANGED <<open, reading, closing, numHeaderLines, httpResponse, ranges,
                   rangeIndex, responseDataSizes>>

HandleInvalidRequest(line) ==
    /\ line = "bad" \/ (line \in Requests /\ Says[line].fault = "length")
    /\ Refuses(line, "HTTP_FINAL_RESPONSE")

HandleUnknownMethod(r) ==
    /\ Says[r].fault # "length" /\ Says[r].method \notin {"GET", "HEAD"}
    /\ Refuses(r, "HTTP_FINAL_RESPONSE")

Supported(r) == Says[r].fault # "length" /\ Says[r].method \in {"GET", "HEAD"}

HandleVersionNotSupported(r) ==
    Supported(r) /\ Says[r].fault = "version" /\ Refuses(r, "HTTP_RESPONSE")

HandleResourceNotFound(r) ==
    /\ Supported(r) /\ Says[r].fault = "none" /\ Says[r].target \notin DOMAIN Length
    /\ Refuses(r, "HTTP_RESPONSE")

Replies(r) ==
    /\ Heard(r)
    /\ Supported(r) /\ Says[r].fault = "none" /\ Says[r].target \in DOMAIN Length
    /\ request' = r
    /\ UNCHANGED <<open, reading, closing, numHeaderLines>>

ResponseTo(r) == [target |-> Says[r].target, offset |-> 0, aborted |-> FALSE]
Sums(seq) == LET sum[i \in 0..Len(seq)] == IF i = 0 THEN 0 ELSE sum[i - 1] + seq[i].length
             IN  sum
Total(seq) == Sums(seq)[Len(seq)]
Boundary(range) == Unit("boundary", range.location)
HeadOnly(r) == Says[r].method = "HEAD" \/ Length[Says[r].target] = 0

\* Each boundary, and the one that closes, counts as one.
ContentLength(found, length) ==
    IF found = <<>> THEN length
    ELSE IF Len(found) = 1 THEN found[1].length
    ELSE Total(found) + Len(found) + 1

\* The ranges of an answer and its Content-Length.  A header that is refused half-way leaves what
\* it had put into `ranges'; no synchronous response looks at it then, so it counts as none.
Chooses(found, length) ==
    /\ ranges' = found /\ declared' = ContentLength(found, length)
    /\ rangeIndex' = IF found = <<>> THEN rangeIndex ELSE 1

\* sendResponseHeadersAndBody, with the first piece of a body if there is one.
SendResponse(r) ==
    /\ Replies(r)
    /\ \E found \in ParseRangeRequest(Says[r].ranges, Length[Says[r].target]) :
          LET length == Length[Says[r].target]
              calls  == Tail(connectionQueue)
              header == Header("HTTP_PARTIAL_RESPONSE_HEADER")
          IN  /\ Chooses(found, length)
              /\ \/ /\ HeadOnly(r)
                    /\ Writes(<<Header("HTTP_RESPONSE")>>)
                    /\ httpResponse' = ResponseTo(r) /\ body' = <<>>
                    /\ connectionQueue' = calls
                    /\ UNCHANGED responseDataSizes
                 \/ /\ ~HeadOnly(r) /\ found = <<>>
                    /\ Delivers(calls, ResponseTo(r), responseDataSizes, <<header>>, <<>>,
                           0, length, "HTTP_PARTIAL_RESPONSE_BODY")
                 \/ /\ ~HeadOnly(r) /\ Len(found) = 1
                    /\ Delivers(calls, ResponseTo(r), responseDataSizes, <<header>>, <<>>,
                           found[1].location, found[1].length,
                           "HTTP_PARTIAL_RANGE_RESPONSE_BODY")
                 \/ /\ ~HeadOnly(r) /\ Len(found) > 1
                    /\ Delivers(calls, ResponseTo(r), responseDataSizes,
                           <<header,
                             Piece("HTTP_PARTIAL_RESPONSE_HEADER", <<Boundary(found[1])>>)>>,
                           <<Boundary(found[1])>>, found[1].location, found[1].length,
                           "HTTP_PARTIAL_RANGES_RESPONSE_BODY")
-----------------------------------------------------------------------------
(* The connection: a piece was written.                                    *)

Wrote(tag) ==
    /\ connectionQueue # <<>> /\ Head(connectionQueue) = Call("didWrite", tag)
    /\ UNCHANGED heard

HeaderWritten ==
    /\ Wrote("HTTP_PARTIAL_RESPONSE_HEADER")
    /\ connectionQueue' = Tail(connectionQueue)
    /\ UNCHANGED <<socket, numHeaderLines, request, answer>>

Written == Tail(responseDataSizes)
Continues == UNCHANGED <<open, reading, closing, numHeaderLines, request, ranges, declared>>

ContinueSendingStandardResponseBody ==
    /\ Wrote("HTTP_PARTIAL_RESPONSE_BODY") /\ Continues /\ UNCHANGED rangeIndex
    /\ Delivers(Tail(connectionQueue), httpResponse, Written, <<>>, body, httpResponse.offset,
           Length[httpResponse.target] - httpResponse.offset, "HTTP_PARTIAL_RESPONSE_BODY")

ContinueSendingSingleRangeResponseBody ==
    /\ Wrote("HTTP_PARTIAL_RANGE_RESPONSE_BODY") /\ Continues /\ UNCHANGED rangeIndex
    /\ Delivers(Tail(connectionQueue), httpResponse, Written, <<>>, body, httpResponse.offset,
           DDMaxRange(ranges[1]) - httpResponse.offset, "HTTP_PARTIAL_RANGE_RESPONSE_BODY")

\* Within a range, to the next one, or to the closing boundary.
ContinueSendingMultiRangeResponseBody ==
    /\ Wrote("HTTP_PARTIAL_RANGES_RESPONSE_BODY") /\ Continues
    /\ LET left == DDMaxRange(ranges[rangeIndex]) - httpResponse.offset
           next == ranges[rangeIndex + 1]
           More(headers, units, at, n) ==
               Delivers(Tail(connectionQueue), httpResponse, Written, headers, units, at, n,
                        "HTTP_PARTIAL_RANGES_RESPONSE_BODY")
       IN  \/ /\ left > 0
              /\ More(<<>>, body, httpResponse.offset, left)
              /\ UNCHANGED rangeIndex
           \/ /\ left = 0
              /\ rangeIndex' = rangeIndex + 1 /\ rangeIndex' <= Len(ranges)
              /\ More(<<Piece("HTTP_PARTIAL_RESPONSE_HEADER", <<Boundary(next)>>)>>,
                      Append(body, Boundary(next)), next.location, next.length)
           \/ /\ left = 0
              /\ rangeIndex' = rangeIndex + 1 /\ rangeIndex' > Len(ranges)
              /\ Writes(<<Piece("HTTP_RESPONSE", <<Unit("end", 0)>>)>>)
              /\ body' = Append(body, Unit("end", 0))
              /\ responseDataSizes' = Written
              /\ connectionQueue' = Tail(connectionQueue)
              /\ UNCHANGED httpResponse

ShouldDie(tag) == tag = "HTTP_RESPONSE" => Says[request].close

FinishResponse ==
    /\ request' = Nil /\ httpResponse' = Nil /\ ranges' = <<>>
    /\ responseDataSizes' = IF responseDataSizes = <<>> THEN <<>> ELSE Tail(responseDataSizes)
    /\ UNCHANGED <<rangeIndex, declared, body>>

LastWritten(tag) ==
    /\ tag \in Final /\ Wrote(tag) /\ ~ShouldDie(tag)
    /\ connectionQueue' = Tail(connectionQueue)
    /\ FinishResponse
    /\ numHeaderLines' = 0
    /\ reading' = open
    /\ UNCHANGED <<open, writes, closing>>

Disconnect(tag) ==
    /\ tag \in Final /\ Wrote(tag) /\ ShouldDie(tag)
    /\ FinishResponse
    /\ Close(Tail(connectionQueue))
    /\ UNCHANGED numHeaderLines
-----------------------------------------------------------------------------
(* The connection: the response aborts, the socket is gone.                *)

\* Slip for a mutant: the connection does not take part.
ResponseDidAbortIgnored ==
    /\ connectionQueue # <<>> /\ Head(connectionQueue).do = "abort"
    /\ connectionQueue' = Tail(connectionQueue)
    /\ UNCHANGED <<socket, numHeaderLines, request, answer, heard>>
\* disconnectAfterWriting, unless the response is not the one of the connection any more.
ResponseDidAbort ==
    /\ connectionQueue # <<>> /\ Head(connectionQueue).do = "abort"
    /\ IF httpResponse = Nil \/ ~open
       THEN connectionQueue' = Tail(connectionQueue) /\ UNCHANGED socket
       ELSE IF writes = <<>>
       THEN Close(Tail(connectionQueue))
       ELSE /\ closing' = TRUE
            /\ connectionQueue' = Tail(connectionQueue)
            /\ UNCHANGED <<open, reading, writes>>
    /\ UNCHANGED <<numHeaderLines, request, answer, heard>>

SocketDidDisconnect ==
    /\ connectionQueue # <<>> /\ Head(connectionQueue).do = "didDisconnect"
    /\ connectionQueue' = Tail(connectionQueue)
    /\ httpResponse' = Nil
    /\ UNCHANGED <<socket, numHeaderLines, request, ranges, rangeIndex, responseDataSizes,
                   body, declared, heard>>
-----------------------------------------------------------------------------
OnConnectionQueue ==
    \/ AnotherLine \/ TooManyLines \/ HeaderWritten
    \/ \E line \in Requests \cup {"bad"} : HandleInvalidRequest(line)
    \/ \E r \in Requests :
          \/ HandleUnknownMethod(r) \/ HandleVersionNotSupported(r)
          \/ HandleResourceNotFound(r) \/ SendResponse(r)
    \/ ContinueSendingStandardResponseBody \/ ContinueSendingSingleRangeResponseBody
    \/ ContinueSendingMultiRangeResponseBody
    \/ \E tag \in Final : LastWritten(tag) \/ Disconnect(tag)
    \/ ResponseDidAbort \/ SocketDidDisconnect

Gone == ~open /\ connectionQueue = <<>>

Next ==
    \/ \E line \in Requests \cup {"more", "bad"} : LineArrives(line)
    \/ CompleteCurrentWrite \/ SocketEnds \/ OnConnectionQueue
    \/ (Gone /\ UNCHANGED vars)

Spec == Init /\ [][Next]_vars

\* The queue is served, and the peer takes what is written to it.
FairSpec == Spec /\ WF_vars(OnConnectionQueue) /\ WF_vars(CompleteCurrentWrite)
-----------------------------------------------------------------------------
(* Properties.                                                             *)

Units  == [of : {"byte", "boundary", "end"}, at : Nat]
Pieces == [tag : Tags, units : Seq(Units)]
Calls  == [do : {"didRead"}, with : Requests \cup {"more", "bad"}]
          \cup [do : {"didWrite"}, with : Tags] \cup [do : {"abort", "didDisconnect"}, with : {""}]
Ranges == [location : Nat, length : Nat]
Sizes  == 1..READ_CHUNKSIZE

SocketTypeOK ==
    /\ {open, reading, closing} \subseteq BOOLEAN
    /\ writes \in Seq(Pieces) /\ connectionQueue \in Seq(Calls)
AnswerTypeOK ==
    /\ numHeaderLines \in 0..MAX_HEADER_LINES + 1
    /\ request \in Requests \cup {"bad", Nil}
    /\ httpResponse \in {Nil} \cup
           [target : DOMAIN Length, offset : Nat, aborted : BOOLEAN]
    /\ ranges \in Seq(Ranges) /\ rangeIndex \in Nat \ {0}
    /\ responseDataSizes \in Seq(Sizes) /\ Len(responseDataSizes) <= 1
    /\ heard \in 0..MaxRequests /\ declared \in Nat
    /\ body \in Seq(Units)
TypeOK == SocketTypeOK /\ AnswerTypeOK

\* The bytes that a component of a Range header stands for.
Selects(c, length) ==
    {b \in 0..(length - 1) : IF c.from = Nil THEN b >= length - c.to
                             ELSE b >= c.from /\ (c.to # Nil => b <= c.to)}

\* Whether the header is honoured: every component lies within the resource, and no
\* two of them have a byte in common.
Honoured(components, length) ==
    /\ components # <<>>
    /\ \A i \in DOMAIN components : Within(components[i], length)
    /\ \A i, j \in DOMAIN components :
          i # j => Selects(components[i], length) \cap Selects(components[j], length) = {}

Asked(r) ==
    LET length == Length[Says[r].target]
        components == Says[r].ranges
    IN  IF Says[r].method = "HEAD" THEN {}
        ELSE IF Honoured(components, length)
        THEN UNION {Selects(components[i], length) : i \in DOMAIN components}
        ELSE 0..(length - 1)

BytesOf(units) == {units[i].at : i \in {j \in DOMAIN units : units[j].of = "byte"}}
Ascending(units) ==
    \A i, j \in DOMAIN units :
       i < j /\ units[i].of = "byte" /\ units[j].of = "byte" => units[i].at < units[j].at
BoundariesInFront(units) ==
    \A i, j \in DOMAIN units :
       j = i + 1 /\ units[i].of = "boundary" /\ units[j].of = "byte" => units[i].at = units[j].at

OnItsWay(tag) == \/ \E i \in DOMAIN writes : writes[i].tag = tag
                 \/ \E i \in DOMAIN connectionQueue : connectionQueue[i] = Call("didWrite", tag)

\* Several ranges of nothing: their boundaries are announced, and only a header follows.
RangesOfNothing == Length[httpResponse.target] = 0 /\ Len(ranges) > 1

\* An answer has bytes that were asked for, in ascending order and each one once, whatever
\* short reads the file gave; a boundary stands in front of the range it names.  When the
\* piece with the last tag is on its way, all of them were handed over, the body is
\* as long as the header says, and no piece is behind it (sendResponseHeadersAndBody,
\* the three continueSending methods, parseRangeRequest:).
AnswerIsAsked ==
    httpResponse # Nil =>
        /\ request \in Requests
        /\ BytesOf(body) \subseteq Asked(request)
        /\ Ascending(body) /\ BoundariesInFront(body)
        /\ (\E tag \in Final : OnItsWay(tag)) =>
              /\ BytesOf(body) = Asked(request)
              /\ Says[request].method # "HEAD" => Len(body) = declared \/ RangesOfNothing
              /\ \A i \in DOMAIN writes : writes[i].tag \in Final => i = Len(writes)

\* A range without a byte, such as the last 0 ones, of a resource that is no file: nothing is
\* read for it, and nothing written that would call the connection again.
EmptyRange ==
    /\ httpResponse # Nil /\ httpResponse.target \notin Files
    /\ \E i \in DOMAIN ranges : ranges[i].length = 0

\* A request that was read is answered or its connection closed, also when the file cannot be
\* read, unless it asks for an empty range of a resource that is no file, and then
\* the connection hangs (didWriteDataWithTag:, responseDidAbort:).
AnsweredOrClosed == request # Nil ~> (request = Nil \/ ~open \/ EmptyRange)
=============================================================================
