--------------------------- MODULE HTTPServerProofs ---------------------------
(***************************************************************************)
(* Theorems about HTTPServer, for every set of connections and requests,   *)
(* and every bound.                                                        *)
(***************************************************************************)
EXTENDS HTTPServer, QueueLemmas, SequenceTheorems, TLAPS

(***************************************************************************)
(* The inductive invariant.                                                *)
(***************************************************************************)

Queued(p) == \E i \in DOMAIN serverQueue : serverQueue[i] = p

\* The socket whose block runs on the server queue, at one of the given steps.
AtHead(p, steps) ==
    /\ accepting \in steps \ {"idle"}
    /\ serverQueue # <<>> /\ Head(serverQueue) = p

\* A socket waits for its block once, and is made by it.
AcceptInv ==
    /\ accepting # "idle" => serverQueue # <<>>
    /\ \A i, j \in DOMAIN serverQueue : serverQueue[i] = serverQueue[j] => i = j
    /\ \A i \in DOMAIN serverQueue :
          /\ peer[serverQueue[i]] # "away"
          /\ phase[serverQueue[i]] = "none" <=> (i # 1 \/ accepting = "idle")
    /\ \A p \in Peers : peer[p] = "away" => phase[p] = "none"

HasBlock(p) == PlacesOf(socketQueue[p], Errands) # {}
HasCall(p)  == PlacesOf(connectionQueue, CallsOf(p)) # {}
NoErrand(p) == ~HasBlock(p) /\ ~HasCall(p) /\ ~currentRead[p] /\ ~currentWrite[p]

OnePlace(queue, elements) == \A i, j \in PlacesOf(queue, elements) : i = j

\* Where the one errand of each connection is.
ErrandOf(p) ==
    /\ OnePlace(socketQueue[p], Errands)
    /\ OnePlace(connectionQueue, CallsOf(p))
    /\ HasBlock(p) => ~HasCall(p) /\ ~currentRead[p] /\ ~currentWrite[p]
    /\ HasCall(p) => ~currentRead[p] /\ ~currentWrite[p]
    /\ currentRead[p] => ~currentWrite[p]
    /\ ~Accepted(p) => NoErrand(p)
    /\ Accepted(p) /\ phase[p] = "started" => ~NoErrand(p)
ErrandInv == \A p \in Peers : ErrandOf(p)

EndOf(p)  == {Call("didDisconnect", p, Nil)}
Ending(p) == PlacesOf(connectionQueue, EndOf(p)) # {}
HasSetup(p) == PlacesOf(socketQueue[p], {"setup"}) # {}

\* A socket closes once, and its connection hears of it once.
CloseOf(p) ==
    /\ phase[p] = "none" =>
          /\ ~source[p] /\ ~asyncSocket[p] /\ ~Ending(p) /\ socketQueue[p] = <<>>
          /\ p \notin connections /\ p \notin early /\ deaths[p] = 0
    /\ source[p] \/ currentRead[p] \/ currentWrite[p] \/ HasSetup(p) => phase[p] = "started"
    /\ HasSetup(p) => ~source[p] /\ ~currentRead[p] /\ ~currentWrite[p]
    /\ \A i \in PlacesOf(socketQueue[p], {"setup"}) : i = 1
    /\ OnePlace(connectionQueue, EndOf(p))
    /\ Ending(p) => phase[p] = "closed" /\ deaths[p] = 0 /\ p \notin early
    /\ deaths[p] \in {0, 1}
    /\ deaths[p] = 1 \/ p \in early => phase[p] = "closed"
    /\ phase[p] = "started" /\ (Accepted(p) \/ AtHead(p, {"taken", "listed"})) => asyncSocket[p]
CloseInv == \A p \in Peers : CloseOf(p)

\* What the list holds, before and after the connection is added to it.
ListOf(p) ==
    /\ AtHead(p, {"created", "taken"}) =>
          /\ p \notin connections
          /\ phase[p] = "closed" => Ending(p) \/ p \in early
    /\ Accepted(p) \/ AtHead(p, {"listed"}) =>
          IF Ending(p) THEN p \in connections
          ELSE p \in connections <=> (phase[p] = "started" \/ p \in early)
ListInv == \A p \in Peers : ListOf(p)

ServerInv == TypeOK /\ AcceptInv /\ ErrandInv /\ CloseInv /\ ListInv

(***************************************************************************)
(* The places of an element in a queue.                                    *)
(***************************************************************************)

\* A new entry that is none of the elements changes none of their places; one that
\* is has a place of its own.
LEMMA AppendPlaces ==
    ASSUME NEW T, NEW queue \in Seq(T), NEW e \in T, NEW elements
    PROVE  /\ e \notin elements =>
                PlacesOf(Append(queue, e), elements) = PlacesOf(queue, elements)
           /\ e \in elements => PlacesOf(Append(queue, e), elements) # {}
           /\ PlacesOf(queue, elements) # {} => PlacesOf(Append(queue, e), elements) # {}
           /\ PlacesOf(queue, elements) = {} => OnePlace(Append(queue, e), elements)
           /\ PlacesOf(queue, elements) = {} /\ e \in elements =>
                PlacesOf(Append(queue, e), elements) = {Len(queue) + 1}
<1> DEFINE longer == Append(queue, e)
<1>1. /\ Len(queue) \in Nat /\ DOMAIN queue = 1..Len(queue)
      /\ DOMAIN longer = 1..(Len(queue) + 1)
      /\ \A i \in DOMAIN queue : longer[i] = queue[i]
      /\ longer[Len(queue) + 1] = e
  BY AppendIndex
<1> HIDE DEF longer
<1>2. \A i \in DOMAIN longer : i \in DOMAIN queue \/ i = Len(queue) + 1
  BY <1>1
<1>3. \A i \in DOMAIN queue : i \in DOMAIN longer
  BY <1>1
<1>4. Len(queue) + 1 \in DOMAIN longer /\ Len(queue) + 1 \notin DOMAIN queue
  BY <1>1
<1> QED BY <1>1, <1>2, <1>3, <1>4 DEF PlacesOf, OnePlace, longer

\* Without its first entry a queue has the elements that it had, but for this entry.
LEMMA TailPlaces ==
    ASSUME NEW T, NEW queue \in Seq(T), queue # <<>>, NEW elements
    PROVE  /\ Head(queue) \notin elements =>
                (PlacesOf(Tail(queue), elements) = {} <=> PlacesOf(queue, elements) = {})
           /\ PlacesOf(queue, elements) = {} => PlacesOf(Tail(queue), elements) = {}
           /\ Head(queue) \in elements => PlacesOf(queue, elements) # {}
           /\ OnePlace(queue, elements) => OnePlace(Tail(queue), elements)
           /\ OnePlace(queue, elements) /\ Head(queue) \in elements =>
                PlacesOf(Tail(queue), elements) = {}
<1>1. /\ 1 \in DOMAIN queue /\ Head(queue) = queue[1]
      /\ \A i \in DOMAIN Tail(queue) :
            /\ i \in Nat /\ i + 1 \in DOMAIN queue /\ 1 < i + 1
            /\ Tail(queue)[i] = queue[i + 1]
  BY TailIndex
<1>2. \A i \in DOMAIN queue \ {1} : i - 1 \in DOMAIN Tail(queue) /\ Tail(queue)[i - 1] = queue[i]
  BY TailKeeps
<1>3. PlacesOf(queue, elements) = {} => PlacesOf(Tail(queue), elements) = {}
  BY <1>1 DEF PlacesOf
<1>4. Head(queue) \notin elements /\ PlacesOf(Tail(queue), elements) = {}
         => PlacesOf(queue, elements) = {}
  BY <1>1, <1>2 DEF PlacesOf
<1>5. OnePlace(queue, elements) => OnePlace(Tail(queue), elements)
  <2> SUFFICES ASSUME OnePlace(queue, elements),
                      NEW i \in PlacesOf(Tail(queue), elements),
                      NEW j \in PlacesOf(Tail(queue), elements)
               PROVE  i = j
    BY DEF OnePlace
  <2>1. i + 1 \in PlacesOf(queue, elements) /\ j + 1 \in PlacesOf(queue, elements)
    BY <1>1 DEF PlacesOf
  <2>2. i \in Nat /\ j \in Nat /\ i + 1 = j + 1
    BY <1>1, <2>1 DEF PlacesOf, OnePlace
  <2> QED BY <2>2
<1>6. OnePlace(queue, elements) /\ Head(queue) \in elements
         => PlacesOf(Tail(queue), elements) = {}
  <2> SUFFICES ASSUME OnePlace(queue, elements), Head(queue) \in elements,
                      NEW i \in PlacesOf(Tail(queue), elements)
               PROVE  FALSE
    OBVIOUS
  <2>1. i \in Nat /\ 1 < i + 1 /\ i + 1 \in PlacesOf(queue, elements)
    BY <1>1 DEF PlacesOf
  <2>2. 1 \in PlacesOf(queue, elements)
    BY <1>1 DEF PlacesOf
  <2> QED BY <2>1, <2>2 DEF OnePlace
<1>7. Head(queue) \in elements => PlacesOf(queue, elements) # {}
  BY <1>1 DEF PlacesOf
<1> QED BY <1>3, <1>4, <1>5, <1>6, <1>7
(***************************************************************************)
(* Type correctness.                                                       *)
(***************************************************************************)

LEMMA QueueTypes ==
    ASSUME TypeOK
    PROVE  /\ connectionQueue \in Seq(AllCalls) /\ serverQueue \in Seq(Peers)
           /\ \A p \in Peers : socketQueue[p] \in Seq(Blocks) /\ inbox[p] \in Seq(Requests)
BY DEF TypeOK

LEMMA CallType ==
    ASSUME NEW p \in Peers
    PROVE  /\ \A what \in Calls \ {"didRead"} : Call(what, p, Nil) \in AllCalls
           /\ \A r \in Requests : Call("didRead", p, r) \in AllCalls
BY DEF AllCalls, Call

\* The block at the head of a socket's queue runs.
LEMMA RunsTypes ==
    ASSUME TypeOK, NEW p \in Peers, NEW block, Runs(p, block)
    PROVE  socketQueue' \in [Peers -> Seq(Blocks)]
<1>1. Tail(socketQueue[p]) \in Seq(Blocks)
  BY HeadTailProperties, QueueTypes DEF Runs
<1> QED BY <1>1 DEF Runs, TypeOK

\* A connection asks its socket for something.
LEMMA AsksTypes ==
    ASSUME TypeOK, NEW p \in Peers, NEW block \in Blocks, Asks(p, block)
    PROVE  socketQueue' \in [Peers -> Seq(Blocks)]
<1>1. Append(socketQueue[p], block) \in Seq(Blocks)
  BY AppendProperties, QueueTypes
<1> QED BY <1>1 DEF Asks, TypeOK

\* The head of the connection queue is served.
LEMMA ServesTypes ==
    ASSUME TypeOK, NEW p \in Peers, NEW what, Serves(what, p)
    PROVE  /\ connectionQueue # <<>> /\ Head(connectionQueue) \in AllCalls
           /\ Tail(connectionQueue) \in Seq(AllCalls)
BY HeadTailProperties, QueueTypes DEF Serves

\* A call is added to the connection queue.
LEMMA CalledTypes ==
    ASSUME TypeOK, NEW call \in AllCalls
    PROVE  Append(connectionQueue, call) \in Seq(AllCalls)
BY AppendProperties, QueueTypes

\* The end of a socket.
LEMMA CloseTypes ==
    ASSUME TypeOK, NEW p \in Peers, CloseWithError(p)
    PROVE  /\ peer' \in [Peers -> {"away", "open", "gone"}]
           /\ phase' \in [Peers -> {"none", "started", "closed"}]
           /\ source' \in [Peers -> BOOLEAN]
           /\ currentRead' \in [Peers -> BOOLEAN] /\ currentWrite' \in [Peers -> BOOLEAN]
           /\ connectionQueue' \in Seq(AllCalls) /\ early' \subseteq Peers
<1>1. Append(connectionQueue, Call("didDisconnect", p, Nil)) \in Seq(AllCalls)
  BY CalledTypes, CallType DEF Calls
<1>2. connectionQueue' \in Seq(AllCalls) /\ early' \subseteq Peers
  BY <1>1, QueueTypes DEF CloseWithError, TypeOK
<1> QED BY <1>2 DEF CloseWithError, TypeOK

LEMMA TypeOutside ==
    ASSUME TypeOK, NEW p \in Peers, Outside(p)
    PROVE  TypeOK'
<1> USE BoundAssumption DEF TypeOK, Outside, sockets, conns, history, accepts
<1>1. CASE DoAccept(p)
  <2>1. serverQueue' \in Seq(Peers)
    BY <1>1, AppendProperties DEF DoAccept
  <2> QED BY <1>1, <2>1 DEF DoAccept
<1>2. CASE PeerCloses(p)
  BY <1>2 DEF PeerCloses
<1>3. ASSUME NEW r \in Requests, PeerSends(p, r) PROVE TypeOK'
  <2>1. Append(inbox[p], r) \in Seq(Requests)
    BY AppendProperties
  <2> QED BY <1>3, <2>1 DEF PeerSends
<1> QED BY <1>1, <1>2, <1>3

LEMMA TypeServerQueue ==
    ASSUME TypeOK, AcceptInv, OnServerQueue
    PROVE  TypeOK'
<1>1. serverQueue # <<>>
  BY DEF OnServerQueue, CreateSocket, TakeOver, AddConnection, Start, AcceptInv
<1>2. Head(serverQueue) \in Peers /\ Tail(serverQueue) \in Seq(Peers)
  BY <1>1, HeadTailProperties, QueueTypes
<1>3. \A b \in Blocks : Append(socketQueue[Head(serverQueue)], b) \in Seq(Blocks)
  BY <1>2, AppendProperties, QueueTypes
<1>4. CASE CreateSocket
  BY <1>2, <1>3, <1>4 DEF CreateSocket, TypeOK, Blocks, outside, conns, history
<1>5. CASE TakeOver
  BY <1>2, <1>3, <1>5 DEF TakeOver, TypeOK, Blocks, outside, history
<1>6. CASE AddConnection
  BY <1>2, <1>6 DEF AddConnection, TypeOK, outside, sockets, history
<1>7. CASE Start
  <2>1. connectionQueue' \in Seq(AllCalls)
    BY <1>2, <1>7, CalledTypes, CallType DEF Start, Calls
  <2> QED BY <1>2, <1>7, <2>1 DEF Start, TypeOK, outside, sockets, conns, history
<1> QED BY <1>4, <1>5, <1>6, <1>7 DEF OnServerQueue

LEMMA TypeSocket ==
    ASSUME TypeOK, NEW p \in Peers,
           BlockOf(p) \/ ReadEvent(p) \/ DoReadTimeout(p) \/ WriteEvent(p)
    PROVE  TypeOK'
<1> USE DEF accepts, conns, history, outside
<1>1. CASE BlockOf(p)
  <2>1. socketQueue' \in [Peers -> Seq(Blocks)]
    BY <1>1, RunsTypes DEF BlockOf, SetupSources, SetDelegate, EnqueueRead, EnqueueWrite
  <2> QED
    BY <1>1, <2>1 DEF BlockOf, SetupSources, SetDelegate, EnqueueRead, EnqueueWrite, TypeOK
<1>2. CASE DoReadData(p)
  <2>1. Head(inbox[p]) \in Requests /\ Tail(inbox[p]) \in Seq(Requests)
    BY <1>2, HeadTailProperties, QueueTypes DEF DoReadData
  <2>2. connectionQueue' \in Seq(AllCalls)
    BY <1>2, <2>1, CalledTypes, CallType DEF DoReadData, Calls
  <2> QED BY <1>2, <2>1, <2>2 DEF DoReadData, TypeOK
<1>3. CASE CompleteCurrentWrite(p)
  <2>1. connectionQueue' \in Seq(AllCalls)
    BY <1>3, CalledTypes, CallType DEF CompleteCurrentWrite, Calls
  <2> QED BY <1>3, <2>1 DEF CompleteCurrentWrite, TypeOK
<1>4. CASE DoReadEOF(p) \/ DoReadTimeout(p) \/ WriteFails(p)
  <2>1. CloseWithError(p)
    BY <1>4 DEF DoReadEOF, DoReadTimeout, WriteFails
  <2>2. inbox' \in [Peers -> Seq(Requests)]
    <3>1. <<>> \in Seq(Requests)
      BY EmptySeq
    <3> QED BY <1>4, <3>1 DEF DoReadEOF, DoReadTimeout, WriteFails, TypeOK
  <2> QED
    BY <1>4, <2>1, <2>2, CloseTypes
       DEF DoReadEOF, DoReadTimeout, WriteFails, TypeOK
<1> QED BY <1>1, <1>2, <1>3, <1>4 DEF ReadEvent, WriteEvent

LEMMA TypeConnection ==
    ASSUME TypeOK, NEW p \in Peers, OnConnectionQueue(p)
    PROVE  TypeOK'
<1> USE DEF accepts, history, outside, conns
<1>1. /\ connectionQueue # <<>> /\ Head(connectionQueue) \in AllCalls
      /\ Tail(connectionQueue) \in Seq(AllCalls)
  BY ServesTypes DEF OnConnectionQueue, StartConnection, DidReadData, KeepAlive, Disconnect,
                     SocketDidDisconnect
<1>2. CASE StartConnection(p)
  <2>1. socketQueue' \in [Peers -> Seq(Blocks)]
    BY <1>2, AsksTypes DEF StartConnection, Blocks
  <2> QED BY <1>1, <1>2, <2>1 DEF StartConnection, TypeOK
<1>3. CASE DidReadData(p)
  <2>1. socketQueue' \in [Peers -> Seq(Blocks)]
    BY <1>3, AsksTypes DEF DidReadData, Blocks
  <2>2. Head(connectionQueue).request \in Requests
    BY <1>1, <1>3 DEF DidReadData, Serves, AllCalls
  <2>3. dispatched' \in Seq([of : Peers, request : Requests])
    BY <1>3, <2>2, AppendProperties DEF DidReadData, TypeOK
  <2> QED BY <1>1, <1>3, <2>1, <2>2, <2>3 DEF DidReadData, TypeOK
<1>4. CASE KeepAlive(p)
  <2>1. socketQueue' \in [Peers -> Seq(Blocks)]
    BY <1>4, AsksTypes DEF KeepAlive, Blocks
  <2> QED BY <1>1, <1>4, <2>1 DEF KeepAlive, TypeOK
<1>5. CASE Disconnect(p)
  <2>1. <<Call("didDisconnect", p, Nil)>> \in Seq(AllCalls) /\ <<>> \in Seq(AllCalls)
    BY CallType, EmptySeq DEF Calls
  <2>2. connectionQueue' \in Seq(AllCalls)
    BY <1>1, <1>5, <2>1, ConcatProperties DEF Disconnect
  <2>3. inbox' \in [Peers -> Seq(Requests)]
    <3>1. <<>> \in Seq(Requests)
      BY EmptySeq
    <3> QED BY <1>5, <3>1 DEF Disconnect, TypeOK
  <2> QED BY <1>5, <2>2, <2>3 DEF Disconnect, TypeOK
<1>6. CASE SocketDidDisconnect(p)
  <2>1. asyncSocket' \in [Peers -> BOOLEAN] /\ deaths' \in [Peers -> Nat]
    BY <1>6 DEF SocketDidDisconnect, Die, TypeOK
  <2>2. early' \subseteq Peers /\ connections' \subseteq Peers
    BY <1>6 DEF SocketDidDisconnect, Die, TypeOK
  <2> QED BY <1>1, <1>6, <2>1, <2>2 DEF SocketDidDisconnect, TypeOK, sockets
<1> QED BY <1>2, <1>3, <1>4, <1>5, <1>6 DEF OnConnectionQueue
(***************************************************************************)
(* What the steps do to the places that the invariant speaks of.           *)
(***************************************************************************)

\* A call for p is added to the connection queue.
LEMMA CallAdded ==
    ASSUME TypeOK, NEW p \in Peers, NEW call \in AllCalls, call.of = p,
           connectionQueue' = Append(connectionQueue, call), NEW q \in Peers
    PROVE  /\ HasCall(q)' <=> (HasCall(q) \/ (q = p /\ call.do # "didDisconnect"))
           /\ Ending(q)' <=> (Ending(q) \/ (q = p /\ call.do = "didDisconnect"))
           /\ (q = p /\ call.do # "didDisconnect" => ~HasCall(q))
              /\ OnePlace(connectionQueue, CallsOf(q)) => OnePlace(connectionQueue', CallsOf(q))
           /\ (q = p /\ call.do = "didDisconnect" => ~Ending(q))
              /\ OnePlace(connectionQueue, EndOf(q)) => OnePlace(connectionQueue', EndOf(q))
<1>1. connectionQueue \in Seq(AllCalls)
  BY QueueTypes
<1>2. call \in CallsOf(q) <=> (q = p /\ call.do # "didDisconnect")
  BY DEF CallsOf
<1>3. call \in EndOf(q) <=> (q = p /\ call.do = "didDisconnect")
  BY DEF EndOf, Call, AllCalls
<1>4. /\ HasCall(q)' <=> (HasCall(q) \/ call \in CallsOf(q))
      /\ Ending(q)' <=> (Ending(q) \/ call \in EndOf(q))
  BY <1>1, AppendPlaces DEF HasCall, Ending
<1>5. \A S : (call \in S => PlacesOf(connectionQueue, S) = {}) /\ OnePlace(connectionQueue, S)
                => OnePlace(connectionQueue', S)
  BY <1>1, AppendPlaces DEF OnePlace
<1> QED BY <1>2, <1>3, <1>4, <1>5 DEF HasCall, Ending

\* The first call of the connection queue, one for p, is served.
LEMMA CallServed ==
    ASSUME TypeOK, NEW p \in Peers, NEW what, Serves(what, p),
           connectionQueue' = Tail(connectionQueue), NEW q \in Peers
    PROVE  /\ HasCall(q)' => HasCall(q)
           /\ Ending(q)' => Ending(q)
           /\ what = "didDisconnect" \/ q # p => HasCall(q)' = HasCall(q)
           /\ what # "didDisconnect" \/ q # p => Ending(q)' = Ending(q)
           /\ OnePlace(connectionQueue, CallsOf(q)) =>
                 /\ OnePlace(connectionQueue', CallsOf(q))
                 /\ what # "didDisconnect" => HasCall(p) /\ (q = p => ~HasCall(q)')
           /\ OnePlace(connectionQueue, EndOf(q)) =>
                 /\ OnePlace(connectionQueue', EndOf(q))
                 /\ what = "didDisconnect" => Ending(p) /\ (q = p => ~Ending(q)')
<1> DEFINE call == Head(connectionQueue)
<1>1. connectionQueue \in Seq(AllCalls) /\ connectionQueue # <<>> /\ call \in AllCalls
  BY QueueTypes, ServesTypes
<1>2. call.of = p /\ call.do = what
  BY DEF Serves
<1> HIDE DEF call
<1>3. call \in CallsOf(q) <=> (q = p /\ what # "didDisconnect")
  BY <1>1, <1>2 DEF CallsOf
<1>4. call \in EndOf(q) <=> (q = p /\ what = "didDisconnect")
  BY <1>1, <1>2 DEF EndOf, Call, AllCalls
<1>5. /\ HasCall(q)' => HasCall(q)
      /\ Ending(q)' => Ending(q)
      /\ call \notin CallsOf(q) => HasCall(q)' = HasCall(q)
      /\ call \notin EndOf(q) => Ending(q)' = Ending(q)
  BY <1>1, TailPlaces DEF HasCall, Ending, call
<1>6. OnePlace(connectionQueue, CallsOf(q)) =>
         /\ OnePlace(connectionQueue', CallsOf(q))
         /\ call \in CallsOf(q) => ~HasCall(q)'
  BY <1>1, TailPlaces DEF HasCall, call
<1>7. OnePlace(connectionQueue, EndOf(q)) =>
         /\ OnePlace(connectionQueue', EndOf(q))
         /\ call \in EndOf(q) => ~Ending(q)'
  BY <1>1, TailPlaces DEF Ending, call
<1>8. what # "didDisconnect" => HasCall(p)
  <2>1. what # "didDisconnect" => call \in CallsOf(p)
    BY <1>1, <1>2 DEF CallsOf
  <2> QED BY <1>1, <2>1, TailPlaces DEF HasCall, call
<1>9. what = "didDisconnect" => Ending(p)
  <2>1. what = "didDisconnect" => call \in EndOf(p)
    BY <1>1, <1>2 DEF EndOf, Call, AllCalls
  <2> QED BY <1>1, <2>1, TailPlaces DEF Ending, call
<1> QED BY <1>3, <1>4, <1>5, <1>6, <1>7, <1>8, <1>9

\* disconnect serves the call that the answer is written, and adds at most the one that the
\* socket has ended.
LEMMA DisconnectCalls ==
    ASSUME TypeOK, NEW p \in Peers, Disconnect(p), NEW q \in Peers
    PROVE  /\ q # p => HasCall(q)' = HasCall(q)
           /\ OnePlace(connectionQueue, CallsOf(q)) =>
                 /\ OnePlace(connectionQueue', CallsOf(q))
                 /\ HasCall(p) /\ (q = p => ~HasCall(q)')
           /\ Ending(q)' <=> (Ending(q) \/ (q = p /\ phase[p] = "started"))
           /\ (q = p /\ phase[p] = "started" => ~Ending(q)) /\ OnePlace(connectionQueue, EndOf(q))
                 => OnePlace(connectionQueue', EndOf(q))
<1> DEFINE first == Head(connectionQueue)
           rest  == Tail(connectionQueue)
           last  == Call("didDisconnect", p, Nil)
<1>1. /\ connectionQueue \in Seq(AllCalls) /\ connectionQueue # <<>>
      /\ rest \in Seq(AllCalls) /\ first \in AllCalls /\ last \in AllCalls
      /\ first.of = p /\ first.do = "didWrite" /\ last.of = p /\ last.do = "didDisconnect"
  BY QueueTypes, ServesTypes, CallType DEF Disconnect, Serves, Call, Calls
<1>2. connectionQueue' = IF phase[p] = "started" THEN Append(rest, last) ELSE rest
  BY <1>1, ConcatEmptySeq, AppendIsConcat DEF Disconnect
<1> HIDE DEF first, last
<1>3. /\ first \in CallsOf(q) <=> q = p
      /\ first \notin EndOf(q) /\ last \notin CallsOf(q) /\ first \in CallsOf(p)
  BY <1>1 DEF CallsOf, EndOf, Call
<1>4. last \in EndOf(q) <=> q = p
  BY <1>1 DEF EndOf, Call, last
<1>5. \A S : /\ first \notin S => (PlacesOf(rest, S) = {} <=> PlacesOf(connectionQueue, S) = {})
             /\ first \in S => PlacesOf(connectionQueue, S) # {}
             /\ OnePlace(connectionQueue, S) => OnePlace(rest, S)
             /\ OnePlace(connectionQueue, S) /\ first \in S => PlacesOf(rest, S) = {}
  BY <1>1, TailPlaces DEF first
<1> HIDE DEF rest
<1>6. \A S : /\ last \notin S => PlacesOf(Append(rest, last), S) = PlacesOf(rest, S)
             /\ last \in S => PlacesOf(Append(rest, last), S) # {}
             /\ PlacesOf(rest, S) # {} => PlacesOf(Append(rest, last), S) # {}
             /\ PlacesOf(rest, S) = {} => OnePlace(Append(rest, last), S)
  BY <1>1, AppendPlaces
<1>7. /\ PlacesOf(connectionQueue', CallsOf(q)) = PlacesOf(rest, CallsOf(q))
      /\ OnePlace(connectionQueue', CallsOf(q)) <=> OnePlace(rest, CallsOf(q))
  BY <1>2, <1>3, <1>6 DEF OnePlace
<1>8. q # p \/ phase[p] # "started" =>
         /\ PlacesOf(connectionQueue', EndOf(q)) = PlacesOf(rest, EndOf(q))
         /\ OnePlace(connectionQueue', EndOf(q)) <=> OnePlace(rest, EndOf(q))
  BY <1>2, <1>4, <1>6 DEF OnePlace
<1>9. q = p /\ phase[p] = "started" =>
         /\ Ending(q)'
         /\ ~Ending(q) => OnePlace(connectionQueue', EndOf(q))
  BY <1>2, <1>3, <1>4, <1>5, <1>6 DEF Ending
<1> QED BY <1>3, <1>5, <1>7, <1>8, <1>9 DEF HasCall, Ending

\* A block is dispatched to the queue of a socket.
LEMMA BlockAdded ==
    ASSUME TypeOK, NEW p \in Peers, NEW block \in Blocks,
           socketQueue' = [socketQueue EXCEPT ![p] = Append(@, block)]
    PROVE  /\ HasBlock(p)' <=> (HasBlock(p) \/ block \in Errands)
           /\ (block \in Errands => ~HasBlock(p)) /\ OnePlace(socketQueue[p], Errands)
                 => OnePlace(socketQueue'[p], Errands)
           /\ HasSetup(p)' <=> (HasSetup(p) \/ block = "setup")
           /\ block # "setup" =>
                 PlacesOf(socketQueue'[p], {"setup"}) = PlacesOf(socketQueue[p], {"setup"})
           /\ socketQueue[p] = <<>> => \A i \in PlacesOf(socketQueue'[p], {"setup"}) : i = 1
<1>1. socketQueue[p] \in Seq(Blocks) /\ socketQueue'[p] = Append(socketQueue[p], block)
  BY QueueTypes DEF TypeOK
<1>2. /\ HasBlock(p)' <=> (HasBlock(p) \/ block \in Errands)
      /\ HasSetup(p)' <=> (HasSetup(p) \/ block \in {"setup"})
  <2>1. \A S : PlacesOf(socketQueue'[p], S) # {} <=> (PlacesOf(socketQueue[p], S) # {} \/ block \in S)
    BY <1>1, AppendPlaces
  <2> QED BY <2>1 DEF HasBlock, HasSetup
<1>3. (block \in Errands => ~HasBlock(p)) /\ OnePlace(socketQueue[p], Errands)
         => OnePlace(socketQueue'[p], Errands)
  BY <1>1, AppendPlaces DEF HasBlock, OnePlace
<1>4. block # "setup" =>
         PlacesOf(socketQueue'[p], {"setup"}) = PlacesOf(socketQueue[p], {"setup"})
  BY <1>1, AppendPlaces
<1>5. socketQueue[p] = <<>> => \A i \in PlacesOf(socketQueue'[p], {"setup"}) : i = 1
  BY <1>1, AppendIndex, EmptySeq DEF PlacesOf
<1> QED BY <1>2, <1>3, <1>4, <1>5

\* The first block of a socket's queue runs.
LEMMA BlockRuns ==
    ASSUME TypeOK, NEW p \in Peers, NEW block, Runs(p, block)
    PROVE  /\ \A q \in Peers \ {p} : socketQueue'[q] = socketQueue[q]
           /\ HasBlock(p)' => HasBlock(p)
           /\ block \notin Errands => HasBlock(p)' = HasBlock(p)
           /\ OnePlace(socketQueue[p], Errands) =>
                 /\ OnePlace(socketQueue'[p], Errands)
                 /\ block \in Errands => HasBlock(p) /\ ~HasBlock(p)'
           /\ block = "setup" => HasSetup(p)
           /\ (\A i \in PlacesOf(socketQueue[p], {"setup"}) : i = 1) => ~HasSetup(p)'
<1>1. /\ socketQueue[p] \in Seq(Blocks) /\ socketQueue'[p] = Tail(socketQueue[p])
      /\ socketQueue[p] # <<>> /\ Head(socketQueue[p]) = block
      /\ \A q \in Peers \ {p} : socketQueue'[q] = socketQueue[q]
  BY QueueTypes DEF TypeOK, Runs
<1>2. /\ HasBlock(p)' => HasBlock(p)
      /\ block \notin Errands => HasBlock(p)' = HasBlock(p)
      /\ block \in Errands => HasBlock(p)
  BY <1>1, TailPlaces DEF HasBlock
<1>3. OnePlace(socketQueue[p], Errands) =>
         /\ OnePlace(socketQueue'[p], Errands)
         /\ block \in Errands => ~HasBlock(p)'
  BY <1>1, TailPlaces DEF HasBlock
<1>4. block = "setup" => HasSetup(p)
  BY <1>1, TailPlaces DEF HasSetup
<1>5. (\A i \in PlacesOf(socketQueue[p], {"setup"}) : i = 1) => ~HasSetup(p)'
  BY <1>1, TailIndex DEF HasSetup, PlacesOf
<1> QED BY <1>1, <1>2, <1>3, <1>4, <1>5
(***************************************************************************)
(* The invariant is inductive: the queue of accepted sockets.              *)
(***************************************************************************)

\* Steps that leave the server queue alone, and neither accept nor make a socket.
LEMMA AcceptFrame ==
    ASSUME TypeOK, AcceptInv, UNCHANGED accepts,
           \A q \in Peers : phase'[q] = "none" <=> phase[q] = "none",
           \A q \in Peers : peer'[q] = "away" <=> peer[q] = "away"
    PROVE  AcceptInv'
<1>1. \A i \in DOMAIN serverQueue : serverQueue[i] \in Peers
  BY QueueTypes, LenProperties, ElementOfSeq
<1> QED BY <1>1 DEF AcceptInv, accepts

\* Where a connection that is not queued at all stands.
LEMMA NotQueued ==
    ASSUME TypeOK, NEW q \in Peers, ~Queued(q)
    PROVE  Accepted(q) <=> phase[q] # "none"
BY DEF Queued, Accepted

LEMMA AcceptStep ==
    ASSUME TypeOK, AcceptInv, NEW p \in Peers, DoAccept(p)
    PROVE  /\ AcceptInv'
           /\ \A q \in Peers : Accepted(q)' <=> Accepted(q)
           /\ \A q \in Peers, S \in SUBSET {"created", "taken", "listed"} :
                 AtHead(q, S)' <=> AtHead(q, S)
<1>1. /\ Len(serverQueue) \in Nat /\ DOMAIN serverQueue = 1..Len(serverQueue)
      /\ serverQueue' = Append(serverQueue, p)
      /\ DOMAIN serverQueue' = 1..(Len(serverQueue) + 1)
      /\ \A i \in DOMAIN serverQueue : serverQueue'[i] = serverQueue[i]
      /\ serverQueue'[Len(serverQueue) + 1] = p
      /\ \A i \in DOMAIN serverQueue : serverQueue[i] \in Peers
  BY AppendIndex, QueueTypes, ElementOfSeq DEF DoAccept
<1>2. /\ peer[p] = "away" /\ phase[p] = "none" /\ UNCHANGED <<phase, accepting>>
      /\ peer' = [peer EXCEPT ![p] = "open"]
      /\ \A i \in DOMAIN serverQueue : serverQueue[i] # p
  BY DEF DoAccept, AcceptInv, sockets
<1>3. Len(serverQueue) + 1 = 1 => accepting = "idle"
  BY <1>1, EmptySeq, QueueTypes DEF AcceptInv
<1>4. serverQueue' # <<>> /\ (serverQueue # <<>> => Head(serverQueue') = Head(serverQueue))
  BY <1>1, QueueTypes, EmptySeq
<1>5. AcceptInv'
  <2>1. \A i, j \in DOMAIN serverQueue' : serverQueue'[i] = serverQueue'[j] => i = j
    BY <1>1, <1>2 DEF AcceptInv
  <2>2. \A i \in DOMAIN serverQueue' : peer'[serverQueue'[i]] # "away"
    BY <1>1, <1>2 DEF AcceptInv, TypeOK
  <2>3. \A i \in DOMAIN serverQueue' :
           phase'[serverQueue'[i]] = "none" <=> (i # 1 \/ accepting' = "idle")
    BY <1>1, <1>2, <1>3 DEF AcceptInv
  <2>4. \A q \in Peers : peer'[q] = "away" => phase'[q] = "none"
    BY <1>2 DEF AcceptInv, TypeOK
  <2> QED BY <1>2, <1>4, <2>1, <2>2, <2>3, <2>4 DEF AcceptInv
<1>6. \A q \in Peers : Accepted(q)' <=> Accepted(q)
  BY <1>1, <1>2 DEF Accepted
<1>7. \A q \in Peers, S \in SUBSET {"created", "taken", "listed"} :
         AtHead(q, S)' <=> AtHead(q, S)
  BY <1>2, <1>4 DEF AtHead, AcceptInv
<1> QED BY <1>5, <1>6, <1>7

LEMMA ServerQueueStep ==
    ASSUME TypeOK, AcceptInv, OnServerQueue, NEW p, p = Head(serverQueue)
    PROVE  /\ AcceptInv'
           /\ p \in Peers /\ ~Accepted(p) /\ peer[p] # "away"
           /\ \A q \in Peers \ {p} : /\ Accepted(q)' <=> Accepted(q)
                                    /\ \A S : ~AtHead(q, S) /\ ~AtHead(q, S)'
           /\ Accepted(p)' <=> Start
<1>1. serverQueue # <<>> /\ serverQueue \in Seq(Peers)
  BY QueueTypes DEF OnServerQueue, CreateSocket, TakeOver, AddConnection, Start, AcceptInv
<1>2. /\ 1 \in DOMAIN serverQueue /\ p = serverQueue[1] /\ p \in Peers
      /\ \A i \in DOMAIN Tail(serverQueue) :
            /\ i \in Nat /\ i + 1 \in DOMAIN serverQueue /\ 1 < i + 1
            /\ Tail(serverQueue)[i] = serverQueue[i + 1]
      /\ \A i \in DOMAIN serverQueue : serverQueue[i] \in Peers
  BY <1>1, TailIndex, ElementOfSeq, LenProperties
<1>3. \A i \in DOMAIN serverQueue \ {1} : serverQueue[i] # p
  BY <1>2 DEF AcceptInv
<1>4. \A i \in DOMAIN serverQueue \ {1} :
         i - 1 \in DOMAIN Tail(serverQueue) /\ Tail(serverQueue)[i - 1] = serverQueue[i]
  BY <1>1, TailKeeps
<1>5. CASE CreateSocket
  <2>1. /\ phase' = [phase EXCEPT ![p] = "started"] /\ accepting = "idle"
        /\ accepting' = "created" /\ UNCHANGED <<serverQueue, peer>>
    BY <1>5 DEF CreateSocket, outside
  <2>2. AcceptInv'
    <3>1. \A i \in DOMAIN serverQueue :
             phase'[serverQueue[i]] = "none" <=> (i # 1 \/ accepting' = "idle")
      BY <1>2, <1>3, <2>1 DEF AcceptInv, TypeOK
    <3>2. \A q \in Peers : peer[q] = "away" => phase'[q] = "none"
      BY <1>2, <2>1 DEF AcceptInv, TypeOK
    <3> QED BY <1>1, <2>1, <3>1, <3>2 DEF AcceptInv
  <2>3. \A q \in Peers \ {p} : Accepted(q)' <=> Accepted(q)
    BY <2>1 DEF Accepted, TypeOK
  <2>4. ~Accepted(p) /\ ~Accepted(p)' /\ ~Start
    BY <1>2, <1>5, <2>1 DEF Accepted, Start
  <2> QED BY <1>2, <2>1, <2>2, <2>3, <2>4 DEF AtHead, AcceptInv
<1>6. CASE TakeOver \/ AddConnection
  <2>1. /\ accepting # "idle" /\ accepting' \in {"taken", "listed"} /\ accepting # "listed"
        /\ UNCHANGED <<serverQueue, peer, phase>>
    BY <1>6 DEF TakeOver, AddConnection, outside, sockets
  <2>2. AcceptInv'
    BY <1>1, <2>1 DEF AcceptInv
  <2>3. \A q \in Peers : Accepted(q)' <=> Accepted(q)
    BY <2>1 DEF Accepted
  <2>4. ~Accepted(p) /\ ~Start
    BY <1>2, <2>1 DEF Accepted, Start
  <2> QED BY <1>2, <2>1, <2>2, <2>3, <2>4 DEF AtHead, AcceptInv
<1>7. CASE Start
  <2>1. /\ accepting = "listed" /\ accepting' = "idle" /\ serverQueue' = Tail(serverQueue)
        /\ UNCHANGED <<peer, phase>>
    BY <1>7 DEF Start, outside, sockets
  <2>2. AcceptInv'
    <3>1. \A i, j \in DOMAIN serverQueue' : serverQueue'[i] = serverQueue'[j] => i = j
      <4> SUFFICES ASSUME NEW i \in DOMAIN serverQueue', NEW j \in DOMAIN serverQueue',
                          serverQueue'[i] = serverQueue'[j]
                   PROVE  i = j
        OBVIOUS
      <4>1. i + 1 = j + 1 /\ i \in Nat /\ j \in Nat
        BY <1>2, <2>1 DEF AcceptInv
      <4> QED BY <4>1
    <3>2. \A i \in DOMAIN serverQueue' :
             peer'[serverQueue'[i]] # "away" /\ phase'[serverQueue'[i]] = "none"
      <4> SUFFICES ASSUME NEW i \in DOMAIN serverQueue'
                   PROVE  peer'[serverQueue'[i]] # "away" /\ phase'[serverQueue'[i]] = "none"
        OBVIOUS
      <4>1. /\ serverQueue'[i] = serverQueue[i + 1] /\ i + 1 \in DOMAIN serverQueue
            /\ i + 1 # 1
        BY <1>2, <2>1
      <4> QED BY <2>1, <4>1 DEF AcceptInv
    <3> QED BY <2>1, <3>1, <3>2 DEF AcceptInv
  <2>3. \A q \in Peers \ {p} : Accepted(q)' <=> Accepted(q)
    BY <1>2, <1>4, <2>1 DEF Accepted
  <2>4. \A i \in DOMAIN serverQueue' : serverQueue'[i] # p
    BY <1>2, <1>3, <2>1
  <2>5. ~Accepted(p) /\ Accepted(p)'
    BY <1>2, <2>1, <2>4 DEF Accepted, AcceptInv
  <2> QED BY <1>2, <1>7, <2>1, <2>2, <2>3, <2>5 DEF AtHead, AcceptInv
<1> QED BY <1>5, <1>6, <1>7 DEF OnServerQueue
(***************************************************************************)
(* The invariant is inductive: connections that a step does not concern.   *)
(***************************************************************************)

PeerInv(q) == ErrandOf(q) /\ CloseOf(q) /\ ListOf(q)

\* What a step leaves of a socket and its connection.
SameSocket(q) ==
    /\ socketQueue'[q] = socketQueue[q]
    /\ phase'[q] = phase[q] /\ source'[q] = source[q]
    /\ currentRead'[q] = currentRead[q] /\ currentWrite'[q] = currentWrite[q]
SameConnection(q) ==
    /\ asyncSocket'[q] = asyncSocket[q] /\ deaths'[q] = deaths[q]
    /\ q \in connections' <=> q \in connections
    /\ q \in early' <=> q \in early
SameCalls(q) ==
    /\ HasCall(q)' <=> HasCall(q)
    /\ Ending(q)' <=> Ending(q)
    /\ OnePlace(connectionQueue, CallsOf(q)) => OnePlace(connectionQueue', CallsOf(q))
    /\ OnePlace(connectionQueue, EndOf(q)) => OnePlace(connectionQueue', EndOf(q))
SameTurn(q) ==
    /\ Accepted(q)' <=> Accepted(q)
    /\ \A S \in SUBSET {"created", "taken", "listed"} : AtHead(q, S)' <=> AtHead(q, S)

LEMMA Frame ==
    ASSUME NEW q \in Peers, PeerInv(q),
           SameSocket(q), SameConnection(q), SameCalls(q), SameTurn(q)
    PROVE  PeerInv(q)'
<1>1. /\ HasBlock(q)' = HasBlock(q) /\ HasSetup(q)' = HasSetup(q)
      /\ NoErrand(q)' = NoErrand(q)
  BY DEF HasBlock, HasSetup, NoErrand, SameSocket, SameCalls
<1>2. ErrandOf(q)'
  BY <1>1 DEF PeerInv, ErrandOf, SameSocket, SameCalls, SameTurn
<1>3. CloseOf(q)'
  BY <1>1 DEF PeerInv, CloseOf, SameSocket, SameConnection, SameCalls, SameTurn
<1>4. ListOf(q)'
  BY <1>1 DEF PeerInv, ListOf, SameSocket, SameConnection, SameCalls, SameTurn
<1> QED BY <1>2, <1>3, <1>4 DEF PeerInv

\* Without a step on the server queue, a connection keeps its turn as long as its socket
\* neither is made nor vanishes.
LEMMA TurnKept ==
    ASSUME UNCHANGED accepts, NEW q \in Peers, phase'[q] = "none" <=> phase[q] = "none"
    PROVE  SameTurn(q)
BY DEF accepts, SameTurn, Accepted, AtHead

\* A step of the socket or the connection of p.
Moves(p) ==
    BlockOf(p) \/ ReadEvent(p) \/ DoReadTimeout(p) \/ WriteEvent(p) \/ OnConnectionQueue(p)

\* A step of one connection does nothing to the others.
LEMMA CallsElsewhere ==
    ASSUME TypeOK, NEW p \in Peers, Moves(p), NEW q \in Peers \ {p}
    PROVE  SameCalls(q)
<1>1. CASE UNCHANGED connectionQueue
  BY <1>1 DEF SameCalls, HasCall, Ending, PlacesOf, OnePlace
<1>2. ASSUME NEW call \in AllCalls, call.of = p,
             connectionQueue' = Append(connectionQueue, call)
      PROVE  SameCalls(q)
  BY <1>2, CallAdded DEF SameCalls
<1>3. ASSUME NEW what, Serves(what, p), connectionQueue' = Tail(connectionQueue)
      PROVE  SameCalls(q)
  BY <1>3, CallServed DEF SameCalls
<1>4. Call("didDisconnect", p, Nil) \in AllCalls /\ Call("didDisconnect", p, Nil).of = p
  BY CallType DEF Calls, Call
<1>5. CASE CloseWithError(p)
  BY <1>1, <1>2, <1>4, <1>5 DEF CloseWithError
<1>6. CASE DoReadData(p)
  <2>1. Head(inbox[p]) \in Requests
    BY <1>6, HeadTailProperties, QueueTypes DEF DoReadData
  <2> QED BY <1>2, <1>6, <2>1, CallType DEF DoReadData, Call
<1>7. CASE CompleteCurrentWrite(p)
  BY <1>2, <1>7, CallType DEF CompleteCurrentWrite, Calls, Call
<1>8. CASE BlockOf(p)
  BY <1>1, <1>8 DEF BlockOf, SetupSources, SetDelegate, EnqueueRead, EnqueueWrite
<1>9. CASE StartConnection(p) \/ DidReadData(p) \/ KeepAlive(p) \/ SocketDidDisconnect(p)
  BY <1>3, <1>9 DEF StartConnection, DidReadData, KeepAlive, SocketDidDisconnect
<1>10. CASE Disconnect(p)
  BY <1>10, DisconnectCalls DEF SameCalls
<1> QED
  BY <1>5, <1>6, <1>7, <1>8, <1>9, <1>10
     DEF Moves, ReadEvent, DoReadEOF, DoReadTimeout, WriteEvent, WriteFails, OnConnectionQueue
\* Only a socket that is open is closed, and only one that was made is let go.
LEMMA MovesOn ==
    ASSUME ServerInv, NEW p \in Peers, Moves(p)
    PROVE  /\ AcceptInv'
           /\ \A q \in Peers : SameTurn(q)
           /\ phase[p] # "none"
<1> USE DEF accepts
<1>1. CloseOf(p) /\ ErrandOf(p) /\ TypeOK /\ AcceptInv
  BY DEF ServerInv, ErrandInv, CloseInv
<1>2. phase[p] # "none"
  <2>1. CASE BlockOf(p)
    BY <1>1, <2>1 DEF BlockOf, SetupSources, SetDelegate, EnqueueRead, EnqueueWrite, Runs, CloseOf
  <2>2. CASE ReadEvent(p) \/ DoReadTimeout(p) \/ WriteEvent(p)
    BY <1>1, <2>2
       DEF ReadEvent, DoReadData, DoReadEOF, DoReadTimeout, WriteEvent, CompleteCurrentWrite,
           WriteFails, CloseOf
  <2>3. ASSUME NEW what, Serves(what, p), connectionQueue' = Tail(connectionQueue)
        PROVE  phase[p] # "none"
    BY <1>1, <2>3, CallServed DEF ErrandOf, CloseOf, NoErrand, Accepted
  <2>4. CASE OnConnectionQueue(p)
    BY <1>1, <2>3, <2>4, DisconnectCalls
       DEF OnConnectionQueue, StartConnection, DidReadData, KeepAlive, SocketDidDisconnect,
           ErrandOf, NoErrand, Accepted
  <2> QED BY <2>1, <2>2, <2>4 DEF Moves
<1>4. \/ UNCHANGED <<phase, peer>>
      \/ /\ phase' = [phase EXCEPT ![p] = "closed"]
         /\ peer' = [peer EXCEPT ![p] = "gone"]
  BY DEF Moves, BlockOf, SetupSources, SetDelegate, EnqueueRead, EnqueueWrite, ReadEvent,
         DoReadData, DoReadEOF, DoReadTimeout, WriteEvent, CompleteCurrentWrite, WriteFails,
         CloseWithError, OnConnectionQueue, StartConnection, DidReadData, KeepAlive,
         Disconnect, SocketDidDisconnect, outside, sockets
<1>5. UNCHANGED accepts
  BY DEF Moves, BlockOf, SetupSources, SetDelegate, EnqueueRead, EnqueueWrite, ReadEvent,
         DoReadData, DoReadEOF, DoReadTimeout, WriteEvent, CompleteCurrentWrite, WriteFails,
         OnConnectionQueue, StartConnection, DidReadData, KeepAlive, Disconnect,
         SocketDidDisconnect
<1>6. \A q \in Peers : phase'[q] = "none" <=> phase[q] = "none"
  BY <1>1, <1>2, <1>4 DEF TypeOK
<1>7. \A q \in Peers : peer'[q] = "away" <=> peer[q] = "away"
  <2>1. peer[p] # "away"
    BY <1>1, <1>2 DEF AcceptInv
  <2> QED BY <1>1, <1>4, <2>1 DEF TypeOK
<1>8. AcceptInv'
  BY <1>1, <1>5, <1>6, <1>7, AcceptFrame
<1>9. \A q \in Peers : SameTurn(q)
  BY <1>5, <1>6, TurnKept
<1> QED BY <1>2, <1>8, <1>9

LEMMA Elsewhere ==
    ASSUME ServerInv, NEW p \in Peers, Moves(p), NEW q \in Peers \ {p}
    PROVE  PeerInv(q)'
<1>1. PeerInv(q) /\ TypeOK
  BY DEF ServerInv, ErrandInv, CloseInv, ListInv, PeerInv
<1>2. SameCalls(q) /\ SameTurn(q)
  BY <1>1, CallsElsewhere, MovesOn
<1>3. SameSocket(q)
  <2>1. CASE BlockOf(p) \/ OnConnectionQueue(p)
    BY <1>1, <2>1
       DEF BlockOf, SetupSources, SetDelegate, EnqueueRead, EnqueueWrite, Runs,
           OnConnectionQueue, StartConnection, DidReadData, KeepAlive, Asks, Disconnect,
           SocketDidDisconnect, SameSocket, TypeOK, sockets
  <2>2. CASE ReadEvent(p) \/ DoReadTimeout(p) \/ WriteEvent(p)
    BY <1>1, <2>2
       DEF ReadEvent, DoReadData, DoReadEOF, DoReadTimeout, WriteEvent, CompleteCurrentWrite,
           WriteFails, CloseWithError, SameSocket, TypeOK
  <2> QED BY <2>1, <2>2 DEF Moves
<1>4. SameConnection(q)
  <2>1. CASE BlockOf(p) \/ OnConnectionQueue(p)
    BY <1>1, <2>1
       DEF BlockOf, SetupSources, SetDelegate, EnqueueRead, EnqueueWrite,
           OnConnectionQueue, StartConnection, DidReadData, KeepAlive, Disconnect,
           SocketDidDisconnect, Die, SameConnection, TypeOK, conns, history
  <2>2. CASE ReadEvent(p) \/ DoReadTimeout(p) \/ WriteEvent(p)
    BY <1>1, <2>2
       DEF ReadEvent, DoReadData, DoReadEOF, DoReadTimeout, WriteEvent, CompleteCurrentWrite,
           WriteFails, CloseWithError, SameConnection, conns, history
  <2> QED BY <2>1, <2>2 DEF Moves
<1> QED BY <1>1, <1>2, <1>3, <1>4, Frame
(***************************************************************************)
(* The invariant is inductive: the connection that a step concerns.        *)
(***************************************************************************)

\* What is known of p before one of its steps.
LEMMA Before ==
    ASSUME ServerInv, NEW p \in Peers
    PROVE  TypeOK /\ AcceptInv /\ PeerInv(p) /\ ErrandOf(p) /\ CloseOf(p) /\ ListOf(p)
BY DEF ServerInv, ErrandInv, CloseInv, ListInv, PeerInv

\* The blocks of the socket's queue.
LEMMA BlockStep ==
    ASSUME ServerInv, NEW p \in Peers, BlockOf(p)
    PROVE  PeerInv(p)'
<1>1. TypeOK /\ ErrandOf(p) /\ CloseOf(p) /\ ListOf(p)
  BY Before
<1>2. SameTurn(p)
  BY MovesOn DEF Moves
<1>3. /\ HasCall(p)' <=> HasCall(p)
      /\ Ending(p)' <=> Ending(p)
      /\ OnePlace(connectionQueue, CallsOf(p)) => OnePlace(connectionQueue', CallsOf(p))
      /\ OnePlace(connectionQueue, EndOf(p)) => OnePlace(connectionQueue', EndOf(p))
      /\ UNCHANGED <<phase, asyncSocket, connections, early, deaths>>
  BY DEF BlockOf, SetupSources, SetDelegate, EnqueueRead, EnqueueWrite, HasCall, Ending,
         PlacesOf, OnePlace, conns, history
<1> DEFINE Ran(block) ==
             /\ Runs(p, block)
             /\ source'[p] <=> (source[p] \/ block = "setup")
             /\ currentRead'[p] <=> IF block = "read" THEN phase[p] = "started" ELSE currentRead[p]
             /\ currentWrite'[p] <=>
                   IF block = "write" THEN phase[p] = "started" ELSE currentWrite[p]
<1>4. PICK block \in Blocks : Ran(block)
  <2>1. SetupSources(p) => Ran("setup")
    BY <1>1 DEF SetupSources, TypeOK
  <2>2. SetDelegate(p) => Ran("setDelegate")
    BY <1>1 DEF SetDelegate, TypeOK
  <2>3. EnqueueRead(p) => Ran("read")
    BY <1>1 DEF EnqueueRead, TypeOK
  <2>4. EnqueueWrite(p) => Ran("write")
    BY <1>1 DEF EnqueueWrite, TypeOK
  <2> QED BY <2>1, <2>2, <2>3, <2>4 DEF BlockOf, Blocks
<1>5. /\ block \notin Errands => (HasBlock(p)' <=> HasBlock(p))
      /\ OnePlace(socketQueue'[p], Errands)
      /\ block \in Errands => HasBlock(p) /\ ~HasBlock(p)'
      /\ block = "setup" => HasSetup(p)
      /\ ~HasSetup(p)'
  BY <1>1, <1>4, BlockRuns DEF ErrandOf, CloseOf
<1>6. PlacesOf(socketQueue[p], {"setup"})' = {}
  BY <1>5 DEF HasSetup
<1>7. phase[p] # "none"
  BY <1>1, <1>4 DEF Runs, CloseOf
<1>8. ErrandOf(p)'
  BY <1>1, <1>2, <1>3, <1>4, <1>5 DEF ErrandOf, NoErrand, SameTurn, Errands, Blocks, TypeOK
<1>9. CloseOf(p)'
  BY <1>1, <1>2, <1>3, <1>4, <1>5, <1>6, <1>7
     DEF CloseOf, ErrandOf, SameTurn, Errands, Blocks, TypeOK
<1>10. ListOf(p)'
  BY <1>1, <1>2, <1>3 DEF ListOf, SameTurn
<1> QED BY <1>8, <1>9, <1>10 DEF PeerInv
\* A read or a write that is done becomes a call.
LEMMA DoneStep ==
    ASSUME ServerInv, NEW p \in Peers, DoReadData(p) \/ CompleteCurrentWrite(p)
    PROVE  PeerInv(p)'
<1>1. TypeOK /\ ErrandOf(p) /\ CloseOf(p) /\ ListOf(p)
  BY Before
<1>2. SameTurn(p)
  BY MovesOn DEF Moves, ReadEvent, WriteEvent
<1>3. /\ UNCHANGED <<socketQueue, phase, source, asyncSocket, connections, early, deaths>>
      /\ HasBlock(p)' <=> HasBlock(p)
      /\ HasSetup(p)' <=> HasSetup(p)
  BY DEF DoReadData, CompleteCurrentWrite, HasBlock, HasSetup, PlacesOf, conns, history
<1>4. PICK call \in AllCalls :
         /\ call.of = p /\ call.do # "didDisconnect"
         /\ connectionQueue' = Append(connectionQueue, call)
  <2>1. CASE DoReadData(p)
    <3>1. Head(inbox[p]) \in Requests
      BY <1>1, <2>1, HeadTailProperties, QueueTypes DEF DoReadData
    <3> QED BY <2>1, <3>1, CallType DEF DoReadData, Call
  <2>2. CASE CompleteCurrentWrite(p)
    BY <2>2, CallType DEF CompleteCurrentWrite, Call, Calls
  <2> QED BY <2>1, <2>2
<1>5. /\ ~HasBlock(p) /\ ~HasCall(p) /\ ~currentRead'[p] /\ ~currentWrite'[p]
      /\ phase[p] = "started" /\ Accepted(p)
  BY <1>1
     DEF DoReadData, CompleteCurrentWrite, ErrandOf, CloseOf, NoErrand, TypeOK
<1>6. /\ HasCall(p)'
      /\ Ending(p)' <=> Ending(p)
      /\ OnePlace(connectionQueue, CallsOf(p)) => OnePlace(connectionQueue', CallsOf(p))
      /\ OnePlace(connectionQueue, EndOf(p)) => OnePlace(connectionQueue', EndOf(p))
  BY <1>1, <1>4, <1>5, CallAdded
<1>7. ErrandOf(p)'
  BY <1>1, <1>2, <1>3, <1>5, <1>6 DEF ErrandOf, NoErrand, SameTurn
<1>8. CloseOf(p)'
  BY <1>1, <1>2, <1>3, <1>5, <1>6 DEF CloseOf, SameTurn
<1>9. ListOf(p)'
  BY <1>1, <1>2, <1>3, <1>6 DEF ListOf, SameTurn
<1> QED BY <1>7, <1>8, <1>9 DEF PeerInv

\* The socket ends: by its peer, by its timer, or by a write that fails.
LEMMA CloseStep ==
    ASSUME ServerInv, NEW p \in Peers, DoReadEOF(p) \/ DoReadTimeout(p) \/ WriteFails(p)
    PROVE  PeerInv(p)'
<1>1. TypeOK /\ ErrandOf(p) /\ CloseOf(p) /\ ListOf(p)
  BY Before
<1>2. SameTurn(p)
  BY MovesOn DEF Moves, ReadEvent, WriteEvent
<1>3. /\ UNCHANGED <<socketQueue, asyncSocket, connections, deaths>>
      /\ HasBlock(p)' <=> HasBlock(p)
      /\ HasSetup(p)' <=> HasSetup(p)
  BY DEF DoReadEOF, DoReadTimeout, WriteFails, HasBlock, HasSetup, PlacesOf, conns
<1>4. /\ CloseWithError(p) /\ phase[p] = "started" /\ ~HasSetup(p)
      /\ ~Ending(p) /\ p \notin early /\ deaths[p] = 0
  BY <1>1 DEF DoReadEOF, DoReadTimeout, WriteFails, CloseOf
<1>5. /\ phase'[p] = "closed" /\ ~source'[p] /\ ~currentRead'[p] /\ ~currentWrite'[p]
  BY <1>1, <1>4 DEF CloseWithError, TypeOK
<1>6. /\ HasCall(p)' <=> HasCall(p)
      /\ OnePlace(connectionQueue, CallsOf(p)) => OnePlace(connectionQueue', CallsOf(p))
      /\ OnePlace(connectionQueue', EndOf(p))
      /\ \/ Ending(p)' /\ p \notin early'
         \/ ~Ending(p)' /\ p \in early'
  <2>1. CASE delegate[p] = "connection"
    <3> DEFINE call == Call("didDisconnect", p, Nil)
    <3>1. call \in AllCalls /\ call.of = p /\ call.do = "didDisconnect"
      BY CallType DEF Call, Calls
    <3>2. connectionQueue' = Append(connectionQueue, call) /\ UNCHANGED early
      BY <1>4, <2>1 DEF CloseWithError
    <3> HIDE DEF call
    <3> QED BY <1>1, <1>4, <3>1, <3>2, CallAdded DEF CloseOf
  <2>2. CASE delegate[p] # "connection"
    <3>1. UNCHANGED connectionQueue /\ p \in early'
      BY <1>4, <2>2 DEF CloseWithError
    <3> QED BY <1>1, <1>4, <3>1 DEF HasCall, Ending, PlacesOf, OnePlace, CloseOf
  <2> QED BY <2>1, <2>2
<1>7. ErrandOf(p)'
  BY <1>1, <1>2, <1>3, <1>5, <1>6 DEF ErrandOf, NoErrand, SameTurn
<1>8. CloseOf(p)'
  <2>1. \A i \in PlacesOf(socketQueue[p], {"setup"})' : i = 1
    BY <1>3, <1>4 DEF HasSetup
  <2> QED BY <1>1, <1>2, <1>3, <1>4, <1>5, <1>6, <2>1 DEF CloseOf, SameTurn
<1>9. ListOf(p)'
  BY <1>1, <1>2, <1>3, <1>4, <1>5, <1>6 DEF ListOf, SameTurn
<1> QED BY <1>7, <1>8, <1>9 DEF PeerInv

\* A call is served, and the connection asks its socket for the next thing.
LEMMA AskStep ==
    ASSUME ServerInv, NEW p \in Peers, StartConnection(p) \/ DidReadData(p) \/ KeepAlive(p)
    PROVE  PeerInv(p)'
<1>1. TypeOK /\ ErrandOf(p) /\ CloseOf(p) /\ ListOf(p)
  BY Before
<1>2. SameTurn(p)
  BY MovesOn DEF Moves, OnConnectionQueue
<1>3. UNCHANGED <<phase, source, currentRead, currentWrite, asyncSocket, connections, early, deaths>>
  BY DEF StartConnection, DidReadData, KeepAlive, conns, history
<1>4. PICK what \in Calls \ {"didDisconnect"} : Serves(what, p)
  BY DEF StartConnection, DidReadData, KeepAlive, Calls
<1>5. connectionQueue' = Tail(connectionQueue)
  BY DEF StartConnection, DidReadData, KeepAlive
<1>6. /\ HasCall(p) /\ ~HasCall(p)'
      /\ Ending(p)' <=> Ending(p)
      /\ OnePlace(connectionQueue', CallsOf(p)) /\ OnePlace(connectionQueue', EndOf(p))
  <2>1. Ending(p)' <=> Ending(p)
    <3>1. Ending(p)' = Ending(p)
      BY <1>1, <1>4, <1>5, CallServed
    <3> QED BY <3>1
  <2> QED BY <1>1, <1>4, <1>5, <2>1, CallServed DEF ErrandOf, CloseOf
<1>7. ~HasBlock(p) /\ ~currentRead[p] /\ ~currentWrite[p] /\ Accepted(p) /\ phase[p] # "none"
  BY <1>1, <1>6 DEF ErrandOf, NoErrand, Accepted
<1>8. PICK block \in Errands : Asks(p, block)
  BY DEF StartConnection, DidReadData, KeepAlive, Errands
<1>9. /\ OnePlace(socketQueue'[p], Errands)
      /\ asyncSocket[p] => HasBlock(p)'
      /\ PlacesOf(socketQueue[p], {"setup"})' = PlacesOf(socketQueue[p], {"setup"})
  <2>1. CASE asyncSocket[p]
    <3>1. socketQueue' = [socketQueue EXCEPT ![p] = Append(@, block)]
      BY <1>8, <2>1 DEF Asks
    <3>2. block \in Blocks /\ block # "setup"
      BY DEF Errands, Blocks
    <3> QED BY <1>1, <1>7, <3>1, <3>2, BlockAdded DEF ErrandOf
  <2>2. CASE ~asyncSocket[p]
    BY <1>1, <1>8, <2>2 DEF Asks, ErrandOf, OnePlace, PlacesOf
  <2> QED BY <2>1, <2>2
<1>10. HasSetup(p)' <=> HasSetup(p)
  BY <1>9 DEF HasSetup
<1>11. ErrandOf(p)'
  BY <1>1, <1>2, <1>3, <1>6, <1>7, <1>9 DEF ErrandOf, CloseOf, NoErrand, SameTurn
<1>12. CloseOf(p)'
  BY <1>1, <1>2, <1>3, <1>6, <1>7, <1>9, <1>10 DEF CloseOf, SameTurn
<1>13. ListOf(p)'
  BY <1>1, <1>2, <1>3, <1>6 DEF ListOf, SameTurn
<1> QED BY <1>11, <1>12, <1>13 DEF PeerInv
\* The answer is written and the connection is not kept.
LEMMA DisconnectStep ==
    ASSUME ServerInv, NEW p \in Peers, Disconnect(p)
    PROVE  PeerInv(p)'
<1>1. TypeOK /\ ErrandOf(p) /\ CloseOf(p) /\ ListOf(p)
  BY Before
<1>2. SameTurn(p)
  BY MovesOn DEF Moves, OnConnectionQueue
<1>3. /\ UNCHANGED <<socketQueue, asyncSocket, connections, early, deaths>>
      /\ HasBlock(p)' <=> HasBlock(p)
      /\ PlacesOf(socketQueue[p], {"setup"})' = PlacesOf(socketQueue[p], {"setup"})
      /\ HasSetup(p)' <=> HasSetup(p)
  BY DEF Disconnect, HasBlock, HasSetup, PlacesOf, history
<1>4. ~HasSetup(p)
  <2>1. socketQueue[p] = <<>>
    BY DEF Disconnect
  <2> QED BY <2>1, EmptySeq, LenProperties DEF HasSetup, PlacesOf
<1>5. phase'[p] = "closed" /\ ~source'[p] /\ ~currentRead'[p] /\ ~currentWrite'[p]
  BY <1>1 DEF Disconnect, TypeOK
<1>6. /\ HasCall(p) /\ ~HasCall(p)'
      /\ Ending(p)' <=> (Ending(p) \/ phase[p] = "started")
      /\ OnePlace(connectionQueue', CallsOf(p)) /\ OnePlace(connectionQueue', EndOf(p))
  BY <1>1, DisconnectCalls DEF ErrandOf, CloseOf
<1>7. ~HasBlock(p) /\ Accepted(p) /\ phase[p] # "none"
  BY <1>1, <1>6 DEF ErrandOf, NoErrand, Accepted
<1>8. ErrandOf(p)'
  BY <1>1, <1>2, <1>3, <1>5, <1>6, <1>7 DEF ErrandOf, NoErrand, SameTurn
<1>9. CloseOf(p)'
  BY <1>1, <1>2, <1>3, <1>4, <1>5, <1>6, <1>7 DEF CloseOf, SameTurn
<1>10. ListOf(p)'
  BY <1>1, <1>2, <1>3, <1>5, <1>6, <1>7 DEF ListOf, CloseOf, SameTurn, TypeOK
<1> QED BY <1>8, <1>9, <1>10 DEF PeerInv

\* A connection hears of the end of its socket, and dies.
LEMMA DieStep ==
    ASSUME ServerInv, NEW p \in Peers, SocketDidDisconnect(p)
    PROVE  PeerInv(p)'
<1>1. TypeOK /\ ErrandOf(p) /\ CloseOf(p) /\ ListOf(p)
  BY Before
<1>2. SameTurn(p)
  BY MovesOn DEF Moves, OnConnectionQueue
<1>3. /\ UNCHANGED <<socketQueue, phase, source, currentRead, currentWrite>>
      /\ HasBlock(p)' <=> HasBlock(p)
      /\ HasSetup(p)' <=> HasSetup(p)
  BY DEF SocketDidDisconnect, sockets, HasBlock, HasSetup, PlacesOf
<1>4. /\ Ending(p) /\ ~Ending(p)'
      /\ OnePlace(connectionQueue', CallsOf(p)) /\ OnePlace(connectionQueue', EndOf(p))
      /\ HasCall(p)' <=> HasCall(p)
  <2>1. Serves("didDisconnect", p) /\ connectionQueue' = Tail(connectionQueue)
    BY DEF SocketDidDisconnect
  <2>2. HasCall(p)' = HasCall(p)
    BY <1>1, <2>1, CallServed
  <2> QED BY <1>1, <2>1, <2>2, CallServed DEF ErrandOf, CloseOf
<1>5. phase[p] = "closed" /\ deaths[p] = 0 /\ p \notin early
  BY <1>1, <1>4 DEF CloseOf
<1>6. /\ deaths'[p] = 1 /\ ~asyncSocket'[p] /\ p \notin connections'
      /\ p \in early' <=> p \notin connections
  BY <1>1, <1>5 DEF SocketDidDisconnect, Die, TypeOK
<1>7. ErrandOf(p)'
  BY <1>1, <1>2, <1>3, <1>4 DEF ErrandOf, NoErrand, SameTurn
<1>8. CloseOf(p)'
  <2>1. \A i \in PlacesOf(socketQueue[p], {"setup"})' : i = 1
    BY <1>1, <1>3, <1>5 DEF CloseOf, HasSetup
  <2> QED BY <1>1, <1>2, <1>3, <1>4, <1>5, <1>6, <2>1 DEF CloseOf, SameTurn
<1>9. ListOf(p)'
  BY <1>1, <1>2, <1>3, <1>4, <1>5, <1>6 DEF ListOf, SameTurn
<1> QED BY <1>7, <1>8, <1>9 DEF PeerInv

\* Every step of a socket or a connection keeps the invariant.
LEMMA MovesStep ==
    ASSUME ServerInv, NEW p \in Peers, Moves(p)
    PROVE  ServerInv'
<1>1. TypeOK' /\ AcceptInv'
  BY TypeSocket, TypeConnection, MovesOn DEF Moves, ServerInv
<1>2. PeerInv(p)'
  BY BlockStep, DoneStep, CloseStep, AskStep, DisconnectStep, DieStep
     DEF Moves, ReadEvent, WriteEvent, OnConnectionQueue
<1>3. \A q \in Peers : PeerInv(q)'
  BY <1>2, Elsewhere
<1> QED BY <1>1, <1>3 DEF ServerInv, ErrandInv, CloseInv, ListInv, PeerInv

(***************************************************************************)
(* The invariant is inductive: the peers, and the server queue.            *)
(***************************************************************************)

LEMMA OutsideStep ==
    ASSUME ServerInv, NEW p \in Peers, Outside(p)
    PROVE  ServerInv'
<1>1. TypeOK /\ AcceptInv /\ TypeOK'
  BY TypeOutside DEF ServerInv
<1>2. UNCHANGED <<sockets, connectionQueue, conns, history>>
  BY DEF Outside, DoAccept, PeerCloses, PeerSends
<1>3. AcceptInv' /\ \A q \in Peers : SameTurn(q)
  <2>1. CASE DoAccept(p)
    BY <1>1, <2>1, AcceptStep DEF SameTurn
  <2>2. CASE PeerCloses(p) \/ \E r \in Requests : PeerSends(p, r)
    <3>1. UNCHANGED accepts /\ \A q \in Peers : peer'[q] = "away" <=> peer[q] = "away"
      BY <1>1, <2>2 DEF PeerCloses, PeerSends, TypeOK
    <3>2. \A q \in Peers : phase'[q] = "none" <=> phase[q] = "none"
      BY <1>2 DEF sockets
    <3> QED BY <1>1, <3>1, <3>2, AcceptFrame, TurnKept
  <2> QED BY <2>1, <2>2 DEF Outside
<1>4. \A q \in Peers : SameSocket(q) /\ SameConnection(q) /\ SameCalls(q)
  BY <1>2
     DEF sockets, conns, history, SameSocket, SameConnection, SameCalls, HasCall, Ending,
         PlacesOf, OnePlace
<1>5. \A q \in Peers : PeerInv(q)'
  BY <1>3, <1>4, Before, Frame
<1> QED BY <1>1, <1>3, <1>5 DEF ServerInv, ErrandInv, CloseInv, ListInv, PeerInv
\* The server queue works on one socket, and the others keep what they have.
LEMMA ServerQueueOthers ==
    ASSUME ServerInv, OnServerQueue, NEW p, p = Head(serverQueue), NEW q \in Peers \ {p}
    PROVE  PeerInv(q)'
<1>1. TypeOK /\ AcceptInv /\ PeerInv(q)
  BY Before DEF ServerInv
<1>2. p \in Peers /\ SameTurn(q)
  BY <1>1, ServerQueueStep DEF SameTurn
<1>3. SameSocket(q) /\ SameConnection(q)
  BY <1>1
     DEF OnServerQueue, CreateSocket, TakeOver, AddConnection, Start, SameSocket,
         SameConnection, TypeOK, sockets, conns, history
<1>4. SameCalls(q)
  <2>1. CASE Start
    BY <1>1, <1>2, <2>1, CallAdded, CallType DEF Start, Call, Calls, SameCalls
  <2>2. CASE CreateSocket \/ TakeOver \/ AddConnection
    BY <2>2
       DEF CreateSocket, TakeOver, AddConnection, SameCalls, HasCall, Ending, PlacesOf, OnePlace
  <2> QED BY <2>1, <2>2 DEF OnServerQueue
<1> QED BY <1>1, <1>2, <1>3, <1>4, Frame

LEMMA CreateSocketStep ==
    ASSUME ServerInv, CreateSocket, NEW p, p = Head(serverQueue)
    PROVE  PeerInv(p)'
<1>1. TypeOK /\ AcceptInv /\ p \in Peers /\ ~Accepted(p) /\ ~Accepted(p)'
  BY ServerQueueStep DEF ServerInv, OnServerQueue, CreateSocket, Start
<1>2. ErrandOf(p) /\ CloseOf(p)
  BY <1>1, Before
<1>3. phase[p] = "none" /\ serverQueue # <<>>
  BY <1>1, QueueTypes, TailIndex DEF CreateSocket, AcceptInv
<1>4. /\ phase' = [phase EXCEPT ![p] = "started"] /\ phase'[p] = "started"
      /\ socketQueue' = [socketQueue EXCEPT ![p] = Append(@, "setup")]
      /\ AtHead(p, {"created", "taken"})' /\ ~AtHead(p, {"listed"})'
      /\ ~AtHead(p, {"taken", "listed"})'
      /\ UNCHANGED <<source, currentRead, currentWrite, connectionQueue, asyncSocket,
                     connections, early, deaths>>
  BY <1>1, <1>3 DEF CreateSocket, AtHead, TypeOK, conns, history
<1>5. /\ ~HasBlock(p)' /\ HasSetup(p)'
      /\ OnePlace(socketQueue'[p], Errands)
      /\ \A i \in PlacesOf(socketQueue'[p], {"setup"}) : i = 1
  BY <1>1, <1>2, <1>3, <1>4, BlockAdded DEF Blocks, Errands, ErrandOf, NoErrand, CloseOf
<1>6. /\ HasCall(p)' <=> HasCall(p)
      /\ Ending(p)' <=> Ending(p)
      /\ OnePlace(connectionQueue, CallsOf(p)) => OnePlace(connectionQueue', CallsOf(p))
      /\ OnePlace(connectionQueue, EndOf(p)) => OnePlace(connectionQueue', EndOf(p))
  BY <1>4 DEF HasCall, Ending, PlacesOf, OnePlace
<1>7. ErrandOf(p)'
  BY <1>1, <1>2, <1>4, <1>5, <1>6 DEF ErrandOf, NoErrand
<1>8. CloseOf(p)'
  BY <1>1, <1>2, <1>3, <1>4, <1>5, <1>6 DEF CloseOf, ErrandOf, NoErrand
<1>9. ListOf(p)'
  BY <1>1, <1>2, <1>3, <1>4 DEF ListOf, CloseOf
<1> QED BY <1>7, <1>8, <1>9 DEF PeerInv

LEMMA TakeOverStep ==
    ASSUME ServerInv, TakeOver, NEW p, p = Head(serverQueue)
    PROVE  PeerInv(p)'
<1>1. TypeOK /\ AcceptInv /\ p \in Peers /\ ~Accepted(p) /\ ~Accepted(p)'
  BY ServerQueueStep DEF ServerInv, OnServerQueue, TakeOver, Start
<1>2. ErrandOf(p) /\ CloseOf(p) /\ ListOf(p)
  BY <1>1, Before
<1>3. serverQueue # <<>> /\ phase[p] # "none"
  BY <1>1, QueueTypes, TailIndex DEF TakeOver, AcceptInv
<1>4. /\ asyncSocket'[p]
      /\ socketQueue' = [socketQueue EXCEPT ![p] = Append(@, "setDelegate")]
      /\ AtHead(p, {"created", "taken"}) /\ ~AtHead(p, {"listed"})'
      /\ UNCHANGED <<phase, source, currentRead, currentWrite, connectionQueue,
                     connections, early, deaths>>
  BY <1>1, <1>3 DEF TakeOver, AtHead, TypeOK, history
<1>5. /\ ~HasBlock(p)'
      /\ HasSetup(p)' <=> HasSetup(p)
      /\ OnePlace(socketQueue'[p], Errands)
      /\ PlacesOf(socketQueue'[p], {"setup"}) = PlacesOf(socketQueue[p], {"setup"})
  BY <1>1, <1>2, <1>4, BlockAdded DEF Blocks, Errands, ErrandOf, NoErrand
<1>6. /\ HasCall(p)' <=> HasCall(p)
      /\ Ending(p)' <=> Ending(p)
      /\ OnePlace(connectionQueue, CallsOf(p)) => OnePlace(connectionQueue', CallsOf(p))
      /\ OnePlace(connectionQueue, EndOf(p)) => OnePlace(connectionQueue', EndOf(p))
  BY <1>4 DEF HasCall, Ending, PlacesOf, OnePlace
<1>7. ErrandOf(p)'
  BY <1>1, <1>2, <1>4, <1>5, <1>6 DEF ErrandOf, NoErrand
<1>8. CloseOf(p)'
  BY <1>1, <1>2, <1>3, <1>4, <1>5, <1>6 DEF CloseOf
<1>9. ListOf(p)'
  BY <1>1, <1>2, <1>4, <1>6 DEF ListOf
<1> QED BY <1>7, <1>8, <1>9 DEF PeerInv

LEMMA AddConnectionStep ==
    ASSUME ServerInv, AddConnection, NEW p, p = Head(serverQueue)
    PROVE  PeerInv(p)'
<1>1. TypeOK /\ AcceptInv /\ p \in Peers /\ ~Accepted(p) /\ ~Accepted(p)'
  BY ServerQueueStep DEF ServerInv, OnServerQueue, AddConnection, Start
<1>2. ErrandOf(p) /\ CloseOf(p) /\ ListOf(p)
  BY <1>1, Before
<1>3. serverQueue # <<>> /\ phase[p] # "none"
  BY <1>1, QueueTypes, TailIndex DEF AddConnection, AcceptInv
<1>4. /\ p \in connections'
      /\ AtHead(p, {"created", "taken"}) /\ AtHead(p, {"taken", "listed"})
      /\ ~AtHead(p, {"created", "taken"})'
      /\ UNCHANGED <<sockets, connectionQueue, asyncSocket, early, deaths>>
  BY <1>1, <1>3 DEF AddConnection, AtHead, history
<1>5. /\ HasBlock(p)' <=> HasBlock(p)
      /\ HasSetup(p)' <=> HasSetup(p)
      /\ HasCall(p)' <=> HasCall(p)
      /\ Ending(p)' <=> Ending(p)
      /\ OnePlace(socketQueue[p], Errands) => OnePlace(socketQueue'[p], Errands)
      /\ PlacesOf(socketQueue'[p], {"setup"}) = PlacesOf(socketQueue[p], {"setup"})
      /\ OnePlace(connectionQueue, CallsOf(p)) => OnePlace(connectionQueue', CallsOf(p))
      /\ OnePlace(connectionQueue, EndOf(p)) => OnePlace(connectionQueue', EndOf(p))
  BY <1>4 DEF sockets, HasBlock, HasSetup, HasCall, Ending, PlacesOf, OnePlace
<1>6. ErrandOf(p)'
  BY <1>1, <1>2, <1>4, <1>5 DEF ErrandOf, NoErrand, sockets
<1>7. CloseOf(p)'
  BY <1>1, <1>2, <1>3, <1>4, <1>5 DEF CloseOf, sockets
<1>8. ListOf(p)'
  BY <1>1, <1>2, <1>3, <1>4, <1>5 DEF ListOf, sockets, TypeOK
<1> QED BY <1>6, <1>7, <1>8 DEF PeerInv

LEMMA StartStep ==
    ASSUME ServerInv, Start, NEW p, p = Head(serverQueue)
    PROVE  PeerInv(p)'
<1>1. TypeOK /\ AcceptInv /\ p \in Peers /\ ~Accepted(p) /\ Accepted(p)'
  BY ServerQueueStep DEF ServerInv, OnServerQueue
<1>2. ErrandOf(p) /\ CloseOf(p) /\ ListOf(p)
  BY <1>1, Before
<1>3. serverQueue # <<>> /\ phase[p] # "none"
  BY <1>1, QueueTypes, TailIndex DEF Start, AcceptInv
<1>4. /\ AtHead(p, {"listed"}) /\ AtHead(p, {"taken", "listed"})
      /\ ~AtHead(p, {"created", "taken"})'
      /\ UNCHANGED <<sockets, conns, history>>
  BY <1>3 DEF Start, AtHead
<1>5. /\ HasCall(p)'
      /\ Ending(p)' <=> Ending(p)
      /\ OnePlace(connectionQueue', CallsOf(p)) /\ OnePlace(connectionQueue', EndOf(p))
  BY <1>1, <1>2, CallAdded, CallType DEF Start, Call, Calls, ErrandOf, NoErrand, CloseOf
<1>6. /\ HasBlock(p)' <=> HasBlock(p)
      /\ HasSetup(p)' <=> HasSetup(p)
      /\ OnePlace(socketQueue[p], Errands) => OnePlace(socketQueue'[p], Errands)
      /\ PlacesOf(socketQueue'[p], {"setup"}) = PlacesOf(socketQueue[p], {"setup"})
  BY <1>4 DEF sockets, HasBlock, HasSetup, PlacesOf, OnePlace
<1>7. ErrandOf(p)'
  BY <1>1, <1>2, <1>4, <1>5, <1>6 DEF ErrandOf, NoErrand, sockets
<1>8. CloseOf(p)'
  BY <1>1, <1>2, <1>3, <1>4, <1>5, <1>6 DEF CloseOf, sockets, conns, history
<1>9. ListOf(p)'
  BY <1>1, <1>2, <1>4, <1>5 DEF ListOf, sockets, conns, history
<1> QED BY <1>7, <1>8, <1>9 DEF PeerInv

LEMMA ServerStep ==
    ASSUME ServerInv, OnServerQueue
    PROVE  ServerInv'
<1>0. PICK p : p = Head(serverQueue)
  OBVIOUS
<1>1. TypeOK' /\ AcceptInv'
  BY <1>0, TypeServerQueue, ServerQueueStep DEF ServerInv
<1>2. PeerInv(p)'
  BY <1>0, CreateSocketStep, TakeOverStep, AddConnectionStep, StartStep DEF OnServerQueue
<1>3. \A q \in Peers \ {p} : PeerInv(q)'
  BY <1>0, ServerQueueOthers
<1>4. \A q \in Peers : PeerInv(q)'
  BY <1>2, <1>3
<1> QED BY <1>1, <1>4 DEF ServerInv, ErrandInv, CloseInv, ListInv, PeerInv
(***************************************************************************)
(* The theorems.                                                           *)
(***************************************************************************)

LEMMA InvInit == Init => ServerInv
<1> SUFFICES ASSUME Init PROVE ServerInv
  OBVIOUS
<1>1. TypeOK
  <2>1. <<>> \in Seq(Peers) /\ <<>> \in Seq(Requests) /\ <<>> \in Seq(Blocks)
        /\ <<>> \in Seq(AllCalls) /\ <<>> \in Seq([of : Peers, request : Requests])
    BY EmptySeq
  <2>2. 0 \in 0..MaxSent
    BY BoundAssumption
  <2> QED BY <2>1, <2>2 DEF Init, TypeOK
<1>2. AcceptInv
  BY EmptySeq, LenProperties DEF Init, AcceptInv
<1>3. \A S : \A p \in Peers : /\ PlacesOf(connectionQueue, S) = {}
                             /\ PlacesOf(socketQueue[p], S) = {}
  <2>1. DOMAIN <<>> = {}
    OBVIOUS
  <2>2. connectionQueue = <<>> /\ \A p \in Peers : socketQueue[p] = <<>>
    BY DEF Init
  <2> QED BY <2>1, <2>2 DEF PlacesOf
<1>4. \A p \in Peers : /\ NoErrand(p) /\ ~Ending(p) /\ ~HasSetup(p) /\ ~Accepted(p)
                      /\ \A S : ~AtHead(p, S)
  BY <1>3 DEF Init, NoErrand, HasBlock, HasCall, Ending, HasSetup, Accepted, AtHead
<1>5. ErrandInv
  BY <1>3, <1>4 DEF ErrandInv, ErrandOf, OnePlace, NoErrand
<1>6. CloseInv
  <2> SUFFICES ASSUME NEW p \in Peers PROVE CloseOf(p)
    BY DEF CloseInv
  <2>1. /\ phase[p] = "none" /\ ~source[p] /\ ~asyncSocket[p] /\ socketQueue[p] = <<>>
        /\ ~currentRead[p] /\ ~currentWrite[p]
        /\ p \notin connections /\ p \notin early /\ deaths[p] = 0
    BY DEF Init
  <2>2. OnePlace(connectionQueue, EndOf(p)) /\ PlacesOf(socketQueue[p], {"setup"}) = {}
    BY <1>3 DEF OnePlace
  <2> QED BY <1>4, <2>1, <2>2 DEF CloseOf
<1>7. ListInv
  BY <1>4 DEF ListInv, ListOf
<1> QED BY <1>1, <1>2, <1>5, <1>6, <1>7 DEF ServerInv

LEMMA InvNext == ServerInv /\ [Next]_vars => ServerInv'
<1> SUFFICES ASSUME ServerInv, [Next]_vars PROVE ServerInv'
  OBVIOUS
<1>1. CASE UNCHANGED vars
  <2>1. TypeOK' /\ AcceptInv'
    BY <1>1 DEF vars, outside, accepts, sockets, conns, history, ServerInv, TypeOK, AcceptInv
  <2>2. \A q \in Peers : SameSocket(q) /\ SameConnection(q) /\ SameCalls(q) /\ SameTurn(q)
    BY <1>1
       DEF vars, outside, accepts, sockets, conns, history, SameSocket, SameConnection,
           SameCalls, SameTurn, HasCall, Ending, PlacesOf, OnePlace, Accepted, AtHead
  <2>3. \A q \in Peers : PeerInv(q)'
    BY <2>2, Before, Frame
  <2> QED BY <2>1, <2>3 DEF ServerInv, ErrandInv, CloseInv, ListInv, PeerInv
<1>2. CASE OnServerQueue
  BY <1>2, ServerStep
<1>3. ASSUME NEW p \in Peers, Outside(p) \/ Moves(p) PROVE ServerInv'
  BY <1>3, OutsideStep, MovesStep
<1> QED BY <1>1, <1>2, <1>3 DEF Next, Moves

LEMMA InvAlways == Spec => []ServerInv
BY InvInit, InvNext, PTL DEF Spec

\* Every variable keeps its type: in particular a call that brings bytes brings a request.
THEOREM TypeCorrect == Spec => []TypeOK
<1>1. ServerInv => TypeOK
  BY DEF ServerInv
<1> QED BY <1>1, InvAlways, PTL

\* A connection does one thing at a time, and is never left with nothing to do while its
\* socket lives.
THEOREM OneErrandAlways == Spec => []OneErrand
<1>1. ServerInv => OneErrand
  <2> SUFFICES ASSUME ServerInv, NEW p \in Peers
               PROVE  /\ \A one, other \in Waits(p) : one = other
                      /\ Accepted(p) /\ phase[p] = "started" => Waits(p) # {}
    BY DEF OneErrand
  <2>1. ErrandOf(p)
    BY Before
  <2> DEFINE blocks == PlacesOf(socketQueue[p], Errands)
             calls  == PlacesOf(connectionQueue, CallsOf(p))
  <2>2. \A w \in Waits(p) :
           \/ \E i \in blocks : w = <<"block", i>>
           \/ \E i \in calls : w = <<"call", i>>
           \/ currentRead[p] /\ w = <<"currentRead", 0>>
           \/ currentWrite[p] /\ w = <<"currentWrite", 0>>
    BY DEF Waits
  <2>3. /\ \A i \in blocks : <<"block", i>> \in Waits(p)
        /\ \A i \in calls : <<"call", i>> \in Waits(p)
        /\ currentRead[p] => <<"currentRead", 0>> \in Waits(p)
        /\ currentWrite[p] => <<"currentWrite", 0>> \in Waits(p)
    BY DEF Waits
  <2>4. /\ \A i, j \in blocks : i = j
        /\ \A i, j \in calls : i = j
        /\ blocks # {} => calls = {} /\ ~currentRead[p] /\ ~currentWrite[p]
        /\ calls # {} => ~currentRead[p] /\ ~currentWrite[p]
        /\ currentRead[p] => ~currentWrite[p]
        /\ Accepted(p) /\ phase[p] = "started" =>
              blocks # {} \/ calls # {} \/ currentRead[p] \/ currentWrite[p]
    BY <2>1 DEF ErrandOf, OnePlace, HasBlock, HasCall, NoErrand
  <2> HIDE DEF blocks, calls
  <2>5. \A one, other \in Waits(p) : one = other
    BY <2>2, <2>4
  <2>6. Accepted(p) /\ phase[p] = "started" => Waits(p) # {}
    BY <2>3, <2>4
  <2> QED BY <2>5, <2>6
<1> QED BY <1>1, InvAlways, PTL

\* A connection dies once, and not before its socket has closed.
THEOREM DiesOnceAlways == Spec => []DiesOnce
<1>1. ServerInv => DiesOnce
  <2> SUFFICES ASSUME ServerInv, NEW p \in Peers
               PROVE  deaths[p] <= 1 /\ (deaths[p] = 1 => phase[p] = "closed")
    BY DEF DiesOnce
  <2>1. CloseOf(p)
    BY Before
  <2> QED BY <2>1 DEF CloseOf
<1> QED BY <1>1, InvAlways, PTL

\* The list holds the connections that are open, and of those that ended the ones whose end
\* nobody heard in time.
THEOREM ListIsAccurateAlways == Spec => []ListIsAccurate
<1>1. ServerInv => ListIsAccurate
  <2> SUFFICES ASSUME ServerInv, NEW p \in Peers, Accepted(p)
               PROVE  \/ \E i \in DOMAIN connectionQueue :
                            connectionQueue[i] = Call("didDisconnect", p, Nil)
                      \/ p \in connections <=> (phase[p] = "started" \/ p \in early)
    BY DEF ListIsAccurate
  <2>1. ListOf(p)
    BY Before
  <2> QED BY <2>1 DEF ListOf, Ending, PlacesOf, EndOf
<1> QED BY <1>1, InvAlways, PTL
(***************************************************************************)
(* The server keeps the promise of RequestPipe: each step is one of its    *)
(* steps, or changes neither what waits nor what is carried out.           *)
(***************************************************************************)

\* The request of the first such call in the queue, as ReadOf has it.
FirstIn(queue, calls) ==
    IF PlacesOf(queue, calls) = {} THEN <<>>
    ELSE <<queue[CHOOSE i \in PlacesOf(queue, calls) : TRUE].request>>

ReadCalls(p) == [do : {"didRead"}, of : {p}, request : Requests]

\* What is sent and not carried out, of one connection.
LeftOf(p) == ReadOf(p) \o inbox[p]

LEMMA ReadIsFirst ==
    ASSUME NEW p
    PROVE  /\ ReadOf(p) = FirstIn(connectionQueue, ReadCalls(p))
           /\ ReadOf(p)' = FirstIn(connectionQueue', ReadCalls(p))
BY DEF ReadOf, ReadsOf, FirstIn, ReadCalls

LEMMA FirstAppended ==
    ASSUME NEW queue \in Seq(AllCalls), NEW call \in AllCalls, NEW calls
    PROVE  /\ call \notin calls => FirstIn(Append(queue, call), calls) = FirstIn(queue, calls)
           /\ PlacesOf(queue, calls) = {} => FirstIn(queue, calls) = <<>>
           /\ PlacesOf(queue, calls) = {} /\ call \in calls =>
                 FirstIn(Append(queue, call), calls) = <<call.request>>
<1> DEFINE longer == Append(queue, call)
<1>1. /\ \A i \in DOMAIN queue : longer[i] = queue[i]
      /\ longer[Len(queue) + 1] = call
  BY AppendIndex
<1>2. /\ call \notin calls => PlacesOf(longer, calls) = PlacesOf(queue, calls)
      /\ PlacesOf(queue, calls) = {} /\ call \in calls =>
            PlacesOf(longer, calls) = {Len(queue) + 1}
  BY AppendPlaces
<1> HIDE DEF longer
<1>3. CASE call \notin calls
  <2>1. CASE PlacesOf(queue, calls) = {}
    BY <1>2, <1>3, <2>1 DEF FirstIn, longer
  <2>2. CASE PlacesOf(queue, calls) # {}
    <3> DEFINE i == CHOOSE i \in PlacesOf(queue, calls) : TRUE
    <3>1. i \in PlacesOf(queue, calls)
      BY <2>2
    <3>2. longer[i] = queue[i]
      BY <1>1, <3>1 DEF PlacesOf
    <3>3. FirstIn(queue, calls) = <<queue[i].request>>
      BY <2>2 DEF FirstIn
    <3>4. FirstIn(longer, calls) = <<longer[i].request>>
      BY <1>2, <1>3, <2>2 DEF FirstIn
    <3> QED BY <1>3, <2>2, <3>2, <3>3, <3>4 DEF longer
  <2> QED BY <1>3, <2>1, <2>2
<1>4. CASE PlacesOf(queue, calls) = {} /\ call \in calls
  <2> DEFINE i == CHOOSE i \in PlacesOf(longer, calls) : TRUE
  <2>1. PlacesOf(longer, calls) = {Len(queue) + 1}
    BY <1>2, <1>4
  <2>2. i \in PlacesOf(longer, calls)
    BY <2>1
  <2>3. i = Len(queue) + 1
    BY <2>1, <2>2
  <2> QED BY <1>1, <1>4, <2>1, <2>3 DEF FirstIn, longer
<1>5. PlacesOf(queue, calls) = {} => FirstIn(queue, calls) = <<>>
  BY DEF FirstIn
<1> QED BY <1>3, <1>4, <1>5

LEMMA FirstServed ==
    ASSUME NEW queue \in Seq(AllCalls), queue # <<>>, NEW calls, OnePlace(queue, calls)
    PROVE  /\ Head(queue) \notin calls => FirstIn(Tail(queue), calls) = FirstIn(queue, calls)
           /\ Head(queue) \in calls =>
                 /\ FirstIn(queue, calls) = <<Head(queue).request>>
                 /\ FirstIn(Tail(queue), calls) = <<>>
<1>1. /\ 1 \in DOMAIN queue /\ Head(queue) = queue[1]
      /\ \A i \in DOMAIN Tail(queue) :
            /\ i \in Nat /\ i + 1 \in DOMAIN queue /\ 1 < i + 1
            /\ Tail(queue)[i] = queue[i + 1]
  BY TailIndex
<1>2. /\ Head(queue) \notin calls =>
            (PlacesOf(Tail(queue), calls) = {} <=> PlacesOf(queue, calls) = {})
      /\ Head(queue) \in calls => PlacesOf(Tail(queue), calls) = {}
  BY TailPlaces
<1> DEFINE i == CHOOSE i \in PlacesOf(queue, calls) : TRUE
           j == CHOOSE j \in PlacesOf(Tail(queue), calls) : TRUE
<1>3. PlacesOf(queue, calls) # {} => i \in PlacesOf(queue, calls)
  OBVIOUS
<1>4. PlacesOf(Tail(queue), calls) # {} => j \in PlacesOf(Tail(queue), calls)
  OBVIOUS
<1>5. FirstIn(queue, calls) =
         IF PlacesOf(queue, calls) = {} THEN <<>> ELSE <<queue[i].request>>
  BY DEF FirstIn
<1>6. FirstIn(Tail(queue), calls) =
         IF PlacesOf(Tail(queue), calls) = {} THEN <<>> ELSE <<Tail(queue)[j].request>>
  BY DEF FirstIn
<1> HIDE DEF i, j
<1>7. CASE Head(queue) \notin calls
  <2>1. PlacesOf(Tail(queue), calls) # {} => queue[i] = Tail(queue)[j]
    <3> SUFFICES ASSUME PlacesOf(Tail(queue), calls) # {} PROVE queue[i] = Tail(queue)[j]
      OBVIOUS
    <3>1. j + 1 \in PlacesOf(queue, calls) /\ Tail(queue)[j] = queue[j + 1]
      BY <1>1, <1>4 DEF PlacesOf
    <3>2. i = j + 1
      BY <1>3, <3>1 DEF OnePlace
    <3> QED BY <3>1, <3>2
  <2> QED BY <1>2, <1>5, <1>6, <1>7, <2>1
<1>8. CASE Head(queue) \in calls
  <2>1. 1 \in PlacesOf(queue, calls)
    BY <1>1, <1>8 DEF PlacesOf
  <2>2. i = 1
    BY <1>3, <2>1 DEF OnePlace
  <2> QED BY <1>1, <1>2, <1>5, <1>6, <1>8, <2>1, <2>2
<1> QED BY <1>7, <1>8

\* What each kind of step means for the promise.
LEMMA PipeSteps ==
    ASSUME NEW p \in Peers, \A q \in Peers \ {p} : LeftOf(q)' = LeftOf(q)
    PROVE  /\ LeftOf(p)' = LeftOf(p) /\ UNCHANGED dispatched =>
                 UNCHANGED <<[q \in Peers |-> ReadOf(q) \o inbox[q]], dispatched>>
           /\ \A r \in Requests :
                 LeftOf(p)' = Append(LeftOf(p), r) /\ UNCHANGED dispatched => Pipe!Send(p, r)
           /\ \A n \in 0..Len(LeftOf(p)) :
                 LeftOf(p)' = SubSeq(LeftOf(p), 1, n) /\ UNCHANGED dispatched => Pipe!Drop(p)
           /\ /\ LeftOf(p) # <<>> /\ LeftOf(p)' = Tail(LeftOf(p))
              /\ dispatched' = Append(dispatched, [of |-> p, request |-> Head(LeftOf(p))])
              => Pipe!Dispatch(p)
<1>1. [q \in Peers |-> ReadOf(q) \o inbox[q]] = [q \in Peers |-> LeftOf(q)]
  BY DEF LeftOf
<1>2. [q \in Peers |-> ReadOf(q) \o inbox[q]]' = [q \in Peers |-> LeftOf(q)']
  BY DEF LeftOf
<1>3. \A x : LeftOf(p)' = x =>
         [q \in Peers |-> LeftOf(q)'] = [[q \in Peers |-> LeftOf(q)] EXCEPT ![p] = x]
  OBVIOUS
<1>4. [q \in Peers |-> LeftOf(q)][p] = LeftOf(p)
  OBVIOUS
<1> DEFINE left == [q \in Peers |-> ReadOf(q) \o inbox[q]]
<1>5. /\ left[p] = LeftOf(p)
      /\ \A x : LeftOf(p)' = x => left' = [left EXCEPT ![p] = x]
  BY <1>1, <1>2, <1>3
<1>6. LeftOf(p)' = LeftOf(p) => UNCHANGED left
  BY <1>1, <1>2
<1> HIDE DEF left
<1>7. ASSUME NEW r \in Requests, LeftOf(p)' = Append(LeftOf(p), r), UNCHANGED dispatched
      PROVE  Pipe!Send(p, r)
  <2>1. left' = [left EXCEPT ![p] = Append(@, r)]
    BY <1>5, <1>7
  <2> QED BY <1>7, <2>1 DEF Pipe!Send, left
<1>8. ASSUME NEW n \in 0..Len(LeftOf(p)), LeftOf(p)' = SubSeq(LeftOf(p), 1, n),
             UNCHANGED dispatched
      PROVE  Pipe!Drop(p)
  <2>1. left' = [left EXCEPT ![p] = SubSeq(@, 1, n)] /\ n \in 0..Len(left[p])
    BY <1>5, <1>8
  <2> QED BY <1>8, <2>1 DEF Pipe!Drop, left
<1>9. ASSUME LeftOf(p) # <<>>, LeftOf(p)' = Tail(LeftOf(p)),
             dispatched' = Append(dispatched, [of |-> p, request |-> Head(LeftOf(p))])
      PROVE  Pipe!Dispatch(p)
  <2>1. /\ left[p] # <<>> /\ left' = [left EXCEPT ![p] = Tail(@)]
        /\ dispatched' = Append(dispatched, [of |-> p, request |-> Head(left[p])])
    BY <1>5, <1>9
  <2> QED BY <2>1 DEF Pipe!Dispatch, left
<1> QED BY <1>6, <1>7, <1>8, <1>9 DEF left
\* At most one request is read and not carried out, and it is the errand of its connection.
LEMMA OneRead ==
    ASSUME ServerInv, NEW q \in Peers
    PROVE  /\ OnePlace(connectionQueue, ReadCalls(q))
           /\ ~HasCall(q) => ReadOf(q) = <<>> /\ PlacesOf(connectionQueue, ReadCalls(q)) = {}
           /\ ReadOf(q) \in Seq(Requests) /\ inbox[q] \in Seq(Requests)
<1>1. ErrandOf(q) /\ connectionQueue \in Seq(AllCalls) /\ inbox[q] \in Seq(Requests)
  BY Before, QueueTypes
<1>2. PlacesOf(connectionQueue, ReadCalls(q)) \subseteq PlacesOf(connectionQueue, CallsOf(q))
  BY DEF PlacesOf, ReadCalls, CallsOf, AllCalls
<1>3. OnePlace(connectionQueue, ReadCalls(q))
  BY <1>1, <1>2 DEF ErrandOf, OnePlace
<1>4. ~HasCall(q) => ReadOf(q) = <<>> /\ PlacesOf(connectionQueue, ReadCalls(q)) = {}
  BY <1>2, ReadIsFirst DEF HasCall, FirstIn
<1>5. ReadOf(q) \in Seq(Requests)
  <2> DEFINE places == PlacesOf(connectionQueue, ReadCalls(q))
             i == CHOOSE i \in places : TRUE
  <2>1. ReadOf(q) = IF places = {} THEN <<>> ELSE <<connectionQueue[i].request>>
    BY ReadIsFirst DEF FirstIn
  <2>2. places # {} => i \in places
    OBVIOUS
  <2>3. \A j \in places : connectionQueue[j].request \in Requests
    BY DEF PlacesOf, ReadCalls
  <2> HIDE DEF places, i
  <2> QED BY <2>1, <2>2, <2>3
<1> QED BY <1>1, <1>3, <1>4, <1>5

\* Calls that come and go, without a read of q among them.
LEMMA ReadKept ==
    ASSUME ServerInv, NEW q \in Peers
    PROVE  /\ UNCHANGED connectionQueue => ReadOf(q)' = ReadOf(q)
           /\ \A call \in AllCalls \ ReadCalls(q) :
                 connectionQueue' = Append(connectionQueue, call) => ReadOf(q)' = ReadOf(q)
           /\ connectionQueue # <<>> /\ Head(connectionQueue) \notin ReadCalls(q) =>
                 /\ connectionQueue' = Tail(connectionQueue) => ReadOf(q)' = ReadOf(q)
                 /\ \A call \in AllCalls \ ReadCalls(q) :
                       connectionQueue' = Append(Tail(connectionQueue), call)
                          => ReadOf(q)' = ReadOf(q)
<1>1. connectionQueue \in Seq(AllCalls) /\ OnePlace(connectionQueue, ReadCalls(q))
  BY QueueTypes, OneRead DEF ServerInv
<1>2. connectionQueue # <<>> => Tail(connectionQueue) \in Seq(AllCalls)
  BY <1>1, HeadTailProperties
<1> DEFINE calls == ReadCalls(q)
<1> HIDE DEF calls
<1>3. \A call \in AllCalls \ calls :
         FirstIn(Append(connectionQueue, call), calls) = FirstIn(connectionQueue, calls)
  BY <1>1, FirstAppended
<1>4. connectionQueue # <<>> /\ Head(connectionQueue) \notin calls =>
         FirstIn(Tail(connectionQueue), calls) = FirstIn(connectionQueue, calls)
  BY <1>1, FirstServed DEF calls
<1>5. connectionQueue # <<>> => \A call \in AllCalls \ calls :
         FirstIn(Append(Tail(connectionQueue), call), calls) = FirstIn(Tail(connectionQueue), calls)
  BY <1>2, FirstAppended
<1>6. /\ ReadOf(q) = FirstIn(connectionQueue, calls)
      /\ ReadOf(q)' = FirstIn(connectionQueue', calls)
  BY ReadIsFirst DEF calls
<1> QED BY <1>3, <1>4, <1>5, <1>6 DEF calls

\* A step of p, or of the server queue, is nothing to what others have sent.
LEMMA LeftElsewhere ==
    ASSUME ServerInv, NEW p \in Peers, NEW q \in Peers, q # p,
           Outside(p) \/ Moves(p)
    PROVE  LeftOf(q)' = LeftOf(q)
<1>1. TypeOK
  BY DEF ServerInv
<1>2. inbox'[q] = inbox[q]
  BY <1>1
     DEF Outside, DoAccept, PeerCloses, PeerSends, Moves, BlockOf, SetupSources, SetDelegate,
         EnqueueRead, EnqueueWrite, ReadEvent, DoReadData, DoReadEOF, DoReadTimeout,
         WriteEvent, CompleteCurrentWrite, WriteFails, OnConnectionQueue, StartConnection,
         DidReadData, KeepAlive, Disconnect, SocketDidDisconnect, TypeOK
<1>3. \A call : call.of = p => call \notin ReadCalls(q)
  BY DEF ReadCalls
<1>4. ReadOf(q)' = ReadOf(q)
  <2>1. CASE Outside(p) \/ BlockOf(p)
    BY <2>1, ReadKept
       DEF Outside, DoAccept, PeerCloses, PeerSends, BlockOf, SetupSources, SetDelegate,
           EnqueueRead, EnqueueWrite
  <2>2. CASE DoReadData(p)
    <3>1. Head(inbox[p]) \in Requests
      BY <1>1, <2>2, HeadTailProperties, QueueTypes DEF DoReadData
    <3> QED BY <1>3, <2>2, <3>1, CallType, ReadKept DEF DoReadData, Call
  <2>3. CASE CompleteCurrentWrite(p) \/ CloseWithError(p)
    BY <1>3, <2>3, CallType, ReadKept DEF CompleteCurrentWrite, CloseWithError, Call, Calls
  <2>4. ASSUME NEW what, Serves(what, p), connectionQueue' = Tail(connectionQueue)
        PROVE  ReadOf(q)' = ReadOf(q)
    BY <1>3, <2>4, ReadKept DEF Serves
  <2>5. CASE Disconnect(p)
    <3>1. \/ connectionQueue' = Tail(connectionQueue)
          \/ connectionQueue' = Append(Tail(connectionQueue), Call("didDisconnect", p, Nil))
      BY <1>1, <2>5, ServesTypes, CallType, ConcatEmptySeq, AppendIsConcat DEF Disconnect, Calls
    <3> QED BY <1>3, <2>5, <3>1, CallType, ReadKept DEF Disconnect, Serves, Call, Calls
  <2> QED
    BY <2>1, <2>2, <2>3, <2>4, <2>5
       DEF Moves, ReadEvent, DoReadEOF, DoReadTimeout, WriteEvent, WriteFails,
           OnConnectionQueue, StartConnection, DidReadData, KeepAlive, SocketDidDisconnect
<1> QED BY <1>2, <1>4 DEF LeftOf
\* What a step of p does to what p has sent: it comes to it, the first of it is carried out,
\* the rest with the kernel is dropped, or nothing.
LEMMA LeftHere ==
    ASSUME ServerInv, NEW p \in Peers, Outside(p) \/ Moves(p)
    PROVE  \/ LeftOf(p)' = LeftOf(p) /\ UNCHANGED dispatched
           \/ \E r \in Requests : LeftOf(p)' = Append(LeftOf(p), r) /\ UNCHANGED dispatched
           \/ \E n \in 0..Len(LeftOf(p)) :
                 LeftOf(p)' = SubSeq(LeftOf(p), 1, n) /\ UNCHANGED dispatched
           \/ /\ LeftOf(p) # <<>> /\ LeftOf(p)' = Tail(LeftOf(p))
              /\ dispatched' = Append(dispatched, [of |-> p, request |-> Head(LeftOf(p))])
<1>1. /\ TypeOK /\ ErrandOf(p)
      /\ ReadOf(p) \in Seq(Requests) /\ inbox[p] \in Seq(Requests)
  BY Before, OneRead
<1>2. \A call : call.do # "didRead" => call \notin ReadCalls(p)
  BY DEF ReadCalls
<1>3. ASSUME ReadOf(p)' = ReadOf(p), inbox'[p] = <<>>
      PROVE  \E n \in 0..Len(LeftOf(p)) : LeftOf(p)' = SubSeq(LeftOf(p), 1, n)
  <2>1. LeftOf(p)' = ReadOf(p)
    BY <1>1, <1>3, ConcatEmptySeq DEF LeftOf
  <2>2. Len(ReadOf(p)) \in 0..Len(LeftOf(p)) /\ SubSeq(LeftOf(p), 1, Len(ReadOf(p))) = ReadOf(p)
    BY <1>1, ConcatPrefix DEF LeftOf
  <2> QED BY <2>1, <2>2
<1>4. CASE DoAccept(p) \/ PeerCloses(p) \/ BlockOf(p)
  <2>1. UNCHANGED <<connectionQueue, inbox, dispatched>>
    BY <1>4
       DEF DoAccept, PeerCloses, BlockOf, SetupSources, SetDelegate, EnqueueRead,
           EnqueueWrite, conns
  <2> QED BY <2>1, ReadKept DEF LeftOf
<1>5. ASSUME NEW r \in Requests, PeerSends(p, r)
      PROVE  LeftOf(p)' = Append(LeftOf(p), r) /\ UNCHANGED dispatched
  <2>1. /\ inbox'[p] = Append(inbox[p], r) /\ UNCHANGED <<connectionQueue, dispatched>>
    BY <1>1, <1>5 DEF PeerSends, TypeOK, conns
  <2>2. ReadOf(p)' = ReadOf(p)
    BY <2>1, ReadKept
  <2>3. ReadOf(p) \o Append(inbox[p], r) = Append(ReadOf(p) \o inbox[p], r)
    BY <1>1, ConcatAppend
  <2> QED BY <2>1, <2>2, <2>3 DEF LeftOf
<1>6. CASE DoReadData(p)
  <2>1. /\ inbox[p] # <<>> /\ Head(inbox[p]) \in Requests /\ ~HasCall(p)
        /\ inbox'[p] = Tail(inbox[p]) /\ UNCHANGED dispatched
        /\ connectionQueue' = Append(connectionQueue, Call("didRead", p, Head(inbox[p])))
    BY <1>1, <1>6, HeadTailProperties DEF DoReadData, TypeOK, ErrandOf, conns
  <2>2. ReadOf(p) = <<>> /\ PlacesOf(connectionQueue, ReadCalls(p)) = {}
    BY <2>1, OneRead
  <2> DEFINE call == Call("didRead", p, Head(inbox[p]))
  <2>3. call \in AllCalls /\ call \in ReadCalls(p) /\ call.request = Head(inbox[p])
    BY <2>1, CallType DEF Call, ReadCalls
  <2> HIDE DEF call
  <2>4. ReadOf(p)' = <<call.request>>
    <3>1. connectionQueue \in Seq(AllCalls) /\ connectionQueue' = Append(connectionQueue, call)
      BY <1>1, <2>1, QueueTypes DEF call
    <3> QED BY <2>2, <2>3, <3>1, FirstAppended, ReadIsFirst
  <2>5. LeftOf(p)' = inbox[p]
    BY <1>1, <2>1, <2>3, <2>4, FirstAndRest DEF LeftOf
  <2>6. LeftOf(p) = inbox[p]
    BY <1>1, <2>2, ConcatEmptySeq DEF LeftOf
  <2> QED BY <2>1, <2>5, <2>6
<1>7. CASE CompleteCurrentWrite(p)
  BY <1>2, <1>7, ReadKept, CallType DEF CompleteCurrentWrite, Call, Calls, LeftOf, conns
<1>8. CloseWithError(p) => ReadOf(p)' = ReadOf(p)
  BY <1>2, ReadKept, CallType DEF CloseWithError, Call, Calls
<1>9. CASE DoReadEOF(p)
  BY <1>8, <1>9 DEF DoReadEOF, LeftOf, conns
<1>10. CASE DoReadTimeout(p) \/ WriteFails(p)
  <2>1. inbox'[p] = <<>> /\ UNCHANGED dispatched
    BY <1>1, <1>10 DEF DoReadTimeout, WriteFails, TypeOK, conns
  <2> QED BY <1>3, <1>8, <1>10, <2>1 DEF DoReadTimeout, WriteFails
<1>11. CASE StartConnection(p) \/ KeepAlive(p) \/ SocketDidDisconnect(p)
  <2>1. /\ connectionQueue # <<>> /\ Head(connectionQueue).do # "didRead"
        /\ connectionQueue' = Tail(connectionQueue) /\ UNCHANGED <<inbox, dispatched>>
    BY <1>11 DEF StartConnection, KeepAlive, SocketDidDisconnect, Serves, conns
  <2> QED BY <1>2, <2>1, ReadKept DEF LeftOf
<1>12. CASE Disconnect(p)
  <2>1. inbox'[p] = <<>> /\ UNCHANGED dispatched
    BY <1>1, <1>12 DEF Disconnect, TypeOK
  <2>2. connectionQueue # <<>> /\ Head(connectionQueue).do # "didRead"
    BY <1>12 DEF Disconnect, Serves
  <2>3. \/ connectionQueue' = Tail(connectionQueue)
        \/ connectionQueue' = Append(Tail(connectionQueue), Call("didDisconnect", p, Nil))
    BY <1>1, <1>12, ServesTypes, CallType, ConcatEmptySeq, AppendIsConcat DEF Disconnect, Calls
  <2>4. ReadOf(p)' = ReadOf(p)
    BY <1>2, <2>2, <2>3, ReadKept, CallType DEF Call, Calls
  <2> QED BY <1>3, <2>1, <2>4
<1>13. CASE DidReadData(p)
  <2> DEFINE call == Head(connectionQueue)
  <2>1. /\ connectionQueue # <<>> /\ connectionQueue' = Tail(connectionQueue)
        /\ call \in AllCalls /\ call.do = "didRead" /\ call.of = p
        /\ dispatched' = Append(dispatched, [of |-> p, request |-> call.request])
        /\ UNCHANGED inbox
    BY <1>1, <1>13, ServesTypes DEF DidReadData, Serves
  <2>2. call \in ReadCalls(p) /\ call.request \in Requests
    BY <2>1 DEF ReadCalls, AllCalls
  <2>3. ReadOf(p) = <<call.request>> /\ ReadOf(p)' = <<>>
    BY <1>1, <2>1, <2>2, QueueTypes, OneRead, FirstServed, ReadIsFirst
  <2> HIDE DEF call
  <2>4. /\ LeftOf(p) # <<>> /\ Head(LeftOf(p)) = call.request
        /\ Tail(LeftOf(p)) = inbox[p]
    BY <1>1, <2>2, <2>3, ConcatFirst DEF LeftOf
  <2>5. LeftOf(p)' = inbox[p]
    BY <1>1, <2>1, <2>3, ConcatEmptySeq DEF LeftOf
  <2> QED BY <2>1, <2>4, <2>5
<1> QED
  BY <1>4, <1>5, <1>6, <1>7, <1>9, <1>10, <1>11, <1>12, <1>13
     DEF Outside, Moves, ReadEvent, WriteEvent, OnConnectionQueue

LEMMA PipeInit == Init => Pipe!Init
<1> SUFFICES ASSUME Init PROVE Pipe!Init
  OBVIOUS
<1>1. \A p \in Peers : inbox[p] = <<>> /\ ReadOf(p) = <<>>
  <2>1. connectionQueue = <<>> /\ DOMAIN <<>> = {}
    BY DEF Init
  <2> QED BY <2>1 DEF Init, ReadOf, ReadsOf, PlacesOf
<1>2. \A p \in Peers : ReadOf(p) \o inbox[p] = <<>>
  BY <1>1, EmptySeq, ConcatEmptySeq
<1> QED BY <1>2 DEF Init, Pipe!Init

LEMMA PipeNext ==
    ServerInv /\ [Next]_vars
        => [Pipe!Next]_<<[p \in Peers |-> ReadOf(p) \o inbox[p]], dispatched>>
<1> DEFINE left == [p \in Peers |-> ReadOf(p) \o inbox[p]]
<1> SUFFICES ASSUME ServerInv, [Next]_vars
             PROVE  Pipe!Next \/ UNCHANGED <<left, dispatched>>
  OBVIOUS
<1>1. CASE UNCHANGED vars
  <2>1. UNCHANGED <<connectionQueue, inbox, dispatched>>
    BY <1>1 DEF vars, conns
  <2>2. \A q \in Peers : ReadOf(q)' = ReadOf(q)
    BY <2>1, ReadKept
  <2> QED BY <2>1, <2>2
<1>2. CASE OnServerQueue
  <2>1. PICK p : p = Head(serverQueue)
    OBVIOUS
  <2>2. p \in Peers
    BY <1>2, <2>1, ServerQueueStep DEF ServerInv
  <2>3. UNCHANGED <<inbox, dispatched>>
    BY <1>2 DEF OnServerQueue, CreateSocket, TakeOver, AddConnection, Start, conns
  <2>4. \/ UNCHANGED connectionQueue
        \/ connectionQueue' = Append(connectionQueue, Call("start", p, Nil))
    BY <1>2, <2>1 DEF OnServerQueue, CreateSocket, TakeOver, AddConnection, Start
  <2>5. /\ Call("start", p, Nil) \in AllCalls
        /\ \A q \in Peers : Call("start", p, Nil) \notin ReadCalls(q)
    BY <2>2, CallType DEF Calls, Call, ReadCalls
  <2>6. \A q \in Peers : ReadOf(q)' = ReadOf(q)
    BY <2>4, <2>5, ReadKept
  <2> QED BY <2>3, <2>6
<1>3. ASSUME NEW p \in Peers, Outside(p) \/ Moves(p)
      PROVE  Pipe!Next \/ UNCHANGED <<left, dispatched>>
  <2>1. \A q \in Peers \ {p} : LeftOf(q)' = LeftOf(q)
    BY <1>3, LeftElsewhere
  <2>2. \/ UNCHANGED <<left, dispatched>>
        \/ \E r \in Requests : Pipe!Send(p, r)
        \/ Pipe!Drop(p)
        \/ Pipe!Dispatch(p)
    BY <1>3, <2>1, LeftHere, PipeSteps
  <2> QED BY <2>2 DEF Pipe!Next
<1> QED BY <1>1, <1>2, <1>3 DEF Next, Moves

\* The server implements the promise: of each connection requests are carried out in the order
\* they were sent and at most once, and only the end of the connection loses any.
THEOREM ServerKeepsPromise == Spec => ServerPromise
BY PipeInit, PipeNext, InvAlways, PTL DEF Spec, ServerPromise, Pipe!Spec
===============================================================================
