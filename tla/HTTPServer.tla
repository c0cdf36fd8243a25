----------------------------- MODULE HTTPServer -----------------------------
(***************************************************************************)
(* How a connection lives (Core/HTTPServer.m, HTTPConnection.m,            *)
(* GCDAsyncSocket.m).  Three kinds of serial queues share the work: the    *)
(* server queue accepts, every socket has a queue of its own, and one      *)
(* connection queue, shared by all connections, reads the requests and     *)
(* carries them out.  Between the moment a socket is watched and the       *)
(* moment its connection listens to it and is in the server's list, the    *)
(* peer may already be gone.                                               *)
(* What a request says is left to its receiver: HTTPConnection.            *)
(***************************************************************************)
EXTENDS Naturals, Sequences

CONSTANTS
    Peers,          \* TCP connections
    Requests,       \* what a peer may ask for
    Keeps,          \* the requests after which the connection stays (shouldDie is NO)
    Nil,
    MaxSent         \* bound: requests a peer sends on one connection

ASSUME RequestAssumption == Keeps \subseteq Requests /\ Nil \notin Requests
ASSUME BoundAssumption == MaxSent \in Nat

VARIABLES
    peer,             \* the other end: "away", "open", "gone" (it closed, or was closed)
    sent,             \* how many requests it sent
    inbox,            \* [Peers -> Seq(Requests)]: bytes the kernel holds for the server
    serverQueue,      \* accepted sockets whose block waits on, or runs on, the server queue
    accepting,        \* where the running block is: "idle", "created", "taken", "listed"
    socketQueue,      \* [Peers -> Seq(Blocks)]
    phase,            \* the socket: "none", "started" (kSocketStarted), "closed"
    source,           \* whether its read source is set up
    delegate,         \* who hears of it: "server" or "connection"
    currentRead,      \* whether it has a read to serve
    currentWrite,     \* whether it has a write to serve
    connectionQueue,  \* delegate calls and start blocks, [do, of, request]
    asyncSocket,      \* the connection's pointer to its socket is not nil
    request,          \* the request a connection answers, or Nil
    connections,      \* the server's list
    dispatched,       \* history: requests carried out, in order, as [of, request]
    early,            \* history: the end of the socket passed by the list
    deaths,           \* history: how often each connection died
    cut               \* history: the read timer ended it with a request unread

outside  == <<peer, sent>>
sockets  == <<socketQueue, phase, source, delegate, currentRead, currentWrite>>
accepts  == <<serverQueue, accepting>>
conns    == <<asyncSocket, request, connections, dispatched>>
history  == <<early, deaths, cut>>
vars     == <<outside, inbox, accepts, sockets, connectionQueue, conns, history>>

Blocks == {"setup", "setDelegate", "read", "write"}
Calls  == {"start", "didRead", "didWrite", "didDisconnect"}
Call(what, p, r) == [do |-> what, of |-> p, request |-> r]
AllCalls == [do : {"didRead"}, of : Peers, request : Requests]
                \cup [do : Calls \ {"didRead"}, of : Peers, request : {Nil}]

Init ==
    /\ peer = [p \in Peers |-> "away"] /\ sent = [p \in Peers |-> 0]
    /\ inbox = [p \in Peers |-> <<>>]
    /\ serverQueue = <<>> /\ accepting = "idle"
    /\ socketQueue = [p \in Peers |-> <<>>]
    /\ phase = [p \in Peers |-> "none"]
    /\ source = [p \in Peers |-> FALSE]
    /\ delegate = [p \in Peers |-> "server"]
    /\ currentRead = [p \in Peers |-> FALSE] /\ currentWrite = [p \in Peers |-> FALSE]
    /\ connectionQueue = <<>>
    /\ asyncSocket = [p \in Peers |-> FALSE]
    /\ request = [p \in Peers |-> Nil]
    /\ connections = {}
    /\ dispatched = <<>>
    /\ early = {} /\ deaths = [p \in Peers |-> 0] /\ cut = {}
-----------------------------------------------------------------------------
(* The peers.                                                              *)

\* The kernel completes the handshake; doAccept hands the socket to the server queue.
DoAccept(p) ==
    /\ peer[p] = "away"
    /\ peer' = [peer EXCEPT ![p] = "open"]
    /\ serverQueue' = Append(serverQueue, p)
    /\ UNCHANGED <<sent, inbox, accepting, sockets, connectionQueue, conns, history>>

PeerSends(p, r) ==
    /\ peer[p] = "open" /\ sent[p] < MaxSent
    /\ sent' = [sent EXCEPT ![p] = @ + 1]
    /\ inbox' = [inbox EXCEPT ![p] = Append(@, r)]
    /\ UNCHANGED <<peer, accepts, sockets, connectionQueue, conns, history>>

PeerCloses(p) ==
    /\ peer[p] = "open"
    /\ peer' = [peer EXCEPT ![p] = "gone"]
    /\ UNCHANGED <<sent, inbox, accepts, sockets, connectionQueue, conns, history>>
-----------------------------------------------------------------------------
(* The server queue: one block per socket, in four steps.                  *)

CreateSocket ==
    /\ accepting = "idle" /\ serverQueue # <<>>
    /\ LET p == Head(serverQueue)
       IN  /\ phase' = [phase EXCEPT ![p] = "started"]
           /\ socketQueue' = [socketQueue EXCEPT ![p] = Append(@, "setup")]
    /\ accepting' = "created"
    /\ UNCHANGED <<outside, inbox, serverQueue, source, delegate, currentRead,
                   currentWrite, connectionQueue, conns, history>>

\* initWithAsyncSocket:configuration: asks the socket to speak to the connection from now on.
TakeOver ==
    /\ accepting = "created"
    /\ LET p == Head(serverQueue)
       IN  /\ asyncSocket' = [asyncSocket EXCEPT ![p] = TRUE]
           /\ socketQueue' = [socketQueue EXCEPT ![p] = Append(@, "setDelegate")]
    /\ accepting' = "taken"
    /\ UNCHANGED <<outside, inbox, serverQueue, phase, source, delegate, currentRead,
                   currentWrite, connectionQueue, request, connections, dispatched, history>>

AddConnection ==
    /\ accepting = "taken"
    /\ connections' = connections \cup {Head(serverQueue)}
    /\ accepting' = "listed"
    /\ UNCHANGED <<outside, inbox, serverQueue, sockets, connectionQueue, asyncSocket,
                   request, dispatched, history>>

Start ==
    /\ accepting = "listed"
    /\ connectionQueue' = Append(connectionQueue, Call("start", Head(serverQueue), Nil))
    /\ serverQueue' = Tail(serverQueue) /\ accepting' = "idle"
    /\ UNCHANGED <<outside, inbox, sockets, conns, history>>
-----------------------------------------------------------------------------
(* The queue of a socket: its blocks, and the events of its sources.       *)

\* closeWithError: HTTPServer has no socketDidDisconnect:withError:, so only a connection
\* hears of it.
CloseWithError(p) ==
    /\ phase' = [phase EXCEPT ![p] = "closed"]
    /\ source' = [source EXCEPT ![p] = FALSE]
    /\ currentRead' = [currentRead EXCEPT ![p] = FALSE]
    /\ currentWrite' = [currentWrite EXCEPT ![p] = FALSE]
    /\ peer' = [peer EXCEPT ![p] = "gone"]
    /\ IF delegate[p] = "connection"
       THEN /\ connectionQueue' = Append(connectionQueue, Call("didDisconnect", p, Nil))
            /\ UNCHANGED early
       ELSE early' = early \cup {p} /\ UNCHANGED connectionQueue

Runs(p, block) ==
    /\ socketQueue[p] # <<>> /\ Head(socketQueue[p]) = block
    /\ socketQueue' = [socketQueue EXCEPT ![p] = Tail(@)]

SetupSources(p) ==
    /\ Runs(p, "setup")
    /\ source' = [source EXCEPT ![p] = TRUE]
    /\ UNCHANGED <<outside, inbox, accepts, phase, delegate, currentRead, currentWrite,
                   connectionQueue, conns, history>>

\* Slip for a mutant: the delegate is weak and nobody holds the connection yet.
SetDelegateWeak(p) ==
    /\ Runs(p, "setDelegate")
    /\ delegate' = [delegate EXCEPT ![p] = IF p \in connections THEN "connection" ELSE "nobody"]
    /\ UNCHANGED <<outside, inbox, accepts, phase, source, currentRead, currentWrite,
                   connectionQueue, conns, history>>
SetDelegate(p) ==
    /\ Runs(p, "setDelegate")
    /\ delegate' = [delegate EXCEPT ![p] = "connection"]
    /\ UNCHANGED <<outside, inbox, accepts, phase, source, currentRead, currentWrite,
                   connectionQueue, conns, history>>

\* A read or write of a socket that is closed is dropped.
EnqueueRead(p) ==
    /\ Runs(p, "read")
    /\ currentRead' = [currentRead EXCEPT ![p] = (phase[p] = "started")]
    /\ UNCHANGED <<outside, inbox, accepts, phase, source, delegate, currentWrite,
                   connectionQueue, conns, history>>

EnqueueWrite(p) ==
    /\ Runs(p, "write")
    /\ currentWrite' = [currentWrite EXCEPT ![p] = (phase[p] = "started")]
    /\ UNCHANGED <<outside, inbox, accepts, phase, source, delegate, currentRead,
                   connectionQueue, conns, history>>

\* Slip for a mutant: what was read stays in the buffer.
DoReadDataAgain(p) ==
    /\ source[p] /\ currentRead[p] /\ inbox[p] # <<>>
    /\ currentRead' = [currentRead EXCEPT ![p] = FALSE]
    /\ connectionQueue' = Append(connectionQueue, Call("didRead", p, Head(inbox[p])))
    /\ UNCHANGED <<outside, inbox, accepts, socketQueue, phase, source, delegate, currentWrite,
                   conns, history>>
DoReadData(p) ==
    /\ source[p] /\ currentRead[p] /\ inbox[p] # <<>>
    /\ currentRead' = [currentRead EXCEPT ![p] = FALSE]
    /\ inbox' = [inbox EXCEPT ![p] = Tail(@)]
    /\ connectionQueue' = Append(connectionQueue, Call("didRead", p, Head(inbox[p])))
    /\ UNCHANGED <<outside, accepts, socketQueue, phase, source, delegate, currentWrite,
                   conns, history>>

\* Slip for a mutant: the end of the stream comes before what was sent ahead of it.
DoReadEOFAtOnce(p) ==
    /\ source[p] /\ peer[p] = "gone"
    /\ inbox' = [inbox EXCEPT ![p] = <<>>]
    /\ CloseWithError(p)
    /\ UNCHANGED <<sent, accepts, socketQueue, delegate, conns, deaths, cut>>
\* Unread bytes hide the end of the stream: the source is suspended until a read wants them.
DoReadEOF(p) ==
    /\ source[p] /\ peer[p] = "gone" /\ inbox[p] = <<>>
    /\ CloseWithError(p)
    /\ UNCHANGED <<sent, inbox, accepts, socketQueue, delegate, conns, deaths, cut>>

\* The timer of thirty seconds, whatever arrived in the meantime.
DoReadTimeout(p) ==
    /\ currentRead[p]
    /\ CloseWithError(p)
    /\ inbox' = [inbox EXCEPT ![p] = <<>>]
    /\ cut' = cut \cup (IF inbox[p] # <<>> THEN {p} ELSE {})
    /\ UNCHANGED <<sent, accepts, socketQueue, delegate, conns, deaths>>

CompleteCurrentWrite(p) ==
    /\ currentWrite[p]
    /\ currentWrite' = [currentWrite EXCEPT ![p] = FALSE]
    /\ connectionQueue' = Append(connectionQueue, Call("didWrite", p, Nil))
    /\ UNCHANGED <<outside, inbox, accepts, socketQueue, phase, source, delegate,
                   currentRead, conns, history>>

\* write() fails since nobody is there, or the peer does not take the head of the answer in the
\* thirty seconds of the timer (TIMEOUT_WRITE_HEAD, TIMEOUT_WRITE_ERROR).
WriteFails(p) ==
    /\ currentWrite[p]
    /\ CloseWithError(p)
    /\ inbox' = [inbox EXCEPT ![p] = <<>>]
    /\ UNCHANGED <<sent, accepts, socketQueue, delegate, conns, deaths, cut>>
-----------------------------------------------------------------------------
(* The connection queue.                                                   *)

Serves(what, p) ==
    /\ connectionQueue # <<>>
    /\ Head(connectionQueue).do = what /\ Head(connectionQueue).of = p

Asks(p, block) ==
    socketQueue' = IF asyncSocket[p]
                   THEN [socketQueue EXCEPT ![p] = Append(@, block)] ELSE socketQueue

\* startReadingRequest; a message to a nil socket does nothing.  `started' is not set before:
\* Start runs once for each connection, and nothing else asks for it.
StartConnection(p) ==
    /\ Serves("start", p)
    /\ connectionQueue' = Tail(connectionQueue)
    /\ Asks(p, "read")
    /\ UNCHANGED <<outside, inbox, accepts, phase, source, delegate, currentRead,
                   currentWrite, conns, history>>

\* Slip for a mutant: the next request is asked for when this one has come, and again when
\* its answer is written.
DidReadDataAsksNext(p) ==
    /\ Serves("didRead", p)
    /\ connectionQueue' = Tail(connectionQueue)
    /\ LET r == Head(connectionQueue).request
       IN  /\ request' = [request EXCEPT ![p] = r]
           /\ dispatched' = Append(dispatched, [of |-> p, request |-> r])
    /\ socketQueue' = IF asyncSocket[p]
                      THEN [socketQueue EXCEPT ![p] = @ \o <<"write", "read">>] ELSE socketQueue
    /\ UNCHANGED <<outside, inbox, accepts, phase, source, delegate, currentRead,
                   currentWrite, asyncSocket, connections, history>>
\* socket:didReadData:withTag:, to the response.
DidReadData(p) ==
    /\ Serves("didRead", p)
    /\ connectionQueue' = Tail(connectionQueue)
    /\ LET r == Head(connectionQueue).request
       IN  /\ request' = [request EXCEPT ![p] = r]
           /\ dispatched' = Append(dispatched, [of |-> p, request |-> r])
    /\ Asks(p, "write")
    /\ UNCHANGED <<outside, inbox, accepts, phase, source, delegate, currentRead,
                   currentWrite, asyncSocket, connections, history>>

\* socket:didWriteDataWithTag: of the last piece.
KeepAlive(p) ==
    /\ Serves("didWrite", p) /\ request[p] \in Keeps
    /\ connectionQueue' = Tail(connectionQueue)
    /\ request' = [request EXCEPT ![p] = Nil]
    /\ Asks(p, "read")
    /\ UNCHANGED <<outside, inbox, accepts, phase, source, delegate, currentRead,
                   currentWrite, asyncSocket, connections, dispatched, history>>

\* Slip for a mutant: kSocketStarted is not looked at.
DisconnectAgain(p) ==
    /\ Serves("didWrite", p) /\ request[p] \notin Keeps
    /\ socketQueue[p] = <<>>
    /\ request' = [request EXCEPT ![p] = Nil]
    /\ phase' = [phase EXCEPT ![p] = "closed"]
    /\ source' = [source EXCEPT ![p] = FALSE]
    /\ peer' = [peer EXCEPT ![p] = "gone"]
    /\ inbox' = [inbox EXCEPT ![p] = <<>>]
    /\ connectionQueue' = Append(Tail(connectionQueue), Call("didDisconnect", p, Nil))
    /\ UNCHANGED <<sent, accepts, socketQueue, delegate, currentRead, currentWrite,
                   asyncSocket, connections, dispatched, history>>
\* disconnect waits for the blocks of the socket queue (dispatch_sync).
Disconnect(p) ==
    /\ Serves("didWrite", p) /\ request[p] \notin Keeps
    /\ socketQueue[p] = <<>>
    /\ request' = [request EXCEPT ![p] = Nil]
    /\ phase' = [phase EXCEPT ![p] = "closed"]
    /\ source' = [source EXCEPT ![p] = FALSE]
    /\ currentRead' = [currentRead EXCEPT ![p] = FALSE]
    /\ currentWrite' = [currentWrite EXCEPT ![p] = FALSE]
    /\ peer' = [peer EXCEPT ![p] = "gone"]
    /\ inbox' = [inbox EXCEPT ![p] = <<>>]
    /\ connectionQueue' = Tail(connectionQueue) \o
           (IF phase[p] = "started" THEN <<Call("didDisconnect", p, Nil)>> ELSE <<>>)
    /\ UNCHANGED <<sent, accepts, socketQueue, delegate, asyncSocket, connections,
                   dispatched, history>>

\* Slip for a mutant: the list is left to the server's stop.
DieUnlisted(p) ==
    /\ deaths' = [deaths EXCEPT ![p] = @ + 1]
    /\ early' = early \cup ({p} \ connections)
    /\ UNCHANGED connections
\* die, and connectionDidDie: of the server, which the notification runs at once.
Die(p) ==
    /\ deaths' = [deaths EXCEPT ![p] = @ + 1]
    /\ early' = early \cup ({p} \ connections)
    /\ connections' = connections \ {p}

SocketDidDisconnect(p) ==
    /\ Serves("didDisconnect", p)
    /\ connectionQueue' = Tail(connectionQueue)
    /\ asyncSocket' = [asyncSocket EXCEPT ![p] = FALSE]
    /\ Die(p)
    /\ UNCHANGED <<outside, inbox, accepts, sockets, request, dispatched, cut>>
-----------------------------------------------------------------------------
Outside(p) == DoAccept(p) \/ PeerCloses(p) \/ \E r \in Requests : PeerSends(p, r)
OnServerQueue == CreateSocket \/ TakeOver \/ AddConnection \/ Start
BlockOf(p) == SetupSources(p) \/ SetDelegate(p) \/ EnqueueRead(p) \/ EnqueueWrite(p)
ReadEvent(p) == DoReadData(p) \/ DoReadEOF(p)
WriteEvent(p) == CompleteCurrentWrite(p) \/ WriteFails(p)
OnConnectionQueue(p) ==
    \/ StartConnection(p) \/ DidReadData(p) \/ KeepAlive(p) \/ Disconnect(p)
    \/ SocketDidDisconnect(p)

\* Nobody wants anything any more.
Rest ==
    /\ \A p \in Peers : peer[p] = "gone" /\ inbox[p] = <<>>
    /\ serverQueue = <<>> /\ connectionQueue = <<>>
    /\ \A p \in Peers : phase[p] = "closed" /\ socketQueue[p] = <<>>

Next ==
    \/ OnServerQueue
    \/ \E p \in Peers :
          \/ Outside(p) \/ BlockOf(p) \/ ReadEvent(p) \/ DoReadTimeout(p)
          \/ WriteEvent(p) \/ OnConnectionQueue(p)
    \/ (Rest /\ UNCHANGED vars)

Spec == Init /\ [][Next]_vars

\* Queues run what they hold, and the kernel reports what is there.
FairSpec ==
    /\ Spec
    /\ WF_vars(OnServerQueue)
    /\ \A p \in Peers :
          /\ WF_vars(BlockOf(p)) /\ WF_vars(ReadEvent(p)) /\ WF_vars(WriteEvent(p))
          /\ WF_vars(OnConnectionQueue(p))
-----------------------------------------------------------------------------
(* Properties.                                                             *)

TypeOK ==
    /\ peer \in [Peers -> {"away", "open", "gone"}]
    /\ sent \in [Peers -> 0..MaxSent]
    /\ inbox \in [Peers -> Seq(Requests)]
    /\ serverQueue \in Seq(Peers) /\ accepting \in {"idle", "created", "taken", "listed"}
    /\ socketQueue \in [Peers -> Seq(Blocks)]
    /\ phase \in [Peers -> {"none", "started", "closed"}]
    /\ delegate \in [Peers -> {"server", "connection"}]
    /\ source \in [Peers -> BOOLEAN] /\ asyncSocket \in [Peers -> BOOLEAN]
    /\ currentRead \in [Peers -> BOOLEAN] /\ currentWrite \in [Peers -> BOOLEAN]
    /\ connectionQueue \in Seq(AllCalls)
    /\ request \in [Peers -> Requests \cup {Nil}]
    /\ connections \subseteq Peers /\ early \subseteq Peers /\ cut \subseteq Peers
    /\ dispatched \in Seq([of : Peers, request : Requests])
    /\ deaths \in [Peers -> Nat]

Accepted(p) == phase[p] # "none" /\ \A i \in DOMAIN serverQueue : serverQueue[i] # p

\* The list of the server (numberOfHTTPConnections, didAcceptNewSocket:, connectionDidDie:)
\* holds every connection that is open, and of those that ended only the ones
\* whose end came while the server was still the delegate of the socket or before
\* they were listed.  Those stay in it for good.
ListIsAccurate ==
    \A p \in Peers : Accepted(p) =>
        \/ \E i \in DOMAIN connectionQueue : connectionQueue[i] = Call("didDisconnect", p, Nil)
        \/ p \in connections <=> (phase[p] = "started" \/ p \in early)

\* The places of a queue that hold one of the elements.
PlacesOf(queue, elements) == {i \in DOMAIN queue : queue[i] \in elements}

\* What a connection waits for: a read or a write, and the calls that follow from one.
Errands == {"read", "write"}
CallsOf(p) == {call \in AllCalls : call.of = p /\ call.do # "didDisconnect"}
Waits(p) ==
    ({"block"} \X PlacesOf(socketQueue[p], Errands))
    \cup ({"call"} \X PlacesOf(connectionQueue, CallsOf(p)))
    \cup (IF currentRead[p] THEN {<<"currentRead", 0>>} ELSE {})
    \cup (IF currentWrite[p] THEN {<<"currentWrite", 0>>} ELSE {})

\* A connection does one thing at a time, so that it never reads the next request before
\* the answer is written, and as long as its socket lives it is never left with nothing to do,
\* which would be a hang (HTTPConnection.m, startReadingRequest and didWriteDataWithTag:).
OneErrand ==
    \A p \in Peers : /\ \A one, other \in Waits(p) : one = other
                     /\ Accepted(p) /\ phase[p] = "started" => Waits(p) # {}

\* A connection dies once, and only when its socket has closed: the comment above die warns
\* of a second time, which takes a WebSocket.
DiesOnce ==
    \A p \in Peers : deaths[p] <= 1 /\ (deaths[p] = 1 => phase[p] = "closed")

Served(p) == \E i \in DOMAIN dispatched : dispatched[i].of = p

\* The first request of a peer is carried out, even if the peer closes at once behind it: only
\* the read timer can come first.
SentIsServed ==
    \A p \in Peers :
        (inbox[p] # <<>> /\ ~Served(p) /\ phase[p] # "closed") ~> (Served(p) \/ p \in cut)

\* Read from the socket, and not carried out yet: there is one at most (OneErrand).
ReadsOf(p) == PlacesOf(connectionQueue, [do : {"didRead"}, of : {p}, request : Requests])
ReadOf(p) ==
    IF ReadsOf(p) = {} THEN <<>>
    ELSE <<connectionQueue[CHOOSE i \in ReadsOf(p) : TRUE].request>>

\* Sent and not carried out: read, or still with the kernel.
Pipe == INSTANCE RequestPipe WITH waiting <- [p \in Peers |-> ReadOf(p) \o inbox[p]]

\* Every step of the queues and sockets is a step of the promise or changes nothing in it: no
\* request is carried out twice, before an older one of its connection, or after one
\* that was lost (HTTPServer.m, GCDAsyncSocket.m).
ServerPromise == Pipe!Spec
=============================================================================
