----------------------------- MODULE CommandPath -----------------------------
(***************************************************************************)
(* A command from the key to its effect.  The iOS client waits for the     *)
(* answer of each request, at most two seconds; the Mac client starts a    *)
(* curl process for each key, and the web page an asynchronous request.    *)
(* Behind them stand the HTTP server and the remote helper, which are      *)
(* present here by what they promise: RequestPipe, which HTTPServer        *)
(* implements, and CommandPipe, which RemoteHelper implements.  A request  *)
(* is carried out by posting a notification, so that a step of the one     *)
(* pipe puts the command into the other, and the answer follows: it says   *)
(* that the command was accepted, not that it had its effect.              *)
(***************************************************************************)
EXTENDS Naturals, Sequences, FiniteSets

CONSTANTS
    Clients,       \* those who press keys
    Blocking,      \* the clients that wait for each answer (iOS)
    Fresh,         \* the clients that open a connection for each command (curl)
    Kinds, Delayed,
    MaxPeers,      \* bound: TCP connections
    MaxCommands,   \* bound: keys pressed
    MaxEnds        \* bound: ends of PineBoard

ASSUME ClientAssumption == Blocking \subseteq Clients /\ Fresh \subseteq Clients \ Blocking
ASSUME KindAssumption == Delayed \subseteq Kinds
ASSUME BoundAssumption == {MaxPeers, MaxCommands, MaxEnds} \subseteq Nat

VARIABLES
    commands,       \* in the order in which the keys were pressed: [by, kind, on]
    state,          \* of each: "asked", "sent", "answered", "failed"
    open,           \* connections that can carry another request
    waiting, dispatched,       \* the HTTP server, see RequestPipe
    accepted, done, last,      \* the remote helper, see CommandPipe
    ends,           \* how often PineBoard ended
    effects,        \* history: commands in the order in which they took effect
    settled         \* history: of each command, those answered before its key was pressed

clients == <<commands, state, open>>
server  == <<waiting, dispatched>>
helper  == <<accepted, done, last>>
history == <<effects, settled>>
vars    == <<clients, server, helper, ends, history>>

Ids == 1..MaxCommands
Peers == 1..MaxPeers     \* in the order in which they are opened
Server == INSTANCE RequestPipe WITH Requests <- Ids
Helper == INSTANCE CommandPipe

Init ==
    /\ commands = <<>> /\ state = <<>> /\ open = {}
    /\ Server!Init /\ Helper!Init
    /\ ends = 0
    /\ effects = <<>> /\ settled = <<>>

Pressed == DOMAIN commands
Pending(n) == state[n] \in {"asked", "sent"}
OnConnection(p) == {n \in Pressed : commands[n].on = p}
-----------------------------------------------------------------------------
(* The clients.                                                            *)

\* A new connection, or one of the client's own that is still open and idle.
IsNew(p) == OnConnection(p) = {} /\ (p = 1 \/ OnConnection(p - 1) # {})
Usable(c, p) ==
    \/ IsNew(p)
    \/ /\ p \in open /\ c \notin Fresh
       /\ \A n \in OnConnection(p) : commands[n].by = c /\ ~Pending(n)

\* Slip for a mutant: the main thread does not wait for the answer.
MayAlways(c) == c \in Clients
\* sendSynchronousRequest: holds the main thread until the answer, an error or the timeout.
MayPress(c) == c \in Blocking => \A n \in Pressed : commands[n].by = c => ~Pending(n)

Press(c, k, p) ==
    /\ Len(commands) < MaxCommands
    /\ MayPress(c) /\ Usable(c, p)
    /\ commands' = Append(commands, [by |-> c, kind |-> k, on |-> p])
    /\ state' = Append(state, "asked")
    /\ open' = open \cup {p}
    /\ settled' = Append(settled, {n \in Pressed : state[n] = "answered"})
    /\ UNCHANGED <<server, helper, ends, effects>>

\* The request reaches the server's side of the connection.
Reach(n) ==
    /\ state[n] = "asked" /\ commands[n].on \in open
    /\ state' = [state EXCEPT ![n] = "sent"]
    /\ Server!Send(commands[n].on, n)
    /\ UNCHANGED <<commands, open, helper, ends, history>>

Carried(n) == \E i \in DOMAIN dispatched : dispatched[i].request = n

\* Slip for a mutant: the answer is written when the request is there.
AnswerAtOnce(n) ==
    /\ state[n] = "sent" /\ commands[n].on \in open
    /\ state' = [state EXCEPT ![n] = "answered"]
    /\ UNCHANGED <<commands, open, server, helper, ends, history>>
Answer(n) ==
    /\ state[n] = "sent" /\ commands[n].on \in open /\ Carried(n)
    /\ state' = [state EXCEPT ![n] = "answered"]
    /\ UNCHANGED <<commands, open, server, helper, ends, history>>

\* Slip for a mutant: a client that got no answer asks again.
AskAgain(n) ==
    /\ state[n] = "sent"
    /\ Server!Send(commands[n].on, n)
    /\ UNCHANGED <<clients, helper, ends, history>>
\* Slip for a mutant: a state of its own that nobody looks for.
GiveUpUnheard(n) ==
    /\ Pending(n)
    /\ state' = [state EXCEPT ![n] = "unheard"]
    /\ open' = open \ {commands[n].on}
    /\ UNCHANGED <<commands, server, helper, ends, history>>
\* The timeout of the iOS client, or an error of the connection.  Nobody asks again; what was
\* sent may still be carried out.
GiveUp(n) ==
    /\ Pending(n)
    /\ state' = [state EXCEPT ![n] = "failed"]
    /\ open' = open \ {commands[n].on}
    /\ UNCHANGED <<commands, server, helper, ends, history>>
-----------------------------------------------------------------------------
(* The Apple TV.                                                           *)

\* processURL: posts the notification of the request that is carried out.
CarryOut(p) ==
    /\ Server!Dispatch(p)
    /\ Helper!Accept(commands[Head(waiting[p])].kind)
    /\ UNCHANGED <<clients, ends, history>>

\* Slip for a mutant: what a connection brought goes with it.
CloseAndForget(p) ==
    /\ p \in open
    /\ Server!Drop(p) /\ Helper!Lose
    /\ open' = open \ {p}
    /\ UNCHANGED <<commands, state, ends, history>>
\* The server or the network ends a connection.
CloseConnection(p) ==
    /\ p \in open
    /\ Server!Drop(p)
    /\ open' = open \ {p}
    /\ UNCHANGED <<commands, state, helper, ends, history>>

\* The helper numbers what it accepts in the order of the server.
CommandOf(id) == dispatched[id].request

TakeEffect(k) ==
    /\ \E id \in accepted[k] : /\ Helper!Effect(k, id)
                             /\ effects' = Append(effects, CommandOf(id))
    /\ UNCHANGED <<clients, server, ends, settled>>

\* The process that is both the server and the helper ends.
PineBoardEnds ==
    /\ ends < MaxEnds /\ ends' = ends + 1
    /\ Helper!Lose
    /\ waiting' = [p \in Peers |-> <<>>] /\ open' = {}
    /\ UNCHANGED <<commands, state, dispatched, history>>
-----------------------------------------------------------------------------
\* Every key that may be pressed was, and everything accepted had its effect.
Rest ==
    /\ Len(commands) = MaxCommands \/ \A p \in Peers, c \in Clients : ~Usable(c, p)
    /\ \A n \in Pressed : ~Pending(n)
    /\ \A p \in Peers : waiting[p] = <<>>
    /\ \A k \in Kinds : accepted[k] = {}

OfCommand(n) == Reach(n) \/ Answer(n) \/ GiveUp(n)

Next ==
    \/ \E c \in Clients, k \in Kinds, p \in Peers : Press(c, k, p)
    \/ \E n \in Pressed : OfCommand(n)
    \/ \E p \in Peers : CarryOut(p) \/ CloseConnection(p)
    \/ \E k \in Kinds : TakeEffect(k)
    \/ PineBoardEnds
    \/ (Rest /\ UNCHANGED vars)

Spec == Init /\ [][Next]_vars

\* Of the helper only: nothing is assumed of users and the network.
FairSpec == Spec /\ \A k \in Kinds : WF_vars(TakeEffect(k))
-----------------------------------------------------------------------------
(* Properties.                                                             *)

TypeOK ==
    /\ commands \in Seq([by : Clients, kind : Kinds, on : Peers])
    /\ Len(commands) <= MaxCommands
    /\ state \in [Pressed -> {"asked", "sent", "answered", "failed"}]
    /\ open \subseteq Peers
    /\ waiting \in [Peers -> Seq(Ids)]
    /\ dispatched \in Seq([of : Peers, request : Ids])
    /\ accepted \in [Kinds -> SUBSET Ids] /\ done \in [Kinds -> Seq(Ids)]
    /\ last \in 0..MaxCommands
    /\ ends \in 0..MaxEnds
    /\ effects \in Seq(Pressed)
    /\ settled \in [Pressed -> SUBSET Pressed]

\* No key press takes effect twice, on whatever way, and none that was not pressed: nobody asks
\* again after an error (sendNavCommand:, sendCommand:, remote.js).
NothingTwice == \A i, j \in DOMAIN effects : effects[i] = effects[j] => i = j

\* A command, pressed after another one was answered, does not take effect before it, whoever
\* sent the two, unless the answered one is a text and the other one is none: enterText is
\* answered before anything is typed (MyHTTPConnection.m, RemoteTestHelper.mm).
MayOvertake(late, first) ==
    commands[first].kind \in Delayed /\ commands[late].kind # commands[first].kind
AnsweredComesFirst ==
    \A i, j \in DOMAIN effects :
        i < j /\ effects[j] \in settled[effects[i]] => MayOvertake(effects[i], effects[j])

\* The commands of a client that waits for its answers take effect in the order of its
\* keys, unless one got no answer in time, or is a text (ViewController.m).
OwnOrder ==
    \A i, j \in DOMAIN effects :
        /\ i < j /\ effects[j] < effects[i]
        /\ commands[effects[i]].by = commands[effects[j]].by
        /\ commands[effects[i]].by \in Blocking
        => state[effects[j]] = "failed" \/ MayOvertake(effects[i], effects[j])

\* What was answered takes effect, unless PineBoard ends.
AnsweredTakesEffect ==
    \A n \in Ids : (n \in Pressed /\ state[n] = "answered" /\ ends = 0)
                   ~> (n \in {effects[i] : i \in DOMAIN effects} \/ ends > 0)
=============================================================================
