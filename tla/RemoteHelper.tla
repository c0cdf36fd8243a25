---------------------------- MODULE RemoteHelper ----------------------------
(***************************************************************************)
(* RemoteTestHelper inside PineBoard, the system shell of the Apple TV:    *)
(* commands accepted by the HTTP server are posted as distributed          *)
(* notifications, and handled one at a time on PineBoard's main thread,    *)
(* which turns them into HID events for the process that has the focus.    *)
(*                                                                         *)
(* Two of the handlers do only half of their work at once.  A held key is  *)
(* pressed now and released by delayedRelease: after 1.0 s; a text is      *)
(* typed by a block that dispatch_after runs 0.5 s after the old text was  *)
(* deleted.  Whatever the main thread does in between (other commands, a   *)
(* change of the focused process, the end of PineBoard) interleaves.       *)
(*                                                                         *)
(* Time is a countdown in ticks of 0.5 s.  A timer that is due may still   *)
(* run late.  Timers with the same delay run in the order they were set.   *)
(***************************************************************************)
EXTENDS HIDUsage, Integers, Sequences, FiniteSets

CONSTANTS
    Apps,             \* processes that can have the focus
    NavEvents,        \* values of the remoteCommand URL
    Texts,            \* values of enterText and appendText, as decoded: sequences of characters
    DeleteCount,      \* key presses that clear the old text (deleteInt, 50 in the code)
    MaxPosts,         \* bound: commands accepted in a behaviour
    MaxFocusChanges,  \* bound: changes of the focused process by the user
    MaxRestarts       \* bound: times PineBoard ends

ASSUME AppsAssumption == Apps # {}
ASSUME NavAssumption == NavEvents \subseteq STRING
ASSUME TextAssumption == \A t \in Texts : t \in Seq(STRING)
ASSUME BoundAssumption ==
    /\ DeleteCount \in Nat \ {0}
    /\ {MaxPosts, MaxFocusChanges, MaxRestarts} \subseteq Nat

VARIABLES
    phase,      \* PineBoard: "down", "registered" (observers added), "serving" (HTTP server up)
    posted,     \* notifications not yet delivered to the main thread, oldest first
    releases,   \* pending performSelector:delayedRelease: calls
    typing,     \* pending dispatch_after blocks of IOHIDTest:
    focus,      \* the process BKSHIDEventSendToFocusedProcess reaches
    isDown,     \* the keys each process believes to be pressed
    field,      \* the text field of each process
    system,     \* requests made to PBSSystemService and not served yet
    net,        \* history: presses minus releases sent by this PineBoard, per key
    stranded,   \* history: keys a process was left with when the focus moved or PineBoard ended
    done,       \* history: the commands carried out, in order, per kind
    posts, moves, restarts   \* counters for the bounds

pineBoard == <<phase, posted, releases, typing>>
outside   == <<focus, isDown, field, system>>
history   == <<net, stranded, done, posts, moves, restarts>>
vars      == <<pineBoard, outside, history>>

Kinds == {"nav", "text", "helper"}
HelperCommands == {"reboot", "activateScreenSaver", "launchKioskApp", "respring"}
Ids == 1..MaxPosts
HoldTicks == 2   \* afterDelay:1.0
TypeTicks == 1   \* 0.5 * NSEC_PER_SEC

Notifications ==
    [kind : {"nav"}, id : Ids, event : NavEvents]
        \cup [kind : {"text"}, id : Ids, text : Texts, clear : BOOLEAN]
        \cup [kind : {"helper"}, id : Ids, command : HelperCommands]

ReleaseCalls == [event : NavEvents, left : 0..HoldTicks]

TextBlocks == [id : Ids, text : Texts, left : 0..TypeTicks,
               clear : BOOLEAN, into : Apps, fresh : BOOLEAN]

\* The types; timers that are pending have at most their full delay to go.
TypeOK ==
    /\ phase \in {"down", "registered", "serving"}
    /\ posted \in Seq(Notifications)
    /\ releases \in Seq(ReleaseCalls)
    /\ typing \in Seq(TextBlocks)
    /\ focus \in Apps
    /\ isDown \in [Apps -> SUBSET Keys]
    /\ field \in [Apps -> Seq(STRING)]
    /\ system \subseteq HelperCommands
    /\ net \in [Keys -> Int]
    /\ stranded \subseteq Apps \X Keys
    /\ done \in [Kinds -> Seq(Ids)]
    /\ posts \in 0..MaxPosts
    /\ moves \in 0..MaxFocusChanges
    /\ restarts \in 0..MaxRestarts

Init ==
    /\ phase = "down"
    /\ posted = <<>> /\ releases = <<>> /\ typing = <<>>
    /\ focus \in Apps
    /\ isDown = [a \in Apps |-> {}]
    /\ field = [a \in Apps |-> <<>>]
    /\ system = {}
    /\ net = [k \in Keys |-> 0]
    /\ stranded = {}
    /\ done = [k \in Kinds |-> <<>>]
    /\ posts = 0 /\ moves = 0 /\ restarts = 0
-----------------------------------------------------------------------------
(* PineBoard starts: the observers are added in the delegate's init, the   *)
(* HTTP server is started when the application did finish launching.       *)

RegisterObservers ==
    /\ phase = "down"
    /\ phase' = "registered"
    /\ UNCHANGED <<posted, releases, typing, outside, history>>

StartItUp ==
    /\ phase = "registered"
    /\ phase' = "serving"
    /\ UNCHANGED <<posted, releases, typing, outside, history>>
-----------------------------------------------------------------------------
(* The HTTP side: the connection queue posts a notification and answers at *)
(* once.  What becomes of the command is not known to the client.          *)

Post(note) ==
    /\ phase = "serving"
    /\ posts < MaxPosts
    /\ posted' = Append(posted, note)
    /\ posts' = posts + 1
    /\ UNCHANGED <<phase, releases, typing, outside, net, stranded, done, moves, restarts>>

HandleRemoteEvent(event) == Post([kind |-> "nav", id |-> posts + 1, event |-> event])

EnterText(text) == Post([kind |-> "text", id |-> posts + 1, text |-> text, clear |-> TRUE])

AppendText(text) == Post([kind |-> "text", id |-> posts + 1, text |-> text, clear |-> FALSE])

SendHelperCommand(command) ==
    Post([kind |-> "helper", id |-> posts + 1, command |-> command])
-----------------------------------------------------------------------------
(* The main thread: one notification at a time, oldest first.              *)

Delivers(kind) ==
    /\ phase # "down"
    /\ posted # <<>>
    /\ Head(posted).kind = kind
    /\ posted' = Tail(posted)

Completed(kind, id) == [done EXCEPT ![kind] = Append(@, id)]

\* The focused process sees key go down, or come up.
SeesPress(key) ==
    /\ isDown' = [isDown EXCEPT ![focus] = @ \cup {key}]
    /\ stranded' = stranded \ {<<focus, key>>}

SeesRelease(key) ==
    /\ isDown' = [isDown EXCEPT ![focus] = @ \ {key}]
    /\ stranded' = stranded \ {<<focus, key>>}

\* Slip for a mutant: delayedRelease: is not added to the delegate, so that
\* respondsToSelector: answers no.
NoReleaseScheduled(event) == releases

\* Slip for a mutant: the delay counted in ticks of another length.
ReleaseScheduledLate(event) == Append(releases, [event |-> event, left |-> 2 * HoldTicks])

ReleaseScheduled(event) == Append(releases, [event |-> event, left |-> HoldTicks])

HandleNavigationNotification ==
    /\ Delivers("nav")
    /\ LET event == Head(posted).event
           key == PressKey(event)
       IN  /\ IF event \in HoldEvents
              THEN /\ SeesPress(key)
                   /\ net' = [net EXCEPT ![key] = @ + PressCount(key)]
                   /\ releases' = ReleaseScheduled(event)
              ELSE /\ SeesRelease(key)     \* down and up in a row
                   /\ UNCHANGED <<net, releases>>
           /\ done' = Completed("nav", Head(posted).id)
    /\ UNCHANGED <<phase, typing, focus, field, system, posts, moves, restarts>>

DelayedRelease ==
    /\ releases # <<>>
    /\ Head(releases).left = 0
    /\ LET key == ReleaseKey(Head(releases).event)
       IN  /\ SeesRelease(key)
           /\ net' = [net EXCEPT ![key] = @ - ReleaseCount(key)]
    /\ releases' = Tail(releases)
    /\ UNCHANGED <<phase, posted, typing, focus, field, system, done, posts, moves, restarts>>

\* Slip for a mutant: one deletion too few.
AfterFewerDeletes(text) ==
    IF Len(text) < DeleteCount THEN <<>> ELSE SubSeq(text, 1, Len(text) - DeleteCount + 1)

AfterDeletes(text) ==
    IF Len(text) <= DeleteCount THEN <<>> ELSE SubSeq(text, 1, Len(text) - DeleteCount)

\* IOHIDTest: deletes at once when asked to, and always types half a second later.
IOHIDTest ==
    /\ Delivers("text")
    /\ LET note == Head(posted)
           fresh == note.clear /\ typing = <<>> /\ Len(field[focus]) <= DeleteCount
       IN  /\ field' = IF note.clear
                       THEN [field EXCEPT ![focus] = AfterDeletes(@)]
                       ELSE field
           /\ typing' = Append(typing, [id |-> note.id, text |-> note.text,
                                        left |-> TypeTicks, clear |-> note.clear,
                                        into |-> focus, fresh |-> fresh])
    /\ UNCHANGED <<phase, releases, focus, isDown, system, history>>

\* Slip for a mutant: the block types over what an earlier one is still to type.
TypeNewest ==
    /\ typing # <<>>
    /\ LET last == typing[Len(typing)]
       IN  /\ last.left = 0
           /\ field' = [field EXCEPT ![focus] = @ \o last.text]
           /\ done' = Completed("text", last.id)
    /\ typing' = SubSeq(typing, 1, Len(typing) - 1)
    /\ UNCHANGED <<phase, posted, releases, focus, isDown, system,
                   net, stranded, posts, moves, restarts>>

TypeText ==
    /\ typing # <<>>
    /\ Head(typing).left = 0
    /\ field' = [field EXCEPT ![focus] = @ \o Head(typing).text]
    /\ done' = Completed("text", Head(typing).id)
    /\ typing' = Tail(typing)
    /\ UNCHANGED <<phase, posted, releases, focus, isDown, system,
                   net, stranded, posts, moves, restarts>>

\* "respring" only starts uicache; the others are asked of PBSSystemService.
HandleHelperNotification ==
    /\ Delivers("helper")
    /\ LET command == Head(posted).command
       IN  system' = IF command = "respring" THEN system ELSE system \cup {command}
    /\ done' = Completed("helper", Head(posted).id)
    /\ UNCHANGED <<phase, releases, typing, focus, isDown, field,
                   net, stranded, posts, moves, restarts>>

\* Slip for a mutant: the text block waits for a time that never passes.
TickReleasesOnly ==
    /\ \E i \in DOMAIN releases : releases[i].left > 0
    /\ releases' = [i \in DOMAIN releases |->
                        [releases[i] EXCEPT !.left = IF @ > 0 THEN @ - 1 ELSE 0]]
    /\ UNCHANGED <<phase, posted, typing, outside, history>>

\* Half a second passes for every pending timer.
Tick ==
    /\ \/ \E i \in DOMAIN releases : releases[i].left > 0
       \/ \E i \in DOMAIN typing : typing[i].left > 0
    /\ releases' = [i \in DOMAIN releases |->
                        [releases[i] EXCEPT !.left = IF @ > 0 THEN @ - 1 ELSE 0]]
    /\ typing' = [i \in DOMAIN typing |->
                      [typing[i] EXCEPT !.left = IF @ > 0 THEN @ - 1 ELSE 0]]
    /\ UNCHANGED <<phase, posted, outside, history>>
-----------------------------------------------------------------------------
(* The rest of the Apple TV.                                               *)

FocusOn(app) ==
    /\ app # focus
    /\ focus' = app
    /\ stranded' = stranded \cup {<<focus, k>> : k \in isDown[focus]}

ChangeFocus(app) ==
    /\ moves < MaxFocusChanges
    /\ FocusOn(app)
    /\ moves' = moves + 1
    /\ UNCHANGED <<pineBoard, isDown, field, system, net, done, posts, restarts>>

\* PineBoard ends; the processes in survivors keep what they had.
PineBoardEnds(survivors) ==
    /\ restarts < MaxRestarts
    /\ phase' = "down"
    /\ posted' = <<>> /\ releases' = <<>> /\ typing' = <<>>
    /\ focus' \in Apps
    /\ isDown' = [a \in Apps |-> IF a \in survivors THEN isDown[a] ELSE {}]
    /\ field' = [a \in Apps |-> IF a \in survivors THEN field[a] ELSE <<>>]
    /\ system' = {}
    /\ net' = [k \in Keys |-> 0]
    /\ stranded' = {p \in Apps \X Keys : p[1] \in survivors /\ p[2] \in isDown[p[1]]}
    /\ restarts' = restarts + 1
    /\ UNCHANGED <<done, posts, moves>>

\* A command whose URL has no "=" puts nil in the userInfo literal, which raises an
\* exception that nothing catches.
PostWithoutValue == phase = "serving" /\ \E s \in SUBSET Apps : PineBoardEnds(s)

\* PBSSystemService restarts the device, or shows the screen saver or the kiosk.
ServeReboot == "reboot" \in system /\ PineBoardEnds({})

ServeTakeover(command, app) ==
    /\ command \in system \ {"reboot"}
    /\ FocusOn(app)
    /\ system' = system \ {command}
    /\ UNCHANGED <<pineBoard, isDown, field, net, done, posts, moves, restarts>>

\* Nothing more happens once the bounds are used up and nothing is pending.
Quiet ==
    /\ posts = MaxPosts
    /\ phase # "down" /\ posted = <<>> /\ releases = <<>> /\ typing = <<>>
    /\ UNCHANGED vars

HandleNotification ==
    HandleNavigationNotification \/ IOHIDTest \/ HandleHelperNotification

Next ==
    \/ RegisterObservers
    \/ StartItUp
    \/ \E event \in NavEvents : HandleRemoteEvent(event)
    \/ \E text \in Texts : EnterText(text)
    \/ \E text \in Texts : AppendText(text)
    \/ \E command \in HelperCommands : SendHelperCommand(command)
    \/ HandleNavigationNotification
    \/ DelayedRelease
    \/ IOHIDTest
    \/ TypeText
    \/ HandleHelperNotification
    \/ Tick
    \/ \E app \in Apps : ChangeFocus(app)
    \/ PostWithoutValue
    \/ ServeReboot
    \/ \E command \in HelperCommands, app \in Apps : ServeTakeover(command, app)
    \/ Quiet

Spec == Init /\ [][Next]_vars

\* The main run loop takes what is ready, and time passes.
FairSpec ==
    /\ Spec
    /\ WF_vars(HandleNotification)
    /\ WF_vars(DelayedRelease)
    /\ WF_vars(TypeText)
    /\ WF_vars(Tick)
-----------------------------------------------------------------------------
(* Properties.                                                             *)

PendingReleases(key) == {i \in DOMAIN releases : ReleaseKey(releases[i].event) = key}

\* The tables and the counts of the press and of the delayed release agree: what
\* PineBoard has sent down and not yet up is exactly what its timers will send up.
PressBalance == \A k \in Keys : net[k] = PressCount(k) * Cardinality(PendingReleases(k))

\* A process that believes a key to be down still has the focus and the timer that
\* releases the key is pending, unless the focus moved, or PineBoard ended, while the
\* key was held: taps of the held key, overlapping holds and slow timers leave none.
NoStuckKey ==
    \A a \in Apps : \A k \in isDown[a] :
        \/ <<a, k>> \in stranded
        \/ a = focus /\ PendingReleases(k) # {}

\* A text that asked for the old one to be deleted, with no other text on its way and an
\* old text short enough, is the next to be typed and still has an empty field then.
FreshEntryIsClean ==
    \A i \in DOMAIN typing : typing[i].fresh => i = 1 /\ field[typing[i].into] = <<>>

\* So that the field then holds the new text and nothing else, wherever the focus went
\* in between, as long as it is back.
SerialEntryReplaces ==
    [][\A i \in DOMAIN typing :
          /\ typing[i].fresh /\ typing[i].into = focus
          /\ done'["text"] = Append(done["text"], typing[i].id)
          => field'[focus] = typing[i].text]_vars

\* Commands of one kind take effect at most once and in the order in which they were
\* accepted, also the texts that wait for their timer and across restarts of PineBoard.
InOrder ==
    \A k \in Kinds : \A i, j \in DOMAIN done[k] : i < j => done[k][i] < done[k][j]

\* A held key comes up in the end, unless the focus moves away first or PineBoard ends:
\* the timer is not lost whatever is sent in between.
HoldsEnd ==
    \A a \in Apps, k \in Keys :
        (k \in isDown[a] /\ <<a, k>> \notin stranded)
            ~> (k \notin isDown[a] \/ <<a, k>> \in stranded)

Waiting(id) ==
    \/ \E i \in DOMAIN posted : posted[i].id = id
    \/ \E i \in DOMAIN typing : typing[i].id = id

\* An accepted command is carried out in the end, or PineBoard ends before that.
EveryCommandEnds ==
    \A id \in Ids :
        Waiting(id) ~> \/ \E k \in Kinds : \E i \in DOMAIN done[k] : done[k][i] = id
                      \/ phase = "down"

\* The commands on their way: as a notification, or as a text that waits for its timer.
OnTheWay(kind) ==
    {posted[i].id : i \in {j \in DOMAIN posted : posted[j].kind = kind}}
        \cup (IF kind = "text" THEN {typing[i].id : i \in DOMAIN typing} ELSE {})

Pipe == INSTANCE CommandPipe WITH accepted <- [k \in Kinds |-> OnTheWay(k)], last <- posts,
                                 Delayed <- {"text"}

\* Every step of the helper is a step of the promise or changes nothing in it: no command
\* is lost or repeated between the URL and the HID events, and only texts are overtaken.
PipePromise == Pipe!Spec

\* The claim of the comment in IOHIDTest: that the deletions come "before entering any new
\* text".  What is typed after a deletion, in the same process, finds the field empty.
ClearsBeforeNewText ==
    [][\A i \in DOMAIN typing :
          /\ typing[i].clear /\ typing[i].into = focus
          /\ done'["text"] = Append(done["text"], typing[i].id)
          => field[focus] = <<>>]_vars
=============================================================================
