# AirMagic in TLA+

AirMagic turns an Apple TV into something a Mac, an iPhone or a web page can
control. A Substrate tweak runs an HTTP server inside PineBoard, the system
shell of tvOS; a request such as `/remoteCommand=up` or `/enterText=abc` is
posted as a distributed notification, and PineBoard's main thread turns it into
HID events for the process that has the focus.

This directory models the parts of the repository that carry state across
steps, checks them with TLC and proves the safety properties of seven of its eight
state machines with TLAPS. Every definition was written from the source; `PROJECT.json` ("map")
names the lines each one stands for.

## The system

| Part | Source | State | Operations | Interacts by |
|---|---|---|---|---|
| Remote helper in PineBoard | `remotetest/RemoteTestHelper.mm`, `Tweak.xm` | pending `performSelector:afterDelay:` and `dispatch_after` calls; keys sent down | three notification handlers, `delayedRelease:`, the typing block, `startItUp` | distributed notifications in, HID events out |
| URL dispatch | `remotetest/MyHTTPConnection.m` | none | `httpResponseForMethod:URI:`, `processURL:` | called on the connection queue, posts notifications |
| HTTP server and connections (vendored) | `remotetest/Core/HTTPServer.m`, `HTTPConnection.m` | the list of connections; of each one the request, the response, its ranges | `socket:didAcceptNewSocket:`, `start`, the read and write callbacks, `die` | the server queue, one connection queue shared by all connections, a notification when one dies |
| Sockets (vendored) | `remotetest/Core/GCDAsyncSocket.m` | read and write queues, sources, flags, delegate | accept, read, write, timers, end of stream, disconnect | a queue per socket; calls its delegate on the delegate's queue |
| Responses (vendored) | `HTTPFileResponse.m`, `HTTPDataResponse.m` | offset, aborted | `readDataOfLength:`, `abort` | called by the connection |
| iOS remote screen | `AirMagiciOS/ViewController.m`, `Main.storyboard` | repeating timer and command, the flag of the long press, the device list | touch actions, `repeatAction:`, `choose:`, `selectDeviceAtIndex:` | blocking HTTP requests |
| Device discovery | `AirMagicClient/ATVDeviceController.m` (both clients) | the array of services, the chosen host | Bonjour delegate methods, `menuItemSelected:` | run loop callbacks, user defaults |
| Mac presentation window | `AirMagicClient/AppDelegate.m` | a polling timer, background requests, label and pictures; reads the chosen host of the row above | `startDateTimer:`, `nowPlayingInfo:`, `sendSlideshowCommand:` | blocks on a concurrent queue and on the main queue, HTTP to port 8080 |
| Mac remote window | `AirMagicClient/AppDelegate.m` | none | one `curl` process per key | HTTP |
| Web page | `AirControl/remote.js` | none | one asynchronous request per key | HTTP |

What is hard in it: two of the three handlers of the helper do half of their
work later, and the main thread does anything else in between; the handlers
speak to "the focused process", which changes; PineBoard can end at any moment,
also by an exception that the helper itself raises; the clients block their
main thread, or poll without waiting for the answer; a poll reads the chosen host when it starts and once more when its answer has come; menus are
answered with an index into an array that goes on changing; a text passes five conversions on
its way to the screen; a socket is watched on its own queue before the connection it belongs
to listens to it or is listed; an answer is written piece by piece, and only the report of one
piece brings the next; requests of one client may travel on several connections. The hazards are listed one by one in `PROJECT.json`,
each with its line and with the properties that watch it.

## Modules

    HIDUsage ---- RemoteHelper ---- MCRemoteHelper
                       |
                  CommandPipe (what the helper implements)
                       |
                  CommandPath (clients, server, helper)
                       |
                  RequestPipe (what the server implements)
                       |
                  HTTPServer            HTTPConnection ---- MCHTTPConnection

    TextEntry ---- MCTextEntry          TouchRemote ---- MCTouchRemote
    DeviceBrowser ---- MCDeviceBrowser  SlideMonitor ---- MCSlideMonitor

    QueueLemmas ---- RemoteHelperProofs, HTTPServerProofs, CommandPathProofs,
                     HTTPConnectionProofs, TouchRemoteProofs, SlideMonitorProofs,
                     DeviceBrowserProofs (TLAPS)

**HIDUsage** has the two key tables of `RemoteTestHelper.mm`: the one that
presses a key (`handleNavigationNotification:`) and the one that releases it
(`delayedRelease:`). They are written twice in the source and so they are here.

**RemoteHelper** is PineBoard with the tweak. `posted` is the queue of
distributed notifications, `releases` and `typing` are the calls that wait for
a timer, each with the ticks of half a second that are left; a due timer may run
late. `focus`, `isDown` and `field` are the processes of the Apple TV as far as
HID events reach them, `system` the requests to PBSSystemService. A handler
is one action, since the main thread runs it to its end: `IOHIDTest` deletes and
schedules, `TypeText` is its block. `PineBoardEnds` empties everything that
lived in the process; the other processes may survive it with a key held.
`PostWithoutValue` is a URL without `=`, whose nil value raises an exception
that nothing catches. `net`, `stranded` and `done` are history variables.

**CommandPipe** is what the helper promises: of each kind of command (key, text,
helper command), the accepted ones take effect one at a time, at most once and in
order, and only the end of the process loses any. Across the kinds a command of a
`Delayed` kind, a text, may be overtaken, and nothing else is. What is accepted is a set,
since the numbers of the commands are their order. `RemoteHelper` gives the
refinement mapping `Pipe`: accepted and without effect yet (`OnTheWay`) are the posted
notifications of the kind and, of texts, those that wait for their timer.

**HTTPServer** is the life of connections: the kernel's side of each, the server queue with
the four steps of an acceptance (`CreateSocket`, `TakeOver`, `AddConnection`, `Start`), a
socket queue for each, and the connection queue. A request is one of a small set, told
apart by whether its connection stays (`Keeps`). Blocks that the code dispatches with
`dispatch_async` are entries of a queue; `disconnect`, which dispatches with
`dispatch_sync`, is one step that waits for its queue to be idle. `early`, `deaths` and `cut` are history.
`ServerPromise` is the refinement of **RequestPipe**: of each connection, requests
are carried out in the order they were sent, at most once, and the end of a connection may lose the
last ones.

**HTTPConnection** is what goes over one connection: header lines up to the limit, the five
ways to refuse a request, and the answers with no body, a whole body, one range or several.
`SendResponse` stands for `replyToHTTPRequest` with everything it calls, so it also reads and
writes the first piece; the three `ContinueSending...` actions follow the report of a piece.
A file may be read short or fail, and then the response aborts and the connection closes behind
what is written. `body` and `declared` are history: what was handed to the socket, and
the length in the header. Bytes are known by their place in the resource. Ranges that
compare as equal may come out of the sort in any order, so `ParseRangeRequest` is the set of the orders.

**CommandPath** composes the two abstract pipes with the three clients. A step of the one
pipe (`Dispatch`) is a step of the other (`Accept`), since a request is carried out by posting a
notification, and only then is it answered. The iOS client holds its main thread until the
answer or the timeout, the Mac client opens a connection for every command, the web page may
use several. `effects` and `settled` are history.

**TextEntry** is one text from the client's box to the field: percent escapes
(iOS), the split of the URL at `=`, one decoding in the handler and one in its
block, the key table, the shift set, and the keyboard layout of the field. A
text is a sequence of characters because the properties are about which
characters arrive. The clients that do not escape are restricted to texts that
curl and a browser send unchanged.

**TouchRemote** is the screen of the iOS client. UIKit's touches are external
actions that append to an event queue; the main thread takes events and due
timers one at a time, and not while a request blocks it (`sending`). The
storyboard connects `touchDown`, `touchUpInside` and `touchUpOutside` of the
direction buttons, and not `touchCancel`.

**DeviceBrowser** is the Bonjour delegate with the menu of the iOS client or
the pop-up button of the Mac client. `services` is the array of the delegate,
`list` what the front end shows of it, `menu` the open iOS menu. On the Mac
opening the pop-up and choosing are one step, since mouse tracking runs in a run loop
mode in which Bonjour callbacks do not come.

**SlideMonitor** is the presentation window of the Mac client. Each request is
a worker with the stages of the background block, `mainQueue` the blocks it
dispatches to the main queue. A refused connection invalidates the timer and
clears the property in two steps of a background thread, and the main thread may
come in between. There are several Apple TVs (`Hosts`), each with a presentation of its own that
moves on (`slide`) and answers or not (`up`). `host` is the user default: the pop-up
button rewrites it at any time (`MenuItemSelected`), or removes it when the dialog of "Other..." is cancelled. A
worker keeps the host it was started with, and the completion of a poll (`ShowInfo`) reads the
default once more (`AppDelegate.m:240`): the label is of the Apple TV that answered, the pictures are
fetched from the one that is chosen by then. That one may have a picture under the path of
the other one's page (`Strays`), or none. How the pop-up button comes by its address is the matter of
`DeviceBrowser`. A host typed into "Other..." that makes no URL is left out: `canHandleRequest:` is then
false, and the request does nothing. `raced`, `mixed` and `switched` are history.

Definitions called a slip ("Slip for a mutant") are not part of any model: each is
a plausible bug of the definition that follows it, and the property it breaks
is named in `PROJECT.json` ("mutants").

## Runs

| Run | Question | Bounds, and why they are enough |
|---|---|---|
| `RemoteHelper` | Keys, texts, order and restarts in any interleaving; `RemoteHelper` implements `CommandPipe` | Three commands: a hold, a tap of the same key and a text, or two texts and a key, are all the combinations that share state; two processes for one change of focus; one restart; `DeleteCount` 2 with texts of 0, 1 and 3 characters, on both sides of it |
| `RemoteHelperLive` | Every hold ends, every command is carried out | The same with a hold and a tap of one key, and one text |
| `RemoteHelperOverlap` | The comment on the deletions, first half | One process, texts of one character, the 50 deletions of the code |
| `HTTPServer` | One errand and one death of each connection, the list of connections, requests that arrive with the end of the stream; `HTTPServer` implements `RequestPipe` | Two connections share the server and the connection queue; two requests on each, of which one may be its last |
| `HTTPConnection` | Whether every answer has what was asked for, and comes to an end | Sixteen requests: each way to refuse one, each kind of answer, a file and a response in memory, an empty one, ranges that overlap, touch, lie outside, are empty, several of nothing; pieces of two bytes, so that a file takes three; two requests, so that each answer comes behind each other one; one header line more than the limit |
| `CommandPath` | Which commands may overtake which, whether one comes twice or is lost | One client of each sort; three commands on two connections are an overtaking with a third command between; one end of PineBoard |
| `TextEntry` | What arrives of a text | Every character of the US layout alone and in front of five others; all texts of up to five characters over `%`, `2`, `5`, `=` and `g`, which form escapes, escaped escapes, broken ones and several values |
| `TextEntryShift` | The comment on the shifted characters | Every character alone |
| `TextEntryEquals` | The help text of `enterText` | Texts of up to five characters over `=` and `g` |
| `TouchRemote` | What repeats, and whether it stops | Two directions are one overlap; four touches allow an overlap after an overlap; three waiting events |
| `DeviceBrowser` | Whether the choice, the list and the screen fit | Three devices: one before and one behind the chosen one; five appearances and disappearances; two choices |
| `SlideMonitor` | Whether the screen is of one slide, the timer unique, the screen in time | Two Apple TVs at different slides, of which the first or none is chosen at launch (`MCInit`; the other way round is the same with their names swapped); two requests at a time are an overlap; two slides, each with one neighbour; one change of the host, of a presentation or of an Apple TV's state, which comes between any two steps of a poll; two uses of `startDateTimer:`, the button and the keyboard together, which are two timers, or a timer and a refusal, or two requests of a different kind |

The passing runs check deadlock; `Quiet`, `Arrived`, `Rest`, `Gone` and `Over` are the
states in which a bounded model has nothing left to do, and stand for stuttering.

What the properties say, beside one type invariant per module:

- `PressBalance`: what was sent down and not up is exactly what the pending
  releases will send up, with the counts of the two tables.
- `NoStuckKey`: a process that believes a key to be down has the focus and a
  pending release, unless the focus moved or PineBoard ended while it was held.
- `FreshEntryIsClean`, `SerialEntryReplaces`: a text sent with no other text
  on its way, over a text that is short enough, ends up alone in the field.
- `InOrder`, `PipePromise`: order and at-most-once, per kind, across restarts.
- `HoldsEnd`, `EveryCommandEnds`: liveness of holds and of accepted commands.
- `ArrivesUnlessTroubled`, `ShowsPrefix`: exactly which texts arrive unharmed;
  from every client nothing foreign is typed.
- `RepeatsHeld`, `TimersAccounted`, `SwallowsOncePerHold`, `QuietAfterLift`: what
  repeats is pressed; how many timers an overlap leaves behind; long presses.
- `PickedIsShown`, `CrashNeedsRemoval`, `TitleTellsHost`, `ListCurrent`: the
  device that is chosen is the one that was shown, the list is the one of the
  browser, and the conditions under which neither holds.
  On the Mac `TitleTellsHost` says that commands go to the device of the pop-up button or nowhere,
  but for an entry that was stale or not resolved yet.
- `OneSlide`: when nothing is on its way to the screen, the pictures that arrived are of the slide and
  of the Apple TV that the label names. `CatchesUp`: they are those of the chosen Apple TV in the end.
  `OneTimer`: refusals leave no second timer.
- `ListIsAccurate`: the server's list holds the open connections, and for good
  those that ended before their connection was the delegate of the socket or was listed.
- `OneErrand`: a connection waits for exactly one thing, a read, a write or a call, so that it
  neither mixes two requests nor hangs. `DiesOnce`, `SentIsServed`: a connection ends
  once; a request in front of an end of the stream is still carried out.
- `ServerPromise`: order and at-most-once, per connection.
- `AnswerIsAsked`: the bytes of an answer are the ones its ranges select, in order, once, under the
  right boundary, and as many as the header says; stated by the sets of bytes,
  not with the range arithmetic of the code. `AnsweredOrClosed`: every request is answered or its
  connection closed.
- `NothingTwice`, `AnsweredComesFirst`, `OwnOrder`, `AnsweredTakesEffect`: from the key to the
  effect. Only a text may come after a command that was sent when the text was already answered.

Several of these carry an exception ("unless ..."). The exceptions are behaviours the
code really has, such as a key that stays down when the focus moves during a
hold; without any one of them TLC finds the
property violated. The screen of `SlideMonitor` is torn in two ways. An answer that comes
while an older one is being shown mixes the pictures of both (`mixed`). And when another host is
chosen between a poll and its answer, the label names a slide of one Apple TV beside
pictures of another (`switched`), which stay until the next answer is shown; `OneSlide` says that
nothing else tears it, and that even then all pictures are of one Apple TV.

Three more exceptions: an empty range ("the last 0 bytes") of a response in
memory, such as the help text, writes nothing after its header, so that no callback goes
on and the connection hangs; several empty ranges of an empty resource announce the boundaries of
a multipart answer in their Content-Length (`newMultiRangeResponse:`), and then only the
header is written, since `isZeroLengthResponse` is tested first (`HTTPConnection.m:1210`), so that
the client waits for bytes that never come; and a connection whose peer leaves while it is being accepted
stays in the server's list, and is counted by `numberOfHTTPConnections`.

### Disagreements with the repository's own words

Three runs end in a violation. The first is about the comment in `IOHIDTest:`, which
says that the deletions come "before entering any new text": a second text within
half a second is appended to the first one. (The same comment says that 50 deletions "should be
sufficient to clear all text"; a longer field keeps its beginning, which is the exception of
`FreshEntryIsClean`.) The second is
the comment on the characters that hold shift: the literal below it has a
backslash where the comment has `|`. The third is the help text of `enterText`:
a text is cut at its first `=`.

### Fairness

`RemoteHelperLive` assumes weak fairness of the handlers, of due timers and of
time: PineBoard's main run loop serves its sources and timers, and nothing in the
handlers blocks. `TouchRemote` assumes that a request ends, since
`requestForAction:` sets a timeout of two seconds, and strong fairness of the
event handlers: they are disabled while a request blocks the main thread, and a
run loop serves its sources between the firings of its timers. `SlideMonitor` assumes that the run loop fires its timer
and drains the main queue, and that each background request goes on: its timeout
is two seconds, too. `CatchesUp` speaks of behaviours in which one Apple TV stays chosen and answers
from some time on; nothing is assumed about whether that happens. `HTTPServer` assumes that queues run what they hold and that the kernel
reports what is there; timers may fire or not. A write is answered or its socket closed, by an error or
by the timer of the head of an answer. `HTTPConnection` assumes that its queue is served
and that the peer takes what is written to it, because `TIMEOUT_WRITE_BODY` is -1: a peer that
stops reading holds the connection for good. `CommandPath` assumes only that the helper gets to what it
accepted, which is `EveryCommandEnds` of `RemoteHelper`. Nothing is assumed of users, of Bonjour or of the Apple TV.

### Assumptions of the models

Distributed notifications are delivered in the order they were posted and are not dropped;
the notification centre may drop them when the queue of a receiver is full, which a
person at a remote control does not reach. `dispatch_after` blocks and delayed performs with
the same delay run in the order of their deadlines. The Mac and iOS run loops never run a
second handler inside a first one, except in the modal dialogs, which are left out.
In `HTTPConnection` a block on the socket queue runs where it is dispatched, and at most one piece of a
body is on its way, since no response of this program is asynchronous (`TypeOK` checks it).
In `CommandPath` no library repeats a request by itself; NSURLConnection may do so for a GET whose
connection was reused and closed, and curl and browsers have rules of their own.

## Proofs

The proofs hold for every set of processes, commands, texts, connections, requests, clients, buttons,
slides, Apple TVs and devices, and for every value of the bounds. They use the named assumptions of
the modules and nothing else: that there is a process and a presentation has two slides, that texts are
sequences and bounds natural numbers, that a component of a Range header is a pair of numbers of
which either may be missing, that READ_CHUNKSIZE is positive, that model values such as `Nil` differ
from those of the sets beside them.

| Module | Theorem | Property |
|---|---|---|
| `RemoteHelperProofs` | `TypeCorrect` | `TypeOK` |
| | `KeysComeUp` | `NoStuckKey` |
| | `PressesBalance` | `PressBalance` |
| | `FreshEntriesAreClean` | `FreshEntryIsClean` |
| | `SerialEntries` | `SerialEntryReplaces`, an action property |
| | `CommandsInOrder` | `InOrder` |
| | `HelperKeepsPromise` | `PipePromise`, the refinement of `CommandPipe` |
| `HTTPServerProofs` | `TypeCorrect` | `TypeOK` |
| | `OneErrandAlways` | `OneErrand` |
| | `DiesOnceAlways` | `DiesOnce` |
| | `ListIsAccurateAlways` | `ListIsAccurate` |
| | `ServerKeepsPromise` | `ServerPromise`, the refinement of `RequestPipe` |
| `HTTPConnectionProofs` | `TypeCorrect` | `TypeOK` |
| | `ParsesWhatIsAsked` | a fact about `ParseRangeRequest` for every header and resource |
| | `AnswerIsAskedAlways` | `AnswerIsAsked` |
| `CommandPathProofs` | `PathTypeCorrect` | `TypeOK` |
| | `NothingTwiceAlways` | `NothingTwice` |
| | `AnsweredComesFirstAlways` | `AnsweredComesFirst` |
| | `OwnOrderAlways` | `OwnOrder` |
| `TouchRemoteProofs` | `TouchTypeCorrect` | `TypeOK` |
| | `RepeatsHeldAlways` | `RepeatsHeld` |
| | `TimersAccountedAlways` | `TimersAccounted` |
| | `SwallowsOnceAlways` | `SwallowsOncePerHold` |
| `SlideMonitorProofs` | `SlideTypeCorrect` | `TypeOK` |
| | `OneTimerAlways` | `OneTimer` |
| | `OneSlideAlways` | `OneSlide` |
| `DeviceBrowserProofs` | `DeviceTypeCorrect` | `TypeOK` |
| | `PickedIsShownAlways` | `PickedIsShown` |
| | `CrashNeedsRemovalAlways` | `CrashNeedsRemoval` |
| | `TitleTellsHostAlways` | `TitleTellsHost` |
| | `ListCurrentAlways` | `ListCurrent` |

`QueueLemmas` has what these proofs need about queues: where an entry is after an
`Append` or a `Tail`, and how many places with a property are left; and that a set of natural numbers
with an element has a least one (`LeastNumber`), which stands in for induction.

**RemoteHelper.** `TypeOK` is inductive; the proof has one step per action. `NoStuckKey` is
inductive together with `TypeOK`: the step that matters is `DelayedRelease`,
where the timer that goes away is the one that releases the key, because
the release table agrees with the press table on every command that holds.
`PressBalance` is a statement about a cardinality, the number of pending releases of a
key; `Append` and `Tail` change it by one, and the tables agree on the counts.
`FreshEntryIsClean` needs the fact that a fresh text is the only one
waiting when it is accepted, and that nothing but `IOHIDTest` and `TypeText` touches
a field. `SerialEntries` follows from it step by step.
`InOrder` is far from inductive: that the finished commands are in order says
nothing of the next one. The strengthening `OrderInv` adds that the posted
notifications are in the order of their numbers, that the waiting texts are, that every
posted one is newer than every waiting text, and that whatever is finished is
older than whatever is posted, and a finished text older than a waiting one. Each group of actions
has a lemma. `HelperKeepsPromise` uses the same order: a handled key and a typed text
are steps `Effect` of the pipe, a text that is handled and one that waits are both on the way, so
`IOHIDTest` is a stutter, and the end of PineBoard is `Lose`.

**HTTPServer.** `ServerInv` says of each connection where its one errand is: a read or a
write that waits on the socket queue, one in progress, or a call on the connection queue
(`ErrandOf`); which calls and flags may go together with which phase (`CloseOf`: the end of a
socket is reported once); and what the list holds at each of the four steps of an acceptance
(`ListOf`). One errand alone is not inductive: what a connection may still wait for when its socket
closes depends on the phase, and on whether the end was reported. `ServerKeepsPromise` needs
`ErrandOf` too: a request that was read is the only one, so it stands in front of what is in the inbox.

**HTTPConnection.** What was asked for is stated by sets of bytes, and what is sent comes about by
parsing, sorting and many small reads, so the proof has three layers. The first is about the
socket: one thing at a time calls the connection on, a read that waits, a queued call, or the last of
the pieces written (`OneTurn`), and a closed socket says so behind all other calls
(`ClosedIsLast`); while one waits for a request, nothing is left of the answer before (`RestInv`).
`TypeOK` needs just this: the size of a piece is added when the one before was taken away.
The second layer is `ParsesWhatIsAsked`: in whatever order ranges of the same place come out of the sort,
each one ends before the next one begins (`LayOut`). That two of them do not overlap does not say so for an
empty range, which overlaps nothing; but the code makes an empty range only of "the last 0
bytes", and its place is behind everything. The third is how far an answer has come. When a piece of a
body is on its way, the body has the bytes of the ranges before the current one and of that
one up to the offset of the response, its length is the sum of their lengths with one for each
boundary (`Stage`), and it ends in a byte, so that a boundary written next stands in front of its own range
(`Begun`). `StageGrows`, `NextStage` and `LastStage` are the three ways to go on, and the last yields the
announced length. `AnswerIsAsked` alone is not inductive: nothing in it knows the offset.
The proof found the answer to several ranges of nothing (above), which no earlier instance had.

**CommandPath.** `PathInv` follows a request: it is in one place at a time (`OneCopy`), the
numbers of the helper are the places in the order in which the server carried requests out
(`Numbered`), what was answered was carried out, before everything that was pressed afterwards
(`Settled`), and what took effect overtook only delayed commands (`InStep`). `NothingTwice`
follows from the first two, the others from all four.

**TouchRemote.** `RepeatsHeld` needs `DownsEnd`: a press that waits in the event queue belongs to
a finger that is still down, or its end waits behind it. `TimersAccounted` is inductive with the types;
`Counted` keeps the history counters within their bounds.

**SlideMonitor.** `OneTimer` says that a refusal which is between its two steps has
already stopped the timer of the property; `TimersCounted` adds it. `OneSlide` says nothing while an
answer is on its way to the screen, so it is far from inductive. `Coherent` names, unless answers
were mixed, one page `n` and one Apple TV `h` (`Shown`): the label is `n` or a queued block brings it
(`LabelComes`), each view that `n` has shows, will be set by a queued block to, or is still to be
fetched as a picture that fits (`PictureComes`), and every block and every worker that fetches belongs to the two
(`AllOf`). A picture fits (`Fits`) if it is empty or came from `h`, and unless the host was switched
it is `n` itself. Before the first answer nothing is shown (`Blank`). The step that matters is the answer to
a poll, where `n` is the page of the Apple TV that was asked and `h` the host of that moment.

**DeviceBrowser.** The exceptions of the properties are exact enough that each of them needs
the others: `DeviceInv` joins the five with `Shape` (no service twice, the two fixed
entries of the Mac at the ends), `ListIsPrefix` (new services go behind those the Mac lists),
`MenuFits` (an open menu is a beginning of the list, by names unless reordered) and
`ListTellsHosts`. That a new address keeps the beginning of the list, the heart of `MenuFits`, rests
on lemmas about the k-th of a set of places: ranks form an injection into `1..n`, so
every rank is taken, and a place behind all others leaves the ranks as they were.

Only model-checked, and why:

- Liveness (`HoldsEnd`, `EveryCommandEnds`, `QuietAfterLift`, `CatchesUp`,
  `SentIsServed`, `AnsweredOrClosed`, `AnsweredTakesEffect`): fairness and ENABLED are out of
  the prover's reach.
- `TextEntry` (`TypeOK`, `ArrivesUnlessTroubled`, `ShowsPrefix`): its conversions flatten sequences of
  sequences and sort sets of places, and what they compute for every text would need an induction over
  each of them; what can go wrong is in the tables, whose entries the run goes through one by one.

The library's induction theorems take an operator as a parameter, which the provers cannot
instantiate. Where an induction was needed (the partial sums of `SumsAre`) the proof takes the
least counterexample instead.

## Not modelled

- Of the vendored server: what this program never reaches. It never stops the server, has
  no TLS, password, upload or WebSocket, and creates no asynchronous, chunked, dynamic or redirect
  response; it never connects a socket of its own. How bytes become lines, dates and header texts
  are formatted, and Bonjour publishing are left out too.
- Logging (CocoaLumberjack): vendored, and nothing depends on what it writes.
- The port configuration files: a pure function of three files without state.
- Code nobody calls: `helperCommand:withInfo:`, `appWentFrontMost:`,
  `hookNotifications:`, PBReloadHelper. `IOHIDEvent.cpp` is not in the
  tweak's Makefile; InspCWrapper
  is a debugging aid.
- The instance variable `_ioSystemClient`, which the handlers access as methods of
  PBAppDelegate; its value has no effect on the modelled state.
- The headers under `remotetest/theos/include`, about 167,000 lines of the repository: declarations
  of Apple's frameworks with no behaviour of this program. The program itself is Objective-C,
  Logos and JavaScript (`.m`, `.mm`, `.xm`, `.js`), and "map" names lines of those files only.

## What is left

1. `TextEntry` for every text: lemmas on the length and the entries of a flattened sequence, by the
   least counterexample as in `SumsAre`; then that escaping and decoding twice is the identity on a
   text without `%`, from which `ArrivesUnlessTroubled` follows character by character.
2. The requests of `HTTPConnection` inside `HTTPServer`: the two share the socket, and `OneErrand` of the one
   is `OneTurn` of the other, but each has its own picture of it.
3. Liveness, once the provers have ENABLED.
