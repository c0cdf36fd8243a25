---------------------------- MODULE SlideMonitor ----------------------------
(***************************************************************************)
(* The presentation window of the Mac client (AppDelegate.m): a timer asks *)
(* the Apple TV every second for the current slide, and what comes back is *)
(* shown.  Each request runs in a block of its own on a concurrent queue,  *)
(* waits for the answer there, fetches three pictures one after the other, *)
(* and hands every change of the screen to the main queue.  Nothing keeps  *)
(* a request from starting while an older one still runs.  A refused       *)
(* connection stops the timer, from the background thread.  The Apple TV   *)
(* is a user default that the pop-up button rewrites at any time; it is    *)
(* read when a request starts, and once more when the answer has come.     *)
(***************************************************************************)
EXTENDS Integers, Sequences, FiniteSets, SequencesExt

CONSTANTS
    Hosts,         \* the Apple TVs
    LastSlide,     \* slides are 1..LastSlide; the first has no previous one, the last no next
    Nil,
    Workers,       \* bound: requests that run at the same time
    MaxUses,       \* bound: uses of startDateTimer:, of the button and of the keyboard
    MaxChanges,    \* bound: changes of the host, of a presentation and of an Apple TV's state
    MaxQueue       \* bound: blocks that wait on the main queue

Slides == 1..LastSlide
Pages == [tv : Hosts, slide : Slides]
Page(h, n) == [tv |-> h, slide |-> n]

\* A picture is of a page, or of whatever an Apple TV has under the path of another one's page.
Strays == [tv : Hosts, slide : {Nil}]
Shots == Pages \cup Strays

ASSUME SlideAssumption == LastSlide \in Nat \ {0, 1}
ASSUME NilAssumption == Nil \notin Nat /\ Nil \notin Hosts /\ Nil \notin Shots
ASSUME BoundAssumption == {MaxUses, MaxChanges, MaxQueue} \subseteq Nat

VARIABLES
    slide,           \* the slide that each Apple TV shows
    up,              \* whether its presentation server answers; else it refuses or stays silent
    host,            \* the user default appleTVHost; Nil when it is missing
    timers,          \* repeating timers on the run loop
    dateTimeTimer,   \* the property
    mainQueue,       \* blocks dispatched to the main queue
    worker,          \* the background blocks
    window,          \* whether keynoteWindow is open
    label,           \* the page that slideLabel names
    picture,         \* what each picture is of
    starts, asked, changes, \* counters for the bounds
    raced,           \* history: starts while the property had a timer or lost one
    mixed,           \* history: the last answer came while an older one was being shown
    switched         \* history: the last answer came from a host that was not the chosen one

tv      == <<slide, up, host>>
polling == <<timers, dateTimeTimer>>
screen  == <<window, label, picture>>
history == <<raced, mixed, switched>>
vars    == <<tv, polling, mainQueue, worker, screen, starts, asked, changes, history>>

TimerIds == 1..MaxUses
Views == <<"previous", "next", "current">>     \* in the order in which they are fetched
Purposes == {"screen", "command"}

Idle == [stage |-> "idle", for |-> "none", host |-> Nil, page |-> Nil, left |-> <<>>]
Asking(purpose, h) ==
    [stage |-> "asking", for |-> purpose, host |-> h, page |-> Nil, left |-> <<>>]

WorkerStates == [stage : {"idle", "asking", "pictures", "clearing"}, for : Purposes \cup {"none"},
                 host : Hosts \cup {Nil}, page : Pages \cup {Nil}, left : Seq(ToSet(Views))]

Blocks == [do : ToSet(Views) \cup {"open", "label", "poll", "close"}, page : Shots \cup {Nil}]
Block(what, page) == [do |-> what, page |-> page]
Shows(block) == block.do \in ToSet(Views) \cup {"label"}

Init ==
    /\ slide \in [Hosts -> Slides] /\ up \in [Hosts -> BOOLEAN]
    /\ host \in Hosts \cup {Nil}      \* kept from an earlier run
    /\ timers = {} /\ dateTimeTimer = Nil
    /\ mainQueue = <<>>
    /\ worker = [w \in Workers |-> Idle]
    /\ window = FALSE /\ label = Nil
    /\ picture = [v \in ToSet(Views) |-> Nil]
    /\ starts = 0 /\ asked = 0 /\ changes = 0
    /\ raced = 0 /\ mixed = FALSE /\ switched = FALSE
-----------------------------------------------------------------------------
(* The timer.                                                              *)

Clearing == \E w \in Workers : worker[w].stage = "clearing"

StartDateTimer ==
    /\ starts + asked < MaxUses
    /\ starts' = starts + 1
    /\ timers' = timers \cup {starts'}
    /\ dateTimeTimer' = starts'
    /\ raced' = raced + (IF dateTimeTimer # Nil \/ Clearing THEN 1 ELSE 0)
    /\ UNCHANGED <<tv, mainQueue, worker, screen, asked, changes, mixed, switched>>

TimerFires ==
    /\ timers # {}
    /\ Len(mainQueue) < MaxQueue
    /\ mainQueue' = Append(mainQueue, Block("poll", Nil))
    /\ UNCHANGED <<tv, polling, worker, screen, starts, asked, changes, history>>
-----------------------------------------------------------------------------
(* Requests.  A command of the keyboard differs from a poll in what its    *)
(* completion does: it writes a file.  A request keeps the host that it    *)
(* read when it started.                                                   *)

Starts(purpose) ==
    \E w \in Workers : /\ worker[w] = Idle
                       /\ worker' = [worker EXCEPT ![w] = Asking(purpose, host)]

\* nowPlayingInfo: of the button; without a host the completion is called at once.
NowPlayingInfo ==
    /\ starts + asked < MaxUses /\ asked' = asked + 1
    /\ IF host # Nil
       THEN Starts("screen") /\ UNCHANGED mainQueue
       ELSE /\ Len(mainQueue) < MaxQueue
            /\ mainQueue' = Append(mainQueue, Block("close", Nil))
            /\ UNCHANGED worker
    /\ UNCHANGED <<tv, polling, screen, starts, changes, history>>

SendSlideshowCommand ==
    /\ starts + asked < MaxUses /\ asked' = asked + 1
    /\ host # Nil
    /\ Starts("command")
    /\ UNCHANGED <<tv, polling, mainQueue, screen, starts, changes, history>>

\* Slip for a mutant: the block for the current picture sets the next one again.
NextViewTwice(n) ==
    CASE n = 1         -> <<"next", "next">>
      [] n = LastSlide -> <<"previous", "next">>
      [] OTHER         -> <<"previous", "next", "next">>

\* The pictures that the answer for slide n names.
NamedViews(n) ==
    CASE n = 1         -> <<"next", "current">>
      [] n = LastSlide -> <<"previous", "current">>
      [] OTHER         -> Views

\* The completion of a poll reads the host again: it names the slide of the Apple TV that
\* answered, and asks the one that is chosen by now for the pictures, all three of them.
\* Without a host it opens the window and is done.
ShowInfo(w) ==
    LET page == Page(worker[w].host, slide[worker[w].host])
    IN  \/ /\ host # Nil
           /\ worker' = [worker EXCEPT ![w] =
                 [stage |-> "pictures", for |-> "screen", host |-> host,
                  page |-> page, left |-> NamedViews(page.slide)]]
           /\ mainQueue' = Append(mainQueue, Block("label", page))
           /\ mixed' = \/ \E u \in Workers : worker[u].stage = "pictures"
                       \/ \E i \in DOMAIN mainQueue : Shows(mainQueue[i])
           /\ switched' = (host # worker[w].host)
        \/ /\ host = Nil
           /\ worker' = [worker EXCEPT ![w] = Idle]
           /\ mainQueue' = Append(mainQueue, Block("open", Nil))
           /\ UNCHANGED <<mixed, switched>>

InfoArrives(w) ==
    /\ worker[w].stage = "asking" /\ up[worker[w].host]
    /\ \/ worker[w].for = "screen" /\ ShowInfo(w)
       \/ /\ worker[w].for = "command"
          /\ worker' = [worker EXCEPT ![w] = Idle]
          /\ UNCHANGED <<mainQueue, mixed, switched>>
    /\ UNCHANGED <<tv, polling, screen, starts, asked, changes, raced>>

\* Slip for a mutant: the host is read again for every picture.
FromHostOfMoment(request) ==
    IF host = Nil \/ ~up[host] THEN {Nil} ELSE {Page(host, request.page.slide)}

\* Slip for a mutant: slides counted from zero.
FromSlideZero(request) ==
    IF ~up[request.host] THEN {Nil} ELSE {Page(request.host, request.page.slide - 1)}

\* What a request may get for a picture.  One that does not arrive leaves its view empty;
\* another Apple TV than the one that named the picture may have one under the same path.
Pictures(request) ==
    CASE ~up[request.host]              -> {Nil}
      [] request.host = request.page.tv -> {request.page}
      [] OTHER                          -> {Nil, Page(request.host, Nil)}

\* The worker goes on to the next picture.
Fetched(request) ==
    IF Len(request.left) = 1 THEN Idle ELSE [request EXCEPT !.left = Tail(request.left)]

PictureArrives(w) ==
    /\ worker[w].stage = "pictures"
    /\ \E page \in Pictures(worker[w]) :
          mainQueue' = Append(mainQueue, Block(Head(worker[w].left), page))
    /\ worker' = [worker EXCEPT ![w] = Fetched(@)]
    /\ UNCHANGED <<tv, polling, screen, starts, asked, changes, history>>

\* block(nil): closes the window after a poll, and has nothing to write after a command.
Fails(w) ==
    /\ worker' = [worker EXCEPT ![w] = Idle]
    /\ mainQueue' = IF worker[w].for = "screen" THEN Append(mainQueue, Block("close", Nil))
                    ELSE mainQueue

\* No answer in two seconds, or no JSON.
InfoFails(w) ==
    /\ worker[w].stage = "asking" /\ ~up[worker[w].host]
    /\ Fails(w)
    /\ UNCHANGED <<tv, polling, screen, starts, asked, changes, history>>

\* Slip for a mutant: the property is cleared, its timer goes on.
InfoRefusedNoInvalidate(w) ==
    /\ worker[w].stage = "asking" /\ ~up[worker[w].host]
    /\ worker' = [worker EXCEPT ![w].stage = "clearing"]
    /\ UNCHANGED <<tv, polling, mainQueue, screen, starts, asked, changes, history>>

\* Error -1004: the timer of the property is invalidated, whichever it is by now ...
InfoRefused(w) ==
    /\ worker[w].stage = "asking" /\ ~up[worker[w].host]
    /\ timers' = timers \ {dateTimeTimer}
    /\ worker' = [worker EXCEPT ![w].stage = "clearing"]
    /\ UNCHANGED <<tv, dateTimeTimer, mainQueue, screen, starts, asked, changes, history>>

\* ... and then the property is cleared.
ClearTimer(w) ==
    /\ worker[w].stage = "clearing"
    /\ dateTimeTimer' = Nil
    /\ Fails(w)
    /\ UNCHANGED <<tv, timers, screen, starts, asked, changes, history>>
-----------------------------------------------------------------------------
(* The main queue.                                                         *)

RunBlock ==
    /\ mainQueue # <<>>
    /\ LET block == Head(mainQueue)
       IN  \/ /\ block.do = "poll" /\ host # Nil
              /\ Starts("screen")
              /\ mainQueue' = Tail(mainQueue)
              /\ UNCHANGED screen
           \/ /\ block.do = "poll" /\ host = Nil
              /\ mainQueue' = Append(Tail(mainQueue), Block("close", Nil))
              /\ UNCHANGED <<worker, screen>>
           \/ /\ block.do \in {"open", "close"}
              /\ window' = (block.do = "open")
              /\ mainQueue' = Tail(mainQueue)
              /\ UNCHANGED <<worker, label, picture>>
           \/ /\ block.do = "label"      \* two blocks in a row: opens the window, sets the label
              /\ window' = TRUE
              /\ label' = block.page
              /\ mainQueue' = Tail(mainQueue)
              /\ UNCHANGED <<worker, picture>>
           \/ /\ block.do \in ToSet(Views)
              /\ picture' = [picture EXCEPT ![block.do] = block.page]
              /\ mainQueue' = Tail(mainQueue)
              /\ UNCHANGED <<worker, window, label>>
    /\ UNCHANGED <<tv, polling, starts, asked, changes, history>>
-----------------------------------------------------------------------------
(* The Apple TVs, and the one that is chosen.                              *)

TvChanges ==
    /\ changes < MaxChanges
    /\ changes' = changes + 1
    /\ \E h \in Hosts :
          \/ /\ \E n \in Slides \ {slide[h]} : slide' = [slide EXCEPT ![h] = n]
             /\ UNCHANGED up
          \/ /\ up' = [up EXCEPT ![h] = ~up[h]]
             /\ UNCHANGED slide
    /\ UNCHANGED <<host, polling, mainQueue, worker, screen, starts, asked, history>>

\* menuItemSelected: of the pop-up button writes the host; "Other..." removes it when its
\* dialog is cancelled.
MenuItemSelected ==
    /\ changes < MaxChanges
    /\ changes' = changes + 1
    /\ host' \in (Hosts \cup {Nil}) \ {host}
    /\ UNCHANGED <<slide, up, polling, mainQueue, worker, screen, starts, asked, history>>

\* Nothing polls and nothing is under way.
Rest ==
    /\ timers = {} /\ mainQueue = <<>> /\ \A w \in Workers : worker[w] = Idle
    /\ UNCHANGED vars

Next ==
    \/ StartDateTimer \/ TimerFires
    \/ NowPlayingInfo \/ SendSlideshowCommand
    \/ \E w \in Workers : InfoArrives(w) \/ PictureArrives(w) \/ InfoFails(w)
                              \/ InfoRefused(w) \/ ClearTimer(w)
    \/ RunBlock
    \/ TvChanges \/ MenuItemSelected
    \/ Rest

Spec == Init /\ [][Next]_vars

\* The run loop fires its timers and drains the main queue; a request ends, with its answer
\* or with its timeout of two seconds.
Fairness ==
    /\ WF_vars(TimerFires)
    /\ WF_vars(RunBlock)
    /\ \A w \in Workers : WF_vars(InfoArrives(w) \/ InfoFails(w) \/ InfoRefused(w))
    /\ \A w \in Workers : WF_vars(PictureArrives(w)) /\ WF_vars(ClearTimer(w))

FairSpec == Spec /\ Fairness
-----------------------------------------------------------------------------
(* Properties.                                                             *)

\* The types: blocks name pages, a label always one, a request is at a host, and one that
\* fetches pictures has one to fetch.
TypeOK ==
    /\ slide \in [Hosts -> Slides] /\ up \in [Hosts -> BOOLEAN] /\ host \in Hosts \cup {Nil}
    /\ timers \subseteq TimerIds /\ dateTimeTimer \in TimerIds \cup {Nil}
    /\ mainQueue \in Seq(Blocks)
    /\ \A i \in DOMAIN mainQueue : mainQueue[i].do = "label" => mainQueue[i].page \in Pages
    /\ worker \in [Workers -> WorkerStates]
    /\ \A w \in Workers :
          /\ worker[w].stage # "idle" => worker[w].for \in Purposes /\ worker[w].host \in Hosts
          /\ worker[w].stage = "pictures" => worker[w].left # <<>> /\ worker[w].page \in Pages
    /\ window \in BOOLEAN /\ label \in Pages \cup {Nil}
    /\ picture \in [ToSet(Views) -> Shots \cup {Nil}]
    /\ starts \in 0..MaxUses /\ asked \in 0..MaxUses /\ raced \in 0..starts
    /\ mixed \in BOOLEAN /\ switched \in BOOLEAN

Showing ==
    \/ \E w \in Workers : worker[w].stage = "pictures"
    \/ \E i \in DOMAIN mainQueue : Shows(mainQueue[i])

\* When the answer shown last came while no older one was being shown, the pictures on the
\* screen are of the slide that the label names, apart from those that did not arrive,
\* whichever presentation moves on between the requests of the poll and whichever host is
\* chosen between two polls or between two pictures.  The exception is another host that was
\* chosen between the poll and its answer, for then the completion reads the host again: all
\* pictures that arrive are of one other Apple TV than the label, until the next answer.
OneSlide ==
    ~Showing /\ ~mixed /\ label # Nil =>
        \E h \in Hosts : \A v \in ToSet(NamedViews(label.slide)) :
            \/ picture[v] = Nil
            \/ picture[v].tv = h /\ (~switched => picture[v] = label)

\* Polling is started at most once unless startDateTimer: is used while it runs, or in the
\* middle of a refusal: requests that are refused one after the other, each clearing the
\* property in two steps, never leave a timer running that the property has lost.
OneTimer == Cardinality(timers) <= 1 + raced

\* Once an Apple TV stays chosen, stays at a slide and answers for good while a timer runs,
\* the window is open with that slide, whatever older requests were still to come, and
\* however the host and the presentations changed until then.
CatchesUp ==
    \A p \in Pages :
        <>[](timers # {} /\ host = p.tv /\ up[p.tv] /\ slide[p.tv] = p.slide)
            => <>[](window /\ label = p /\ picture["current"] = p)
=============================================================================
