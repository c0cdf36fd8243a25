----------------------------- MODULE TouchRemote -----------------------------
(***************************************************************************)
(* The screen of the iOS client (ViewController.m).  Touching a direction  *)
(* button sends its command and starts a repeating timer; lifting any      *)
(* direction button stops it.  The select button tells a tap from a press  *)
(* of half a second.  Everything runs on the main thread, and sending a    *)
(* command blocks that thread until the Apple TV answers or two seconds    *)
(* have passed: touches wait in the event queue meanwhile, and a timer     *)
(* that comes due several times fires once.                                *)
(***************************************************************************)
EXTENDS Integers, Sequences, FiniteSets

CONSTANTS
    Directions,   \* the buttons with a repeating command
    Taps,         \* the buttons that send on touchUpInside, besides select
    Nil,
    MaxTouches,   \* bound: touches of the screen
    MaxQueue      \* bound: touch events that wait

ASSUME NilAssumption ==
    Nil \notin Directions \cup Taps \cup {"select", "selecth"} /\ Nil \notin Nat
ASSUME ButtonsAssumption == Directions \cap Taps = {} /\ "select" \notin Directions \cup Taps
ASSUME TouchesAssumption == MaxTouches \in Nat /\ MaxQueue \in Nat

VARIABLES
    down,              \* direction buttons a finger is on
    events,            \* touch events that the main thread has not handled
    sending,           \* the command the main thread waits for, or Nil
    repeatingCommand,  \* the ivars of the view controller
    repeatingTimer,
    cancelNextAction,
    timers,            \* timers on the run loop; only invalidate takes one off
    due,               \* those whose time has come
    touches,           \* history: number of touches
    cancelled,         \* history: buttons whose touch the system took away, not lifted since
    overlaps,          \* history: presses handled while another one repeated
    holds, selects, swallowed   \* history: what became of the touches of select

screen  == <<down, events, touches>>
ivars   == <<repeatingCommand, repeatingTimer, cancelNextAction>>
history == <<cancelled, overlaps, holds, selects, swallowed>>
vars    == <<screen, sending, ivars, timers, due, history>>

Commands == Directions \cup Taps \cup {"select", "selecth"}
TimerIds == 1..MaxTouches
Events == [kind : {"down", "up", "cancel"}, button : Directions]
              \cup [kind : {"tap"}, button : Taps \cup {"select"}]
              \cup [kind : {"hold"}, button : {"select"}]

Init ==
    /\ down = {} /\ events = <<>> /\ touches = 0
    /\ sending = Nil
    /\ repeatingCommand = Nil /\ repeatingTimer = Nil
    /\ cancelNextAction = FALSE
    /\ timers = {} /\ due = {}
    /\ cancelled = {} /\ overlaps = 0
    /\ holds = 0 /\ selects = 0 /\ swallowed = 0
-----------------------------------------------------------------------------
(* Fingers (UIKit).  The storyboard connects touchDown, touchUpInside and  *)
(* touchUpOutside of the direction buttons, and not touchCancel.  Once the *)
(* long press on select is recognised its touch is taken from the button   *)
(* (cancelsTouchesInView), which then sees no touchUpInside.               *)

Occurs(kind, button) ==
    /\ Len(events) < MaxQueue
    /\ events' = Append(events, [kind |-> kind, button |-> button])

Touch(button) ==
    /\ touches < MaxTouches
    /\ touches' = touches + 1
    /\ \/ /\ button \in Directions \ down
          /\ Occurs("down", button)
          /\ down' = down \cup {button}
       \/ /\ button \in Taps \cup {"select"}
          /\ Occurs("tap", button)
          /\ UNCHANGED down
       \/ /\ button = "select"
          /\ Occurs("hold", button)
          /\ UNCHANGED down
    /\ UNCHANGED <<sending, ivars, timers, due, history>>

Lift(button) ==
    /\ button \in down
    /\ down' = down \ {button}
    /\ Occurs("up", button)
    /\ UNCHANGED <<touches, sending, ivars, timers, due, history>>

\* A call, an alert or a system gesture takes the touch away.
TakeAway(button) ==
    /\ button \in down
    /\ down' = down \ {button}
    /\ Occurs("cancel", button)
    /\ UNCHANGED <<touches, sending, ivars, timers, due, history>>
-----------------------------------------------------------------------------
(* The main thread.                                                        *)

Takes(kind, button) ==
    /\ sending = Nil
    /\ events # <<>>
    /\ Head(events) = [kind |-> kind, button |-> button]
    /\ events' = Tail(events)
    /\ UNCHANGED <<down, touches>>

\* A request ends with an answer or with the timeout; the client looks at neither.
SendNavCommand(command) == sending' = command

RequestEnds ==
    /\ sending # Nil
    /\ sending' = Nil
    /\ UNCHANGED <<screen, ivars, timers, due, history>>


StartRepeatTimerWithAction(button) ==
    /\ Takes("down", button)
    /\ SendNavCommand(button)
    /\ repeatingCommand' = button
    /\ \E t \in TimerIds \ timers :
          /\ \A u \in TimerIds \ timers : t <= u
          /\ repeatingTimer' = t
          /\ timers' = timers \cup {t}
    /\ overlaps' = overlaps + (IF repeatingTimer = Nil THEN 0 ELSE 1)
    /\ UNCHANGED <<cancelNextAction, due, cancelled, holds, selects, swallowed>>

\* Slip for a mutant: the timer is dropped without being invalidated.
TouchUpNoInvalidate(button) ==
    /\ Takes("up", button)
    /\ repeatingTimer' = Nil /\ repeatingCommand' = Nil
    /\ cancelled' = {}
    /\ UNCHANGED <<sending, cancelNextAction, timers, due, overlaps, holds, selects, swallowed>>

\* Slip for a mutant: the command stays for the timers that are left.
TouchUpKeepsCommand(button) ==
    /\ Takes("up", button)
    /\ IF repeatingTimer \in timers
       THEN /\ timers' = timers \ {repeatingTimer}
            /\ due' = due \ {repeatingTimer}
            /\ repeatingTimer' = Nil /\ UNCHANGED repeatingCommand
       ELSE UNCHANGED <<timers, due, repeatingTimer, repeatingCommand>>
    /\ cancelled' = {}
    /\ UNCHANGED <<sending, cancelNextAction, overlaps, holds, selects, swallowed>>

\* Slip for a mutant: a firing that has come due is still made after invalidate.
TouchUpLateFiring(button) ==
    /\ Takes("up", button)
    /\ IF repeatingTimer \in timers
       THEN /\ timers' = timers \ {repeatingTimer}
            /\ repeatingTimer' = Nil /\ repeatingCommand' = Nil
       ELSE UNCHANGED <<timers, repeatingTimer, repeatingCommand>>
    /\ cancelled' = {}
    /\ UNCHANGED <<sending, cancelNextAction, due, overlaps, holds, selects, swallowed>>

TouchUp(button) ==
    /\ Takes("up", button)
    /\ IF repeatingTimer \in timers
       THEN /\ timers' = timers \ {repeatingTimer}
            /\ due' = due \ {repeatingTimer}
            /\ repeatingTimer' = Nil /\ repeatingCommand' = Nil
       ELSE UNCHANGED <<timers, due, repeatingTimer, repeatingCommand>>
    /\ cancelled' = {}
    /\ UNCHANGED <<sending, cancelNextAction, overlaps, holds, selects, swallowed>>

\* No action is connected to this event.
TouchCancelled(button) ==
    /\ Takes("cancel", button)
    /\ cancelled' = cancelled \cup {button}
    /\ UNCHANGED <<sending, ivars, timers, due, overlaps, holds, selects, swallowed>>

\* A tenth of a second passes for timer t.
TimerDue(t) ==
    /\ t \in timers \ due
    /\ due' = due \cup {t}
    /\ UNCHANGED <<screen, sending, ivars, timers, history>>

\* Any timer repeats the command of the moment.
RepeatAction(t) ==
    /\ sending = Nil
    /\ t \in due
    /\ due' = due \ {t}
    /\ IF repeatingCommand = Nil THEN UNCHANGED sending ELSE SendNavCommand(repeatingCommand)
    /\ UNCHANGED <<screen, ivars, timers, history>>

\* playAction:, menuAction: and the Done of enterTextAction:.
TapAction(button) ==
    /\ Takes("tap", button)
    /\ button # "select"
    /\ SendNavCommand(button)
    /\ UNCHANGED <<ivars, timers, due, history>>

\* choose:, in the state UIGestureRecognizerStateBegan.
Choose ==
    /\ Takes("hold", "select")
    /\ SendNavCommand("selecth")
    /\ cancelNextAction' = TRUE
    /\ holds' = holds + 1
    /\ UNCHANGED <<repeatingCommand, repeatingTimer, timers, due,
                   cancelled, overlaps, selects, swallowed>>

\* Slip for a mutant: the flag is not taken back.
SelectActionKeepsFlag ==
    /\ Takes("tap", "select")
    /\ IF cancelNextAction
       THEN swallowed' = swallowed + 1 /\ UNCHANGED <<sending, selects>>
       ELSE SendNavCommand("select") /\ selects' = selects + 1 /\ UNCHANGED swallowed
    /\ UNCHANGED <<ivars, timers, due, cancelled, overlaps, holds>>

SelectAction ==
    /\ Takes("tap", "select")
    /\ IF cancelNextAction
       THEN swallowed' = swallowed + 1 /\ UNCHANGED <<sending, selects>>
       ELSE SendNavCommand("select") /\ selects' = selects + 1 /\ UNCHANGED swallowed
    /\ cancelNextAction' = FALSE
    /\ UNCHANGED <<repeatingCommand, repeatingTimer, timers, due, cancelled, overlaps, holds>>

\* Nothing more happens once no finger comes down any more and no timer is left.
Rest ==
    /\ touches = MaxTouches /\ down = {} /\ events = <<>> /\ sending = Nil /\ timers = {}
    /\ UNCHANGED vars

HandleEvent ==
    \/ \E b \in Directions :
          StartRepeatTimerWithAction(b) \/ TouchUp(b) \/ TouchCancelled(b)
    \/ \E b \in Taps : TapAction(b)
    \/ Choose
    \/ SelectAction

Next ==
    \/ \E b \in Directions \cup Taps \cup {"select"} : Touch(b)
    \/ \E b \in Directions : Lift(b) \/ TakeAway(b)
    \/ HandleEvent
    \/ RequestEnds
    \/ \E t \in TimerIds : TimerDue(t) \/ RepeatAction(t)
    \/ Rest

Spec == Init /\ [][Next]_vars

\* A request ends after two seconds at the latest.  The run loop serves its input sources
\* between the firings of timers, so that touches are handled although timers are always
\* due: strong fairness.
FairSpec ==
    /\ Spec
    /\ WF_vars(RequestEnds)
    /\ SF_vars(HandleEvent)
-----------------------------------------------------------------------------
(* Properties.                                                             *)

\* The types: only timers on the run loop are due, and the command that repeats is that of a
\* direction.
TypeOK ==
    /\ down \subseteq Directions
    /\ events \in Seq(Events)
    /\ touches \in 0..MaxTouches
    /\ sending \in Commands \cup {Nil}
    /\ repeatingCommand \in Directions \cup {Nil}
    /\ repeatingTimer \in TimerIds \cup {Nil}
    /\ cancelNextAction \in BOOLEAN
    /\ timers \subseteq TimerIds
    /\ due \subseteq timers
    /\ cancelled \subseteq Directions
    /\ {overlaps, holds, selects, swallowed} \subseteq 0..MaxTouches

InQueue(kind, button) ==
    \E i \in DOMAIN events : events[i] = [kind |-> kind, button |-> button]

\* What repeats is the command of a button that a finger is on, or that was lifted or taken
\* away just now, unless the system had taken its touch away before: fingers on several
\* buttons, in any order, never leave a command repeating that nobody presses.
RepeatsHeld ==
    repeatingCommand # Nil =>
        \/ repeatingCommand \in down \cup cancelled
        \/ InQueue("up", repeatingCommand)
        \/ InQueue("cancel", repeatingCommand)

\* The run loop has the timer of the repeating command and one more for each press that
\* began while another repeated: touchUp: only ever stops the newest, and those it missed
\* stay and make later presses repeat faster.
TimersAccounted ==
    /\ repeatingTimer = Nil <=> repeatingCommand = Nil
    /\ repeatingTimer # Nil => repeatingTimer \in timers
    /\ Cardinality(timers) = overlaps + (IF repeatingTimer = Nil THEN 0 ELSE 1)

\* A tap of select is swallowed at most once for each long press.
SwallowsOncePerHold == swallowed + (IF cancelNextAction THEN 1 ELSE 0) <= holds

\* When the last finger is lifted the repeating ends, also while requests keep timing out,
\* unless the system took a touch away.
QuietAfterLift ==
    down = {} ~> (repeatingCommand = Nil \/ down # {} \/ cancelled # {})
==============================================================================
