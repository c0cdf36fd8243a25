------------------------- MODULE TouchRemoteProofs -------------------------
(***************************************************************************)
(* Theorems about TouchRemote, for all buttons and values of the bounds.   *)
(***************************************************************************)
EXTENDS TouchRemote, QueueLemmas

(***************************************************************************)
(* The inductive invariant.                                                *)
(***************************************************************************)

\* The touches that the main thread has not handled, in the queue.
Unhandled == {i \in DOMAIN events : events[i].kind \in {"down", "tap", "hold"}}

\* What the counters of the history count are touches that were handled.
Counted == Cardinality(Unhandled) + overlaps + holds + selects + swallowed <= touches

\* The finger of a press that waits is still on the button, or its end waits behind it.
DownsEnd ==
    \A i \in DOMAIN events : events[i].kind = "down" =>
        \/ events[i].button \in down
        \/ \E j \in DOMAIN events :
              i < j /\ events[j].kind \in {"up", "cancel"} /\ events[j].button = events[i].button

TouchInv == TypeOK /\ Counted /\ DownsEnd /\ RepeatsHeld /\ TimersAccounted /\ SwallowsOncePerHold

(***************************************************************************)
(* The queue of touch events.                                              *)
(***************************************************************************)

LEMMA CounterTypes ==
    ASSUME TypeOK
    PROVE  /\ overlaps \in Nat /\ holds \in Nat /\ selects \in Nat /\ swallowed \in Nat
           /\ touches \in Nat /\ touches <= MaxTouches
           /\ Cardinality(Unhandled) \in Nat /\ Unhandled \in SUBSET (DOMAIN events)
<1>1. Unhandled \in SUBSET (DOMAIN events)
  BY DEF Unhandled
<1>2. Cardinality(Unhandled) \in Nat
  BY <1>1, PlacesFinite DEF TypeOK
<1> QED BY <1>1, <1>2, TouchesAssumption DEF TypeOK

\* A finger comes down or goes up: one more event waits, behind the others.
LEMMA OccursFacts ==
    ASSUME TypeOK, NEW kind, NEW button, Occurs(kind, button),
           [kind |-> kind, button |-> button] \in Events
    PROVE  /\ events' \in Seq(Events)
           /\ Cardinality(Unhandled') =
                 Cardinality(Unhandled) + (IF kind \in {"down", "tap", "hold"} THEN 1 ELSE 0)
           /\ \A i \in DOMAIN events : i \in DOMAIN events' /\ events'[i] = events[i]
           /\ \E last \in DOMAIN events' :
                 /\ events'[last] = [kind |-> kind, button |-> button]
                 /\ DOMAIN events' = DOMAIN events \cup {last}
                 /\ \A i \in DOMAIN events : i \in Nat /\ i < last
           /\ InQueue(kind, button)'
           /\ \A k, b : InQueue(k, b) => InQueue(k, b)'
<1> DEFINE e == [kind |-> kind, button |-> button]
<1>1. /\ events \in Seq(Events) /\ events' = Append(events, e)
      /\ e.kind = kind /\ e \in Events
  BY DEF TypeOK, Occurs
<1>2. PICK last : last = Len(events) + 1
  OBVIOUS
<1>3. InQueue(kind, button)' <=> \E i \in DOMAIN events' : events'[i] = e
  BY DEF InQueue
<1> HIDE DEF e
<1>4. /\ events' \in Seq(Events)
      /\ DOMAIN events = 1..Len(events) /\ Len(events) \in Nat
      /\ DOMAIN events' = 1..last
      /\ \A i \in DOMAIN events : i \in DOMAIN events' /\ events'[i] = events[i]
      /\ events'[last] = e
  BY <1>1, <1>2, AppendIndex, AppendProperties
<1>5. /\ DOMAIN events' = DOMAIN events \cup {last} /\ last \in DOMAIN events'
      /\ \A i \in DOMAIN events : i \in Nat /\ i < last
  BY <1>2, <1>4
<1>6. Cardinality(Unhandled') =
         Cardinality(Unhandled) + (IF kind \in {"down", "tap", "hold"} THEN 1 ELSE 0)
  <2>1. CASE kind \in {"down", "tap", "hold"}
    <3>1. Unhandled' = Unhandled \cup {last}
      BY <1>1, <1>4, <1>5, <2>1 DEF Unhandled
    <3> QED BY <1>1, <1>2, <2>1, <3>1, AppendCount, CounterTypes
  <2>2. CASE kind \notin {"down", "tap", "hold"}
    <3>1. Unhandled' = Unhandled
      BY <1>1, <1>4, <1>5, <2>2 DEF Unhandled
    <3> QED BY <2>2, <3>1, CounterTypes
  <2> QED BY <2>1, <2>2
<1>7. \A k, b : InQueue(k, b) => InQueue(k, b)'
  BY <1>4 DEF InQueue
<1>8. InQueue(kind, button)'
  BY <1>3, <1>4, <1>5
<1> QED BY <1>4, <1>5, <1>6, <1>7, <1>8 DEF e

\* The main thread takes the oldest event.
LEMMA TakesFacts ==
    ASSUME TypeOK, NEW kind, NEW button, Takes(kind, button)
    PROVE  /\ [kind |-> kind, button |-> button] \in Events
           /\ events' \in Seq(Events) /\ UNCHANGED <<down, touches>>
           /\ Cardinality(Unhandled') =
                 Cardinality(Unhandled) - (IF kind \in {"down", "tap", "hold"} THEN 1 ELSE 0)
           /\ 1 \in DOMAIN events /\ events[1].kind = kind /\ events[1].button = button
           /\ \A i \in DOMAIN events' :
                 i \in Nat /\ i + 1 \in DOMAIN events /\ 1 < i + 1 /\ events'[i] = events[i + 1]
           /\ \A i \in DOMAIN events :
                 i \in Nat /\ (i # 1 => i - 1 \in DOMAIN events' /\ events'[i - 1] = events[i])
<1> DEFINE e == [kind |-> kind, button |-> button]
<1>1. /\ events \in Seq(Events) /\ events # <<>> /\ Head(events) = e /\ events' = Tail(events)
      /\ UNCHANGED <<down, touches>> /\ e.kind = kind /\ e.button = button
  BY DEF TypeOK, Takes
<1> HIDE DEF e
<1>2. /\ 1 \in DOMAIN events /\ events[1] = e /\ events' \in Seq(Events)
      /\ \A i \in DOMAIN events' :
            i \in Nat /\ i + 1 \in DOMAIN events /\ 1 < i + 1 /\ events'[i] = events[i + 1]
      /\ \A i \in DOMAIN events : i \in Nat
      /\ \A i \in DOMAIN events : i # 1 => i - 1 \in DOMAIN events' /\ events'[i - 1] = events[i]
  BY <1>1, TailIndex, TailKeeps, HeadTailProperties, LenProperties
<1>3. e \in Events
  BY <1>1, <1>2, ElementOfSeq, LenProperties
<1>4. Cardinality(Unhandled') =
         Cardinality(Unhandled) - (IF kind \in {"down", "tap", "hold"} THEN 1 ELSE 0)
  <2>1. PICK rest, chosen : chosen = Unhandled /\ rest = {i \in DOMAIN Tail(events) : i + 1 \in chosen}
    OBVIOUS
  <2>2. Unhandled' = rest
    BY <1>1, <1>2, <2>1 DEF Unhandled
  <2>3. 1 \in chosen <=> kind \in {"down", "tap", "hold"}
    BY <1>1, <1>2, <2>1 DEF Unhandled
  <2>4. Cardinality(rest) = IF 1 \in chosen THEN Cardinality(chosen) - 1 ELSE Cardinality(chosen)
    BY <1>1, <2>1, TailCount, CounterTypes
  <2> QED BY <2>1, <2>2, <2>3, <2>4, CounterTypes
<1> QED BY <1>1, <1>2, <1>3, <1>4 DEF e

\* What waits in the queue goes on waiting, except for the event that is taken.
LEMMA TakesKeepsInQueue ==
    ASSUME TypeOK, NEW kind, NEW button, Takes(kind, button), NEW k, NEW b, InQueue(k, b)
    PROVE  InQueue(k, b)' \/ (k = kind /\ b = button)
<1>1. /\ 1 \in DOMAIN events /\ events[1].kind = kind /\ events[1].button = button
      /\ \A i \in DOMAIN events : i # 1 => i - 1 \in DOMAIN events' /\ events'[i - 1] = events[i]
  BY TakesFacts
<1>2. PICK i \in DOMAIN events : events[i] = [kind |-> k, button |-> b]
  BY DEF InQueue
<1>3. CASE i = 1
  BY <1>1, <1>2, <1>3
<1>4. CASE i # 1
  <2>1. PICK j \in DOMAIN events' : events'[j] = [kind |-> k, button |-> b]
    BY <1>1, <1>2, <1>4
  <2> QED BY <2>1 DEF InQueue
<1> QED BY <1>3, <1>4

\* Taking an event leaves the ends of the presses behind it.
LEMMA TakesKeepsEnds ==
    ASSUME TypeOK, DownsEnd, NEW kind, NEW button, Takes(kind, button)
    PROVE  DownsEnd'
<1>1. \A i \in DOMAIN events :
         i \in Nat /\ (i # 1 => i - 1 \in DOMAIN events' /\ events'[i - 1] = events[i])
  BY TakesFacts
<1>2. \A i \in DOMAIN events' : i \in Nat /\ i + 1 \in DOMAIN events /\ events'[i] = events[i + 1]
  BY TakesFacts
<1>3. down' = down
  BY DEF Takes
<1>4. ASSUME NEW i \in DOMAIN events', events'[i].kind = "down"
      PROVE  \/ events'[i].button \in down'
             \/ \E j \in DOMAIN events' : i < j /\ events'[j].kind \in {"up", "cancel"}
                                          /\ events'[j].button = events'[i].button
  <2>1. i \in Nat /\ i + 1 \in DOMAIN events /\ events'[i] = events[i + 1] /\ down' = down
    BY <1>4, <1>2, <1>3
  <2>2. CASE events[i + 1].button \in down
    BY <2>1, <2>2
  <2>3. CASE \E j \in DOMAIN events : i + 1 < j /\ events[j].kind \in {"up", "cancel"}
                                      /\ events[j].button = events[i + 1].button
    <3>1. PICK j \in DOMAIN events : i + 1 < j /\ events[j].kind \in {"up", "cancel"}
                                      /\ events[j].button = events[i + 1].button
      BY <2>3
    <3>2. j \in Nat /\ j # 1
      BY <1>1, <2>1, <3>1
    <3>3. j - 1 \in DOMAIN events' /\ events'[j - 1] = events[j] /\ i < j - 1
      BY <1>1, <2>1, <3>1, <3>2
    <3> QED BY <2>1, <3>1, <3>3
  <2> QED BY <1>4, <2>1, <2>2, <2>3 DEF DownsEnd
<1> QED BY <1>4 DEF DownsEnd

(***************************************************************************)
(* One lemma for each kind of step.                                        *)
(***************************************************************************)

\* Fingers come and go: what a handler looks at stays as it was.
LEMMA FingerStep ==
    ASSUME TouchInv, NEW kind, NEW button, Occurs(kind, button),
           [kind |-> kind, button |-> button] \in Events,
           down' \subseteq Directions,
           \A b \in down : b \in down' \/ (b = button /\ kind \in {"up", "cancel"}),
           kind = "down" => button \in down',
           touches' = touches + (IF kind \in {"down", "tap", "hold"} THEN 1 ELSE 0),
           touches' \in 0..MaxTouches,
           UNCHANGED <<sending, ivars, timers, due, history>>
    PROVE  TouchInv'
<1>1. TypeOK /\ Counted /\ DownsEnd /\ RepeatsHeld /\ TimersAccounted /\ SwallowsOncePerHold
  BY DEF TouchInv
<1>2. /\ UNCHANGED <<sending, timers, due>>
      /\ UNCHANGED <<repeatingCommand, repeatingTimer, cancelNextAction>>
      /\ UNCHANGED <<cancelled, overlaps, holds, selects, swallowed>>
  BY DEF ivars, history
<1>3. /\ events' \in Seq(Events)
      /\ Cardinality(Unhandled') =
            Cardinality(Unhandled) + (IF kind \in {"down", "tap", "hold"} THEN 1 ELSE 0)
      /\ \A i \in DOMAIN events : i \in DOMAIN events' /\ events'[i] = events[i]
      /\ InQueue(kind, button)'
      /\ \A k, b : InQueue(k, b) => InQueue(k, b)'
  BY <1>1, OccursFacts
<1>4. PICK last \in DOMAIN events' :
         /\ events'[last].kind = kind /\ events'[last].button = button
         /\ DOMAIN events' = DOMAIN events \cup {last}
         /\ \A i \in DOMAIN events : i \in Nat /\ i < last
  <2>1. PICK last \in DOMAIN events' :
           /\ events'[last] = [kind |-> kind, button |-> button]
           /\ DOMAIN events' = DOMAIN events \cup {last}
           /\ \A i \in DOMAIN events : i \in Nat /\ i < last
    BY <1>1, OccursFacts
  <2>2. events'[last].kind = kind /\ events'[last].button = button
    BY <2>1
  <2> QED BY <2>1, <2>2
<1>5. TypeOK'
  BY <1>1, <1>2, <1>3 DEF TypeOK
<1>6. Counted'
  BY <1>1, <1>2, <1>3, CounterTypes DEF Counted
<1>7. DownsEnd'
  <2>1. ASSUME NEW i \in DOMAIN events', events'[i].kind = "down"
        PROVE  \/ events'[i].button \in down'
               \/ \E j \in DOMAIN events' : i < j /\ events'[j].kind \in {"up", "cancel"}
                                            /\ events'[j].button = events'[i].button
    <3>1. CASE i \in DOMAIN events
      <4>1. CASE \E j \in DOMAIN events : i < j /\ events[j].kind \in {"up", "cancel"}
                                          /\ events[j].button = events[i].button
        BY <1>3, <2>1, <3>1, <4>1
      <4>2. CASE events[i].button \in down
        BY <1>3, <1>4, <2>1, <3>1, <4>2
      <4> QED BY <1>1, <1>3, <2>1, <3>1, <4>1, <4>2 DEF DownsEnd
    <3>2. CASE i = last
      BY <1>4, <2>1, <3>2
    <3> QED BY <1>4, <2>1, <3>1, <3>2
  <2> QED BY <2>1 DEF DownsEnd
<1>8. RepeatsHeld'
  <2> SUFFICES ASSUME repeatingCommand' # Nil
               PROVE  \/ repeatingCommand' \in down' \cup cancelled'
                      \/ InQueue("up", repeatingCommand)'
                      \/ InQueue("cancel", repeatingCommand)'
    BY DEF RepeatsHeld
  <2>1. PICK c : c = repeatingCommand
    OBVIOUS
  <2>2. c \in down \cup cancelled \/ InQueue("up", c) \/ InQueue("cancel", c)
    BY <1>1, <1>2, <2>1 DEF RepeatsHeld
  <2>3. c \in down' \cup cancelled' \/ InQueue("up", c)' \/ InQueue("cancel", c)'
    BY <1>2, <1>3, <2>2
  <2> QED BY <1>2, <2>1, <2>3 DEF InQueue
<1>9. TimersAccounted' /\ SwallowsOncePerHold'
  BY <1>1, <1>2 DEF TimersAccounted, SwallowsOncePerHold
<1> QED BY <1>5, <1>6, <1>7, <1>8, <1>9 DEF TouchInv

\* What is common to the handlers: a command that repeats before and after is still held, when
\* the event was no end of its press.
LEMMA HandlerKeepsHeld ==
    ASSUME TouchInv, NEW kind, NEW button, Takes(kind, button), cancelled \subseteq cancelled',
           UNCHANGED repeatingCommand,
           kind \in {"up", "cancel"} => button \in cancelled' \/ repeatingCommand = Nil
    PROVE  RepeatsHeld'
<1> SUFFICES ASSUME repeatingCommand' # Nil
             PROVE  \/ repeatingCommand' \in down' \cup cancelled'
                    \/ InQueue("up", repeatingCommand)'
                    \/ InQueue("cancel", repeatingCommand)'
  BY DEF RepeatsHeld
<1>1. PICK c : c = repeatingCommand
  OBVIOUS
<1>2. /\ c \in down \cup cancelled \/ InQueue("up", c) \/ InQueue("cancel", c)
      /\ down' = down
  BY <1>1 DEF RepeatsHeld, TouchInv, Takes
<1>3. ASSUME NEW k, NEW b, InQueue(k, b) PROVE InQueue(k, b)' \/ (k = kind /\ b = button)
  <2>1. TypeOK
    BY DEF TouchInv
  <2> QED BY <1>3, <2>1, TakesKeepsInQueue
<1>4. c \in down' \cup cancelled' \/ InQueue("up", c)' \/ InQueue("cancel", c)'
  <2>1. CASE InQueue("up", c)
    BY <1>1, <1>3, <2>1
  <2>2. CASE InQueue("cancel", c)
    BY <1>1, <1>3, <2>2
  <2> QED BY <1>2, <2>1, <2>2
<1> QED BY <1>1, <1>4 DEF InQueue

\* What is common to the handlers: how many touches are counted.
LEMMA HandlerCounts ==
    ASSUME TouchInv, NEW kind, NEW button, Takes(kind, button),
           overlaps' \in Nat, holds' \in Nat, selects' \in Nat, swallowed' \in Nat,
           overlaps' + holds' + selects' + swallowed' <=
               overlaps + holds + selects + swallowed
                   + (IF kind \in {"down", "tap", "hold"} THEN 1 ELSE 0)
    PROVE  Counted' /\ {overlaps, holds, selects, swallowed}' \subseteq 0..MaxTouches
<1>1. /\ Cardinality(Unhandled') =
            Cardinality(Unhandled) - (IF kind \in {"down", "tap", "hold"} THEN 1 ELSE 0)
      /\ touches' = touches
  BY TakesFacts DEF TouchInv
<1>2. Cardinality(Unhandled') \in Nat
  <2>1. events' \in Seq(Events)
    BY TakesFacts DEF TouchInv
  <2>2. Unhandled' \in SUBSET (DOMAIN events')
    BY DEF Unhandled
  <2> QED BY <2>1, <2>2, PlacesFinite
<1>3. Counted'
  BY <1>1, <1>2, CounterTypes DEF TouchInv, Counted
<1> QED BY <1>1, <1>2, <1>3, CounterTypes, TouchesAssumption DEF TouchInv, Counted

LEMMA TimersFinite ==
    ASSUME TypeOK
    PROVE  IsFiniteSet(timers) /\ Cardinality(timers) \in Nat
<1>1. IsFiniteSet(TimerIds)
  BY FS_Interval, TouchesAssumption DEF TimerIds
<1> QED BY <1>1, FS_Subset, FS_CardinalityType DEF TypeOK

LEMMA StartStep ==
    ASSUME TouchInv, NEW button \in Directions, StartRepeatTimerWithAction(button)
    PROVE  TouchInv'
<1>1. /\ TypeOK /\ DownsEnd /\ TimersAccounted /\ SwallowsOncePerHold
      /\ Takes("down", button)
  BY DEF TouchInv, StartRepeatTimerWithAction
<1>2. /\ events' \in Seq(Events) /\ UNCHANGED <<down, touches>>
      /\ UNCHANGED <<cancelNextAction, due, cancelled, holds, selects, swallowed>>
      /\ sending' = button /\ repeatingCommand' = button
      /\ overlaps' = overlaps + (IF repeatingTimer = Nil THEN 0 ELSE 1)
  BY <1>1, TakesFacts DEF StartRepeatTimerWithAction, SendNavCommand
<1>3. PICK t \in TimerIds \ timers : repeatingTimer' = t /\ timers' = timers \cup {t}
  BY DEF StartRepeatTimerWithAction
<1>4. t # Nil /\ button # Nil
  BY NilAssumption, TouchesAssumption DEF TimerIds
<1>5. Counted' /\ {overlaps, holds, selects, swallowed}' \subseteq 0..MaxTouches
  BY <1>1, <1>2, HandlerCounts, CounterTypes
<1>6. TypeOK'
  BY <1>1, <1>2, <1>3, <1>5 DEF TypeOK, Commands
<1>7. DownsEnd'
  BY <1>1, TakesKeepsEnds
<1>8. TimersAccounted'
  <2>1. Cardinality(timers') = Cardinality(timers) + 1
    BY <1>1, <1>3, TimersFinite, FS_AddElement
  <2> QED BY <1>1, <1>2, <1>3, <1>4, <2>1, CounterTypes, TimersFinite DEF TimersAccounted
<1>9. RepeatsHeld'
  \* The finger is on the button, or the end of this press waits.
  <2>1. /\ 1 \in DOMAIN events /\ events[1].kind = "down" /\ events[1].button = button
        /\ \A i \in DOMAIN events :
              i \in Nat /\ (i # 1 => i - 1 \in DOMAIN events' /\ events'[i - 1] = events[i])
        /\ events \in Seq(Events)
    BY <1>1, TakesFacts DEF TypeOK
  <2>2. CASE button \in down
    BY <1>2, <2>2 DEF RepeatsHeld
  <2>3. CASE \E j \in DOMAIN events :
                1 < j /\ events[j].kind \in {"up", "cancel"} /\ events[j].button = button
    <3>1. PICK j \in DOMAIN events :
                1 < j /\ events[j].kind \in {"up", "cancel"} /\ events[j].button = button
      BY <2>3
    <3>2. events[j] \in Events
      BY <2>1, ElementOfSeq, LenProperties
    <3>3. events[j] = [kind |-> events[j].kind, button |-> button]
      BY <3>1, <3>2 DEF Events
    <3>4. j - 1 \in DOMAIN events' /\ events'[j - 1] = events[j]
      BY <2>1, <3>1
    <3>5. InQueue("up", button)' \/ InQueue("cancel", button)'
      BY <3>1, <3>3, <3>4 DEF InQueue
    <3> QED BY <1>2, <3>5 DEF RepeatsHeld, InQueue
  <2> QED BY <1>1, <2>1, <2>2, <2>3 DEF DownsEnd
<1>10. SwallowsOncePerHold'
  BY <1>1, <1>2 DEF SwallowsOncePerHold
<1> QED BY <1>5, <1>6, <1>7, <1>8, <1>9, <1>10 DEF TouchInv

\* Whatever button is lifted, the newest timer and the command are gone.
LEMMA UpStep ==
    ASSUME TouchInv, NEW button \in Directions, TouchUp(button)
    PROVE  TouchInv'
<1>1. /\ TypeOK /\ DownsEnd /\ TimersAccounted /\ SwallowsOncePerHold
      /\ Takes("up", button)
  BY DEF TouchInv, TouchUp
<1>2. /\ events' \in Seq(Events) /\ UNCHANGED <<down, touches>>
      /\ UNCHANGED <<sending, cancelNextAction, overlaps, holds, selects, swallowed>>
      /\ cancelled' = {}
  BY <1>1, TakesFacts DEF TouchUp
<1>3. \/ /\ repeatingTimer \in timers /\ timers' = timers \ {repeatingTimer}
         /\ due' = due \ {repeatingTimer}
         /\ repeatingTimer' = Nil /\ repeatingCommand' = Nil
      \/ /\ repeatingTimer \notin timers
         /\ UNCHANGED <<timers, due, repeatingTimer, repeatingCommand>>
  BY DEF TouchUp
<1>4. repeatingCommand' = Nil /\ repeatingTimer' = Nil
  BY <1>1, <1>3 DEF TimersAccounted
<1>5. Counted' /\ {overlaps, holds, selects, swallowed}' \subseteq 0..MaxTouches
  BY <1>1, <1>2, HandlerCounts, CounterTypes
<1>6. TypeOK'
  BY <1>1, <1>2, <1>3, <1>4, <1>5 DEF TypeOK
<1>7. DownsEnd'
  BY <1>1, TakesKeepsEnds
<1>8. TimersAccounted'
  <2>1. CASE repeatingTimer \in timers
    <3>1. Cardinality(timers') = Cardinality(timers) - 1
      BY <1>1, <1>3, <2>1, TimersFinite, FS_RemoveElement
    <3>2. repeatingTimer # Nil
      BY <1>1, <2>1, NilAssumption, TouchesAssumption DEF TypeOK, TimerIds
    <3> QED BY <1>1, <1>2, <1>4, <3>1, <3>2, CounterTypes DEF TimersAccounted
  <2>2. CASE repeatingTimer \notin timers
    BY <1>1, <1>2, <1>3, <2>2 DEF TimersAccounted
  <2> QED BY <2>1, <2>2
<1>9. RepeatsHeld' /\ SwallowsOncePerHold'
  BY <1>1, <1>2, <1>4 DEF RepeatsHeld, SwallowsOncePerHold
<1> QED BY <1>5, <1>6, <1>7, <1>8, <1>9 DEF TouchInv

\* The other handlers leave the timers alone.
LEMMA OtherHandlerStep ==
    ASSUME TouchInv,
           \/ \E b \in Directions : TouchCancelled(b)
           \/ \E b \in Taps : TapAction(b)
           \/ Choose
           \/ SelectAction
    PROVE  TouchInv'
<1>1. TypeOK /\ DownsEnd /\ TimersAccounted /\ SwallowsOncePerHold
  BY DEF TouchInv
<1>2. PICK kind, button :
         /\ Takes(kind, button) /\ cancelled \subseteq cancelled' /\ kind # "up"
         /\ kind = "cancel" => button \in cancelled'
         /\ cancelled' \subseteq Directions
  <2>1. CASE \E b \in Directions : TouchCancelled(b)
    BY <1>1, <2>1 DEF TouchCancelled, TypeOK
  <2>2. CASE \E b \in Taps : TapAction(b)
    BY <1>1, <2>2 DEF TapAction, TypeOK, history
  <2>3. CASE Choose \/ SelectAction
    BY <1>1, <2>3 DEF Choose, SelectAction, TypeOK
  <2> QED BY <2>1, <2>2, <2>3
<1>3. UNCHANGED <<repeatingCommand, repeatingTimer, timers, due, overlaps>>
  BY DEF TouchCancelled, TapAction, Choose, SelectAction, ivars, history
<1>4. /\ sending' \in Commands \cup {Nil} /\ cancelNextAction' \in BOOLEAN
      /\ holds' \in Nat /\ selects' \in Nat /\ swallowed' \in Nat
      /\ swallowed' + (IF cancelNextAction' THEN 1 ELSE 0) <= holds'
      /\ holds' + selects' + swallowed' <= holds + selects + swallowed
             + (IF kind \in {"down", "tap", "hold"} THEN 1 ELSE 0)
  <2>1. sending \in Commands \cup {Nil} /\ cancelNextAction \in BOOLEAN
    BY <1>1 DEF TypeOK
  <2>2. ASSUME NEW k, NEW b, Takes(k, b) PROVE k = kind
    <3>1. events[1].kind = k
      BY <1>1, <2>2, TakesFacts
    <3>2. events[1].kind = kind
      BY <1>1, <1>2, TakesFacts
    <3> QED BY <3>1, <3>2
  <2>3. CASE \E b \in Directions : TouchCancelled(b)
    BY <1>1, <2>1, <2>3, CounterTypes DEF TouchCancelled, ivars, SwallowsOncePerHold
  <2>4. CASE \E b \in Taps : TapAction(b)
    BY <1>1, <2>1, <2>4, CounterTypes
    DEF TapAction, ivars, history, SwallowsOncePerHold, SendNavCommand, Commands
  <2>5. CASE Choose
    <3>1. kind = "hold"
      BY <2>2, <2>5 DEF Choose
    <3> QED BY <1>1, <2>1, <2>5, <3>1, CounterTypes
            DEF Choose, SwallowsOncePerHold, SendNavCommand, Commands
  <2>6. CASE SelectAction
    <3>1. kind = "tap"
      BY <2>2, <2>6 DEF SelectAction
    <3>2. cancelNextAction' = FALSE /\ holds' = holds
      BY <2>6 DEF SelectAction
    <3>3. (IF cancelNextAction' THEN 1 ELSE 0) = 0
      BY <3>2
    <3>4. swallowed + (IF cancelNextAction THEN 1 ELSE 0) <= holds
      BY <1>1 DEF SwallowsOncePerHold
    <3>5. holds \in Nat /\ swallowed \in Nat /\ selects \in Nat
      BY <1>1, CounterTypes
    <3>6. CASE cancelNextAction
      <4>1. swallowed + 1 <= holds
        BY <3>4, <3>6
      <4>2. selects' = selects /\ swallowed' = swallowed + 1
        BY <2>6, <3>6 DEF SelectAction
      <4>3. sending' \in Commands \cup {Nil}
        BY <2>1, <2>6, <3>6 DEF SelectAction
      <4>4. /\ swallowed' \in Nat /\ selects' \in Nat /\ swallowed' + 0 <= holds
            /\ holds + selects' + swallowed' <= holds + selects + swallowed + 1
        BY <3>5, <4>1, <4>2
      <4> QED BY <3>1, <3>2, <3>3, <3>5, <4>3, <4>4
    <3>7. CASE ~cancelNextAction
      <4>1. swallowed <= holds
        BY <3>4, <3>5, <3>7
      <4>2. selects' = selects + 1 /\ swallowed' = swallowed
        BY <2>6, <3>7 DEF SelectAction
      <4>3. sending' \in Commands \cup {Nil}
        BY <2>6, <3>7 DEF SelectAction, SendNavCommand, Commands
      <4>4. /\ swallowed' \in Nat /\ selects' \in Nat /\ swallowed' + 0 <= holds
            /\ holds + selects' + swallowed' <= holds + selects + swallowed + 1
        BY <3>5, <4>1, <4>2
      <4> QED BY <3>1, <3>2, <3>3, <3>5, <4>3, <4>4
    <3> QED BY <3>6, <3>7
  <2> QED BY <2>3, <2>4, <2>5, <2>6
<1>5. events' \in Seq(Events) /\ UNCHANGED <<down, touches>>
  BY <1>1, <1>2, TakesFacts
<1>6. Counted' /\ {overlaps, holds, selects, swallowed}' \subseteq 0..MaxTouches
  BY <1>1, <1>2, <1>3, <1>4, HandlerCounts, CounterTypes
<1>7. TypeOK'
  BY <1>1, <1>2, <1>3, <1>4, <1>5, <1>6 DEF TypeOK
<1>8. DownsEnd' /\ RepeatsHeld'
  BY <1>1, <1>2, <1>3, TakesKeepsEnds, HandlerKeepsHeld
<1>9. TimersAccounted' /\ SwallowsOncePerHold'
  BY <1>1, <1>3, <1>4 DEF TimersAccounted, SwallowsOncePerHold
<1> QED BY <1>6, <1>7, <1>8, <1>9 DEF TouchInv

\* Steps of the timers and the request.
LEMMA ClockStep ==
    ASSUME TouchInv,
           UNCHANGED <<screen, ivars, timers, history>>,
           due' \subseteq timers, sending' \in Commands \cup {Nil}
    PROVE  TouchInv'
<1>1. /\ UNCHANGED <<down, events, touches, timers>>
      /\ UNCHANGED <<repeatingCommand, repeatingTimer, cancelNextAction>>
      /\ UNCHANGED <<cancelled, overlaps, holds, selects, swallowed>>
  BY DEF screen, ivars, history
<1>2. TypeOK'
  BY <1>1 DEF TouchInv, TypeOK
<1>3. Unhandled' = Unhandled /\ \A k, b : InQueue(k, b)' <=> InQueue(k, b)
  BY <1>1 DEF Unhandled, InQueue
<1>4. Counted' /\ DownsEnd'
  BY <1>1, <1>3 DEF TouchInv, Counted, DownsEnd
<1>5. RepeatsHeld' /\ TimersAccounted' /\ SwallowsOncePerHold'
  BY <1>1 DEF TouchInv, RepeatsHeld, TimersAccounted, SwallowsOncePerHold, InQueue
<1> QED BY <1>2, <1>4, <1>5 DEF TouchInv

(***************************************************************************)
(* The theorems.                                                           *)
(***************************************************************************)

LEMMA TouchInit == Init => TouchInv
<1> SUFFICES ASSUME Init PROVE TouchInv
  OBVIOUS
<1>1. DOMAIN events = {} /\ events \in Seq(Events)
  BY EmptySeq DEF Init
<1>2. Unhandled = {} /\ Cardinality(Unhandled) = 0
  BY <1>1, FS_EmptySet DEF Unhandled
<1>3. TypeOK
  <2>1. 0 \in 0..MaxTouches
    BY TouchesAssumption
  <2> QED BY <1>1, <2>1 DEF Init, TypeOK
<1>4. Counted /\ DownsEnd
  BY <1>1, <1>2 DEF Init, Counted, DownsEnd
<1>5. TimersAccounted
  BY FS_EmptySet DEF Init, TimersAccounted
<1>6. RepeatsHeld /\ SwallowsOncePerHold
  BY DEF Init, RepeatsHeld, SwallowsOncePerHold
<1> QED BY <1>3, <1>4, <1>5, <1>6 DEF TouchInv

LEMMA TouchStep == TouchInv /\ [Next]_vars => TouchInv'
<1> SUFFICES ASSUME TouchInv, [Next]_vars PROVE TouchInv'
  OBVIOUS
<1>1. ASSUME NEW b \in Directions \cup Taps \cup {"select"}, Touch(b) PROVE TouchInv'
  <2>1. PICK kind \in {"down", "tap", "hold"} :
           /\ Occurs(kind, b)
           /\ \/ kind = "down" /\ b \in Directions /\ down' = down \cup {b}
              \/ kind = "tap" /\ b \in Taps \cup {"select"} /\ down' = down
              \/ kind = "hold" /\ b = "select" /\ down' = down
    BY <1>1 DEF Touch
  <2>2. [kind |-> kind, button |-> b] \in Events
    BY <2>1 DEF Events
  <2>3. /\ touches' = touches + 1 /\ touches' \in 0..MaxTouches
        /\ UNCHANGED <<sending, ivars, timers, due, history>>
    BY <1>1, TouchesAssumption DEF Touch, TouchInv, TypeOK
  <2>4. down' \subseteq Directions
    BY <2>1 DEF TouchInv, TypeOK
  <2> QED BY <2>1, <2>2, <2>3, <2>4, FingerStep
<1>2. ASSUME NEW b \in Directions, Lift(b) \/ TakeAway(b) PROVE TouchInv'
  <2>1. PICK kind \in {"up", "cancel"} : Occurs(kind, b)
    BY <1>2 DEF Lift, TakeAway
  <2>2. [kind |-> kind, button |-> b] \in Events
    BY DEF Events
  <2>3. /\ down' = down \ {b} /\ touches' = touches
        /\ UNCHANGED <<sending, ivars, timers, due, history>>
    BY <1>2 DEF Lift, TakeAway
  <2>4. touches' = touches + (IF kind \in {"down", "tap", "hold"} THEN 1 ELSE 0)
        /\ touches' \in 0..MaxTouches /\ down' \subseteq Directions
    BY <2>3 DEF TouchInv, TypeOK
  <2> QED BY <2>1, <2>2, <2>3, <2>4, FingerStep
<1>3. ASSUME HandleEvent PROVE TouchInv'
  BY <1>3, StartStep, UpStep, OtherHandlerStep DEF HandleEvent
<1>4. CASE RequestEnds
  BY <1>4, ClockStep DEF RequestEnds, TouchInv, TypeOK
<1>5. ASSUME NEW t \in TimerIds, TimerDue(t) \/ RepeatAction(t) PROVE TouchInv'
  <2>1. UNCHANGED <<screen, ivars, timers, history>> /\ due' \subseteq timers
    BY <1>5 DEF TimerDue, RepeatAction, TouchInv, TypeOK
  <2>2. sending' \in Commands \cup {Nil}
    BY <1>5 DEF TimerDue, RepeatAction, TouchInv, TypeOK, SendNavCommand, Commands
  <2> QED BY <2>1, <2>2, ClockStep
<1>6. CASE UNCHANGED vars
  BY <1>6, ClockStep DEF vars, TouchInv, TypeOK
<1> QED BY <1>1, <1>2, <1>3, <1>4, <1>5, <1>6 DEF Next, Rest

LEMMA TouchAlways == Spec => []TouchInv
BY TouchInit, TouchStep, PTL DEF Spec

\* The variables keep their types, for all buttons and any number of touches.
THEOREM TouchTypeCorrect == Spec => []TypeOK
<1>1. TouchInv => TypeOK
  BY DEF TouchInv
<1> QED BY <1>1, TouchAlways, PTL

\* Fingers on any number of buttons, in any order, never leave a command repeating that
\* nobody presses, unless the system took the touch away.
THEOREM RepeatsHeldAlways == Spec => []RepeatsHeld
<1>1. TouchInv => RepeatsHeld
  BY DEF TouchInv
<1> QED BY <1>1, TouchAlways, PTL

\* The run loop has one timer for what repeats, and exactly one more for every press that
\* began while another repeated.
THEOREM TimersAccountedAlways == Spec => []TimersAccounted
<1>1. TouchInv => TimersAccounted
  BY DEF TouchInv
<1> QED BY <1>1, TouchAlways, PTL

\* No long press swallows two taps of select.
THEOREM SwallowsOnceAlways == Spec => []SwallowsOncePerHold
<1>1. TouchInv => SwallowsOncePerHold
  BY DEF TouchInv
<1> QED BY <1>1, TouchAlways, PTL
=============================================================================
