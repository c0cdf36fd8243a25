------------------------- MODULE RemoteHelperProofs -------------------------
(***************************************************************************)
(* Theorems about RemoteHelper, for every set of processes, of commands    *)
(* and of texts, and every value of the bounds.                            *)
(***************************************************************************)
EXTENDS RemoteHelper, QueueLemmas, SequenceTheorems, TLAPS

(***************************************************************************)
(* The two key tables.                                                     *)
(***************************************************************************)

\* The table of the press and the table of the delayed release are the same.
LEMMA TablesAgree == ReleaseTable = NavTable
BY DEF ReleaseTable, NavTable

\* So the key that is released is the key that was pressed, for every command.
LEMMA SameKey == ASSUME NEW event PROVE ReleaseKey(event) = PressKey(event)
BY TablesAgree DEF ReleaseKey, PressKey

LEMMA KeyTypes ==
    ASSUME NEW event
    PROVE  PressKey(event) \in Keys /\ ReleaseKey(event) \in Keys
<1>1. PressKey(event) \in Keys
  <2>1. CASE event \in DOMAIN NavTable
    BY <2>1 DEF PressKey, Keys
  <2>2. CASE event \notin DOMAIN NavTable
    BY <2>2 DEF PressKey, Keys
  <2> QED BY <2>1, <2>2
<1> QED BY <1>1, SameKey

LEMMA CountTypes ==
    ASSUME NEW key \in Keys
    PROVE  PressCount(key) \in Int /\ ReleaseCount(key) \in Int
BY DEF PressCount, ReleaseCount

(***************************************************************************)
(* Sequences.                                                              *)
(***************************************************************************)

\* Deleting at the end of a text leaves a text, and none of one that is short enough.
LEMMA AfterDeletesType ==
    ASSUME NEW text \in Seq(STRING)
    PROVE  /\ AfterDeletes(text) \in Seq(STRING)
           /\ Len(text) <= DeleteCount => AfterDeletes(text) = <<>>
<1>1. CASE Len(text) <= DeleteCount
  BY <1>1 DEF AfterDeletes
<1>2. CASE ~(Len(text) <= DeleteCount)
  <2>1. Len(text) \in Nat /\ DeleteCount \in Nat
    BY BoundAssumption, LenProperties
  <2>2. \A i \in 1..(Len(text) - DeleteCount) : text[i] \in STRING
    BY <2>1, ElementOfSeq
  <2>3. SubSeq(text, 1, Len(text) - DeleteCount) \in Seq(STRING)
    BY <2>1, <2>2, SubSeqProperties
  <2> QED BY <1>2, <2>3 DEF AfterDeletes
<1> QED BY <1>1, <1>2

\* Half a second later the pending calls are the same, each with a legal time left.
LEMMA TickTypes ==
    ASSUME TypeOK, Tick
    PROVE  /\ releases' \in Seq(ReleaseCalls) /\ typing' \in Seq(TextBlocks)
           /\ Len(releases') = Len(releases) /\ Len(typing') = Len(typing)
           /\ \A i \in DOMAIN releases : releases'[i].event = releases[i].event
           /\ \A i \in DOMAIN typing :
                 /\ typing'[i].into = typing[i].into /\ typing'[i].fresh = typing[i].fresh
                 /\ typing'[i].id = typing[i].id /\ typing'[i].text = typing[i].text
<1>1. /\ Len(releases) \in Nat /\ DOMAIN releases = 1..Len(releases)
      /\ Len(typing) \in Nat /\ DOMAIN typing = 1..Len(typing)
  BY LenProperties DEF TypeOK
<1>2. \A i \in DOMAIN releases : releases[i] \in ReleaseCalls
  BY ElementOfSeq, <1>1 DEF TypeOK
<1>3. \A i \in DOMAIN typing : typing[i] \in TextBlocks
  BY ElementOfSeq, <1>1 DEF TypeOK
<1>4. releases' \in [1..Len(releases) -> ReleaseCalls]
  BY <1>1, <1>2 DEF Tick, ReleaseCalls, HoldTicks
<1>5. typing' \in [1..Len(typing) -> TextBlocks]
  BY <1>1, <1>3 DEF Tick, TextBlocks, TypeTicks
<1>6. releases' \in Seq(ReleaseCalls) /\ typing' \in Seq(TextBlocks)
  BY <1>1, <1>4, <1>5, FunctionIsSeq
<1>7. Len(releases') = Len(releases) /\ Len(typing') = Len(typing)
  BY <1>1, <1>4, <1>5, <1>6, LenProperties
<1>8. \A i \in DOMAIN releases : releases'[i].event = releases[i].event
  BY <1>2 DEF Tick, ReleaseCalls
<1>9. \A i \in DOMAIN typing :
         /\ typing'[i].into = typing[i].into /\ typing'[i].fresh = typing[i].fresh
         /\ typing'[i].id = typing[i].id /\ typing'[i].text = typing[i].text
  BY <1>3 DEF Tick, TextBlocks
<1> QED BY <1>6, <1>7, <1>8, <1>9

(***************************************************************************)
(* Type correctness.                                                       *)
(***************************************************************************)

\* The head of the queue of notifications, and what is left without it.
LEMMA DeliveredTypes ==
    ASSUME TypeOK, NEW kind, Delivers(kind)
    PROVE  /\ Head(posted) \in Notifications /\ Head(posted).kind = kind
           /\ posted' \in Seq(Notifications)
BY HeadTailProperties DEF TypeOK, Delivers

LEMMA CompletedType ==
    ASSUME TypeOK, NEW kind \in Kinds, NEW id \in Ids
    PROVE  Completed(kind, id) \in [Kinds -> Seq(Ids)]
<1>1. Append(done[kind], id) \in Seq(Ids)
  BY AppendProperties DEF TypeOK
<1> QED BY <1>1 DEF TypeOK, Completed

LEMMA SeesTypes ==
    ASSUME TypeOK, NEW key \in Keys, SeesPress(key) \/ SeesRelease(key)
    PROVE  isDown' \in [Apps -> SUBSET Keys] /\ stranded' \subseteq Apps \X Keys
BY DEF TypeOK, SeesPress, SeesRelease

\* What a navigation command does, by whether it is a hold.
LEMMA NavigationCases ==
    ASSUME HandleNavigationNotification,
           NEW event, event = Head(posted).event, NEW key, key = PressKey(event)
    PROVE  \/ /\ event \in HoldEvents
              /\ SeesPress(key)
              /\ net' = [net EXCEPT ![key] = @ + PressCount(key)]
              /\ releases' = Append(releases, [event |-> event, left |-> HoldTicks])
           \/ SeesRelease(key) /\ net' = net /\ releases' = releases
BY Zenon DEF HandleNavigationNotification, ReleaseScheduled

\* One step per action: each keeps every variable in its type.
LEMMA TypeStep == TypeOK /\ [Next]_vars => TypeOK'
<1> SUFFICES ASSUME TypeOK, [Next]_vars PROVE TypeOK'
  OBVIOUS
<1> USE BoundAssumption
<1>1. CASE RegisterObservers \/ StartItUp
  BY <1>1 DEF TypeOK, RegisterObservers, StartItUp, outside, history
<1>2. ASSUME NEW note \in Notifications, Post(note) PROVE TypeOK'
  <2>1. posted' \in Seq(Notifications)
    BY <1>2, AppendProperties DEF TypeOK, Post
  <2> QED BY <1>2, <2>1 DEF TypeOK, Post, outside
<1>3. CASE \E event \in NavEvents : HandleRemoteEvent(event)
  <2>1. PICK event \in NavEvents : HandleRemoteEvent(event)
    BY <1>3
  <2>2. posts + 1 \in Ids
    BY <2>1 DEF HandleRemoteEvent, Post, TypeOK, Ids
  <2>3. [kind |-> "nav", id |-> posts + 1, event |-> event] \in Notifications
    BY <2>2 DEF Notifications
  <2> QED BY <1>2, <2>1, <2>3 DEF HandleRemoteEvent
<1>4. CASE \E text \in Texts : EnterText(text) \/ AppendText(text)
  <2>1. PICK text \in Texts : EnterText(text) \/ AppendText(text)
    BY <1>4
  <2>2. posts + 1 \in Ids
    BY <2>1 DEF EnterText, AppendText, Post, TypeOK, Ids
  <2>3. ASSUME NEW clear \in BOOLEAN
        PROVE  [kind |-> "text", id |-> posts + 1, text |-> text, clear |-> clear]
                   \in Notifications
    BY <2>2 DEF Notifications
  <2> QED BY <1>2, <2>1, <2>3 DEF EnterText, AppendText
<1>5. CASE \E command \in HelperCommands : SendHelperCommand(command)
  <2>1. PICK command \in HelperCommands : SendHelperCommand(command)
    BY <1>5
  <2>2. posts + 1 \in Ids
    BY <2>1 DEF SendHelperCommand, Post, TypeOK, Ids
  <2>3. [kind |-> "helper", id |-> posts + 1, command |-> command] \in Notifications
    BY <2>2 DEF Notifications
  <2> QED BY <1>2, <2>1, <2>3 DEF SendHelperCommand
<1>6. CASE HandleNavigationNotification
  <2> DEFINE note == Head(posted)
             key  == PressKey(note.event)
  <2>1. note \in Notifications /\ note.kind = "nav" /\ posted' \in Seq(Notifications)
    BY <1>6, DeliveredTypes DEF HandleNavigationNotification
  <2>2. note.event \in NavEvents /\ note.id \in Ids
    BY <2>1 DEF Notifications
  <2>3. key \in Keys /\ PressCount(key) \in Int
    BY KeyTypes, CountTypes
  <2>7. done' \in [Kinds -> Seq(Ids)]
    BY <1>6, <2>2, CompletedType DEF HandleNavigationNotification, Kinds
  <2>4. \/ /\ SeesPress(key)
           /\ net' = [net EXCEPT ![key] = @ + PressCount(key)]
           /\ releases' = Append(releases, [event |-> note.event, left |-> HoldTicks])
        \/ SeesRelease(key) /\ net' = net /\ releases' = releases
    BY <1>6, NavigationCases
  <2>5. releases' \in Seq(ReleaseCalls)
    <3>1. [event |-> note.event, left |-> HoldTicks] \in ReleaseCalls
      BY <2>2 DEF ReleaseCalls, HoldTicks
    <3>2. releases \in Seq(ReleaseCalls)
      BY DEF TypeOK
    <3>3. Append(releases, [event |-> note.event, left |-> HoldTicks]) \in Seq(ReleaseCalls)
      BY <3>1, <3>2, AppendProperties
    <3> QED BY <2>4, <3>2, <3>3
  <2>6. net' \in [Keys -> Int]
    <3>1. net \in [Keys -> Int]
      BY DEF TypeOK
    <3> HIDE DEF key
    <3> QED BY <2>4, <2>3, <3>1
  <2>8. isDown' \in [Apps -> SUBSET Keys] /\ stranded' \subseteq Apps \X Keys
    BY <2>4, <2>3, SeesTypes
  <2> QED BY <1>6, <2>1, <2>5, <2>6, <2>7, <2>8 DEF TypeOK, HandleNavigationNotification
<1>7. CASE DelayedRelease
  <2> DEFINE key == ReleaseKey(Head(releases).event)
  <2>1. key \in Keys /\ ReleaseCount(key) \in Int
    BY KeyTypes, CountTypes
  <2>2. releases' \in Seq(ReleaseCalls)
    BY <1>7, HeadTailProperties DEF TypeOK, DelayedRelease
  <2>3. net' \in [Keys -> Int]
    <3>1. net[key] - ReleaseCount(key) \in Int
      BY <2>1 DEF TypeOK
    <3> QED BY <1>7, <3>1 DEF TypeOK, DelayedRelease
  <2>4. isDown' \in [Apps -> SUBSET Keys] /\ stranded' \subseteq Apps \X Keys
    BY <1>7, <2>1 DEF TypeOK, DelayedRelease, SeesRelease
  <2> QED BY <1>7, <2>2, <2>3, <2>4 DEF TypeOK, DelayedRelease
<1>8. CASE IOHIDTest
  <2> DEFINE note == Head(posted)
             fresh == note.clear /\ typing = <<>> /\ Len(field[focus]) <= DeleteCount
             block == [id |-> note.id, text |-> note.text, left |-> TypeTicks,
                       clear |-> note.clear, into |-> focus, fresh |-> fresh]
  <2>1. note \in Notifications /\ note.kind = "text" /\ posted' \in Seq(Notifications)
    BY <1>8, DeliveredTypes DEF IOHIDTest
  <2>2. note.id \in Ids /\ note.text \in Texts /\ note.clear \in BOOLEAN
    BY <2>1 DEF Notifications
  <2>3. field' \in [Apps -> Seq(STRING)]
    <3>1. AfterDeletes(field[focus]) \in Seq(STRING)
      BY AfterDeletesType DEF TypeOK
    <3> QED BY <1>8, <3>1 DEF TypeOK, IOHIDTest
  <2>4. typing' \in Seq(TextBlocks)
    <3>1. fresh \in BOOLEAN
      BY Zenon, <2>2
    <3>2. block \in TextBlocks
      BY <2>2, <3>1 DEF TextBlocks, TypeTicks, TypeOK
    <3>3. typing' = Append(typing, block)
      BY <1>8 DEF IOHIDTest
    <3> QED BY <3>2, <3>3, AppendProperties DEF TypeOK
  <2> QED BY <1>8, <2>1, <2>3, <2>4 DEF TypeOK, IOHIDTest, history
<1>9. CASE TypeText
  <2>1. Head(typing) \in TextBlocks /\ typing' \in Seq(TextBlocks)
    BY <1>9, HeadTailProperties DEF TypeOK, TypeText
  <2>2. Head(typing).id \in Ids /\ Head(typing).text \in Seq(STRING)
    BY <2>1, TextAssumption DEF TextBlocks
  <2>3. field' \in [Apps -> Seq(STRING)]
    <3>1. field[focus] \o Head(typing).text \in Seq(STRING)
      BY <2>2, ConcatProperties DEF TypeOK
    <3> QED BY <1>9, <3>1 DEF TypeOK, TypeText
  <2>4. done' \in [Kinds -> Seq(Ids)]
    BY <1>9, <2>2, CompletedType DEF TypeText, Kinds
  <2> QED BY <1>9, <2>1, <2>3, <2>4 DEF TypeOK, TypeText
<1>10. CASE HandleHelperNotification
  <2> DEFINE note == Head(posted)
  <2>1. note \in Notifications /\ note.kind = "helper" /\ posted' \in Seq(Notifications)
    BY <1>10, DeliveredTypes DEF HandleHelperNotification
  <2>2. note.id \in Ids /\ note.command \in HelperCommands
    BY <2>1 DEF Notifications
  <2>3. done' \in [Kinds -> Seq(Ids)]
    BY <1>10, <2>2, CompletedType DEF HandleHelperNotification, Kinds
  <2> QED BY <1>10, <2>1, <2>2, <2>3 DEF TypeOK, HandleHelperNotification
<1>11. CASE Tick
  BY <1>11, TickTypes DEF TypeOK, Tick, outside, history
<1>12. ASSUME NEW app \in Apps, FocusOn(app)
       PROVE  focus' \in Apps /\ stranded' \subseteq Apps \X Keys
  BY <1>12 DEF TypeOK, FocusOn
<1>13. CASE \E app \in Apps : ChangeFocus(app)
  BY <1>12, <1>13 DEF TypeOK, ChangeFocus, pineBoard
<1>14. ASSUME NEW survivors \in SUBSET Apps, PineBoardEnds(survivors) PROVE TypeOK'
  <2>1. posted' = <<>> /\ releases' = <<>> /\ typing' = <<>>
    BY <1>14 DEF PineBoardEnds
  <2>2. posted' \in Seq(Notifications) /\ releases' \in Seq(ReleaseCalls)
            /\ typing' \in Seq(TextBlocks)
    BY <2>1, EmptySeq
  <2>3. field' \in [Apps -> Seq(STRING)] /\ isDown' \in [Apps -> SUBSET Keys]
    BY <1>14, EmptySeq DEF TypeOK, PineBoardEnds
  <2>4. /\ phase' = "down" /\ focus' \in Apps /\ system' = {}
        /\ net' = [k \in Keys |-> 0]
        /\ stranded' \subseteq Apps \X Keys
        /\ restarts' \in 0..MaxRestarts
        /\ UNCHANGED <<done, posts, moves>>
    BY <1>14 DEF TypeOK, PineBoardEnds
  <2>5. /\ posts' \in 0..MaxPosts /\ moves' \in 0..MaxFocusChanges
        /\ done' \in [Kinds -> Seq(Ids)]
    BY <2>4 DEF TypeOK
  <2>6. net' \in [Keys -> Int]
    BY <2>4
  <2> QED BY <2>2, <2>3, <2>4, <2>5, <2>6 DEF TypeOK
<1>15. CASE PostWithoutValue \/ ServeReboot
  BY <1>14, <1>15 DEF PostWithoutValue, ServeReboot
<1>16. CASE \E command \in HelperCommands, app \in Apps : ServeTakeover(command, app)
  BY <1>12, <1>16 DEF TypeOK, ServeTakeover, pineBoard
<1>17. CASE UNCHANGED vars
  BY <1>17 DEF TypeOK, vars, pineBoard, outside, history
<1> QED
  BY <1>1, <1>3, <1>4, <1>5, <1>6, <1>7, <1>8, <1>9, <1>10, <1>11, <1>13, <1>15, <1>16, <1>17
  DEF Next, Quiet

LEMMA TypeInit == Init => TypeOK
BY BoundAssumption, EmptySeq DEF Init, TypeOK

\* The variables keep their types, for every value of the constants.
THEOREM TypeCorrect == Spec => []TypeOK
BY TypeInit, TypeStep, PTL DEF Spec

(***************************************************************************)
(* No key stays down.  NoStuckKey is inductive relative to TypeOK: what    *)
(* makes it so is that the two tables agree (SameKey), that a timer is set *)
(* with every press, and that a move of the focus strands every key the    *)
(* process had down.                                                       *)
(***************************************************************************)

\* Setting a timer adds a pending release of its key and keeps the others.
LEMMA AppendPending ==
    ASSUME TypeOK, NEW call \in ReleaseCalls, releases' = Append(releases, call)
    PROVE  /\ \A k : PendingReleases(k) # {} => PendingReleases(k)' # {}
           /\ PendingReleases(ReleaseKey(call.event))' # {}
<1>1. releases \in Seq(ReleaseCalls)
  BY DEF TypeOK
<1>2. /\ DOMAIN releases = 1..Len(releases) /\ Len(releases) \in Nat
      /\ releases' \in Seq(ReleaseCalls)
      /\ Len(releases') = Len(releases) + 1
      /\ \A i \in 1..Len(releases) : releases'[i] = releases[i]
      /\ releases'[Len(releases) + 1] = call
  BY <1>1, LenProperties, AppendProperties
<1>3. DOMAIN releases' = 1..(Len(releases) + 1)
  BY <1>2, LenProperties
<1>4. \A k : PendingReleases(k) # {} => PendingReleases(k)' # {}
  BY <1>2, <1>3 DEF PendingReleases
<1>5. PendingReleases(ReleaseKey(call.event))' # {}
  BY <1>2, <1>3 DEF PendingReleases
<1> QED BY <1>4, <1>5

\* Running the oldest timer keeps the pending releases of every other key.
LEMMA TailPending ==
    ASSUME TypeOK, releases # <<>>, releases' = Tail(releases),
           NEW k, k # ReleaseKey(Head(releases).event), PendingReleases(k) # {}
    PROVE  PendingReleases(k)' # {}
<1>1. releases \in Seq(ReleaseCalls)
  BY DEF TypeOK
<1>2. /\ DOMAIN releases = 1..Len(releases) /\ Len(releases) \in Nat
      /\ releases' \in Seq(ReleaseCalls)
      /\ Len(releases') = Len(releases) - 1
      /\ \A i \in 1..Len(releases') : releases'[i] = releases[i + 1]
  BY <1>1, LenProperties, HeadTailProperties
<1>3. DOMAIN releases' = 1..(Len(releases) - 1)
  BY <1>2, LenProperties
<1>4. PICK i \in 1..Len(releases) : ReleaseKey(releases[i].event) = k
  BY <1>2 DEF PendingReleases
<1>5. i # 1
  BY <1>1, <1>4
<1>6. i - 1 \in DOMAIN releases' /\ releases'[i - 1] = releases[i]
  BY <1>2, <1>3, <1>4, <1>5
<1> QED BY <1>4, <1>6 DEF PendingReleases

\* Time passing changes no pending release.
LEMMA TickPending ==
    ASSUME TypeOK, Tick, NEW k, PendingReleases(k) # {}
    PROVE  PendingReleases(k)' # {}
<1>1. releases \in Seq(ReleaseCalls) /\ releases' \in Seq(ReleaseCalls)
          /\ Len(releases') = Len(releases)
          /\ \A i \in DOMAIN releases : releases'[i].event = releases[i].event
  BY TickTypes DEF TypeOK
<1>2. DOMAIN releases' = DOMAIN releases
  BY <1>1, LenProperties
<1> QED BY <1>1, <1>2 DEF PendingReleases

LEMMA NoStuckKeyStep == TypeOK /\ NoStuckKey /\ [Next]_vars => NoStuckKey'
<1> SUFFICES ASSUME TypeOK, NoStuckKey, [Next]_vars,
                    NEW a \in Apps, NEW k \in isDown'[a],
                    <<a, k>> \notin stranded'
             PROVE  a = focus' /\ PendingReleases(k)' # {}
  BY DEF NoStuckKey
<1>0. ASSUME UNCHANGED <<releases, focus, isDown, stranded>>
      PROVE  a = focus' /\ PendingReleases(k)' # {}
  BY <1>0 DEF NoStuckKey, PendingReleases
<1>1. CASE RegisterObservers \/ StartItUp
  BY <1>0, <1>1 DEF RegisterObservers, StartItUp, outside, history
<1>2. ASSUME NEW note, Post(note) PROVE a = focus' /\ PendingReleases(k)' # {}
  BY <1>0, <1>2 DEF Post, outside
<1>3. CASE \/ \E event \in NavEvents : HandleRemoteEvent(event)
           \/ \E text \in Texts : EnterText(text)
           \/ \E text \in Texts : AppendText(text)
           \/ \E command \in HelperCommands : SendHelperCommand(command)
  BY <1>2, <1>3 DEF HandleRemoteEvent, EnterText, AppendText, SendHelperCommand
<1>4. CASE HandleNavigationNotification
  <2> DEFINE event == Head(posted).event
             key   == PressKey(event)
             call  == [event |-> event, left |-> HoldTicks]
  <2>1. focus' = focus
    BY <1>4 DEF HandleNavigationNotification
  <2>2. \/ SeesPress(key) /\ releases' = Append(releases, call)
        \/ SeesRelease(key) /\ releases' = releases
    BY <1>4, NavigationCases
  <2>3. call \in ReleaseCalls
    <3>1. Head(posted) \in Notifications /\ Head(posted).kind = "nav"
      BY <1>4, DeliveredTypes DEF HandleNavigationNotification
    <3>2. event \in NavEvents
      BY <3>1 DEF Notifications
    <3> QED BY <3>2 DEF ReleaseCalls, HoldTicks
  <2>4. ReleaseKey(call.event) = key
    BY SameKey
  <2> HIDE DEF event, key, call
  <2>5. CASE SeesPress(key) /\ releases' = Append(releases, call)
    <3>1. CASE a = focus /\ k = key
      BY <2>1, <2>3, <2>4, <2>5, <3>1, AppendPending
    <3>2. CASE ~(a = focus /\ k = key)
      <4>1. k \in isDown[a] /\ <<a, k>> \notin stranded
        BY <2>5, <3>2 DEF SeesPress, TypeOK
      <4>2. a = focus /\ PendingReleases(k) # {}
        BY <4>1 DEF NoStuckKey
      <4> QED BY <2>1, <2>3, <2>5, <4>2, AppendPending
    <3> QED BY <3>1, <3>2
  <2>6. CASE SeesRelease(key) /\ releases' = releases
    <3>1. k \in isDown[a] /\ <<a, k>> \notin stranded
      BY <2>6 DEF SeesRelease, TypeOK
    <3> QED BY <2>1, <2>6, <3>1 DEF NoStuckKey, PendingReleases
  <2> QED BY <2>2, <2>5, <2>6
<1>5. CASE DelayedRelease
  <2> DEFINE key == ReleaseKey(Head(releases).event)
  <2>1. SeesRelease(key) /\ releases # <<>> /\ releases' = Tail(releases) /\ focus' = focus
    BY <1>5 DEF DelayedRelease
  <2> HIDE DEF key
  <2>2. k \in isDown[a] /\ <<a, k>> \notin stranded /\ ~(a = focus /\ k = key)
    BY <2>1 DEF SeesRelease, TypeOK
  <2>3. a = focus /\ PendingReleases(k) # {}
    BY <2>2 DEF NoStuckKey
  <2> QED BY <2>1, <2>2, <2>3, TailPending DEF key
<1>6. CASE IOHIDTest
  BY <1>0, <1>6 DEF IOHIDTest, history
<1>7. CASE TypeText
  BY <1>0, <1>7 DEF TypeText
<1>8. CASE HandleHelperNotification
  BY <1>0, <1>8 DEF HandleHelperNotification
<1>9. CASE Tick
  <2>1. UNCHANGED <<focus, isDown, stranded>>
    BY <1>9 DEF Tick, outside, history
  <2>2. a = focus /\ PendingReleases(k) # {}
    BY <2>1 DEF NoStuckKey
  <2> QED BY <1>9, <2>1, <2>2, TickPending
<1>10. ASSUME NEW app \in Apps, FocusOn(app), isDown' = isDown
       PROVE  FALSE
  <2>1. k \in isDown[a] /\ <<a, k>> \notin stranded /\ a # focus
    BY <1>10 DEF FocusOn
  <2> QED BY <2>1 DEF NoStuckKey
<1>11. CASE \/ \E app \in Apps : ChangeFocus(app)
            \/ \E command \in HelperCommands, app \in Apps : ServeTakeover(command, app)
  BY <1>10, <1>11 DEF ChangeFocus, ServeTakeover
<1>12. ASSUME NEW survivors \in SUBSET Apps, PineBoardEnds(survivors) PROVE FALSE
  <2>1. a \in survivors /\ k \in isDown[a]
    BY <1>12 DEF PineBoardEnds
  <2>2. k \in Keys
    BY <2>1 DEF TypeOK
  <2> QED BY <1>12, <2>1, <2>2 DEF PineBoardEnds
<1>13. CASE PostWithoutValue \/ ServeReboot
  BY <1>12, <1>13 DEF PostWithoutValue, ServeReboot
<1>14. CASE UNCHANGED vars
  BY <1>0, <1>14 DEF vars, pineBoard, outside, history
<1> QED
  BY <1>1, <1>3, <1>4, <1>5, <1>6, <1>7, <1>8, <1>9, <1>11, <1>13, <1>14 DEF Next, Quiet

\* Whatever is sent and however slow the timers are, a process believes a key to be down
\* only while its release is pending, or because the focus moved away, or PineBoard ended,
\* in the middle of a hold.
THEOREM KeysComeUp == Spec => []NoStuckKey
<1>1. Init => NoStuckKey
  BY DEF Init, NoStuckKey
<1> QED BY <1>1, TypeInit, TypeStep, NoStuckKeyStep, PTL DEF Spec

(***************************************************************************)
(* What was sent down and not up is what the timers will send up.  The     *)
(* proof counts: a hold adds its press count and one pending release of    *)
(* its key, a release takes both away, and each other step changes neither *)
(* the counts nor the timers.                                              *)
(***************************************************************************)

Balanced(k) == net[k] = PressCount(k) * Cardinality(PendingReleases(k))

LEMMA PendingFinite ==
    ASSUME TypeOK, NEW k
    PROVE  /\ PendingReleases(k) \subseteq DOMAIN releases
           /\ Cardinality(PendingReleases(k)) \in Nat
<1>1. PendingReleases(k) \in SUBSET (DOMAIN releases) /\ releases \in Seq(ReleaseCalls)
  BY DEF PendingReleases, TypeOK
<1> QED BY <1>1, PlacesFinite

\* A hold adds one pending release, of its key.
LEMMA AppendBalance ==
    ASSUME TypeOK, NEW call \in ReleaseCalls, releases' = Append(releases, call), NEW k
    PROVE  Cardinality(PendingReleases(k)') =
              IF k = ReleaseKey(call.event) THEN Cardinality(PendingReleases(k)) + 1
              ELSE Cardinality(PendingReleases(k))
<1> DEFINE n == Len(releases)
<1>1. /\ n \in Nat /\ DOMAIN releases = 1..n /\ DOMAIN releases' = 1..(n + 1)
      /\ \A i \in DOMAIN releases : releases'[i] = releases[i]
      /\ releases'[n + 1] = call
  BY AppendIndex DEF TypeOK
<1> HIDE DEF n
<1>2. PendingReleases(k)' =
         IF k = ReleaseKey(call.event) THEN PendingReleases(k) \cup {n + 1}
         ELSE PendingReleases(k)
  BY <1>1 DEF PendingReleases
<1>3. Cardinality(PendingReleases(k) \cup {n + 1}) = Cardinality(PendingReleases(k)) + 1
  BY PendingFinite, AppendCount DEF n, TypeOK
<1> QED BY <1>2, <1>3

\* A delayed release takes one away.
LEMMA TailBalance ==
    ASSUME TypeOK, releases # <<>>, releases' = Tail(releases), NEW k
    PROVE  Cardinality(PendingReleases(k)') =
              IF k = ReleaseKey(Head(releases).event) THEN Cardinality(PendingReleases(k)) - 1
              ELSE Cardinality(PendingReleases(k))
<1>1. /\ releases \in Seq(ReleaseCalls)
      /\ 1 \in DOMAIN releases /\ Head(releases) = releases[1]
      /\ \A i \in DOMAIN Tail(releases) :
            i + 1 \in DOMAIN releases /\ Tail(releases)[i] = releases[i + 1]
  BY TailIndex DEF TypeOK
<1>2. PendingReleases(k)' = {i \in DOMAIN Tail(releases) : i + 1 \in PendingReleases(k)}
  BY <1>1 DEF PendingReleases
<1>3. 1 \in PendingReleases(k) <=> k = ReleaseKey(Head(releases).event)
  BY <1>1 DEF PendingReleases
<1>4. Cardinality(PendingReleases(k)') =
         IF 1 \in PendingReleases(k) THEN Cardinality(PendingReleases(k)) - 1
         ELSE Cardinality(PendingReleases(k))
  BY <1>1, <1>2, PendingFinite, TailCount
<1> QED BY <1>3, <1>4

LEMMA BalanceStep == TypeOK /\ PressBalance /\ [Next]_vars => PressBalance'
<1> SUFFICES ASSUME TypeOK, PressBalance, [Next]_vars, NEW k \in Keys
             PROVE  Balanced(k)'
  BY DEF PressBalance, Balanced
<1>b. /\ net[k] \in Int /\ Cardinality(PendingReleases(k)) \in Nat
      /\ net[k] = PressCount(k) * Cardinality(PendingReleases(k))
      /\ PressCount(k) \in {2, 8} /\ ReleaseCount(k) = PressCount(k)
  BY PendingFinite DEF PressBalance, TypeOK, PressCount, ReleaseCount
<1>0. ASSUME UNCHANGED <<releases, net>> PROVE Balanced(k)'
  BY <1>0, <1>b DEF Balanced, PendingReleases
<1>1. CASE RegisterObservers \/ StartItUp
  BY <1>0, <1>1 DEF RegisterObservers, StartItUp, history
<1>2. ASSUME NEW note, Post(note) PROVE Balanced(k)'
  BY <1>0, <1>2 DEF Post
<1>3. CASE \/ \E event \in NavEvents : HandleRemoteEvent(event)
           \/ \E text \in Texts : EnterText(text)
           \/ \E text \in Texts : AppendText(text)
           \/ \E command \in HelperCommands : SendHelperCommand(command)
  BY <1>2, <1>3 DEF HandleRemoteEvent, EnterText, AppendText, SendHelperCommand
<1>4. CASE HandleNavigationNotification
  <2>1. PICK event : event = Head(posted).event
    OBVIOUS
  <2> DEFINE key  == PressKey(event)
             call == [event |-> event, left |-> HoldTicks]
  <2>2. \/ /\ net' = [net EXCEPT ![key] = @ + PressCount(key)]
           /\ releases' = Append(releases, call)
        \/ UNCHANGED <<net, releases>>
    BY <1>4, <2>1, NavigationCases
  <2>3. call \in ReleaseCalls
    <3>1. Head(posted) \in Notifications /\ Head(posted).kind = "nav"
      BY <1>4, DeliveredTypes DEF HandleNavigationNotification
    <3>2. event \in NavEvents
      BY <2>1, <3>1 DEF Notifications
    <3> QED BY <3>2 DEF ReleaseCalls, HoldTicks
  <2>4. ReleaseKey(call.event) = key
    BY SameKey
  <2> HIDE DEF key, call
  <2>5. ASSUME net' = [net EXCEPT ![key] = @ + PressCount(key)],
               releases' = Append(releases, call)
        PROVE  Balanced(k)'
    <3>1. net'[k] = IF k = key THEN net[k] + PressCount(k) ELSE net[k]
      BY <2>5 DEF TypeOK
    <3>2. Cardinality(PendingReleases(k)') =
             IF k = key THEN Cardinality(PendingReleases(k)) + 1
             ELSE Cardinality(PendingReleases(k))
      BY <2>3, <2>4, <2>5, AppendBalance
    <3>3. net'[k] = PressCount(k) * Cardinality(PendingReleases(k)')
      BY <1>b, <3>1, <3>2
    <3> QED BY <3>3 DEF Balanced
  <2> QED BY <1>0, <2>2, <2>5
<1>5. CASE DelayedRelease
  <2>1. PICK key : key = ReleaseKey(Head(releases).event)
    OBVIOUS
  <2>2. /\ releases # <<>> /\ releases' = Tail(releases)
        /\ net' = [net EXCEPT ![key] = @ - ReleaseCount(key)]
    BY <1>5, <2>1 DEF DelayedRelease
  <2>3. net'[k] = IF k = key THEN net[k] - PressCount(k) ELSE net[k]
    BY <1>b, <2>2 DEF TypeOK
  <2>4. Cardinality(PendingReleases(k)') =
           IF k = key THEN Cardinality(PendingReleases(k)) - 1
           ELSE Cardinality(PendingReleases(k))
    BY <2>1, <2>2, TailBalance
  <2>5. net'[k] = PressCount(k) * Cardinality(PendingReleases(k)')
    BY <1>b, <2>3, <2>4
  <2> QED BY <2>5 DEF Balanced
<1>6. CASE IOHIDTest
  BY <1>0, <1>6 DEF IOHIDTest, history
<1>7. CASE TypeText
  BY <1>0, <1>7 DEF TypeText
<1>8. CASE HandleHelperNotification
  BY <1>0, <1>8 DEF HandleHelperNotification
<1>9. CASE Tick
  <2>1. /\ DOMAIN releases' = DOMAIN releases
        /\ \A i \in DOMAIN releases : releases'[i].event = releases[i].event
    BY <1>9, TickTypes DEF Tick
  <2>2. PendingReleases(k)' = PendingReleases(k)
    BY <2>1 DEF PendingReleases
  <2>3. net' = net
    BY <1>9 DEF Tick, history
  <2> QED BY <1>b, <2>2, <2>3 DEF Balanced
<1>10. CASE \/ \E app \in Apps : ChangeFocus(app)
            \/ \E command \in HelperCommands, app \in Apps : ServeTakeover(command, app)
  BY <1>0, <1>10 DEF ChangeFocus, ServeTakeover, pineBoard
<1>11. ASSUME NEW survivors \in SUBSET Apps, PineBoardEnds(survivors) PROVE Balanced(k)'
  <2>1. net'[k] = 0 /\ releases' = <<>>
    BY <1>11 DEF PineBoardEnds
  <2>2. PendingReleases(k)' = {}
    BY <2>1 DEF PendingReleases
  <2>3. Cardinality(PendingReleases(k)') = 0
    BY <2>2, FS_EmptySet
  <2>4. net'[k] = PressCount(k) * Cardinality(PendingReleases(k)')
    BY <1>b, <2>1, <2>3
  <2> QED BY <2>4 DEF Balanced
<1>12. CASE PostWithoutValue \/ ServeReboot
  BY <1>11, <1>12 DEF PostWithoutValue, ServeReboot
<1>13. CASE UNCHANGED vars
  BY <1>0, <1>13 DEF vars, pineBoard, history
<1> QED
  BY <1>1, <1>3, <1>4, <1>5, <1>6, <1>7, <1>8, <1>9, <1>10, <1>12, <1>13 DEF Next, Quiet

\* What PineBoard has sent down and not up is exactly what its timers will send up, for every
\* key and however many holds of it overlap.
THEOREM PressesBalance == Spec => []PressBalance
<1>1. Init => PressBalance
  <2> SUFFICES ASSUME Init, NEW k \in Keys
               PROVE  net[k] = PressCount(k) * Cardinality(PendingReleases(k))
    BY DEF PressBalance
  <2>1. net[k] = 0 /\ PendingReleases(k) = {}
    BY DEF Init, PendingReleases
  <2>2. Cardinality(PendingReleases(k)) = 0
    BY <2>1, FS_EmptySet
  <2> QED BY <2>1, <2>2 DEF PressCount
<1> QED BY <1>1, TypeInit, TypeStep, BalanceStep, PTL DEF Spec

(***************************************************************************)
(* A text entered on its own replaces the old one.                         *)
(***************************************************************************)

LEMMA FreshStep == TypeOK /\ FreshEntryIsClean /\ [Next]_vars => FreshEntryIsClean'
<1> SUFFICES ASSUME TypeOK, FreshEntryIsClean, [Next]_vars
             PROVE  FreshEntryIsClean'
  OBVIOUS
<1>0. CASE UNCHANGED <<typing, field>>
  BY <1>0 DEF FreshEntryIsClean
<1>1. ASSUME NEW note, Post(note) PROVE UNCHANGED <<typing, field>>
  BY <1>1 DEF Post, outside
<1>2. CASE IOHIDTest
  <2> DEFINE note == Head(posted)
             fresh == note.clear /\ typing = <<>> /\ Len(field[focus]) <= DeleteCount
             block == [id |-> note.id, text |-> note.text, left |-> TypeTicks,
                       clear |-> note.clear, into |-> focus, fresh |-> fresh]
  <2>1. typing' = Append(typing, block)
    BY <1>2 DEF IOHIDTest
  <2>2. field' = IF note.clear THEN [field EXCEPT ![focus] = AfterDeletes(@)] ELSE field
    BY <1>2 DEF IOHIDTest
  <2>3. /\ typing \in Seq(TextBlocks) /\ field \in [Apps -> Seq(STRING)] /\ focus \in Apps
    BY DEF TypeOK
  <2>4. block \in TextBlocks
    <3>1. note \in Notifications /\ note.kind = "text"
      BY <1>2, DeliveredTypes DEF IOHIDTest
    <3>2. note.id \in Ids /\ note.text \in Texts /\ note.clear \in BOOLEAN
      BY <3>1 DEF Notifications
    <3>3. fresh \in BOOLEAN
      BY Zenon, <3>2
    <3> QED BY <2>3, <3>2, <3>3 DEF TextBlocks, TypeTicks
  <2>5. /\ DOMAIN typing = 1..Len(typing) /\ Len(typing) \in Nat
        /\ DOMAIN typing' = 1..(Len(typing) + 1)
        /\ \A i \in 1..Len(typing) : typing'[i] = typing[i]
        /\ typing'[Len(typing) + 1] = block
    BY <2>1, <2>3, <2>4, LenProperties, AppendProperties
  <2>6. ASSUME NEW app \in Apps, field[app] = <<>> PROVE field'[app] = <<>>
    <3>1. Len(field[app]) <= DeleteCount
      BY <2>6, BoundAssumption
    <3> QED BY <2>2, <2>3, <2>6, <3>1, AfterDeletesType
  <2>7. ASSUME NEW i \in DOMAIN typing', typing'[i].fresh
        PROVE  i = 1 /\ field'[typing'[i].into] = <<>>
    <3>1. CASE i \in 1..Len(typing)
      <4>1. typing[i] \in TextBlocks
        BY <2>3, <3>1, ElementOfSeq
      <4> QED BY <2>5, <2>6, <2>7, <3>1, <4>1 DEF FreshEntryIsClean, TextBlocks
    <3>2. CASE i = Len(typing) + 1
      <4>4. typing'[i] = block
        BY <2>5, <3>2
      <4>5. block.into = focus /\ block.fresh = fresh
        BY Zenon
      <4>1. fresh /\ typing'[i].into = focus
        BY Zenon, <2>7, <4>4, <4>5
      <4>2. i = 1
        BY <3>2, <4>1, EmptySeq
      <4>3. field'[focus] = <<>>
        BY <2>2, <2>3, <4>1, AfterDeletesType
      <4> QED BY <4>1, <4>2, <4>3
    <3> QED BY <2>5, <2>7, <3>1, <3>2
  <2> QED BY <2>7 DEF FreshEntryIsClean
<1>3. CASE TypeText
  <2>1. typing \in Seq(TextBlocks) /\ typing # <<>> /\ typing' = Tail(typing)
    BY <1>3 DEF TypeOK, TypeText
  <2>2. /\ DOMAIN typing = 1..Len(typing) /\ Len(typing) \in Nat
        /\ DOMAIN typing' = 1..(Len(typing) - 1)
        /\ \A i \in 1..(Len(typing) - 1) : typing'[i] = typing[i + 1]
    BY <2>1, LenProperties, HeadTailProperties
  <2>3. \A i \in DOMAIN typing' : ~typing'[i].fresh
    BY <2>2 DEF FreshEntryIsClean
  <2> QED BY <2>3 DEF FreshEntryIsClean
<1>4. CASE Tick
  <2>1. /\ typing' \in Seq(TextBlocks) /\ Len(typing') = Len(typing)
        /\ \A i \in DOMAIN typing :
              typing'[i].into = typing[i].into /\ typing'[i].fresh = typing[i].fresh
    BY <1>4, TickTypes
  <2>2. DOMAIN typing' = DOMAIN typing
    BY <2>1, LenProperties DEF TypeOK
  <2>3. field' = field
    BY <1>4 DEF Tick, outside
  <2> QED BY <2>1, <2>2, <2>3 DEF FreshEntryIsClean
<1>5. ASSUME NEW survivors, PineBoardEnds(survivors) PROVE FreshEntryIsClean'
  <2>1. DOMAIN typing' = 1..0
    BY <1>5, EmptySeq DEF PineBoardEnds
  <2> QED BY <2>1 DEF FreshEntryIsClean
<1>6. CASE PostWithoutValue \/ ServeReboot
  BY <1>5, <1>6 DEF PostWithoutValue, ServeReboot
<1>7. CASE HandleNavigationNotification \/ DelayedRelease \/ HandleHelperNotification
  BY <1>0, <1>7 DEF HandleNavigationNotification, DelayedRelease, HandleHelperNotification
<1>8. CASE \/ \E app \in Apps : ChangeFocus(app)
           \/ \E command \in HelperCommands, app \in Apps : ServeTakeover(command, app)
  BY <1>0, <1>8 DEF ChangeFocus, ServeTakeover, pineBoard
<1>9. CASE RegisterObservers \/ StartItUp \/ UNCHANGED vars
  BY <1>0, <1>9 DEF RegisterObservers, StartItUp, vars, pineBoard, outside
<1>10. CASE \/ \E event \in NavEvents : HandleRemoteEvent(event)
            \/ \E text \in Texts : EnterText(text)
            \/ \E text \in Texts : AppendText(text)
            \/ \E command \in HelperCommands : SendHelperCommand(command)
  BY <1>0, <1>1, <1>10 DEF HandleRemoteEvent, EnterText, AppendText, SendHelperCommand
<1> QED BY <1>2, <1>3, <1>4, <1>6, <1>7, <1>8, <1>9, <1>10 DEF Next, Quiet

\* From the request to the block of a text that was entered on its own, its field stays
\* empty and its block is the next to type.
THEOREM FreshEntriesAreClean == Spec => []FreshEntryIsClean
<1>1. Init => FreshEntryIsClean
  <2> SUFFICES ASSUME Init PROVE \A i \in DOMAIN typing : FALSE
    BY DEF FreshEntryIsClean
  <2>1. typing \in Seq(TextBlocks) /\ Len(typing) = 0
    BY EmptySeq DEF Init
  <2>2. DOMAIN typing = 1..0
    BY <2>1, LenProperties
  <2> QED BY <2>2
<1> QED BY <1>1, TypeInit, TypeStep, FreshStep, PTL DEF Spec

LEMMA SerialStep ==
    ASSUME TypeOK, FreshEntryIsClean, [Next]_vars,
           NEW i \in DOMAIN typing, typing[i].fresh, typing[i].into = focus,
           done'["text"] = Append(done["text"], typing[i].id)
    PROVE  field'[focus] = typing[i].text
<1>1. typing \in Seq(TextBlocks) /\ DOMAIN typing = 1..Len(typing) /\ typing[i] \in TextBlocks
  BY LenProperties, ElementOfSeq DEF TypeOK
<1>2. typing[i].id \in Ids /\ typing[i].text \in Seq(STRING)
  BY <1>1, TextAssumption DEF TextBlocks
<1>3. done'["text"] # done["text"]
  <2>1. done["text"] \in Seq(Ids)
    BY DEF TypeOK, Kinds
  <2>2. Len(done'["text"]) = Len(done["text"]) + 1 /\ Len(done["text"]) \in Nat
    BY <1>2, <2>1, AppendProperties, LenProperties
  <2> QED BY <2>2
<1>4. TypeText
  <2>1. CASE UNCHANGED done
    BY <1>3, <2>1
  <2>2. CASE HandleNavigationNotification \/ HandleHelperNotification
    <3>1. done'["text"] = done["text"]
      BY <2>2 DEF HandleNavigationNotification, HandleHelperNotification, Completed,
                  TypeOK, Kinds
    <3> QED BY <1>3, <3>1
  <2>3. ASSUME NEW note, Post(note) PROVE UNCHANGED done
    BY <2>3 DEF Post
  <2>4. CASE \/ \E event \in NavEvents : HandleRemoteEvent(event)
             \/ \E text \in Texts : EnterText(text)
             \/ \E text \in Texts : AppendText(text)
             \/ \E command \in HelperCommands : SendHelperCommand(command)
    BY <2>1, <2>3, <2>4 DEF HandleRemoteEvent, EnterText, AppendText, SendHelperCommand
  <2>5. CASE RegisterObservers \/ StartItUp \/ DelayedRelease \/ IOHIDTest \/ Tick
    BY <2>1, <2>5 DEF RegisterObservers, StartItUp, DelayedRelease, IOHIDTest, Tick, history
  <2>6. CASE \/ \E app \in Apps : ChangeFocus(app)
             \/ \E command \in HelperCommands, app \in Apps : ServeTakeover(command, app)
             \/ PostWithoutValue \/ ServeReboot
    BY <2>1, <2>6 DEF ChangeFocus, ServeTakeover, PostWithoutValue, ServeReboot, PineBoardEnds
  <2>7. CASE UNCHANGED vars
    BY <2>1, <2>7 DEF vars, history
  <2> QED BY <2>2, <2>4, <2>5, <2>6, <2>7 DEF Next, Quiet
<1>5. i = 1 /\ field[focus] = <<>>
  BY DEF FreshEntryIsClean
<1>6. field' = [field EXCEPT ![focus] = @ \o Head(typing).text] /\ Head(typing) = typing[1]
  BY <1>1, <1>4 DEF TypeText
<1>7. field'[focus] = <<>> \o typing[i].text
  BY <1>5, <1>6 DEF TypeOK
<1> QED BY <1>2, <1>7, ConcatEmptySeq

\* A text entered on its own, while its process has the focus when its block runs, is all
\* that the field then holds: the claim of the comment in IOHIDTest:, under the conditions
\* under which it is true.
THEOREM SerialEntries == Spec => SerialEntryReplaces
<1> DEFINE Replaces ==
       \A i \in DOMAIN typing :
          /\ typing[i].fresh /\ typing[i].into = focus
          /\ done'["text"] = Append(done["text"], typing[i].id)
          => field'[focus] = typing[i].text
<1>1. TypeOK /\ FreshEntryIsClean /\ [Next]_vars => [Replaces]_vars
  BY SerialStep
<1> HIDE DEF Replaces
<1>2. Spec => [][Replaces]_vars
  BY <1>1, TypeCorrect, FreshEntriesAreClean, PTL DEF Spec
<1> QED BY <1>2 DEF Replaces, SerialEntryReplaces

(***************************************************************************)
(* Order.  InOrder speaks of the commands already carried out only; what   *)
(* keeps it is that identifiers grow along the whole way of a command:     *)
(* done, then (a text) waiting for its timer, then posted, then not yet    *)
(* given out.                                                              *)
(***************************************************************************)

PostedInOrder ==
    /\ \A i, j \in DOMAIN posted : i < j => posted[i].id < posted[j].id
    /\ \A i \in DOMAIN posted : posted[i].id <= posts

TypingInOrder ==
    /\ \A i, j \in DOMAIN typing : i < j => typing[i].id < typing[j].id
    /\ \A i \in DOMAIN typing : typing[i].id <= posts
    /\ \A i \in DOMAIN typing, j \in DOMAIN posted : typing[i].id < posted[j].id

DoneFirst ==
    /\ \A k \in Kinds : \A i \in DOMAIN done[k] : done[k][i] <= posts
    /\ \A k \in Kinds : \A i \in DOMAIN done[k], j \in DOMAIN posted : done[k][i] < posted[j].id
    /\ \A i \in DOMAIN done["text"], j \in DOMAIN typing : done["text"][i] < typing[j].id

OrderInv == PostedInOrder /\ TypingInOrder /\ DoneFirst /\ InOrder

LEMMA PostOrder ==
    ASSUME TypeOK, OrderInv, NEW note \in Notifications, note.id = posts + 1, Post(note)
    PROVE  OrderInv'
<1>1. /\ posted \in Seq(Notifications) /\ posts \in Nat
      /\ posted' = Append(posted, note) /\ posts' = posts + 1
      /\ UNCHANGED <<typing, done>>
  BY DEF TypeOK, Post
<1>2. /\ Len(posted) \in Nat /\ DOMAIN posted = 1..Len(posted)
      /\ DOMAIN posted' = 1..(Len(posted) + 1)
      /\ \A i \in DOMAIN posted : posted'[i] = posted[i]
      /\ posted'[Len(posted) + 1] = note
  BY <1>1, AppendIndex
<1>3. \A i \in DOMAIN posted : posted[i].id \in Nat
  <2>1. \A i \in DOMAIN posted : posted[i] \in Notifications
    BY <1>1, <1>2, ElementOfSeq
  <2> QED BY <2>1 DEF Notifications, Ids
<1>4. \A i \in DOMAIN typing : typing[i].id \in Nat
  <2>1. \A i \in DOMAIN typing : typing[i] \in TextBlocks
    BY LenProperties, ElementOfSeq DEF TypeOK
  <2> QED BY <2>1 DEF TextBlocks, Ids
<1>5. \A k \in Kinds : \A i \in DOMAIN done[k] : done[k][i] \in Nat
  <2>1. \A k \in Kinds : done[k] \in Seq(Ids)
    BY DEF TypeOK
  <2>2. \A k \in Kinds : \A i \in DOMAIN done[k] : done[k][i] \in Ids
    BY <2>1, LenProperties, ElementOfSeq
  <2> QED BY <2>2 DEF Ids
<1>6. \A i \in DOMAIN posted' : i \in DOMAIN posted \/ (i = Len(posted) + 1 /\ posted'[i].id = posts + 1)
  BY <1>2
<1>7. PostedInOrder'
  BY <1>1, <1>2, <1>3, <1>6 DEF OrderInv, PostedInOrder
<1>8. TypingInOrder'
  BY <1>1, <1>2, <1>4, <1>6 DEF OrderInv, TypingInOrder
<1>9. DoneFirst'
  BY <1>1, <1>2, <1>5, <1>6 DEF OrderInv, DoneFirst
<1> QED BY <1>1, <1>7, <1>8, <1>9 DEF OrderInv, InOrder

\* A command leaves the head of posted and is done at once.
LEMMA HandleOrder ==
    ASSUME TypeOK, OrderInv, NEW kind \in Kinds, Delivers(kind),
           kind # "text", done' = Completed(kind, Head(posted).id),
           UNCHANGED <<typing, posts>>
    PROVE  OrderInv'
<1>1. /\ posted \in Seq(Notifications) /\ posted # <<>> /\ posted' = Tail(posted)
      /\ done[kind] \in Seq(Ids) /\ done \in [Kinds -> Seq(Ids)]
  BY DEF TypeOK, Delivers
<1>2. Head(posted).id \in Ids
  BY DeliveredTypes DEF Notifications
<1>3. /\ 1 \in DOMAIN posted /\ Head(posted) = posted[1]
      /\ \A i \in DOMAIN posted' :
            i \in Nat /\ i + 1 \in DOMAIN posted /\ 1 < i + 1 /\ posted'[i] = posted[i + 1]
  BY <1>1, TailIndex
<1>4. \A k \in Kinds : done'[k] = IF k = kind THEN Append(done[kind], posted[1].id) ELSE done[k]
  BY <1>1, <1>3 DEF Completed
<1>5. /\ Len(done[kind]) \in Nat /\ DOMAIN done[kind] = 1..Len(done[kind])
      /\ DOMAIN done'[kind] = 1..(Len(done[kind]) + 1)
      /\ \A i \in DOMAIN done[kind] : done'[kind][i] = done[kind][i]
      /\ done'[kind][Len(done[kind]) + 1] = posted[1].id
  <2>1. done'[kind] = Append(done[kind], posted[1].id) /\ posted[1].id \in Ids
    BY <1>2, <1>3, <1>4
  <2>2. done[kind] \in Seq(Ids)
    BY <1>1
  <2> DEFINE old == done[kind]  new == posted[1].id
  <2>3. /\ Len(old) \in Nat /\ DOMAIN old = 1..Len(old)
        /\ DOMAIN Append(old, new) = 1..(Len(old) + 1)
        /\ \A i \in DOMAIN old : Append(old, new)[i] = old[i]
        /\ Append(old, new)[Len(old) + 1] = new
    <3> HIDE DEF old, new
    <3> QED BY <2>1, <2>2, AppendIndex DEF old, new
  <2> QED BY <2>1, <2>3
<1>6. \A i \in DOMAIN done'[kind] :
          i \in DOMAIN done[kind] \/ (i = Len(done[kind]) + 1 /\ done'[kind][i] = posted[1].id)
  BY <1>5
<1>7. PostedInOrder'
  <2>1. ASSUME NEW i \in DOMAIN posted', NEW j \in DOMAIN posted', i < j
        PROVE  posted'[i].id < posted'[j].id
    <3>1. i + 1 < j + 1
      BY <1>3, <2>1
    <3> QED BY <1>3, <2>1, <3>1 DEF OrderInv, PostedInOrder
  <2>2. ASSUME NEW i \in DOMAIN posted' PROVE posted'[i].id <= posts'
    BY <1>3, <2>2 DEF OrderInv, PostedInOrder
  <2> QED BY <2>1, <2>2 DEF PostedInOrder
<1>8. TypingInOrder'
  BY <1>3 DEF OrderInv, TypingInOrder
<1>9. DoneFirst'
  <2>1. ASSUME NEW k \in Kinds, NEW i \in DOMAIN done'[k]
        PROVE  /\ done'[k][i] <= posts'
               /\ \A j \in DOMAIN posted' : done'[k][i] < posted'[j].id
    <3>1. CASE k # kind
      BY <1>3, <1>4, <2>1, <3>1 DEF OrderInv, DoneFirst
    <3>2. CASE k = kind /\ i \in DOMAIN done[kind]
      BY <1>3, <1>5, <2>1, <3>2 DEF OrderInv, DoneFirst
    <3>3. CASE k = kind /\ i = Len(done[kind]) + 1
      BY <1>3, <1>5, <2>1, <3>3 DEF OrderInv, PostedInOrder
    <3> QED BY <1>6, <2>1, <3>1, <3>2, <3>3
  <2>2. done'["text"] = done["text"]
    BY <1>4 DEF Kinds
  <2> QED BY <2>1, <2>2 DEF OrderInv, DoneFirst
<1>10. InOrder'
  <2>1. ASSUME NEW k \in Kinds, NEW i \in DOMAIN done'[k], NEW j \in DOMAIN done'[k], i < j
        PROVE  done'[k][i] < done'[k][j]
    <3>1. CASE k # kind
      BY <1>4, <2>1, <3>1 DEF OrderInv, InOrder
    <3>2. CASE k = kind /\ j \in DOMAIN done[kind]
      <4>1. i \in DOMAIN done[kind]
        BY <1>5, <2>1, <3>2
      <4> QED BY <1>5, <2>1, <3>2, <4>1 DEF OrderInv, InOrder
    <3>3. CASE k = kind /\ j = Len(done[kind]) + 1
      <4>1. i \in DOMAIN done[kind]
        BY <1>5, <2>1, <3>3
      <4> QED BY <1>3, <1>5, <2>1, <3>3, <4>1 DEF OrderInv, DoneFirst
    <3> QED BY <1>6, <2>1, <3>1, <3>2, <3>3
  <2> QED BY <2>1 DEF InOrder
<1> QED BY <1>7, <1>8, <1>9, <1>10 DEF OrderInv

\* A text leaves the head of posted and waits for its timer behind the others.
LEMMA ClearOrder ==
    ASSUME TypeOK, OrderInv, IOHIDTest
    PROVE  OrderInv'
<1>1. /\ posted \in Seq(Notifications) /\ posted # <<>> /\ posted' = Tail(posted)
      /\ typing \in Seq(TextBlocks) /\ typing' \in Seq(TextBlocks)
      /\ UNCHANGED <<done, posts>>
  BY TypeStep DEF TypeOK, IOHIDTest, Delivers, history, Next
<1>2. /\ 1 \in DOMAIN posted /\ Head(posted) = posted[1]
      /\ \A i \in DOMAIN posted' :
            i \in Nat /\ i + 1 \in DOMAIN posted /\ 1 < i + 1 /\ posted'[i] = posted[i + 1]
  BY <1>1, TailIndex
<1>3. PICK e : typing' = Append(typing, e) /\ e.id = posted[1].id
  BY <1>2 DEF IOHIDTest
<1>4. /\ Len(typing) \in Nat /\ DOMAIN typing = 1..Len(typing)
      /\ DOMAIN typing' = 1..(Len(typing) + 1)
      /\ \A i \in DOMAIN typing : typing'[i] = typing[i]
      /\ typing'[Len(typing) + 1].id = posted[1].id
  BY <1>1, <1>3, LenProperties
<1>5. \A i \in DOMAIN typing' :
          \/ i \in DOMAIN typing /\ typing'[i] = typing[i]
          \/ i = Len(typing) + 1 /\ typing'[i].id = posted[1].id
  BY <1>4
<1>6. PostedInOrder'
  <2>1. ASSUME NEW i \in DOMAIN posted', NEW j \in DOMAIN posted', i < j
        PROVE  posted'[i].id < posted'[j].id
    <3>1. i + 1 < j + 1
      BY <1>2, <2>1
    <3> QED BY <1>2, <2>1, <3>1 DEF OrderInv, PostedInOrder
  <2>2. ASSUME NEW i \in DOMAIN posted' PROVE posted'[i].id <= posts'
    BY <1>1, <1>2, <2>2 DEF OrderInv, PostedInOrder
  <2> QED BY <2>1, <2>2 DEF PostedInOrder
<1>7. TypingInOrder'
  <2>1. ASSUME NEW i \in DOMAIN typing'
        PROVE  /\ typing'[i].id <= posts'
               /\ \A j \in DOMAIN posted' : typing'[i].id < posted'[j].id
    <3>1. CASE i \in DOMAIN typing /\ typing'[i] = typing[i]
      BY <1>1, <1>2, <3>1 DEF OrderInv, TypingInOrder
    <3>2. CASE i = Len(typing) + 1 /\ typing'[i].id = posted[1].id
      BY <1>1, <1>2, <3>2 DEF OrderInv, PostedInOrder
    <3> QED BY <1>5, <2>1, <3>1, <3>2
  <2>2. ASSUME NEW i \in DOMAIN typing', NEW j \in DOMAIN typing', i < j
        PROVE  typing'[i].id < typing'[j].id
    <3>1. i \in DOMAIN typing /\ typing'[i] = typing[i]
      BY <1>4, <2>2
    <3>2. CASE j \in DOMAIN typing /\ typing'[j] = typing[j]
      BY <2>2, <3>1, <3>2 DEF OrderInv, TypingInOrder
    <3>3. CASE j = Len(typing) + 1 /\ typing'[j].id = posted[1].id
      BY <1>2, <3>1, <3>3 DEF OrderInv, TypingInOrder
    <3> QED BY <1>5, <2>2, <3>2, <3>3
  <2> QED BY <2>1, <2>2 DEF TypingInOrder
<1>8. DoneFirst'
  <2>1. ASSUME NEW k \in Kinds, NEW i \in DOMAIN done'[k]
        PROVE  /\ done'[k][i] <= posts'
               /\ \A j \in DOMAIN posted' : done'[k][i] < posted'[j].id
    BY <1>1, <1>2, <2>1 DEF OrderInv, DoneFirst
  <2>2. ASSUME NEW i \in DOMAIN done'["text"], NEW j \in DOMAIN typing'
        PROVE  done'["text"][i] < typing'[j].id
    <3>1. CASE j \in DOMAIN typing /\ typing'[j] = typing[j]
      BY <1>1, <2>2, <3>1 DEF OrderInv, DoneFirst
    <3>2. CASE j = Len(typing) + 1 /\ typing'[j].id = posted[1].id
      BY <1>1, <1>2, <2>2, <3>2 DEF OrderInv, DoneFirst, Kinds
    <3> QED BY <1>5, <2>2, <3>1, <3>2
  <2> QED BY <2>1, <2>2 DEF DoneFirst
<1> QED BY <1>1, <1>6, <1>7, <1>8 DEF OrderInv, InOrder

\* The oldest waiting text is typed and is done.
LEMMA TypeOrder ==
    ASSUME TypeOK, OrderInv, TypeText
    PROVE  OrderInv'
<1>1. /\ typing \in Seq(TextBlocks) /\ typing # <<>> /\ typing' = Tail(typing)
      /\ done["text"] \in Seq(Ids) /\ done \in [Kinds -> Seq(Ids)]
      /\ done' = Completed("text", Head(typing).id)
      /\ UNCHANGED <<posted, posts>>
  BY DEF TypeOK, TypeText, Kinds
<1>2. /\ 1 \in DOMAIN typing /\ Head(typing) = typing[1]
      /\ \A i \in DOMAIN typing' :
            i \in Nat /\ i + 1 \in DOMAIN typing /\ 1 < i + 1 /\ typing'[i] = typing[i + 1]
  BY <1>1, TailIndex
<1>3. typing[1].id \in Ids
  <2>1. typing[1] \in TextBlocks
    BY <1>1, <1>2, ElementOfSeq, LenProperties
  <2> QED BY <2>1 DEF TextBlocks
<1>4. \A k \in Kinds :
         done'[k] = IF k = "text" THEN Append(done["text"], typing[1].id) ELSE done[k]
  BY <1>1, <1>2 DEF Completed
<1>5. /\ Len(done["text"]) \in Nat /\ DOMAIN done["text"] = 1..Len(done["text"])
      /\ DOMAIN done'["text"] = 1..(Len(done["text"]) + 1)
      /\ \A i \in DOMAIN done["text"] : done'["text"][i] = done["text"][i]
      /\ done'["text"][Len(done["text"]) + 1] = typing[1].id
  <2>1. done'["text"] = Append(done["text"], typing[1].id)
    BY <1>4 DEF Kinds
  <2> DEFINE old == done["text"]  new == typing[1].id
  <2>2. /\ Len(old) \in Nat /\ DOMAIN old = 1..Len(old)
        /\ DOMAIN Append(old, new) = 1..(Len(old) + 1)
        /\ \A i \in DOMAIN old : Append(old, new)[i] = old[i]
        /\ Append(old, new)[Len(old) + 1] = new
    <3> HIDE DEF old, new
    <3> QED BY <1>1, <1>3, AppendIndex DEF old, new
  <2> QED BY <2>1, <2>2
<1>6. \A i \in DOMAIN done'["text"] :
         i \in DOMAIN done["text"] \/ (i = Len(done["text"]) + 1 /\ done'["text"][i] = typing[1].id)
  BY <1>5
<1>7. PostedInOrder'
  BY <1>1 DEF OrderInv, PostedInOrder
<1>8. TypingInOrder'
  <2>1. ASSUME NEW i \in DOMAIN typing', NEW j \in DOMAIN typing', i < j
        PROVE  typing'[i].id < typing'[j].id
    <3>1. i + 1 < j + 1
      BY <1>2, <2>1
    <3> QED BY <1>2, <2>1, <3>1 DEF OrderInv, TypingInOrder
  <2>2. ASSUME NEW i \in DOMAIN typing'
        PROVE  typing'[i].id <= posts' /\ \A j \in DOMAIN posted' : typing'[i].id < posted'[j].id
    BY <1>1, <1>2, <2>2 DEF OrderInv, TypingInOrder
  <2> QED BY <2>1, <2>2 DEF TypingInOrder
<1>9. DoneFirst'
  <2>1. ASSUME NEW k \in Kinds, NEW i \in DOMAIN done'[k]
        PROVE  /\ done'[k][i] <= posts'
               /\ \A j \in DOMAIN posted' : done'[k][i] < posted'[j].id
    <3>1. CASE k # "text"
      BY <1>1, <1>4, <2>1, <3>1 DEF OrderInv, DoneFirst
    <3>2. CASE k = "text" /\ i \in DOMAIN done["text"]
      BY <1>1, <1>5, <2>1, <3>2 DEF OrderInv, DoneFirst
    <3>3. CASE k = "text" /\ i = Len(done["text"]) + 1
      BY <1>1, <1>2, <1>5, <2>1, <3>3 DEF OrderInv, TypingInOrder
    <3> QED BY <1>6, <2>1, <3>1, <3>2, <3>3
  <2>2. ASSUME NEW i \in DOMAIN done'["text"], NEW j \in DOMAIN typing'
        PROVE  done'["text"][i] < typing'[j].id
    <3>1. CASE i \in DOMAIN done["text"]
      BY <1>2, <1>5, <2>2, <3>1 DEF OrderInv, DoneFirst
    <3>2. CASE i = Len(done["text"]) + 1
      BY <1>2, <1>5, <2>2, <3>2 DEF OrderInv, TypingInOrder
    <3> QED BY <1>6, <2>2, <3>1, <3>2
  <2> QED BY <2>1, <2>2 DEF DoneFirst
<1>10. InOrder'
  <2>1. ASSUME NEW k \in Kinds, NEW i \in DOMAIN done'[k], NEW j \in DOMAIN done'[k], i < j
        PROVE  done'[k][i] < done'[k][j]
    <3>1. CASE k # "text"
      BY <1>4, <2>1, <3>1 DEF OrderInv, InOrder
    <3>2. CASE k = "text" /\ j \in DOMAIN done["text"]
      <4>1. i \in DOMAIN done["text"]
        BY <1>5, <2>1, <3>2
      <4> QED BY <1>5, <2>1, <3>2, <4>1 DEF OrderInv, InOrder
    <3>3. CASE k = "text" /\ j = Len(done["text"]) + 1
      <4>1. i \in DOMAIN done["text"]
        BY <1>5, <2>1, <3>3
      <4> QED BY <1>2, <1>5, <2>1, <3>3, <4>1 DEF OrderInv, DoneFirst
    <3> QED BY <1>6, <2>1, <3>1, <3>2, <3>3
  <2> QED BY <2>1 DEF InOrder
<1> QED BY <1>7, <1>8, <1>9, <1>10 DEF OrderInv

\* PineBoard ends: only the done commands are left.
LEMMA EndOrder ==
    ASSUME TypeOK, OrderInv, NEW survivors, PineBoardEnds(survivors)
    PROVE  OrderInv'
<1>1. posted' = <<>> /\ typing' = <<>> /\ UNCHANGED <<done, posts>>
  BY DEF PineBoardEnds
<1>2. DOMAIN posted' = {} /\ DOMAIN typing' = {}
  BY <1>1
<1> QED BY <1>1, <1>2 DEF OrderInv, PostedInOrder, TypingInOrder, DoneFirst, InOrder

LEMMA KeepOrder ==
    ASSUME OrderInv, UNCHANGED <<posted, typing, done, posts>>
    PROVE  OrderInv'
BY DEF OrderInv, PostedInOrder, TypingInOrder, DoneFirst, InOrder

LEMMA TickOrder ==
    ASSUME TypeOK, OrderInv, Tick
    PROVE  OrderInv'
<1>1. /\ DOMAIN typing' = DOMAIN typing
      /\ \A i \in DOMAIN typing : typing'[i] = [typing[i] EXCEPT !.left = IF @ > 0 THEN @ - 1 ELSE 0]
      /\ UNCHANGED <<posted, done, posts>>
  BY DEF Tick, history
<1>2. \A i \in DOMAIN typing : typing[i] \in TextBlocks
  BY LenProperties, ElementOfSeq DEF TypeOK
<1>3. \A i \in DOMAIN typing : typing'[i].id = typing[i].id
  BY <1>1, <1>2 DEF TextBlocks
<1> QED BY <1>1, <1>3 DEF OrderInv, PostedInOrder, TypingInOrder, DoneFirst, InOrder

LEMMA OrderStep ==
    ASSUME TypeOK, OrderInv, [Next]_vars
    PROVE  OrderInv'
<1>2. posts < MaxPosts => posts + 1 \in Ids
  BY BoundAssumption DEF TypeOK, Ids
<1>3. ASSUME NEW event \in NavEvents, HandleRemoteEvent(event) PROVE OrderInv'
  <2> DEFINE note == [kind |-> "nav", id |-> posts + 1, event |-> event]
  <2>1. Post(note) /\ note.id = posts + 1 /\ note \in Notifications
    BY <1>2, <1>3 DEF HandleRemoteEvent, Post, Notifications
  <2> HIDE DEF note
  <2> QED BY <2>1, PostOrder
<1>4. ASSUME NEW text \in Texts, EnterText(text) \/ AppendText(text) PROVE OrderInv'
  <2> DEFINE note(clear) ==
        [kind |-> "text", id |-> posts + 1, text |-> text, clear |-> clear]
  <2>1. PICK clear \in BOOLEAN : Post(note(clear))
    BY <1>4 DEF EnterText, AppendText
  <2>2. note(clear).id = posts + 1 /\ note(clear) \in Notifications
    BY <1>2, <2>1 DEF Post, Notifications
  <2> HIDE DEF note
  <2> QED BY <2>1, <2>2, PostOrder
<1>5. ASSUME NEW command \in HelperCommands, SendHelperCommand(command) PROVE OrderInv'
  <2> DEFINE note == [kind |-> "helper", id |-> posts + 1, command |-> command]
  <2>1. Post(note) /\ note.id = posts + 1 /\ note \in Notifications
    BY <1>2, <1>5 DEF SendHelperCommand, Post, Notifications
  <2> HIDE DEF note
  <2> QED BY <2>1, PostOrder
<1>6. CASE HandleNavigationNotification
  BY <1>6, HandleOrder DEF HandleNavigationNotification, Kinds
<1>7. CASE HandleHelperNotification
  BY <1>7, HandleOrder DEF HandleHelperNotification, Kinds
<1>8. CASE IOHIDTest
  BY <1>8, ClearOrder
<1>9. CASE TypeText
  BY <1>9, TypeOrder
<1>10. CASE Tick
  BY <1>10, TickOrder
<1>11. CASE PostWithoutValue \/ ServeReboot
  BY <1>11, EndOrder DEF PostWithoutValue, ServeReboot
<1>12. CASE RegisterObservers \/ StartItUp \/ DelayedRelease
            \/ (\E app \in Apps : ChangeFocus(app))
            \/ (\E command \in HelperCommands, app \in Apps : ServeTakeover(command, app))
            \/ UNCHANGED vars
  <2>1. UNCHANGED <<posted, typing, done, posts>>
    BY <1>12 DEF RegisterObservers, StartItUp, DelayedRelease, ChangeFocus, ServeTakeover,
                 vars, pineBoard, history
  <2> QED BY <2>1, KeepOrder
<1> QED BY <1>3, <1>4, <1>5, <1>6, <1>7, <1>8, <1>9, <1>10, <1>11, <1>12 DEF Next, Quiet

LEMMA OrderInit == Init => OrderInv
BY DEF Init, OrderInv, PostedInOrder, TypingInOrder, DoneFirst, InOrder

\* Commands of one kind take effect at most once and in the order of their acceptance, for
\* any number of commands, holds, waiting texts and restarts.
THEOREM CommandsInOrder == Spec => []InOrder
<1>1. OrderInv => InOrder
  BY DEF OrderInv
<1> QED BY <1>1, OrderInit, TypeInit, TypeStep, OrderStep, TypeCorrect, PTL DEF Spec

(***************************************************************************)
(* The helper keeps the promise of CommandPipe: each step is one of its    *)
(* steps, or changes neither what is on its way nor what is done.          *)
(***************************************************************************)

\* What is on its way, by where it is.
LEMMA OnTheWayIs ==
    ASSUME NEW k
    PROVE  /\ \A n : n \in OnTheWay(k) <=>
                 \/ \E i \in DOMAIN posted : posted[i].kind = k /\ posted[i].id = n
                 \/ k = "text" /\ \E i \in DOMAIN typing : typing[i].id = n
           /\ \A n : n \in OnTheWay(k)' <=>
                 \/ \E i \in DOMAIN posted' : posted'[i].kind = k /\ posted'[i].id = n
                 \/ k = "text" /\ \E i \in DOMAIN typing' : typing'[i].id = n
BY DEF OnTheWay

\* Numbers of commands are numbers.
LEMMA IdTypes ==
    ASSUME TypeOK
    PROVE  /\ \A i \in DOMAIN posted : posted[i].id \in Ids /\ posted[i].kind \in Kinds
           /\ \A i \in DOMAIN typing : typing[i].id \in Ids
           /\ \A k : OnTheWay(k) \subseteq Ids
<1>1. \A i \in DOMAIN posted : posted[i] \in Notifications
  BY LenProperties, ElementOfSeq DEF TypeOK
<1>2. \A i \in DOMAIN typing : typing[i] \in TextBlocks
  BY LenProperties, ElementOfSeq DEF TypeOK
<1>3. /\ \A i \in DOMAIN posted : posted[i].id \in Ids /\ posted[i].kind \in Kinds
      /\ \A i \in DOMAIN typing : typing[i].id \in Ids
  BY <1>1, <1>2 DEF Notifications, TextBlocks, Kinds
<1> QED BY <1>3, OnTheWayIs

\* What each kind of step means for the promise.
LEMMA PipeSteps ==
    ASSUME NEW kind \in Kinds, \A k \in Kinds \ {kind} : OnTheWay(k)' = OnTheWay(k)
    PROVE  /\ /\ OnTheWay(kind)' = OnTheWay(kind)
              /\ UNCHANGED <<done, posts>>
              => UNCHANGED <<[k \in Kinds |-> OnTheWay(k)], done, posts>>
           /\ /\ posts + 1 \in Ids /\ posts' = posts + 1 /\ UNCHANGED done
              /\ OnTheWay(kind)' = OnTheWay(kind) \cup {posts + 1}
              => Pipe!Accept(kind)
           /\ \A n \in OnTheWay(kind) :
                 /\ \A m \in OnTheWay(kind) : n <= m
                 /\ \A k \in Kinds \ {"text"} : \A m \in OnTheWay(k) : ~(m < n)
                 /\ done' = Completed(kind, n) /\ UNCHANGED posts
                 /\ OnTheWay(kind)' = OnTheWay(kind) \ {n}
                 => Pipe!Effect(kind, n)
<1> DEFINE way == [k \in Kinds |-> OnTheWay(k)]
<1>1. /\ way[kind] = OnTheWay(kind)
      /\ \A k \in Kinds : way[k] = OnTheWay(k)
      /\ \A x : OnTheWay(kind)' = x => way' = [way EXCEPT ![kind] = x]
  OBVIOUS
<1>2. OnTheWay(kind)' = OnTheWay(kind) => UNCHANGED way
  OBVIOUS
<1> HIDE DEF way
<1>3. ASSUME posts + 1 \in Ids, posts' = posts + 1, UNCHANGED done,
             OnTheWay(kind)' = OnTheWay(kind) \cup {posts + 1}
      PROVE  Pipe!Accept(kind)
  <2>1. way' = [way EXCEPT ![kind] = @ \cup {posts'}]
    BY <1>1, <1>3
  <2> QED BY <1>3, <2>1 DEF Pipe!Accept, way
<1>4. ASSUME NEW n \in OnTheWay(kind), \A m \in OnTheWay(kind) : n <= m,
             \A k \in Kinds \ {"text"} : \A m \in OnTheWay(k) : ~(m < n),
             done' = Completed(kind, n), UNCHANGED posts,
             OnTheWay(kind)' = OnTheWay(kind) \ {n}
      PROVE  Pipe!Effect(kind, n)
  <2>1. /\ n \in way[kind] /\ \A m \in way[kind] : n <= m
        /\ way' = [way EXCEPT ![kind] = @ \ {n}]
        /\ ~ \E k \in Kinds \ {"text"} : \E m \in way[k] : m < n
        /\ done' = [done EXCEPT ![kind] = Append(@, n)]
    BY <1>1, <1>4 DEF Completed
  <2> QED BY <1>4, <2>1 DEF Pipe!Effect, Pipe!Overtakes, way
<1> QED BY <1>2, <1>3, <1>4 DEF way

\* A command is accepted.
LEMMA PostPipe ==
    ASSUME TypeOK, NEW note \in Notifications, note.id = posts + 1, Post(note)
    PROVE  Pipe!Accept(note.kind)
<1>1. /\ Len(posted) \in Nat /\ DOMAIN posted = 1..Len(posted)
      /\ DOMAIN posted' = 1..(Len(posted) + 1)
      /\ \A i \in DOMAIN posted : posted'[i] = posted[i]
      /\ posted'[Len(posted) + 1] = note
  BY AppendIndex DEF TypeOK, Post
<1>2. posts + 1 \in Ids /\ posts' = posts + 1 /\ UNCHANGED <<done, typing>>
  BY BoundAssumption DEF TypeOK, Ids, Post
<1>3. note.kind \in Kinds
  BY DEF Notifications, Kinds
<1>4. \A k \in Kinds : \A n :
         n \in OnTheWay(k)' <=> (n \in OnTheWay(k) \/ (k = note.kind /\ n = posts + 1))
  BY <1>1, <1>2, OnTheWayIs
<1>5. /\ OnTheWay(note.kind)' = OnTheWay(note.kind) \cup {posts + 1}
      /\ \A k \in Kinds \ {note.kind} : OnTheWay(k)' = OnTheWay(k)
  BY <1>3, <1>4
<1> QED BY <1>2, <1>3, <1>5, PipeSteps

\* A command is handled, and done at once.
LEMMA HandlePipe ==
    ASSUME TypeOK, OrderInv, NEW kind \in Kinds, Delivers(kind),
           kind # "text", done' = Completed(kind, Head(posted).id),
           UNCHANGED <<typing, posts>>
    PROVE  Pipe!Effect(kind, Head(posted).id)
<1>1. posted \in Seq(Notifications) /\ posted # <<>> /\ posted' = Tail(posted)
  BY DEF TypeOK, Delivers
<1>2. /\ 1 \in DOMAIN posted /\ Head(posted) = posted[1] /\ posted[1].kind = kind
      /\ \A i \in DOMAIN posted' :
            i \in Nat /\ i + 1 \in DOMAIN posted /\ 1 < i + 1 /\ posted'[i] = posted[i + 1]
      /\ \A i \in DOMAIN posted \ {1} : i - 1 \in DOMAIN posted' /\ posted'[i - 1] = posted[i]
      /\ DOMAIN posted \subseteq Nat \ {0}
  BY <1>1, TailIndex, TailKeeps, LenProperties DEF Delivers
<1> DEFINE n == posted[1].id
<1>3. n \in Ids /\ \A i \in DOMAIN posted : i # 1 => posted[i].id \in Nat /\ n < posted[i].id
  BY <1>2, IdTypes DEF OrderInv, PostedInOrder, Ids
<1> HIDE DEF n
<1>4. \A k \in Kinds : \A m :
         m \in OnTheWay(k)' <=> (m \in OnTheWay(k) /\ ~(k = kind /\ m = n))
  <2> SUFFICES ASSUME NEW k \in Kinds, NEW m
               PROVE  m \in OnTheWay(k)' <=> (m \in OnTheWay(k) /\ ~(k = kind /\ m = n))
    OBVIOUS
  <2>1. (\E i \in DOMAIN posted' : posted'[i].kind = k /\ posted'[i].id = m)
           <=> \E i \in DOMAIN posted : i # 1 /\ posted[i].kind = k /\ posted[i].id = m
    BY <1>2
  <2>2. (\E i \in DOMAIN posted : i # 1 /\ posted[i].kind = k /\ posted[i].id = m)
           <=> (\E i \in DOMAIN posted : posted[i].kind = k /\ posted[i].id = m)
               /\ ~(k = kind /\ m = n)
    BY <1>2, <1>3 DEF n, Ids
  <2> QED BY <2>1, <2>2, OnTheWayIs
<1>5. /\ n \in OnTheWay(kind)
      /\ \A k \in Kinds \ {"text"} : \A m \in OnTheWay(k) : m \in Nat /\ n <= m
  BY <1>2, <1>3, OnTheWayIs DEF n, Ids
<1>6. /\ OnTheWay(kind)' = OnTheWay(kind) \ {n}
      /\ \A k \in Kinds \ {kind} : OnTheWay(k)' = OnTheWay(k)
  BY <1>4
<1>7. \A k \in Kinds \ {"text"} : \A m \in OnTheWay(k) : ~(m < n)
  BY <1>3, <1>5 DEF Ids
<1>8. Head(posted).id = n
  BY <1>2 DEF n
<1> QED BY <1>5, <1>6, <1>7, <1>8, PipeSteps

\* A text leaves the notifications and waits for its timer.
LEMMA ClearPipe ==
    ASSUME TypeOK, IOHIDTest
    PROVE  UNCHANGED <<[k \in Kinds |-> OnTheWay(k)], done, posts>>
<1>1. /\ posted \in Seq(Notifications) /\ posted # <<>> /\ posted' = Tail(posted)
      /\ typing \in Seq(TextBlocks) /\ typing' \in Seq(TextBlocks)
      /\ UNCHANGED <<done, posts>> /\ Head(posted).kind = "text"
  BY TypeStep DEF TypeOK, IOHIDTest, Delivers, history, Next
<1>2. /\ 1 \in DOMAIN posted /\ Head(posted) = posted[1] /\ posted[1].kind = "text"
      /\ \A i \in DOMAIN posted' : i + 1 \in DOMAIN posted /\ posted'[i] = posted[i + 1]
      /\ \A i \in DOMAIN posted \ {1} : i - 1 \in DOMAIN posted' /\ posted'[i - 1] = posted[i]
  BY <1>1, TailIndex, TailKeeps
<1>3. PICK e : typing' = Append(typing, e) /\ e.id = posted[1].id
  BY <1>2 DEF IOHIDTest
<1>4. /\ Len(typing) \in Nat /\ DOMAIN typing = 1..Len(typing)
      /\ DOMAIN typing' = 1..(Len(typing) + 1)
      /\ \A i \in DOMAIN typing : typing'[i] = typing[i]
      /\ typing'[Len(typing) + 1].id = posted[1].id
  BY <1>1, <1>3, LenProperties
<1>5. ASSUME NEW k \in Kinds, NEW n PROVE n \in OnTheWay(k)' <=> n \in OnTheWay(k)
  <2>1. (\E i \in DOMAIN typing' : typing'[i].id = n)
           <=> (\E i \in DOMAIN typing : typing[i].id = n) \/ posted[1].id = n
    BY <1>4
  <2>2. (\E i \in DOMAIN posted : posted[i].kind = k /\ posted[i].id = n)
           <=> (\E i \in DOMAIN posted' : posted'[i].kind = k /\ posted'[i].id = n)
               \/ (k = "text" /\ posted[1].id = n)
    BY <1>2
  <2> QED BY <2>1, <2>2, OnTheWayIs
<1>6. \A k \in Kinds : OnTheWay(k)' = OnTheWay(k)
  BY <1>5
<1> QED BY <1>1, <1>6

\* The oldest waiting text is typed.  All texts that were posted later are behind it.
LEMMA TypePipe ==
    ASSUME TypeOK, OrderInv, TypeText
    PROVE  Pipe!Effect("text", Head(typing).id) /\ Head(typing).id \in Ids
<1>1. /\ typing \in Seq(TextBlocks) /\ typing # <<>> /\ typing' = Tail(typing)
      /\ done' = Completed("text", Head(typing).id)
      /\ UNCHANGED <<posted, posts>>
  BY DEF TypeOK, TypeText
<1>2. /\ 1 \in DOMAIN typing /\ Head(typing) = typing[1]
      /\ \A i \in DOMAIN typing' : i \in Nat /\ i + 1 \in DOMAIN typing /\ 1 < i + 1
                                   /\ typing'[i] = typing[i + 1]
      /\ \A i \in DOMAIN typing \ {1} : i - 1 \in DOMAIN typing' /\ typing'[i - 1] = typing[i]
      /\ DOMAIN typing \subseteq Nat \ {0}
  BY <1>1, TailIndex, TailKeeps, LenProperties
<1> DEFINE n == typing[1].id
<1>3. /\ n \in Ids
      /\ \A i \in DOMAIN typing : i # 1 => typing[i].id \in Nat /\ n < typing[i].id
      /\ \A i \in DOMAIN posted : posted[i].id \in Nat /\ n < posted[i].id
  BY <1>2, IdTypes DEF OrderInv, TypingInOrder, Ids
<1>4. n = typing[1].id
  OBVIOUS
<1> HIDE DEF n
<1>5. ASSUME NEW k \in Kinds, NEW m
      PROVE  m \in OnTheWay(k)' <=> (m \in OnTheWay(k) /\ ~(k = "text" /\ m = n))
  <2>1. (\E i \in DOMAIN typing' : typing'[i].id = m)
           <=> \E i \in DOMAIN typing : i # 1 /\ typing[i].id = m
    BY <1>2
  <2>2. (\E i \in DOMAIN typing : i # 1 /\ typing[i].id = m)
           <=> (\E i \in DOMAIN typing : typing[i].id = m) /\ m # n
    BY <1>3, <1>4 DEF Ids
  <2>3. (\E i \in DOMAIN posted' : posted'[i].kind = k /\ posted'[i].id = m)
           <=> \E i \in DOMAIN posted : posted[i].kind = k /\ posted[i].id = m
    BY <1>1
  <2>4. (\E i \in DOMAIN posted : posted[i].kind = k /\ posted[i].id = m) => m # n
    BY <1>3 DEF Ids
  <2> QED BY <2>1, <2>2, <2>3, <2>4, OnTheWayIs
<1>6. /\ n \in OnTheWay("text")
      /\ \A m \in OnTheWay("text") : n <= m
      /\ \A k \in Kinds \ {"text"} : \A m \in OnTheWay(k) : ~(m < n)
  BY <1>2, <1>3, <1>4, OnTheWayIs DEF Ids
<1>7. /\ OnTheWay("text")' = OnTheWay("text") \ {n}
      /\ \A k \in Kinds \ {"text"} : OnTheWay(k)' = OnTheWay(k)
  BY <1>5 DEF Kinds
<1>8. Head(typing).id = n /\ "text" \in Kinds
  BY <1>2, <1>4 DEF Kinds
<1> QED BY <1>1, <1>3, <1>6, <1>7, <1>8, PipeSteps

\* The end of PineBoard loses what was on its way.
LEMMA EndPipe ==
    ASSUME NEW survivors, PineBoardEnds(survivors)
    PROVE  Pipe!Lose
<1>1. DOMAIN posted' = {} /\ DOMAIN typing' = {} /\ UNCHANGED <<done, posts>>
  BY DEF PineBoardEnds
<1>2. \A k \in Kinds : OnTheWay(k)' = {}
  BY <1>1, OnTheWayIs
<1> QED BY <1>1, <1>2 DEF Pipe!Lose

\* A step that leaves the commands alone, whatever time the texts have left.
LEMMA KeepPipe ==
    ASSUME TypeOK, UNCHANGED <<posted, typing, done, posts>> \/ Tick
    PROVE  UNCHANGED <<[k \in Kinds |-> OnTheWay(k)], done, posts>>
<1>1. UNCHANGED <<posted, done, posts>>
  BY DEF Tick, history
<1>2. DOMAIN typing' = DOMAIN typing /\ \A i \in DOMAIN typing : typing'[i].id = typing[i].id
  <2>1. CASE Tick
    BY <2>1, TickTypes DEF Tick
  <2> QED BY <2>1
<1>3. ASSUME NEW k \in Kinds, NEW n PROVE n \in OnTheWay(k)' <=> n \in OnTheWay(k)
  BY <1>1, <1>2, OnTheWayIs
<1>4. \A k \in Kinds : OnTheWay(k)' = OnTheWay(k)
  BY <1>3
<1> QED BY <1>1, <1>4

\* Every step of the helper is a step of the promise, or leaves it alone.
LEMMA PipeStep ==
    ASSUME TypeOK, OrderInv, [Next]_vars
    PROVE  [Pipe!Next]_<<[k \in Kinds |-> OnTheWay(k)], done, posts>>
<1> DEFINE Goal == Pipe!Next \/ UNCHANGED <<[k \in Kinds |-> OnTheWay(k)], done, posts>>
<1>1. ASSUME NEW note \in Notifications, note.id = posts + 1, Post(note) PROVE Goal
  <2>1. note.kind \in Kinds
    BY DEF Notifications, Kinds
  <2> QED BY <1>1, <2>1, PostPipe DEF Pipe!Next
<1>2. posts < MaxPosts => posts + 1 \in Ids
  BY BoundAssumption DEF TypeOK, Ids
<1>3. ASSUME NEW event \in NavEvents, HandleRemoteEvent(event) PROVE Goal
  <2> DEFINE note == [kind |-> "nav", id |-> posts + 1, event |-> event]
  <2>1. Post(note) /\ note.id = posts + 1 /\ note \in Notifications
    BY <1>2, <1>3 DEF HandleRemoteEvent, Post, Notifications
  <2> HIDE DEF note
  <2> QED BY <2>1, <1>1
<1>4. ASSUME NEW text \in Texts, EnterText(text) \/ AppendText(text) PROVE Goal
  <2> DEFINE note(clear) ==
        [kind |-> "text", id |-> posts + 1, text |-> text, clear |-> clear]
  <2>1. PICK clear \in BOOLEAN : Post(note(clear))
    BY <1>4 DEF EnterText, AppendText
  <2>2. note(clear).id = posts + 1 /\ note(clear) \in Notifications
    BY <1>2, <2>1 DEF Post, Notifications
  <2> HIDE DEF note
  <2> QED BY <2>1, <2>2, <1>1
<1>5. ASSUME NEW command \in HelperCommands, SendHelperCommand(command) PROVE Goal
  <2> DEFINE note == [kind |-> "helper", id |-> posts + 1, command |-> command]
  <2>1. Post(note) /\ note.id = posts + 1 /\ note \in Notifications
    BY <1>2, <1>5 DEF SendHelperCommand, Post, Notifications
  <2> HIDE DEF note
  <2> QED BY <2>1, <1>1
<1>6. ASSUME NEW kind \in {"nav", "helper"}, Delivers(kind),
             done' = Completed(kind, Head(posted).id), UNCHANGED <<typing, posts>>
      PROVE  Goal
  <2>1. Head(posted).id \in Ids
    BY <1>6, TailIndex, IdTypes DEF Delivers, TypeOK
  <2> QED BY <1>6, <2>1, HandlePipe DEF Pipe!Next, Kinds
<1>7. CASE HandleNavigationNotification \/ HandleHelperNotification
  <2>1. PICK kind \in {"nav", "helper"} :
           Delivers(kind) /\ done' = Completed(kind, Head(posted).id)
    BY <1>7 DEF HandleNavigationNotification, HandleHelperNotification
  <2>2. UNCHANGED <<typing, posts>>
    BY <1>7 DEF HandleNavigationNotification, HandleHelperNotification
  <2> QED BY <1>6, <2>1, <2>2
<1>8. CASE IOHIDTest
  BY <1>8, ClearPipe
<1>9. CASE TypeText
  BY <1>9, TypePipe DEF Pipe!Next, Kinds
<1>10. CASE PostWithoutValue \/ ServeReboot
  BY <1>10, EndPipe DEF PostWithoutValue, ServeReboot, Pipe!Next
<1>11. CASE RegisterObservers \/ StartItUp \/ DelayedRelease \/ Tick
            \/ (\E app \in Apps : ChangeFocus(app))
            \/ (\E command \in HelperCommands, app \in Apps : ServeTakeover(command, app))
            \/ UNCHANGED vars
  <2>1. UNCHANGED <<posted, typing, done, posts>> \/ Tick
    BY <1>11 DEF RegisterObservers, StartItUp, DelayedRelease, ChangeFocus, ServeTakeover,
                 vars, pineBoard, history
  <2> QED BY <2>1, KeepPipe
<1>12. Goal
  BY <1>3, <1>4, <1>5, <1>7, <1>8, <1>9, <1>10, <1>11 DEF Next, Quiet
<1> QED BY <1>12

LEMMA PipeInit == Init => Pipe!Init
<1> SUFFICES ASSUME Init PROVE Pipe!Init
  OBVIOUS
<1>1. \A k \in Kinds : OnTheWay(k) = {}
  BY OnTheWayIs DEF Init
<1> QED BY <1>1 DEF Init, Pipe!Init

\* The helper keeps the promise of CommandPipe: between the URL and the HID events no
\* command is lost unless PineBoard ends, none is repeated, and only texts are overtaken.
THEOREM HelperKeepsPromise == Spec => PipePromise
<1>1. Init => TypeOK /\ OrderInv
  BY TypeInit, OrderInit
<1>2. TypeOK /\ OrderInv /\ [Next]_vars => (TypeOK /\ OrderInv)'
  BY TypeStep, OrderStep
<1>3. TypeOK /\ OrderInv /\ [Next]_vars => [Pipe!Next]_(Pipe!vars)
  BY PipeStep DEF Pipe!vars
<1> QED BY <1>1, <1>2, <1>3, PipeInit, PTL DEF Spec, PipePromise, Pipe!Spec
=============================================================================
