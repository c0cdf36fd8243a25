------------------------- MODULE SlideMonitorProofs -------------------------
(***************************************************************************)
(* Theorems about SlideMonitor, for all numbers of slides and requests and *)
(* all values of the bounds.                                               *)
(***************************************************************************)
EXTENDS SlideMonitor, QueueLemmas

(***************************************************************************)
(* The inductive invariants.                                               *)
(***************************************************************************)

\* Every timer but the one of the property was raced for.  While a refusal is between its two
\* steps the timer of the property is off already, whatever was started since.
TimersCounted ==
    Cardinality(timers) <= raced + (IF dateTimeTimer \in timers /\ ~Clearing THEN 1 ELSE 0)

\* A picture that an answer with page n gets from host h.
Fits(page, n, h) == page = Nil \/ (page.tv = h /\ (h = n.tv => page = n))

\* What is on its way to the screen names page n, with pictures from host h.
AllOf(n, h) ==
    /\ \A w \in Workers :
          worker[w].stage = "pictures" => worker[w].page = n /\ worker[w].host = h
    /\ \A i \in DOMAIN mainQueue : mainQueue[i].do = "label" => mainQueue[i].page = n
    /\ \A i \in DOMAIN mainQueue :
          mainQueue[i].do \in ToSet(Views) => Fits(mainQueue[i].page, n, h)

\* The label names page n, or will.
LabelComes(n) == label = n \/ \E i \in DOMAIN mainQueue : mainQueue[i].do = "label"

\* View v shows such a picture or nothing, or its picture is to come.
PictureComes(v, n, h) ==
    \/ Fits(picture[v], n, h)
    \/ \E i \in DOMAIN mainQueue : mainQueue[i].do = v
    \/ \E w \in Workers : worker[w].stage = "pictures" /\ v \in ToSet(worker[w].left)

\* No answer has come yet.
Blank ==
    /\ label = Nil
    /\ \A w \in Workers : worker[w].stage # "pictures"
    /\ \A i \in DOMAIN mainQueue : ~Shows(mainQueue[i])

\* The label names n and the pictures are from the host h that was chosen when the answer
\* came, or both are on their way.
Shown(n, h) ==
    /\ ~switched => h = n.tv
    /\ AllOf(n, h)
    /\ LabelComes(n)
    /\ \A v \in ToSet(NamedViews(n.slide)) : PictureComes(v, n, h)

\* Unless the last answer came while an older one was being shown, what is on the screen and
\* what is on its way belongs to one answer.
Coherent == ~mixed => Blank \/ \E n \in Pages, h \in Hosts : Shown(n, h)

SlideInv == TypeOK /\ TimersCounted /\ Coherent
(***************************************************************************)
(* Facts about the views and the main queue.                               *)
(***************************************************************************)

LEMMA ViewsAre == ToSet(Views) = {"previous", "next", "current"}
BY DEF ToSet, Views

\* The pictures that an answer names are one or more of the three.
LEMMA NamedAre ==
    ASSUME NEW n
    PROVE  NamedViews(n) \in Seq(ToSet(Views)) /\ NamedViews(n) # <<>>
<1> DEFINE S == ToSet(Views)
<1>1. "previous" \in S /\ "next" \in S /\ "current" \in S
  BY ViewsAre
<1> HIDE DEF S
<1>2. /\ <<"next", "current">> \in Seq(S) /\ <<"previous", "current">> \in Seq(S)
      /\ <<"previous", "next", "current">> \in Seq(S)
  BY <1>1
<1>3. \A s \in Seq(S) : Len(s) # 0 => s # <<>>
  BY EmptySeq
<1>4. /\ Len(<<"next", "current">>) = 2 /\ Len(<<"previous", "current">>) = 2
      /\ Len(<<"previous", "next", "current">>) = 3
  OBVIOUS
<1>5. /\ <<"next", "current">> # <<>> /\ <<"previous", "current">> # <<>>
      /\ <<"previous", "next", "current">> # <<>>
  BY <1>2, <1>3, <1>4
<1> DEFINE a == <<"next", "current">>
           b == <<"previous", "current">>
           c == <<"previous", "next", "current">>
<1>6. NamedViews(n) = a \/ NamedViews(n) = b \/ NamedViews(n) = c
  BY DEF NamedViews, Views
<1>7. a \in Seq(S) /\ b \in Seq(S) /\ c \in Seq(S) /\ a # <<>> /\ b # <<>> /\ c # <<>>
  BY <1>2, <1>5
<1> HIDE DEF a, b, c
<1> QED BY <1>6, <1>7 DEF S

LEMMA InSequence ==
    ASSUME NEW S, NEW s \in Seq(S)
    PROVE  /\ \A v \in ToSet(s) : v \in S
           /\ s # <<>> => Head(s) \in ToSet(s)
           /\ s # <<>> => \A v \in ToSet(s) : v = Head(s) \/ v \in ToSet(Tail(s))
<1>1. \A v : v \in ToSet(s) <=> \E i \in DOMAIN s : v = s[i]
  BY DEF ToSet
<1>2. \A i \in DOMAIN s : s[i] \in S
  BY ElementOfSeq, LenProperties
<1>3. ASSUME s # <<>> PROVE Head(s) \in ToSet(s)
  BY <1>1, <1>3, TailIndex
<1>4. ASSUME s # <<>>, NEW v \in ToSet(s), v # Head(s) PROVE v \in ToSet(Tail(s))
  <2>1. PICK i \in DOMAIN s : v = s[i] /\ i # 1
    BY <1>1, <1>4, TailIndex
  <2>2. i - 1 \in DOMAIN Tail(s) /\ Tail(s)[i - 1] = v
    BY <1>4, <2>1, TailKeeps
  <2> QED BY <2>2 DEF ToSet
<1> QED BY <1>1, <1>2, <1>3, <1>4

LEMMA BlockFacts ==
    ASSUME NEW what, NEW n
    PROVE  /\ Block(what, n).do = what /\ Block(what, n).page = n
           /\ (/\ what \in ToSet(Views) \cup {"open", "label", "poll", "close"}
               /\ n \in Shots \cup {Nil}) => Block(what, n) \in Blocks
BY DEF Block, Blocks

\* One more block waits behind the others.
LEMMA QueueGrows ==
    ASSUME mainQueue \in Seq(Blocks), NEW b \in Blocks, mainQueue' = Append(mainQueue, b)
    PROVE  /\ mainQueue' \in Seq(Blocks)
           /\ \A i \in DOMAIN mainQueue : i \in DOMAIN mainQueue' /\ mainQueue'[i] = mainQueue[i]
           /\ \A j \in DOMAIN mainQueue' :
                 mainQueue'[j] = b \/ (j \in DOMAIN mainQueue /\ mainQueue'[j] = mainQueue[j])
           /\ \E j \in DOMAIN mainQueue' : mainQueue'[j] = b
<1>1. /\ mainQueue' \in Seq(Blocks)
      /\ Len(mainQueue) \in Nat /\ DOMAIN mainQueue = 1..Len(mainQueue)
      /\ DOMAIN mainQueue' = 1..(Len(mainQueue) + 1)
      /\ \A i \in DOMAIN mainQueue : mainQueue'[i] = mainQueue[i]
      /\ mainQueue'[Len(mainQueue) + 1] = b
  BY AppendIndex, AppendProperties
<1> QED BY <1>1

\* The main thread takes the oldest block.
LEMMA QueueShrinks ==
    ASSUME mainQueue \in Seq(Blocks), mainQueue # <<>>
    PROVE  /\ Tail(mainQueue) \in Seq(Blocks) /\ Head(mainQueue) \in Blocks
           /\ 1 \in DOMAIN mainQueue /\ mainQueue[1] = Head(mainQueue)
           /\ \A j \in DOMAIN Tail(mainQueue) :
                 \E i \in DOMAIN mainQueue : Tail(mainQueue)[j] = mainQueue[i]
           /\ \A i \in DOMAIN mainQueue :
                 \/ mainQueue[i] = Head(mainQueue)
                 \/ \E j \in DOMAIN Tail(mainQueue) : Tail(mainQueue)[j] = mainQueue[i]
<1>1. /\ Tail(mainQueue) \in Seq(Blocks) /\ Head(mainQueue) \in Blocks
      /\ 1 \in DOMAIN mainQueue /\ mainQueue[1] = Head(mainQueue)
  BY TailIndex, HeadTailProperties
<1>2. \A j \in DOMAIN Tail(mainQueue) :
         \E i \in DOMAIN mainQueue : Tail(mainQueue)[j] = mainQueue[i]
  BY TailIndex
<1>3. \A i \in DOMAIN mainQueue : i # 1 =>
         i - 1 \in DOMAIN Tail(mainQueue) /\ Tail(mainQueue)[i - 1] = mainQueue[i]
  BY TailKeeps
<1> QED BY <1>1, <1>2, <1>3
(***************************************************************************)
(* The parts of the type invariant that steps change.                      *)
(***************************************************************************)

QueueTyped ==
    /\ mainQueue \in Seq(Blocks)
    /\ \A i \in DOMAIN mainQueue : mainQueue[i].do = "label" => mainQueue[i].page \in Pages

WorkersTyped ==
    /\ worker \in [Workers -> WorkerStates]
    /\ \A w \in Workers :
          /\ worker[w].stage # "idle" => worker[w].for \in Purposes /\ worker[w].host \in Hosts
          /\ worker[w].stage = "pictures" => worker[w].left # <<>> /\ worker[w].page \in Pages

LEMMA Typed == ASSUME TypeOK PROVE QueueTyped /\ WorkersTyped
BY DEF TypeOK, QueueTyped, WorkersTyped

LEMMA WorkerKinds ==
    /\ Idle \in WorkerStates /\ Idle.stage = "idle"
    /\ \A p \in Purposes, h \in Hosts :
          /\ Asking(p, h) \in WorkerStates
          /\ Asking(p, h).stage = "asking" /\ Asking(p, h).for = p /\ Asking(p, h).host = h
<1>1. <<>> \in Seq(ToSet(Views))
  OBVIOUS
<1> DEFINE S == Seq(ToSet(Views))
           P == Pages \cup {Nil}
<1>2. Nil \in P
  OBVIOUS
<1> HIDE DEF S, P
<1>3. <<>> \in S /\ Nil \in P =>
         Idle \in [stage : {"idle", "asking", "pictures", "clearing"}, for : Purposes \cup {"none"},
                  host : Hosts \cup {Nil}, page : P, left : S]
  BY DEF Idle
<1>4. <<>> \in S /\ Nil \in P => \A p \in Purposes, h \in Hosts :
         Asking(p, h) \in [stage : {"idle", "asking", "pictures", "clearing"},
                          for : Purposes \cup {"none"}, host : Hosts \cup {Nil}, page : P, left : S]
  BY DEF Asking
<1>5. Idle.stage = "idle" /\ \A p \in Purposes, h \in Hosts :
         Asking(p, h).stage = "asking" /\ Asking(p, h).for = p /\ Asking(p, h).host = h
  BY DEF Idle, Asking
<1> QED BY <1>1, <1>2, <1>3, <1>4, <1>5 DEF S, P, WorkerStates

\* One worker goes on to another state.
LEMMA WorkerMoves ==
    ASSUME WorkersTyped, NEW w \in Workers, NEW s \in WorkerStates,
           worker' = [worker EXCEPT ![w] = s],
           s.stage # "idle" => s.for \in Purposes /\ s.host \in Hosts,
           s.stage = "pictures" => s.left # <<>> /\ s.page \in Pages
    PROVE  WorkersTyped' /\ worker'[w] = s /\ \A u \in Workers \ {w} : worker'[u] = worker[u]
<1>1. /\ worker' \in [Workers -> WorkerStates] /\ worker'[w] = s
      /\ \A u \in Workers \ {w} : worker'[u] = worker[u]
  BY DEF WorkersTyped
<1> QED BY <1>1 DEF WorkersTyped

\* A block is dispatched to the main queue.
LEMMA QueueTypedGrows ==
    ASSUME QueueTyped, NEW b \in Blocks, mainQueue' = Append(mainQueue, b),
           b.do = "label" => b.page \in Pages
    PROVE  QueueTyped'
<1>1. QueueTyped <=> mainQueue \in Seq(Blocks) /\ \A i \in DOMAIN mainQueue :
         mainQueue[i].do = "label" => mainQueue[i].page \in Pages
  BY DEF QueueTyped
<1>2. /\ mainQueue' \in Seq(Blocks)
      /\ \A j \in DOMAIN mainQueue' :
            mainQueue'[j] = b \/ (j \in DOMAIN mainQueue /\ mainQueue'[j] = mainQueue[j])
  BY <1>1, QueueGrows
<1> QED BY <1>1, <1>2 DEF QueueTyped

LEMMA QueueTypedShrinks ==
    ASSUME QueueTyped, mainQueue # <<>>, mainQueue' = Tail(mainQueue)
    PROVE  QueueTyped'
BY QueueShrinks DEF QueueTyped

(***************************************************************************)
(* What keeps the screen coherent.                                         *)
(***************************************************************************)

\* Steps that neither show anything nor fetch a picture.
LEMMA NothingShown ==
    ASSUME Coherent, UNCHANGED <<mixed, switched, label, picture>>,
           \A w \in Workers : \/ worker'[w] = worker[w]
                              \/ worker[w].stage # "pictures" /\ worker'[w].stage # "pictures",
           \A i \in DOMAIN mainQueue : Shows(mainQueue[i]) =>
               \E j \in DOMAIN mainQueue' : mainQueue'[j] = mainQueue[i],
           \A j \in DOMAIN mainQueue' : Shows(mainQueue'[j]) =>
               \E i \in DOMAIN mainQueue : mainQueue'[j] = mainQueue[i]
    PROVE  Coherent'
<1>1. Blank => Blank'
  BY DEF Blank
<1>2. ASSUME NEW n \in Pages, NEW h \in Hosts, Shown(n, h) PROVE Shown(n, h)'
  <2>1. AllOf(n, h) /\ LabelComes(n) /\ (~switched => h = n.tv)
        /\ \A v \in ToSet(NamedViews(n.slide)) : PictureComes(v, n, h)
    BY <1>2 DEF Shown
  <2>2. AllOf(n, h)'
    BY <2>1 DEF AllOf, Shows
  <2>3. LabelComes(n)'
    BY <2>1 DEF LabelComes, Shows
  <2>4. ASSUME NEW v \in ToSet(NamedViews(n.slide)), PictureComes(v, n, h)
        PROVE  PictureComes(v, n, h)'
    <3>1. v \in ToSet(Views)
      BY NamedAre, InSequence
    <3>2. ASSUME NEW i \in DOMAIN mainQueue, mainQueue[i].do = v
          PROVE  \E j \in DOMAIN mainQueue' : mainQueue'[j].do = v
      BY <3>1, <3>2 DEF Shows
    <3> QED BY <2>4, <3>2 DEF PictureComes
  <2> QED BY <2>1, <2>2, <2>3, <2>4 DEF Shown
<1> QED BY <1>1, <1>2 DEF Coherent

LEMMA SameTimers ==
    ASSUME TimersCounted, UNCHANGED <<timers, dateTimeTimer, raced>>,
           \A w \in Workers : \/ worker'[w] = worker[w]
                              \/ worker[w].stage # "clearing" /\ worker'[w].stage # "clearing"
    PROVE  TimersCounted'
<1>1. Clearing' <=> Clearing
  BY DEF Clearing
<1> QED BY <1>1 DEF TimersCounted

LEMMA TimersFinite ==
    ASSUME TypeOK
    PROVE  IsFiniteSet(timers) /\ Cardinality(timers) \in Nat
<1>1. IsFiniteSet(TimerIds)
  BY FS_Interval, BoundAssumption DEF TimerIds
<1> QED BY <1>1, FS_Subset, FS_CardinalityType DEF TypeOK

(***************************************************************************)
(* One lemma for each kind of step.                                        *)
(***************************************************************************)

LEMMA StartStep ==
    ASSUME SlideInv, StartDateTimer
    PROVE  SlideInv'
<1>1. TypeOK /\ TimersCounted /\ Coherent
  BY DEF SlideInv
<1>2. /\ UNCHANGED <<slide, up, host, mainQueue, worker, window, label, picture>>
      /\ UNCHANGED <<asked, mixed, switched>>
      /\ starts' = starts + 1 /\ dateTimeTimer' = starts' /\ timers' = timers \cup {starts'}
      /\ raced' = raced + (IF dateTimeTimer # Nil \/ Clearing THEN 1 ELSE 0)
      /\ starts + asked < MaxUses
  BY DEF StartDateTimer, tv, screen
<1>3. /\ starts \in Nat /\ asked \in Nat /\ raced \in 0..starts /\ starts' \in TimerIds
      /\ MaxUses \in Nat
  BY <1>1, <1>2, BoundAssumption DEF TypeOK, TimerIds
<1>4. TypeOK'
  <2>1. raced' = raced \/ raced' = raced + 1
    BY <1>2, <1>3
  <2>2. starts' \in 0..MaxUses /\ raced' \in 0..starts'
    BY <1>2, <1>3, <2>1
  <2>3. timers' \subseteq TimerIds /\ dateTimeTimer' \in TimerIds
    BY <1>1, <1>2, <1>3 DEF TypeOK
  <2> QED BY <1>1, <1>2, <2>2, <2>3 DEF TypeOK
<1>5. Coherent'
  BY <1>1, <1>2, NothingShown
<1>6. TimersCounted'
  <2>1. /\ Cardinality(timers') <= Cardinality(timers) + 1
        /\ Cardinality(timers) \in Nat /\ Cardinality(timers') \in Nat
    <3>1. Cardinality(timers) \in Nat /\ IsFiniteSet(timers)
      BY <1>1, TimersFinite
    <3>2. Cardinality(timers') = IF starts' \in timers THEN Cardinality(timers)
                                 ELSE Cardinality(timers) + 1
      BY <1>2, <3>1, FS_AddElement
    <3> QED BY <3>1, <3>2
  <2>2. Clearing' <=> Clearing
    BY <1>2 DEF Clearing
  <2>3. dateTimeTimer' \in timers'
    BY <1>2
  <2>4. dateTimeTimer = Nil => dateTimeTimer \notin timers
    BY <1>1, NilAssumption DEF TypeOK, TimerIds
  <2>5. CASE Clearing
    <3>1. Cardinality(timers) <= raced
      BY <1>1, <1>3, <2>5 DEF TimersCounted
    <3>2. raced' = raced + 1
      BY <1>2, <2>5
    <3> QED BY <1>3, <2>1, <2>2, <2>5, <3>1, <3>2 DEF TimersCounted
  <2>6. CASE ~Clearing /\ dateTimeTimer = Nil
    <3>1. Cardinality(timers) <= raced
      BY <1>1, <1>3, <2>4, <2>6 DEF TimersCounted
    <3>2. raced' = raced
      BY <1>2, <1>3, <2>6
    <3> QED BY <1>3, <2>1, <2>2, <2>3, <2>6, <3>1, <3>2 DEF TimersCounted
  <2>7. CASE ~Clearing /\ dateTimeTimer # Nil
    <3>1. Cardinality(timers) <= raced + 1
      BY <1>1, <1>3, <2>1 DEF TimersCounted
    <3>2. raced' = raced + 1
      BY <1>2, <2>7
    <3> QED BY <1>3, <2>1, <2>2, <2>3, <2>7, <3>1, <3>2 DEF TimersCounted
  <2> QED BY <2>5, <2>6, <2>7
<1> QED BY <1>4, <1>5, <1>6 DEF SlideInv

\* A block that shows nothing waits behind the others, and one idle worker may begin.
LEMMA AskStep ==
    ASSUME SlideInv, UNCHANGED <<polling, screen, slide, up, host, raced, starts, mixed, switched>>,
           asked' \in 0..MaxUses,
           \/ UNCHANGED worker
           \/ host # Nil /\ \E p \in Purposes : Starts(p),
           \/ UNCHANGED mainQueue
           \/ mainQueue' = Append(mainQueue, Block("poll", Nil))
           \/ mainQueue' = Append(mainQueue, Block("close", Nil))
    PROVE  SlideInv'
<1>1. TypeOK /\ TimersCounted /\ Coherent /\ QueueTyped /\ WorkersTyped
  BY Typed DEF SlideInv
<1>2. /\ UNCHANGED <<slide, up, host, timers, dateTimeTimer>>
      /\ UNCHANGED <<window, label, picture, raced, starts, mixed, switched>>
  BY DEF polling, screen
<1>3. /\ WorkersTyped'
      /\ \A w \in Workers : \/ worker'[w] = worker[w]
                            \/ worker[w].stage = "idle" /\ worker'[w].stage = "asking"
  <2>1. CASE UNCHANGED worker
    BY <1>1, <2>1 DEF WorkersTyped
  <2>2. ASSUME NEW p \in Purposes, host # Nil, Starts(p)
        PROVE  /\ WorkersTyped'
               /\ \A w \in Workers : \/ worker'[w] = worker[w]
                                     \/ worker[w].stage = "idle" /\ worker'[w].stage = "asking"
    <3>1. PICK w \in Workers : worker[w] = Idle /\ worker' = [worker EXCEPT ![w] = Asking(p, host)]
      BY <2>2 DEF Starts
    <3>2. /\ Asking(p, host) \in WorkerStates /\ Asking(p, host).stage = "asking"
          /\ Asking(p, host).for \in Purposes /\ Asking(p, host).host \in Hosts
          /\ Idle.stage = "idle"
      BY <1>1, <2>2, WorkerKinds DEF TypeOK
    <3> QED BY <1>1, <3>1, <3>2, WorkerMoves
  <2> QED BY <2>1, <2>2
<1>4. /\ QueueTyped'
      /\ \A i \in DOMAIN mainQueue : \E j \in DOMAIN mainQueue' : mainQueue'[j] = mainQueue[i]
      /\ \A j \in DOMAIN mainQueue' : Shows(mainQueue'[j]) =>
            \E i \in DOMAIN mainQueue : mainQueue'[j] = mainQueue[i]
  <2>1. CASE UNCHANGED mainQueue
    BY <1>1, <2>1 DEF QueueTyped
  <2>2. ASSUME NEW what \in {"poll", "close"}, mainQueue' = Append(mainQueue, Block(what, Nil))
        PROVE  /\ QueueTyped'
               /\ \A i \in DOMAIN mainQueue : \E j \in DOMAIN mainQueue' :
                     mainQueue'[j] = mainQueue[i]
               /\ \A j \in DOMAIN mainQueue' : Shows(mainQueue'[j]) =>
                     \E i \in DOMAIN mainQueue : mainQueue'[j] = mainQueue[i]
    <3>1. PICK b : b = Block(what, Nil)
      OBVIOUS
    <3>2. b \in Blocks /\ b.do \in {"poll", "close"}
      BY <3>1, BlockFacts
    <3>3. ~Shows(b) /\ b.do # "label"
      BY <3>2, ViewsAre DEF Shows
    <3>4. mainQueue \in Seq(Blocks)
      BY <1>1 DEF QueueTyped
    <3> QED BY <1>1, <2>2, <3>1, <3>2, <3>3, <3>4, QueueGrows, QueueTypedGrows
  <2> QED BY <2>1, <2>2
<1>5. TypeOK'
  BY <1>1, <1>2, <1>3, <1>4 DEF TypeOK, QueueTyped, WorkersTyped
<1>6. Coherent'
  BY <1>1, <1>2, <1>3, <1>4, NothingShown
<1>7. TimersCounted'
  BY <1>1, <1>2, <1>3, SameTimers
<1> QED BY <1>5, <1>6, <1>7 DEF SlideInv
\* A request ends and shows neither a label nor a picture.  The last two hypotheses are those
\* of the timer.
LEMMA EndStep ==
    ASSUME SlideInv, NEW w \in Workers, worker[w].stage \in {"asking", "clearing"},
           worker' = [worker EXCEPT ![w] = Idle],
           \/ UNCHANGED mainQueue
           \/ \E what \in {"open", "close"} : mainQueue' = Append(mainQueue, Block(what, Nil)),
           UNCHANGED <<screen, slide, up, host, raced, starts, asked, mixed, switched, timers>>,
           dateTimeTimer' \in {dateTimeTimer, Nil},
           worker[w].stage = "asking" => UNCHANGED dateTimeTimer
    PROVE  SlideInv'
<1>1. TypeOK /\ TimersCounted /\ Coherent /\ QueueTyped /\ WorkersTyped
  BY Typed DEF SlideInv
<1>2. /\ UNCHANGED <<slide, up, host, window, label, picture>>
      /\ UNCHANGED <<raced, starts, asked, mixed, switched, timers>>
  BY DEF screen
<1>3. /\ WorkersTyped'
      /\ worker'[w].stage = "idle"
      /\ \A u \in Workers \ {w} : worker'[u] = worker[u]
  <2>1. PICK idle : idle = Idle
    OBVIOUS
  <2>2. idle \in WorkerStates /\ idle.stage = "idle" /\ worker' = [worker EXCEPT ![w] = idle]
    BY <2>1, WorkerKinds
  <2> QED BY <1>1, <2>2, WorkerMoves
<1>4. /\ QueueTyped'
      /\ \A i \in DOMAIN mainQueue : \E j \in DOMAIN mainQueue' : mainQueue'[j] = mainQueue[i]
      /\ \A j \in DOMAIN mainQueue' : Shows(mainQueue'[j]) =>
            \E i \in DOMAIN mainQueue : mainQueue'[j] = mainQueue[i]
  <2>1. CASE UNCHANGED mainQueue
    BY <1>1, <2>1 DEF QueueTyped
  <2>2. ASSUME NEW what \in {"open", "close"}, mainQueue' = Append(mainQueue, Block(what, Nil))
        PROVE  /\ QueueTyped'
               /\ \A i \in DOMAIN mainQueue : \E j \in DOMAIN mainQueue' :
                     mainQueue'[j] = mainQueue[i]
               /\ \A j \in DOMAIN mainQueue' : Shows(mainQueue'[j]) =>
                     \E i \in DOMAIN mainQueue : mainQueue'[j] = mainQueue[i]
    <3>1. PICK b : b = Block(what, Nil)
      OBVIOUS
    <3>2. b \in Blocks /\ b.do \in {"open", "close"}
      BY <3>1, BlockFacts
    <3>3. ~Shows(b) /\ b.do # "label"
      BY <3>2, ViewsAre DEF Shows
    <3>4. mainQueue \in Seq(Blocks)
      BY <1>1 DEF QueueTyped
    <3> QED BY <1>1, <2>2, <3>1, <3>2, <3>3, <3>4, QueueGrows, QueueTypedGrows
  <2> QED BY <2>1, <2>2
<1>5. TypeOK'
  BY <1>1, <1>2, <1>3, <1>4 DEF TypeOK, QueueTyped, WorkersTyped
<1>6. Coherent'
  BY <1>1, <1>2, <1>3, <1>4, NothingShown
<1>7. TimersCounted'
  <2>1. CASE worker[w].stage = "asking"
    BY <1>1, <1>2, <1>3, <2>1, SameTimers
  <2>2. CASE worker[w].stage = "clearing"
    <3>1. Clearing
      BY <2>2 DEF Clearing
    <3>2. Cardinality(timers) <= raced + 0
      BY <1>1, <3>1 DEF TimersCounted
    <3>3. raced \in Nat /\ Cardinality(timers) \in Nat
      BY <1>1, TimersFinite DEF TypeOK
    <3> QED BY <1>2, <3>2, <3>3 DEF TimersCounted
  <2> QED BY <2>1, <2>2
<1> QED BY <1>5, <1>6, <1>7 DEF SlideInv

LEMMA RefusedStep ==
    ASSUME SlideInv, NEW w \in Workers, InfoRefused(w)
    PROVE  SlideInv'
<1>1. TypeOK /\ TimersCounted /\ Coherent /\ QueueTyped /\ WorkersTyped
  BY Typed DEF SlideInv
<1>2. /\ worker[w].stage = "asking" /\ timers' = timers \ {dateTimeTimer}
      /\ worker' = [worker EXCEPT ![w].stage = "clearing"]
      /\ UNCHANGED <<slide, up, host, dateTimeTimer, mainQueue, window, label, picture>>
      /\ UNCHANGED <<starts, asked, raced, mixed, switched>>
  BY DEF InfoRefused, tv, screen, history
<1>3. /\ WorkersTyped'
      /\ worker'[w].stage = "clearing"
      /\ \A u \in Workers \ {w} : worker'[u] = worker[u]
  <2>1. PICK s : s = [worker[w] EXCEPT !.stage = "clearing"]
    OBVIOUS
  <2>2. worker' = [worker EXCEPT ![w] = s] /\ worker[w] \in WorkerStates
        /\ worker[w].for \in Purposes /\ worker[w].host \in Hosts
    BY <1>1, <1>2, <2>1 DEF WorkersTyped
  <2>3. /\ s \in WorkerStates /\ s.stage = "clearing"
        /\ s.for = worker[w].for /\ s.host = worker[w].host
    <3> DEFINE S == Seq(ToSet(Views))
    <3>1. worker[w] \in [stage : {"idle", "asking", "pictures", "clearing"},
                         for : Purposes \cup {"none"}, host : Hosts \cup {Nil},
                         page : Pages \cup {Nil}, left : S]
      BY <2>2 DEF WorkerStates
    <3> HIDE DEF S
    <3>2. s \in [stage : {"idle", "asking", "pictures", "clearing"},
                         for : Purposes \cup {"none"}, host : Hosts \cup {Nil},
                         page : Pages \cup {Nil}, left : S]
      BY <2>1, <3>1
    <3>3. s.stage = "clearing" /\ s.for = worker[w].for /\ s.host = worker[w].host
      BY <2>1, <3>1
    <3> QED BY <3>2, <3>3 DEF S, WorkerStates
  <2> QED BY <1>1, <2>2, <2>3, WorkerMoves
<1>4. TypeOK'
  BY <1>1, <1>2, <1>3 DEF TypeOK, WorkersTyped
<1>5. Coherent'
  BY <1>1, <1>2, <1>3, NothingShown
<1>6. TimersCounted'
  <2>1. raced \in Nat /\ Cardinality(timers) \in Nat /\ IsFiniteSet(timers)
    BY <1>1, TimersFinite DEF TypeOK
  <2>2. Cardinality(timers') = IF dateTimeTimer \in timers THEN Cardinality(timers) - 1
                               ELSE Cardinality(timers)
    BY <1>2, <2>1, FS_RemoveElement
  <2>3. Cardinality(timers') <= raced
    <3>1. CASE dateTimeTimer \in timers
      <4>1. Cardinality(timers) <= raced + 1
        BY <1>1, <2>1 DEF TimersCounted
      <4> QED BY <2>1, <2>2, <3>1, <4>1
    <3>2. CASE dateTimeTimer \notin timers
      <4>1. Cardinality(timers) <= raced
        BY <1>1, <2>1, <3>2 DEF TimersCounted
      <4> QED BY <2>1, <2>2, <3>2, <4>1
    <3> QED BY <3>1, <3>2
  <2>4. Clearing'
    BY <1>3 DEF Clearing
  <2> QED BY <1>2, <2>1, <2>3, <2>4 DEF TimersCounted
<1> QED BY <1>4, <1>5, <1>6 DEF SlideInv
\* What a worker is that fetches pictures.
LEMMA Fetcher ==
    ASSUME NEW h \in Hosts, NEW n \in Pages, NEW left \in Seq(ToSet(Views)), NEW s,
           s = [stage |-> "pictures", for |-> "screen", host |-> h, page |-> n, left |-> left]
    PROVE  /\ s \in WorkerStates /\ s.stage = "pictures" /\ s.for \in Purposes
           /\ s.host = h /\ s.page = n /\ s.left = left
<1> DEFINE S == Seq(ToSet(Views))
           P == Pages \cup {Nil}
<1>1. left \in S /\ n \in P
  OBVIOUS
<1> HIDE DEF S, P
<1>2. s \in [stage : {"idle", "asking", "pictures", "clearing"}, for : Purposes \cup {"none"},
             host : Hosts \cup {Nil}, page : P, left : S]
  BY <1>1 DEF Purposes
<1>3. s.stage = "pictures" /\ s.for \in Purposes /\ s.host = h /\ s.page = n /\ s.left = left
  BY DEF Purposes
<1> QED BY <1>2, <1>3 DEF S, P, WorkerStates

LEMMA PageFacts ==
    /\ \A h \in Hosts, n \in Slides : Page(h, n) \in Pages /\ Page(h, n).tv = h
    /\ \A h \in Hosts : Page(h, Nil) \in Shots /\ Page(h, Nil).tv = h
    /\ Pages \subseteq Shots
BY DEF Page, Pages, Strays, Shots

\* The answer to a poll while a host is chosen.
LEMMA AnswerStep ==
    ASSUME SlideInv, NEW w \in Workers, InfoArrives(w), worker[w].for = "screen", host # Nil
    PROVE  SlideInv'
<1>1. TypeOK /\ TimersCounted /\ Coherent /\ QueueTyped /\ WorkersTyped
  BY Typed DEF SlideInv
<1> DEFINE Showing0 == \/ \E u \in Workers : worker[u].stage = "pictures"
                       \/ \E i \in DOMAIN mainQueue : Shows(mainQueue[i])
<1>2. PICK n, s, b : /\ n = Page(worker[w].host, slide[worker[w].host])
                     /\ b = Block("label", n)
                     /\ s = [stage |-> "pictures", for |-> "screen", host |-> host,
                             page |-> n, left |-> NamedViews(n.slide)]
  OBVIOUS
<1>3. worker[w].stage = "asking" /\ ShowInfo(w)
      /\ UNCHANGED <<slide, up, host, timers, dateTimeTimer, window, label, picture>>
      /\ UNCHANGED <<starts, asked, raced>>
  BY DEF InfoArrives, Purposes, tv, polling, screen
<1>4. /\ worker' = [worker EXCEPT ![w] = s]
      /\ mainQueue' = Append(mainQueue, b)
      /\ mixed' = Showing0
      /\ switched' = (host # worker[w].host)
  BY <1>2, <1>3 DEF ShowInfo
<1>5. mixed' \in BOOLEAN /\ switched' \in BOOLEAN
  BY <1>4
<1>6. /\ worker[w].host \in Hosts /\ host \in Hosts
      /\ slide[worker[w].host] \in Slides
  BY <1>1, <1>3 DEF TypeOK, WorkersTyped
<1>7. n \in Pages /\ n.tv = worker[w].host
  BY <1>2, <1>6, PageFacts
<1>8. NamedViews(n.slide) \in Seq(ToSet(Views)) /\ NamedViews(n.slide) # <<>>
  BY NamedAre
<1>9. /\ s \in WorkerStates /\ s.stage = "pictures" /\ s.for \in Purposes
      /\ s.host = host /\ s.page = n /\ s.left = NamedViews(n.slide)
  BY <1>2, <1>6, <1>7, <1>8, Fetcher
<1>10. /\ WorkersTyped' /\ worker'[w] = s
       /\ \A u \in Workers \ {w} : worker'[u] = worker[u]
  BY <1>1, <1>4, <1>6, <1>7, <1>8, <1>9, WorkerMoves
<1>11. b \in Blocks /\ b.do = "label" /\ b.page = n
  BY <1>2, <1>7, BlockFacts, PageFacts
<1>12. /\ QueueTyped'
       /\ \A j \in DOMAIN mainQueue' :
             mainQueue'[j] = b \/ (j \in DOMAIN mainQueue /\ mainQueue'[j] = mainQueue[j])
       /\ \E j \in DOMAIN mainQueue' : mainQueue'[j] = b
  <2>1. mainQueue \in Seq(Blocks)
    BY <1>1 DEF QueueTyped
  <2> QED BY <1>1, <1>4, <1>7, <1>11, <2>1, QueueGrows, QueueTypedGrows
<1>13. TypeOK'
  BY <1>1, <1>3, <1>5, <1>10, <1>12 DEF TypeOK, QueueTyped, WorkersTyped
<1>14. TimersCounted'
  BY <1>1, <1>3, <1>9, <1>10, SameTimers
<1>15. Coherent'
  <2> SUFFICES ASSUME ~mixed' PROVE Shown(n, host)'
    BY <1>3, <1>6, <1>7 DEF Coherent
  <2>1. /\ \A u \in Workers : worker[u].stage # "pictures"
        /\ \A i \in DOMAIN mainQueue : ~Shows(mainQueue[i])
    BY <1>4
  <2>2. \A j \in DOMAIN mainQueue' : Shows(mainQueue'[j]) => mainQueue'[j] = b
    BY <1>12, <2>1
  <2>3. "label" \notin ToSet(Views)
    BY ViewsAre
  <2>4. AllOf(n, host)'
    BY <1>3, <1>9, <1>10, <1>11, <2>1, <2>2, <2>3 DEF AllOf, Shows
  <2>5. LabelComes(n)'
    BY <1>11, <1>12 DEF LabelComes
  <2>6. \A v \in ToSet(NamedViews(n.slide)) : PictureComes(v, n, host)'
    BY <1>3, <1>9, <1>10 DEF PictureComes
  <2> QED BY <1>3, <1>4, <1>7, <2>4, <2>5, <2>6 DEF Shown
<1> QED BY <1>13, <1>14, <1>15 DEF SlideInv

\* The answer to a command of the keyboard, and to a poll when the host is gone.
LEMMA QuietAnswerStep ==
    ASSUME SlideInv, NEW w \in Workers, InfoArrives(w),
           worker[w].for = "command" \/ host = Nil
    PROVE  SlideInv'
<1>1. /\ worker[w].stage = "asking"
      /\ UNCHANGED <<screen, slide, up, host, raced, starts, asked, timers, dateTimeTimer>>
  BY DEF InfoArrives, tv, polling
<1>2. /\ UNCHANGED <<mixed, switched>>
      /\ worker' = [worker EXCEPT ![w] = Idle]
      /\ UNCHANGED mainQueue \/ mainQueue' = Append(mainQueue, Block("open", Nil))
  BY DEF InfoArrives, ShowInfo
<1> QED BY <1>1, <1>2, EndStep

LEMMA PictureStep ==
    ASSUME SlideInv, NEW w \in Workers, PictureArrives(w)
    PROVE  SlideInv'
<1>1. TypeOK /\ TimersCounted /\ Coherent /\ QueueTyped /\ WorkersTyped
  BY Typed DEF SlideInv
<1>a. PICK rest : rest = Tail(worker[w].left)
  OBVIOUS
<1>b. Len(worker[w].left) # 1 => Fetched(worker[w]) = [worker[w] EXCEPT !.left = rest]
  BY <1>a DEF Fetched
<1>c. Len(worker[w].left) = 1 => Fetched(worker[w]) = Idle
  BY DEF Fetched
<1>2. PICK got \in Pictures(worker[w]) :
         mainQueue' = Append(mainQueue, Block(Head(worker[w].left), got))
  BY DEF PictureArrives
<1>d. PICK old, n, left, view, b, s :
         /\ old = worker[w] /\ n = worker[w].page /\ left = worker[w].left
         /\ view = Head(worker[w].left)
         /\ b = Block(Head(worker[w].left), got)
         /\ s = Fetched(worker[w])
  OBVIOUS
<1>3. /\ old.stage = "pictures"
      /\ mainQueue' = Append(mainQueue, b)
      /\ worker' = [worker EXCEPT ![w] = s]
      /\ UNCHANGED <<slide, up, host, timers, dateTimeTimer, window, label, picture>>
      /\ UNCHANGED <<starts, asked, raced, mixed, switched>>
      /\ rest = Tail(left) /\ b = Block(view, got)
  BY <1>a, <1>2, <1>d DEF PictureArrives, tv, polling, screen, history
<1>4. /\ old \in WorkerStates /\ old.for \in Purposes /\ old.host \in Hosts
      /\ n \in Pages /\ old.page = n /\ left \in Seq(ToSet(Views)) /\ left # <<>>
  BY <1>1, <1>d, <1>3 DEF WorkersTyped, WorkerStates
<1>e. got \in Shots \cup {Nil} /\ Fits(got, n, old.host)
  <2>1. got \in Pictures(old)
    BY <1>2, <1>d
  <2>2. \/ got = Nil
        \/ old.host = n.tv /\ got = n
        \/ old.host # n.tv /\ got = Page(old.host, Nil)
    BY <1>4, <2>1 DEF Pictures
  <2>3. Page(old.host, Nil) \in Shots /\ Page(old.host, Nil).tv = old.host
    BY <1>4, PageFacts
  <2> QED BY <1>4, <2>2, <2>3 DEF Fits, Shots
<1>5. /\ view \in ToSet(left) /\ view \in ToSet(Views)
      /\ Tail(left) \in Seq(ToSet(Views))
      /\ \A v \in ToSet(left) : v = view \/ v \in ToSet(Tail(left))
      /\ Len(left) # 1 => Tail(left) # <<>>
      /\ Len(left) = 1 => ToSet(Tail(left)) = {}
  <2> DEFINE S == ToSet(Views)
  <2>1. left \in Seq(S) /\ left # <<>>
    BY <1>4
  <2> HIDE DEF S
  <2>2. PICK tail : tail = Tail(left)
    OBVIOUS
  <2>3. /\ tail \in Seq(S) /\ Len(tail) = Len(left) - 1
        /\ DOMAIN tail = 1..Len(tail) /\ Len(left) \in Nat
    BY <2>1, <2>2, HeadTailProperties, LenProperties
  <2>4. Len(left) # 1 => tail # <<>>
    BY <2>3, EmptySeq
  <2>5. Len(left) = 1 => ToSet(tail) = {}
    BY <2>3 DEF ToSet
  <2>6. /\ view \in ToSet(left) /\ view \in S
        /\ \A v \in ToSet(left) : v = view \/ v \in ToSet(Tail(left))
    BY <1>d, <2>1, InSequence
  <2> QED BY <2>2, <2>3, <2>4, <2>5, <2>6 DEF S
<1>6. b \in Blocks /\ b.do = view /\ b.page = got /\ b.do # "label"
  <2>1. b \in Blocks /\ b.do = view /\ b.page = got
    BY <1>3, <1>5, <1>e, BlockFacts
  <2> QED BY <1>5, <2>1, ViewsAre
<1>7. /\ s \in WorkerStates
      /\ \/ s.stage = "idle" /\ ToSet(Tail(left)) = {}
         \/ /\ s.stage = "pictures" /\ s.for \in Purposes
            /\ s.host = old.host /\ s.page = n /\ s.left = Tail(left) /\ s.left # <<>>
  <2>1. CASE Len(left) = 1
    BY <1>c, <1>d, <1>5, <2>1, WorkerKinds
  <2>2. CASE Len(left) # 1
    <3> DEFINE S == Seq(ToSet(Views))
    <3>1. /\ old \in [stage : {"idle", "asking", "pictures", "clearing"},
                      for : Purposes \cup {"none"}, host : Hosts \cup {Nil},
                    page : Pages \cup {Nil}, left : S]
          /\ Tail(left) \in S
      BY <1>4, <1>5 DEF WorkerStates
    <3> HIDE DEF S
    <3>2. old = worker[w] /\ s = [worker[w] EXCEPT !.left = rest] /\ rest \in S
      BY <1>b, <1>d, <1>3, <2>2, <3>1
    <3>3. /\ s \in [stage : {"idle", "asking", "pictures", "clearing"},
                    for : Purposes \cup {"none"}, host : Hosts \cup {Nil},
                    page : Pages \cup {Nil}, left : S]
          /\ s.stage = old.stage /\ s.for = old.for /\ s.left = rest
          /\ s.host = old.host /\ s.page = old.page
      BY <3>1, <3>2
    <3> QED BY <1>d, <1>3, <1>4, <1>5, <2>2, <3>3 DEF S, WorkerStates
  <2> QED BY <2>1, <2>2
<1>8. /\ WorkersTyped' /\ worker'[w] = s
      /\ \A u \in Workers \ {w} : worker'[u] = worker[u]
  BY <1>1, <1>3, <1>4, <1>7, WorkerMoves
<1>9. /\ QueueTyped'
      /\ \A i \in DOMAIN mainQueue : i \in DOMAIN mainQueue' /\ mainQueue'[i] = mainQueue[i]
      /\ \A j \in DOMAIN mainQueue' :
            mainQueue'[j] = b \/ (j \in DOMAIN mainQueue /\ mainQueue'[j] = mainQueue[j])
      /\ \E j \in DOMAIN mainQueue' : mainQueue'[j] = b
  <2>1. mainQueue \in Seq(Blocks)
    BY <1>1 DEF QueueTyped
  <2> QED BY <1>1, <1>3, <1>6, <2>1, QueueGrows, QueueTypedGrows
<1>10. TypeOK'
  BY <1>1, <1>3, <1>8, <1>9 DEF TypeOK, QueueTyped, WorkersTyped
<1>11. TimersCounted'
  BY <1>1, <1>d, <1>3, <1>7, <1>8, SameTimers
<1>12. Coherent'
  <2> SUFFICES ASSUME ~mixed PROVE \E m \in Pages, h \in Hosts : Shown(m, h)'
    BY <1>3 DEF Coherent
  <2>1. PICK m \in Pages, h \in Hosts : Shown(m, h)
    <3>1. ~Blank
      BY <1>d, <1>3 DEF Blank
    <3> QED BY <1>1, <3>1 DEF Coherent
  <2>2. /\ AllOf(m, h) /\ LabelComes(m) /\ (~switched => h = m.tv)
        /\ \A v \in ToSet(NamedViews(m.slide)) : PictureComes(v, m, h)
    BY <2>1 DEF Shown
  <2>3. m = n /\ h = old.host
    BY <1>d, <1>3, <2>2 DEF AllOf
  <2>4. Fits(got, m, h)
    BY <1>e, <2>3
  <2>5. AllOf(m, h)'
    <3>1. \A u \in Workers : worker'[u].stage = "pictures" =>
             worker'[u].page = m /\ worker'[u].host = h
      BY <1>7, <1>8, <2>2, <2>3 DEF AllOf
    <3>2. \A i \in DOMAIN mainQueue' : mainQueue'[i].do = "label" => mainQueue'[i].page = m
      BY <1>6, <1>9, <2>2 DEF AllOf
    <3>3. \A i \in DOMAIN mainQueue' :
             mainQueue'[i].do \in ToSet(Views) => Fits(mainQueue'[i].page, m, h)
      BY <1>6, <1>9, <2>2, <2>4 DEF AllOf
    <3> QED BY <3>1, <3>2, <3>3 DEF AllOf
  <2>6. LabelComes(m)'
    BY <1>3, <1>9, <2>2 DEF LabelComes
  <2>7. ASSUME NEW v \in ToSet(NamedViews(m.slide)), PictureComes(v, m, h)
        PROVE  PictureComes(v, m, h)'
    <3>1. CASE Fits(picture[v], m, h)
      BY <1>3, <3>1 DEF PictureComes
    <3>2. CASE \E i \in DOMAIN mainQueue : mainQueue[i].do = v
      BY <1>9, <3>2 DEF PictureComes
    <3>3. ASSUME NEW u \in Workers, worker[u].stage = "pictures", v \in ToSet(worker[u].left)
          PROVE  PictureComes(v, m, h)'
      <4>1. CASE u # w
        BY <1>8, <3>3, <4>1 DEF PictureComes
      <4>2. CASE u = w /\ v = view
        BY <1>6, <1>9, <4>2 DEF PictureComes
      <4>3. CASE u = w /\ v # view
        BY <1>d, <1>5, <1>7, <1>8, <3>3, <4>3 DEF PictureComes
      <4> QED BY <4>1, <4>2, <4>3
    <3> QED BY <2>7, <3>1, <3>2, <3>3 DEF PictureComes
  <2> QED BY <1>3, <2>2, <2>5, <2>6, <2>7 DEF Shown
<1> QED BY <1>10, <1>11, <1>12 DEF SlideInv
\* The main thread opens or closes the window, names a slide, or shows a picture: the block
\* is gone, and what it said is on the screen.
LEMMA ShowStep ==
    ASSUME SlideInv, NEW b, mainQueue # <<>>, b = Head(mainQueue), b.do # "poll",
           mainQueue' = Tail(mainQueue),
           UNCHANGED <<slide, up, host, polling, worker, starts, asked, raced, mixed, switched>>,
           window' \in BOOLEAN,
           label' = IF b.do = "label" THEN b.page ELSE label,
           b.do \notin ToSet(Views) => UNCHANGED picture,
           b.do \in ToSet(Views) => picture' = [picture EXCEPT ![b.do] = b.page]
    PROVE  SlideInv'
<1>1. TypeOK /\ TimersCounted /\ Coherent /\ QueueTyped /\ WorkersTyped
  BY Typed DEF SlideInv
<1>2. UNCHANGED <<timers, dateTimeTimer>>
  BY DEF polling
<1>3. /\ b \in Blocks /\ 1 \in DOMAIN mainQueue /\ mainQueue[1] = b
      /\ \A j \in DOMAIN mainQueue' : \E i \in DOMAIN mainQueue : mainQueue'[j] = mainQueue[i]
      /\ \A i \in DOMAIN mainQueue :
            mainQueue[i] = b \/ \E j \in DOMAIN mainQueue' : mainQueue'[j] = mainQueue[i]
  BY <1>1, QueueShrinks DEF QueueTyped
<1>4. /\ b.do \in ToSet(Views) \cup {"open", "label", "poll", "close"}
      /\ b.page \in Shots \cup {Nil}
      /\ b.do = "label" => b.page \in Pages
  BY <1>1, <1>3 DEF Blocks, QueueTyped
<1>5. QueueTyped'
  BY <1>1, QueueTypedShrinks
<1>6. /\ picture' \in [ToSet(Views) -> Shots \cup {Nil}]
      /\ \A v \in ToSet(Views) : picture'[v] = IF v = b.do THEN b.page ELSE picture[v]
  <2>1. picture \in [ToSet(Views) -> Shots \cup {Nil}]
    BY <1>1 DEF TypeOK
  <2>2. CASE b.do \in ToSet(Views)
    BY <1>4, <2>1, <2>2
  <2>3. CASE b.do \notin ToSet(Views)
    BY <2>1, <2>3
  <2> QED BY <2>2, <2>3
<1>7. label' \in Pages \cup {Nil}
  BY <1>1, <1>4 DEF TypeOK
<1>8. WorkersTyped'
  BY <1>1 DEF WorkersTyped
<1>9. TypeOK'
  BY <1>1, <1>2, <1>5, <1>6, <1>7, <1>8 DEF TypeOK, QueueTyped, WorkersTyped
<1>10. TimersCounted'
  BY <1>1, <1>2, SameTimers
<1>11. Coherent'
  <2>1. ASSUME Blank PROVE Blank'
    <3>1. ~Shows(b)
      BY <1>3, <2>1 DEF Blank
    <3>2. label' = label
      BY <3>1 DEF Shows
    <3> QED BY <1>3, <2>1, <3>2 DEF Blank
  <2>2. ASSUME NEW n \in Pages, NEW h \in Hosts, Shown(n, h) PROVE Shown(n, h)'
    <3>1. /\ AllOf(n, h) /\ LabelComes(n) /\ (~switched => h = n.tv)
          /\ \A v \in ToSet(NamedViews(n.slide)) : PictureComes(v, n, h)
      BY <2>2 DEF Shown
    <3>2. AllOf(n, h)'
      BY <1>3, <3>1 DEF AllOf
    <3>3. /\ b.do = "label" => b.page = n
          /\ b.do \in ToSet(Views) => Fits(b.page, n, h)
      BY <1>3, <3>1 DEF AllOf
    <3>4. LabelComes(n)'
      <4>1. CASE b.do = "label"
        BY <3>3, <4>1 DEF LabelComes
      <4>2. CASE b.do # "label"
        BY <1>3, <3>1, <4>2 DEF LabelComes
      <4> QED BY <4>1, <4>2
    <3>5. ASSUME NEW v \in ToSet(NamedViews(n.slide)), PictureComes(v, n, h)
          PROVE  PictureComes(v, n, h)'
      <4>1. v \in ToSet(Views)
        BY NamedAre, InSequence
      <4>2. CASE b.do = v
        BY <1>6, <3>3, <4>1, <4>2 DEF PictureComes
      <4>3. CASE b.do # v
        <5>1. picture'[v] = picture[v]
          BY <1>6, <4>1, <4>3
        <5> QED BY <1>3, <3>5, <4>3, <5>1 DEF PictureComes
      <4> QED BY <4>2, <4>3
    <3> QED BY <3>1, <3>2, <3>4, <3>5 DEF Shown
  <2> QED BY <1>1, <2>1, <2>2 DEF Coherent
<1> QED BY <1>9, <1>10, <1>11 DEF SlideInv

\* A firing of the timer is handled: a request begins, or there is no host to ask.
LEMMA PollStep ==
    ASSUME SlideInv, mainQueue # <<>>, Head(mainQueue).do = "poll",
           UNCHANGED <<polling, screen, slide, up, host, raced, starts, asked, mixed, switched>>,
           \/ host # Nil /\ Starts("screen") /\ mainQueue' = Tail(mainQueue)
           \/ UNCHANGED worker /\ mainQueue' = Append(Tail(mainQueue), Block("close", Nil))
    PROVE  SlideInv'
<1>1. TypeOK /\ TimersCounted /\ Coherent /\ QueueTyped /\ WorkersTyped
  BY Typed DEF SlideInv
<1>2. /\ UNCHANGED <<slide, up, host, timers, dateTimeTimer>>
      /\ UNCHANGED <<window, label, picture, raced, starts, asked, mixed, switched>>
  BY DEF polling, screen
<1>3. /\ WorkersTyped'
      /\ \A w \in Workers : \/ worker'[w] = worker[w]
                            \/ worker[w].stage = "idle" /\ worker'[w].stage = "asking"
  <2>1. CASE UNCHANGED worker
    BY <1>1, <2>1 DEF WorkersTyped
  <2>2. CASE host # Nil /\ Starts("screen")
    <3>1. PICK w \in Workers :
             worker[w] = Idle /\ worker' = [worker EXCEPT ![w] = Asking("screen", host)]
      BY <2>2 DEF Starts
    <3>2. host \in Hosts /\ "screen" \in Purposes
      BY <1>1, <2>2 DEF TypeOK, Purposes
    <3>3. /\ Asking("screen", host) \in WorkerStates /\ Asking("screen", host).stage = "asking"
          /\ Asking("screen", host).for \in Purposes /\ Asking("screen", host).host \in Hosts
          /\ Idle.stage = "idle"
      BY <3>2, WorkerKinds
    <3> QED BY <1>1, <3>1, <3>3, WorkerMoves
  <2> QED BY <2>1, <2>2
<1>4. PICK b, rest : b = Head(mainQueue) /\ rest = Tail(mainQueue)
  OBVIOUS
<1>5. /\ b.do = "poll" /\ ~Shows(b)
      /\ rest \in Seq(Blocks)
      /\ \A j \in DOMAIN rest : \E i \in DOMAIN mainQueue : rest[j] = mainQueue[i]
      /\ \A i \in DOMAIN mainQueue :
            mainQueue[i] = b \/ \E j \in DOMAIN rest : rest[j] = mainQueue[i]
  <2>1. b.do = "poll"
    BY <1>4
  <2>2. ~Shows(b)
    BY <2>1, ViewsAre DEF Shows
  <2> QED BY <1>1, <1>4, <2>1, <2>2, QueueShrinks DEF QueueTyped
<1>6. /\ QueueTyped'
      /\ \A i \in DOMAIN mainQueue : Shows(mainQueue[i]) =>
            \E j \in DOMAIN mainQueue' : mainQueue'[j] = mainQueue[i]
      /\ \A j \in DOMAIN mainQueue' : Shows(mainQueue'[j]) =>
            \E i \in DOMAIN mainQueue : mainQueue'[j] = mainQueue[i]
  <2>1. CASE mainQueue' = rest
    BY <1>1, <1>4, <1>5, <2>1, QueueTypedShrinks
  <2>2. CASE mainQueue' = Append(rest, Block("close", Nil))
    <3>1. PICK c : c = Block("close", Nil)
      OBVIOUS
    <3>2. c \in Blocks /\ c.do = "close"
      BY <3>1, BlockFacts
    <3>3. ~Shows(c) /\ c.do # "label"
      BY <3>2, ViewsAre DEF Shows
    <3>4. /\ mainQueue' \in Seq(Blocks)
          /\ Len(rest) \in Nat /\ DOMAIN rest = 1..Len(rest)
          /\ DOMAIN mainQueue' = 1..(Len(rest) + 1)
          /\ \A i \in DOMAIN rest : mainQueue'[i] = rest[i]
          /\ mainQueue'[Len(rest) + 1] = c
      BY <1>5, <2>2, <3>1, <3>2, AppendIndex, AppendProperties
    <3>5. \A j \in DOMAIN mainQueue' :
             mainQueue'[j] = c \/ \E i \in DOMAIN rest : mainQueue'[j] = rest[i]
      BY <3>4
    <3>6. \A i \in DOMAIN rest : \E j \in DOMAIN mainQueue' : mainQueue'[j] = rest[i]
      BY <3>4
    <3>7. QueueTyped'
      BY <1>1, <1>5, <3>3, <3>4, <3>5 DEF QueueTyped
    <3>8. \A i \in DOMAIN mainQueue : Shows(mainQueue[i]) =>
             \E j \in DOMAIN mainQueue' : mainQueue'[j] = mainQueue[i]
      BY <1>5, <3>6
    <3>9. \A j \in DOMAIN mainQueue' : Shows(mainQueue'[j]) =>
             \E i \in DOMAIN mainQueue : mainQueue'[j] = mainQueue[i]
      BY <1>5, <3>3, <3>5
    <3> QED BY <3>7, <3>8, <3>9
  <2> QED BY <1>4, <2>1, <2>2
<1>7. TypeOK'
  BY <1>1, <1>2, <1>3, <1>6 DEF TypeOK, QueueTyped, WorkersTyped
<1>8. Coherent'
  BY <1>1, <1>2, <1>3, <1>6, NothingShown
<1>9. TimersCounted'
  BY <1>1, <1>2, <1>3, SameTimers
<1> QED BY <1>7, <1>8, <1>9 DEF SlideInv

LEMMA RunStep ==
    ASSUME SlideInv, RunBlock
    PROVE  SlideInv'
<1>1. PICK b : b = Head(mainQueue)
  OBVIOUS
<1>2. /\ mainQueue # <<>>
      /\ UNCHANGED <<slide, up, host, polling, starts, asked, raced, mixed, switched>>
  BY DEF RunBlock, tv, history
<1>3. window \in BOOLEAN
  BY DEF SlideInv, TypeOK
<1>4. CASE b.do = "poll"
  <2>1. /\ UNCHANGED screen
        /\ \/ host # Nil /\ Starts("screen") /\ mainQueue' = Tail(mainQueue)
           \/ UNCHANGED worker /\ mainQueue' = Append(Tail(mainQueue), Block("close", Nil))
    BY <1>1, <1>4, ViewsAre DEF RunBlock, screen
  <2> QED BY <1>1, <1>2, <1>4, <2>1, PollStep
<1>5. CASE b.do \in {"open", "close"}
  <2>1. /\ window' \in BOOLEAN /\ mainQueue' = Tail(mainQueue)
        /\ UNCHANGED <<worker, label, picture>>
        /\ b.do \notin ToSet(Views)
    BY <1>1, <1>5, ViewsAre DEF RunBlock
  <2> QED BY <1>1, <1>2, <1>5, <2>1, ShowStep
<1>6. CASE b.do = "label"
  <2>1. /\ window' = TRUE /\ label' = b.page
        /\ mainQueue' = Tail(mainQueue) /\ UNCHANGED <<worker, picture>>
        /\ b.do \notin ToSet(Views)
    BY <1>1, <1>6, ViewsAre DEF RunBlock
  <2> QED BY <1>1, <1>2, <1>6, <2>1, ShowStep
<1>7. CASE b.do \in ToSet(Views)
  <2>1. /\ picture' = [picture EXCEPT ![b.do] = b.page]
        /\ mainQueue' = Tail(mainQueue) /\ UNCHANGED <<worker, window, label>>
        /\ b.do \notin {"poll", "label", "open", "close"}
    BY <1>1, <1>7, ViewsAre DEF RunBlock
  <2> QED BY <1>1, <1>2, <1>3, <1>7, <2>1, ShowStep
<1> QED BY <1>1, <1>4, <1>5, <1>6, <1>7 DEF RunBlock

LEMMA TvStep ==
    ASSUME SlideInv, TvChanges \/ MenuItemSelected \/ UNCHANGED vars
    PROVE  SlideInv'
<1>1. TypeOK /\ TimersCounted /\ Coherent
  BY DEF SlideInv
<1>2. /\ UNCHANGED <<timers, dateTimeTimer, mainQueue, worker, window, label, picture>>
      /\ UNCHANGED <<starts, asked, raced, mixed, switched>>
      /\ slide' \in [Hosts -> Slides] /\ up' \in [Hosts -> BOOLEAN] /\ host' \in Hosts \cup {Nil}
  <2>1. CASE TvChanges
    <3>1. /\ slide \in [Hosts -> Slides] /\ up \in [Hosts -> BOOLEAN] /\ host \in Hosts \cup {Nil}
      BY <1>1 DEF TypeOK
    <3>2. slide' \in [Hosts -> Slides] /\ up' \in [Hosts -> BOOLEAN]
      BY <2>1, <3>1 DEF TvChanges
    <3> QED BY <2>1, <3>1, <3>2 DEF TvChanges, polling, screen, history
  <2>2. CASE MenuItemSelected
    BY <1>1, <2>2 DEF MenuItemSelected, TypeOK, polling, screen, history
  <2>3. CASE UNCHANGED vars
    BY <1>1, <2>3 DEF vars, tv, polling, screen, history, TypeOK
  <2> QED BY <2>1, <2>2, <2>3
<1>3. TypeOK'
  BY <1>1, <1>2 DEF TypeOK
<1>4. Coherent'
  BY <1>1, <1>2, NothingShown
<1>5. TimersCounted'
  BY <1>1, <1>2, SameTimers
<1> QED BY <1>3, <1>4, <1>5 DEF SlideInv
LEMMA SlideInit == Init => SlideInv
<1> SUFFICES ASSUME Init PROVE SlideInv
  OBVIOUS
<1>1. QueueTyped
  BY DEF Init, QueueTyped
<1>2. WorkersTyped /\ \A w \in Workers : worker[w].stage = "idle"
  <2>1. \A w \in Workers : worker[w] = Idle
    BY DEF Init
  <2>2. worker \in [Workers -> WorkerStates]
    BY WorkerKinds DEF Init
  <2> QED BY <2>1, <2>2, WorkerKinds DEF WorkersTyped
<1>3. TypeOK
  <2>1. /\ slide \in [Hosts -> Slides] /\ up \in [Hosts -> BOOLEAN] /\ host \in Hosts \cup {Nil}
        /\ timers \subseteq TimerIds /\ dateTimeTimer \in TimerIds \cup {Nil}
        /\ window \in BOOLEAN /\ label \in Pages \cup {Nil} /\ mixed \in BOOLEAN
        /\ switched \in BOOLEAN
    BY DEF Init
  <2>2. picture \in [ToSet(Views) -> Shots \cup {Nil}]
    BY DEF Init
  <2>3. starts \in 0..MaxUses /\ asked \in 0..MaxUses /\ raced \in 0..starts
    BY BoundAssumption DEF Init
  <2> QED BY <1>1, <1>2, <2>1, <2>2, <2>3 DEF TypeOK, QueueTyped, WorkersTyped
<1>4. TimersCounted
  <2>1. Cardinality(timers) = 0 /\ dateTimeTimer \notin timers /\ raced = 0
    BY FS_EmptySet DEF Init
  <2> QED BY <2>1 DEF TimersCounted
<1>5. Coherent
  <2>1. Blank
    BY <1>2 DEF Init, Blank
  <2> QED BY <2>1 DEF Coherent
<1> QED BY <1>3, <1>4, <1>5 DEF SlideInv

LEMMA SlideNext == SlideInv /\ [Next]_vars => SlideInv'
<1> SUFFICES ASSUME SlideInv, [Next]_vars PROVE SlideInv'
  OBVIOUS
<1>1. CASE StartDateTimer
  BY <1>1, StartStep
<1>2. CASE TimerFires
  <2>1. asked' \in 0..MaxUses
    BY <1>2 DEF TimerFires, SlideInv, TypeOK
  <2> QED BY <1>2, <2>1, AskStep DEF TimerFires, tv, history
<1>3. CASE NowPlayingInfo
  <2>1. "screen" \in Purposes
    BY DEF Purposes
  <2>2. asked' \in 0..MaxUses
    BY <1>3, BoundAssumption DEF NowPlayingInfo, SlideInv, TypeOK
  <2> QED BY <1>3, <2>1, <2>2, AskStep DEF NowPlayingInfo, tv, history
<1>4. CASE SendSlideshowCommand
  <2>1. "command" \in Purposes
    BY DEF Purposes
  <2>2. asked' \in 0..MaxUses
    BY <1>4, BoundAssumption DEF SendSlideshowCommand, SlideInv, TypeOK
  <2> QED BY <1>4, <2>1, <2>2, AskStep DEF SendSlideshowCommand, tv, history
<1>5. ASSUME NEW w \in Workers, InfoArrives(w) PROVE SlideInv'
  <2>1. worker[w].for = "screen" \/ worker[w].for = "command"
    BY <1>5 DEF InfoArrives
  <2> QED BY <1>5, <2>1, AnswerStep, QuietAnswerStep
<1>6. ASSUME NEW w \in Workers, PictureArrives(w) PROVE SlideInv'
  BY <1>6, PictureStep
<1>7. ASSUME NEW w \in Workers, InfoFails(w) PROVE SlideInv'
  BY <1>7, EndStep DEF InfoFails, Fails, tv, polling, history
<1>8. ASSUME NEW w \in Workers, InfoRefused(w) PROVE SlideInv'
  BY <1>8, RefusedStep
<1>9. ASSUME NEW w \in Workers, ClearTimer(w) PROVE SlideInv'
  BY <1>9, EndStep DEF ClearTimer, Fails, tv, history
<1>10. CASE RunBlock
  BY <1>10, RunStep
<1>11. CASE TvChanges \/ MenuItemSelected \/ UNCHANGED vars
  BY <1>11, TvStep
<1>12. CASE Rest
  BY <1>12, TvStep DEF Rest
<1> QED BY <1>1, <1>2, <1>3, <1>4, <1>5, <1>6, <1>7, <1>8, <1>9, <1>10, <1>11, <1>12 DEF Next

(***************************************************************************)
(* The theorems.                                                           *)
(***************************************************************************)

LEMMA SlideInvariant == Spec => []SlideInv
BY SlideInit, SlideNext, PTL DEF Spec

\* The state of the presentation window is of its types: a request that fetches pictures has
\* one to fetch, requests are at an Apple TV, and blocks of the main queue name pages.
THEOREM SlideTypeCorrect == Spec => []TypeOK
<1>1. SlideInv => TypeOK
  BY DEF SlideInv
<1> QED BY <1>1, SlideInvariant, PTL

\* startDateTimer: leaves at most one timer, apart from those it started while the property
\* had one or was being cleared, for any number of overlapping requests that are refused.
THEOREM OneTimerAlways == Spec => []OneTimer
<1>1. SlideInv => OneTimer
  <2> SUFFICES ASSUME SlideInv PROVE OneTimer
    OBVIOUS
  <2>1. raced \in Nat /\ Cardinality(timers) \in Nat
    BY TimersFinite DEF SlideInv, TypeOK
  <2>2. CASE dateTimeTimer \in timers /\ ~Clearing
    BY <2>1, <2>2 DEF SlideInv, TimersCounted, OneTimer
  <2>3. CASE ~(dateTimeTimer \in timers /\ ~Clearing)
    BY <2>1, <2>3 DEF SlideInv, TimersCounted, OneTimer
  <2> QED BY <2>2, <2>3
<1> QED BY <1>1, SlideInvariant, PTL

\* What the window shows of an answer that found no older one under way: pictures of the slide
\* that the label names, also when the presentation moves on or another host is chosen in
\* between; only when it is chosen between the poll and its answer they are of that one.
THEOREM OneSlideAlways == Spec => []OneSlide
<1>1. SlideInv => OneSlide
  <2> SUFFICES ASSUME SlideInv, ~Showing, ~mixed, label # Nil
               PROVE  \E h \in Hosts : \A v \in ToSet(NamedViews(label.slide)) :
                         \/ picture[v] = Nil
                         \/ picture[v].tv = h /\ (~switched => picture[v] = label)
    BY DEF OneSlide
  <2>1. PICK n \in Pages, h \in Hosts : Shown(n, h)
    BY DEF SlideInv, Coherent, Blank
  <2>2. label = n /\ (~switched => h = n.tv)
    BY <2>1 DEF Shown, LabelComes, Showing, Shows
  <2>3. ASSUME NEW v \in ToSet(NamedViews(n.slide)) PROVE Fits(picture[v], n, h)
    <3>1. v \in ToSet(Views)
      BY NamedAre, InSequence
    <3> QED BY <2>1, <3>1 DEF Shown, PictureComes, Showing, Shows
  <2> QED BY <2>2, <2>3 DEF Fits
<1> QED BY <1>1, SlideInvariant, PTL
==============================================================================
