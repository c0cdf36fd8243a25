------------------------- MODULE CommandPathProofs -------------------------
(***************************************************************************)
(* Theorems about CommandPath, for all clients, kinds of commands and      *)
(* values of the bounds.                                                   *)
(***************************************************************************)
EXTENDS CommandPath, QueueLemmas

(***************************************************************************)
(* The inductive invariant.                                                *)
(***************************************************************************)

\* The request of a command is in one place: on its way, on the connection of the command,
\* or carried out.
OneCopy ==
    /\ \A p \in Peers : \A i \in DOMAIN waiting[p] :
          /\ waiting[p][i] \in Pressed /\ state[waiting[p][i]] # "asked"
          /\ commands[waiting[p][i]].on = p
          /\ ~Carried(waiting[p][i])
          /\ \A j \in DOMAIN waiting[p] : waiting[p][j] = waiting[p][i] => j = i
    /\ \A i \in DOMAIN dispatched :
          /\ CommandOf(i) \in Pressed /\ state[CommandOf(i)] # "asked"
          /\ \A j \in DOMAIN dispatched : CommandOf(j) = CommandOf(i) => j = i

\* The numbers of the helper are the places in the order of the server, and what it has
\* accepted had no effect yet.
Numbered ==
    /\ last = Len(dispatched)
    /\ \A i \in DOMAIN effects : Carried(effects[i])
    /\ \A k \in Kinds : \A id \in accepted[k] :
          /\ id \in DOMAIN dispatched
          /\ commands[CommandOf(id)].kind = k
          /\ \A i \in DOMAIN effects : effects[i] # CommandOf(id)

\* What had an effect overtook only what it may overtake, of the commands that are accepted
\* and of those that had their effect later.
InStep ==
    /\ \A k \in Kinds : \A id \in accepted[k] : \A late \in DOMAIN dispatched :
          \A i \in DOMAIN effects :
              id < late /\ CommandOf(late) = effects[i]
                  => MayOvertake(effects[i], CommandOf(id))
    /\ \A first, late \in DOMAIN dispatched : \A i, j \in DOMAIN effects :
          first < late /\ CommandOf(late) = effects[i] /\ CommandOf(first) = effects[j] /\ i < j
              => MayOvertake(effects[i], effects[j])

\* What was answered was carried out, so that it is before everything that was pressed later;
\* and a client that waits has an answer to all it asked before, or gave it up.
Settled ==
    /\ \A n \in Pressed : state[n] = "answered" => Carried(n)
    /\ \A m \in Pressed : \A n \in settled[m] :
          /\ Carried(n)
          /\ \A i, j \in DOMAIN dispatched : CommandOf(i) = n /\ CommandOf(j) = m => i < j
    /\ \A n, m \in Pressed :
          n < m /\ commands[n].by = commands[m].by /\ commands[n].by \in Blocking
              => state[n] = "failed" \/ n \in settled[m]

PathInv == TypeOK /\ OneCopy /\ Numbered /\ NothingTwice /\ InStep /\ Settled
(***************************************************************************)
(* What the types say, and what the steps change.                          *)
(***************************************************************************)

LEMMA PathTypes ==
    ASSUME TypeOK
    PROVE  /\ Len(commands) \in Nat /\ Pressed = 1..Len(commands) /\ Pressed \subseteq Ids
           /\ \A n \in Pressed : commands[n] \in [by : Clients, kind : Kinds, on : Peers]
           /\ Len(dispatched) \in Nat /\ DOMAIN dispatched = 1..Len(dispatched)
           /\ \A i \in DOMAIN dispatched : CommandOf(i) \in Ids
           /\ \A p \in Peers : DOMAIN waiting[p] = 1..Len(waiting[p]) /\ Len(waiting[p]) \in Nat
           /\ Len(effects) \in Nat /\ DOMAIN effects = 1..Len(effects)
           /\ \A i \in DOMAIN effects : effects[i] \in Pressed
<1>1. /\ Len(commands) \in Nat /\ Pressed = 1..Len(commands)
      /\ \A n \in Pressed : commands[n] \in [by : Clients, kind : Kinds, on : Peers]
  <2> DEFINE Commands == [by : Clients, kind : Kinds, on : Peers]
  <2>1. commands \in Seq(Commands)
    BY DEF TypeOK
  <2> HIDE DEF Commands
  <2>2. /\ Len(commands) \in Nat /\ Pressed = 1..Len(commands)
        /\ \A n \in Pressed : commands[n] \in Commands
    BY <2>1, LenProperties, ElementOfSeq DEF Pressed
  <2> QED BY <2>2 DEF Commands
<1>2. Pressed \subseteq Ids
  BY <1>1, BoundAssumption DEF TypeOK, Ids
<1>3. /\ Len(dispatched) \in Nat /\ DOMAIN dispatched = 1..Len(dispatched)
      /\ \A i \in DOMAIN dispatched : dispatched[i] \in [of : Peers, request : Ids]
  BY LenProperties, ElementOfSeq DEF TypeOK
<1>4. \A p \in Peers : DOMAIN waiting[p] = 1..Len(waiting[p]) /\ Len(waiting[p]) \in Nat
  BY LenProperties DEF TypeOK
<1>5. /\ Len(effects) \in Nat /\ DOMAIN effects = 1..Len(effects)
      /\ \A i \in DOMAIN effects : effects[i] \in Pressed
  BY LenProperties, ElementOfSeq DEF TypeOK
<1> QED BY <1>1, <1>2, <1>3, <1>4, <1>5 DEF CommandOf

\* A key is pressed: the command is the last, and the others are as they were.
LEMMA PressFacts ==
    ASSUME TypeOK, NEW c \in Clients, NEW k \in Kinds, NEW p \in Peers, Press(c, k, p),
           NEW new, new = Len(commands) + 1
    PROVE  /\ new \in Ids /\ \A n \in Pressed : n \in Nat /\ n < new
           /\ Pressed' = Pressed \cup {new} /\ Pressed' = 1..new
           /\ commands' \in Seq([by : Clients, kind : Kinds, on : Peers]) /\ Len(commands') = new
           /\ state' \in [Pressed' -> {"asked", "sent", "answered", "failed"}]
           /\ settled' \in [Pressed' -> SUBSET Pressed']
           /\ \A n \in Pressed : /\ commands'[n] = commands[n] /\ state'[n] = state[n]
                                 /\ settled'[n] = settled[n]
           /\ commands'[new] = [by |-> c, kind |-> k, on |-> p] /\ state'[new] = "asked"
           /\ settled'[new] = {n \in Pressed : state[n] = "answered"}
<1> DEFINE command == [by |-> c, kind |-> k, on |-> p]
           before == {n \in Pressed : state[n] = "answered"}
           len == Len(commands)
           States == {"asked", "sent", "answered", "failed"}
<1>1. /\ commands' = Append(commands, command) /\ state' = Append(state, "asked")
      /\ settled' = Append(settled, before) /\ len < MaxCommands
  BY DEF Press
<1>2. len \in Nat /\ Pressed = 1..len /\ new = len + 1
  BY PathTypes
<1>3. /\ commands \in Seq([by : Clients, kind : Kinds, on : Peers])
      /\ state \in Seq(States) /\ settled \in Seq(SUBSET Pressed)
  BY <1>2, FunctionIsSeq DEF TypeOK
<1>4. Len(state) = len /\ Len(settled) = len
  BY <1>2, <1>3, LenProperties DEF TypeOK
<1>5. command \in [by : Clients, kind : Kinds, on : Peers] /\ "asked" \in States
          /\ before \in SUBSET Pressed
  OBVIOUS
<1> HIDE DEF command, before, States
<1>6. /\ commands' \in Seq([by : Clients, kind : Kinds, on : Peers]) /\ Len(commands') = new
      /\ \A n \in 1..len : commands'[n] = commands[n]
      /\ commands'[new] = command
  BY <1>1, <1>2, <1>3, <1>5, AppendProperties
<1>7. /\ state' \in Seq(States) /\ Len(state') = new
      /\ \A n \in 1..len : state'[n] = state[n]
      /\ state'[new] = "asked"
  BY <1>1, <1>2, <1>3, <1>4, <1>5, AppendProperties
<1>8. /\ settled' \in Seq(SUBSET Pressed) /\ Len(settled') = new
      /\ \A n \in 1..len : settled'[n] = settled[n]
      /\ settled'[new] = before
  BY <1>1, <1>2, <1>3, <1>4, <1>5, AppendProperties
<1>9. Pressed' = 1..new /\ Pressed' = Pressed \cup {new}
  BY <1>2, <1>6, LenProperties DEF Pressed
<1>10. /\ state' \in [Pressed' -> States]
       /\ settled' \in [Pressed' -> SUBSET Pressed']
  <2>1. state' \in [1..new -> States] /\ settled' \in [1..new -> SUBSET Pressed]
    BY <1>7, <1>8, LenProperties
  <2> QED BY <2>1, <1>9
<1>11. new \in Ids /\ \A n \in Pressed : n \in Nat /\ n < new
  BY <1>1, <1>2, BoundAssumption DEF Ids
<1> QED BY <1>2, <1>6, <1>7, <1>8, <1>9, <1>10, <1>11 DEF command, before, States

\* The server carries out the oldest request of a connection, and the helper accepts it.
LEMMA CarryFacts ==
    ASSUME TypeOK, OneCopy, Numbered, NEW p \in Peers, CarryOut(p),
           NEW r, r = waiting[p][1], NEW new, new = Len(dispatched) + 1
    PROVE  /\ waiting[p] # <<>> /\ 1 \in DOMAIN waiting[p]
           /\ r \in Pressed /\ state[r] # "asked" /\ ~Carried(r) /\ commands[r].kind \in Kinds
           /\ dispatched' \in Seq([of : Peers, request : Ids]) /\ Len(dispatched') = new
           /\ DOMAIN dispatched' = DOMAIN dispatched \cup {new}
           /\ \A i \in DOMAIN dispatched : i \in Nat /\ i < new /\ CommandOf(i)' = CommandOf(i)
           /\ CommandOf(new)' = r
           /\ waiting' = [waiting EXCEPT ![p] = Tail(@)]
           /\ last' = new /\ new \in Ids
           /\ accepted' = [accepted EXCEPT ![commands[r].kind] = @ \cup {new}]
           /\ UNCHANGED <<clients, done, ends, history>>
<1>1. waiting[p] \in Seq(Ids) /\ waiting[p] # <<>>
  BY DEF TypeOK, CarryOut, Server!Dispatch
<1>2. 1 \in DOMAIN waiting[p] /\ Head(waiting[p]) = r
  BY <1>1, TailIndex
<1>3. r \in Pressed /\ state[r] # "asked" /\ ~Carried(r)
  BY <1>2 DEF OneCopy
<1>4. r \in Ids /\ commands[r].kind \in Kinds
  BY <1>3, PathTypes
<1> DEFINE e == [of |-> p, request |-> r]
<1>5. dispatched' = Append(dispatched, e) /\ e \in [of : Peers, request : Ids] /\ e.request = r
  BY <1>2, <1>4 DEF CarryOut, Server!Dispatch
<1> HIDE DEF e
<1>6. /\ Len(dispatched) \in Nat /\ DOMAIN dispatched = 1..Len(dispatched)
      /\ dispatched' \in Seq([of : Peers, request : Ids]) /\ Len(dispatched') = new
      /\ DOMAIN dispatched' = 1..new
      /\ \A i \in DOMAIN dispatched : dispatched'[i] = dispatched[i]
      /\ dispatched'[new] = e
  BY <1>5, AppendIndex, AppendProperties DEF TypeOK
<1>7. /\ DOMAIN dispatched' = DOMAIN dispatched \cup {new}
      /\ \A i \in DOMAIN dispatched : i \in Nat /\ i < new
      /\ \A i \in DOMAIN dispatched : CommandOf(i)' = CommandOf(i)
      /\ CommandOf(new)' = r
  BY <1>5, <1>6 DEF CommandOf
<1>8. last' = new /\ new \in Ids
  BY DEF CarryOut, Helper!Accept, Numbered
<1>9. accepted' = [accepted EXCEPT ![commands[r].kind] = @ \cup {new}]
  BY <1>2, <1>8 DEF CarryOut, Helper!Accept
<1> QED
  BY <1>1, <1>2, <1>3, <1>4, <1>6, <1>7, <1>8, <1>9
  DEF CarryOut, Server!Dispatch, Helper!Accept

\* So one more command is carried out.
LEMMA CarriedNext ==
    ASSUME TypeOK, OneCopy, Numbered, NEW p \in Peers, CarryOut(p), NEW n
    PROVE  Carried(n)' <=> Carried(n) \/ n = waiting[p][1]
<1>1. PICK r, new : r = waiting[p][1] /\ new = Len(dispatched) + 1
  OBVIOUS
<1>2. /\ DOMAIN dispatched' = DOMAIN dispatched \cup {new}
      /\ \A i \in DOMAIN dispatched : CommandOf(i)' = CommandOf(i)
      /\ CommandOf(new)' = r
  BY <1>1, CarryFacts
<1>3. Carried(n)' <=> Carried(n) \/ n = r
  BY <1>2 DEF Carried, CommandOf
<1> QED BY <1>1, <1>3

\* A command takes effect.
LEMMA EffectFacts ==
    ASSUME TypeOK, OneCopy, Numbered, NEW k \in Kinds, TakeEffect(k)
    PROVE  \E id \in accepted[k] :
               /\ id \in DOMAIN dispatched /\ CommandOf(id) \in Pressed
               /\ Helper!Effect(k, id)
               /\ effects' \in Seq(Pressed)
               /\ DOMAIN effects' = DOMAIN effects \cup {Len(effects) + 1}
               /\ \A i \in DOMAIN effects :
                     i \in Nat /\ i < Len(effects) + 1 /\ effects'[i] = effects[i]
               /\ effects'[Len(effects) + 1] = CommandOf(id)
               /\ accepted' = [accepted EXCEPT ![k] = @ \ {id}]
               /\ UNCHANGED <<clients, server, last, ends, settled>>
<1>1. PICK id \in accepted[k] : /\ Helper!Effect(k, id)
                                /\ effects' = Append(effects, CommandOf(id))
  BY DEF TakeEffect
<1>2. id \in DOMAIN dispatched /\ CommandOf(id) \in Pressed
  BY DEF Numbered, OneCopy
<1>3. effects \in Seq(Pressed)
  BY DEF TypeOK
<1> DEFINE c == CommandOf(id)
<1> HIDE DEF c
<1>4. /\ Len(effects) \in Nat /\ DOMAIN effects = 1..Len(effects)
      /\ Append(effects, c) \in Seq(Pressed)
      /\ DOMAIN Append(effects, c) = 1..(Len(effects) + 1)
      /\ \A i \in DOMAIN effects : Append(effects, c)[i] = effects[i]
      /\ Append(effects, c)[Len(effects) + 1] = c
  BY <1>2, <1>3, AppendIndex, AppendProperties DEF c
<1>5. /\ DOMAIN effects' = DOMAIN effects \cup {Len(effects) + 1}
      /\ effects' \in Seq(Pressed)
      /\ \A i \in DOMAIN effects :
            i \in Nat /\ i < Len(effects) + 1 /\ effects'[i] = effects[i]
      /\ effects'[Len(effects) + 1] = CommandOf(id)
  BY <1>1, <1>4 DEF c
<1>6. /\ accepted' = [accepted EXCEPT ![k] = @ \ {id}]
      /\ UNCHANGED <<clients, server, last, ends, settled>>
  BY <1>1 DEF TakeEffect, Helper!Effect
<1> QED BY <1>1, <1>2, <1>5, <1>6
(***************************************************************************)
(* Type correctness needs OneCopy and Numbered: what takes effect is a     *)
(* command only because what is accepted was carried out.                  *)
(***************************************************************************)

LEMMA PathTypeStep ==
    ASSUME TypeOK, OneCopy, Numbered, [Next]_vars
    PROVE  TypeOK'
<1> USE BoundAssumption
<1>1. ASSUME NEW c \in Clients, NEW k \in Kinds, NEW p \in Peers, Press(c, k, p)
      PROVE  TypeOK'
  <2>1. PICK new : new = Len(commands) + 1
    OBVIOUS
  <2>2. /\ commands' \in Seq([by : Clients, kind : Kinds, on : Peers]) /\ Len(commands') = new
        /\ state' \in [Pressed' -> {"asked", "sent", "answered", "failed"}]
        /\ settled' \in [Pressed' -> SUBSET Pressed']
        /\ Pressed \subseteq Pressed' /\ new \in Ids
    BY <1>1, <2>1, PressFacts
  <2>3. effects' \in Seq(Pressed')
    BY <1>1, <2>2, SeqOfMore DEF TypeOK, Press
  <2>4. Len(commands') <= MaxCommands
    BY <2>2 DEF Ids
  <2> QED BY <1>1, <2>2, <2>3, <2>4 DEF TypeOK, Press, server, helper
<1>2. ASSUME NEW n \in Pressed, OfCommand(n) PROVE TypeOK'
  <2>1. UNCHANGED <<commands, dispatched, helper, ends, history>> /\ Pressed' = Pressed
    BY <1>2 DEF OfCommand, Reach, Answer, GiveUp, Server!Send, server, Pressed
  <2>2. state' \in [Pressed -> {"asked", "sent", "answered", "failed"}] /\ open' \subseteq Peers
    BY <1>2 DEF OfCommand, Reach, Answer, GiveUp, TypeOK
  <2>3. waiting' \in [Peers -> Seq(Ids)]
    <3>1. CASE Reach(n)
      <4>1. n \in Ids /\ commands[n].on \in Peers
        BY PathTypes
      <4>2. Append(waiting[commands[n].on], n) \in Seq(Ids)
        BY <4>1, AppendProperties DEF TypeOK
      <4> QED BY <3>1, <4>1, <4>2 DEF TypeOK, Reach, Server!Send
    <3>2. CASE ~Reach(n)
      BY <1>2, <3>2 DEF OfCommand, Answer, GiveUp, server, TypeOK
    <3> QED BY <3>1, <3>2
  <2> QED BY <2>1, <2>2, <2>3 DEF TypeOK, helper, history
<1>3. ASSUME NEW p \in Peers, CarryOut(p) PROVE TypeOK'
  <2>1. PICK r, new : r = waiting[p][1] /\ new = Len(dispatched) + 1
    OBVIOUS
  <2>2. /\ dispatched' \in Seq([of : Peers, request : Ids])
        /\ waiting' = [waiting EXCEPT ![p] = Tail(@)] /\ waiting[p] # <<>>
        /\ last' = new /\ new \in Ids
        /\ accepted' = [accepted EXCEPT ![commands[r].kind] = @ \cup {new}]
        /\ UNCHANGED <<clients, done, ends, history>>
    <3>1. dispatched' \in Seq([of : Peers, request : Ids])
      BY <1>3, <2>1, CarryFacts
    <3>2. waiting' = [waiting EXCEPT ![p] = Tail(@)] /\ waiting[p] # <<>>
      BY <1>3, <2>1, CarryFacts
    <3>3. last' = new
      BY <1>3, <2>1, CarryFacts
    <3>4. new \in Ids
      BY <1>3, <2>1, CarryFacts
    <3>5. accepted' = [accepted EXCEPT ![commands[r].kind] = @ \cup {new}]
      BY <1>3, <2>1, CarryFacts
    <3>6. UNCHANGED <<clients, done, ends, history>>
      BY <1>3, <2>1, CarryFacts
    <3> QED BY <3>1, <3>2, <3>3, <3>4, <3>5, <3>6
  <2>3. waiting' \in [Peers -> Seq(Ids)]
    <3>1. Tail(waiting[p]) \in Seq(Ids)
      BY <2>2, HeadTailProperties DEF TypeOK
    <3> QED BY <2>2, <3>1 DEF TypeOK
  <2>4. accepted' \in [Kinds -> SUBSET Ids]
    BY <2>2 DEF TypeOK
  <2>5. last' \in 0..MaxCommands
    BY <2>2 DEF Ids
  <2> QED BY <2>2, <2>3, <2>4, <2>5 DEF TypeOK, clients, history, Pressed
<1>4. ASSUME NEW p \in Peers, CloseConnection(p) PROVE TypeOK'
  <2>1. waiting' \in [Peers -> Seq(Ids)]
    <3>1. PICK n \in 0..Len(waiting[p]) : waiting' = [waiting EXCEPT ![p] = SubSeq(@, 1, n)]
      BY <1>4 DEF CloseConnection, Server!Drop
    <3>2. SubSeq(waiting[p], 1, n) \in Seq(Ids)
      BY SubSeqKeeps DEF TypeOK
    <3> QED BY <3>1, <3>2 DEF TypeOK
  <2> QED BY <1>4, <2>1 DEF TypeOK, CloseConnection, Server!Drop, helper, history, Pressed
<1>5. ASSUME NEW k \in Kinds, TakeEffect(k) PROVE TypeOK'
  <2>1. PICK id \in accepted[k] :
            /\ Helper!Effect(k, id)
            /\ effects' \in Seq(Pressed)
            /\ accepted' = [accepted EXCEPT ![k] = @ \ {id}]
            /\ UNCHANGED <<clients, server, last, ends, settled>>
    BY <1>5, EffectFacts
  <2>2. done' \in [Kinds -> Seq(Ids)]
    <3>1. Append(done[k], id) \in Seq(Ids)
      BY AppendProperties DEF TypeOK
    <3> QED BY <2>1, <3>1 DEF TypeOK, Helper!Effect
  <2>3. accepted' \in [Kinds -> SUBSET Ids]
    BY <2>1 DEF TypeOK
  <2> QED BY <2>1, <2>2, <2>3 DEF TypeOK, clients, server, Pressed
<1>6. CASE PineBoardEnds
  <2>1. waiting' \in [Peers -> Seq(Ids)]
    BY <1>6, EmptySeq DEF PineBoardEnds
  <2>2. accepted' \in [Kinds -> SUBSET Ids]
    BY <1>6 DEF PineBoardEnds, Helper!Lose
  <2> QED BY <1>6, <2>1, <2>2 DEF TypeOK, PineBoardEnds, Helper!Lose, history, Pressed
<1>7. CASE UNCHANGED vars
  BY <1>7 DEF TypeOK, vars, clients, server, helper, history, Pressed
<1> QED BY <1>1, <1>2, <1>3, <1>4, <1>5, <1>6, <1>7 DEF Next

(***************************************************************************)
(* One copy of each request.                                               *)
(***************************************************************************)

\* Steps that bring no new request, and change no command that was pressed.
LEMMA KeepCopy ==
    ASSUME TypeOK, OneCopy, Pressed \subseteq Pressed', UNCHANGED dispatched,
           \A n \in Pressed : /\ commands'[n] = commands[n]
                              /\ state[n] # "asked" => state'[n] # "asked",
           \A p \in Peers : \A i \in DOMAIN waiting'[p] :
               i \in DOMAIN waiting[p] /\ waiting'[p][i] = waiting[p][i]
    PROVE  OneCopy'
<1>1. \A n : Carried(n)' <=> Carried(n)
  BY DEF Carried
<1>2. ASSUME NEW p \in Peers, NEW i \in DOMAIN waiting'[p], NEW m, m = waiting'[p][i]
      PROVE  /\ m \in Pressed' /\ state'[m] # "asked" /\ commands'[m].on = p /\ ~Carried(m)'
             /\ \A j \in DOMAIN waiting'[p] : waiting'[p][j] = m => j = i
  <2>1. /\ m \in Pressed /\ state[m] # "asked" /\ commands[m].on = p /\ ~Carried(m)
        /\ \A j \in DOMAIN waiting[p] : waiting[p][j] = m => j = i
    BY <1>2 DEF OneCopy
  <2> QED BY <1>1, <1>2, <2>1
<1>3. ASSUME NEW i \in DOMAIN dispatched'
      PROVE  /\ CommandOf(i)' \in Pressed' /\ state'[CommandOf(i)'] # "asked"
             /\ \A j \in DOMAIN dispatched' : CommandOf(j)' = CommandOf(i)' => j = i
  BY <1>3 DEF OneCopy, CommandOf
<1> QED BY <1>2, <1>3 DEF OneCopy, Carried

\* The request of a command that was not sent before.
LEMMA ReachCopy ==
    ASSUME TypeOK, OneCopy, NEW n \in Pressed, Reach(n)
    PROVE  OneCopy'
<1>1. PICK q : q = commands[n].on
  OBVIOUS
<1>2. /\ q \in Peers /\ n \in Ids /\ state[n] = "asked" /\ waiting[q] \in Seq(Ids)
      /\ waiting' = [waiting EXCEPT ![q] = Append(@, n)]
      /\ state' = [state EXCEPT ![n] = "sent"]
      /\ UNCHANGED <<commands, dispatched>> /\ Pressed' = Pressed
  BY <1>1, PathTypes DEF TypeOK, Reach, Server!Send, Pressed
<1>3. /\ Len(waiting[q]) \in Nat /\ DOMAIN waiting[q] = 1..Len(waiting[q])
      /\ DOMAIN waiting'[q] = 1..(Len(waiting[q]) + 1)
      /\ \A i \in DOMAIN waiting[q] : waiting'[q][i] = waiting[q][i]
      /\ waiting'[q][Len(waiting[q]) + 1] = n
      /\ \A p \in Peers : p # q => waiting'[p] = waiting[p]
  <2>1. waiting'[q] = Append(waiting[q], n) /\ \A p \in Peers : p # q => waiting'[p] = waiting[p]
    BY <1>2 DEF TypeOK
  <2> QED BY <1>2, <2>1, AppendIndex
<1>4. /\ \A m \in Pressed : m # n => state'[m] = state[m]
      /\ state'[n] # "asked"
  BY <1>2 DEF TypeOK
<1>5. ~Carried(n) /\ \A p \in Peers : \A i \in DOMAIN waiting[p] : waiting[p][i] # n
  BY <1>2 DEF OneCopy, Carried, CommandOf
<1>6. ASSUME NEW m, Carried(m)' PROVE Carried(m)
  BY <1>2, <1>6 DEF Carried
<1>7. ASSUME NEW p \in Peers, NEW i \in DOMAIN waiting'[p], NEW m, m = waiting'[p][i]
      PROVE  /\ m \in Pressed' /\ state'[m] # "asked" /\ commands'[m].on = p /\ ~Carried(m)'
             /\ \A j \in DOMAIN waiting'[p] : waiting'[p][j] = m => j = i
  <2>1. CASE i \in DOMAIN waiting[p] /\ waiting'[p][i] = waiting[p][i]
    <3>1. /\ m \in Pressed /\ state[m] # "asked" /\ commands[m].on = p /\ ~Carried(m) /\ m # n
          /\ \A j \in DOMAIN waiting[p] : waiting[p][j] = m => j = i
      BY <1>5, <1>7, <2>1 DEF OneCopy
    <3>2. ~Carried(m)'
      BY <1>6, <3>1
    <3>3. \A j \in DOMAIN waiting'[p] : waiting'[p][j] = m => j = i
      BY <1>3, <3>1
    <3> QED BY <1>2, <1>4, <3>1, <3>2, <3>3
  <2>2. CASE p = q /\ i = Len(waiting[q]) + 1 /\ waiting'[p][i] = n
    <3>1. \A j \in DOMAIN waiting'[p] : waiting'[p][j] = n => j = i
      BY <1>3, <1>5, <2>2
    <3>2. ~Carried(n)'
      BY <1>5, <1>6
    <3> QED BY <1>1, <1>2, <1>4, <1>7, <2>2, <3>1, <3>2
  <2> QED BY <1>3, <1>7, <2>1, <2>2
<1>8. ASSUME NEW i \in DOMAIN dispatched'
      PROVE  /\ CommandOf(i)' \in Pressed' /\ state'[CommandOf(i)'] # "asked"
             /\ \A j \in DOMAIN dispatched' : CommandOf(j)' = CommandOf(i)' => j = i
  BY <1>2, <1>4, <1>8 DEF OneCopy, CommandOf
<1> QED BY <1>7, <1>8 DEF OneCopy, Carried

\* The request that is carried out leaves its connection.
LEMMA CarryCopy ==
    ASSUME TypeOK, OneCopy, Numbered, NEW q \in Peers, CarryOut(q)
    PROVE  OneCopy'
<1>1. PICK r, new : r = waiting[q][1] /\ new = Len(dispatched) + 1
  OBVIOUS
<1>2. /\ waiting[q] # <<>> /\ waiting' = [waiting EXCEPT ![q] = Tail(@)]
      /\ 1 \in DOMAIN waiting[q]
      /\ r \in Pressed /\ state[r] # "asked" /\ ~Carried(r)
      /\ DOMAIN dispatched' = DOMAIN dispatched \cup {new}
      /\ \A i \in DOMAIN dispatched : i \in Nat /\ i < new /\ CommandOf(i)' = CommandOf(i)
      /\ CommandOf(new)' = r
      /\ UNCHANGED clients /\ Pressed' = Pressed /\ UNCHANGED <<commands, state>>
  BY <1>1, CarryFacts DEF clients, Pressed
<1>3. \A m : Carried(m)' <=> Carried(m) \/ m = r
  BY <1>1, CarriedNext
<1>4. /\ waiting'[q] = Tail(waiting[q]) /\ waiting[q] \in Seq(Ids)
      /\ \A p \in Peers : p # q => waiting'[p] = waiting[p]
  BY <1>2 DEF TypeOK
<1>5. \A i \in DOMAIN waiting'[q] :
         i \in Nat /\ i + 1 \in DOMAIN waiting[q] /\ 1 < i + 1 /\ waiting'[q][i] = waiting[q][i + 1]
  <2>1. PICK s : s = waiting[q]
    OBVIOUS
  <2>2. s \in Seq(Ids) /\ s # <<>> /\ waiting'[q] = Tail(s)
    BY <1>2, <1>4, <2>1
  <2> QED BY <2>1, <2>2, TailIndex
<1>6. ASSUME NEW p \in Peers, NEW i \in DOMAIN waiting'[p], NEW m, m = waiting'[p][i]
      PROVE  /\ m \in Pressed' /\ state'[m] # "asked" /\ commands'[m].on = p /\ ~Carried(m)'
             /\ \A j \in DOMAIN waiting'[p] : waiting'[p][j] = m => j = i
  <2>1. /\ m \in Pressed /\ state[m] # "asked" /\ commands[m].on = p /\ ~Carried(m) /\ m # r
        /\ \A j \in DOMAIN waiting'[p] : waiting'[p][j] = m => j = i
    <3>1. CASE p = q
      <4>1. /\ i + 1 \in DOMAIN waiting[q] /\ waiting[q][i + 1] = m /\ i + 1 # 1
        BY <1>5, <1>6, <3>1
      <4>2. /\ m \in Pressed /\ state[m] # "asked" /\ commands[m].on = q /\ ~Carried(m)
            /\ \A j \in DOMAIN waiting[q] : waiting[q][j] = m => j = i + 1
        BY <4>1 DEF OneCopy
      <4>3. m # r
        BY <1>1, <1>2, <4>1, <4>2
      <4>4. \A j \in DOMAIN waiting'[q] : waiting'[q][j] = m => j = i
        BY <1>5, <1>6, <3>1, <4>2
      <4> QED BY <3>1, <4>2, <4>3, <4>4
    <3>2. CASE p # q
      <4>1. /\ m \in Pressed /\ state[m] # "asked" /\ commands[m].on = p /\ ~Carried(m)
            /\ \A j \in DOMAIN waiting[p] : waiting[p][j] = m => j = i
        BY <1>4, <1>6, <3>2 DEF OneCopy
      <4>2. commands[r].on = q
        BY <1>1, <1>2 DEF OneCopy
      <4> QED BY <1>4, <3>2, <4>1, <4>2
    <3> QED BY <3>1, <3>2
  <2>2. ~Carried(m)'
    BY <1>3, <2>1
  <2> QED BY <1>2, <2>1, <2>2
<1>7. ASSUME NEW i \in DOMAIN dispatched'
      PROVE  /\ CommandOf(i)' \in Pressed' /\ state'[CommandOf(i)'] # "asked"
             /\ \A j \in DOMAIN dispatched' : CommandOf(j)' = CommandOf(i)' => j = i
  <2>1. \A j \in DOMAIN dispatched : CommandOf(j) # r
    BY <1>2 DEF Carried, CommandOf
  <2>2. CASE i \in DOMAIN dispatched
    BY <1>2, <2>1, <2>2 DEF OneCopy
  <2>3. CASE i = new
    BY <1>2, <2>1, <2>3
  <2> QED BY <1>2, <1>7, <2>2, <2>3
<1> QED BY <1>6, <1>7 DEF OneCopy, Carried
(***************************************************************************)
(* The numbers of the helper, and NothingTwice.                            *)
(***************************************************************************)

\* Steps that accept nothing and have no effect.
LEMMA KeepNumbered ==
    ASSUME OneCopy, Numbered, UNCHANGED <<dispatched, last, effects>>,
           \A n \in Pressed : commands'[n] = commands[n],
           \A k \in Kinds : accepted'[k] \subseteq accepted[k]
    PROVE  Numbered'
<1>1. \A i \in DOMAIN effects' : Carried(effects[i])'
  BY DEF Numbered, Carried
<1>2. ASSUME NEW k \in Kinds, NEW id \in accepted'[k]
      PROVE  /\ id \in DOMAIN dispatched'
             /\ commands'[CommandOf(id)'].kind = k
             /\ \A i \in DOMAIN effects' : effects'[i] # CommandOf(id)'
  <2>1. /\ id \in DOMAIN dispatched /\ commands[CommandOf(id)].kind = k
        /\ \A i \in DOMAIN effects : effects[i] # CommandOf(id)
    BY <1>2 DEF Numbered
  <2>2. CommandOf(id) \in Pressed /\ CommandOf(id)' = CommandOf(id)
    BY <2>1 DEF OneCopy, CommandOf
  <2> QED BY <2>1, <2>2
<1> QED BY <1>1, <1>2 DEF Numbered, Carried

\* What is accepted gets the place of its request as its number.
LEMMA CarryNumbered ==
    ASSUME TypeOK, OneCopy, Numbered, NEW p \in Peers, CarryOut(p)
    PROVE  Numbered'
<1>1. PICK r, new : r = waiting[p][1] /\ new = Len(dispatched) + 1
  OBVIOUS
<1>2. /\ r \in Pressed /\ ~Carried(r) /\ commands[r].kind \in Kinds
      /\ Len(dispatched') = new /\ last' = new
      /\ DOMAIN dispatched' = DOMAIN dispatched \cup {new}
      /\ \A i \in DOMAIN dispatched : CommandOf(i)' = CommandOf(i)
      /\ CommandOf(new)' = r
      /\ accepted' = [accepted EXCEPT ![commands[r].kind] = @ \cup {new}]
      /\ UNCHANGED <<commands, effects>>
  BY <1>1, CarryFacts DEF clients, history
<1>3. \A n : Carried(n)' <=> Carried(n) \/ n = r
  BY <1>1, CarriedNext
<1>4. \A i \in DOMAIN effects : Carried(effects[i]) /\ effects[i] # r
  BY <1>2 DEF Numbered
<1>5. \A i \in DOMAIN effects' : \A n : n = effects'[i] => Carried(n)'
  BY <1>2, <1>3, <1>4
<1>6. ASSUME NEW k \in Kinds, NEW id \in accepted'[k]
      PROVE  /\ id \in DOMAIN dispatched'
             /\ commands'[CommandOf(id)'].kind = k
             /\ \A i \in DOMAIN effects' : effects'[i] # CommandOf(id)'
  <2>1. id \in accepted[k] \/ (id = new /\ commands[r].kind = k)
    BY <1>2, <1>6 DEF TypeOK
  <2>2. CASE id \in accepted[k]
    BY <1>2, <2>2 DEF Numbered
  <2>3. CASE id = new /\ commands[r].kind = k
    BY <1>2, <1>4, <2>3
  <2> QED BY <2>1, <2>2, <2>3
<1>7. last' = Len(dispatched')
  BY <1>2
<1> QED BY <1>5, <1>6, <1>7 DEF Numbered, Carried

\* What has its effect is accepted no more, under any kind.
LEMMA EffectNumbered ==
    ASSUME TypeOK, OneCopy, Numbered, NothingTwice, NEW k \in Kinds, TakeEffect(k)
    PROVE  Numbered' /\ NothingTwice'
<1>1. PICK id \in accepted[k] :
          /\ id \in DOMAIN dispatched /\ CommandOf(id) \in Pressed
          /\ DOMAIN effects' = DOMAIN effects \cup {Len(effects) + 1}
          /\ \A i \in DOMAIN effects :
                i \in Nat /\ i < Len(effects) + 1 /\ effects'[i] = effects[i]
          /\ effects'[Len(effects) + 1] = CommandOf(id)
          /\ accepted' = [accepted EXCEPT ![k] = @ \ {id}]
          /\ UNCHANGED <<clients, server, last, ends, settled>>
  BY EffectFacts
<1>2. UNCHANGED <<commands, dispatched, last>> /\ \A i : CommandOf(i)' = CommandOf(i)
  BY <1>1 DEF clients, server, CommandOf
<1>3. PICK c : c = CommandOf(id)
  OBVIOUS
<1>4. \A n : Carried(n)' <=> Carried(n)
  BY <1>2 DEF Carried
<1>5. Carried(c) /\ commands[c].kind = k /\ \A i \in DOMAIN effects : effects[i] # c
  BY <1>1, <1>3 DEF Numbered, Carried, CommandOf
<1>6. \A i \in DOMAIN effects' : \A n : n = effects'[i] => Carried(n)'
  BY <1>1, <1>3, <1>4, <1>5 DEF Numbered
<1>7. ASSUME NEW k2 \in Kinds, NEW id2 \in accepted'[k2]
      PROVE  /\ id2 \in DOMAIN dispatched'
             /\ commands'[CommandOf(id2)'].kind = k2
             /\ \A i \in DOMAIN effects' : effects'[i] # CommandOf(id2)'
  <2>1. id2 \in accepted[k2] /\ ~(k2 = k /\ id2 = id)
    BY <1>1, <1>7 DEF TypeOK
  <2>2. /\ id2 \in DOMAIN dispatched /\ commands[CommandOf(id2)].kind = k2
        /\ \A i \in DOMAIN effects : effects[i] # CommandOf(id2)
    BY <2>1 DEF Numbered
  <2>3. CommandOf(id2) # c
    <3>1. CASE k2 = k
      BY <1>1, <1>3, <2>1, <2>2, <3>1 DEF OneCopy
    <3>2. CASE k2 # k
      BY <1>5, <2>2, <3>2
    <3> QED BY <3>1, <3>2
  <2> QED BY <1>1, <1>2, <1>3, <2>2, <2>3
<1>8. Numbered'
  BY <1>2, <1>6, <1>7 DEF Numbered, Carried
<1>9. NothingTwice'
  BY <1>1, <1>3, <1>5 DEF NothingTwice
<1> QED BY <1>8, <1>9

(***************************************************************************)
(* The order of the effects.                                               *)
(***************************************************************************)

\* Steps that accept nothing and have no effect.
LEMMA KeepInStep ==
    ASSUME TypeOK, OneCopy, Numbered, InStep, UNCHANGED <<dispatched, effects>>,
           \A n \in Pressed : commands'[n] = commands[n],
           \A k \in Kinds : accepted'[k] \subseteq accepted[k]
    PROVE  InStep'
<1>1. \A i : CommandOf(i)' = CommandOf(i)
  BY DEF CommandOf
<1>2. \A i \in DOMAIN dispatched : CommandOf(i) \in Pressed
  BY DEF OneCopy
<1>3. \A m, n \in Pressed : MayOvertake(m, n)' <=> MayOvertake(m, n)
  BY DEF MayOvertake
<1>4. \A i \in DOMAIN effects : effects[i] \in Pressed
  BY PathTypes
<1>5. ASSUME NEW k \in Kinds, NEW id \in accepted'[k], NEW late \in DOMAIN dispatched',
             NEW i \in DOMAIN effects', id < late, CommandOf(late)' = effects'[i],
             NEW m, NEW n, m = effects'[i], n = CommandOf(id)'
      PROVE  MayOvertake(m, n)'
  BY <1>1, <1>2, <1>3, <1>4, <1>5 DEF InStep, Numbered
<1>6. ASSUME NEW first \in DOMAIN dispatched', NEW late \in DOMAIN dispatched',
             NEW i \in DOMAIN effects', NEW j \in DOMAIN effects', first < late, i < j,
             CommandOf(late)' = effects'[i], CommandOf(first)' = effects'[j],
             NEW m, NEW n, m = effects'[i], n = effects'[j]
      PROVE  MayOvertake(m, n)'
  BY <1>1, <1>3, <1>4, <1>6 DEF InStep
<1> QED BY <1>5, <1>6 DEF InStep, MayOvertake

\* What is accepted is behind everything that had an effect.
LEMMA CarryInStep ==
    ASSUME TypeOK, OneCopy, Numbered, InStep, NEW p \in Peers, CarryOut(p)
    PROVE  InStep'
<1>1. PICK r, new : r = waiting[p][1] /\ new = Len(dispatched) + 1
  OBVIOUS
<1>2. /\ ~Carried(r) /\ commands[r].kind \in Kinds
      /\ DOMAIN dispatched' = DOMAIN dispatched \cup {new}
      /\ \A i \in DOMAIN dispatched : i \in Nat /\ i < new /\ CommandOf(i)' = CommandOf(i)
      /\ CommandOf(new)' = r
      /\ accepted' = [accepted EXCEPT ![commands[r].kind] = @ \cup {new}]
      /\ UNCHANGED <<commands, effects>>
  BY <1>1, CarryFacts DEF clients, history
<1>3. \A i \in DOMAIN effects : effects[i] # r
  BY <1>2 DEF Numbered
<1>4. \A m, n : MayOvertake(m, n)' <=> MayOvertake(m, n)
  BY <1>2 DEF MayOvertake
<1>5. ASSUME NEW k \in Kinds, NEW id \in accepted'[k], NEW late \in DOMAIN dispatched',
             NEW i \in DOMAIN effects', id < late, CommandOf(late)' = effects'[i],
             NEW m, NEW n, m = effects'[i], n = CommandOf(id)'
      PROVE  MayOvertake(m, n)'
  <2>1. late \in DOMAIN dispatched
    BY <1>2, <1>3, <1>5
  <2>2. id \in accepted[k]
    <3>1. id \in accepted[k] \/ id = new
      BY <1>2, <1>5 DEF TypeOK
    <3>2. new \in Int
      BY <1>1, PathTypes
    <3> QED BY <1>2, <1>5, <2>1, <3>1, <3>2
  <2>3. id \in DOMAIN dispatched
    BY <2>2 DEF Numbered
  <2> QED BY <1>2, <1>4, <1>5, <2>1, <2>2, <2>3 DEF InStep
<1>6. ASSUME NEW first \in DOMAIN dispatched', NEW late \in DOMAIN dispatched',
             NEW i \in DOMAIN effects', NEW j \in DOMAIN effects', first < late, i < j,
             CommandOf(late)' = effects'[i], CommandOf(first)' = effects'[j],
             NEW m, NEW n, m = effects'[i], n = effects'[j]
      PROVE  MayOvertake(m, n)'
  BY <1>2, <1>3, <1>4, <1>6 DEF InStep
<1> QED BY <1>5, <1>6 DEF InStep, MayOvertake

\* The oldest of a kind takes effect when nothing that is not delayed is older.
LEMMA EffectInStep ==
    ASSUME TypeOK, OneCopy, Numbered, InStep, NEW k \in Kinds, TakeEffect(k)
    PROVE  InStep'
<1>1. PICK id \in accepted[k] :
          /\ id \in DOMAIN dispatched /\ CommandOf(id) \in Pressed
          /\ Helper!Effect(k, id)
          /\ DOMAIN effects' = DOMAIN effects \cup {Len(effects) + 1}
          /\ \A i \in DOMAIN effects :
                i \in Nat /\ i < Len(effects) + 1 /\ effects'[i] = effects[i]
          /\ effects'[Len(effects) + 1] = CommandOf(id)
          /\ accepted' = [accepted EXCEPT ![k] = @ \ {id}]
          /\ UNCHANGED <<clients, server, last, ends, settled>>
  BY EffectFacts
<1>2. UNCHANGED <<commands, dispatched>> /\ \A i : CommandOf(i)' = CommandOf(i)
  BY <1>1 DEF clients, server, CommandOf
<1>3. PICK c, new : c = CommandOf(id) /\ new = Len(effects) + 1
  OBVIOUS
<1>4. \A m, n : MayOvertake(m, n)' <=> MayOvertake(m, n)
  BY <1>2 DEF MayOvertake
<1>5. /\ DOMAIN dispatched \subseteq Nat /\ new \in Int
      /\ \A k2 \in Kinds : \A id2 \in accepted'[k2] :
            id2 \in accepted[k2] /\ ~(k2 = k /\ id2 = id)
  <2>1. DOMAIN dispatched \subseteq Nat /\ new \in Int
    BY <1>3, PathTypes
  <2>2. accepted \in [Kinds -> SUBSET Ids]
    BY DEF TypeOK
  <2>3. /\ accepted'[k] = accepted[k] \ {id}
        /\ \A k2 \in Kinds \ {k} : accepted'[k2] = accepted[k2]
    BY <1>1, <2>2
  <2> QED BY <2>1, <2>3
<1>6. commands[c].kind = k /\ \A late \in DOMAIN dispatched : CommandOf(late) = c => late = id
  BY <1>1, <1>3 DEF Numbered, OneCopy
<1>7. ASSUME NEW k2 \in Kinds, NEW id2 \in accepted'[k2], NEW late \in DOMAIN dispatched',
             NEW i \in DOMAIN effects', id2 < late, CommandOf(late)' = effects'[i],
             NEW m, NEW n, m = effects'[i], n = CommandOf(id2)'
      PROVE  MayOvertake(m, n)'
  <2>1. id2 \in accepted[k2] /\ ~(k2 = k /\ id2 = id) /\ id2 \in DOMAIN dispatched
        /\ commands[n].kind = k2
    BY <1>2, <1>5, <1>7 DEF Numbered
  <2>2. CASE i \in DOMAIN effects
    BY <1>1, <1>2, <1>4, <1>7, <2>1, <2>2 DEF InStep
  <2>3. CASE i = new
    <3>1. m = c /\ late = id /\ id2 < id
      BY <1>1, <1>2, <1>3, <1>6, <1>7, <2>3
    <3>2. k2 # k
      BY <1>1, <1>5, <2>1, <3>1 DEF Helper!Effect
    <3>3. k2 \in Delayed
      BY <1>1, <2>1, <3>1 DEF Helper!Effect, Helper!Overtakes
    <3> QED BY <1>4, <1>6, <2>1, <3>1, <3>2, <3>3 DEF MayOvertake
  <2> QED BY <1>1, <1>3, <1>7, <2>2, <2>3
<1>8. ASSUME NEW first \in DOMAIN dispatched', NEW late \in DOMAIN dispatched',
             NEW i \in DOMAIN effects', NEW j \in DOMAIN effects', first < late, i < j,
             CommandOf(late)' = effects'[i], CommandOf(first)' = effects'[j],
             NEW m, NEW n, m = effects'[i], n = effects'[j]
      PROVE  MayOvertake(m, n)'
  <2>1. i \in DOMAIN effects /\ effects'[i] = effects[i]
    BY <1>1, <1>5, <1>3, <1>8
  <2>2. CASE j \in DOMAIN effects
    BY <1>1, <1>2, <1>4, <1>8, <2>1, <2>2 DEF InStep
  <2>3. CASE j = new
    <3>1. n = c /\ first = id
      BY <1>1, <1>2, <1>3, <1>6, <1>8, <2>3
    <3>2. MayOvertake(effects[i], CommandOf(id))
      BY <1>1, <1>2, <1>8, <2>1, <3>1 DEF InStep
    <3> QED BY <1>3, <1>4, <1>8, <2>1, <3>1, <3>2
  <2> QED BY <1>1, <1>3, <1>8, <2>2, <2>3
<1> QED BY <1>7, <1>8 DEF InStep, MayOvertake
(***************************************************************************)
(* What was answered before a key was pressed.                             *)
(***************************************************************************)

\* Steps that press nothing and carry nothing out, and only answer what was carried out.
LEMMA KeepSettled ==
    ASSUME Settled, UNCHANGED <<commands, dispatched, settled>>,
           \A n \in Pressed :
               /\ state'[n] = "answered" => state[n] = "answered" \/ Carried(n)
               /\ state[n] = "failed" => state'[n] = "failed"
    PROVE  Settled'
<1>1. Pressed' = Pressed /\ (\A i : CommandOf(i)' = CommandOf(i))
      /\ \A n : Carried(n)' <=> Carried(n)
  BY DEF Pressed, CommandOf, Carried
<1>2. \A n \in Pressed' : state'[n] = "answered" => Carried(n)'
  BY <1>1 DEF Settled
<1>3. ASSUME NEW m \in Pressed', NEW n \in settled'[m]
      PROVE  /\ Carried(n)'
             /\ \A i, j \in DOMAIN dispatched' :
                   CommandOf(i)' = n /\ CommandOf(j)' = m => i < j
  BY <1>1, <1>3 DEF Settled
<1>4. \A n, m \in Pressed' :
          n < m /\ commands'[n].by = commands'[m].by /\ commands'[n].by \in Blocking
              => state'[n] = "failed" \/ n \in settled'[m]
  BY <1>1 DEF Settled
<1> QED BY <1>2, <1>3, <1>4 DEF Settled

\* A new command comes after all that was answered, and a client that waits has answers.
LEMMA PressSettled ==
    ASSUME TypeOK, OneCopy, Settled,
           NEW c \in Clients, NEW k \in Kinds, NEW p \in Peers, Press(c, k, p)
    PROVE  Settled'
<1>1. PICK new : new = Len(commands) + 1
  OBVIOUS
<1>2. /\ \A n \in Pressed : n \in Nat /\ n < new
      /\ Pressed' = Pressed \cup {new}
      /\ \A n \in Pressed : /\ commands'[n] = commands[n] /\ state'[n] = state[n]
                            /\ settled'[n] = settled[n]
      /\ commands'[new].by = c /\ state'[new] = "asked"
      /\ settled'[new] = {n \in Pressed : state[n] = "answered"}
  <2>1. commands'[new] = [by |-> c, kind |-> k, on |-> p]
    BY <1>1, PressFacts
  <2>2. commands'[new].by = c
    BY <2>1
  <2>3. /\ \A n \in Pressed : n \in Nat /\ n < new
        /\ Pressed' = Pressed \cup {new} /\ state'[new] = "asked"
        /\ settled'[new] = {n \in Pressed : state[n] = "answered"}
    BY <1>1, PressFacts
  <2>4. \A n \in Pressed : /\ commands'[n] = commands[n] /\ state'[n] = state[n]
                           /\ settled'[n] = settled[n]
    BY <1>1, PressFacts
  <2> QED BY <2>2, <2>3, <2>4
<1>3. /\ DOMAIN dispatched' = DOMAIN dispatched /\ (\A i : CommandOf(i)' = CommandOf(i))
      /\ \A n : Carried(n)' <=> Carried(n)
  BY DEF Press, server, CommandOf, Carried
<1>4. \A j \in DOMAIN dispatched : CommandOf(j) # new
  BY <1>2 DEF OneCopy
<1>5. \A n \in Pressed' : state'[n] = "answered" => Carried(n)'
  BY <1>2, <1>3 DEF Settled
<1>6. ASSUME NEW m \in Pressed', NEW n \in settled'[m]
      PROVE  /\ Carried(n)'
             /\ \A i, j \in DOMAIN dispatched' :
                   CommandOf(i)' = n /\ CommandOf(j)' = m => i < j
  <2>1. CASE m \in Pressed
    BY <1>2, <1>3, <1>6, <2>1 DEF Settled
  <2>2. CASE m = new
    BY <1>2, <1>3, <1>4, <1>6, <2>2 DEF Settled
  <2> QED BY <1>2, <1>6, <2>1, <2>2
<1>7. ASSUME NEW n \in Pressed', NEW m \in Pressed', n < m,
             commands'[n].by = commands'[m].by, commands'[n].by \in Blocking
      PROVE  state'[n] = "failed" \/ n \in settled'[m]
  <2>1. n \in Pressed
    BY <1>1, <1>2, <1>7, PathTypes
  <2>2. CASE m \in Pressed
    BY <1>2, <1>7, <2>1, <2>2 DEF Settled
  <2>3. CASE m = new
    <3>1. commands[n].by = c /\ c \in Blocking
      BY <1>2, <1>7, <2>1, <2>3
    <3>2. ~Pending(n)
      BY <2>1, <3>1 DEF Press, MayPress
    <3>3. state[n] \in {"asked", "sent", "answered", "failed"}
      BY <2>1 DEF TypeOK
    <3>4. state[n] = "answered" \/ state[n] = "failed"
      BY <3>2, <3>3 DEF Pending
    <3> QED BY <1>2, <2>1, <2>3, <3>4
  <2> QED BY <1>2, <1>7, <2>2, <2>3
<1> QED BY <1>5, <1>6, <1>7 DEF Settled

\* What is carried out was not before, so that it comes behind what was.
LEMMA CarrySettled ==
    ASSUME TypeOK, OneCopy, Numbered, Settled, NEW p \in Peers, CarryOut(p)
    PROVE  Settled'
<1>1. PICK r, new : r = waiting[p][1] /\ new = Len(dispatched) + 1
  OBVIOUS
<1>2. /\ ~Carried(r)
      /\ DOMAIN dispatched' = DOMAIN dispatched \cup {new}
      /\ \A i \in DOMAIN dispatched : i \in Nat /\ i < new /\ CommandOf(i)' = CommandOf(i)
      /\ CommandOf(new)' = r
      /\ UNCHANGED <<commands, state, settled>> /\ Pressed' = Pressed
  BY <1>1, CarryFacts DEF clients, history, Pressed
<1>3. \A n : Carried(n)' <=> Carried(n) \/ n = r
  BY <1>1, CarriedNext
<1>4. \A n \in Pressed' : state'[n] = "answered" => Carried(n)'
  BY <1>2, <1>3 DEF Settled
<1>5. ASSUME NEW m \in Pressed', NEW n \in settled'[m]
      PROVE  /\ Carried(n)'
             /\ \A i, j \in DOMAIN dispatched' :
                   CommandOf(i)' = n /\ CommandOf(j)' = m => i < j
  <2>1. Carried(n) /\ n # r
    BY <1>2, <1>5 DEF Settled
  <2>2. ASSUME NEW i \in DOMAIN dispatched', NEW j \in DOMAIN dispatched',
               CommandOf(i)' = n, CommandOf(j)' = m
        PROVE  i < j
    <3>1. i \in DOMAIN dispatched /\ CommandOf(i) = n
      BY <1>2, <2>1, <2>2
    <3>2. CASE j = new
      BY <1>2, <3>1, <3>2
    <3>3. CASE j \in DOMAIN dispatched
      BY <1>2, <1>5, <2>2, <3>1, <3>3 DEF Settled
    <3> QED BY <1>2, <2>2, <3>2, <3>3
  <2> QED BY <1>3, <2>1, <2>2
<1>6. \A n, m \in Pressed' :
          n < m /\ commands'[n].by = commands'[m].by /\ commands'[n].by \in Blocking
              => state'[n] = "failed" \/ n \in settled'[m]
  BY <1>2 DEF Settled
<1> QED BY <1>4, <1>5, <1>6 DEF Settled

(***************************************************************************)
(* The theorems.                                                           *)
(***************************************************************************)

LEMMA PathInit == Init => PathInv
<1> SUFFICES ASSUME Init PROVE PathInv
  OBVIOUS
<1>1. /\ commands = <<>> /\ state = <<>> /\ settled = <<>> /\ effects = <<>> /\ dispatched = <<>>
      /\ open = {} /\ ends = 0 /\ last = 0
      /\ waiting = [p \in Peers |-> <<>>]
      /\ accepted = [k \in Kinds |-> {}] /\ done = [k \in Kinds |-> <<>>]
  BY DEF Init, Server!Init, Helper!Init
<1>2. /\ Pressed = {} /\ DOMAIN dispatched = {} /\ DOMAIN effects = {}
      /\ \A p \in Peers : DOMAIN waiting[p] = {}
  BY <1>1 DEF Pressed
<1>3. TypeOK
  <2>1. /\ commands \in Seq([by : Clients, kind : Kinds, on : Peers]) /\ Len(commands) = 0
        /\ dispatched \in Seq([of : Peers, request : Ids])
        /\ effects \in Seq(Pressed)
    BY <1>1, EmptySeq
  <2>2. waiting \in [Peers -> Seq(Ids)] /\ done \in [Kinds -> Seq(Ids)]
    BY <1>1, EmptySeq
  <2>3. /\ state \in [Pressed -> {"asked", "sent", "answered", "failed"}]
        /\ settled \in [Pressed -> SUBSET Pressed]
    BY <1>1, <1>2
  <2> QED BY <1>1, <2>1, <2>2, <2>3, BoundAssumption DEF TypeOK
<1>4. OneCopy /\ NothingTwice /\ InStep /\ Settled
  BY <1>2 DEF OneCopy, NothingTwice, InStep, Settled
<1>5. Numbered
  BY <1>1, <1>2, EmptySeq DEF Numbered
<1> QED BY <1>3, <1>4, <1>5 DEF PathInv

\* Steps that press, carry out and effect nothing, by what they do change.
LEMMA QuietSteps ==
    ASSUME PathInv, UNCHANGED <<commands, dispatched, last, effects, settled>>,
           \A k \in Kinds : accepted'[k] \subseteq accepted[k],
           \A p \in Peers : \A i \in DOMAIN waiting'[p] :
               i \in DOMAIN waiting[p] /\ waiting'[p][i] = waiting[p][i],
           \A n \in Pressed :
               /\ state[n] # "asked" => state'[n] # "asked"
               /\ state'[n] = "answered" => state[n] = "answered" \/ Carried(n)
               /\ state[n] = "failed" => state'[n] = "failed"
    PROVE  OneCopy' /\ Numbered' /\ NothingTwice' /\ InStep' /\ Settled'
<1>1. Pressed' = Pressed
  BY DEF Pressed
<1>2. OneCopy' /\ Numbered' /\ InStep' /\ Settled'
  BY <1>1, KeepCopy, KeepNumbered, KeepInStep, KeepSettled DEF PathInv
<1>3. NothingTwice'
  BY DEF PathInv, NothingTwice
<1> QED BY <1>2, <1>3

LEMMA PathStep == PathInv /\ [Next]_vars => PathInv'
<1> SUFFICES ASSUME PathInv, [Next]_vars PROVE PathInv'
  OBVIOUS
<1> USE DEF PathInv
<1> DEFINE Others == OneCopy /\ Numbered /\ NothingTwice /\ InStep /\ Settled
<1>1. ASSUME NEW c \in Clients, NEW k \in Kinds, NEW p \in Peers, Press(c, k, p)
      PROVE  Others'
  <2>1. /\ UNCHANGED <<waiting, dispatched, accepted, last, effects>>
        /\ Pressed \subseteq Pressed'
        /\ \A n \in Pressed : commands'[n] = commands[n] /\ state'[n] = state[n]
    BY <1>1, PressFacts DEF Press, server, helper
  <2>2. OneCopy' /\ Numbered' /\ InStep' /\ Settled'
    BY <1>1, <2>1, KeepCopy, KeepNumbered, KeepInStep, PressSettled
  <2> QED BY <2>1, <2>2 DEF NothingTwice
<1>2. ASSUME NEW n \in Pressed, Reach(n) PROVE Others'
  <2>1. /\ UNCHANGED <<commands, dispatched, accepted, last, effects, settled>>
        /\ Pressed' = Pressed
        /\ state' = [state EXCEPT ![n] = "sent"] /\ state[n] = "asked"
    BY <1>2 DEF Reach, Server!Send, helper, history, Pressed
  <2>2. \A m \in Pressed :
           /\ state'[m] = "answered" => state[m] = "answered"
           /\ state[m] = "failed" => state'[m] = "failed"
    BY <2>1 DEF TypeOK
  <2>3. OneCopy' /\ Numbered' /\ InStep' /\ Settled'
    BY <1>2, <2>1, <2>2, ReachCopy, KeepNumbered, KeepInStep, KeepSettled
  <2> QED BY <2>1, <2>3 DEF NothingTwice
<1>3. ASSUME NEW n \in Pressed, Answer(n) \/ GiveUp(n) PROVE Others'
  <2>1. /\ UNCHANGED <<commands, waiting, dispatched, accepted, last, effects, settled>>
        /\ \/ state' = [state EXCEPT ![n] = "answered"] /\ Carried(n) /\ state[n] = "sent"
           \/ state' = [state EXCEPT ![n] = "failed"]
    BY <1>3 DEF Answer, GiveUp, server, helper, history
  <2>2. \A m \in Pressed :
           /\ state[m] # "asked" => state'[m] # "asked"
           /\ state'[m] = "answered" => state[m] = "answered" \/ Carried(m)
           /\ state[m] = "failed" => state'[m] = "failed"
    BY <2>1 DEF TypeOK
  <2> QED BY <2>1, <2>2, QuietSteps
<1>4. ASSUME NEW p \in Peers, CarryOut(p) PROVE Others'
  <2>1. UNCHANGED effects
    BY <1>4 DEF CarryOut, history
  <2> QED BY <1>4, <2>1, CarryCopy, CarryNumbered, CarryInStep, CarrySettled DEF NothingTwice
<1>5. ASSUME NEW p \in Peers, CloseConnection(p) PROVE Others'
  <2>1. UNCHANGED <<commands, state, dispatched, accepted, last, effects, settled>>
    BY <1>5 DEF CloseConnection, Server!Drop, helper, history
  <2>2. PICK n \in 0..Len(waiting[p]) : waiting' = [waiting EXCEPT ![p] = SubSeq(@, 1, n)]
    BY <1>5 DEF CloseConnection, Server!Drop
  <2>3. ASSUME NEW q \in Peers, NEW i \in DOMAIN waiting'[q]
        PROVE  i \in DOMAIN waiting[q] /\ waiting'[q][i] = waiting[q][i]
    <3>1. CASE q = p
      <4>1. PICK s : s = waiting[p]
        OBVIOUS
      <4>2. s \in Seq(Ids) /\ n \in 0..Len(s) /\ waiting'[p] = SubSeq(s, 1, n)
        BY <2>2, <4>1 DEF TypeOK
      <4>3. i \in DOMAIN SubSeq(s, 1, n)
        BY <2>3, <3>1, <4>2
      <4> QED BY <3>1, <4>1, <4>2, <4>3, SubSeqKeeps
    <3>2. CASE q # p
      BY <2>2, <2>3, <3>2 DEF TypeOK
    <3> QED BY <3>1, <3>2
  <2> QED BY <2>1, <2>3, QuietSteps
<1>6. ASSUME NEW k \in Kinds, TakeEffect(k) PROVE Others'
  <2>1. /\ UNCHANGED <<commands, state, waiting, dispatched, settled>>
        /\ Pressed' = Pressed
    BY <1>6 DEF TakeEffect, clients, server, Pressed
  <2>2. OneCopy' /\ Settled'
    BY <2>1, KeepCopy, KeepSettled
  <2> QED BY <1>6, <2>2, EffectNumbered, EffectInStep
<1>7. ASSUME PineBoardEnds PROVE Others'
  <2>1. /\ UNCHANGED <<commands, state, dispatched, last, effects, settled>>
        /\ \A k \in Kinds : accepted'[k] = {}
        /\ \A p \in Peers : DOMAIN waiting'[p] = {}
    BY <1>7 DEF PineBoardEnds, Helper!Lose, history
  <2> QED BY <2>1, QuietSteps
<1>8. ASSUME UNCHANGED vars PROVE Others'
  <2>1. UNCHANGED <<commands, state, waiting, dispatched, accepted, last, effects, settled>>
    BY <1>8 DEF vars, clients, server, helper, history
  <2> QED BY <2>1, QuietSteps
<1>9. Others'
  BY <1>1, <1>2, <1>3, <1>4, <1>5, <1>6, <1>7, <1>8 DEF Next, OfCommand
<1> QED BY <1>9, PathTypeStep

LEMMA PathAlways == Spec => []PathInv
BY PathInit, PathStep, PTL DEF Spec

\* The variables keep their types, for every value of the constants.
THEOREM PathTypeCorrect == Spec => []TypeOK
<1>1. PathInv => TypeOK
  BY DEF PathInv
<1> QED BY <1>1, PathAlways, PTL

\* No key press takes effect twice.
THEOREM NothingTwiceAlways == Spec => []NothingTwice
<1>1. PathInv => NothingTwice
  BY DEF PathInv
<1> QED BY <1>1, PathAlways, PTL

\* Behind an answer nothing overtakes, except what is no text a text.
LEMMA AnsweredFirst == PathInv => AnsweredComesFirst
<1> SUFFICES ASSUME PathInv, NEW i \in DOMAIN effects, NEW j \in DOMAIN effects,
                    i < j, effects[j] \in settled[effects[i]]
             PROVE  MayOvertake(effects[i], effects[j])
  BY DEF AnsweredComesFirst
<1>1. effects[i] \in Pressed /\ effects[j] \in Pressed
  BY PathTypes DEF PathInv
<1>2. PICK late \in DOMAIN dispatched : CommandOf(late) = effects[i]
  BY DEF PathInv, Numbered, Carried, CommandOf
<1>3. PICK first \in DOMAIN dispatched : CommandOf(first) = effects[j]
  BY DEF PathInv, Numbered, Carried, CommandOf
<1>4. first < late
  BY <1>1, <1>2, <1>3 DEF PathInv, Settled
<1> QED BY <1>2, <1>3, <1>4 DEF PathInv, InStep

\* A command that is pressed after the answer to another one takes effect after it, or the
\* other one is a text and it is none: whoever pressed them, on whatever connections.
THEOREM AnsweredComesFirstAlways == Spec => []AnsweredComesFirst
BY AnsweredFirst, PathAlways, PTL

\* The commands of the iOS client take effect in the order of its keys, but for those whose
\* answer it did not wait for, and texts.
THEOREM OwnOrderAlways == Spec => []OwnOrder
<1>1. ASSUME PathInv, NEW i \in DOMAIN effects, NEW j \in DOMAIN effects,
             i < j, effects[j] < effects[i],
             commands[effects[i]].by = commands[effects[j]].by,
             commands[effects[i]].by \in Blocking
      PROVE  state[effects[j]] = "failed" \/ MayOvertake(effects[i], effects[j])
  <2>1. effects[i] \in Pressed /\ effects[j] \in Pressed
    BY <1>1, PathTypes DEF PathInv
  <2>2. state[effects[j]] = "failed" \/ effects[j] \in settled[effects[i]]
    BY <1>1, <2>1 DEF PathInv, Settled
  <2> QED BY <1>1, <2>2, AnsweredFirst DEF AnsweredComesFirst
<1>2. PathInv => OwnOrder
  BY <1>1 DEF OwnOrder
<1> QED BY <1>2, PathAlways, PTL
=============================================================================
