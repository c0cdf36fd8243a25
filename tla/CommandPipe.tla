----------------------------- MODULE CommandPipe -----------------------------
(***************************************************************************)
(* What the remote control promises to those who send it commands: of each *)
(* kind, the accepted commands take effect one at a time, each at most     *)
(* once, in the order of acceptance; the end of the process may lose those *)
(* that had no effect yet, and nothing else does.  A command of a delayed  *)
(* kind, a text, may be overtaken by others; nothing overtakes the rest.   *)
(***************************************************************************)
EXTENDS Naturals, Sequences

CONSTANTS Kinds, Ids,
          Delayed            \* the kinds that take effect some time after they are handled

VARIABLES accepted,  \* [Kinds -> SUBSET Ids]: accepted, and without effect yet
          done,      \* [Kinds -> Seq(Ids)]: in the order of their effects
          last       \* the last identifier given out: they are given in the order of acceptance

vars == <<accepted, done, last>>

Init ==
    /\ accepted = [k \in Kinds |-> {}]
    /\ done = [k \in Kinds |-> <<>>]
    /\ last = 0

Accept(k) ==
    /\ last + 1 \in Ids
    /\ last' = last + 1
    /\ accepted' = [accepted EXCEPT ![k] = @ \cup {last'}]
    /\ UNCHANGED done

\* Whether command n overtakes an accepted one that is not delayed.
Overtakes(n) == \E k \in Kinds \ Delayed : \E m \in accepted[k] : m < n

\* The oldest of the kind takes effect.
Effect(k, n) ==
    /\ n \in accepted[k] /\ \A m \in accepted[k] : n <= m
    /\ ~Overtakes(n)
    /\ done' = [done EXCEPT ![k] = Append(@, n)]
    /\ accepted' = [accepted EXCEPT ![k] = @ \ {n}]
    /\ UNCHANGED last

Lose ==
    /\ accepted' = [k \in Kinds |-> {}]
    /\ UNCHANGED <<done, last>>

Next == Lose \/ \E k \in Kinds : Accept(k) \/ \E n \in Ids : Effect(k, n)

Spec == Init /\ [][Next]_vars
==============================================================================
