----------------------------- MODULE RequestPipe -----------------------------
(***************************************************************************)
(* What the HTTP server promises to those who send it requests: of each    *)
(* connection, requests are carried out one at a time, in the order they   *)
(* were sent and at most once; when a connection ends, the last of them    *)
(* may be lost.  Requests of different connections are not ordered.        *)
(***************************************************************************)
EXTENDS Naturals, Sequences

CONSTANTS Peers, Requests

VARIABLES waiting,     \* [Peers -> Seq(Requests)]: sent, and not carried out yet
          dispatched   \* the requests carried out, as [of, request]

Init == waiting = [p \in Peers |-> <<>>] /\ dispatched = <<>>

Send(p, r) ==
    /\ waiting' = [waiting EXCEPT ![p] = Append(@, r)]
    /\ UNCHANGED dispatched

Dispatch(p) ==
    /\ waiting[p] # <<>>
    /\ dispatched' = Append(dispatched, [of |-> p, request |-> Head(waiting[p])])
    /\ waiting' = [waiting EXCEPT ![p] = Tail(@)]

Drop(p) ==
    /\ \E n \in 0..Len(waiting[p]) : waiting' = [waiting EXCEPT ![p] = SubSeq(@, 1, n)]
    /\ UNCHANGED dispatched

Next ==
    \E p \in Peers : Dispatch(p) \/ Drop(p) \/ \E r \in Requests : Send(p, r)

Spec == Init /\ [][Next]_<<waiting, dispatched>>
==============================================================================
