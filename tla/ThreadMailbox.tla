---------------------------- MODULE ThreadMailbox ----------------------------
(***************************************************************************)
(* What an agent promises the senders of a thread when nothing fails: the  *)
(* messages it has accepted are handed to runs in the order they arrived,  *)
(* each once, unless the user clears the queue; no message waits forever.  *)
(***************************************************************************)
EXTENDS Naturals, Sequences

CONSTANTS Threads, Messages, To

VARIABLES
  waiting,   \* accepted and not yet in a run, per thread
  delivered  \* in a run, per thread

vars == <<waiting, delivered>>

Init ==
  /\ waiting = [t \in Threads |-> <<>>]
  /\ delivered = [t \in Threads |-> <<>>]

\* A message arrives behind the ones that wait.
Accept(m) ==
  /\ waiting' = [waiting EXCEPT ![To[m]] = Append(@, m)]
  /\ UNCHANGED delivered

\* A run takes the first n messages that wait.
Deliver(t, n) ==
  /\ n > 0
  /\ delivered' = [delivered EXCEPT ![t] = @ \o SubSeq(waiting[t], 1, n)]
  /\ waiting' = [waiting EXCEPT ![t] = SubSeq(@, n + 1, Len(@))]

\* The user discards all but the first n, which a run has taken already.
Clear(t, n) ==
  /\ waiting' = [waiting EXCEPT ![t] = SubSeq(@, 1, n)]
  /\ UNCHANGED delivered

Next ==
  \/ \E m \in Messages : Accept(m)
  \/ \E t \in Threads : \E n \in 0 .. Len(waiting[t]) : Deliver(t, n) \/ Clear(t, n)

Spec == Init /\ [][Next]_vars
=============================================================================
