----------------------------- MODULE OutputFeed -----------------------------
(***************************************************************************)
(* What a streaming tool promises those who watch its output: numbered     *)
(* chunks, announced one after the other, each of them readable before it  *)
(* is announced unless it could not be stored at all, and then an end      *)
(* after which nothing comes.                                              *)
(***************************************************************************)
EXTENDS Naturals, Sequences

VARIABLES
  stored,     \* numbers of the chunks that can be read
  announced,  \* numbers announced, in order
  end         \* "open", "ending" while the summary is recorded, "ended"

vars == <<stored, announced, end>>

Coming == Len(announced) + 1

Init ==
  /\ stored = {}
  /\ announced = <<>>
  /\ end = "open"

Store ==
  /\ end = "open"
  /\ Coming \notin stored
  /\ stored' = stored \cup {Coming}
  /\ UNCHANGED <<announced, end>>

Announce ==
  /\ end = "open"
  /\ announced' = Append(announced, Coming)
  /\ UNCHANGED <<stored, end>>

\* The end is recorded when nothing is stored that is still to be announced.
Conclude ==
  /\ end = "open"
  /\ Coming \notin stored
  /\ end' = "ending"
  /\ UNCHANGED <<stored, announced>>

AnnounceEnd ==
  /\ end = "ending"
  /\ end' = "ended"
  /\ UNCHANGED <<stored, announced>>

Next == Store \/ Announce \/ Conclude \/ AnnounceEnd

Spec == Init /\ [][Next]_vars
=============================================================================
