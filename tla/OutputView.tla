----------------------------- MODULE OutputView -----------------------------
(***************************************************************************)
(* A browser that watches the output of a command: useToolOutputStreaming, *)
(* the graph socket, and the snapshots of the stored output it asks the    *)
(* server for.  The hook is enabled while the event selected is a running  *)
(* command, and stays mounted while the user selects one event or another, *)
(* so answers may come to a view that has moved on; the socket loses what  *)
(* is announced while it is down or not subscribed; and the server reads a *)
(* snapshot some time before its answer arrives.                           *)
(*                                                                         *)
(* "this" is the event of the command in ShellOutput, "other" one of a     *)
(* command whose output is stored already.                                 *)
(***************************************************************************)
EXTENDS ShellOutput

CONSTANTS
  Limit,        \* chunks in an answer
  OtherChunks,  \* chunks stored for the other event
  MaxRequests,  \* bound on the snapshots asked for
  MaxDrops      \* bound on the losses of the connection

ASSUME OutputViewAssumption ==
  /\ Limit \in Nat \ {0} /\ OtherChunks \in Nat
  /\ MaxRequests \in Nat /\ MaxDrops \in Nat

VARIABLES
  event,       \* the event the hook shows, "none" while it is not enabled
  chunks,      \* StreamState.chunks
  requests,    \* snapshots asked for, in order
  catchup,     \* catchupRef: the request in progress, or 0
  socket,      \* "up", "down", or "joining" until it is subscribed again
  delivered,   \* announced chunks that were delivered or lost
  drops,
  misapplied   \* history: was an answer applied to a view it does not fit?

viewVars == <<event, chunks, requests, catchup, socket, delivered, drops, misapplied>>
vars == <<shellVars, viewVars>>

Events == {"this", "other"}

LastSeq(view) == IF view = <<>> THEN 0 ELSE view[Len(view)].seq

ViewInit ==
  /\ event = "none" /\ chunks = <<>>
  /\ requests = <<>> /\ catchup = 0
  /\ socket = "up" /\ delivered = 0 /\ drops = 0
  /\ misapplied = FALSE

Init == ShellInit /\ ViewInit

-----------------------------------------------------------------------------
\* fetchSnapshot up to its await.  upto, a history, is the last chunk that
\* had been announced when the caller knew it was missing some.
Request(e, since, upto) ==
  [event |-> e, since |-> since, upto |-> upto, items |-> <<>>, state |-> "sent"]

\* requestCatchup: one at a time.
AsksCatchup(upto) ==
  IF catchup # 0 THEN UNCHANGED <<requests, catchup>>
  ELSE /\ Len(requests) < MaxRequests
       /\ requests' = Append(requests, Request(event, LastSeq(chunks), upto))
       /\ catchup' = Len(requests) + 1

\* The user selects an event: the view is reset and a full snapshot asked
\* for.  Requests in progress are left alone, and so is catchupRef.
Selects(e) ==
  /\ event # e
  /\ Len(requests) < MaxRequests
  /\ event' = e /\ chunks' = <<>> /\ misapplied' = FALSE
  /\ requests' = Append(requests, Request(e, 0, 0))
  /\ UNCHANGED <<catchup, socket, delivered, drops>>

\* The event shown has ended, or the user leaves it: the hook is disabled and
\* the view reset.  An answer in progress is applied to it all the same.
Leaves ==
  /\ event # "none"
  /\ event' = "none" /\ chunks' = <<>> /\ misapplied' = FALSE
  /\ UNCHANGED <<requests, catchup, socket, delivered, drops>>

Stored(e) == IF e = "this" THEN rows ELSE 1 .. OtherChunks

\* Mutant: since taken for the next chunk expected.
IsSnapshot_FromNext(items, e, since) ==
  LET behind == {n \in Stored(e) : since = 0 \/ n > since + 1}
      taken  == {items[k] : k \in DOMAIN items}
  IN /\ taken \subseteq behind
     /\ \A j, k \in DOMAIN items : j < k => items[j] < items[k]
     /\ \A n \in behind \ taken :
          Len(items) = Limit /\ \A k \in DOMAIN items : items[k] < n

\* getToolOutputSnapshot: the chunks behind since in order, and when they are
\* more than Limit the oldest of them.
IsSnapshot(items, e, since) ==
  LET behind == {n \in Stored(e) : n > since}
      taken  == {items[k] : k \in DOMAIN items}
  IN /\ taken \subseteq behind
     /\ \A j, k \in DOMAIN items : j < k => items[j] < items[k]
     /\ \A n \in behind \ taken :
          Len(items) = Limit /\ \A k \in DOMAIN items : items[k] < n

IsRead(i) ==
  /\ requests[i].state = "sent"
  /\ \E size \in 0 .. Limit : \E items \in [1 .. size -> Stored(requests[i].event)] :
       /\ IsSnapshot(items, requests[i].event, requests[i].since)
       /\ requests' = [requests EXCEPT ![i].state = "read", ![i].items = items]
  /\ UNCHANGED <<event, chunks, catchup, socket, delivered, drops, misapplied>>

\* The request is over, and with it the catch-up if it was one.
Over(i) ==
  /\ requests' = [requests EXCEPT ![i] = [Request("none", 0, 0) EXCEPT !.state = "over"]]
  /\ catchup' = IF catchup = i THEN 0 ELSE catchup

\* What an answer is applied to: the present view for a catch-up, an empty
\* one for a full snapshot.
Base(r) == IF r.since = 0 THEN <<>> ELSE chunks

\* The chunks of an answer but the first, which the view has.
Applied(r, first) ==
  Base(r) \o [k \in 1 .. Len(r.items) - first |->
                [event |-> r.event, seq |-> r.items[first + k]]]

\* An answer arrives.  It is not compared with the event now shown.
IsApplied(i) ==
  LET r == requests[i]
      fits == event = "none" \/ (r.event = event /\ r.since <= LastSeq(chunks))
  IN /\ r.state = "read"
     /\ \E first \in 0 .. Len(r.items) :
          /\ \A k \in DOMAIN r.items : r.items[k] > LastSeq(Base(r)) <=> k > first
          /\ chunks' = Applied(r, first)
     /\ misapplied' = IF ~fits THEN TRUE ELSE r.since # 0 /\ misapplied
     /\ Over(i)
     /\ UNCHANGED <<event, socket, delivered, drops>>

Fails(i) ==
  /\ requests[i].state \in {"sent", "read"}
  /\ faults < MaxFaults
  /\ faults' = faults + 1
  /\ Over(i)
  /\ UNCHANGED <<event, chunks, socket, delivered, drops, misapplied>>

-----------------------------------------------------------------------------
\* Mutant: any newer chunk is appended.
Hears_AnyNewer(n) ==
  \/ /\ event = "this" /\ n > LastSeq(chunks)
     /\ chunks' = Append(chunks, [event |-> "this", seq |-> n])
     /\ UNCHANGED <<requests, catchup>>
  \/ /\ event # "this" \/ n <= LastSeq(chunks)
     /\ UNCHANGED <<chunks, requests, catchup>>

\* onToolOutputChunk: the next chunk is appended, an old one ignored, and a
\* gap makes the hook ask for what it has missed.
Hears(n) ==
  \/ /\ event = "this" /\ n = LastSeq(chunks) + 1
     /\ chunks' = Append(chunks, [event |-> "this", seq |-> n])
     /\ UNCHANGED <<requests, catchup>>
  \/ /\ event = "this" /\ n > LastSeq(chunks) + 1
     /\ AsksCatchup(n)
     /\ UNCHANGED chunks
  \/ /\ event # "this" \/ n <= LastSeq(chunks)
     /\ UNCHANGED <<chunks, requests, catchup>>

IsDelivered ==
  /\ socket = "up"
  /\ delivered < Len(announced)
  /\ delivered' = delivered + 1
  /\ Hears(announced[delivered'].seq)
  /\ UNCHANGED <<event, socket, drops, misapplied>>

\* A client in the rooms of the run and of the thread gets a chunk twice.
IsDeliveredAgain ==
  /\ socket = "up"
  /\ delivered > 0
  /\ Hears(announced[delivered].seq)
  /\ UNCHANGED <<event, socket, delivered, drops, misapplied>>

Disconnects ==
  /\ socket # "down"
  /\ drops < MaxDrops
  /\ socket' = "down" /\ drops' = drops + 1
  /\ UNCHANGED <<event, chunks, requests, catchup, delivered, misapplied>>

\* onReconnected: a catch-up is asked for; the rooms are not yet joined.
Reconnects ==
  /\ socket = "down"
  /\ socket' = "joining"
  /\ IF event = "none" THEN UNCHANGED <<requests, catchup>> ELSE AsksCatchup(Len(announced))
  /\ UNCHANGED <<event, chunks, delivered, drops, misapplied>>

\* The server has handled the subscription: what was announced is lost.
Joins ==
  /\ socket = "joining"
  /\ socket' = "up" /\ delivered' = Len(announced)
  /\ UNCHANGED <<event, chunks, requests, catchup, drops, misapplied>>

ViewNext ==
  \/ \E e \in Events : Selects(e)
  \/ Leaves
  \/ \E i \in DOMAIN requests : IsRead(i) \/ IsApplied(i)
  \/ IsDelivered \/ IsDeliveredAgain
  \/ Disconnects \/ Reconnects \/ Joins

Next ==
  \/ ShellNext /\ UNCHANGED viewVars
  \/ ViewNext /\ UNCHANGED shellVars
  \/ /\ \E i \in DOMAIN requests : Fails(i)
     /\ UNCHANGED <<config, command, heard, out, writing, shown, total, dropped, rows,
                    announced, at, report, result>>

Spec == Init /\ [][Next]_vars

-----------------------------------------------------------------------------
(* The view of a running command has its chunks in order, each once, and   *)
(* has every stored chunk up to the last it shows, as long as no answer    *)
(* was applied that does not fit it: one of another event, or a catch-up   *)
(* that starts behind the end of a view an older snapshot has shortened.   *)
ViewSound ==
  event = "this" /\ ~misapplied =>
    /\ \A k \in DOMAIN chunks : chunks[k].event = "this"
    /\ \A j, k \in DOMAIN chunks : j < k => chunks[j].seq < chunks[k].seq
    /\ \A n \in rows : n <= LastSeq(chunks) => \E k \in DOMAIN chunks : chunks[k].seq = n

(* A catch-up that is answered has brought what was missing when it was    *)
(* asked for: after a gap or a reconnection the view has every chunk       *)
(* announced by then and stored, up to the last of an answer cut at the    *)
(* limit (the hook does not ask for the rest), unless the answer does not  *)
(* fit the view.                                                           *)
CatchupsCatchUp ==
  [][\A i \in DOMAIN requests :
       LET r == requests[i]
           reached(n) == Len(r.items) < Limit \/ n <= r.items[Limit]
       IN /\ r.state = "read" /\ requests'[i].state = "over" /\ faults' = faults
          /\ event' = "this" /\ ~misapplied'
          => \A n \in rows : n <= r.upto /\ reached(n) =>
               \E k \in DOMAIN chunks' : chunks'[k].seq = n]_vars
=============================================================================
