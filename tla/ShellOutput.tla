---------------------------- MODULE ShellOutput ----------------------------
(***************************************************************************)
(* One command of ShellCommandTool.executeStreaming: what the runner sends *)
(* is gathered per stream, flushed when a chunk is full or a timer fires,  *)
(* and appended to the event chunk by chunk through a chain of promises,   *)
(* while more arrives and the limits on the output are reached.  When the  *)
(* command ends the rest is flushed, the chain awaited, the output put     *)
(* together and, if it was cut, saved in the workspace, and the summary    *)
(* recorded.                                                               *)
(*                                                                         *)
(* Output comes in pieces of one size; a piece is its position in what the *)
(* runner has sent.  A stream's timer is set exactly while its buffer      *)
(* holds pieces, so it needs no variable.                                  *)
(***************************************************************************)
EXTENDS Naturals, Sequences, FiniteSets

CONSTANTS
  Configs,     \* limit, client and chunk sizes, in pieces; 0 is no limit
  TailLimit,   \* OUTPUT_TAIL_LIMIT: pieces a message of failure has room for
  MaxPieces,   \* bound on the pieces a command writes
  MaxFaults    \* bound on the writes that fail

ASSUME ShellOutputAssumption ==
  /\ Configs \subseteq [limit : Nat, client : Nat, chunk : Nat \ {0}]
  /\ TailLimit \in Nat \ {0}
  /\ MaxPieces \in Nat /\ MaxFaults \in Nat

Sources == {"stdout", "stderr"}
Exits == {"exit0", "exit1"}
\* A timeout is one of the command, of its silence, or of the call: the three
\* differ in wording only.
Outcomes == Exits \cup {"timeout", "broken"}

VARIABLES
  config,
  command,    \* "running", "over", "exited", then how exec ended, then "over"
  heard,      \* the stream of each piece, in order of arrival
  out,        \* the state the output handler works on, see Quiet
  writing,    \* the chunk whose append is awaited, or Nothing
  shown,      \* orderedOutput: the pieces of the chunks that were let through
  total, dropped,
  rows,       \* numbers of the stored chunks
  announced,  \* chunks given to the event bus, in order
  at,         \* "streaming", "announcing", "returned"
  report,     \* the summary of the command
  result,     \* what executeStreaming returns
  faults

shellVars == <<config, command, heard, out, writing, shown, total, dropped,
               rows, announced, at, report, result, faults>>

Nothing == [none |-> TRUE]

Quiet ==
  [taken  |-> {},                         \* the pieces handled
   buffer |-> [s \in Sources |-> {}],     \* buffers and pendingSegments
   chain  |-> <<>>,                       \* flushes behind the one awaited
   cut    |-> "no",                       \* truncated and its reason
   pass   |-> "none"]                     \* the stream whose next chunk may pass

ShellInit ==
  /\ config \in Configs
  /\ command = "running" /\ at = "streaming"
  /\ heard = <<>>
  /\ out = Quiet
  /\ writing = Nothing
  /\ shown = {} /\ total = 0 /\ dropped = 0
  /\ rows = {} /\ announced = <<>>
  /\ report = Nothing /\ result = Nothing
  /\ faults = 0

-----------------------------------------------------------------------------
\* flushBuffer: what is buffered joins the chain.
Flush(o, s) ==
  IF o.buffer[s] = {} THEN o
  ELSE [o EXCEPT !.buffer[s] = {},
                 !.chain = Append(@, [source |-> s, pieces |-> o.buffer[s]])]

\* handleDecoratedChunk: the piece is buffered, a full buffer flushed, and
\* the output cut when its length has passed the limit.
Take(o, s, piece) ==
  LET put == [o EXCEPT !.taken = @ \cup {piece}, !.buffer[s] = @ \cup {piece}]
      flushed == IF Cardinality(put.buffer[s]) >= config.chunk THEN Flush(put, s) ELSE put
  IN IF o.cut = "no" /\ config.limit > 0 /\ Cardinality(put.taken) > config.limit
     THEN [flushed EXCEPT !.cut = "output_limit", !.pass = s]
     ELSE flushed

\* The runner sends output: nothing is taken once the output is cut and the
\* chunk that crossed the limit is through.
Output(s) ==
  /\ command = "running"
  /\ Len(heard) < MaxPieces
  /\ heard' = Append(heard, s)
  /\ out' = IF out.cut # "no" /\ out.pass = "none" THEN out ELSE Take(out, s, Len(heard'))
  /\ UNCHANGED <<config, command, writing, shown, total, dropped, rows, announced, at,
                 report, result, faults>>

TimerFires(s) ==
  /\ command = "running"
  /\ out.buffer[s] # {}
  /\ out' = Flush(out, s)
  /\ UNCHANGED <<config, command, heard, writing, shown, total, dropped, rows, announced,
                 at, report, result, faults>>

\* Mutant: the last flushes are left to the timers.
Ends_Unflushed(tails) ==
  /\ command = "running"
  /\ Len(heard) + Len(tails) <= MaxPieces
  /\ command' = "over"
  /\ heard' = heard \o tails
  /\ LET n == Len(heard)
         first  == IF Len(tails) > 0 THEN Take(out, tails[1], n + 1) ELSE out
     IN out' = IF Len(tails) > 1 THEN Take(first, tails[2], n + 2) ELSE first
  /\ UNCHANGED <<config, writing, shown, total, dropped, rows, announced, at, report,
                 result, faults>>

\* exec ends: what the decoders and cleaners held back is handled, limits or
\* not, and both buffers are flushed.  How it ended is looked at when the
\* chain is through, and is chosen there.
Ends(tails) ==
  /\ command = "running"
  /\ Len(heard) + Len(tails) <= MaxPieces
  /\ command' = "over"
  /\ heard' = heard \o tails
  /\ LET n == Len(heard)
         first  == IF Len(tails) > 0 THEN Take(out, tails[1], n + 1) ELSE out
         second == IF Len(tails) > 1 THEN Take(first, tails[2], n + 2) ELSE first
     IN out' = Flush(Flush(second, "stdout"), "stderr")
  /\ UNCHANGED <<config, writing, shown, total, dropped, rows, announced, at, report,
                 result, faults>>

\* A runner that has streamed nothing gives the output with the exit event.
EndsUnstreamed(output) ==
  /\ command = "running"
  /\ heard = <<>>
  /\ command' = "exited"
  /\ heard' = output
  /\ UNCHANGED <<config, out, writing, shown, total, dropped, rows, announced, at, report,
                 result, faults>>

-----------------------------------------------------------------------------
\* Mutant: a chunk over the limit of the client is let through once.
BeginsFlush_LetsOver ==
  /\ writing = Nothing
  /\ out.chain # <<>>
  /\ total' = total + 1
  /\ LET flush == Head(out.chain)
         rest == [out EXCEPT !.chain = Tail(@)]
         blocked == out.cut # "no" /\ out.pass # flush.source
         over == config.client > 0 /\ Cardinality(shown) > config.client
     IN \/ /\ blocked \/ over
           /\ dropped' = dropped + 1
           /\ out' = IF blocked THEN rest ELSE [rest EXCEPT !.cut = "client_buffer"]
           /\ UNCHANGED <<writing, shown>>
        \/ /\ ~blocked /\ ~over
           /\ out' = [rest EXCEPT !.pass = "none"]
           /\ shown' = shown \cup flush.pieces
           /\ writing' = [seq |-> Len(announced) + 1, pieces |-> flush.pieces,
                          stored |-> FALSE]
           /\ UNCHANGED dropped
  /\ UNCHANGED <<config, command, heard, rows, announced, at, report, result, faults>>

\* The next flush of the chain begins: it is dropped, or numbered and its
\* append awaited.
BeginsFlush ==
  /\ writing = Nothing
  /\ out.chain # <<>>
  /\ total' = total + 1
  /\ LET flush == Head(out.chain)
         rest == [out EXCEPT !.chain = Tail(@)]
         blocked == out.cut # "no" /\ out.pass # flush.source
         over == /\ config.client > 0
                 /\ Cardinality(shown) + Cardinality(flush.pieces) > config.client
     IN \/ /\ blocked
           /\ dropped' = dropped + 1
           /\ out' = rest
           /\ UNCHANGED <<writing, shown>>
        \/ /\ ~blocked /\ over
           /\ dropped' = dropped + 1
           /\ out' = [rest EXCEPT !.cut = "client_buffer", !.pass = "none"]
           /\ UNCHANGED <<writing, shown>>
        \/ /\ ~blocked /\ ~over
           /\ out' = [rest EXCEPT !.pass = "none"]
           /\ shown' = shown \cup flush.pieces
           /\ writing' = [seq |-> Len(announced) + 1, pieces |-> flush.pieces,
                          stored |-> FALSE]
           /\ UNCHANGED dropped
  /\ UNCHANGED <<config, command, heard, rows, announced, at, report, result, faults>>

StoresChunk ==
  /\ writing # Nothing /\ ~writing.stored
  /\ rows' = rows \cup {writing.seq}
  /\ writing' = [writing EXCEPT !.stored = TRUE]
  /\ UNCHANGED <<config, command, heard, out, shown, total, dropped, announced, at, report,
                 result, faults>>

\* A chunk that cannot be stored is announced all the same.
ChunkNotStored ==
  /\ writing # Nothing /\ ~writing.stored
  /\ faults < MaxFaults
  /\ faults' = faults + 1
  /\ writing' = [writing EXCEPT !.stored = TRUE]
  /\ UNCHANGED <<config, command, heard, out, shown, total, dropped, rows, announced, at,
                 report, result>>

AnnouncesChunk ==
  /\ writing # Nothing /\ writing.stored
  /\ announced' = Append(announced, [seq |-> writing.seq, pieces |-> writing.pieces])
  /\ writing' = Nothing
  /\ UNCHANGED <<config, command, heard, out, shown, total, dropped, rows, at, report,
                 result, faults>>

-----------------------------------------------------------------------------
\* The pieces there are to return: those shown or, when there are none, what
\* exec returned or its error holds.
Gathered(outcome) ==
  IF shown # {} THEN shown
  ELSE IF outcome = "broken" THEN out.taken ELSE 1 .. Len(heard)

\* getCombinedOutput: the pieces shown are in order of arrival, and those that
\* exec gave have one stream after the other.
IsCombined(text, outcome) ==
  /\ {text[i] : i \in DOMAIN text} = Gathered(outcome)
  /\ \A i, j \in DOMAIN text : i < j =>
       IF shown # {} \/ heard[text[i]] = heard[text[j]] THEN text[i] < text[j]
       ELSE heard[text[i]] = "stdout"

Size(outcome) == Cardinality(Gathered(outcome))

CutLate(outcome) ==
  /\ out.cut = "no"
  /\ config.limit > 0 /\ Size(outcome) > config.limit

Status(outcome) ==
  CASE CutLate(outcome) -> IF outcome \in Exits THEN "truncated" ELSE "error"
    [] ~CutLate(outcome) /\ outcome \in {"exit1", "broken"} -> "error"
    [] ~CutLate(outcome) /\ outcome = "exit0" ->
         IF out.cut = "no" THEN "success" ELSE "truncated"
    [] OTHER -> outcome

Kind(outcome) ==
  CASE outcome \notin Exits -> "failure"
    [] outcome = "exit1" -> "exit"
    [] OTHER -> IF Status(outcome) = "truncated" THEN "cut" ELSE "whole"

\* What executeStreaming returns: the output, the end of it in a message that
\* has no room for more, or only how it was cut or could not be saved.
Rendered(kind, text, saved) ==
  LET over == config.limit > 0 /\ Len(text) > config.limit
      smaller(m, n) == IF m < n THEN m ELSE n
      room == CASE over -> smaller(config.limit, TailLimit)
                [] ~over /\ kind = "failure" -> smaller(Len(text), TailLimit)
                [] OTHER -> Len(text)
  IN IF kind = "cut" \/ (over /\ ~saved) THEN <<>>
     ELSE SubSeq(text, Len(text) - room + 1, Len(text))

\* Mutant: the summary does not wait for the append in progress.
Settles_Unawaited(outcome) ==
  /\ at = "streaming"
  /\ command \in {"over", "exited"} /\ out.chain = <<>>
  /\ command = "exited" => outcome # "broken"
  /\ report' = [status |-> Status(outcome), total |-> total, dropped |-> dropped,
                saved |-> <<>>]
  /\ \E text \in [1 .. Size(outcome) -> Gathered(outcome)] :
       /\ IsCombined(text, outcome)
       /\ result' = [kind |-> Kind(outcome), text |-> text]
  /\ command' = outcome
  /\ at' = "announcing"
  /\ UNCHANGED <<config, heard, out, writing, shown, total, dropped, rows, announced, faults>>

\* The chain is through: the output is put together and, if it was cut,
\* saved; finalizeToolOutputTerminal records the summary.  Saving may fail;
\* a failure to record is swallowed and changes nothing here.
Settles(outcome) ==
  /\ at = "streaming"
  /\ command \in {"over", "exited"} /\ out.chain = <<>> /\ writing = Nothing
  /\ command = "exited" => outcome # "broken"
  /\ \E text \in [1 .. Size(outcome) -> Gathered(outcome)] :
       LET saves == (out.cut # "no" \/ CutLate(outcome)) /\ text # <<>>
           kind == Kind(outcome)
       IN /\ IsCombined(text, outcome)
          /\ \E saved \in {saves, FALSE} :
               /\ faults' = faults + IF saved = saves THEN 0 ELSE 1
               /\ faults' <= MaxFaults
               /\ report' = [status |-> Status(outcome), total |-> total, dropped |-> dropped,
                             saved |-> IF saved THEN text ELSE <<>>]
               /\ result' = [kind |-> kind, text |-> Rendered(kind, text, saved)]
  /\ command' = outcome
  /\ at' = "announcing"
  /\ UNCHANGED <<config, heard, out, writing, shown, total, dropped, rows, announced>>

\* The summary is announced, and the output returned to the agent: what
\* executeStreaming kept of it is gone, but for the counts.
Returns ==
  /\ at = "announcing" /\ at' = "returned"
  /\ command' = "over" /\ heard' = <<>> /\ out' = Quiet
  /\ report' = Nothing /\ result' = Nothing
  /\ UNCHANGED <<config, writing, shown, total, dropped, rows, announced, faults>>

\* An output given with the exit event has its streams apart.
UnstreamedOutputs ==
  UNION {{[i \in 1 .. n |-> IF i <= k THEN "stdout" ELSE "stderr"] : k \in 0 .. n} :
           n \in 1 .. MaxPieces}

ShellNext ==
  \/ \E s \in Sources : Output(s) \/ TimerFires(s)
  \/ \E tails \in {<<>>, <<"stdout">>, <<"stderr">>, <<"stdout", "stderr">>} : Ends(tails)
  \/ \E output \in UnstreamedOutputs : EndsUnstreamed(output)
  \/ BeginsFlush \/ StoresChunk \/ ChunkNotStored \/ AnnouncesChunk
  \/ \E outcome \in Outcomes : Settles(outcome)
  \/ Returns

ShellSpec == ShellInit /\ [][ShellNext]_shellVars

-----------------------------------------------------------------------------
(* The summary of a command is exact: each flush was announced or counted  *)
(* as dropped, no piece was announced twice, and what was announced stays  *)
(* within the limit of the client (the counters executeStreaming keeps in  *)
(* the chain while output arrives).                                        *)
ChunksAccounted ==
  LET awaited == IF writing = Nothing THEN {} ELSE writing.pieces
      pieces(k) == announced[k].pieces
  IN /\ total = Len(announced) + dropped + IF writing = Nothing THEN 0 ELSE 1
     /\ shown = awaited \cup UNION {pieces(k) : k \in DOMAIN announced}
     /\ \A j, k \in DOMAIN announced : j # k => pieces(j) \cap pieces(k) = {}
     /\ config.client > 0 => Cardinality(shown) <= config.client
     /\ report # Nothing => report.total = Len(announced) + report.dropped

(* What executeStreaming returns, or the file it has saved when the output *)
(* was cut, has each piece once and in the order of its stream, and in the *)
(* order of arrival if any chunk was shown.  It has every piece that was   *)
(* announced, and all of the output unless it was cut; a message of        *)
(* failure may have its end only, and a cut output that could not be saved *)
(* promises nothing.                                                       *)
ResultWhole ==
  LET text == IF report.saved # <<>> THEN report.saved ELSE result.text
      pieces == {text[i] : i \in DOMAIN text}
      unsaved == report.saved = <<>> /\ (out.cut # "no" \/ CutLate(command))
      tail == report.saved = <<>> /\ result.kind = "failure" /\ Len(text) >= TailLimit
  IN result # Nothing /\ ~unsaved =>
       /\ \A i, j \in DOMAIN text : i < j =>
            \/ text[i] < text[j]
            \/ shown = {} /\ heard[text[i]] = "stdout" /\ heard[text[j]] = "stderr"
       /\ ~tail => shown \subseteq pieces
       /\ out.cut = "no" /\ ~tail => pieces = 1 .. Len(heard)

(* Watched from outside, a command is an output feed: its chunks are       *)
(* numbered without a gap, one append is in progress at a time, a chunk    *)
(* can be read before it is announced, and nothing follows the summary.    *)
Feed == INSTANCE OutputFeed WITH
  stored <- rows,
  announced <- [k \in DOMAIN announced |-> announced[k].seq],
  end <- CASE at = "announcing" -> "ending" [] at = "returned" -> "ended" [] OTHER -> "open"

ImplementsFeed == Feed!Spec
=============================================================================
