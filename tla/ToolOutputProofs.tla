-------------------------- MODULE ToolOutputProofs --------------------------
(***************************************************************************)
(* Proofs about a command and those who watch its output, for any limits,  *)
(* any number of pieces and failures, and any behaviour of the browser.    *)
(***************************************************************************)
EXTENDS OutputView, SequenceTheorems, FiniteSetTheorems, TLAPS

Pieces == SUBSET Nat
Chunk == [source : Sources, pieces : Pieces]
Written == [seq : Nat, pieces : Pieces, stored : BOOLEAN]
OutState ==
  [taken : Pieces, buffer : [Sources -> Pieces], chain : Seq(Chunk),
   cut : {"no", "output_limit", "client_buffer"}, pass : Sources \cup {"none"}]

OutputTypes ==
  /\ config \in Configs
  /\ heard \in Seq(Sources)
  /\ out \in OutState
  /\ writing \in {Nothing} \cup Written
  /\ shown \in Pieces /\ IsFiniteSet(shown)
  /\ total \in Nat /\ dropped \in Nat
  /\ rows \in Pieces
  /\ announced \in Seq([seq : Nat, pieces : Pieces])
  /\ at \in {"streaming", "announcing", "returned"}

\* Of the pieces handled, each is in one place: shown, buffered for its stream,
\* or in one flush of the chain.
Apart(o, S) ==
  /\ S \subseteq o.taken
  /\ \A s \in Sources : o.buffer[s] \subseteq o.taken /\ o.buffer[s] \cap S = {}
  /\ \A s, u \in Sources : s # u => o.buffer[s] \cap o.buffer[u] = {}
  /\ \A i \in DOMAIN o.chain :
       /\ o.chain[i].pieces \subseteq o.taken /\ o.chain[i].pieces \cap S = {}
       /\ \A s \in Sources : o.chain[i].pieces \cap o.buffer[s] = {}
  /\ \A i, j \in DOMAIN o.chain : i # j => o.chain[i].pieces \cap o.chain[j].pieces = {}

\* Apart looks at nothing but what is taken, buffered and in the chain.
LEMMA ApartSame ==
  ASSUME NEW o, NEW p, NEW S, Apart(o, S),
         p.taken = o.taken, p.buffer = o.buffer, p.chain = o.chain
  PROVE  Apart(p, S)
BY DEF Apart

\* A flush moves a buffer to the end of the chain.
LEMMA FlushMoves ==
  ASSUME NEW o \in OutState, NEW s \in Sources, o.buffer[s] # {}
  PROVE  LET f == Flush(o, s)
         IN /\ f \in OutState /\ f.taken = o.taken /\ f.cut = o.cut
            /\ f.buffer[s] = {} /\ \A u \in Sources \ {s} : f.buffer[u] = o.buffer[u]
            /\ Len(o.chain) \in Nat /\ DOMAIN o.chain = 1 .. Len(o.chain)
            /\ DOMAIN f.chain = DOMAIN o.chain \cup {Len(o.chain) + 1}
            /\ \A i \in DOMAIN o.chain : f.chain[i] = o.chain[i]
            /\ f.chain[Len(o.chain) + 1].pieces = o.buffer[s]
<1> DEFINE chunk == [source |-> s, pieces |-> o.buffer[s]]
           f == [o EXCEPT !.buffer[s] = {}, !.chain = Append(@, chunk)]
<1>1. Flush(o, s) = f
  BY DEF Flush
<1>2. chunk \in Chunk /\ o.chain \in Seq(Chunk) /\ o.buffer \in [Sources -> Pieces]
  BY DEF OutState, Chunk
<1>3. /\ Append(o.chain, chunk) \in Seq(Chunk) /\ Len(o.chain) \in Nat
      /\ DOMAIN o.chain = 1 .. Len(o.chain)
      /\ DOMAIN Append(o.chain, chunk) = 1 .. Len(o.chain) + 1
      /\ \A i \in 1 .. Len(o.chain) : Append(o.chain, chunk)[i] = o.chain[i]
      /\ Append(o.chain, chunk)[Len(o.chain) + 1] = chunk
  BY <1>2, AppendProperties, LenProperties
<1>4. /\ f \in OutState /\ f.taken = o.taken /\ f.cut = o.cut
      /\ f.buffer = [o.buffer EXCEPT ![s] = {}] /\ f.chain = Append(o.chain, chunk)
  BY <1>2, <1>3 DEF OutState, Pieces
<1>5. /\ f.buffer[s] = {} /\ \A u \in Sources \ {s} : f.buffer[u] = o.buffer[u]
      /\ \A i \in 1 .. Len(o.chain) : f.chain[i] = o.chain[i]
      /\ f.chain[Len(o.chain) + 1].pieces = o.buffer[s]
      /\ DOMAIN f.chain = DOMAIN o.chain \cup {Len(o.chain) + 1}
  BY <1>2, <1>3, <1>4
<1> HIDE DEF f
<1> QED
  BY <1>1, <1>3, <1>4, <1>5

\* So the pieces of a flush stay apart from the others.
LEMMA FlushApart ==
  ASSUME NEW o \in OutState, NEW s \in Sources, NEW S, Apart(o, S)
  PROVE  /\ Flush(o, s) \in OutState /\ Flush(o, s).taken = o.taken
         /\ Apart(Flush(o, s), S)
<1> DEFINE f == Flush(o, s)
<1>1. CASE o.buffer[s] = {}
  BY <1>1 DEF Flush
<1>2. CASE o.buffer[s] # {}
  <2>1. /\ f \in OutState /\ f.taken = o.taken
        /\ f.buffer[s] = {} /\ \A u \in Sources \ {s} : f.buffer[u] = o.buffer[u]
        /\ Len(o.chain) \in Nat /\ DOMAIN o.chain = 1 .. Len(o.chain)
        /\ DOMAIN f.chain = DOMAIN o.chain \cup {Len(o.chain) + 1}
        /\ \A i \in DOMAIN o.chain : f.chain[i] = o.chain[i]
        /\ f.chain[Len(o.chain) + 1].pieces = o.buffer[s]
    BY <1>2, FlushMoves
  <2> HIDE DEF f
  <2>2. Apart(f, S)
    <3>1. /\ S \subseteq f.taken
          /\ \A u \in Sources : f.buffer[u] \subseteq f.taken /\ f.buffer[u] \cap S = {}
          /\ \A t, u \in Sources : t # u => f.buffer[t] \cap f.buffer[u] = {}
      BY <2>1 DEF Apart
    <3>2. ASSUME NEW i \in DOMAIN f.chain
          PROVE  /\ f.chain[i].pieces \subseteq f.taken /\ f.chain[i].pieces \cap S = {}
                 /\ \A u \in Sources : f.chain[i].pieces \cap f.buffer[u] = {}
      <4>1. CASE i \in DOMAIN o.chain
        BY <2>1, <4>1 DEF Apart
      <4>2. CASE i = Len(o.chain) + 1
        BY <2>1, <4>2 DEF Apart
      <4> QED
        BY <2>1, <4>1, <4>2
    <3>3. ASSUME NEW i \in DOMAIN f.chain, NEW j \in DOMAIN f.chain, i # j
          PROVE  f.chain[i].pieces \cap f.chain[j].pieces = {}
      <4>1. CASE i \in DOMAIN o.chain /\ j \in DOMAIN o.chain
        BY <2>1, <3>3, <4>1 DEF Apart
      <4>2. CASE i = Len(o.chain) + 1 /\ j \in DOMAIN o.chain
        BY <2>1, <4>2 DEF Apart
      <4>3. CASE i \in DOMAIN o.chain /\ j = Len(o.chain) + 1
        BY <2>1, <4>3 DEF Apart
      <4> QED
        BY <2>1, <3>3, <4>1, <4>2, <4>3
    <3> QED
      BY <3>1, <3>2, <3>3 DEF Apart
  <2> QED
    BY <2>1, <2>2 DEF f
<1> QED
  BY <1>1, <1>2

\* A new piece is buffered, and perhaps flushed at once.
LEMMA TakeApart ==
  ASSUME NEW o \in OutState, NEW s \in Sources, NEW S, Apart(o, S),
         NEW piece \in Nat, piece \notin o.taken
  PROVE  /\ Take(o, s, piece) \in OutState
         /\ Take(o, s, piece).taken = o.taken \cup {piece}
         /\ Apart(Take(o, s, piece), S)
<1> DEFINE put == [o EXCEPT !.taken = @ \cup {piece}, !.buffer[s] = @ \cup {piece}]
           flushed == IF Cardinality(put.buffer[s]) >= config.chunk THEN Flush(put, s) ELSE put
<1>1. o.buffer \in [Sources -> Pieces]
  BY DEF OutState
<1>2. /\ put \in OutState /\ put.taken = o.taken \cup {piece}
      /\ put.buffer = [o.buffer EXCEPT ![s] = @ \cup {piece}] /\ put.chain = o.chain
  BY <1>1 DEF OutState, Pieces
<1>3. put.buffer[s] = o.buffer[s] \cup {piece} /\ \A u \in Sources \ {s} : put.buffer[u] = o.buffer[u]
  BY <1>1, <1>2
<1> HIDE DEF put
<1>4. Apart(put, S)
  BY <1>2, <1>3 DEF Apart
<1>5. flushed \in OutState /\ flushed.taken = put.taken /\ Apart(flushed, S)
  BY <1>2, <1>4, FlushApart
<1> HIDE DEF flushed
<1>6. Take(o, s, piece) \in {flushed, [flushed EXCEPT !.cut = "output_limit", !.pass = s]}
  BY DEF Take, flushed, put
<1>7. /\ [flushed EXCEPT !.cut = "output_limit", !.pass = s] \in OutState
      /\ [flushed EXCEPT !.cut = "output_limit", !.pass = s].taken = flushed.taken
      /\ [flushed EXCEPT !.cut = "output_limit", !.pass = s].buffer = flushed.buffer
      /\ [flushed EXCEPT !.cut = "output_limit", !.pass = s].chain = flushed.chain
  BY <1>5 DEF OutState
<1>8. Apart([flushed EXCEPT !.cut = "output_limit", !.pass = s], S)
  BY <1>5, <1>7, ApartSame
<1> QED
  BY <1>2, <1>5, <1>6, <1>7, <1>8
-----------------------------------------------------------------------------
(***************************************************************************)
(* The invariant.  While output streams, what was shown and what is yet to *)
(* be are apart; afterwards nothing is left to show.                       *)
(***************************************************************************)
Streaming == at = "streaming" => Apart(out, shown) /\ out.taken \subseteq 1 .. Len(heard)

Ended == at # "streaming" => command # "running" /\ out.chain = <<>> /\ writing = Nothing

Numbered ==
  /\ \A k \in DOMAIN announced : announced[k].seq = k
  /\ writing # Nothing => writing.seq = Len(announced) + 1
  /\ \A n \in rows : \/ n \in 1 .. Len(announced)
                     \/ writing # Nothing /\ writing.stored /\ n = Len(announced) + 1

InProgress ==
  /\ writing # Nothing => \A k \in DOMAIN announced : writing.pieces \cap announced[k].pieces = {}
  /\ report # Nothing => at # "streaming"

OutputInv == OutputTypes /\ Streaming /\ Ended /\ Numbered /\ InProgress /\ ChunksAccounted

\* All of a command but the count of failures, which it shares with the browser.
core == <<config, command, heard, out, writing, shown, total, dropped, rows, announced,
          at, report, result>>

\* A chunk being written is something.
LEMMA WrittenIsSomething == \A w \in Written : w # Nothing
<1> SUFFICES ASSUME NEW w \in Written PROVE w # Nothing
  OBVIOUS
<1>1. DOMAIN w = {"seq", "pieces", "stored"} /\ DOMAIN Nothing = {"none"}
  BY DEF Written, Nothing
<1> QED
  BY <1>1

\* The invariant holds at first.
LEMMA InitOutputInv == Init => OutputInv
<1> SUFFICES ASSUME Init PROVE OutputInv
  OBVIOUS
<1> USE DEF Init, ShellInit
<1>1. Quiet \in OutState
  <2>1. <<>> \in Seq(Chunk) /\ [s \in Sources |-> {}] \in [Sources -> Pieces]
    BY DEF Pieces
  <2> QED
    BY <2>1 DEF Quiet, OutState, Pieces
<1>2. OutputTypes
  BY <1>1, FS_EmptySet DEF OutputTypes, Pieces
<1>3. Streaming
  BY DEF Streaming, Apart, Quiet
<1>4. Cardinality(shown) = 0
  BY FS_EmptySet
<1>5. ChunksAccounted
  BY <1>2, <1>4, ShellOutputAssumption DEF ChunksAccounted, ShellOutputAssumption, OutputTypes
<1> QED
  BY <1>2, <1>3, <1>5 DEF OutputInv, Ended, Numbered, InProgress

\* A step that leaves the chunks and their counts.
LEMMA ChunksSame ==
  ASSUME ChunksAccounted, UNCHANGED <<config, writing, shown, total, dropped, announced, report>>
  PROVE  ChunksAccounted'
BY DEF ChunksAccounted

\* A step of the handler while the command runs, or the end of the command.
LEMMA HandlerStep ==
  ASSUME OutputInv, at = "streaming", out' \in OutState, heard' \in Seq(Sources),
         Apart(out', shown), out'.taken \subseteq 1 .. Len(heard'),
         UNCHANGED <<config, writing, shown, total, dropped, rows, announced, at, report>>
  PROVE  OutputInv'
<1>1. OutputTypes'
  BY DEF OutputInv, OutputTypes
<1>2. ChunksAccounted'
  BY ChunksSame DEF OutputInv
<1>3. Numbered'
  BY DEF OutputInv, Numbered
<1>4. (Streaming /\ Ended /\ InProgress)'
  BY DEF OutputInv, Streaming, Ended, InProgress
<1> QED
  BY <1>1, <1>2, <1>3, <1>4 DEF OutputInv

\* A piece arrives when n have arrived before it.
LEMMA Arrives ==
  ASSUME NEW o \in OutState, NEW s \in Sources, NEW S, NEW n \in Nat,
         Apart(o, S), o.taken \subseteq 1 .. n
  PROVE  /\ Take(o, s, n + 1) \in OutState /\ Apart(Take(o, s, n + 1), S)
         /\ Take(o, s, n + 1).taken \subseteq 1 .. n + 1
<1>1. n + 1 \in Nat /\ n + 1 \notin o.taken
  OBVIOUS
<1>2. Take(o, s, n + 1).taken = o.taken \cup {n + 1}
  BY <1>1, TakeApart
<1>3. o.taken \cup {n + 1} \subseteq 1 .. n + 1
  OBVIOUS
<1> QED
  BY <1>1, <1>2, <1>3, TakeApart

\* A piece of output arrives.
LEMMA OutputStep ==
  ASSUME OutputInv, NEW s \in Sources, Output(s)
  PROVE  OutputInv'
<1>1. /\ out \in OutState /\ heard \in Seq(Sources) /\ Len(heard) \in Nat
      /\ heard' = Append(heard, s) /\ heard' \in Seq(Sources) /\ Len(heard') = Len(heard) + 1
  BY AppendProperties, LenProperties DEF OutputInv, OutputTypes, Output
<1>2. at = "streaming" /\ Apart(out, shown) /\ out.taken \subseteq 1 .. Len(heard)
  BY DEF Output, OutputInv, OutputTypes, Ended, Streaming
<1>3. out' \in OutState /\ Apart(out', shown) /\ out'.taken \subseteq 1 .. Len(heard')
  <2>1. CASE out' = out
    BY <1>1, <1>2, <2>1
  <2>2. CASE out' = Take(out, s, Len(heard) + 1)
    BY <1>1, <1>2, <2>2, Arrives
  <2> QED
    BY <1>1, <2>1, <2>2 DEF Output
<1> QED
  BY <1>1, <1>2, <1>3, HandlerStep DEF Output

\* The timer of a source fires.
LEMMA TimerStep ==
  ASSUME OutputInv, NEW s \in Sources, TimerFires(s)
  PROVE  OutputInv'
<1>1. /\ out \in OutState /\ heard \in Seq(Sources) /\ at = "streaming"
      /\ Apart(out, shown) /\ out.taken \subseteq 1 .. Len(heard)
  BY DEF TimerFires, OutputInv, OutputTypes, Ended, Streaming
<1>2. /\ Flush(out, s) \in OutState /\ Flush(out, s).taken = out.taken
      /\ Apart(Flush(out, s), shown)
  BY <1>1, FlushApart
<1> QED
  BY <1>1, <1>2, HandlerStep DEF TimerFires

\* What was held back arrives with the end of the command, and all is flushed.
LEMMA EndsStep ==
  ASSUME OutputInv, NEW tails \in {<<>>, <<"stdout">>, <<"stderr">>, <<"stdout", "stderr">>}, Ends(tails)
  PROVE  OutputInv'
<1> DEFINE n == Len(heard)
           first == IF Len(tails) > 0 THEN Take(out, tails[1], n + 1) ELSE out
           second == IF Len(tails) > 1 THEN Take(first, tails[2], n + 2) ELSE first
<1>1. /\ out \in OutState /\ heard \in Seq(Sources) /\ at = "streaming" /\ n \in Nat
      /\ Apart(out, shown) /\ out.taken \subseteq 1 .. n
  BY LenProperties DEF Ends, OutputInv, OutputTypes, Ended, Streaming
<1>2. /\ tails \in Seq(Sources) /\ Len(tails) \in 0 .. 2
      /\ Len(tails) > 0 => tails[1] \in Sources
      /\ Len(tails) > 1 => tails[2] \in Sources
  <2>1. tails = <<>> \/ tails = <<"stdout">> \/ tails = <<"stderr">> \/ tails = <<"stdout", "stderr">>
    OBVIOUS
  <2>2. CASE tails = <<>>
    BY <2>2
  <2>3. CASE tails = <<"stdout">>
    BY <2>3 DEF Sources
  <2>4. CASE tails = <<"stderr">>
    BY <2>4 DEF Sources
  <2>5. CASE tails = <<"stdout", "stderr">>
    BY <2>5 DEF Sources
  <2> QED
    BY <2>1, <2>2, <2>3, <2>4, <2>5
<1>3. heard' \in Seq(Sources) /\ Len(heard') = n + Len(tails)
  BY <1>1, <1>2, ConcatProperties DEF Ends
<1>4. /\ first \in OutState /\ Apart(first, shown) /\ first.taken \subseteq 1 .. n + Len(tails)
      /\ Len(tails) > 1 => first.taken \subseteq 1 .. n + 1
  <2>1. CASE Len(tails) > 0
    <3>1. /\ Take(out, tails[1], n + 1) \in OutState /\ Apart(Take(out, tails[1], n + 1), shown)
          /\ Take(out, tails[1], n + 1).taken \subseteq 1 .. n + 1
      BY <1>1, <1>2, <2>1, Arrives
    <3>2. 1 .. n + 1 \subseteq 1 .. n + Len(tails)
      BY <1>1, <1>2, <2>1
    <3> QED
      BY <2>1, <3>1, <3>2
  <2>2. CASE ~(Len(tails) > 0)
    BY <1>1, <1>2, <2>2
  <2> QED
    BY <2>1, <2>2
<1> HIDE DEF first
<1>5. second \in OutState /\ Apart(second, shown) /\ second.taken \subseteq 1 .. n + Len(tails)
  <2>1. CASE Len(tails) > 1
    <3>0. Len(tails) = 2
      BY <1>2, <2>1
    <3>1. n + 1 \in Nat /\ (n + 1) + 1 = n + 2 /\ n + Len(tails) = n + 2
      BY <1>1, <3>0
    <3>2. /\ Take(first, tails[2], (n + 1) + 1) \in OutState
          /\ Apart(Take(first, tails[2], (n + 1) + 1), shown)
          /\ Take(first, tails[2], (n + 1) + 1).taken \subseteq 1 .. (n + 1) + 1
      BY <1>2, <1>4, <2>1, <3>1, Arrives
    <3> QED
      BY <2>1, <3>1, <3>2
  <2>2. CASE ~(Len(tails) > 1)
    BY <1>4, <2>2
  <2> QED
    BY <2>1, <2>2
<1>6. out' = Flush(Flush(second, "stdout"), "stderr")
  BY DEF Ends, first
<1> HIDE DEF second
<1>7. out' \in OutState /\ Apart(out', shown) /\ out'.taken = second.taken
  BY <1>5, <1>6, FlushApart DEF Sources
<1> QED
  BY <1>1, <1>3, <1>5, <1>7, HandlerStep DEF Ends

\* A tool that does not stream ends with all its output.
LEMMA EndsUnstreamedStep ==
  ASSUME OutputInv, NEW output \in UnstreamedOutputs, EndsUnstreamed(output)
  PROVE  OutputInv'
<1>1. output \in Seq(Sources)
  <2>1. PICK m \in 1 .. MaxPieces :
          \E k \in 0 .. m : output = [i \in 1 .. m |-> IF i <= k THEN "stdout" ELSE "stderr"]
    BY DEF UnstreamedOutputs
  <2>2. output \in [1 .. m -> Sources] /\ m \in Nat
    BY <2>1, ShellOutputAssumption DEF Sources, ShellOutputAssumption
  <2> QED
    BY <2>2, SeqDef
<1>2. /\ out \in OutState /\ at = "streaming" /\ Apart(out, shown) /\ out.taken \subseteq 1 .. 0
  BY DEF EndsUnstreamed, OutputInv, OutputTypes, Ended, Streaming
<1>3. out.taken \subseteq 1 .. Len(output)
  BY <1>2
<1> QED
  BY <1>1, <1>2, <1>3, HandlerStep DEF EndsUnstreamed

\* A chunk is stored, or cannot be.
LEMMA StoresStep ==
  ASSUME OutputInv, StoresChunk \/ ChunkNotStored
  PROVE  OutputInv'
<1>1. /\ writing \in Written /\ writing # Nothing /\ ~writing.stored
      /\ writing' = [writing EXCEPT !.stored = TRUE]
      /\ rows' = rows \/ rows' = rows \cup {writing.seq}
      /\ UNCHANGED <<config, command, heard, out, shown, total, dropped, announced, at, report>>
  BY DEF StoresChunk, ChunkNotStored, OutputInv, OutputTypes
<1>2. /\ writing' \in Written /\ writing' # Nothing /\ writing'.stored
      /\ writing'.seq = writing.seq /\ writing'.pieces = writing.pieces
  BY <1>1, WrittenIsSomething DEF Written
<1>3. OutputTypes'
  BY <1>1, <1>2 DEF OutputInv, OutputTypes, Written, Pieces
<1>4. Numbered'
  BY <1>1, <1>2 DEF OutputInv, Numbered
<1>5. ChunksAccounted'
  BY <1>1, <1>2 DEF OutputInv, ChunksAccounted
<1>6. (Streaming /\ Ended /\ InProgress)'
  BY <1>1, <1>2 DEF OutputInv, Streaming, Ended, InProgress
<1> QED
  BY <1>3, <1>4, <1>5, <1>6 DEF OutputInv

\* The chunk in hand, stored or not, is announced.
LEMMA AnnouncesStep ==
  ASSUME OutputInv, AnnouncesChunk
  PROVE  OutputInv'
<1> DEFINE chunk == [seq |-> writing.seq, pieces |-> writing.pieces]
<1>1. /\ writing \in Written /\ writing # Nothing /\ writing' = Nothing
      /\ announced \in Seq([seq : Nat, pieces : Pieces])
      /\ chunk \in [seq : Nat, pieces : Pieces] /\ chunk.seq = writing.seq /\ chunk.pieces = writing.pieces
      /\ announced' = Append(announced, chunk)
      /\ UNCHANGED <<config, command, heard, out, shown, total, dropped, rows, at, report>>
  BY DEF AnnouncesChunk, OutputInv, OutputTypes, Written
<1> HIDE DEF chunk
<1>2. /\ announced' \in Seq([seq : Nat, pieces : Pieces]) /\ Len(announced) \in Nat
      /\ DOMAIN announced = 1 .. Len(announced) /\ Len(announced') = Len(announced) + 1
      /\ DOMAIN announced' = 1 .. Len(announced) + 1
      /\ \A k \in 1 .. Len(announced) : announced'[k] = announced[k]
      /\ announced'[Len(announced) + 1] = chunk
  BY <1>1, AppendProperties, LenProperties
<1>3. OutputTypes'
  BY <1>1, <1>2 DEF OutputInv, OutputTypes
<1>4. Numbered'
  BY <1>1, <1>2 DEF OutputInv, Numbered
<1>5. at = "streaming" /\ report = Nothing
  BY <1>1 DEF OutputInv, Ended, InProgress
<1>6. ChunksAccounted'
  <2>1. total' = Len(announced') + dropped' + IF writing' = Nothing THEN 0 ELSE 1
    BY <1>1, <1>2 DEF OutputInv, OutputTypes, ChunksAccounted
  <2>2. shown' = UNION {announced'[k].pieces : k \in DOMAIN announced'}
    BY <1>1, <1>2 DEF OutputInv, ChunksAccounted
  <2>3. \A j, k \in DOMAIN announced' : j # k => announced'[j].pieces \cap announced'[k].pieces = {}
    BY <1>1, <1>2 DEF OutputInv, ChunksAccounted, InProgress
  <2> QED
    BY <1>1, <1>5, <2>1, <2>2, <2>3 DEF OutputInv, ChunksAccounted
<1>7. (Streaming /\ Ended /\ InProgress)'
  BY <1>1, <1>5 DEF OutputInv, Streaming, Ended, InProgress
<1> QED
  BY <1>3, <1>4, <1>6, <1>7 DEF OutputInv

\* A flush taken out of the chain leaves the rest apart, also from its pieces.
LEMMA TailApart ==
  ASSUME NEW o \in OutState, NEW S, Apart(o, S), o.chain # <<>>, NEW p \in OutState,
         p.taken = o.taken, p.buffer = o.buffer, p.chain = Tail(o.chain)
  PROVE  /\ Head(o.chain) \in Chunk /\ Head(o.chain).pieces \cap S = {}
         /\ Head(o.chain).pieces \subseteq o.taken
         /\ Apart(p, S) /\ Apart(p, S \cup Head(o.chain).pieces)
<1>1. /\ o.chain \in Seq(Chunk) /\ Len(o.chain) \in Nat \ {0} /\ DOMAIN o.chain = 1 .. Len(o.chain)
  BY EmptySeq, LenProperties DEF OutState
<1>2. /\ Head(o.chain) = o.chain[1] /\ Head(o.chain) \in Chunk
      /\ p.chain \in Seq(Chunk) /\ Len(p.chain) = Len(o.chain) - 1
      /\ \A i \in 1 .. Len(p.chain) : p.chain[i] = o.chain[i + 1]
  BY <1>1, HeadTailProperties
<1>3. DOMAIN p.chain = 1 .. Len(o.chain) - 1
  BY <1>2, LenProperties
<1>4. \A i \in DOMAIN p.chain : i + 1 \in DOMAIN o.chain /\ i + 1 # 1 /\ p.chain[i] = o.chain[i + 1]
  BY <1>1, <1>2, <1>3
<1>5. 1 \in DOMAIN o.chain
  BY <1>1
<1>6. \A i, j \in DOMAIN p.chain : i # j => i + 1 # j + 1
  BY <1>3
<1> QED
  BY <1>2, <1>4, <1>5, <1>6 DEF Apart

\* A flush that is let through is numbered, and is all that is written.
LEMMA LetThrough ==
  ASSUME OutputInv, NEW o, o \in OutState, NEW pieces \in Pieces,
         at = "streaming", writing = Nothing, pieces \cap shown = {}, IsFiniteSet(pieces),
         Apart(o, shown \cup pieces), o.taken \subseteq 1 .. Len(heard),
         out' = o, shown' = shown \cup pieces, total' = total + 1,
         config.client > 0 => Cardinality(shown) + Cardinality(pieces) <= config.client,
         writing' = [seq |-> Len(announced) + 1, pieces |-> pieces, stored |-> FALSE],
         UNCHANGED <<config, heard, dropped, rows, announced, at, report>>
  PROVE  OutputInv'
<1>1. /\ announced \in Seq([seq : Nat, pieces : Pieces]) /\ Len(announced) \in Nat
      /\ total \in Nat /\ dropped \in Nat
  BY LenProperties DEF OutputInv, OutputTypes
<1>2. writing' \in Written /\ writing'.seq = Len(announced) + 1 /\ writing'.pieces = pieces
  BY <1>1 DEF Written
<1>3. writing' # Nothing
  BY <1>2, WrittenIsSomething
<1>4. /\ IsFiniteSet(shown \cup pieces)
      /\ Cardinality(shown \cup pieces) = Cardinality(shown) + Cardinality(pieces)
  <2>1. IsFiniteSet(shown) /\ Cardinality(shown) \in Nat /\ Cardinality(pieces) \in Nat
    BY FS_CardinalityType DEF OutputInv, OutputTypes
  <2>2. /\ IsFiniteSet(shown \cup pieces)
        /\ Cardinality(shown \cup pieces)
             = Cardinality(shown) + Cardinality(pieces) - Cardinality(shown \cap pieces)
    BY <2>1, FS_Union
  <2>3. Cardinality(shown \cap pieces) = 0
    BY FS_EmptySet
  <2> QED
    BY <2>1, <2>2, <2>3
<1>5. OutputTypes'
  BY <1>1, <1>2, <1>4 DEF OutputInv, OutputTypes, Pieces
<1>6. Numbered'
  BY <1>1, <1>2, <1>3 DEF OutputInv, Numbered
<1>7. report = Nothing
  BY DEF OutputInv, InProgress
<1>8. ChunksAccounted'
  <2>1. total' = Len(announced') + dropped' + 1
    BY <1>1 DEF OutputInv, ChunksAccounted
  <2>2. shown' = writing'.pieces \cup UNION {announced'[k].pieces : k \in DOMAIN announced'}
    BY <1>2 DEF OutputInv, ChunksAccounted
  <2>3. config'.client > 0 => Cardinality(shown') <= config'.client
    BY <1>4
  <2> QED
    BY <1>3, <1>7, <2>1, <2>2, <2>3 DEF OutputInv, ChunksAccounted
<1>9. \A k \in DOMAIN announced : pieces \cap announced[k].pieces = {}
  BY DEF OutputInv, ChunksAccounted
<1>10. (Streaming /\ Ended /\ InProgress)'
  BY <1>2, <1>7, <1>9 DEF OutputInv, Streaming, Ended, InProgress
<1> QED
  BY <1>5, <1>6, <1>8, <1>10 DEF OutputInv

\* A flush that is dropped is counted, and nothing is written.
LEMMA DroppedFlush ==
  ASSUME OutputInv, NEW o \in OutState, at = "streaming", writing = Nothing,
         Apart(o, shown), o.taken \subseteq 1 .. Len(heard),
         out' = o, total' = total + 1, dropped' = dropped + 1,
         UNCHANGED <<config, heard, writing, shown, rows, announced, at, report>>
  PROVE  OutputInv'
<1>1. Len(announced) \in Nat /\ total \in Nat /\ dropped \in Nat /\ report = Nothing
  BY LenProperties DEF OutputInv, OutputTypes, InProgress
<1>2. OutputTypes'
  BY <1>1 DEF OutputInv, OutputTypes
<1>3. Numbered'
  BY DEF OutputInv, Numbered
<1>4. ChunksAccounted'
  BY <1>1 DEF OutputInv, ChunksAccounted
<1>5. (Streaming /\ Ended /\ InProgress)'
  BY <1>1 DEF OutputInv, Streaming, Ended, InProgress
<1> QED
  BY <1>2, <1>3, <1>4, <1>5 DEF OutputInv

\* The first flush of the chain is taken in hand, or its chunk is dropped.
LEMMA BeginsStep ==
  ASSUME OutputInv, BeginsFlush
  PROVE  OutputInv'
<1> DEFINE flush == Head(out.chain)
           rest == [out EXCEPT !.chain = Tail(@)]
<1>1. /\ out \in OutState /\ writing = Nothing /\ out.chain # <<>> /\ at = "streaming"
      /\ Apart(out, shown) /\ out.taken \subseteq 1 .. Len(heard)
  BY DEF BeginsFlush, OutputInv, OutputTypes, Ended, Streaming
<1>2. /\ rest.taken = out.taken /\ rest.buffer = out.buffer /\ rest.chain = Tail(out.chain)
      /\ rest \in OutState
  <2>1. out.chain \in Seq(Chunk) /\ Tail(out.chain) \in Seq(Chunk)
    BY <1>1, HeadTailProperties DEF OutState
  <2> QED
    BY <1>1, <2>1 DEF OutState
<1> HIDE DEF rest
<1>3. /\ flush \in Chunk /\ flush.pieces \cap shown = {} /\ flush.pieces \subseteq out.taken
      /\ Apart(rest, shown) /\ Apart(rest, shown \cup flush.pieces)
  BY <1>1, <1>2, TailApart
<1> HIDE DEF flush
<1>4. /\ flush.pieces \in Pieces /\ IsFiniteSet(flush.pieces) /\ Cardinality(flush.pieces) \in Nat
      /\ Cardinality(shown) \in Nat
  <2>1. flush.pieces \in SUBSET (1 .. Len(heard)) /\ flush.pieces \in Pieces
    BY <1>1, <1>3 DEF Chunk
  <2>2. Len(heard) \in Nat
    BY LenProperties DEF OutputInv, OutputTypes
  <2>3. IsFiniteSet(1 .. Len(heard))
    BY <2>2, FS_Interval
  <2>4. IsFiniteSet(flush.pieces)
    BY <2>1, <2>3, FS_Subset
  <2> QED
    BY <2>1, <2>4, FS_CardinalityType DEF OutputInv, OutputTypes
<1>5. total' = total + 1 /\ UNCHANGED <<config, heard, rows, announced, at, report>>
  BY DEF BeginsFlush
<1>6. \/ /\ dropped' = dropped + 1 /\ UNCHANGED <<writing, shown>>
         /\ out' \in {rest, [rest EXCEPT !.cut = "client_buffer", !.pass = "none"]}
      \/ /\ config.client > 0 => ~(Cardinality(shown) + Cardinality(flush.pieces) > config.client)
         /\ out' = [rest EXCEPT !.pass = "none"]
         /\ shown' = shown \cup flush.pieces /\ UNCHANGED dropped
         /\ writing' = [seq |-> Len(announced) + 1, pieces |-> flush.pieces, stored |-> FALSE]
  BY DEF BeginsFlush, rest, flush
<1>7. CASE /\ dropped' = dropped + 1 /\ UNCHANGED <<writing, shown>>
           /\ out' \in {rest, [rest EXCEPT !.cut = "client_buffer", !.pass = "none"]}
  <2>1. out' \in OutState /\ out'.taken = rest.taken /\ out'.buffer = rest.buffer /\ out'.chain = rest.chain
    BY <1>2, <1>7 DEF OutState
  <2>2. Apart(out', shown) /\ out'.taken \subseteq 1 .. Len(heard)
    BY <1>1, <1>2, <1>3, <2>1, ApartSame
  <2> QED
    BY <1>1, <1>5, <1>7, <2>1, <2>2, DroppedFlush
<1>8. CASE /\ config.client > 0 => ~(Cardinality(shown) + Cardinality(flush.pieces) > config.client)
           /\ out' = [rest EXCEPT !.pass = "none"]
           /\ shown' = shown \cup flush.pieces /\ UNCHANGED dropped
           /\ writing' = [seq |-> Len(announced) + 1, pieces |-> flush.pieces, stored |-> FALSE]
  <2>1. out' \in OutState /\ out'.taken = rest.taken /\ out'.buffer = rest.buffer /\ out'.chain = rest.chain
    BY <1>2, <1>8 DEF OutState
  <2>2. Apart(out', shown \cup flush.pieces) /\ out'.taken \subseteq 1 .. Len(heard)
    BY <1>1, <1>2, <1>3, <2>1, ApartSame
  <2>3. config.client > 0 => Cardinality(shown) + Cardinality(flush.pieces) <= config.client
    <3>1. config \in [limit : Nat, client : Nat, chunk : Nat \ {0}]
      BY ShellOutputAssumption DEF OutputInv, OutputTypes, ShellOutputAssumption
    <3> QED
      BY <1>4, <1>8, <3>1
  <2>4. flush.pieces \cap shown = {}
    BY <1>3
  <2> QED
    BY <1>1, <1>4, <1>5, <1>8, <2>1, <2>2, <2>3, <2>4, LetThrough
<1> QED
  BY <1>6, <1>7, <1>8

\* The summary is made when nothing is left to show, and takes the counts.
LEMMA SettlesStep ==
  ASSUME OutputInv, NEW outcome \in Outcomes, Settles(outcome)
  PROVE  OutputInv'
<1>1. /\ at' = "announcing" /\ command' = outcome /\ out.chain = <<>> /\ writing = Nothing
      /\ UNCHANGED <<config, heard, out, writing, shown, total, dropped, rows, announced>>
  BY DEF Settles
<1>2. report'.total = total /\ report'.dropped = dropped
  BY DEF Settles
<1>3. outcome # "running"
  BY DEF Outcomes, Exits
<1>4. OutputTypes'
  BY <1>1 DEF OutputInv, OutputTypes
<1>5. ChunksAccounted'
  BY <1>1, <1>2 DEF OutputInv, OutputTypes, ChunksAccounted
<1>6. (Streaming /\ Ended /\ Numbered /\ InProgress)'
  BY <1>1, <1>3 DEF OutputInv, Streaming, Ended, Numbered, InProgress
<1> QED
  BY <1>4, <1>5, <1>6 DEF OutputInv

\* The call returns.
LEMMA ReturnsStep == OutputInv /\ Returns => OutputInv'
<1> SUFFICES ASSUME OutputInv, Returns PROVE OutputInv'
  OBVIOUS
<1>1. /\ at = "announcing" /\ at' = "returned" /\ command' = "over" /\ heard' = <<>>
      /\ out' = Quiet /\ report' = Nothing
      /\ UNCHANGED <<config, writing, shown, total, dropped, rows, announced>>
  BY DEF Returns
<1>2. out' \in OutState /\ out'.chain = <<>>
  <2>1. <<>> \in Seq(Chunk) /\ [s \in Sources |-> {}] \in [Sources -> Pieces]
    BY DEF Pieces
  <2> QED
    BY <1>1, <2>1 DEF Quiet, OutState, Pieces
<1>3. OutputTypes'
  BY <1>1, <1>2 DEF OutputInv, OutputTypes
<1>4. ChunksAccounted'
  BY <1>1 DEF OutputInv, ChunksAccounted
<1>5. (Streaming /\ Ended /\ Numbered /\ InProgress)'
  BY <1>1, <1>2 DEF OutputInv, Streaming, Ended, Numbered, InProgress
<1> QED
  BY <1>3, <1>4, <1>5 DEF OutputInv

\* What the browser does, and a failure there, leave the command alone.
LEMMA CoreSame ==
  ASSUME OutputInv, UNCHANGED core
  PROVE  OutputInv'
<1>1. /\ OutputTypes' = OutputTypes /\ Streaming' = Streaming /\ Ended' = Ended
      /\ Numbered' = Numbered /\ InProgress' = InProgress /\ ChunksAccounted' = ChunksAccounted
  BY DEF core, OutputTypes, Streaming, Ended, Numbered, InProgress, ChunksAccounted
<1> QED
  BY <1>1 DEF OutputInv

\* Every step keeps the invariant.
LEMMA NextOutputInv == OutputInv /\ [Next]_vars => OutputInv'
<1> SUFFICES ASSUME OutputInv, [Next]_vars PROVE OutputInv'
  OBVIOUS
<1>1. ASSUME ShellNext PROVE OutputInv'
  <2>1. ASSUME NEW s \in Sources, Output(s) \/ TimerFires(s) PROVE OutputInv'
    BY <2>1, OutputStep, TimerStep
  <2>2. ASSUME NEW tails \in {<<>>, <<"stdout">>, <<"stderr">>, <<"stdout", "stderr">>}, Ends(tails)
        PROVE  OutputInv'
    BY <2>2, EndsStep
  <2>3. ASSUME NEW output \in UnstreamedOutputs, EndsUnstreamed(output) PROVE OutputInv'
    BY <2>3, EndsUnstreamedStep
  <2>4. CASE BeginsFlush \/ StoresChunk \/ ChunkNotStored \/ AnnouncesChunk
    BY <2>4, BeginsStep, StoresStep, AnnouncesStep
  <2>5. ASSUME NEW outcome \in Outcomes, Settles(outcome) PROVE OutputInv'
    BY <2>5, SettlesStep
  <2>6. CASE Returns
    BY <2>6, ReturnsStep
  <2> QED
    BY <1>1, <2>1, <2>2, <2>3, <2>4, <2>5, <2>6 DEF ShellNext
<1>2. CASE UNCHANGED core
  BY <1>2, CoreSame
<1>3. ShellNext \/ UNCHANGED core
  BY DEF Next, vars, shellVars, core
<1> QED
  BY <1>1, <1>2, <1>3

(* The summary of a command is exact, whatever arrives, fails or is cut,   *)
(* and whoever watches: each flush of the handler's chain was announced or *)
(* counted as dropped, no piece was announced twice, and what was shown    *)
(* stays within the client's limit.                                        *)
THEOREM ChunksCounted == Spec => []ChunksAccounted
<1>1. OutputInv => ChunksAccounted
  BY DEF OutputInv
<1> QED
  BY <1>1, InitOutputInv, NextOutputInv, PTL DEF Spec
-----------------------------------------------------------------------------
(***************************************************************************)
(* The command implements the feed.                                        *)
(***************************************************************************)
seqs == [k \in DOMAIN announced |-> announced[k].seq]

end == CASE at = "announcing" -> "ending" [] at = "returned" -> "ended" [] OTHER -> "open"

\* What the feed sees of the command.
feedVars == <<rows, announced, at>>

\* Numbers are announced one after the other.
LEMMA SeqsInOrder ==
  ASSUME OutputInv
  PROVE  Len(announced) \in Nat /\ Len(seqs) = Len(announced) /\ seqs = [k \in 1 .. Len(announced) |-> k]
<1>1. Len(announced) \in Nat /\ DOMAIN announced = 1 .. Len(announced)
  BY LenProperties DEF OutputInv, OutputTypes
<1>2. seqs = [k \in 1 .. Len(announced) |-> k]
  BY <1>1 DEF seqs, OutputInv, Numbered
<1> QED
  BY <1>1, <1>2

\* A stored chunk is stored in the feed.
LEMMA StoresIsStore ==
  ASSUME OutputInv, StoresChunk
  PROVE  Feed!Store
<1>1. writing # Nothing /\ ~writing.stored /\ rows' = rows \cup {writing.seq} /\ UNCHANGED <<announced, at>>
  BY DEF StoresChunk
<1>2. writing.seq = Len(announced) + 1 /\ at = "streaming"
  BY <1>1 DEF OutputInv, Numbered, OutputTypes, Ended
<1>3. Len(announced) + 1 \notin rows
  BY <1>1, SeqsInOrder DEF OutputInv, Numbered
<1>4. end = "open" /\ UNCHANGED <<seqs, end>> /\ Len(seqs) = Len(announced)
  BY <1>1, <1>2, SeqsInOrder DEF end, seqs
<1> QED
  BY <1>1, <1>2, <1>3, <1>4 DEF Feed!Store, Feed!Coming, seqs, end

\* An announced chunk is announced in the feed.
LEMMA AnnouncesIsAnnounce ==
  ASSUME OutputInv, AnnouncesChunk
  PROVE  Feed!Announce
<1>1. /\ writing # Nothing /\ UNCHANGED <<rows, at>>
      /\ announced' = Append(announced, [seq |-> writing.seq, pieces |-> writing.pieces])
  BY DEF AnnouncesChunk
<1>2. at = "streaming"
  BY <1>1 DEF OutputInv, OutputTypes, Ended
<1>3. OutputInv'
  BY AnnouncesStep
<1>4. /\ Len(announced) \in Nat /\ Len(seqs) = Len(announced)
      /\ seqs = [k \in 1 .. Len(announced) |-> k]
  BY SeqsInOrder
<1>5. seqs' = [k \in 1 .. Len(announced') |-> k]
  <2>1. (OutputInv => seqs = [k \in 1 .. Len(announced) |-> k])'
    BY SeqsInOrder, PTL
  <2> QED
    BY <1>3, <2>1
<1>6. Len(announced') = Len(announced) + 1
  BY <1>1, <1>2 DEF OutputInv, OutputTypes
<1>7. seqs' = Append(seqs, Len(seqs) + 1)
  BY <1>4, <1>5, <1>6
<1>8. end = "open" /\ end' = end
  BY <1>1, <1>2 DEF end
<1> QED
  BY <1>1, <1>7, <1>8 DEF Feed!Announce, Feed!Coming, seqs, end

\* The end of the command concludes the feed.
LEMMA SettlesIsConclude ==
  ASSUME OutputInv, NEW outcome \in Outcomes, Settles(outcome)
  PROVE  Feed!Conclude
<1>1. at = "streaming" /\ at' = "announcing" /\ writing = Nothing /\ UNCHANGED <<rows, announced>>
  BY DEF Settles
<1>2. Len(announced) + 1 \notin rows /\ Len(seqs) = Len(announced)
  BY <1>1, SeqsInOrder DEF OutputInv, Numbered
<1>3. end = "open" /\ end' = "ending" /\ seqs' = seqs
  BY <1>1 DEF end, seqs
<1> QED
  BY <1>1, <1>2, <1>3 DEF Feed!Conclude, Feed!Coming, seqs, end

\* The return of the call announces the end of the feed.
LEMMA ReturnsIsAnnounceEnd ==
  ASSUME Returns
  PROVE  Feed!AnnounceEnd
<1>1. at = "announcing" /\ at' = "returned" /\ UNCHANGED <<rows, announced>>
  BY DEF Returns
<1>2. end = "ending" /\ end' = "ended" /\ seqs' = seqs
  BY <1>1 DEF end, seqs
<1> QED
  BY <1>1, <1>2 DEF Feed!AnnounceEnd, seqs, end

\* Every other step is one the feed does not see.
LEMMA FeedSame ==
  ASSUME UNCHANGED feedVars
  PROVE  UNCHANGED Feed!vars
BY DEF feedVars, Feed!vars

\* Every step of the command is one of the feed, or leaves it alone.
LEMMA NextIsFeed ==
  ASSUME OutputInv, [Next]_vars
  PROVE  [Feed!Next]_(Feed!vars)
<1>1. \/ UNCHANGED feedVars
      \/ StoresChunk \/ AnnouncesChunk
      \/ \E outcome \in Outcomes : Settles(outcome)
      \/ Returns
  BY DEF Next, ShellNext, vars, shellVars, feedVars, Output, TimerFires, Ends, EndsUnstreamed,
         BeginsFlush, ChunkNotStored
<1> QED
  BY <1>1, FeedSame, StoresIsStore, AnnouncesIsAnnounce, SettlesIsConclude, ReturnsIsAnnounceEnd
     DEF Feed!Next

\* The command begins with an empty feed.
LEMMA InitIsFeed ==
  ASSUME Init
  PROVE  Feed!Init
BY DEF Init, ShellInit, Feed!Init

(* Whoever watches a command sees an output feed: its chunks are numbered  *)
(* without a gap, one append is in progress at a time, a chunk can be read *)
(* before it is announced, and nothing follows the summary.                *)
THEOREM CommandIsFeed == Spec => ImplementsFeed
<1>1. OutputInv /\ [Next]_vars => [Feed!Next]_(Feed!vars)
  BY NextIsFeed
<1>2. Init => Feed!Init
  BY InitIsFeed
<1> QED
  BY <1>1, <1>2, InitOutputInv, NextOutputInv, PTL DEF Spec, ImplementsFeed, Feed!Spec
-----------------------------------------------------------------------------
(***************************************************************************)
(* The browser.  A number is issued once a chunk with it was stored or     *)
(* announced; chunks stored later have greater numbers, so what a view or  *)
(* an answer has is never made incomplete by them.                         *)
(***************************************************************************)
Entry == [event : Events \cup {"none"}, seq : Nat]
Requested ==
  [event : Events \cup {"none"}, since : Nat, upto : Nat, items : Seq(Nat),
   state : {"sent", "read", "over"}]

Issued(n, stored, last) == n \in stored \/ n \in 1 .. last

\* A view of the command: its chunks in order, and all that were stored up to
\* the last of them.
Sound(view, stored, last) ==
  /\ \A k \in DOMAIN view : view[k].event = "this" /\ Issued(view[k].seq, stored, last)
  /\ \A j, k \in DOMAIN view : j < k => view[j].seq < view[k].seq
  /\ \A n \in stored : n <= LastSeq(view) => \E k \in DOMAIN view : view[k].seq = n

\* Chunks in order: those behind since, and of those stored at least the
\* oldest, and all up to upto when they are fewer than the limit.
Whole(items, since, upto, stored, last) ==
  /\ \A k \in DOMAIN items : items[k] > since /\ Issued(items[k], stored, last)
  /\ \A j, k \in DOMAIN items : j < k => items[j] < items[k]
  /\ \A n \in stored : n > since /\ (\A k \in DOMAIN items : items[k] # n) =>
       /\ \A k \in DOMAIN items : items[k] < n
       /\ Len(items) = Limit \/ n > upto

\* A request about the command, before it is answered and when it was read.
Answer(r, stored, last) ==
  r.event = "this" =>
    /\ r.upto <= last
    /\ r.state = "read" => Whole(r.items, r.since, r.upto, stored, last)

ViewTypes ==
  /\ event \in Events \cup {"none"}
  /\ chunks \in Seq(Entry)
  /\ requests \in Seq(Requested)
  /\ delivered \in 0 .. Len(announced)
  /\ faults \in Nat

AnswersWhole == \A i \in DOMAIN requests : Answer(requests[i], rows, Len(announced))

ViewKept == event = "this" /\ ~misapplied => Sound(chunks, rows, Len(announced))

ViewInv == ViewTypes /\ AnswersWhole /\ ViewKept

\* More is stored or announced, with greater numbers.
Grows(stored, last, more, next) ==
  /\ stored \subseteq more /\ more \subseteq Nat
  /\ last \in Nat /\ next \in Nat /\ last <= next
  /\ \A n \in more \ stored : n > last /\ \A m \in stored : m < n

\* Every step of the command, or of the browser, lets it grow.
LEMMA StepGrows ==
  ASSUME OutputInv, [Next]_vars
  PROVE  Grows(rows, Len(announced), rows', Len(announced'))
<1>1. rows \in SUBSET Nat /\ Len(announced) \in Nat
  BY LenProperties DEF OutputInv, OutputTypes, Pieces
<1>2. CASE UNCHANGED <<rows, announced>>
  BY <1>1, <1>2 DEF Grows
<1>3. CASE StoresChunk
  <2>1. /\ writing \in Written /\ writing.seq = Len(announced) + 1
        /\ rows' = rows \cup {writing.seq} /\ announced' = announced
    BY <1>3 DEF StoresChunk, OutputInv, OutputTypes, Numbered
  <2>2. \A n \in rows : n \in 1 .. Len(announced)
    BY <1>3 DEF StoresChunk, OutputInv, Numbered
  <2>3. rows \subseteq rows' /\ rows' \subseteq Nat /\ Len(announced') = Len(announced)
    <3>1. writing.seq \in Nat
      BY <1>1, <2>1
    <3>2. rows \subseteq rows' /\ rows' \subseteq Nat
      BY <1>1, <2>1, <3>1
    <3> QED
      BY <2>1, <3>2
  <2>4. ASSUME NEW n \in rows' \ rows
        PROVE  n > Len(announced) /\ \A m \in rows : m < n
    <3>1. n = Len(announced) + 1
      BY <2>1, <2>4
    <3> QED
      BY <1>1, <2>2, <3>1
  <2> QED
    BY <1>1, <2>3, <2>4 DEF Grows
<1>4. CASE AnnouncesChunk
  <2>1. /\ writing \in Written /\ rows' = rows
        /\ announced' = Append(announced, [seq |-> writing.seq, pieces |-> writing.pieces])
    BY <1>4 DEF AnnouncesChunk, OutputInv, OutputTypes
  <2>2. Len(announced') = Len(announced) + 1
    BY <2>1, AppendProperties DEF OutputInv, OutputTypes, Written
  <2> QED
    BY <1>1, <2>1, <2>2 DEF Grows
<1>5. ShellNext => StoresChunk \/ AnnouncesChunk \/ UNCHANGED <<rows, announced>>
  BY DEF ShellNext, Output, TimerFires, Ends, EndsUnstreamed, BeginsFlush, ChunkNotStored,
         Settles, Returns
<1> QED
  BY <1>2, <1>3, <1>4, <1>5 DEF Next, vars, shellVars

\* What is issued stays issued, and is less than what is stored later.
LEMMA IssuedGrows ==
  ASSUME NEW stored, NEW last, NEW more, NEW next, Grows(stored, last, more, next),
         NEW n, Issued(n, stored, last)
  PROVE  Issued(n, more, next) /\ n \in Nat /\ \A m \in more \ stored : n < m
<1>1. CASE n \in stored
  BY <1>1 DEF Issued, Grows
<1>2. CASE n \in 1 .. last
  <2>1. n \in 1 .. next /\ n \in Nat /\ n <= last
    BY <1>2 DEF Grows
  <2>2. ASSUME NEW m \in more \ stored PROVE n < m
    <3>1. m \in Nat /\ m > last /\ last \in Nat
      BY DEF Grows
    <3> QED
      BY <2>1, <3>1
  <2> QED
    BY <2>1, <2>2 DEF Issued
<1> QED
  BY <1>1, <1>2 DEF Issued

\* The last chunk of a view.
LEMMA LastOfView ==
  ASSUME NEW view \in Seq(Entry)
  PROVE  /\ Len(view) \in Nat /\ DOMAIN view = 1 .. Len(view)
         /\ \A k \in DOMAIN view : view[k].seq \in Nat
         /\ LastSeq(view) \in Nat
         /\ view # <<>> => Len(view) \in DOMAIN view /\ LastSeq(view) = view[Len(view)].seq
         /\ view = <<>> => LastSeq(view) = 0 /\ Len(view) = 0
<1>1. Len(view) \in Nat /\ DOMAIN view = 1 .. Len(view) /\ view \in [1 .. Len(view) -> Entry]
  BY LenProperties
<1>2. \A k \in DOMAIN view : view[k].seq \in Nat
  BY <1>1 DEF Entry
<1>3. view # <<>> => Len(view) \in DOMAIN view
  BY <1>1, EmptySeq
<1>4. LastSeq(<<>>) = 0 /\ Len(<<>>) = 0
  BY EmptySeq DEF LastSeq
<1> QED
  BY <1>1, <1>2, <1>3, <1>4 DEF LastSeq

\* In a sound view the last chunk is the greatest.
LEMMA LastIsGreatest ==
  ASSUME NEW view \in Seq(Entry), NEW stored, NEW last, Sound(view, stored, last),
         NEW k \in DOMAIN view
  PROVE  view[k].seq <= LastSeq(view)
<1>1. view # <<>> /\ k <= Len(view) /\ LastSeq(view) = view[Len(view)].seq /\ Len(view) \in DOMAIN view
  BY LastOfView, EmptySeq
<1>2. CASE k = Len(view)
  BY <1>1, <1>2, LastOfView
<1>3. CASE k < Len(view)
  BY <1>1, <1>3, LastOfView DEF Sound
<1> QED
  BY <1>1, <1>2, <1>3, LastOfView

\* A sound view stays sound.
LEMMA SoundGrows ==
  ASSUME NEW view \in Seq(Entry), NEW stored, NEW last, NEW more, NEW next,
         Grows(stored, last, more, next), Sound(view, stored, last)
  PROVE  Sound(view, more, next)
<1>1. ASSUME NEW k \in DOMAIN view
      PROVE  view[k].event = "this" /\ Issued(view[k].seq, more, next)
  BY IssuedGrows DEF Sound
<1>2. ASSUME NEW n \in more, n <= LastSeq(view)
      PROVE  \E k \in DOMAIN view : view[k].seq = n
  <2>1. CASE n \in stored
    BY <1>2, <2>1 DEF Sound
  <2>2. CASE n \notin stored
    <3>1. n \in Nat /\ n > last /\ last \in Nat
      BY <2>2 DEF Grows
    <3>2. view # <<>>
      BY <1>2, <3>1, LastOfView
    <3>3. LastSeq(view) < n
      BY <2>2, <3>2, IssuedGrows, LastOfView DEF Sound
    <3> QED
      BY <1>2, <3>1, <3>3, LastOfView
  <2> QED
    BY <2>1, <2>2
<1> QED
  BY <1>1, <1>2 DEF Sound

\* An answer that was read stays whole, and a request right.
LEMMA AnswerGrows ==
  ASSUME NEW r \in Requested, NEW stored, NEW last, NEW more, NEW next,
         Grows(stored, last, more, next), Answer(r, stored, last)
  PROVE  Answer(r, more, next)
<1> SUFFICES ASSUME r.event = "this"
             PROVE  /\ r.upto <= next
                    /\ r.state = "read" => Whole(r.items, r.since, r.upto, more, next)
  BY DEF Answer
<1>1. r.upto <= last /\ r.upto \in Nat /\ last \in Nat /\ next \in Nat /\ last <= next
  BY DEF Answer, Requested, Grows
<1>2. ASSUME r.state = "read"
      PROVE  Whole(r.items, r.since, r.upto, more, next)
  <2>1. Whole(r.items, r.since, r.upto, stored, last)
    BY <1>2 DEF Answer
  <2>2. ASSUME NEW k \in DOMAIN r.items
        PROVE  r.items[k] > r.since /\ Issued(r.items[k], more, next)
    BY <2>1, IssuedGrows DEF Whole
  <2>3. ASSUME NEW n \in more, n > r.since, \A k \in DOMAIN r.items : r.items[k] # n
        PROVE  /\ \A k \in DOMAIN r.items : r.items[k] < n
               /\ Len(r.items) = Limit \/ n > r.upto
    <3>1. CASE n \in stored
      BY <2>1, <2>3, <3>1 DEF Whole
    <3>2. CASE n \notin stored
      <4>1. n \in Nat /\ n > last
        BY <3>2 DEF Grows
      <4>2. \A k \in DOMAIN r.items : r.items[k] < n
        BY <2>1, <3>2, IssuedGrows DEF Whole
      <4> QED
        BY <1>1, <4>1, <4>2
    <3> QED
      BY <3>1, <3>2
  <2> QED
    BY <2>1, <2>2, <2>3 DEF Whole
<1> QED
  BY <1>1, <1>2
\* The next chunk is heard.
LEMMA NextHeard ==
  ASSUME NEW view \in Seq(Entry), NEW stored \in SUBSET Nat, NEW last \in Nat,
         Sound(view, stored, last), NEW n \in 1 .. last, n = LastSeq(view) + 1
  PROVE  Sound(Append(view, [event |-> "this", seq |-> n]), stored, last)
<1> DEFINE entry == [event |-> "this", seq |-> n]
           more == Append(view, entry)
<1>1. entry \in Entry /\ entry.event = "this" /\ entry.seq = n
  BY DEF Entry, Events
<1> HIDE DEF entry
<1>2. /\ more \in Seq(Entry) /\ Len(view) \in Nat /\ DOMAIN view = 1 .. Len(view)
      /\ Len(more) = Len(view) + 1 /\ DOMAIN more = 1 .. Len(view) + 1
      /\ \A k \in 1 .. Len(view) : more[k] = view[k]
      /\ more[Len(view) + 1] = entry
  BY <1>1, AppendProperties, LenProperties
<1> HIDE DEF more
<1>3. LastSeq(more) = n
  BY <1>1, <1>2, LastOfView, EmptySeq DEF LastSeq
<1>4. ASSUME NEW k \in DOMAIN more
      PROVE  more[k].event = "this" /\ Issued(more[k].seq, stored, last)
  <2>1. CASE k \in DOMAIN view
    BY <1>2, <2>1 DEF Sound
  <2>2. CASE k = Len(view) + 1
    BY <1>1, <1>2, <2>2 DEF Issued
  <2> QED
    BY <1>2, <2>1, <2>2
<1>5. ASSUME NEW j \in DOMAIN more, NEW k \in DOMAIN more, j < k
      PROVE  more[j].seq < more[k].seq
  <2>1. j \in DOMAIN view
    BY <1>2, <1>5
  <2>2. CASE k \in DOMAIN view
    BY <1>2, <1>5, <2>1, <2>2 DEF Sound
  <2>3. CASE k = Len(view) + 1
    <3>1. view[j].seq <= LastSeq(view) /\ view[j].seq \in Nat /\ LastSeq(view) \in Nat
      BY <2>1, LastIsGreatest, LastOfView
    <3>2. more[j].seq = view[j].seq /\ more[k].seq = n
      BY <1>1, <1>2, <2>1, <2>3
    <3> QED
      BY <3>1, <3>2
  <2> QED
    BY <1>2, <2>2, <2>3
<1>6. ASSUME NEW m \in stored, m <= n
      PROVE  \E k \in DOMAIN more : more[k].seq = m
  <2>1. CASE m = n
    BY <1>1, <1>2, <2>1
  <2>2. CASE m # n
    <3>1. m <= LastSeq(view)
      BY <1>6, <2>2, LastOfView
    <3>2. PICK k \in DOMAIN view : view[k].seq = m
      BY <3>1 DEF Sound
    <3> QED
      BY <1>2, <3>2
  <2> QED
    BY <2>1, <2>2
<1>7. Sound(more, stored, last)
  BY <1>3, <1>4, <1>5, <1>6 DEF Sound
<1> QED
  BY <1>7 DEF more, entry

\* The chunks of an answer behind the first, as a view shows them.
Fresh(e, items, first) ==
  [k \in 1 .. Len(items) - first |-> [event |-> e, seq |-> items[first + k]]]

\* They are chunks of a view.
LEMMA FreshEntries ==
  ASSUME NEW e \in Events \cup {"none"}, NEW items \in Seq(Nat), NEW first \in 0 .. Len(items)
  PROVE  /\ Fresh(e, items, first) \in Seq(Entry)
         /\ Len(items) \in Nat /\ Len(Fresh(e, items, first)) = Len(items) - first
         /\ \A k \in 1 .. Len(items) - first :
              /\ first + k \in DOMAIN items
              /\ Fresh(e, items, first)[k] = [event |-> e, seq |-> items[first + k]]
<1> DEFINE size == Len(items) - first
<1>1. Len(items) \in Nat /\ DOMAIN items = 1 .. Len(items) /\ items \in [1 .. Len(items) -> Nat]
  BY LenProperties
<1>2. size \in Nat
  BY <1>1
<1>3. \A k \in 1 .. size : first + k \in DOMAIN items /\ items[first + k] \in Nat
  BY <1>1
<1>4. \A k \in 1 .. size : [event |-> e, seq |-> items[first + k]] \in Entry
  BY <1>3 DEF Entry
<1>5. Fresh(e, items, first) \in [1 .. size -> Entry]
  BY <1>4 DEF Fresh
<1>6. Fresh(e, items, first) \in Seq(Entry)
  <2> DEFINE fresh == Fresh(e, items, first)
  <2>1. size \in Nat /\ fresh \in [1 .. size -> Entry]
    BY <1>2, <1>5
  <2> HIDE DEF fresh, size
  <2>2. fresh \in Seq(Entry)
    BY ONLY <2>1, SeqDef
  <2> QED
    BY <2>2 DEF fresh
<1>7. Len(Fresh(e, items, first)) = size
  <2>1. DOMAIN Fresh(e, items, first) = 1 .. size
    BY DEF Fresh
  <2> QED
    BY <1>2, <1>6, <2>1, LenProperties
<1>8. \A k \in 1 .. size : Fresh(e, items, first)[k] = [event |-> e, seq |-> items[first + k]]
  BY DEF Fresh
<1> QED
  BY <1>1, <1>3, <1>6, <1>7, <1>8

\* A whole answer that does not begin behind the end of a sound view; all of
\* its chunks but the first are newer.
Fits(items, since, upto, first, base, stored, last) ==
  /\ base \in Seq(Entry) /\ items \in Seq(Nat) /\ stored \in SUBSET Nat /\ last \in Nat
  /\ since \in Nat /\ upto \in Nat /\ first \in 0 .. Len(items)
  /\ Sound(base, stored, last) /\ Whole(items, since, upto, stored, last)
  /\ since <= LastSeq(base)
  /\ \A k \in DOMAIN items : items[k] > LastSeq(base) <=> k > first

\* What was to be caught up.
Brought(view, items, upto, stored) ==
  \A n \in stored : n <= upto /\ (Len(items) < Limit \/ n <= items[Limit]) =>
    \E k \in DOMAIN view : view[k].seq = n

\* An answer that fits a sound view leaves it sound, and brings what was to be
\* caught up.
LEMMA Joined ==
  ASSUME NEW items, NEW since, NEW upto, NEW first, NEW base, NEW stored, NEW last,
         Fits(items, since, upto, first, base, stored, last),
         NEW view, view = base \o Fresh("this", items, first)
  PROVE  Sound(view, stored, last) /\ Brought(view, items, upto, stored)
<1> USE DEF Fits
<1> DEFINE size == Len(items) - first
<1>1. /\ Len(items) \in Nat /\ DOMAIN items = 1 .. Len(items)
      /\ \A k \in DOMAIN items : items[k] \in Nat
  BY LenProperties
<1>2. size \in Nat
  BY <1>1
<1>3. /\ Len(base) \in Nat /\ DOMAIN base = 1 .. Len(base) /\ LastSeq(base) \in Nat
      /\ \A k \in DOMAIN base : base[k].seq \in Nat
  BY LastOfView
<1>4. /\ view \in Seq(Entry) /\ Len(view) = Len(base) + size
      /\ \A k \in 1 .. Len(base) + size :
           view[k] = IF k <= Len(base) THEN base[k]
                     ELSE Fresh("this", items, first)[k - Len(base)]
  <2> DEFINE fresh == Fresh("this", items, first)
  <2>1. fresh \in Seq(Entry) /\ Len(fresh) = size
    BY FreshEntries DEF Events
  <2>2. view = base \o fresh
    OBVIOUS
  <2> HIDE DEF fresh, size
  <2>3. /\ base \o fresh \in Seq(Entry)
        /\ Len(base \o fresh) = Len(base) + size
        /\ \A k \in 1 .. Len(base) + size :
             (base \o fresh)[k] = IF k <= Len(base) THEN base[k] ELSE fresh[k - Len(base)]
    BY <2>1, ConcatProperties
  <2> QED
    BY <2>2, <2>3 DEF fresh
<1>5. DOMAIN view = 1 .. Len(base) + size
  BY <1>4, LenProperties
<1>6. \A k \in DOMAIN base : k \in DOMAIN view /\ view[k] = base[k]
  BY <1>2, <1>3, <1>4, <1>5
<1>7. ASSUME NEW k \in DOMAIN view, k \notin DOMAIN base
      PROVE  /\ first + (k - Len(base)) \in DOMAIN items
             /\ view[k].event = "this" /\ view[k].seq = items[first + (k - Len(base))]
             /\ k > Len(base) /\ first + (k - Len(base)) > first
  <2>1. /\ k - Len(base) \in 1 .. size /\ k > Len(base) /\ ~(k <= Len(base))
        /\ k \in 1 .. Len(base) + size /\ first + (k - Len(base)) > first
    <3>1. /\ Len(base) \in Nat /\ size \in Nat /\ first \in Nat
          /\ k \in 1 .. Len(base) + size /\ k \notin 1 .. Len(base)
      BY <1>1, <1>2, <1>3, <1>5, <1>7
    <3> QED
      BY ONLY <3>1
  <2>2. /\ first + (k - Len(base)) \in DOMAIN items
        /\ Fresh("this", items, first)[k - Len(base)] =
             [event |-> "this", seq |-> items[first + (k - Len(base))]]
    BY <2>1, FreshEntries DEF Events
  <2>3. view[k] = Fresh("this", items, first)[k - Len(base)]
    BY ONLY <1>4, <2>1
  <2> QED
    BY ONLY <2>1, <2>2, <2>3
<1>8. \A j \in DOMAIN items : j > first => \E k \in DOMAIN view : view[k].seq = items[j]
  <2> SUFFICES ASSUME NEW j \in DOMAIN items, j > first
               PROVE  \E k \in DOMAIN view : view[k].seq = items[j]
    OBVIOUS
  <2> DEFINE k == Len(base) + (j - first)
  <2>1. /\ k \in 1 .. Len(base) + size /\ k \notin 1 .. Len(base)
        /\ first + (k - Len(base)) = j
    <3>1. /\ Len(base) \in Nat /\ Len(items) \in Nat /\ first \in Nat
          /\ j \in 1 .. Len(items) /\ j > first
      BY <1>1, <1>3
    <3> QED
      BY ONLY <3>1
  <2>2. k \in DOMAIN view /\ k \notin DOMAIN base /\ first + (k - Len(base)) = j
    BY <1>3, <1>5, <2>1
  <2> HIDE DEF k
  <2> QED
    BY <1>7, <2>2
<1>9. ASSUME NEW k \in DOMAIN view
      PROVE  view[k].event = "this" /\ Issued(view[k].seq, stored, last)
  <2>1. CASE k \in DOMAIN base
    BY <1>6, <2>1 DEF Sound
  <2>2. CASE k \notin DOMAIN base
    <3>1. \A j \in DOMAIN items : Issued(items[j], stored, last)
      BY DEF Whole
    <3> QED
      BY <1>7, <2>2, <3>1
  <2> QED
    BY <2>1, <2>2
<1>10. ASSUME NEW j \in DOMAIN view, NEW k \in DOMAIN view, j < k
       PROVE  view[j].seq < view[k].seq
  <2>1. CASE k \in DOMAIN base
    <3>1. j \in DOMAIN base
      BY <1>3, <1>5, <1>10, <2>1
    <3> QED
      BY <1>6, <1>10, <2>1, <3>1 DEF Sound
  <2>2. CASE k \notin DOMAIN base /\ j \in DOMAIN base
    <3>1. view[j].seq <= LastSeq(base) /\ view[j].seq \in Nat
      BY <1>3, <1>6, <2>2, LastIsGreatest
    <3>2. view[k].seq > LastSeq(base) /\ view[k].seq \in Nat
      <4> DEFINE i == first + (k - Len(base))
      <4>1. i \in DOMAIN items /\ i > first /\ view[k].seq = items[i]
        BY <1>7, <2>2
      <4> HIDE DEF i
      <4>2. items[i] \in Nat /\ items[i] > LastSeq(base)
        BY <1>1, <4>1
      <4> QED
        BY ONLY <4>1, <4>2
    <3> QED
      BY ONLY <1>3, <3>1, <3>2
  <2>3. CASE k \notin DOMAIN base /\ j \notin DOMAIN base
    <3>1. first + (j - Len(base)) < first + (k - Len(base))
      BY <1>1, <1>3, <1>5, <1>10
    <3>2. \A h, i \in DOMAIN items : h < i => items[h] < items[i]
      BY DEF Whole
    <3> QED
      BY <1>7, <2>3, <3>1, <3>2
  <2> QED
    BY <2>1, <2>2, <2>3
<1>11. ASSUME NEW n \in stored, \A k \in DOMAIN view : view[k].seq # n
       PROVE  /\ n \in Nat /\ LastSeq(base) < n
              /\ \A k \in DOMAIN items : items[k] < n
              /\ Len(items) = Limit \/ n > upto
  <2>1. ~(n <= LastSeq(base))
    BY <1>6, <1>11 DEF Sound
  <2>2. n \in Nat /\ LastSeq(base) < n /\ n > since
    BY <1>3, <2>1
  <2>3. \A k \in DOMAIN items : items[k] # n
    BY <1>1, <1>8, <1>11, <2>2
  <2> QED
    BY <2>2, <2>3 DEF Whole
<1>12. ASSUME NEW n \in stored, n <= LastSeq(view)
       PROVE  \E k \in DOMAIN view : view[k].seq = n
  <2> SUFFICES ASSUME \A k \in DOMAIN view : view[k].seq # n
               PROVE  FALSE
    OBVIOUS
  <2>1. n \in Nat /\ LastSeq(base) < n /\ \A k \in DOMAIN items : items[k] < n
    BY <1>11
  <2>2. LastSeq(view) \in Nat /\ view # <<>>
    <3>1. LastSeq(view) \in Nat /\ (view = <<>> => LastSeq(view) = 0)
      BY <1>4, LastOfView
    <3> QED
      BY <1>3, <1>12, <2>1, <3>1
  <2>3. Len(view) \in DOMAIN view /\ LastSeq(view) = view[Len(view)].seq
    BY <1>4, <2>2, LastOfView
  <2>4. CASE Len(view) \in DOMAIN base
    <3>1. LastSeq(view) <= LastSeq(base)
      BY <1>6, <2>3, <2>4, LastIsGreatest
    <3> QED
      BY <1>3, <1>12, <2>1, <2>2, <3>1
  <2>5. CASE Len(view) \notin DOMAIN base
    <3>1. LastSeq(view) < n
      BY <1>7, <2>1, <2>3, <2>5
    <3> QED
      BY <1>12, <2>1, <2>2, <3>1
  <2> QED
    BY <2>4, <2>5
<1>13. ASSUME NEW n \in stored, n <= upto, Len(items) < Limit \/ n <= items[Limit]
       PROVE  \E k \in DOMAIN view : view[k].seq = n
  <2> SUFFICES ASSUME \A k \in DOMAIN view : view[k].seq # n
               PROVE  FALSE
    OBVIOUS
  <2>1. /\ n \in Nat /\ \A k \in DOMAIN items : items[k] < n
        /\ Len(items) = Limit
    BY <1>11, <1>13
  <2>2. Limit \in DOMAIN items
    BY <1>1, <2>1, OutputViewAssumption DEF OutputViewAssumption
  <2> QED
    BY <1>1, <1>13, <2>1, <2>2
<1> QED
  BY <1>9, <1>10, <1>12, <1>13 DEF Sound, Brought

\* The browser has nothing at first.
LEMMA InitViewInv ==
  ASSUME Init
  PROVE  ViewInv
<1>1. Len(announced) = 0 /\ Len(requests) = 0 /\ DOMAIN requests = {}
  BY DEF Init, ShellInit, ViewInit
<1>2. ViewTypes
  BY <1>1 DEF Init, ShellInit, ViewInit, ViewTypes
<1> QED
  BY <1>1, <1>2 DEF Init, ViewInit, ViewInv, AnswersWhole, ViewKept

\* Requests that are left alone stay right.
LEMMA RequestsKept ==
  ASSUME ViewInv, Grows(rows, Len(announced), rows', Len(announced')), requests' = requests
  PROVE  requests' \in Seq(Requested) /\ AnswersWhole'
<1>1. \A i \in DOMAIN requests : requests[i] \in Requested
  BY LenProperties DEF ViewInv, ViewTypes
<1>2. \A i \in DOMAIN requests : Answer(requests[i], rows', Len(announced'))
  BY <1>1, AnswerGrows DEF ViewInv, AnswersWhole
<1> QED
  BY <1>2 DEF ViewInv, ViewTypes, AnswersWhole

\* A view that is left alone stays sound.
LEMMA ChunksKept ==
  ASSUME ViewInv, Grows(rows, Len(announced), rows', Len(announced')),
         UNCHANGED <<event, chunks, misapplied>>
  PROVE  ViewKept'
BY SoundGrows DEF ViewInv, ViewTypes, ViewKept

\* One more request.
LEMMA RequestAdded ==
  ASSUME ViewInv, UNCHANGED <<rows, announced>>,
         NEW e \in Events \cup {"none"}, NEW since \in Nat, NEW upto \in 0 .. Len(announced),
         requests' = Append(requests, Request(e, since, upto))
  PROVE  requests' \in Seq(Requested) /\ AnswersWhole'
<1> DEFINE r == Request(e, since, upto)
<1>1. /\ r \in Requested /\ r.state = "sent" /\ r.upto <= Len(announced)
  BY EmptySeq DEF Request, Requested
<1> HIDE DEF r
<1>2. requests \in Seq(Requested)
  BY DEF ViewInv, ViewTypes
<1>3. /\ requests' \in Seq(Requested) /\ Len(requests) \in Nat
      /\ DOMAIN requests = 1 .. Len(requests) /\ DOMAIN requests' = 1 .. Len(requests) + 1
      /\ \A i \in 1 .. Len(requests) : requests'[i] = requests[i]
      /\ requests'[Len(requests) + 1] = r
  <2>1. requests' = Append(requests, r)
    BY DEF r
  <2> QED
    BY <1>1, <1>2, <2>1, AppendProperties, LenProperties
<1>4. Answer(r, rows, Len(announced))
  BY <1>1 DEF Answer
<1>5. ASSUME NEW i \in DOMAIN requests'
      PROVE  Answer(requests'[i], rows, Len(announced))
  <2>1. CASE i \in DOMAIN requests
    BY <1>3, <2>1 DEF ViewInv, AnswersWhole
  <2>2. CASE i = Len(requests) + 1
    BY <1>3, <1>4, <2>2
  <2> QED
    BY <1>3, <1>5, <2>1, <2>2
<1> QED
  BY <1>3, <1>5 DEF AnswersWhole

\* A catch-up is asked for, or was already.
LEMMA CatchupAsked ==
  ASSUME OutputInv, ViewInv, UNCHANGED <<rows, announced>>, NEW upto \in 0 .. Len(announced),
         AsksCatchup(upto)
  PROVE  requests' \in Seq(Requested) /\ AnswersWhole'
<1>1. CASE requests' = requests
  BY <1>1 DEF ViewInv, ViewTypes, AnswersWhole
<1>2. CASE requests' = Append(requests, Request(event, LastSeq(chunks), upto))
  BY <1>2, RequestAdded, LastOfView DEF ViewInv, ViewTypes
<1> QED
  BY <1>1, <1>2 DEF AsksCatchup

\* A request that is over.
LEMMA RequestOver ==
  ASSUME ViewInv, UNCHANGED <<rows, announced>>, NEW i \in DOMAIN requests, Over(i)
  PROVE  requests' \in Seq(Requested) /\ AnswersWhole'
<1> DEFINE r == [Request("none", 0, 0) EXCEPT !.state = "over"]
<1>1. r \in Requested /\ r.event # "this"
  <2>1. <<>> \in Seq(Nat)
    BY EmptySeq
  <2> QED
    BY <2>1 DEF Request, Requested
<1> HIDE DEF r
<1>2. requests \in Seq(Requested) /\ requests' = [requests EXCEPT ![i] = r]
  BY DEF ViewInv, ViewTypes, Over, r
<1>3. /\ requests' \in Seq(Requested) /\ DOMAIN requests' = DOMAIN requests
      /\ \A j \in DOMAIN requests : requests'[j] = IF j = i THEN r ELSE requests[j]
  BY <1>1, <1>2, ExceptSeq, LenProperties
<1>4. \A j \in DOMAIN requests' : Answer(requests'[j], rows, Len(announced))
  BY <1>1, <1>3 DEF ViewInv, AnswersWhole, Answer
<1> QED
  BY <1>3, <1>4 DEF AnswersWhole

\* The server reads an answer.
LEMMA RequestRead ==
  ASSUME OutputInv, ViewInv, UNCHANGED <<rows, announced>>, NEW i \in DOMAIN requests, IsRead(i)
  PROVE  requests' \in Seq(Requested) /\ AnswersWhole'
<1>1. PICK size \in 0 .. Limit : \E items \in [1 .. size -> Stored(requests[i].event)] :
        /\ IsSnapshot(items, requests[i].event, requests[i].since)
        /\ requests' = [requests EXCEPT ![i].state = "read", ![i].items = items]
  BY DEF IsRead
<1>2. PICK items \in [1 .. size -> Stored(requests[i].event)] :
        /\ IsSnapshot(items, requests[i].event, requests[i].since)
        /\ requests' = [requests EXCEPT ![i].state = "read", ![i].items = items]
  BY <1>1
<1>3. rows \in SUBSET Nat /\ requests \in Seq(Requested) /\ requests[i] \in Requested
  BY LenProperties DEF OutputInv, OutputTypes, Pieces, ViewInv, ViewTypes
<1>4. items \in Seq(Nat)
  <2>1. size \in Nat /\ Stored(requests[i].event) \subseteq Nat
    BY <1>1, <1>3, OutputViewAssumption DEF Stored, OutputViewAssumption
  <2>2. items \in [1 .. size -> Nat]
    BY <2>1
  <2> QED
    BY <2>1, <2>2, SeqDef
<1> DEFINE r == [requests[i] EXCEPT !.state = "read", !.items = items]
<1>5. /\ r \in Requested /\ r.state = "read" /\ r.items = items
      /\ r.event = requests[i].event /\ r.since = requests[i].since /\ r.upto = requests[i].upto
  BY <1>3, <1>4 DEF Requested
<1>6. requests' = [requests EXCEPT ![i] = r]
  BY <1>2
<1> HIDE DEF r
<1>7. /\ requests' \in Seq(Requested) /\ DOMAIN requests' = DOMAIN requests
      /\ \A j \in DOMAIN requests : requests'[j] = IF j = i THEN r ELSE requests[j]
  BY <1>3, <1>5, <1>6, ExceptSeq, LenProperties
<1>8. ASSUME r.event = "this"
      PROVE  r.upto <= Len(announced) /\ Whole(items, r.since, r.upto, rows, Len(announced))
  <2>1. r.upto <= Len(announced)
    BY <1>5, <1>8 DEF ViewInv, AnswersWhole, Answer
  <2>2. IsSnapshot(items, "this", r.since)
    BY <1>2, <1>5, <1>8
  <2>3. \A k \in DOMAIN items : items[k] \in rows /\ items[k] > r.since
    BY <2>2 DEF IsSnapshot, Stored
  <2>4. \A j, k \in DOMAIN items : j < k => items[j] < items[k]
    BY <2>2 DEF IsSnapshot
  <2>5. \A n \in rows : n > r.since /\ (\A k \in DOMAIN items : items[k] # n) =>
          Len(items) = Limit /\ \A k \in DOMAIN items : items[k] < n
    BY <2>2 DEF IsSnapshot, Stored
  <2> QED
    BY <2>1, <2>3, <2>4, <2>5 DEF Whole, Issued
<1>9. Answer(r, rows, Len(announced))
  BY <1>5, <1>8 DEF Answer
<1>10. \A j \in DOMAIN requests' : Answer(requests'[j], rows, Len(announced))
  BY <1>7, <1>9 DEF ViewInv, AnswersWhole
<1> QED
  BY <1>7, <1>10 DEF AnswersWhole

\* A chunk is heard.
LEMMA ChunkHeard ==
  ASSUME OutputInv, ViewInv, UNCHANGED <<rows, announced, event, misapplied>>,
         NEW n \in 1 .. Len(announced), Hears(n)
  PROVE  /\ chunks' \in Seq(Entry) /\ ViewKept'
         /\ requests' \in Seq(Requested) /\ AnswersWhole'
<1>1. /\ rows \in SUBSET Nat /\ Len(announced) \in Nat /\ chunks \in Seq(Entry)
  BY LenProperties DEF OutputInv, OutputTypes, Pieces, ViewInv, ViewTypes
<1>2. Grows(rows, Len(announced), rows', Len(announced'))
  BY <1>1 DEF Grows
<1>3. CASE UNCHANGED <<chunks, requests>>
  BY <1>1, <1>2, <1>3, ChunksKept, RequestsKept
<1>4. CASE chunks' = chunks /\ AsksCatchup(n)
  BY <1>1, <1>2, <1>4, ChunksKept, CatchupAsked
<1>5. CASE /\ event = "this" /\ n = LastSeq(chunks) + 1 /\ requests' = requests
           /\ chunks' = Append(chunks, [event |-> "this", seq |-> n])
  <2>1. [event |-> "this", seq |-> n] \in Entry
    BY DEF Entry, Events
  <2>2. chunks' \in Seq(Entry)
    BY <1>1, <1>5, <2>1, AppendProperties
  <2>3. ASSUME ~misapplied
        PROVE  Sound(chunks', rows, Len(announced))
    BY <1>1, <1>5, <2>3, NextHeard DEF ViewInv, ViewKept
  <2> QED
    BY <1>2, <1>5, <2>2, <2>3, RequestsKept DEF ViewKept
<1> QED
  BY <1>3, <1>4, <1>5 DEF Hears

\* What the view shows when an answer is applied, and what it brings when it
\* fits the view.
LEMMA AnswerApplied ==
  ASSUME OutputInv, ViewInv, UNCHANGED <<rows, announced>>,
         NEW i \in DOMAIN requests, IsApplied(i)
  PROVE  /\ chunks' \in Seq(Entry)
         /\ event' = "this" /\ ~misapplied' =>
              /\ Sound(chunks', rows, Len(announced))
              /\ Brought(chunks', requests[i].items, requests[i].upto, rows)
<1> DEFINE r == requests[i]
<1>1. /\ rows \in SUBSET Nat /\ Len(announced) \in Nat /\ chunks \in Seq(Entry)
      /\ r \in Requested /\ Answer(r, rows, Len(announced)) /\ r.state = "read"
  BY LenProperties DEF OutputInv, OutputTypes, Pieces, ViewInv, ViewTypes, AnswersWhole,
                       IsApplied
<1>2. PICK first \in 0 .. Len(r.items) :
        /\ \A k \in DOMAIN r.items : r.items[k] > LastSeq(Base(r)) <=> k > first
        /\ chunks' = Applied(r, first)
  BY DEF IsApplied
<1>3. /\ r.event \in Events \cup {"none"} /\ r.since \in Nat /\ r.upto \in Nat
      /\ r.items \in Seq(Nat)
  BY <1>1 DEF Requested
<1>4. Base(r) \in Seq(Entry) /\ chunks' = Base(r) \o Fresh(r.event, r.items, first)
  BY <1>1, <1>2, EmptySeq DEF Base, Applied, Fresh
<1>5. chunks' \in Seq(Entry)
  BY <1>3, <1>4, FreshEntries, ConcatProperties
<1>6. ASSUME event' = "this", ~misapplied'
      PROVE  /\ Sound(chunks', rows, Len(announced))
             /\ Brought(chunks', r.items, r.upto, rows)
  <2>1. /\ r.event = "this" /\ r.since <= LastSeq(chunks)
        /\ r.since # 0 => event = "this" /\ ~misapplied
    BY <1>6 DEF IsApplied
  <2>2. Sound(Base(r), rows, Len(announced)) /\ r.since <= LastSeq(Base(r))
    <3>1. CASE r.since = 0
      <4>1. Base(r) = <<>> /\ LastSeq(Base(r)) = 0
        BY <3>1 DEF Base, LastSeq
      <4>2. \A n \in rows : ~(n <= 0)
        BY <1>1, LenProperties DEF OutputInv, Numbered
      <4> QED
        BY <3>1, <4>1, <4>2 DEF Sound
    <3>2. CASE r.since # 0
      BY <2>1, <3>2 DEF Base, ViewInv, ViewKept
    <3> QED
      BY <3>1, <3>2
  <2>3. Whole(r.items, r.since, r.upto, rows, Len(announced))
    BY <1>1, <2>1 DEF Answer
  <2>4. chunks' = Base(r) \o Fresh("this", r.items, first)
    BY <1>4, <2>1
  <2>5. Fits(r.items, r.since, r.upto, first, Base(r), rows, Len(announced))
    BY <1>1, <1>2, <1>3, <1>4, <2>2, <2>3 DEF Fits
  <2> QED
    BY <2>4, <2>5, Joined
<1> QED
  BY <1>5, <1>6

\* A step of the command is not seen by the browser.
LEMMA CommandUnseen ==
  ASSUME OutputInv, ViewInv, ShellNext, UNCHANGED viewVars
  PROVE  ViewInv'
<1>1. Grows(rows, Len(announced), rows', Len(announced'))
  BY StepGrows DEF Next
<1>2. UNCHANGED <<event, chunks, requests, delivered, misapplied>>
  BY DEF viewVars
<1>3. faults' \in Nat
  <2>1. \/ faults' = faults \/ faults' = faults + 1
        \/ \E outcome \in Outcomes : Settles(outcome)
    BY DEF ShellNext, Output, TimerFires, Ends, EndsUnstreamed, BeginsFlush, StoresChunk,
           ChunkNotStored, AnnouncesChunk, Returns
  <2>2. ASSUME NEW outcome \in Outcomes, Settles(outcome) PROVE faults' \in Nat
    BY <2>2 DEF Settles, ViewInv, ViewTypes
  <2> QED
    BY <2>1, <2>2 DEF ViewInv, ViewTypes
<1>4. delivered' \in 0 .. Len(announced')
  BY <1>1, <1>2 DEF ViewInv, ViewTypes, Grows
<1>5. ViewTypes'
  BY <1>2, <1>3, <1>4 DEF ViewInv, ViewTypes
<1> QED
  BY <1>1, <1>2, <1>5, ChunksKept, RequestsKept DEF ViewInv

\* The steps of the browser, but the failures of its requests.
LEMMA BrowserKeeps ==
  ASSUME OutputInv, ViewInv, ViewNext, UNCHANGED shellVars
  PROVE  ViewInv'
<1>1. /\ UNCHANGED <<rows, announced, faults>> /\ Len(announced) \in Nat /\ rows \in SUBSET Nat
      /\ \A k \in 1 .. Len(announced) : announced[k].seq = k
  BY LenProperties DEF shellVars, OutputInv, OutputTypes, Pieces, Numbered
<1>2. Grows(rows, Len(announced), rows', Len(announced'))
  BY <1>1 DEF Grows
<1>3. ASSUME NEW e \in Events, Selects(e) PROVE ViewInv'
  <2>1. requests' \in Seq(Requested) /\ AnswersWhole'
    BY <1>1, <1>3, RequestAdded DEF Selects
  <2>2. chunks' = <<>> /\ event' = e /\ delivered' = delivered
    BY <1>3 DEF Selects
  <2>3. ViewTypes'
    BY <1>1, <2>1, <2>2, EmptySeq DEF ViewInv, ViewTypes
  <2>4. Sound(<<>>, rows, Len(announced))
    BY <1>1 DEF Sound, LastSeq, OutputInv, Numbered
  <2> QED
    BY <1>1, <2>1, <2>2, <2>3, <2>4 DEF ViewInv, ViewKept
<1>4. CASE Leaves
  <2>1. event' = "none" /\ chunks' = <<>> /\ requests' = requests /\ delivered' = delivered
    BY <1>4 DEF Leaves
  <2>2. ViewTypes'
    BY <1>1, <2>1, EmptySeq DEF ViewInv, ViewTypes
  <2> QED
    BY <1>2, <2>1, <2>2, RequestsKept DEF ViewInv, ViewKept
<1>5. ASSUME NEW i \in DOMAIN requests, IsRead(i) PROVE ViewInv'
  <2>1. UNCHANGED <<event, chunks, delivered, misapplied>>
    BY <1>5 DEF IsRead
  <2>2. requests' \in Seq(Requested) /\ AnswersWhole'
    BY <1>1, <1>5, RequestRead
  <2> QED
    BY <1>1, <1>2, <2>1, <2>2, ChunksKept DEF ViewInv, ViewTypes
<1>6. ASSUME NEW i \in DOMAIN requests, IsApplied(i) PROVE ViewInv'
  <2>1. requests' \in Seq(Requested) /\ AnswersWhole'
    BY <1>1, <1>6, RequestOver DEF IsApplied
  <2>2. UNCHANGED <<event, delivered>>
    BY <1>6 DEF IsApplied
  <2>3. chunks' \in Seq(Entry) /\ ViewKept'
    BY <1>1, <1>6, AnswerApplied DEF ViewKept
  <2> QED
    BY <1>1, <2>1, <2>2, <2>3 DEF ViewInv, ViewTypes
<1>7. ASSUME NEW n \in 1 .. Len(announced), Hears(n), UNCHANGED <<event, misapplied>>,
             delivered' \in 0 .. Len(announced)
      PROVE  ViewInv'
  BY <1>1, <1>7, ChunkHeard DEF ViewInv, ViewTypes
<1>8. CASE IsDelivered
  <2>1. delivered' \in 1 .. Len(announced)
    BY <1>1, <1>8 DEF IsDelivered, ViewInv, ViewTypes
  <2> QED
    BY <1>1, <1>7, <1>8, <2>1 DEF IsDelivered
<1>9. CASE IsDeliveredAgain
  <2>1. delivered \in 1 .. Len(announced)
    BY <1>1, <1>9 DEF IsDeliveredAgain, ViewInv, ViewTypes
  <2> QED
    BY <1>1, <1>7, <1>9, <2>1 DEF IsDeliveredAgain
<1>10. CASE Disconnects \/ Joins
  <2>1. UNCHANGED <<event, chunks, requests, misapplied>> /\ delivered' \in 0 .. Len(announced)
    BY <1>1, <1>10 DEF Disconnects, Joins, ViewInv, ViewTypes
  <2> QED
    BY <1>1, <1>2, <2>1, ChunksKept, RequestsKept DEF ViewInv, ViewTypes
<1>11. CASE Reconnects
  <2>1. UNCHANGED <<event, chunks, misapplied, delivered>>
    BY <1>11 DEF Reconnects
  <2>2. requests' \in Seq(Requested) /\ AnswersWhole'
    <3>1. CASE requests' = requests
      BY <1>2, <3>1, RequestsKept
    <3>2. CASE AsksCatchup(Len(announced))
      BY <1>1, <3>2, CatchupAsked
    <3> QED
      BY <1>11, <3>1, <3>2 DEF Reconnects
  <2> QED
    BY <1>1, <1>2, <2>1, <2>2, ChunksKept DEF ViewInv, ViewTypes
<1> QED
  BY <1>3, <1>4, <1>5, <1>6, <1>8, <1>9, <1>10, <1>11 DEF ViewNext

\* Every step keeps the invariant of the browser.
LEMMA NextViewInv == OutputInv /\ ViewInv /\ [Next]_vars => ViewInv'
<1> SUFFICES ASSUME OutputInv, ViewInv, [Next]_vars PROVE ViewInv'
  OBVIOUS
<1>1. CASE ShellNext /\ UNCHANGED viewVars
  BY <1>1, CommandUnseen
<1>2. CASE ViewNext /\ UNCHANGED shellVars
  BY <1>2, BrowserKeeps
<1>3. ASSUME NEW i \in DOMAIN requests, Fails(i), UNCHANGED <<rows, announced>>
      PROVE  ViewInv'
  <2>1. requests' \in Seq(Requested) /\ AnswersWhole'
    BY <1>3, RequestOver DEF Fails
  <2>2. UNCHANGED <<event, chunks, delivered, misapplied>> /\ faults' \in Nat
    BY <1>3 DEF Fails, ViewInv, ViewTypes
  <2>3. ViewKept'
    BY <1>3, <2>2 DEF ViewInv, ViewKept
  <2> QED
    BY <1>3, <2>1, <2>2, <2>3 DEF ViewInv, ViewTypes
<1>4. CASE UNCHANGED vars
  BY <1>4 DEF vars, shellVars, viewVars, ViewInv, ViewTypes, AnswersWhole, ViewKept
<1> QED
  BY <1>1, <1>2, <1>3, <1>4 DEF Next

(* Whatever the browser's socket loses and the user selects, and however   *)
(* late the answers come, the view of a running command has its chunks in  *)
(* order, each once, and every stored one up to the last it shows, as long *)
(* as no answer was applied that does not fit it.                          *)
THEOREM ViewStaysSound == Spec => []ViewSound
<1>1. OutputInv /\ ViewInv => ViewSound
  BY DEF ViewInv, ViewKept, Sound, ViewSound
<1> QED
  BY <1>1, InitOutputInv, NextOutputInv, InitViewInv, NextViewInv, PTL DEF Spec

\* An answer that was read is over without a failure only when it is applied.
LEMMA OnlyApplied ==
  ASSUME OutputInv, ViewInv, [Next]_vars, NEW i \in DOMAIN requests,
         requests[i].state = "read", requests'[i].state = "over", faults' = faults
  PROVE  IsApplied(i) /\ UNCHANGED <<rows, announced>>
<1>1. /\ requests \in Seq(Requested) /\ requests' # requests /\ Len(requests) \in Nat
      /\ DOMAIN requests = 1 .. Len(requests)
  BY LenProperties DEF ViewInv, ViewTypes
<1>2. ASSUME NEW r, requests' = Append(requests, r) PROVE FALSE
  <2>1. requests \in Seq(Requested \cup {r}) /\ r \in Requested \cup {r}
    BY <1>1, SeqMonotonic
  <2>2. \A k \in 1 .. Len(requests) : Append(requests, r)[k] = requests[k]
    BY <2>1, AppendProperties
  <2> QED
    BY <1>1, <1>2, <2>2
<1>3. ASSUME NEW upto, AsksCatchup(upto) PROVE FALSE
  BY <1>1, <1>2, <1>3 DEF AsksCatchup
<1>4. ASSUME NEW n, Hears(n) PROVE FALSE
  BY <1>1, <1>3, <1>4 DEF Hears
<1>5. ASSUME NEW j \in DOMAIN requests, IsRead(j) PROVE FALSE
  <2>1. PICK items : requests' = [requests EXCEPT ![j].state = "read", ![j].items = items]
    BY <1>5 DEF IsRead
  <2>2. requests'[i].state \in {requests[i].state, "read"}
    BY <1>1, <2>1
  <2> QED
    BY <2>2
<1>6. ASSUME NEW j \in DOMAIN requests, IsApplied(j) PROVE j = i
  BY <1>1, <1>6 DEF IsApplied, Over
<1>7. ASSUME NEW j \in DOMAIN requests, Fails(j) PROVE FALSE
  <2>1. faults' = faults + 1 /\ faults \in Nat
    BY <1>7 DEF Fails, ViewInv, ViewTypes
  <2> QED
    BY <2>1
<1>8. ViewNext /\ UNCHANGED shellVars
  BY <1>1, <1>7 DEF Next, vars, viewVars
<1>9. \E j \in DOMAIN requests : IsApplied(j)
  BY <1>1, <1>2, <1>3, <1>4, <1>5, <1>8
     DEF ViewNext, Selects, Leaves, IsDelivered, IsDeliveredAgain, Disconnects, Reconnects, Joins
<1> QED
  BY <1>6, <1>8, <1>9 DEF shellVars

(* A catch-up that is answered has brought what was missing when it was    *)
(* asked for, up to the limit of an answer, unless the answer does not fit *)
(* the view (requestCatchup and the chunks fetchSnapshot keeps).           *)
THEOREM CatchupsComplete == Spec => CatchupsCatchUp
<1> DEFINE Completes ==
      \A i \in DOMAIN requests :
        LET r == requests[i]
            reached(n) == Len(r.items) < Limit \/ n <= r.items[Limit]
        IN /\ r.state = "read" /\ requests'[i].state = "over" /\ faults' = faults
           /\ event' = "this" /\ ~misapplied'
           => \A n \in rows : n <= r.upto /\ reached(n) =>
                \E k \in DOMAIN chunks' : chunks'[k].seq = n
<1>1. OutputInv /\ ViewInv /\ [Next]_vars => Completes
  <2> SUFFICES ASSUME OutputInv, ViewInv, [Next]_vars, NEW i \in DOMAIN requests,
                      requests[i].state = "read", requests'[i].state = "over",
                      faults' = faults, event' = "this", ~misapplied'
               PROVE  Brought(chunks', requests[i].items, requests[i].upto, rows)
    BY DEF Brought
  <2> QED
    BY OnlyApplied, AnswerApplied
<1>2. Completes => [Completes]_vars
  OBVIOUS
<1> QED
  BY <1>1, <1>2, InitOutputInv, NextOutputInv, InitViewInv, NextViewInv, PTL
     DEF Spec, CatchupsCatchUp
-----------------------------------------------------------------------------
(***************************************************************************)
(* The result.  As long as nothing is cut, each piece that has arrived is  *)
(* shown or still to be, and when the chain is through none is left; what  *)
(* is returned then is the whole output.                                   *)
(***************************************************************************)
Held(o, S) ==
  \A p \in o.taken : \/ p \in S
                     \/ \E s \in Sources : p \in o.buffer[s]
                     \/ \E i \in DOMAIN o.chain : p \in o.chain[i].pieces

NothingLost ==
  at = "streaming" =>
    /\ command \in {"running", "over", "exited"} /\ report = Nothing /\ result = Nothing
    /\ command # "exited" /\ out.cut = "no" => out.taken = 1 .. Len(heard) /\ Held(out, shown)
    /\ command = "over" => \A s \in Sources : out.buffer[s] = {}
    /\ command = "exited" => out.taken = {}

ResultInv == NothingLost /\ ResultWhole

\* A flush loses nothing, and empties the buffer.
LEMMA FlushHeld ==
  ASSUME NEW o \in OutState, NEW s \in Sources, NEW S
  PROVE  /\ Held(o, S) => Held(Flush(o, s), S)
         /\ Flush(o, s).cut = o.cut /\ Flush(o, s).buffer[s] = {}
         /\ \A u \in Sources \ {s} : Flush(o, s).buffer[u] = o.buffer[u]
<1>1. CASE o.buffer[s] = {}
  BY <1>1 DEF Flush
<1>2. CASE o.buffer[s] # {}
  <2> DEFINE f == Flush(o, s)
  <2>1. /\ f.taken = o.taken /\ f.cut = o.cut
        /\ f.buffer[s] = {} /\ \A u \in Sources \ {s} : f.buffer[u] = o.buffer[u]
        /\ \A i \in DOMAIN o.chain : i \in DOMAIN f.chain /\ f.chain[i] = o.chain[i]
        /\ \E i \in DOMAIN f.chain : f.chain[i].pieces = o.buffer[s]
    BY <1>2, FlushMoves
  <2> HIDE DEF f
  <2>2. ASSUME Held(o, S), NEW p \in f.taken
        PROVE  \/ p \in S
               \/ \E u \in Sources : p \in f.buffer[u]
               \/ \E i \in DOMAIN f.chain : p \in f.chain[i].pieces
    <3>1. CASE p \in S
      BY <3>1
    <3>2. ASSUME NEW u \in Sources, p \in o.buffer[u]
          PROVE  \/ p \in f.buffer[u]
                 \/ \E i \in DOMAIN f.chain : p \in f.chain[i].pieces
      BY <2>1, <3>2
    <3>3. ASSUME NEW i \in DOMAIN o.chain, p \in o.chain[i].pieces
          PROVE  \E j \in DOMAIN f.chain : p \in f.chain[j].pieces
      BY <2>1, <3>3
    <3> QED
      BY <2>1, <2>2, <3>1, <3>2, <3>3 DEF Held
  <2>3. Held(o, S) => Held(f, S)
    BY <2>2 DEF Held
  <2> QED
    BY <2>1, <2>3 DEF f
<1> QED
  BY <1>1, <1>2

\* Nor is a piece lost that arrives, unless the output is cut.
LEMMA TakeHeld ==
  ASSUME NEW o \in OutState, NEW s \in Sources, NEW S, NEW piece \in Nat
  PROVE  /\ Held(o, S) => Held(Take(o, s, piece), S)
         /\ Take(o, s, piece).cut = "no" => o.cut = "no"
<1> DEFINE put == [o EXCEPT !.taken = @ \cup {piece}, !.buffer[s] = @ \cup {piece}]
           flushed == IF Cardinality(put.buffer[s]) >= config.chunk THEN Flush(put, s) ELSE put
<1>1. o.buffer \in [Sources -> Pieces]
  BY DEF OutState
<1>2. /\ put \in OutState /\ put.taken = o.taken \cup {piece} /\ put.cut = o.cut
      /\ put.buffer = [o.buffer EXCEPT ![s] = @ \cup {piece}] /\ put.chain = o.chain
  BY <1>1 DEF OutState, Pieces
<1>3. put.buffer[s] = o.buffer[s] \cup {piece} /\ \A u \in Sources \ {s} : put.buffer[u] = o.buffer[u]
  BY <1>1, <1>2
<1> HIDE DEF put
<1>4. Held(o, S) => Held(put, S)
  BY <1>2, <1>3 DEF Held
<1>5. /\ flushed \in OutState /\ flushed.cut = o.cut
      /\ Held(put, S) => Held(flushed, S)
  <2>1. Flush(put, s) \in OutState
    <3>1. CASE put.buffer[s] = {}
      BY <1>2, <3>1 DEF Flush
    <3>2. CASE put.buffer[s] # {}
      BY <1>2, <3>2, FlushMoves
    <3> QED
      BY <3>1, <3>2
  <2> QED
    BY <1>2, <2>1, FlushHeld
<1> HIDE DEF flushed
<1>6. Take(o, s, piece) \in {flushed, [flushed EXCEPT !.cut = "output_limit", !.pass = s]}
  BY DEF Take, flushed, put
<1> DEFINE cut == [flushed EXCEPT !.cut = "output_limit", !.pass = s]
<1>7. /\ cut.taken = flushed.taken /\ cut.buffer = flushed.buffer /\ cut.chain = flushed.chain
      /\ cut.cut = "output_limit"
  BY <1>5 DEF OutState
<1> HIDE DEF cut
<1>8. Held(flushed, S) => Held(cut, S)
  BY <1>7 DEF Held
<1> QED
  BY <1>4, <1>5, <1>6, <1>7, <1>8 DEF cut

\* The invariant while the command streams.
LEMMA StreamingKept ==
  ASSUME OutputInv, at = "streaming", ResultInv,
         UNCHANGED <<at, report, result>>,
         command' \in {"running", "over", "exited"},
         command' # "exited" /\ out'.cut = "no" =>
           out'.taken = 1 .. Len(heard') /\ Held(out', shown'),
         command' = "over" => \A s \in Sources : out'.buffer[s] = {},
         command' = "exited" => out'.taken = {}
  PROVE  ResultInv'
<1>1. NothingLost'
  BY DEF ResultInv, NothingLost
<1>2. result' = Nothing
  BY DEF ResultInv, NothingLost
<1> QED
  BY <1>1, <1>2 DEF ResultInv, ResultWhole

\* A piece of output arrives when n have arrived before it, and none was lost.
LEMMA ArrivesHeld ==
  ASSUME NEW o \in OutState, NEW s \in Sources, NEW S, NEW n \in Nat, Apart(o, S),
         o.taken \subseteq 1 .. n, o.cut = "no" => o.taken = 1 .. n /\ Held(o, S)
  PROVE  Take(o, s, n + 1).cut = "no" =>
           Take(o, s, n + 1).taken = 1 .. n + 1 /\ Held(Take(o, s, n + 1), S)
<1>1. n + 1 \in Nat /\ n + 1 \notin o.taken
  OBVIOUS
<1>2. Take(o, s, n + 1).taken = o.taken \cup {n + 1}
  BY <1>1, TakeApart
<1>3. 1 .. n + 1 = (1 .. n) \cup {n + 1}
  OBVIOUS
<1> QED
  BY <1>1, <1>2, <1>3, TakeHeld

\* Output arrives, or a timer fires.
LEMMA OutputHeld ==
  ASSUME OutputInv, ResultInv, NEW s \in Sources, Output(s) \/ TimerFires(s)
  PROVE  ResultInv'
<1>1. /\ out \in OutState /\ heard \in Seq(Sources) /\ Len(heard) \in Nat /\ at = "streaming"
      /\ Apart(out, shown) /\ out.taken \subseteq 1 .. Len(heard) /\ command = "running"
      /\ out.cut = "no" => out.taken = 1 .. Len(heard) /\ Held(out, shown)
      /\ UNCHANGED <<command, at, report, result, shown>>
  BY LenProperties DEF Output, TimerFires, OutputInv, OutputTypes, Ended, Streaming, ResultInv,
                       NothingLost
<1>2. CASE Output(s)
  <2>1. Len(heard') = Len(heard) + 1
    BY <1>1, <1>2, AppendProperties DEF Output
  <2>2. out'.cut = "no" => out'.taken = 1 .. Len(heard') /\ Held(out', shown')
    <3>1. CASE out.cut # "no" /\ out' = out
      BY <3>1
    <3>2. CASE out' = Take(out, s, Len(heard) + 1)
      BY <1>1, <2>1, <3>2, ArrivesHeld
    <3> QED
      BY <1>2, <2>1, <3>1, <3>2 DEF Output
  <2> QED
    BY <1>1, <2>2, StreamingKept
<1>3. CASE TimerFires(s)
  <2>1. out' = Flush(out, s) /\ heard' = heard
    BY <1>3 DEF TimerFires
  <2>2. Flush(out, s).taken = out.taken
    BY <1>1, FlushApart
  <2>3. out'.cut = "no" => out'.taken = 1 .. Len(heard') /\ Held(out', shown')
    BY <1>1, <2>1, <2>2, FlushHeld
  <2> QED
    BY <1>1, <2>3, StreamingKept
<1> QED
  BY <1>2, <1>3

\* The command ends: what was held back is handled, and nothing stays buffered.
LEMMA EndsHeld ==
  ASSUME OutputInv, ResultInv,
         NEW tails \in {<<>>, <<"stdout">>, <<"stderr">>, <<"stdout", "stderr">>}, Ends(tails)
  PROVE  ResultInv'
<1> DEFINE n == Len(heard)
           Complete(o, m) == /\ o \in OutState /\ Apart(o, shown) /\ o.taken \subseteq 1 .. m
                             /\ o.cut = "no" => o.taken = 1 .. m /\ Held(o, shown)
           first == IF Len(tails) > 0 THEN Take(out, tails[1], n + 1) ELSE out
           second == IF Len(tails) > 1 THEN Take(first, tails[2], n + 2) ELSE first
<1>1. n \in Nat /\ Complete(out, n) /\ heard \in Seq(Sources) /\ at = "streaming"
  BY LenProperties DEF Ends, OutputInv, OutputTypes, Ended, Streaming, ResultInv, NothingLost
<1>2. ASSUME NEW o, NEW s \in Sources, NEW m \in Nat, Complete(o, m)
      PROVE  Complete(Take(o, s, m + 1), m + 1)
  BY <1>2, Arrives, ArrivesHeld
<1>3. /\ Len(tails) \in 0 .. 2 /\ tails \in Seq(Sources)
      /\ Len(tails) > 0 => tails[1] \in Sources
      /\ Len(tails) > 1 => tails[2] \in Sources
  <2>1. tails = <<>> \/ tails = <<"stdout">> \/ tails = <<"stderr">> \/ tails = <<"stdout", "stderr">>
    OBVIOUS
  <2>2. CASE tails = <<>>
    BY <2>2
  <2>3. CASE tails = <<"stdout">>
    BY <2>3 DEF Sources
  <2>4. CASE tails = <<"stderr">>
    BY <2>4 DEF Sources
  <2>5. CASE tails = <<"stdout", "stderr">>
    BY <2>5 DEF Sources
  <2> QED
    BY <2>1, <2>2, <2>3, <2>4, <2>5
<1>4. out' = Flush(Flush(second, "stdout"), "stderr")
  BY DEF Ends, first
<1>5. Len(heard') = n + Len(tails)
  BY <1>1, <1>3, ConcatProperties DEF Ends
<1> HIDE DEF Complete
<1>6. Len(tails) > 0 => Complete(Take(out, tails[1], n + 1), n + 1)
  BY <1>1, <1>2, <1>3
<1>7. Complete(second, n + Len(tails))
  <2>1. CASE Len(tails) = 0
    BY <1>1, <2>1
  <2>2. CASE Len(tails) = 1
    BY <1>6, <2>2
  <2>3. CASE Len(tails) = 2
    <3> DEFINE m == n + 1
    <3>1. m \in Nat /\ m + 1 = n + 2 /\ m + 1 = n + Len(tails)
      BY <1>1, <2>3
    <3>2. Complete(first, m) /\ second = Take(first, tails[2], m + 1) /\ tails[2] \in Sources
      BY <1>3, <1>6, <2>3, <3>1
    <3> HIDE DEF first, second, m
    <3>3. Complete(Take(first, tails[2], m + 1), m + 1)
      BY <1>2, <3>1, <3>2
    <3> QED
      BY <3>1, <3>2, <3>3
  <2> QED
    BY <1>3, <2>1, <2>2, <2>3
<1> HIDE DEF second
<1> DEFINE flushed == Flush(second, "stdout")
<1>8. /\ flushed \in OutState /\ flushed.taken = second.taken /\ Apart(flushed, shown)
      /\ flushed.cut = second.cut /\ flushed.buffer["stdout"] = {}
      /\ Held(second, shown) => Held(flushed, shown)
  BY <1>7, FlushApart, FlushHeld DEF Complete, Sources
<1> HIDE DEF flushed
<1>9. /\ out'.taken = second.taken /\ out'.cut = second.cut
      /\ \A s \in Sources : out'.buffer[s] = {}
      /\ Held(second, shown) => Held(out', shown)
  <2>1. out' = Flush(flushed, "stderr")
    BY <1>4 DEF flushed
  <2>2. /\ Flush(flushed, "stderr").taken = flushed.taken
        /\ Flush(flushed, "stderr").cut = flushed.cut
        /\ Flush(flushed, "stderr").buffer["stderr"] = {}
        /\ Flush(flushed, "stderr").buffer["stdout"] = flushed.buffer["stdout"]
        /\ Held(flushed, shown) => Held(Flush(flushed, "stderr"), shown)
    BY <1>8, FlushApart, FlushHeld DEF Sources
  <2> QED
    BY <1>8, <2>1, <2>2 DEF Sources
<1>10. out'.cut = "no" => out'.taken = 1 .. Len(heard') /\ Held(out', shown')
  BY <1>5, <1>7, <1>9 DEF Complete, Ends
<1> QED
  BY <1>1, <1>9, <1>10, StreamingKept DEF Ends

\* A command that did not stream has nothing of its output in the chain.
LEMMA EndsUnstreamedHeld ==
  ASSUME OutputInv, ResultInv, NEW output \in UnstreamedOutputs, EndsUnstreamed(output)
  PROVE  ResultInv'
<1>1. at = "streaming" /\ out.taken \subseteq 1 .. Len(heard) /\ Len(heard) = 0
  BY DEF EndsUnstreamed, OutputInv, OutputTypes, Ended, Streaming
<1>2. out.taken = {}
  BY <1>1
<1> QED
  BY <1>1, <1>2, StreamingKept DEF EndsUnstreamed

\* The next flush begins: its pieces are shown, or the output is cut.
LEMMA BeginsHeld ==
  ASSUME OutputInv, ResultInv, BeginsFlush
  PROVE  ResultInv'
<1> DEFINE flush == Head(out.chain)
           rest == [out EXCEPT !.chain = Tail(@)]
<1>1. /\ out \in OutState /\ out.chain # <<>> /\ at = "streaming"
      /\ UNCHANGED <<command, heard, at, report, result>>
  BY DEF BeginsFlush, OutputInv, OutputTypes, Ended
<1>2. /\ rest.taken = out.taken /\ rest.buffer = out.buffer /\ rest.chain = Tail(out.chain)
      /\ rest.cut = out.cut /\ rest \in OutState
  <2>1. out.chain \in Seq(Chunk) /\ Tail(out.chain) \in Seq(Chunk)
    BY <1>1, HeadTailProperties DEF OutState
  <2> QED
    BY <1>1, <2>1 DEF OutState
<1> HIDE DEF rest
<1>3. \/ /\ out'.cut # "no" /\ out'.taken = out.taken /\ out'.buffer = out.buffer
      \/ /\ out' = [rest EXCEPT !.pass = "none"] /\ shown' = shown \cup flush.pieces
  BY <1>2 DEF BeginsFlush, OutState, rest, flush
<1>4. CASE out'.cut # "no" /\ out'.taken = out.taken /\ out'.buffer = out.buffer
  BY <1>1, <1>4, StreamingKept DEF ResultInv, NothingLost
<1>5. CASE out' = [rest EXCEPT !.pass = "none"] /\ shown' = shown \cup flush.pieces
  <2>1. /\ out'.taken = out.taken /\ out'.buffer = out.buffer /\ out'.cut = out.cut
        /\ out'.chain = Tail(out.chain)
    BY <1>2, <1>5 DEF OutState
  <2>2. ASSUME Held(out, shown) PROVE Held(out', shown')
    <3>1. ASSUME NEW i \in DOMAIN out.chain, NEW p \in out.chain[i].pieces
          PROVE  \/ p \in flush.pieces
                 \/ \E j \in DOMAIN Tail(out.chain) : p \in Tail(out.chain)[j].pieces
      <4>1. /\ out.chain \in Seq(Chunk) /\ Len(out.chain) \in Nat /\ DOMAIN out.chain = 1 .. Len(out.chain)
            /\ Tail(out.chain) \in Seq(Chunk) /\ Len(Tail(out.chain)) = Len(out.chain) - 1
            /\ DOMAIN Tail(out.chain) = 1 .. Len(out.chain) - 1
            /\ \A k \in 1 .. Len(out.chain) - 1 : Tail(out.chain)[k] = out.chain[k + 1]
        BY <1>1, HeadTailProperties, LenProperties DEF OutState
      <4>2. CASE i = 1
        BY <3>1, <4>1, <4>2
      <4>3. CASE i # 1
        <5>1. i - 1 \in 1 .. Len(out.chain) - 1 /\ (i - 1) + 1 = i
          BY <4>1, <4>3
        <5> QED
          BY <3>1, <4>1, <5>1
      <4> QED
        BY <4>2, <4>3
    <3> HIDE DEF flush
    <3> QED
      BY <1>5, <2>1, <2>2, <3>1 DEF Held
  <2> QED
    BY <1>1, <2>1, <2>2, StreamingKept DEF ResultInv, NothingLost
<1> QED
  BY <1>3, <1>4, <1>5

\* A chunk is stored, not stored, or announced.
LEMMA WritingHeld ==
  ASSUME OutputInv, ResultInv, StoresChunk \/ ChunkNotStored \/ AnnouncesChunk
  PROVE  ResultInv'
<1>1. at = "streaming" /\ UNCHANGED <<command, heard, out, shown, at, report, result>>
  BY DEF StoresChunk, ChunkNotStored, AnnouncesChunk, OutputInv, OutputTypes, Ended
<1> QED
  BY <1>1, StreamingKept DEF ResultInv, NothingLost

\* The pieces there are to return when the chain is through.
LEMMA GatheredAll ==
  ASSUME OutputInv, ResultInv, NEW outcome \in Outcomes, Settles(outcome)
  PROVE  /\ Gathered(outcome) \subseteq 1 .. Len(heard) /\ Size(outcome) \in Nat
         /\ shown \subseteq Gathered(outcome)
         /\ out.cut = "no" => Gathered(outcome) = 1 .. Len(heard)
<1>1. /\ at = "streaming" /\ out.chain = <<>> /\ Len(heard) \in Nat
      /\ command \in {"over", "exited"}
      /\ command = "exited" => outcome # "broken"
      /\ Apart(out, shown) /\ out.taken \subseteq 1 .. Len(heard) /\ shown \subseteq out.taken
  BY LenProperties DEF Settles, OutputInv, OutputTypes, Streaming, Apart
<1>2. Gathered(outcome) \subseteq 1 .. Len(heard)
  BY <1>1 DEF Gathered
<1>3. Size(outcome) \in Nat
  <2>1. IsFiniteSet(1 .. Len(heard))
    BY <1>1, FS_Interval
  <2>2. IsFiniteSet(Gathered(outcome))
    BY <1>2, <2>1, FS_Subset
  <2> QED
    BY <2>2, FS_CardinalityType DEF Size
<1>4. shown \subseteq Gathered(outcome)
  BY DEF Gathered
<1>5. ASSUME out.cut = "no" PROVE Gathered(outcome) = 1 .. Len(heard)
  <2>1. CASE command = "exited"
    BY <1>1, <2>1 DEF ResultInv, NothingLost, Gathered
  <2>2. CASE command = "over"
    <3>1. out.taken = 1 .. Len(heard) /\ Held(out, shown) /\ \A s \in Sources : out.buffer[s] = {}
      BY <1>1, <1>5, <2>2 DEF ResultInv, NothingLost
    <3>2. DOMAIN out.chain = {}
      BY <1>1
    <3>3. out.taken \subseteq shown
      BY <3>1, <3>2 DEF Held
    <3>4. shown = 1 .. Len(heard)
      BY <1>1, <3>1, <3>3
    <3> QED
      BY <3>1, <3>4 DEF Gathered
  <2> QED
    BY <1>1, <2>1, <2>2
<1> QED
  BY <1>2, <1>3, <1>4, <1>5

\* In the order of each stream, and of arrival if any chunk was shown.
Ordered(text) ==
  \A i, j \in DOMAIN text : i < j =>
    \/ text[i] < text[j]
    \/ shown = {} /\ heard[text[i]] = "stdout" /\ heard[text[j]] = "stderr"

\* What is put together is in order, and so is its end.
LEMMA CombinedOrdered ==
  ASSUME OutputInv, NEW text \in Seq(1 .. Len(heard)), NEW outcome, IsCombined(text, outcome)
  PROVE  Ordered(text)
<1> SUFFICES ASSUME NEW i \in DOMAIN text, NEW j \in DOMAIN text, i < j
             PROVE  \/ text[i] < text[j]
                    \/ shown = {} /\ heard[text[i]] = "stdout" /\ heard[text[j]] = "stderr"
  BY DEF Ordered
<1>1. heard[text[i]] \in Sources /\ heard[text[j]] \in Sources
  BY LenProperties DEF OutputInv, OutputTypes
<1>2. IF shown # {} \/ heard[text[i]] = heard[text[j]] THEN text[i] < text[j]
      ELSE heard[text[i]] = "stdout"
  BY DEF IsCombined
<1> QED
  BY <1>1, <1>2 DEF Sources

\* The last pieces of an output.
LEMMA EndOrdered ==
  ASSUME NEW text \in Seq(Nat), NEW room \in 0 .. Len(text), Ordered(text)
  PROVE  /\ Ordered(SubSeq(text, Len(text) - room + 1, Len(text)))
         /\ Len(SubSeq(text, Len(text) - room + 1, Len(text))) = room
         /\ room = Len(text) => SubSeq(text, Len(text) - room + 1, Len(text)) = text
<1> DEFINE m == Len(text) - room
           last == SubSeq(text, m + 1, Len(text))
<1>1. /\ Len(text) \in Nat /\ DOMAIN text = 1 .. Len(text) /\ room \in Nat /\ m \in Nat
      /\ \A i \in 1 .. Len(text) : text[i] \in Nat
  BY LenProperties
<1>2. /\ m + 1 \in Int /\ Len(text) \in Int /\ \A i \in m + 1 .. Len(text) : text[i] \in Nat
      /\ Len(text) - (m + 1) + 1 = room
  BY <1>1
<1>3. /\ last \in Seq(Nat)
      /\ Len(last) = IF m + 1 <= Len(text) THEN Len(text) - (m + 1) + 1 ELSE 0
      /\ \A i \in 1 .. Len(text) - (m + 1) + 1 : last[i] = text[(m + 1) + i - 1]
  <2> HIDE DEF m
  <2> QED
    BY <1>2, SubSeqProperties
<1>4. /\ last \in Seq(Nat) /\ Len(last) = room /\ DOMAIN last = 1 .. room
      /\ \A i \in 1 .. room : last[i] = text[m + i] /\ m + i \in DOMAIN text
  <2>1. Len(last) = room
    BY <1>1, <1>2, <1>3
  <2>2. DOMAIN last = 1 .. room
    BY <1>3, <2>1, LenProperties
  <2>3. \A i \in 1 .. room : (m + 1) + i - 1 = m + i /\ m + i \in DOMAIN text
    BY <1>1
  <2> HIDE DEF m, last
  <2> QED
    BY <1>2, <1>3, <2>1, <2>2, <2>3
<1>5. Ordered(last)
  <2> HIDE DEF last
  <2>1. \A i, j \in 1 .. room : i < j => m + i < m + j
    BY <1>1
  <2> HIDE DEF m
  <2> QED
    BY <1>4, <2>1 DEF Ordered
<1>6. room = Len(text) => last = text
  BY <1>1, SubSeqFull
<1> HIDE DEF last
<1> QED
  BY <1>4, <1>5, <1>6 DEF last

\* What is said of a text that is returned, or saved.
Returned(text, tail) ==
  LET pieces == {text[i] : i \in DOMAIN text}
  IN /\ Ordered(text)
     /\ ~tail => shown \subseteq pieces
     /\ out.cut = "no" /\ ~tail => pieces = 1 .. Len(heard)

\* What is returned when nothing was cut or saved.
LEMMA RenderedWhole ==
  ASSUME OutputInv, ResultInv, NEW outcome \in Outcomes, Settles(outcome),
         NEW text \in Seq(1 .. Len(heard)), Len(text) = Size(outcome),
         IsCombined(text, outcome), out.cut = "no", ~CutLate(outcome)
  PROVE  Returned(Rendered(Kind(outcome), text, FALSE),
                  /\ Kind(outcome) = "failure"
                  /\ Len(Rendered(Kind(outcome), text, FALSE)) >= TailLimit)
<1>1. Kind(outcome) # "cut"
  BY DEF Kind, Status, Exits, Outcomes
<1>2. text \in Seq(Nat) /\ Ordered(text) /\ Len(text) \in Nat
  BY SeqMonotonic, CombinedOrdered, LenProperties
<1>3. config.limit \in Nat /\ TailLimit \in Nat
  BY ShellOutputAssumption DEF ShellOutputAssumption, OutputInv, OutputTypes
<1>4. ~(config.limit > 0 /\ Len(text) > config.limit)
  BY DEF CutLate
<1> DEFINE room == IF Kind(outcome) = "failure" /\ ~(Len(text) < TailLimit)
                   THEN TailLimit ELSE Len(text)
           rendered == SubSeq(text, Len(text) - room + 1, Len(text))
<1>5. room \in 0 .. Len(text)
  BY <1>2, <1>3
<1>6. Rendered(Kind(outcome), text, FALSE) = rendered
  <2>1. CASE Kind(outcome) = "failure"
    BY <1>1, <1>4, <2>1 DEF Rendered
  <2>2. CASE Kind(outcome) # "failure"
    BY <1>1, <1>4, <2>2 DEF Rendered
  <2> QED
    BY <2>1, <2>2
<1> HIDE DEF room
<1>7. /\ Ordered(rendered) /\ Len(rendered) = room
      /\ room = Len(text) => rendered = text
  BY <1>2, <1>5, EndOrdered
<1> HIDE DEF rendered
<1>8. ASSUME ~(Kind(outcome) = "failure" /\ Len(rendered) >= TailLimit)
      PROVE  rendered = text
  BY <1>2, <1>3, <1>7, <1>8 DEF room
<1>9. {text[i] : i \in DOMAIN text} = Gathered(outcome)
  BY DEF IsCombined
<1> QED
  BY <1>6, <1>7, <1>8, <1>9, GatheredAll DEF Returned

\* The command settles.
LEMMA SettlesHeld ==
  ASSUME OutputInv, ResultInv, NEW outcome \in Outcomes, Settles(outcome)
  PROVE  ResultInv'
<1>1. /\ at' = "announcing" /\ command' = outcome
      /\ UNCHANGED <<config, heard, out, shown>>
  BY DEF Settles
<1>2. NothingLost'
  BY <1>1 DEF NothingLost
<1> DEFINE saves(text) == (out.cut # "no" \/ CutLate(outcome)) /\ text # <<>>
           Made(text, saved) ==
             /\ report' = [status |-> Status(outcome), total |-> total, dropped |-> dropped,
                           saved |-> IF saved THEN text ELSE <<>>]
             /\ result' = [kind |-> Kind(outcome), text |-> Rendered(Kind(outcome), text, saved)]
<1>3. PICK text \in [1 .. Size(outcome) -> Gathered(outcome)] :
        IsCombined(text, outcome) /\ \E saved \in {saves(text), FALSE} : Made(text, saved)
  BY DEF Settles
<1>4. text \in Seq(1 .. Len(heard)) /\ Len(text) = Size(outcome)
  <2>1. Size(outcome) \in Nat /\ text \in [1 .. Size(outcome) -> 1 .. Len(heard)]
    BY GatheredAll
  <2>2. text \in Seq(1 .. Len(heard))
    BY <2>1, SeqDef
  <2> QED
    BY <2>1, <2>2, LenProperties
<1>5. IsCombined(text, outcome) /\ Ordered(text)
  BY <1>3, <1>4, CombinedOrdered
<1>6. \/ report'.saved = text /\ text # <<>>
      \/ /\ report'.saved = <<>>
         /\ result' = [kind |-> Kind(outcome), text |-> Rendered(Kind(outcome), text, FALSE)]
  <2>1. PICK saved \in {saves(text), FALSE} : Made(text, saved)
    BY <1>3
  <2>2. CASE saved
    BY <2>1, <2>2
  <2>3. CASE ~saved
    BY <2>1, <2>3
  <2> QED
    BY <2>2, <2>3
<1>7. CutLate(command)' = CutLate(outcome)
  BY <1>1 DEF CutLate, Size, Gathered
<1> DEFINE returned == IF report'.saved # <<>> THEN report'.saved ELSE result'.text
           tail == report'.saved = <<>> /\ result'.kind = "failure" /\ Len(returned) >= TailLimit
<1>8. ~(report'.saved = <<>> /\ (out.cut # "no" \/ CutLate(outcome))) => Returned(returned, tail)
  <2>1. CASE report'.saved = text /\ text # <<>>
    <3>1. {text[i] : i \in DOMAIN text} = Gathered(outcome)
      BY <1>5 DEF IsCombined
    <3>2. Returned(text, FALSE)
      BY <1>5, <3>1, GatheredAll DEF Returned
    <3> QED
      BY <2>1, <3>2
  <2>2. CASE /\ report'.saved = <<>>
             /\ result' = [kind |-> Kind(outcome), text |-> Rendered(Kind(outcome), text, FALSE)]
    BY <1>4, <1>5, <2>2, RenderedWhole
  <2> QED
    BY <1>6, <2>1, <2>2
<1> HIDE DEF returned
<1>9. ~(report'.saved = <<>> /\ (out.cut # "no" \/ CutLate(outcome))) =>
        LET pieces == {returned[i] : i \in DOMAIN returned}
        IN /\ \A i, j \in DOMAIN returned : i < j =>
                \/ returned[i] < returned[j]
                \/ shown = {} /\ heard[returned[i]] = "stdout" /\ heard[returned[j]] = "stderr"
           /\ ~tail => shown \subseteq pieces
           /\ out.cut = "no" /\ ~tail => pieces = 1 .. Len(heard)
  BY <1>8 DEF Returned, Ordered
<1>10. ResultWhole'
  BY <1>1, <1>7, <1>9 DEF ResultWhole, returned
<1> QED
  BY <1>2, <1>10 DEF ResultInv

\* Every step keeps the invariant of the result.
LEMMA NextResultInv == OutputInv /\ ResultInv /\ [Next]_vars => ResultInv'
<1> SUFFICES ASSUME OutputInv, ResultInv, [Next]_vars PROVE ResultInv'
  OBVIOUS
<1>1. ASSUME ShellNext PROVE ResultInv'
  <2>1. ASSUME NEW s \in Sources, Output(s) \/ TimerFires(s) PROVE ResultInv'
    BY <2>1, OutputHeld
  <2>2. ASSUME NEW tails \in {<<>>, <<"stdout">>, <<"stderr">>, <<"stdout", "stderr">>}, Ends(tails)
        PROVE  ResultInv'
    BY <2>2, EndsHeld
  <2>3. ASSUME NEW output \in UnstreamedOutputs, EndsUnstreamed(output) PROVE ResultInv'
    BY <2>3, EndsUnstreamedHeld
  <2>4. CASE BeginsFlush \/ StoresChunk \/ ChunkNotStored \/ AnnouncesChunk
    BY <2>4, BeginsHeld, WritingHeld
  <2>5. ASSUME NEW outcome \in Outcomes, Settles(outcome) PROVE ResultInv'
    BY <2>5, SettlesHeld
  <2>6. CASE Returns
    BY <2>6 DEF Returns, ResultInv, NothingLost, ResultWhole
  <2> QED
    BY <1>1, <2>1, <2>2, <2>3, <2>4, <2>5, <2>6 DEF ShellNext
<1>2. CASE UNCHANGED core
  <2>1. NothingLost' = NothingLost /\ ResultWhole' = ResultWhole
    BY <1>2 DEF core, NothingLost, Held, ResultWhole, CutLate, Size, Gathered
  <2> QED
    BY <2>1 DEF ResultInv
<1>3. ShellNext \/ UNCHANGED core
  BY DEF Next, vars, shellVars, core
<1> QED
  BY <1>1, <1>2, <1>3

\* A command that has just begun has lost nothing.
LEMMA InitResultInv == Init => ResultInv
<1> SUFFICES ASSUME Init PROVE ResultInv
  OBVIOUS
<1>1. out.taken = {} /\ 1 .. Len(heard) = {} /\ Held(out, shown)
  BY DEF Init, ShellInit, Quiet, Held
<1> QED
  BY <1>1 DEF Init, ShellInit, ResultInv, NothingLost, ResultWhole

(* Whatever the interleaving of the stream, the timers and the appends, a  *)
(* command returns or saves each piece once and in order, and all of its   *)
(* output unless that was cut (the chain is awaited before the output is   *)
(* put together).                                                          *)
THEOREM ResultStaysWhole == Spec => []ResultWhole
<1>1. OutputInv /\ ResultInv => ResultWhole
  BY DEF ResultInv
<1> QED
  BY <1>1, InitOutputInv, NextOutputInv, InitResultInv, NextResultInv, PTL DEF Spec
=============================================================================
