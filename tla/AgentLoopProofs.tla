--------------------------- MODULE AgentLoopProofs ---------------------------
(***************************************************************************)
(* Theorems about AgentLoop: every conversation that is saved or put to    *)
(* the model is sound, a later save keeps what an earlier one has saved,   *)
(* and the rows of model calls are completed.                              *)
(***************************************************************************)
EXTENDS AgentLoop, FiniteSetTheorems, SequenceTheorems, TLAPS

\* A conversation as a provider takes it, whose tool calls are of different
\* turns and none later than last.
Calls(msgs) == {i \in DOMAIN msgs : msgs[i].kind = "calls"}
WellFormed(msgs, last) ==
  /\ Paired(msgs)
  /\ \A i \in Calls(msgs) : msgs[i].turn <= last
  /\ \A i, j \in Calls(msgs) : msgs[i].turn = msgs[j].turn => i = j

SavedOK == WellFormed(saved.messages, turn) /\ saved.ids = saved.messages

\* The stages at which calls wait for their outputs, and those at which every
\* message has its context item.
Calling == {"call_tools", "tools", "outputs"}
Recorded == Calling \union {"tools_save", "inject", "save", "enforceTools"}

\* What a run works on is what was loaded, or what came in, and goes on.
WorkOK ==
  /\ pc = "load" => /\ \A i \in DOMAIN messages : messages[i].kind = "human"
                    /\ ids = <<>> /\ summary = <<>>
  /\ pc = "record" => /\ turn > 0 /\ WellFormed(messages, turn - 1)
                      /\ answer \in {"answer", "calls"}
  /\ pc \in Calling => WellFormed(Append(messages, New("outputs")), turn)
  /\ pc \in Stages \ (Calling \union {"record"}) => WellFormed(messages, turn)

IdsOK ==
  /\ pc \in Stages => IsPrefix(ids, messages)
  /\ pc \in Recorded => ids = messages

\* A call is cancelled only for the signal, and the turn ends on what was saved.
ExitsOK ==
  /\ pc = "cancel" => terminate
  /\ pc = "enforceTools" => saved = WorkingState
  /\ ReturnedIsSaved

KeptOK ==
  pc \in Stages \ {"load"} =>
    unread = run \/ IsPrefix(Content(saved), Content(WorkingState))

TypesOK ==
  /\ TypeOK
  /\ pc # "idle" => run > 0

LoopInv == TypesOK /\ SavedOK /\ WorkOK /\ IdsOK /\ ExitsOK /\ KeptOK

\* The row of the latest call, while the call is made and afterwards.
InCall == {"started", "model", "record", "cancel", "error"}
RowSettled == pc \in InCall \/ pc = "idle" \/ event # "running"
-----------------------------------------------------------------------------
(***************************************************************************)
(* Parts of sequences.                                                     *)
(***************************************************************************)

\* A stretch of a sequence.
LEMMA Stretch ==
  ASSUME NEW S, NEW s \in Seq(S), NEW a \in Nat, NEW b \in Nat,
         1 <= a, a <= b + 1, b <= Len(s)
  PROVE  /\ SubSeq(s, a, b) \in Seq(S)
         /\ Len(SubSeq(s, a, b)) = b - a + 1
         /\ \A i \in 1 .. b - a + 1 : SubSeq(s, a, b)[i] = s[a + i - 1]
<1>1. \A i \in a .. b : s[i] \in S
  BY LenProperties, ElementOfSeq
<1>2. a \in Int /\ b \in Int
  OBVIOUS
<1>3. /\ SubSeq(s, a, b) \in Seq(S)
      /\ Len(SubSeq(s, a, b)) = IF a <= b THEN b - a + 1 ELSE 0
      /\ \A i \in 1 .. b - a + 1 : SubSeq(s, a, b)[i] = s[a + i - 1]
  BY <1>1, <1>2, SubSeqProperties
<1>4. (IF a <= b THEN b - a + 1 ELSE 0) = b - a + 1
  OBVIOUS
<1> QED
  BY <1>3, <1>4

\* The front and the rest of a sequence.
LEMMA TwoParts ==
  ASSUME NEW S, NEW s \in Seq(S), NEW n \in 0 .. Len(s)
  PROVE  /\ SubSeq(s, 1, n) \in Seq(S)
         /\ Len(SubSeq(s, 1, n)) = n
         /\ \A i \in 1 .. n : SubSeq(s, 1, n)[i] = s[i]
         /\ SubSeq(s, n + 1, Len(s)) \in Seq(S)
         /\ Len(SubSeq(s, n + 1, Len(s))) = Len(s) - n
         /\ \A i \in 1 .. Len(s) - n : SubSeq(s, n + 1, Len(s))[i] = s[n + i]
         /\ SubSeq(s, 1, n) \o SubSeq(s, n + 1, Len(s)) = s
<1> DEFINE front == SubSeq(s, 1, n)
           rest == SubSeq(s, n + 1, Len(s))
           len == Len(s)
<1>1. len \in Nat /\ n \in Nat /\ n <= len
  BY LenProperties
<1>2. front \in Seq(S) /\ Len(front) = n /\ \A i \in 1 .. n : front[i] = s[i]
  <2>1. /\ front \in Seq(S) /\ Len(front) = n - 1 + 1
        /\ \A i \in 1 .. n - 1 + 1 : front[i] = s[1 + i - 1]
    BY <1>1, Stretch
  <2> HIDE DEF front
  <2> QED
    BY <1>1, <2>1
<1>3. rest \in Seq(S) /\ Len(rest) = len - n /\ \A i \in 1 .. len - n : rest[i] = s[n + i]
  <2>1. n + 1 \in Nat /\ 1 <= n + 1 /\ n + 1 <= len + 1
    BY <1>1
  <2>2. /\ rest \in Seq(S) /\ Len(rest) = len - (n + 1) + 1
        /\ \A i \in 1 .. len - (n + 1) + 1 : rest[i] = s[(n + 1) + i - 1]
    BY <1>1, <2>1, Stretch
  <2>3. len - (n + 1) + 1 = len - n /\ \A i \in 1 .. len - n : (n + 1) + i - 1 = n + i
    BY <1>1
  <2> HIDE DEF rest, len
  <2> QED
    BY <2>2, <2>3
<1>4. front \o rest = s
  <2> DEFINE both == front \o rest
  <2> HIDE DEF front, rest
  <2>1. /\ both \in Seq(S) /\ Len(both) = n + (len - n)
        /\ \A i \in 1 .. n + (len - n) : both[i] = IF i <= n THEN front[i] ELSE rest[i - n]
    BY <1>2, <1>3, ConcatProperties
  <2>2. n + (len - n) = len
    BY <1>1
  <2> HIDE DEF both
  <2>3. \A i \in 1 .. len : both[i] = s[i]
    <3> SUFFICES ASSUME NEW i \in 1 .. len
                 PROVE  both[i] = s[i]
      OBVIOUS
    <3>1. CASE i <= n
      BY <1>1, <1>2, <2>1, <2>2, <3>1
    <3>2. CASE i > n
      <4>1. i - n \in 1 .. len - n /\ n + (i - n) = i
        BY <1>1, <3>2
      <4>2. both[i] = rest[i - n]
        BY <1>1, <2>1, <2>2, <3>2
      <4> QED
        BY <1>3, <4>1, <4>2
    <3> QED
      BY <1>1, <3>1, <3>2
  <2>4. both = s
    BY <2>1, <2>2, <2>3, SeqEqual
  <2> QED
    BY <2>4 DEF both
<1> QED
  BY <1>2, <1>3, <1>4

\* A prefix agrees at every position it has.
LEMMA PrefixAgrees ==
  ASSUME NEW S, NEW s \in Seq(S), NEW t \in Seq(S)
  PROVE  IsPrefix(s, t) <=> Len(s) <= Len(t) /\ \A i \in 1 .. Len(s) : s[i] = t[i]
<1>1. Len(s) \in Nat /\ Len(t) \in Nat
  BY LenProperties
<1>2. SubSeq(s, 1, Len(s)) \in Seq(S) /\ Len(SubSeq(s, 1, Len(s))) = Len(s)
      /\ \A i \in 1 .. Len(s) : SubSeq(s, 1, Len(s))[i] = s[i]
  BY <1>1, TwoParts
<1>3. CASE Len(s) <= Len(t)
  <2>1. SubSeq(t, 1, Len(s)) \in Seq(S) /\ Len(SubSeq(t, 1, Len(s))) = Len(s)
        /\ \A i \in 1 .. Len(s) : SubSeq(t, 1, Len(s))[i] = t[i]
    BY <1>1, <1>3, TwoParts
  <2> DEFINE ss == SubSeq(s, 1, Len(s))
             tt == SubSeq(t, 1, Len(s))
             n == Len(s)
  <2>2. IsPrefix(s, t) <=> ss = tt
    BY <1>3 DEF IsPrefix
  <2> HIDE DEF ss, tt, n
  <2>3. ss = tt <=> \A i \in 1 .. n : ss[i] = tt[i]
    BY <1>2, <2>1, SeqEqual DEF ss, tt, n
  <2> QED
    BY <1>2, <1>3, <2>1, <2>2, <2>3 DEF ss, tt, n
<1>4. CASE ~(Len(s) <= Len(t))
  BY <1>4 DEF IsPrefix
<1> QED
  BY <1>3, <1>4

\* Nothing comes before a sequence begins.
LEMMA EmptyPrefix ==
  ASSUME NEW S, NEW s \in Seq(S)
  PROVE  <<>> \in Seq(S) /\ IsPrefix(<<>>, s)
<1> DEFINE e == <<>>
<1>1. e \in Seq(S) /\ Len(e) = 0 /\ Len(s) \in Nat
  BY EmptySeq, LenProperties
<1> HIDE DEF e
<1>2. Len(e) <= Len(s) /\ \A i \in 1 .. Len(e) : e[i] = s[i]
  BY <1>1
<1>3. IsPrefix(e, s)
  BY <1>1, <1>2, PrefixAgrees
<1> QED
  BY <1>1, <1>3 DEF e

\* Prefixes of prefixes.
LEMMA PrefixTransitive ==
  ASSUME NEW S, NEW s \in Seq(S), NEW t \in Seq(S), NEW u \in Seq(S),
         IsPrefix(s, t), IsPrefix(t, u)
  PROVE  IsPrefix(s, u)
<1>1. Len(s) \in Nat /\ Len(t) \in Nat /\ Len(u) \in Nat
  BY LenProperties
<1>2. Len(s) <= Len(t) /\ \A i \in 1 .. Len(s) : s[i] = t[i]
  BY PrefixAgrees
<1>3. Len(t) <= Len(u) /\ \A i \in 1 .. Len(t) : t[i] = u[i]
  BY PrefixAgrees
<1>4. Len(s) <= Len(u) /\ \A i \in 1 .. Len(s) : s[i] = u[i]
  BY <1>1, <1>2, <1>3
<1> QED
  BY <1>4, PrefixAgrees

\* A sequence is a prefix of itself and of what is put behind it.
LEMMA PrefixOfLonger ==
  ASSUME NEW S, NEW s \in Seq(S), NEW t \in Seq(S)
  PROVE  IsPrefix(s, s) /\ IsPrefix(s, s \o t)
<1>1. Len(s) \in Nat /\ Len(t) \in Nat
  BY LenProperties
<1>2. /\ s \o t \in Seq(S) /\ Len(s \o t) = Len(s) + Len(t)
      /\ \A i \in 1 .. Len(s) + Len(t) : (s \o t)[i] = IF i <= Len(s) THEN s[i] ELSE t[i - Len(s)]
  BY ConcatProperties
<1>3. Len(s) <= Len(s \o t) /\ \A i \in 1 .. Len(s) : s[i] = (s \o t)[i]
  BY <1>1, <1>2
<1>4. IsPrefix(s, s \o t)
  BY <1>2, <1>3, PrefixAgrees
<1>5. IsPrefix(s, s)
  BY <1>1, PrefixAgrees
<1> QED
  BY <1>4, <1>5

\* The same front ahead of both.
LEMMA PrefixBehind ==
  ASSUME NEW S, NEW f \in Seq(S), NEW s \in Seq(S), NEW t \in Seq(S), IsPrefix(s, t)
  PROVE  IsPrefix(f \o s, f \o t)
<1> DEFINE fs == f \o s
           ft == f \o t
<1>1. Len(f) \in Nat /\ Len(s) \in Nat /\ Len(t) \in Nat
  BY LenProperties
<1>2. Len(s) <= Len(t) /\ \A i \in 1 .. Len(s) : s[i] = t[i]
  BY PrefixAgrees
<1>3. /\ fs \in Seq(S) /\ Len(fs) = Len(f) + Len(s)
      /\ \A i \in 1 .. Len(f) + Len(s) : fs[i] = IF i <= Len(f) THEN f[i] ELSE s[i - Len(f)]
  BY ConcatProperties
<1>4. /\ ft \in Seq(S) /\ Len(ft) = Len(f) + Len(t)
      /\ \A i \in 1 .. Len(f) + Len(t) : ft[i] = IF i <= Len(f) THEN f[i] ELSE t[i - Len(f)]
  BY ConcatProperties
<1> HIDE DEF fs, ft
<1>5. \A i \in 1 .. Len(f) + Len(s) : i > Len(f) => i - Len(f) \in 1 .. Len(s)
  BY <1>1
<1>6. Len(fs) <= Len(ft)
  BY <1>1, <1>2, <1>3, <1>4
<1>7. \A i \in 1 .. Len(f) + Len(s) : fs[i] = ft[i]
  <2> SUFFICES ASSUME NEW i \in 1 .. Len(f) + Len(s)
               PROVE  fs[i] = ft[i]
    OBVIOUS
  <2>1. i \in 1 .. Len(f) + Len(t)
    BY <1>1, <1>2
  <2>2. CASE i <= Len(f)
    BY <1>3, <1>4, <2>1, <2>2
  <2>3. CASE i > Len(f)
    <3>1. fs[i] = s[i - Len(f)] /\ ft[i] = t[i - Len(f)]
      BY <1>1, <1>3, <1>4, <2>1, <2>3
    <3> QED
      BY <1>2, <1>5, <2>3, <3>1
  <2> QED
    BY <1>1, <2>2, <2>3
<1>8. IsPrefix(fs, ft)
  BY <1>3, <1>4, <1>6, <1>7, PrefixAgrees
<1> QED
  BY <1>8 DEF fs, ft

\* A prefix without its front is a prefix of the rest.
LEMMA PrefixOfRest ==
  ASSUME NEW S, NEW s \in Seq(S), NEW t \in Seq(S), IsPrefix(s, t), NEW n \in 0 .. Len(s)
  PROVE  IsPrefix(SubSeq(s, n + 1, Len(s)), SubSeq(t, n + 1, Len(t)))
<1> DEFINE ss == SubSeq(s, n + 1, Len(s))
           tt == SubSeq(t, n + 1, Len(t))
<1>1. Len(s) \in Nat /\ Len(t) \in Nat /\ n \in Nat
  BY LenProperties
<1>2. Len(s) <= Len(t) /\ \A i \in 1 .. Len(s) : s[i] = t[i]
  BY PrefixAgrees
<1>3. n \in 0 .. Len(t)
  BY <1>1, <1>2
<1>4. ss \in Seq(S) /\ Len(ss) = Len(s) - n /\ \A i \in 1 .. Len(s) - n : ss[i] = s[n + i]
  BY TwoParts
<1>5. tt \in Seq(S) /\ Len(tt) = Len(t) - n /\ \A i \in 1 .. Len(t) - n : tt[i] = t[n + i]
  BY <1>3, TwoParts
<1> HIDE DEF ss, tt
<1>6. \A i \in 1 .. Len(s) - n : n + i \in 1 .. Len(s) /\ i \in 1 .. Len(t) - n
  BY <1>1, <1>2
<1>7. Len(ss) <= Len(tt) /\ \A i \in 1 .. Len(ss) : ss[i] = tt[i]
  BY <1>1, <1>2, <1>4, <1>5, <1>6
<1>8. IsPrefix(ss, tt)
  BY <1>4, <1>5, <1>7, PrefixAgrees
<1> QED
  BY <1>8 DEF ss, tt


-----------------------------------------------------------------------------
(***************************************************************************)
(* What may be done to a conversation that is well formed.                 *)
(***************************************************************************)

\* Turns are numbers.
LEMMA TurnsAreNumbers ==
  ASSUME NEW m \in Message PROVE m.turn \in Nat /\ m.run \in Nat
<1>1. MaxTurns \in Nat /\ MaxRuns \in Nat
  BY LoopAssumption
<1> QED
  BY <1>1 DEF Message

\* A later turn.
LEMMA LaterTurn ==
  ASSUME NEW msgs \in Seq(Message), NEW last \in Nat, NEW next \in Nat, last <= next,
         WellFormed(msgs, last)
  PROVE  WellFormed(msgs, next)
<1>1. \A i \in Calls(msgs) : msgs[i].turn \in Nat
  BY TurnsAreNumbers, ElementOfSeq, LenProperties DEF Calls
<1> QED
  BY <1>1 DEF WellFormed

\* Messages that are no calls and no outputs, at the end.
LEMMA PlainAppended ==
  ASSUME NEW msgs \in Seq(Message), NEW last \in Nat, WellFormed(msgs, last),
         NEW m \in Message, m.kind \notin {"calls", "outputs"}
  PROVE  WellFormed(Append(msgs, m), last)
<1> DEFINE n == Len(msgs)
           long == Append(msgs, m)
<1>1. /\ n \in Nat /\ DOMAIN msgs = 1 .. n /\ DOMAIN long = 1 .. n + 1 /\ Len(long) = n + 1
      /\ long[n + 1] = m /\ \A i \in 1 .. n : long[i] = msgs[i]
  BY AppendProperties, LenProperties
<1> HIDE DEF n, long
<1>2. Calls(long) = Calls(msgs) /\ Calls(msgs) \subseteq 1 .. n
  BY <1>1 DEF Calls
<1>3. Paired(long)
  <2> SUFFICES ASSUME NEW i \in 1 .. n + 1
               PROVE  /\ long[i].kind = "calls" => i < n + 1 /\ Matching(long[i], long[i + 1])
                      /\ long[i].kind = "outputs" => i > 1 /\ Matching(long[i - 1], long[i])
    BY <1>1 DEF Paired
  <2>1. CASE i = n + 1
    BY <1>1, <2>1
  <2>2. CASE i \in 1 .. n
    <3>1. /\ msgs[i].kind = "calls" => i < Len(msgs) /\ Matching(msgs[i], msgs[i + 1])
          /\ msgs[i].kind = "outputs" => i > 1 /\ Matching(msgs[i - 1], msgs[i])
      BY <1>1, <2>2 DEF WellFormed, Paired
    <3> QED
      BY <1>1, <2>2, <3>1 DEF n
  <2> QED
    BY <1>1, <2>1, <2>2
<1> QED
  BY <1>1, <1>2, <1>3 DEF WellFormed, long

\* Calls of a new turn, with their outputs.
LEMMA CallsAppended ==
  ASSUME NEW msgs \in Seq(Message), NEW last \in Nat, WellFormed(msgs, last),
         NEW c \in Message, NEW o \in Message, Matching(c, o), last < c.turn
  PROVE  WellFormed(Append(Append(msgs, c), o), c.turn)
<1> DEFINE n == Len(msgs)
           long == Append(Append(msgs, c), o)
<1>1. /\ n \in Nat /\ DOMAIN msgs = 1 .. n /\ DOMAIN long = 1 .. n + 2 /\ Len(long) = n + 2
      /\ long[n + 1] = c /\ long[n + 2] = o /\ \A i \in 1 .. n : long[i] = msgs[i]
  BY AppendProperties, LenProperties
<1>2. c.turn \in Nat /\ \A i \in 1 .. n : msgs[i].turn \in Nat
  BY <1>1, TurnsAreNumbers, ElementOfSeq
<1> HIDE DEF n, long
<1>3. Calls(long) = Calls(msgs) \union {n + 1} /\ Calls(msgs) \subseteq 1 .. n
  BY <1>1 DEF Calls, Matching
<1>4. Paired(long)
  <2> SUFFICES ASSUME NEW i \in 1 .. n + 2
               PROVE  /\ long[i].kind = "calls" => i < n + 2 /\ Matching(long[i], long[i + 1])
                      /\ long[i].kind = "outputs" => i > 1 /\ Matching(long[i - 1], long[i])
    BY <1>1 DEF Paired
  <2>1. CASE i = n + 1
    BY <1>1, <2>1 DEF Matching
  <2>2. CASE i = n + 2
    BY <1>1, <2>2 DEF Matching
  <2>3. CASE i \in 1 .. n
    <3>1. /\ msgs[i].kind = "calls" => i < Len(msgs) /\ Matching(msgs[i], msgs[i + 1])
          /\ msgs[i].kind = "outputs" => i > 1 /\ Matching(msgs[i - 1], msgs[i])
      BY <1>1, <2>3 DEF WellFormed, Paired
    <3> QED
      BY <1>1, <2>3, <3>1 DEF n
  <2> QED
    BY <1>1, <2>1, <2>2, <2>3
<1>5. \A i \in Calls(msgs) : long[i].turn = msgs[i].turn /\ msgs[i].turn < c.turn
  BY <1>1, <1>2, <1>3 DEF WellFormed
<1>6. \A i \in Calls(long) : long[i].turn <= c.turn
  BY <1>1, <1>2, <1>3, <1>5
<1>7. \A i, j \in Calls(long) : long[i].turn = long[j].turn => i = j
  BY <1>1, <1>2, <1>3, <1>5 DEF WellFormed
<1> QED
  BY <1>4, <1>6, <1>7 DEF WellFormed, long

\* What comes in, at the end.
LEMMA HumansAppended ==
  ASSUME NEW old \in Seq(Message), NEW last \in Nat, WellFormed(old, last),
         NEW new \in Seq(Message), \A i \in DOMAIN new : new[i].kind = "human"
  PROVE  WellFormed(old \o new, last)
<1> DEFINE n == Len(old)
           k == Len(new)
           long == old \o new
<1>1. /\ n \in Nat /\ DOMAIN old = 1 .. n /\ k \in Nat
      /\ DOMAIN long = 1 .. n + k /\ Len(long) = n + k
      /\ \A i \in 1 .. n : long[i] = old[i]
      /\ \A i \in 1 .. n + k : i > n => long[i] = new[i - n] /\ i - n \in DOMAIN new
  BY ConcatProperties, LenProperties
<1>2. \A i \in 1 .. n + k : i > n => long[i].kind = "human"
  BY <1>1
<1> HIDE DEF n, k, long
<1>3. Calls(long) = Calls(old) /\ Calls(old) \subseteq 1 .. n
  BY <1>1, <1>2 DEF Calls
<1>4. Paired(long)
  <2> SUFFICES ASSUME NEW i \in 1 .. n + k
               PROVE  /\ long[i].kind = "calls" => i < n + k /\ Matching(long[i], long[i + 1])
                      /\ long[i].kind = "outputs" => i > 1 /\ Matching(long[i - 1], long[i])
    BY <1>1 DEF Paired
  <2>1. CASE i > n
    BY <1>2, <2>1
  <2>2. CASE i \in 1 .. n
    <3>1. /\ old[i].kind = "calls" => i < Len(old) /\ Matching(old[i], old[i + 1])
          /\ old[i].kind = "outputs" => i > 1 /\ Matching(old[i - 1], old[i])
      BY <1>1, <2>2 DEF WellFormed, Paired
    <3> QED
      BY <1>1, <2>2, <3>1 DEF n
  <2> QED
    BY <1>1, <2>1, <2>2
<1> QED
  BY <1>1, <1>3, <1>4 DEF WellFormed, long

\* The end of a conversation, unless it begins with outputs.
LEMMA FrontFolded ==
  ASSUME NEW msgs \in Seq(Message), NEW last \in Nat, WellFormed(msgs, last),
         NEW n \in 0 .. Len(msgs), n < Len(msgs) => msgs[n + 1].kind # "outputs"
  PROVE  WellFormed(SubSeq(msgs, n + 1, Len(msgs)), last)
<1> DEFINE rest == SubSeq(msgs, n + 1, Len(msgs))
           k == Len(msgs) - n
<1>1. /\ Len(msgs) \in Nat /\ DOMAIN msgs = 1 .. Len(msgs) /\ n \in Nat /\ k \in Nat
      /\ Len(msgs) = n + k
  BY LenProperties
<1>2. /\ DOMAIN rest = 1 .. k /\ Len(rest) = k
      /\ \A i \in 1 .. k : rest[i] = msgs[n + i] /\ n + i \in DOMAIN msgs
  <2>1. rest \in Seq(Message) /\ Len(rest) = k /\ \A i \in 1 .. k : rest[i] = msgs[n + i]
    BY TwoParts
  <2>2. \A i \in 1 .. k : n + i \in 1 .. Len(msgs)
    BY <1>1
  <2> HIDE DEF rest, k
  <2> QED
    BY <1>1, <2>1, <2>2, LenProperties
<1> HIDE DEF rest, k
<1>3. \A i \in Calls(rest) : i \in 1 .. k /\ n + i \in Calls(msgs) /\ rest[i] = msgs[n + i]
  BY <1>2 DEF Calls
<1>4. Paired(rest)
  <2> SUFFICES ASSUME NEW i \in 1 .. k
               PROVE  /\ rest[i].kind = "calls" => i < k /\ Matching(rest[i], rest[i + 1])
                      /\ rest[i].kind = "outputs" => i > 1 /\ Matching(rest[i - 1], rest[i])
    BY <1>2 DEF Paired
  <2>1. /\ msgs[n + i].kind = "calls" => n + i < Len(msgs) /\ Matching(msgs[n + i], msgs[n + i + 1])
        /\ msgs[n + i].kind = "outputs" => n + i > 1 /\ Matching(msgs[n + i - 1], msgs[n + i])
    BY <1>2 DEF WellFormed, Paired
  <2>2. rest[i].kind = "calls" => i < k /\ Matching(rest[i], rest[i + 1])
    BY <1>1, <1>2, <2>1
  <2>3. rest[i].kind = "outputs" => i > 1
    BY <1>1, <1>2
  <2>4. rest[i].kind = "outputs" => Matching(rest[i - 1], rest[i])
    <3>1. i > 1 => i - 1 \in 1 .. k /\ rest[i - 1] = msgs[n + i - 1]
      BY <1>1, <1>2
    <3> QED
      BY <1>2, <2>1, <2>3, <3>1
  <2> QED
    BY <2>2, <2>3, <2>4
<1>5. \A i, j \in Calls(rest) : rest[i].turn = rest[j].turn => i = j
  <2> SUFFICES ASSUME NEW i \in Calls(rest), NEW j \in Calls(rest), rest[i].turn = rest[j].turn
               PROVE  i = j
    OBVIOUS
  <2>1. n + i = n + j
    BY <1>3 DEF WellFormed
  <2> QED
    BY <1>1, <1>3, <2>1
<1> QED
  BY <1>3, <1>4, <1>5 DEF WellFormed, rest
-----------------------------------------------------------------------------
(***************************************************************************)
(* A fold cuts the conversation in two.                                    *)
(***************************************************************************)

\* The messages at the positions of a stretch.
LEMMA AtStretch ==
  ASSUME messages \in Seq(Message), NEW a \in Nat, NEW b \in Nat,
         1 <= a, a <= b + 1, b <= Len(messages)
  PROVE  At(a .. b) = SubSeq(messages, a, b)
<1> DEFINE n == b - a + 1
           part == SubSeq(messages, a, b)
<1>1. n \in Nat /\ Cardinality(a .. b) = n
  <2>1. Cardinality(a .. b) = IF a > b THEN 0 ELSE b - a + 1
    BY FS_Interval
  <2>2. (IF a > b THEN 0 ELSE b - a + 1) = b - a + 1 /\ b - a + 1 \in Nat
    OBVIOUS
  <2> QED
    BY <2>1, <2>2
<1>2. \A i \in a .. b : Rank(i, a .. b) = i - a + 1
  <2> SUFFICES ASSUME NEW i \in a .. b
               PROVE  Rank(i, a .. b) = i - a + 1
    OBVIOUS
  <2>1. {j \in a .. b : j <= i} = a .. i
    OBVIOUS
  <2>2. Cardinality(a .. i) = IF a > i THEN 0 ELSE i - a + 1
    BY FS_Interval
  <2>3. ~(a > i)
    OBVIOUS
  <2> QED
    BY <2>1, <2>2, <2>3 DEF Rank
<1>3. \A k \in 1 .. n : (CHOOSE i \in a .. b : Rank(i, a .. b) = k) = a + k - 1
  <2> SUFFICES ASSUME NEW k \in 1 .. n
               PROVE  (CHOOSE i \in a .. b : Rank(i, a .. b) = k) = a + k - 1
    OBVIOUS
  <2>1. a + k - 1 \in a .. b /\ (a + k - 1) - a + 1 = k
    OBVIOUS
  <2>2. \A i \in a .. b : i - a + 1 = k => i = a + k - 1
    OBVIOUS
  <2>3. \A i \in a .. b : Rank(i, a .. b) = k <=> i = a + k - 1
    BY <1>2, <2>1, <2>2
  <2> QED
    BY <2>1, <2>3
<1>4. At(a .. b) = [k \in 1 .. n |-> messages[a + k - 1]]
  <2> HIDE DEF n
  <2>1. At(a .. b) = [k \in 1 .. n |-> messages[CHOOSE i \in a .. b : Rank(i, a .. b) = k]]
    BY <1>1 DEF At
  <2> QED
    BY <1>3, <2>1
<1>5. /\ part \in Seq(Message) /\ Len(part) = n
      /\ \A k \in 1 .. n : part[k] = messages[a + k - 1]
  BY Stretch
<1>6. part \in [1 .. n -> Message]
  BY <1>5, LenProperties
<1> HIDE DEF part, n
<1>7. part = [k \in 1 .. n |-> messages[a + k - 1]]
  BY <1>5, <1>6
<1> QED
  BY <1>4, <1>7 DEF part

\* The outputs that leave the head are the first of it: their calls end the tail.
LEMMA OneOrphan ==
  ASSUME messages \in Seq(Message), NEW last, WellFormed(messages, last),
         NEW split \in 0 .. Len(messages)
  PROVE  Orphans(split) =
           IF split < Len(messages) /\ messages[split + 1].kind = "outputs"
           THEN {split + 1} ELSE {}
<1>1. Len(messages) \in Nat /\ DOMAIN messages = 1 .. Len(messages) /\ split \in Nat
  BY LenProperties
<1>2. \A i \in 1 .. Len(messages) : messages[i].kind = "outputs" =>
         i > 1 /\ Matching(messages[i - 1], messages[i])
  BY <1>1 DEF WellFormed, Paired
<1>3. \A i \in Orphans(split) : i = split + 1
  <2> SUFFICES ASSUME NEW i \in Orphans(split), i # split + 1
               PROVE  FALSE
    OBVIOUS
  <2>1. i \in split + 1 .. Len(messages) /\ messages[i].kind = "outputs"
        /\ ~Answered(split, messages[i])
    BY DEF Orphans, InHead
  <2>2. i > 1 /\ Matching(messages[i - 1], messages[i])
    BY <1>1, <1>2, <2>1
  <2>3. i - 1 \in split + 1 .. Len(messages)
    BY <1>1, <2>1
  <2> QED
    BY <2>1, <2>2, <2>3 DEF Answered, InHead, Matching
<1>4. Orphans(split) \subseteq InHead(split)
      /\ \A i \in Orphans(split) : messages[i].kind = "outputs"
  BY DEF Orphans
<1>5. ASSUME split < Len(messages), messages[split + 1].kind = "outputs"
      PROVE  split + 1 \in Orphans(split)
  <2>1. split + 1 \in InHead(split)
    BY <1>1, <1>5 DEF InHead
  <2>2. split > 0 /\ Matching(messages[split], messages[split + 1])
    BY <1>1, <1>2, <1>5
  <2>3. ASSUME Answered(split, messages[split + 1])
        PROVE  FALSE
    <3>1. PICK i \in InHead(split) :
            messages[i].kind = "calls" /\ messages[i].turn = messages[split + 1].turn
      BY <2>3 DEF Answered
    <3>2. i \in Calls(messages) /\ split \in Calls(messages)
      BY <1>1, <2>2, <3>1 DEF Calls, InHead, Matching
    <3>3. i = split
      BY <2>2, <3>1, <3>2 DEF WellFormed, Matching
    <3> QED
      BY <1>1, <3>1, <3>3 DEF InHead
  <2> QED
    BY <1>5, <2>1, <2>3 DEF Orphans
<1> QED
  BY <1>1, <1>3, <1>4, <1>5 DEF InHead

\* What is folded is a front of the messages, what is kept the rest, and the rest
\* does not begin with outputs.
LEMMA FoldCuts ==
  ASSUME messages \in Seq(Message), NEW last, WellFormed(messages, last),
         NEW split \in 0 .. Len(messages)
  PROVE  \E n \in 0 .. Len(messages) :
           /\ Folded(split) = SubSeq(messages, 1, n)
           /\ Kept(split) = SubSeq(messages, n + 1, Len(messages))
           /\ n < Len(messages) => messages[n + 1].kind # "outputs"
<1>1. Len(messages) \in Nat /\ DOMAIN messages = 1 .. Len(messages) /\ split \in Nat
  BY LenProperties
<1>2. ASSUME NEW n \in 0 .. Len(messages),
             1 .. split \union Orphans(split) = 1 .. n,
             InHead(split) \ Orphans(split) = n + 1 .. Len(messages)
      PROVE  /\ Folded(split) = SubSeq(messages, 1, n)
             /\ Kept(split) = SubSeq(messages, n + 1, Len(messages))
  <2>1. At(1 .. n) = SubSeq(messages, 1, n)
    BY <1>1, AtStretch
  <2>2. At(n + 1 .. Len(messages)) = SubSeq(messages, n + 1, Len(messages))
    <3> DEFINE a == n + 1
               b == Len(messages)
    <3>1. a \in Nat /\ b \in Nat /\ 1 <= a /\ a <= b + 1 /\ b <= Len(messages)
      BY <1>1
    <3> HIDE DEF a, b
    <3>2. At(a .. b) = SubSeq(messages, a, b)
      BY <3>1, AtStretch
    <3> QED
      BY <3>2 DEF a, b
  <2> QED
    BY <1>2, <2>1, <2>2 DEF Folded, Kept
<1>3. CASE split < Len(messages) /\ messages[split + 1].kind = "outputs"
  <2> DEFINE n == split + 1
  <2>1. n \in 0 .. Len(messages)
    BY <1>1, <1>3
  <2>2. Orphans(split) = {n}
    BY <1>3, OneOrphan
  <2>3. 1 .. split \union {n} = 1 .. n /\ InHead(split) \ {n} = n + 1 .. Len(messages)
    BY <1>1, <1>3 DEF InHead
  <2>4. n < Len(messages) => messages[n + 1].kind # "outputs"
    <3> SUFFICES ASSUME n < Len(messages), messages[n + 1].kind = "outputs"
                 PROVE  FALSE
      OBVIOUS
    <3>1. n + 1 \in 1 .. Len(messages) /\ (n + 1) - 1 = n
      BY <1>1
    <3>2. Matching(messages[n], messages[n + 1])
      BY <1>1, <3>1 DEF WellFormed, Paired
    <3> QED
      BY <1>3, <3>2 DEF Matching
  <2> HIDE DEF n
  <2> QED
    BY <1>2, <2>1, <2>2, <2>3, <2>4
<1>4. CASE ~(split < Len(messages) /\ messages[split + 1].kind = "outputs")
  <2>1. Orphans(split) = {}
    BY <1>4, OneOrphan
  <2>2. 1 .. split \union {} = 1 .. split /\ InHead(split) \ {} = split + 1 .. Len(messages)
    BY DEF InHead
  <2> QED
    BY <1>2, <1>4, <2>1, <2>2
<1> QED
  BY <1>3, <1>4

\* The ids a record of an answer starts from.
LEMMA ResolvedAreMessages ==
  ASSUME messages \in Seq(Message), ids \in Seq(Message), IsPrefix(ids, messages)
  PROVE  ResolvedIds = messages
<1>1. Len(ids) <= Len(messages) /\ \A i \in 1 .. Len(ids) : ids[i] = messages[i]
  BY PrefixAgrees
<1>2. DOMAIN ids = 1 .. Len(ids) /\ messages \in [DOMAIN messages -> Message]
  BY LenProperties
<1> QED
  BY <1>1, <1>2 DEF ResolvedIds

-----------------------------------------------------------------------------
(***************************************************************************)
(* LoopInv is an invariant.                                                *)
(***************************************************************************)

\* A message of the current run is one.
LEMMA NewIsMessage ==
  ASSUME TypesOK, pc # "idle", NEW kind \in Kinds
  PROVE  New(kind) \in Message /\ New(kind).kind = kind
<1>1. MaxRuns \in Nat /\ MaxTurns \in Nat
  BY LoopAssumption
<1>2. run \in 1 .. MaxRuns /\ turn \in 0 .. MaxTurns
  BY <1>1 DEF TypesOK, TypeOK
<1> QED
  BY <1>2 DEF New, Message

\* The empty conversation.
LEMMA EmptyWellFormed ==
  ASSUME NEW last PROVE WellFormed(<<>>, last)
BY DEF WellFormed, Paired, Calls

\* A thread without a conversation.
LEMMA LoopStarts == Init => LoopInv
<1> SUFFICES ASSUME Init PROVE LoopInv
  OBVIOUS
<1> USE DEF Init
<1>1. TypesOK
  <2>1. MaxRuns \in Nat /\ MaxTurns \in Nat /\ MaxBuffered \in Nat
    BY LoopAssumption
  <2>2. <<>> \in Seq(Message)
    BY EmptySeq
  <2>3. saved \in Conversation
    BY <2>2 DEF Conversation
  <2>4. run \in 0 .. MaxRuns /\ unread \in 0 .. run /\ turn \in 0 .. MaxTurns /\ count \in Nat
        /\ buffered \in 0 .. MaxBuffered
    BY <2>1
  <2> QED
    BY <2>2, <2>3, <2>4 DEF TypesOK, TypeOK
<1>2. SavedOK
  BY EmptyWellFormed DEF SavedOK
<1>3. WorkOK /\ IdsOK /\ ExitsOK /\ KeptOK
  BY DEF WorkOK, IdsOK, ExitsOK, KeptOK, ReturnedIsSaved, Stages, Recorded, Calling
<1> QED
  BY <1>1, <1>2, <1>3 DEF LoopInv

\* The steps that leave the conversation, saved and worked on, alone.
QuietStep ==
  \/ LoadFails \/ SkipSummarize \/ StartFold
  \/ StartModelCall \/ CallModel \/ ModelCancelled \/ Cancel \/ ModelFails \/ RecordError
  \/ CallTools \/ ToolsReturn \/ EndTurn
  \/ Throw \/ Terminate \/ EndRun \/ Crash

\* A stage that a quiet step leads to asks no more than the one it comes from.
LEMMA QuietSteps ==
  ASSUME LoopInv, QuietStep PROVE LoopInv'
<1> USE DEF LoopInv, QuietStep, Route, llmState, signals
<1>1. UNCHANGED <<saved, run, config, summary, messages, ids, turn, buffered>>
  BY DEF LoadFails, SkipSummarize, StartFold, StartModelCall, CallModel, ModelCancelled, Cancel,
         ModelFails, RecordError, CallTools, ToolsReturn, EndTurn, Throw, Terminate, EndRun, Crash
<1>2. TypesOK'
  <2>1. run \in Nat /\ unread \in 0 .. run /\ terminate \in BOOLEAN
    BY LoopAssumption DEF TypesOK, TypeOK
  <2>2. unread' \in {unread, run} /\ count' = count
    BY DEF LoadFails, SkipSummarize, StartFold, StartModelCall, CallModel, ModelCancelled, Cancel,
         ModelFails, RecordError, CallTools, ToolsReturn, EndTurn, Throw, Terminate, EndRun, Crash
  <2>3. answer' \in {answer, "none"} /\ event' \in {event, "running", "cancelled", "error"}
    BY DEF LoadFails, SkipSummarize, StartFold, StartModelCall, CallModel, ModelCancelled, Cancel,
         ModelFails, RecordError, CallTools, ToolsReturn, EndTurn, Throw, Terminate, EndRun, Crash
  <2>4. terminate' \in {terminate, TRUE} /\ finish' \in {finish, TRUE}
    BY DEF LoadFails, SkipSummarize, StartFold, StartModelCall, CallModel, ModelCancelled, Cancel,
         ModelFails, RecordError, CallTools, ToolsReturn, EndTurn, Throw, Terminate, EndRun, Crash
  <2>5. pc \in Stages \union {"returned", "threw"}
        /\ pc' \in Stages \union {"idle", "returned", "threw"}
    BY DEF LoadFails, SkipSummarize, StartFold, StartModelCall, CallModel, ModelCancelled, Cancel,
         ModelFails, RecordError, CallTools, ToolsReturn, EndTurn, Throw, Terminate, EndRun, Crash,
         Stages, MayCallModel, MayKeepOutputs
  <2>6. pc # "idle"
    BY <2>5 DEF Stages
  <2>7. unread' \in 0 .. run' /\ count' \in Nat
    BY <1>1, <2>1, <2>2 DEF TypesOK, TypeOK
  <2>8. /\ answer' \in {"none", "answer", "calls"}
        /\ event' \in {"none", "running", "success", "cancelled", "error"}
        /\ terminate' \in BOOLEAN /\ finish' \in BOOLEAN
    BY <2>3, <2>4 DEF TypesOK, TypeOK
  <2>9. /\ saved' \in Conversation /\ run' \in 0 .. MaxRuns /\ config' \in Configs
        /\ summary' \in Seq(Message) /\ messages' \in Seq(Message) /\ ids' \in Seq(Message)
        /\ turn' \in 0 .. MaxTurns /\ buffered' \in 0 .. MaxBuffered
    BY <1>1 DEF TypesOK, TypeOK
  <2>10. TypeOK'
    BY <2>5, <2>7, <2>8, <2>9 DEF TypeOK
  <2> QED
    BY <1>1, <2>6, <2>10 DEF TypesOK
<1>3. SavedOK'
  BY <1>1 DEF SavedOK
<1>4. pc = "record" => WellFormed(messages, turn)
  <2> SUFFICES ASSUME pc = "record" PROVE WellFormed(messages, turn)
    OBVIOUS
  <2>1. WellFormed(messages, turn - 1) /\ turn > 0 /\ turn \in Nat /\ messages \in Seq(Message)
    BY LoopAssumption DEF WorkOK, TypesOK, TypeOK
  <2>2. turn - 1 \in Nat /\ turn - 1 <= turn
    BY <2>1
  <2> QED
    BY <2>1, <2>2, LaterTurn
<1>5. /\ pc' \in Stages => pc \in Stages
      /\ pc' = "record" => pc = "record" /\ answer' = answer
      /\ pc' = "load" => pc = "load"
      /\ pc' \in Calling => pc \in Calling
      /\ pc' \in Recorded => pc \in Recorded
      /\ pc' \in Stages \ Calling => pc \in Stages \ Calling
  BY DEF ExitsOK,  LoadFails, SkipSummarize, StartFold, StartModelCall, CallModel, ModelCancelled, Cancel,
         ModelFails, RecordError, CallTools, ToolsReturn, EndTurn, Throw, Terminate, EndRun, Crash,
         Stages, Calling, Recorded, MayCallModel, MayKeepOutputs
<1>6. WorkOK'
  BY <1>1, <1>4, <1>5 DEF WorkOK, New
<1>7. IdsOK'
  BY <1>1, <1>5 DEF IdsOK
<1>8. ExitsOK'
  <2>1. pc' = "cancel" => terminate'
    BY DEF LoadFails, SkipSummarize, StartFold, StartModelCall, CallModel, ModelCancelled, Cancel,
         ModelFails, RecordError, CallTools, ToolsReturn, EndTurn, Throw, Terminate, EndRun, Crash,
         ExitsOK, Stages, MayCallModel, MayKeepOutputs
  <2>2. pc' = "enforceTools" => pc = "enforceTools"
    BY DEF LoadFails, SkipSummarize, StartFold, StartModelCall, CallModel, ModelCancelled, Cancel,
         ModelFails, RecordError, CallTools, ToolsReturn, EndTurn, Throw, Terminate, EndRun, Crash,
         Stages, MayCallModel, MayKeepOutputs
  <2>3. ASSUME pc' = "returned", ~terminate'
        PROVE  pc = "enforceTools"
    <3>1. CASE LoadFails \/ SkipSummarize \/ StartFold \/ StartModelCall \/ CallModel
      BY <2>3, <3>1 DEF LoadFails, SkipSummarize, StartFold, StartModelCall, CallModel
    <3>2. CASE ModelCancelled \/ Cancel \/ ModelFails \/ RecordError
      BY <2>3, <3>2 DEF ModelCancelled, Cancel, ModelFails, RecordError
    <3>3. CASE CallTools \/ EndTurn
      BY <2>3, <3>3 DEF CallTools, EndTurn
    <3>4. CASE ToolsReturn
      BY <2>3, <3>4 DEF ToolsReturn, MayKeepOutputs
    <3>5. CASE Throw \/ Terminate \/ EndRun \/ Crash
      BY <2>3, <3>5 DEF Throw, Terminate, EndRun, Crash, Stages
    <3> QED
      BY <3>1, <3>2, <3>3, <3>4, <3>5
  <2> QED
    BY <1>1, <2>1, <2>2, <2>3 DEF ExitsOK, ReturnedIsSaved, WorkingState
<1>9. KeptOK'
  <2>1. unread' = unread \/ unread' = run
    BY DEF LoadFails, SkipSummarize, StartFold, StartModelCall, CallModel, ModelCancelled, Cancel,
         ModelFails, RecordError, CallTools, ToolsReturn, EndTurn, Throw, Terminate, EndRun, Crash
  <2>2. pc' \in Stages \ {"load"} => pc # "load" \/ unread' = run
    BY DEF LoadFails, SkipSummarize, StartFold, StartModelCall, CallModel, ModelCancelled, Cancel,
         ModelFails, RecordError, CallTools, ToolsReturn, EndTurn, Throw, Terminate, EndRun, Crash,
         Stages, MayCallModel, MayKeepOutputs
  <2> QED
    BY <1>1, <1>5, <2>1, <2>2 DEF KeptOK, WorkingState
<1> QED
  BY <1>2, <1>3, <1>6, <1>7, <1>8, <1>9

\* What holds of the variables the next lemmas are about.
LEMMA LoopFacts ==
  ASSUME LoopInv
  PROVE  /\ messages \in Seq(Message) /\ ids \in Seq(Message) /\ summary \in Seq(Message)
         /\ saved \in Conversation /\ saved.messages \in Seq(Message)
         /\ saved.summary \in Seq(Message) /\ saved.ids \in Seq(Message)
         /\ run \in Nat /\ turn \in Nat /\ count \in Nat /\ buffered \in Nat
         /\ WorkingState \in Conversation
<1>1. /\ messages \in Seq(Message) /\ ids \in Seq(Message) /\ summary \in Seq(Message)
      /\ saved \in Conversation
  BY DEF LoopInv, TypesOK, TypeOK
<1>2. run \in Nat /\ turn \in Nat /\ count \in Nat /\ buffered \in Nat
  BY LoopAssumption DEF LoopInv, TypesOK, TypeOK
<1> QED
  BY <1>1, <1>2 DEF Conversation, WorkingState

\* A message behind the others loses nothing of the conversation.
LEMMA MessageAppended ==
  ASSUME LoopInv, NEW m \in Message, messages' = Append(messages, m),
         UNCHANGED <<saved, summary, run, unread>>, pc \in Stages \ {"load"}
  PROVE  /\ messages' \in Seq(Message)
         /\ IsPrefix(messages, messages')
         /\ KeptOK'
<1>1. /\ messages \in Seq(Message) /\ summary \in Seq(Message)
      /\ saved.summary \in Seq(Message) /\ saved.messages \in Seq(Message)
  BY LoopFacts
<1>2. messages' = messages \o <<m>> /\ <<m>> \in Seq(Message) /\ messages' \in Seq(Message)
  BY <1>1, AppendIsConcat, AppendProperties
<1>3. IsPrefix(messages, messages')
  BY <1>1, <1>2, PrefixOfLonger
<1>4. IsPrefix(summary \o messages, summary \o messages')
  BY <1>1, <1>2, <1>3, PrefixBehind
<1>5. /\ saved.summary \o saved.messages \in Seq(Message)
      /\ summary \o messages \in Seq(Message) /\ summary \o messages' \in Seq(Message)
  BY <1>1, <1>2, ConcatProperties
<1>6. unread = run \/ IsPrefix(saved.summary \o saved.messages, summary \o messages)
  BY DEF LoopInv, KeptOK, Content, WorkingState
<1>7. unread = run \/ IsPrefix(saved.summary \o saved.messages, summary \o messages')
  BY <1>4, <1>5, <1>6, PrefixTransitive
<1>8. KeptOK'
  BY <1>7 DEF KeptOK, Content, WorkingState
<1> QED
  BY <1>2, <1>3, <1>8

\* The message a run begins with.
LEMMA RunStarts ==
  ASSUME LoopInv, StartRun PROVE LoopInv'
<1> DEFINE m == [kind |-> "human", run |-> run + 1, turn |-> turn]
<1>1. m \in Message
  BY LoopAssumption DEF LoopInv, TypesOK, TypeOK, StartRun, Message, Kinds
<1>2. messages' = <<m>> /\ messages' \in Seq(Message) /\ m.kind = "human"
  BY <1>1 DEF StartRun
<1> HIDE DEF m
<1>3. pc' = "load" /\ ids' = <<>> /\ summary' = <<>> /\ UNCHANGED <<saved, turn>>
  BY DEF StartRun
<1>4. WellFormed(messages', turn)
  <2>1. <<>> \in Seq(Message) /\ messages' = Append(<<>>, m)
    BY <1>1, <1>2
  <2>2. turn \in Nat
    BY LoopFacts
  <2> QED
    BY <1>1, <1>2, <2>1, <2>2, EmptyWellFormed, PlainAppended
<1>5. TypesOK'
  <2>1. run' \in 0 .. MaxRuns /\ run' > 0 /\ unread' \in 0 .. run' /\ config' \in Configs
    BY LoopAssumption DEF LoopInv, TypesOK, TypeOK, StartRun
  <2>2. saved' \in Conversation /\ turn' \in 0 .. MaxTurns /\ buffered' \in 0 .. MaxBuffered
        /\ answer' \in {"none", "answer", "calls"}
    BY DEF LoopInv, TypesOK, TypeOK, StartRun
  <2>3. pc' \in Stages /\ count' \in Nat /\ terminate' = FALSE /\ finish' = FALSE
        /\ event' = "none"
    BY DEF StartRun, Stages
  <2>4. ids' \in Seq(Message) /\ summary' \in Seq(Message)
    BY <1>3, EmptySeq
  <2>5. TypeOK'
    BY <1>2, <2>1, <2>2, <2>3, <2>4 DEF TypeOK
  <2> QED
    BY <2>1, <2>5 DEF TypesOK
<1>6. SavedOK'
  BY <1>3 DEF SavedOK, LoopInv
<1>7. WorkOK'
  BY <1>2, <1>3, <1>4 DEF WorkOK, Calling
<1>8. IdsOK'
  <2>1. IsPrefix(<<>>, messages')
    BY <1>2, EmptyPrefix
  <2> QED
    BY <1>3, <2>1 DEF IdsOK, Recorded, Calling
<1>9. ExitsOK' /\ KeptOK'
  BY <1>3 DEF ExitsOK, ReturnedIsSaved, KeptOK
<1> QED
  BY <1>5, <1>6, <1>7, <1>8, <1>9 DEF LoopInv

\* What is loaded is put ahead of what came in.
LEMMA SavedIsLoaded ==
  ASSUME LoopInv, Load PROVE LoopInv'
<1>1. /\ messages' = saved.messages \o messages /\ summary' = saved.summary
      /\ pc = "load" /\ ids = <<>> /\ ids' = saved.ids \o ids
      /\ pc' = IF terminate THEN "returned" ELSE "summarize"
      /\ UNCHANGED <<saved, run, unread, config, count, answer, turn, event, terminate, finish, buffered>>
  BY DEF LoopInv, WorkOK, Load, Loaded, Route, signals
<1>2. /\ messages \in Seq(Message) /\ saved.messages \in Seq(Message)
      /\ saved.summary \in Seq(Message) /\ turn \in Nat
  BY LoopFacts
<1>3. messages' \in Seq(Message) /\ IsPrefix(saved.messages, messages')
  BY <1>1, <1>2, ConcatProperties, PrefixOfLonger
<1>4. ids' = saved.messages
  <2>1. saved.ids = saved.messages
    BY DEF LoopInv, SavedOK
  <2> QED
    BY <1>1, <1>2, <2>1, ConcatEmptySeq
<1>5. WellFormed(messages', turn)
  BY <1>1, <1>2, HumansAppended DEF LoopInv, SavedOK, WorkOK
<1>6. pc' \in {"summarize", "returned"} /\ (pc' = "returned" => terminate')
  BY <1>1
<1>7. TypesOK'
  <2>1. pc' \in Stages \union {"idle", "returned", "threw"}
    BY <1>6 DEF Stages
  <2>2. run > 0
    BY <1>1 DEF LoopInv, TypesOK
  <2> QED
    BY <1>1, <1>2, <1>3, <1>4, <2>1, <2>2 DEF LoopInv, TypesOK, TypeOK
<1>8. SavedOK'
  BY <1>1 DEF SavedOK, LoopInv
<1>9. WorkOK'
  BY <1>1, <1>5, <1>6 DEF WorkOK, Stages, Calling
<1>10. IdsOK'
  BY <1>3, <1>4, <1>6 DEF IdsOK, Stages, Recorded, Calling
<1>11. ExitsOK'
  BY <1>6 DEF ExitsOK, ReturnedIsSaved
<1>12. KeptOK'
  <2>1. IsPrefix(saved.summary \o saved.messages, saved.summary \o messages')
    BY <1>2, <1>3, PrefixBehind
  <2> QED
    BY <1>1, <2>1 DEF KeptOK, Content, WorkingState
<1> QED
  BY <1>7, <1>8, <1>9, <1>10, <1>11, <1>12 DEF LoopInv

\* A fold moves the front of the messages behind the summary.
LEMMA FrontIsFolded ==
  ASSUME LoopInv, Fold PROVE LoopInv'
<1>1. PICK split \in 0 .. Len(messages) :
        /\ summary' = summary \o Folded(split)
        /\ messages' = Kept(split)
        /\ ids' = IdsAfterFold(split)
  BY DEF Fold
<1>2. /\ pc = "fold" /\ count' = 0
      /\ pc' = IF terminate THEN "returned" ELSE "call_model"
      /\ UNCHANGED <<saved, run, unread, config, answer, turn, event, terminate, finish, buffered>>
  BY DEF Fold, Route, signals, CountAfterFold
<1>3. messages \in Seq(Message) /\ ids \in Seq(Message) /\ summary \in Seq(Message) /\ turn \in Nat
  BY LoopFacts
<1>4. WellFormed(messages, turn)
  BY <1>2 DEF LoopInv, WorkOK, Stages, Calling
<1>5. PICK n \in 0 .. Len(messages) :
        /\ Folded(split) = SubSeq(messages, 1, n)
        /\ Kept(split) = SubSeq(messages, n + 1, Len(messages))
        /\ n < Len(messages) => messages[n + 1].kind # "outputs"
  BY <1>3, <1>4, FoldCuts
<1> DEFINE front == SubSeq(messages, 1, n)
           rest == SubSeq(messages, n + 1, Len(messages))
<1>6. /\ front \in Seq(Message) /\ Len(front) = n
      /\ rest \in Seq(Message) /\ front \o rest = messages
  BY <1>3, TwoParts
<1>7. WellFormed(rest, turn)
  BY <1>3, <1>4, <1>5, FrontFolded
<1>8. ids' \in Seq(Message) /\ IsPrefix(ids', rest)
  <2>1. ids' = IF n >= Len(ids) THEN <<>> ELSE SubSeq(ids, n + 1, Len(ids))
    BY <1>1, <1>5, <1>6 DEF IdsAfterFold
  <2>2. IsPrefix(ids, messages)
    BY <1>2 DEF LoopInv, IdsOK, Stages
  <2>3. Len(ids) \in Nat /\ Len(messages) \in Nat
    BY <1>3, LenProperties
  <2>4. CASE n >= Len(ids)
    BY <1>6, <2>1, <2>4, EmptyPrefix
  <2>5. CASE n < Len(ids)
    <3>1. n \in 0 .. Len(ids)
      BY <2>3, <2>5
    <3>2. ids' = SubSeq(ids, n + 1, Len(ids))
      BY <2>1, <2>3, <2>5
    <3> QED
      BY <1>3, <2>2, <3>1, <3>2, PrefixOfRest, TwoParts
  <2> QED
    BY <2>3, <2>4, <2>5
<1>9. messages' = rest /\ summary' = summary \o front
  BY <1>1, <1>5
<1> HIDE DEF front, rest
<1>10. summary' \in Seq(Message) /\ summary' \o messages' = summary \o messages
  <2>1. summary \o front \in Seq(Message)
    BY <1>3, <1>6, ConcatProperties
  <2>2. summary \in Seq(Message) /\ front \in Seq(Message) /\ rest \in Seq(Message)
    BY <1>3, <1>6
  <2>3. (summary \o front) \o rest = summary \o (front \o rest)
    BY ONLY <2>2, ConcatAssociative
  <2> QED
    BY <1>6, <1>9, <2>1, <2>3
<1>11. pc' \in {"call_model", "returned"} /\ (pc' = "returned" => terminate')
  BY <1>2
<1>12. TypesOK'
  <2>1. pc' \in Stages \union {"idle", "returned", "threw"} /\ count' \in Nat
    BY <1>2, <1>11 DEF Stages
  <2>2. run > 0
    BY <1>2 DEF LoopInv, TypesOK
  <2>3. messages' \in Seq(Message)
    BY <1>6, <1>9
  <2> QED
    BY <1>2, <1>8, <1>10, <2>1, <2>2, <2>3 DEF LoopInv, TypesOK, TypeOK
<1>13. SavedOK'
  BY <1>2 DEF SavedOK, LoopInv
<1>14. WorkOK'
  BY <1>2, <1>7, <1>9, <1>11 DEF WorkOK, Stages, Calling
<1>15. IdsOK'
  BY <1>8, <1>9, <1>11 DEF IdsOK, Stages, Recorded, Calling
<1>16. ExitsOK'
  BY <1>11 DEF ExitsOK, ReturnedIsSaved
<1>17. KeptOK'
  <2>1. unread = run \/ IsPrefix(saved.summary \o saved.messages, summary \o messages)
    BY <1>2 DEF LoopInv, KeptOK, Stages, Content, WorkingState
  <2> QED
    BY <1>2, <1>10, <2>1 DEF KeptOK, Content, WorkingState
<1> QED
  BY <1>12, <1>13, <1>14, <1>15, <1>16, <1>17 DEF LoopInv

\* An answer is of a new turn.
LEMMA AnswerArrives ==
  ASSUME LoopInv, ModelAnswers PROVE LoopInv'
<1>1. /\ pc = "model" /\ pc' = "record" /\ turn' = turn + 1 /\ turn < MaxTurns
      /\ answer' \in {"answer", "calls"}
      /\ UNCHANGED <<saved, run, unread, config, summary, messages, ids, count, event,
                     terminate, finish, buffered>>
  BY DEF ModelAnswers, llmState, signals
<1>2. messages \in Seq(Message) /\ saved.messages \in Seq(Message) /\ turn \in Nat
  BY LoopFacts
<1>3. turn' \in 0 .. MaxTurns /\ turn' \in Nat /\ turn <= turn' /\ turn' > 0 /\ turn' - 1 = turn
  BY <1>1, <1>2, LoopAssumption
<1>4. TypesOK'
  <2>1. pc' \in Stages \union {"idle", "returned", "threw"} /\ run > 0
    BY <1>1 DEF LoopInv, TypesOK, Stages
  <2>2. answer' \in {"none", "answer", "calls"}
    BY <1>1
  <2> QED
    BY <1>1, <1>3, <2>1, <2>2 DEF LoopInv, TypesOK, TypeOK
<1>5. SavedOK'
  BY <1>1, <1>2, <1>3, LaterTurn DEF SavedOK, LoopInv
<1>6. WorkOK'
  BY <1>1, <1>3 DEF LoopInv, WorkOK, Stages, Calling
<1>7. IdsOK' /\ ExitsOK' /\ KeptOK'
  BY <1>1 DEF LoopInv, IdsOK, ExitsOK, ReturnedIsSaved, KeptOK, WorkingState, Stages, Recorded,
              Calling
<1> QED
  BY <1>4, <1>5, <1>6, <1>7 DEF LoopInv

\* An answer with tool calls waits for their outputs, one without is complete.
LEMMA AnswerIsRecorded ==
  ASSUME LoopInv, RecordAnswer PROVE LoopInv'
<1> DEFINE m == New(answer)
<1>1. /\ pc = "record" /\ messages' = Append(messages, m) /\ ids' = Append(ResolvedIds, m)
      /\ event' = "success" /\ answer' = "none"
      /\ pc' = IF terminate THEN "returned" ELSE IF answer = "calls" THEN "call_tools" ELSE "save"
      /\ UNCHANGED <<saved, run, unread, config, summary, count, turn, terminate, finish, buffered>>
  BY DEF RecordAnswer, Route, signals
<1>2. /\ turn > 0 /\ turn \in Nat /\ WellFormed(messages, turn - 1)
      /\ answer \in {"answer", "calls"} /\ messages \in Seq(Message) /\ ids \in Seq(Message)
  BY <1>1, LoopFacts DEF LoopInv, WorkOK
<1>3. m \in Message /\ m.kind = answer /\ m.run = run /\ m.turn = turn
  BY <1>1, <1>2, NewIsMessage DEF LoopInv, Kinds, New
<1>4. New("outputs") \in Message /\ New("outputs").kind = "outputs"
      /\ New("outputs").run = run /\ New("outputs").turn = turn
  BY <1>1, NewIsMessage DEF LoopInv, Kinds, New
<1> HIDE DEF m
<1>5. messages' \in Seq(Message) /\ KeptOK'
  BY <1>1, <1>3, MessageAppended DEF Stages
<1>6. ids' = messages'
  <2>1. IsPrefix(ids, messages)
    BY <1>1 DEF LoopInv, IdsOK, Stages
  <2> QED
    BY <1>1, <1>2, <2>1, ResolvedAreMessages
<1>7. turn - 1 \in Nat /\ turn - 1 < turn /\ turn - 1 <= turn
  BY <1>2
<1>8. answer = "calls" => WellFormed(Append(messages', New("outputs")), turn)
  <2> SUFFICES ASSUME answer = "calls"
               PROVE  WellFormed(Append(messages', New("outputs")), turn)
    OBVIOUS
  <2>1. Matching(m, New("outputs"))
    BY <1>3, <1>4 DEF Matching
  <2> QED
    BY <1>1, <1>2, <1>3, <1>4, <1>7, <2>1, CallsAppended
<1>9. answer = "answer" => WellFormed(messages', turn)
  <2> SUFFICES ASSUME answer = "answer"
               PROVE  WellFormed(messages', turn)
    OBVIOUS
  <2>1. WellFormed(messages', turn - 1)
    BY <1>1, <1>2, <1>3, <1>7, PlainAppended
  <2> QED
    BY <1>2, <1>5, <1>7, <2>1, LaterTurn
<1>10. /\ pc' \in {"call_tools", "save", "returned"} /\ (pc' = "returned" => terminate')
       /\ pc' = "call_tools" => answer = "calls"
       /\ pc' = "save" => answer = "answer"
  BY <1>1, <1>2
<1>11. New("outputs")' = New("outputs")
  BY <1>1 DEF New
<1>12. TypesOK'
  <2>1. pc' \in Stages \union {"idle", "returned", "threw"} /\ run > 0
    BY <1>1, <1>10 DEF LoopInv, TypesOK, Stages
  <2> QED
    BY <1>1, <1>5, <1>6, <2>1 DEF LoopInv, TypesOK, TypeOK
<1>13. SavedOK'
  BY <1>1 DEF SavedOK, LoopInv
<1>14. WorkOK'
  BY <1>1, <1>8, <1>9, <1>10, <1>11 DEF WorkOK, Stages, Calling
<1>15. IdsOK'
  BY <1>5, <1>6, PrefixOfLonger DEF IdsOK
<1>16. ExitsOK'
  BY <1>10 DEF ExitsOK, ReturnedIsSaved
<1> QED
  BY <1>5, <1>12, <1>13, <1>14, <1>15, <1>16 DEF LoopInv

\* The outputs answer the calls they were run for.
LEMMA OutputsAreRecorded ==
  ASSUME LoopInv, RecordOutputs PROVE LoopInv'
<1> DEFINE m == New("outputs")
<1>1. /\ pc = "outputs" /\ messages' = Append(messages, m) /\ ids' = Append(ids, m) /\ count' = 0
      /\ pc' = IF terminate THEN "returned" ELSE "tools_save"
      /\ UNCHANGED <<saved, run, unread, config, summary, answer, turn, event, terminate, finish,
                     buffered>>
  BY DEF RecordOutputs, Route, signals
<1>2. m \in Message
  BY <1>1, NewIsMessage DEF LoopInv, Kinds
<1>3. WellFormed(Append(messages, m), turn) /\ ids = messages
  BY <1>1 DEF LoopInv, WorkOK, IdsOK, Recorded, Calling
<1> HIDE DEF m
<1>4. messages' \in Seq(Message) /\ KeptOK'
  BY <1>1, <1>2, MessageAppended DEF Stages
<1>5. pc' \in {"tools_save", "returned"} /\ (pc' = "returned" => terminate')
  BY <1>1
<1>6. TypesOK'
  <2>1. pc' \in Stages \union {"idle", "returned", "threw"} /\ run > 0 /\ count' \in Nat
    BY <1>1, <1>5 DEF LoopInv, TypesOK, Stages
  <2>2. ids' \in Seq(Message)
    BY <1>1, <1>3, <1>4
  <2> QED
    BY <1>1, <1>4, <2>1, <2>2 DEF LoopInv, TypesOK, TypeOK
<1>7. SavedOK'
  BY <1>1 DEF SavedOK, LoopInv
<1>8. WorkOK'
  BY <1>1, <1>3, <1>5 DEF WorkOK, Stages, Calling
<1>9. IdsOK'
  BY <1>1, <1>3, <1>4, PrefixOfLonger DEF IdsOK
<1>10. ExitsOK'
  BY <1>5 DEF ExitsOK, ReturnedIsSaved
<1> QED
  BY <1>4, <1>6, <1>7, <1>8, <1>9, <1>10 DEF LoopInv

\* What is written is what is worked on.
LEMMA StateIsSaved ==
  ASSUME LoopInv, ToolsSave \/ Save PROVE LoopInv'
<1>1. /\ pc \in {"tools_save", "save"} /\ saved' = WorkingState
      /\ pc' \in {"returned", "summarize", "inject", "enforceTools"}
      /\ UNCHANGED <<run, unread, config, summary, messages, ids, count, answer, turn, event,
                     terminate, finish>>
      /\ buffered' \in 0 .. MaxBuffered
  <2>1. buffered \in 0 .. MaxBuffered /\ MaxBuffered \in Nat
    BY LoopAssumption DEF LoopInv, TypesOK, TypeOK
  <2>2. CASE ToolsSave
    BY <2>1, <2>2 DEF ToolsSave, llmState, signals
  <2>3. CASE Save
    BY <2>1, <2>3 DEF Save, Route, llmState, signals
  <2> QED
    BY <2>2, <2>3
<1>2. /\ WellFormed(messages, turn) /\ ids = messages /\ messages \in Seq(Message)
      /\ summary \in Seq(Message) /\ WorkingState \in Conversation
  BY <1>1, LoopFacts DEF LoopInv, WorkOK, IdsOK, Stages, Recorded, Calling
<1>3. /\ saved'.messages = messages /\ saved'.ids = ids /\ saved'.summary = summary
      /\ WorkingState' = saved'
  BY <1>1 DEF WorkingState
<1>4. TypesOK'
  <2>1. pc' \in Stages \union {"idle", "returned", "threw"} /\ run > 0
    BY <1>1 DEF LoopInv, TypesOK, Stages
  <2> QED
    BY <1>1, <1>2, <2>1 DEF LoopInv, TypesOK, TypeOK
<1>5. SavedOK'
  BY <1>1, <1>2, <1>3 DEF SavedOK
<1>6. WorkOK'
  BY <1>1, <1>2 DEF WorkOK, Stages, Calling
<1>7. IdsOK'
  BY <1>1, <1>2, PrefixOfLonger DEF IdsOK
<1>8. ExitsOK'
  BY <1>1, <1>3 DEF ExitsOK, ReturnedIsSaved
<1>9. KeptOK'
  <2>1. Content(saved') \in Seq(Message)
    BY <1>2, <1>3, ConcatProperties DEF Content
  <2> QED
    BY <1>3, <2>1, PrefixOfLonger DEF KeptOK
<1> QED
  BY <1>4, <1>5, <1>6, <1>7, <1>8, <1>9 DEF LoopInv

\* A message that is injected, and the restriction that sends the model back.
LEMMA PlainIsAppended ==
  ASSUME LoopInv, Inject \/ EnforceTools PROVE LoopInv'
<1>1. PICK kind \in {"human", "restriction"} : messages' = Append(messages, New(kind))
  BY DEF Inject, EnforceTools
<1>2. /\ pc \in {"inject", "enforceTools"} /\ count' \in Nat
      /\ pc' \in {"summarize", "returned"} /\ (pc' = "returned" => terminate')
      /\ UNCHANGED <<saved, run, unread, config, summary, ids, answer, turn, event, terminate,
                     finish, buffered>>
  BY LoopFacts DEF Inject, EnforceTools, Route, signals
<1> DEFINE m == New(kind)
<1>3. m \in Message /\ m.kind \notin {"calls", "outputs"}
  BY <1>2, NewIsMessage DEF LoopInv, Kinds
<1>4. /\ WellFormed(messages, turn) /\ ids = messages /\ messages \in Seq(Message)
      /\ turn \in Nat
  BY <1>2, LoopFacts DEF LoopInv, WorkOK, IdsOK, Stages, Recorded, Calling
<1> HIDE DEF m
<1>5. messages' \in Seq(Message) /\ IsPrefix(messages, messages') /\ KeptOK'
  BY <1>1, <1>2, <1>3, MessageAppended DEF Stages, m
<1>6. WellFormed(messages', turn)
  BY <1>1, <1>3, <1>4, PlainAppended DEF m
<1>7. TypesOK'
  <2>1. pc' \in Stages \union {"idle", "returned", "threw"} /\ run > 0
    BY <1>2 DEF LoopInv, TypesOK, Stages
  <2> QED
    BY <1>2, <1>5, <2>1 DEF LoopInv, TypesOK, TypeOK
<1>8. SavedOK'
  BY <1>2 DEF SavedOK, LoopInv
<1>9. WorkOK'
  BY <1>2, <1>6 DEF WorkOK, Stages, Calling
<1>10. IdsOK'
  BY <1>2, <1>4, <1>5 DEF IdsOK, Stages, Recorded, Calling
<1>11. ExitsOK'
  BY <1>2 DEF ExitsOK, ReturnedIsSaved
<1> QED
  BY <1>5, <1>7, <1>8, <1>9, <1>10, <1>11 DEF LoopInv

\* Every step keeps LoopInv.
LEMMA LoopInvKept == LoopInv /\ [Next]_vars => LoopInv'
<1> SUFFICES ASSUME LoopInv, [Next]_vars PROVE LoopInv'
  OBVIOUS
<1>1. CASE StartRun
  BY <1>1, RunStarts
<1>2. CASE Load
  BY <1>2, SavedIsLoaded
<1>3. CASE Fold
  BY <1>3, FrontIsFolded
<1>4. CASE ModelAnswers
  BY <1>4, AnswerArrives
<1>5. CASE RecordAnswer
  BY <1>5, AnswerIsRecorded
<1>6. CASE RecordOutputs
  BY <1>6, OutputsAreRecorded
<1>7. CASE ToolsSave \/ Save
  BY <1>7, StateIsSaved
<1>8. CASE Inject \/ EnforceTools
  BY <1>8, PlainIsAppended
<1>9. CASE QuietStep
  BY <1>9, QuietSteps
<1>10. CASE UNCHANGED vars
  BY <1>10 DEF vars, llmState, signals, LoopInv, TypesOK, TypeOK, SavedOK, WorkOK, New, IdsOK,
               ExitsOK, ReturnedIsSaved, KeptOK, WorkingState
<1> QED
  BY <1>1, <1>2, <1>3, <1>4, <1>5, <1>6, <1>7, <1>8, <1>9, <1>10 DEF Next, LoopStep, QuietStep

\* LoopInv holds throughout.
LEMMA LoopInvariant == Spec => []LoopInv
BY LoopStarts, LoopInvKept, PTL DEF Spec

-----------------------------------------------------------------------------
(***************************************************************************)
(* The theorems.                                                           *)
(***************************************************************************)

\* Every conversation that is saved or put to the model has all its tool calls
\* answered, its context items aligned, and is what a loop that returns on its own
\* leaves behind: whatever the splits of the summarizer, the order of the signal
\* and the answers of the model, and the calls that fail.
THEOREM ConversationStaysSound == Spec => []ConversationSound
<1>1. LoopInv => ConversationSound
  <2> SUFFICES ASSUME LoopInv PROVE ConversationSound
    OBVIOUS
  <2>1. TypeOK /\ ReturnedIsSaved
    BY DEF LoopInv, TypesOK, ExitsOK
  <2>2. Paired(saved.messages) /\ saved.ids = saved.messages
    BY DEF LoopInv, SavedOK, WellFormed
  <2>3. pc \in {"call_model", "started", "model"} => Paired(messages)
    BY DEF LoopInv, WorkOK, WellFormed, Stages, Calling
  <2>4. pc \in Stages => IsPrefix(ids, messages)
    BY DEF LoopInv, IdsOK
  <2> QED
    BY <2>1, <2>2, <2>3, <2>4 DEF ConversationSound, ToolCallsAnswered, ContextAligned
<1> QED
  BY <1>1, LoopInvariant, PTL

\* What the thread has saved is the beginning of whatever is saved later, by this
\* run or another, unless the run could not read it.
THEOREM ConversationNeverLost == Spec => ConversationKept
<1>1. LoopInv /\ [Next]_vars => [unread = run \/ IsPrefix(Content(saved), Content(saved'))]_vars
  <2> SUFFICES ASSUME LoopInv, Next
               PROVE  unread = run \/ IsPrefix(Content(saved), Content(saved'))
    OBVIOUS
  <2>1. CASE ToolsSave \/ Save
    <3>1. pc \in Stages \ {"load"} /\ saved' = WorkingState
      BY <2>1 DEF ToolsSave, Save, Stages
    <3> QED
      BY <3>1 DEF LoopInv, KeptOK
  <2>2. CASE ~(ToolsSave \/ Save)
    <3>1. saved' = saved
      BY <2>2 DEF Next, LoopStep, StartRun, Load, LoadFails, SkipSummarize, StartFold, Fold,
            StartModelCall, CallModel, ModelAnswers, ModelCancelled, RecordAnswer, Cancel,
            ModelFails, RecordError, CallTools, ToolsReturn, RecordOutputs, Inject, EnforceTools,
            EndTurn, Throw, Terminate, EndRun, Crash
    <3>2. Content(saved) \in Seq(Message)
      BY LoopFacts, ConcatProperties DEF Content
    <3> QED
      BY <3>1, <3>2, PrefixOfLonger
  <2> QED
    BY <2>1, <2>2
<1> QED
  BY <1>1, LoopInvariant, PTL DEF Spec, ConversationKept

\* As long as the event can be written, the row of a model call is completed before
\* the loop ends: by the answer, by the signal or by the error.
THEOREM CallsAreCompleted ==
  ASSUME "event" \notin Faults
  PROVE  Spec => []ModelCallsCompleted
<1>1. Init => RowSettled
  BY DEF Init, RowSettled
<1>2. RowSettled /\ [Next]_vars => RowSettled'
  <2> SUFFICES ASSUME RowSettled, [Next]_vars PROVE RowSettled'
    OBVIOUS
  <2> USE DEF RowSettled, InCall, Route
  <2>1. CASE StartRun \/ Load \/ LoadFails \/ SkipSummarize \/ StartFold \/ Fold
    BY <2>1 DEF StartRun, Load, LoadFails, SkipSummarize, StartFold, Fold
  <2>2. CASE StartModelCall \/ CallModel \/ ModelAnswers \/ ModelCancelled \/ ModelFails
    BY <2>2 DEF StartModelCall, CallModel, ModelAnswers, ModelCancelled, ModelFails
  <2>3. CASE RecordAnswer \/ Cancel \/ RecordError
    BY <2>3 DEF RecordAnswer, Cancel, RecordError
  <2>4. CASE CallTools \/ ToolsReturn \/ RecordOutputs \/ ToolsSave \/ Inject
    BY <2>4 DEF CallTools, ToolsReturn, RecordOutputs, ToolsSave, Inject
  <2>5. CASE Save \/ EnforceTools \/ EndTurn \/ EndRun
    BY <2>5 DEF Save, EnforceTools, EndTurn, EndRun
  <2>6. CASE Throw \/ Terminate \/ Crash
    BY <2>6 DEF Throw, Terminate, Crash
  <2>7. CASE UNCHANGED vars
    BY <2>7 DEF vars
  <2> QED
    BY <2>1, <2>2, <2>3, <2>4, <2>5, <2>6, <2>7 DEF Next, LoopStep
<1>3. RowSettled => ModelCallsCompleted
  BY DEF RowSettled, InCall, ModelCallsCompleted
<1> QED
  BY <1>1, <1>2, <1>3, PTL DEF Spec

=============================================================================
