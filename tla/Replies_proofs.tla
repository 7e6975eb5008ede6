--------------------------- MODULE Replies_proofs ---------------------------
(***************************************************************************)
(* What a client hears of a model that answers in pieces: the words of a   *)
(* reply (Conversation) and the letters of a plan's summary                *)
(* (PlanGenerator), for any lengths, retries and ways to cut the stream.   *)
(* And what the conversation makes of its briefs: the rules change what a  *)
(* message says and no more, and the hash of a request names the wish, for *)
(* any texts and lists.                                                    *)
(***************************************************************************)
EXTENDS Conversation, PlanGenerator, Lists_proofs, SequenceTheorems, FiniteSetTheorems,
        TLAPS

-----------------------------------------------------------------------------
(* Replies                                                                 *)

\* What was said of a streamed reply: its first words.
Spoken(words) == words = [i \in 1..Len(words) |-> <<"streamed", i>>]

Heard == Seq({"own", "streamed"} \X Nat)

HeardSoFar ==
    /\ phase \in {"idle", "extracting", "replying", "answering"}
    /\ said \in Heard /\ reply \in Heard /\ saw \in BOOLEAN
    /\ phase = "extracting" => said = <<>> /\ ~saw /\ reply = OwnReply
    /\ phase = "replying" =>
          /\ extractor = "streamed" /\ reply = OwnReply /\ Spoken(said)
          /\ said # <<>> => saw
    /\ phase = "answering" =>
          \/ ~saw /\ said = <<>>
          \/ saw /\ said = reply
          \/ saw /\ reply = OwnReply /\ extractor = "streamed" /\ Spoken(said)

LEMMA OwnHeard == OwnReply \in Heard /\ <<>> \in Heard /\ Spoken(<<>>)
<1>1. ReplyWords \in Nat
  BY ConversationAssumption
<1>2. \A i \in 1..ReplyWords : <<"own", i>> \in {"own", "streamed"} \X Nat
  OBVIOUS
<1>3. OwnReply \in Heard
  <2> DEFINE S == {"own", "streamed"} \X Nat
  <2>1. [i \in 1..ReplyWords |-> <<"own", i>>] \in Seq(S)
    <3>1. \A i \in 1..ReplyWords : <<"own", i>> \in S
      BY <1>2
    <3> HIDE DEF S
    <3> QED BY <1>1, <3>1
  <2> QED BY <2>1 DEF OwnReply, Heard
<1>4. <<>> \in Heard
  BY DEF Heard
<1>5. Spoken(<<>>)
  BY DEF Spoken
<1> QED BY <1>3, <1>4, <1>5

LEMMA HeardStep ==
    HeardSoFar /\ RepliesHeard /\ [ChatNext]_chatVars => HeardSoFar' /\ RepliesHeard'
<1> SUFFICES ASSUME HeardSoFar, RepliesHeard, [ChatNext]_chatVars
             PROVE  HeardSoFar' /\ RepliesHeard'
  OBVIOUS
<1> USE OwnHeard
<1>0. OwnReply' = OwnReply
  BY DEF OwnReply
<1>1. CASE Ask
  BY <1>0, <1>1 DEF Ask, HeardSoFar, RepliesHeard
<1>2. CASE ExtractByRules \/ ExtractByModel
  <2>1. /\ phase = "extracting" /\ UNCHANGED <<extractor, reply, saw, said>>
        /\ phase' = "answering" \/ (phase' = "replying" /\ extractor = "streamed")
    BY <1>2 DEF ExtractByRules, ExtractByModel, HeardSoFar
  <2>2. said = <<>> /\ ~saw /\ reply = OwnReply
    BY <2>1 DEF HeardSoFar
  <2> QED BY <1>0, <2>1, <2>2 DEF HeardSoFar, RepliesHeard
<1>3. CASE ReplyWord
  <2>1. /\ said' = Append(said, <<"streamed", Len(said) + 1>>)
        /\ Len(said) \in Nat /\ Spoken(said)
    BY <1>3 DEF ReplyWord, HeardSoFar, Heard
  <2>2. said' \in Heard /\ Len(said') = Len(said) + 1
    BY <2>1 DEF HeardSoFar, Heard
  <2>3. \A i \in 1..Len(said') : said'[i] = <<"streamed", i>>
    <3>1. \A i \in 1..Len(said) : said[i] = <<"streamed", i>>
      BY <2>1 DEF Spoken
    <3> QED BY <2>1, <2>2, <3>1 DEF HeardSoFar, Heard
  <2>4. Spoken(said')
    BY <2>2, <2>3 DEF Spoken, Heard
  <2> QED BY <1>0, <1>3, <2>2, <2>4 DEF ReplyWord, HeardSoFar, RepliesHeard
<1>4. CASE ReplySpace
  BY <1>0, <1>4 DEF ReplySpace, HeardSoFar, RepliesHeard, Spoken
<1>5. CASE ReplyEnds \/ ReplyBreaks
  BY <1>0, <1>5 DEF ReplyEnds, ReplyBreaks, HeardSoFar, RepliesHeard, Spoken
<1>6. CASE AnswerTurn
  <2>1. /\ phase = "answering" /\ phase' = "idle" /\ UNCHANGED <<reply, saw, extractor>>
        /\ said' = IF ~saw THEN said \o reply ELSE said
    BY <1>6 DEF AnswerTurn, NeedsChunks
  <2>2. reply \in Heard => <<>> \o reply = reply
    BY DEF Heard
  <2>3. CASE ~saw
    <3>1. said' = reply /\ reply \in Heard
      BY <2>1, <2>2, <2>3 DEF HeardSoFar
    <3> QED BY <1>0, <2>1, <2>3, <3>1 DEF HeardSoFar, RepliesHeard
  <2>4. CASE saw
    <3>1. said' = said
      BY <2>1, <2>4
    <3> QED BY <1>0, <2>1, <2>4, <3>1 DEF HeardSoFar, RepliesHeard, Spoken
  <2> QED BY <2>3, <2>4
<1>7. CASE TurnLost
  BY <1>0, <1>7 DEF TurnLost, HeardSoFar, RepliesHeard
<1>8. CASE EditBrief \/ RequestPlan
  BY <1>0, <1>8 DEF EditBrief, RequestPlan, HeardSoFar, RepliesHeard
<1>9. CASE UNCHANGED chatVars
  BY <1>0, <1>9 DEF chatVars, HeardSoFar, RepliesHeard, Spoken
<1> QED BY <1>1, <1>2, <1>3, <1>4, <1>5, <1>6, <1>7, <1>8, <1>9 DEF ChatNext

\* However many turns a conversation has, an answered turn has told its reply
\* word by word, each once and in order, wherever its stream was cut, or only
\* the words that came before the stream of another reply broke, or none if
\* that was all blank: no second reply follows the first (ChatStream).
THEOREM RepliesToldOnce == ChatSpec => []RepliesHeard
<1>1. ChatInit => HeardSoFar /\ RepliesHeard
  BY OwnHeard DEF ChatInit, HeardSoFar, RepliesHeard
<1> QED BY <1>1, HeardStep, PTL DEF ChatSpec

-----------------------------------------------------------------------------
(* The summary of a plan                                                   *)

Chars == Nat \X Nat

\* The characters of each attempt from the first on, each once and in order.
InOrderTold(told) ==
    \A i \in DOMAIN told :
        LET before == IF i = 1 THEN <<0, 0>> ELSE told[i - 1]
        IN \/ told[i] = <<before[1], before[2] + 1>>
           \/ told[i][1] > before[1] /\ told[i][2] = 1

\* More halves are never read as fewer characters, and a summary has as many as
\* its letters at least.
LEMMA LegibleGrows ==
    /\ Legible(0) = 0 /\ Reading \in Nat /\ Letters <= Reading
    /\ \A h, k \in Nat : h <= k =>
          Legible(h) \in Nat /\ Legible(k) \in Nat /\ Legible(h) <= Legible(k)
<1> DEFINE Pairs(h) == {letter \in Surrogates : 2 * letter <= h + 1}
<1> USE GeneratorAssumption
<1>1. IsFiniteSet(Surrogates) /\ \A letter \in Surrogates : letter \in Nat /\ letter > 0
  <2>1. IsFiniteSet(1..Letters)
    BY FS_Interval
  <2>2. Surrogates \in SUBSET (1..Letters)
    OBVIOUS
  <2>3. IsFiniteSet(Surrogates)
    BY <2>1, <2>2, FS_Subset
  <2>4. \A letter \in Surrogates : letter \in Nat /\ letter > 0
    BY <2>2
  <2> QED BY <2>3, <2>4
<1>2. ASSUME NEW h \in Nat
      PROVE  IsFiniteSet(Pairs(h)) /\ Cardinality(Pairs(h)) \in Nat
  BY <1>1, FS_Subset, FS_CardinalityType
<1>3. ASSUME NEW h \in Nat, NEW k \in Nat, h <= k
      PROVE  Cardinality(Pairs(h)) <= Cardinality(Pairs(k))
  <2>1. Pairs(h) \in SUBSET Pairs(k)
    <3>1. \A letter \in Surrogates : 2 * letter <= h + 1 => 2 * letter <= k + 1
      BY <1>1, <1>3
    <3> QED BY <3>1
  <2> HIDE DEF Pairs
  <2> QED BY <1>2, <2>1, FS_Subset
<1>4. Cardinality(Pairs(0)) = 0
  <2>1. Pairs(0) = {}
    <3>1. \A letter \in Surrogates : ~(2 * letter <= 0 + 1)
      BY <1>1
    <3> QED BY <3>1
  <2> QED BY <2>1, FS_EmptySet
<1>5. \A h : Legible(h) = (h \div 2) + Cardinality(Pairs(h))
  BY DEF Legible
<1> HIDE DEF Pairs
<1>6. /\ 0 \div 2 = 0 /\ (2 * Letters) \div 2 = Letters /\ 2 * Letters \in Nat
      /\ \A h \in Nat : h \div 2 \in Nat
      /\ \A h, k \in Nat : h <= k => h \div 2 <= k \div 2
  OBVIOUS
<1>7. Legible(0) = 0 /\ Reading \in Nat /\ Letters <= Reading
  <2>1. Cardinality(Pairs(2 * Letters)) \in Nat /\ Letters \in Nat
    BY <1>2, <1>6
  <2>2. Reading = Letters + Cardinality(Pairs(2 * Letters))
    BY <1>5, <1>6 DEF Reading
  <2> QED BY <1>4, <1>5, <1>6, <2>1, <2>2
<1>8. ASSUME NEW h \in Nat, NEW k \in Nat, h <= k
      PROVE  Legible(h) \in Nat /\ Legible(k) \in Nat /\ Legible(h) <= Legible(k)
  BY <1>2, <1>3, <1>5, <1>6, <1>8
<1> QED BY <1>7, <1>8

\* What was told ends with character n of attempt a, or before a if n is none.
EndsWith(told, a, n) ==
    IF n = 0 THEN told = <<>> \/ told[Len(told)][1] < a
             ELSE told # <<>> /\ told[Len(told)] = <<a, n>>

\* Characters n + 1 to m of attempt a.
Rest(a, n, m) == [i \in 1..(m - n) |-> <<a, n + i>>]

LEMMA TailTold ==
    ASSUME NEW told \in Seq(Chars), NEW a \in Nat \ {0}, NEW n \in Nat, NEW m \in Nat,
           n <= m, InOrderTold(told), \A i \in DOMAIN told : told[i][1] > 0,
           EndsWith(told, a, n)
    PROVE  LET next == told \o Rest(a, n, m)
           IN /\ next \in Seq(Chars) /\ InOrderTold(next) /\ EndsWith(next, a, m)
              /\ \A i \in DOMAIN next : next[i][1] > 0
<1> DEFINE t == Rest(a, n, m)
           next == told \o t
<1>1. t \in Seq(Chars) /\ Len(t) = m - n /\ \A i \in 1..(m - n) : t[i] = <<a, n + i>>
  BY DEF Rest, Chars
<1>2. /\ next \in Seq(Chars) /\ Len(next) = Len(told) + (m - n)
      /\ \A i \in 1..Len(told) : next[i] = told[i]
      /\ \A i \in 1..(m - n) : next[Len(told) + i] = <<a, n + i>>
  <2> HIDE DEF t
  <2>1. Len(t) \in Nat /\ Len(told) \in Nat
    BY <1>1
  <2>2. next \in Seq(Chars) /\ Len(next) = Len(told) + Len(t)
    BY <1>1, ConcatProperties
  <2>3. \A i \in 1..Len(told) : next[i] = told[i]
    BY <1>1, <2>1
  <2>4. \A i \in 1..Len(t) : next[Len(told) + i] = t[i]
    BY <1>1, <2>1
  <2> QED BY <1>1, <2>2, <2>3, <2>4
<1> HIDE DEF t, next
<1>3. Len(told) \in Nat /\ DOMAIN told = 1..Len(told) /\ DOMAIN next = 1..Len(next)
  BY <1>2
<1>4. ASSUME NEW i \in 1..Len(next), i > Len(told)
      PROVE  /\ next[i] = <<a, n + (i - Len(told))>>
             /\ i - Len(told) \in 1..(m - n)
  <2>1. i - Len(told) \in 1..(m - n) /\ i = Len(told) + (i - Len(told))
    BY <1>2, <1>3, <1>4
  <2> QED BY <1>2, <2>1
<1>5. \A i \in DOMAIN next : next[i][1] > 0
  <2> SUFFICES ASSUME NEW i \in 1..Len(next) PROVE next[i][1] > 0
    BY <1>3
  <2>1. CASE i <= Len(told)
    BY <1>2, <1>3, <2>1
  <2>2. CASE i > Len(told)
    BY <1>4, <2>2
  <2> QED BY <1>3, <2>1, <2>2
<1>6. EndsWith(next, a, m)
  <2>1. CASE m = n
    <3>1. next = told
      BY <1>2, <1>3, <2>1
    <3> QED BY <2>1, <3>1
  <2>2. CASE m # n
    <3>1. Len(next) > Len(told) /\ Len(next) \in 1..Len(next)
      BY <1>2, <1>3, <2>2
    <3>2. next[Len(next)] = <<a, n + (m - n)>>
      <4>1. Len(next) - Len(told) = m - n
        BY <1>2, <1>3
      <4> QED BY <1>4, <3>1, <4>1
    <3> QED BY <1>2, <1>3, <2>2, <3>1, <3>2 DEF EndsWith
  <2> QED BY <2>1, <2>2
<1>7. InOrderTold(next)
  <2> SUFFICES ASSUME NEW i \in 1..Len(next), NEW before,
                      before = IF i = 1 THEN <<0, 0>> ELSE next[i - 1]
               PROVE  \/ next[i] = <<before[1], before[2] + 1>>
                      \/ next[i][1] > before[1] /\ next[i][2] = 1
    BY <1>3 DEF InOrderTold
  <2>1. CASE i <= Len(told)
    <3>1. next[i] = told[i] /\ (i # 1 => next[i - 1] = told[i - 1])
      BY <1>2, <1>3, <2>1
    <3> QED BY <1>3, <2>1, <3>1 DEF InOrderTold
  <2>2. CASE i > Len(told) + 1
    <3>1. i - 1 \in 1..Len(next) /\ i - 1 > Len(told) /\ i # 1
      BY <1>2, <1>3, <2>2
    <3>2. next[i] = <<a, n + (i - Len(told))>> /\ next[i - 1] = <<a, n + (i - 1 - Len(told))>>
      BY <1>4, <2>2, <1>3, <3>1
    <3> QED BY <1>3, <3>1, <3>2
  <2>3. CASE i = Len(told) + 1
    <3>1. next[i] = <<a, n + 1>>
      BY <1>3, <1>4, <2>3
    <3>2. i # 1 => before = told[Len(told)] /\ told # <<>>
      BY <1>2, <1>3, <2>3
    <3>3. CASE n = 0
      <4>1. before[1] < a
        BY <1>3, <2>3, <3>2, <3>3 DEF EndsWith
      <4> QED BY <3>1, <3>3, <4>1
    <3>4. CASE n # 0
      BY <1>3, <2>3, <3>1, <3>2, <3>4 DEF EndsWith
    <3> QED BY <3>3, <3>4
  <2> QED BY <1>3, <2>1, <2>2, <2>3
<1> QED BY <1>2, <1>5, <1>6, <1>7 DEF next, t

\* What has been told at each stage.
ToldSoFar ==
    /\ genStage \in {"start", "calling", "streaming", "publish", "done"}
    /\ spoken \in Seq(Chars) /\ InOrderTold(spoken)
    /\ attempt \in Nat /\ source \in Nat
    /\ received \in 0..(2 * Letters)
    /\ emitted \in Nat /\ emitted <= Legible(received)
    /\ genStage # "done" => \A i \in DOMAIN spoken : spoken[i][1] > 0
    /\ genStage = "start" => spoken = <<>> /\ emitted = 0
    /\ genStage \in {"calling", "streaming"} =>
          attempt > 0 /\ EndsWith(spoken, attempt, emitted)
    /\ genStage = "calling" => emitted = 0 /\ (~config.stream => spoken = <<>>)
    /\ genStage = "streaming" => config.stream
    /\ genStage = "publish" =>
          \/ spoken = <<>> /\ emitted = 0
          \/ spoken # <<>> /\ source = 0
          \/ EndsWith(spoken, source, Reading) /\ emitted = Reading

LEMMA FailureTold ==
    ASSUME ToldSoFar, genStage \in {"calling", "streaming"}, AfterFailure,
           UNCHANGED <<config, spoken>>
    PROVE  ToldSoFar'
<1>1. received' = 0 /\ emitted' = 0 /\ 0 <= Legible(0)
  BY LegibleGrows DEF AfterFailure
<1>2. \/ genStage' = "calling" /\ attempt' = attempt + 1 /\ UNCHANGED source
      \/ genStage' = "publish" /\ source' = 0 /\ UNCHANGED attempt
  BY DEF AfterFailure, Take
<1>3. spoken = <<>> \/ spoken[Len(spoken)][1] < attempt + 1
  <2>1. attempt \in Nat /\ EndsWith(spoken, attempt, emitted)
    BY DEF ToldSoFar
  <2>2. CASE spoken # <<>>
    <3>1. spoken[Len(spoken)] \in Chars
      BY <2>2 DEF ToldSoFar
    <3>2. spoken[Len(spoken)][1] \in Nat
      BY <3>1 DEF Chars
    <3> QED BY <2>1, <2>2, <3>2 DEF EndsWith
  <2> QED BY <2>2
<1>4. ~config.stream => spoken = <<>>
  BY DEF ToldSoFar
<1> QED BY <1>1, <1>2, <1>3, <1>4, GeneratorAssumption DEF ToldSoFar, EndsWith

LEMMA ToldStep == ToldSoFar /\ [GenNext]_genVars /\ SummaryTold => ToldSoFar' /\ SummaryTold'
<1> SUFFICES ASSUME ToldSoFar, [GenNext]_genVars, SummaryTold
             PROVE  ToldSoFar' /\ SummaryTold'
  OBVIOUS
<1> USE GeneratorAssumption
<1>1. ASSUME ToldSoFar', genStage' # "done" PROVE SummaryTold'
  BY <1>1 DEF ToldSoFar, SummaryTold, InOrderTold
<1>2. CASE Begin
  <2>1. ToldSoFar'
    BY <1>2 DEF Begin, Take, ToldSoFar, EndsWith
  <2> QED BY <1>1, <1>2, <2>1 DEF Begin, Take
<1>3. CASE CallFails \/ StreamBreaks
  <2>1. ToldSoFar'
    BY <1>3, FailureTold DEF CallFails, StreamBreaks
  <2> QED BY <1>1, <1>3, <2>1 DEF CallFails, StreamBreaks, AfterFailure, Take
<1>4. CASE BufferedAnswers
  <2>1. CASE AfterFailure
    BY <1>1, <1>4, <2>1, FailureTold DEF BufferedAnswers, AfterFailure, Take
  <2>2. CASE Take(attempt) /\ UNCHANGED <<attempt, form, received, emitted>>
    <3>1. ToldSoFar'
      BY <1>4, <2>2 DEF BufferedAnswers, Take, ToldSoFar
    <3> QED BY <1>1, <2>2, <3>1 DEF Take
  <2> QED BY <1>4, <2>1, <2>2 DEF BufferedAnswers
<1>5. CASE StreamOpens
  <2>1. ToldSoFar'
    BY <1>5 DEF StreamOpens, ToldSoFar
  <2> QED BY <1>1, <1>5, <2>1 DEF StreamOpens
<1>6. CASE FrameArrives
  <2>1. PICK answer \in {"tool", "text"}, halves \in 1..(2 * Letters - received) :
          /\ received' = received + halves
          /\ IF answer = "tool"
             THEN /\ spoken' = spoken \o NewTail(Legible(received'))
                  /\ emitted' = Legible(received')
             ELSE UNCHANGED <<spoken, emitted>>
    BY <1>6 DEF FrameArrives
  <2>2. UNCHANGED <<config, genStage, attempt, source>> /\ genStage = "streaming"
    BY <1>6 DEF FrameArrives
  <2>3. /\ received' \in 0..(2 * Letters) /\ {Legible(received), Legible(received')} \subseteq Nat
        /\ Legible(received) <= Legible(received')
    <3>1. received \in Nat /\ received' \in 0..(2 * Letters) /\ received <= received'
      BY <2>1 DEF ToldSoFar
    <3> QED BY <3>1, LegibleGrows
  <2>4. emitted <= Legible(received')
    BY <2>3 DEF ToldSoFar
  <2>5. /\ spoken' \in Seq(Chars) /\ InOrderTold(spoken')
        /\ EndsWith(spoken', attempt, emitted')
        /\ \A i \in DOMAIN spoken' : spoken'[i][1] > 0
    <3>1. CASE answer = "tool"
      <4>1. NewTail(Legible(received')) = Rest(attempt, emitted, Legible(received'))
        BY DEF NewTail, Rest
      <4>2. attempt \in Nat \ {0} /\ EndsWith(spoken, attempt, emitted)
        BY <2>2 DEF ToldSoFar
      <4> QED BY <2>1, <2>2, <2>3, <2>4, <3>1, <4>1, <4>2, TailTold DEF ToldSoFar
    <3>2. CASE answer # "tool"
      BY <2>1, <2>2, <3>2 DEF ToldSoFar
    <3> QED BY <3>1, <3>2
  <2>6. emitted' \in Nat /\ emitted' <= Legible(received')
    BY <2>1, <2>3, <2>4 DEF ToldSoFar
  <2>7. ToldSoFar'
    BY <2>2, <2>3, <2>5, <2>6 DEF ToldSoFar
  <2> QED BY <1>1, <2>2, <2>7
<1>7. CASE StreamEnds
  <2>1. CASE AfterFailure /\ UNCHANGED spoken
    BY <1>1, <1>7, <2>1, FailureTold DEF StreamEnds, AfterFailure, Take
  <2>2. CASE /\ received = 2 * Letters /\ Take(attempt)
             /\ spoken' = spoken \o NewTail(Legible(received))
             /\ emitted' = Legible(received)
             /\ UNCHANGED <<attempt, form, received>>
    <3>1. /\ Legible(received) = Reading /\ Reading \in Nat
          /\ genStage = "streaming"
      BY <1>7, <2>2, LegibleGrows DEF Reading, StreamEnds
    <3>2. attempt \in Nat \ {0} /\ EndsWith(spoken, attempt, emitted) /\ emitted <= Reading
      BY <3>1 DEF ToldSoFar
    <3>3. NewTail(Legible(received)) = Rest(attempt, emitted, Reading)
      BY <3>1 DEF NewTail, Rest
    <3>4. /\ spoken' \in Seq(Chars) /\ InOrderTold(spoken')
          /\ EndsWith(spoken', attempt, Reading)
          /\ \A i \in DOMAIN spoken' : spoken'[i][1] > 0
      BY <2>2, <3>1, <3>2, <3>3, TailTold DEF ToldSoFar
    <3>5. ToldSoFar'
      BY <2>2, <3>1, <3>4 DEF ToldSoFar, Take
    <3> QED BY <1>1, <2>2, <3>5 DEF Take
  <2> QED BY <1>7, <2>1, <2>2 DEF StreamEnds
<1>8. CASE PublishPlan
  <2>1. genStage = "publish" /\ genStage' = "done"
        /\ UNCHANGED <<config, attempt, received, emitted, source>>
    BY <1>8 DEF PublishPlan
  <2>2. /\ spoken' \in Seq(Chars) /\ InOrderTold(spoken')
        /\ \/ /\ emitted = Reading /\ spoken' # <<>>
              /\ spoken'[Len(spoken')] = <<source, Reading>>
           \/ emitted = 0 /\ spoken' = WholeSummary
           \/ /\ source = 0 /\ spoken' # <<>>
              /\ \A i \in DOMAIN spoken' : spoken'[i][1] > 0
    <3>1. CASE spoken = <<>>
      <4> DEFINE all == [i \in 1..Letters |-> <<source, i>>]
      <4>1. spoken' = all /\ WholeSummary = all /\ source \in Nat /\ emitted = 0
        <5>1. 0 < Reading
          BY LegibleGrows
        <5> QED BY <1>8, <3>1, <5>1 DEF PublishPlan, ToldSoFar, WholeSummary, EndsWith
      <4>2. /\ all \in Seq(Chars) /\ Len(all) = Letters /\ all # <<>>
            /\ DOMAIN all = 1..Letters /\ \A i \in 1..Letters : all[i] = <<source, i>>
        <5>1. source \in Nat
          BY <4>1
        <5> QED BY <5>1 DEF Chars
      <4> HIDE DEF all
      <4>3. InOrderTold(all)
        <5> SUFFICES ASSUME NEW i \in 1..Letters, NEW before,
                            before = IF i = 1 THEN <<0, 0>> ELSE all[i - 1]
                     PROVE  \/ all[i] = <<before[1], before[2] + 1>>
                            \/ all[i][1] > before[1] /\ all[i][2] = 1
          BY <4>2 DEF InOrderTold
        <5>1. CASE i = 1
          BY <4>1, <4>2, <5>1
        <5>2. CASE i # 1
          BY <4>1, <4>2, <5>2
        <5> QED BY <5>1, <5>2
      <4> QED BY <4>1, <4>2, <4>3
    <3>2. CASE spoken # <<>>
      <4>1. spoken' = spoken
        BY <1>8, <3>2 DEF PublishPlan
      <4>2. 0 < Reading
        BY LegibleGrows
      <4> QED BY <2>1, <3>2, <4>1, <4>2 DEF ToldSoFar, EndsWith
    <3> QED BY <3>1, <3>2
  <2>3. ToldSoFar'
    BY <2>1, <2>2 DEF ToldSoFar
  <2>4. WholeSummary' = WholeSummary
    BY <2>1 DEF WholeSummary
  <2> QED BY <2>1, <2>2, <2>3, <2>4 DEF SummaryTold, InOrderTold, Last
<1>9. CASE UNCHANGED genVars
  BY <1>9 DEF genVars, ToldSoFar, SummaryTold, WholeSummary
<1> QED BY <1>2, <1>3, <1>4, <1>5, <1>6, <1>7, <1>8, <1>9 DEF GenNext

\* For any number of retries, letters, surrogate pairs and frames, wherever the
\* frames cut: of every attempt the client is told what extractSummarySoFar reads
\* from the beginning, no character twice; and when the task is done it was told
\* all that is read of the summary of the plan it gets, unless that plan is the
\* deterministic one after an attempt that had spoken.
THEOREM SummaryToldOnce == GenSpec => []SummaryTold
<1>1. GenInit => ToldSoFar /\ SummaryTold
  BY GeneratorAssumption, LegibleGrows
  DEF GenInit, ToldSoFar, SummaryTold, InOrderTold, Chars
<1> QED BY <1>1, ToldStep, PTL DEF GenSpec

\* An attempt that fails, or a plan that is taken, keeps the types.
LEMMA FailureTyped ==
    ASSUME GenTypeOK, AfterFailure
    PROVE  /\ genStage' \in {"calling", "publish"} /\ attempt' \in 0..(MaxRetries + 1)
           /\ source' \in 0..attempt' /\ form' = "none" /\ received' = 0 /\ emitted' = 0
<1>1. attempt \in Nat /\ source \in Nat /\ source <= attempt /\ attempt <= MaxRetries + 1
  BY GeneratorAssumption DEF GenTypeOK
<1> QED BY <1>1, GeneratorAssumption DEF AfterFailure, Take

\* The characters that are spoken are characters of the reading.
LEMMA TailTyped ==
    ASSUME GenTypeOK, NEW halves \in 0..(2 * Letters)
    PROVE  /\ Legible(halves) \in 0..Reading
           /\ spoken \o NewTail(Legible(halves)) \in Seq((0..(MaxRetries + 1)) \X (1..Reading))
<1> DEFINE read == Legible(halves)
           pairs == (0..(MaxRetries + 1)) \X (1..Reading)
<1>1. read \in Nat /\ read <= Reading /\ Reading \in Nat
  BY GeneratorAssumption, LegibleGrows DEF Reading
<1>2. emitted \in Nat /\ attempt \in 0..(MaxRetries + 1) /\ spoken \in Seq(pairs)
  BY DEF GenTypeOK
<1> HIDE DEF read
<1>3. NewTail(read) \in Seq(pairs)
  <2>1. ASSUME NEW i \in 1..(read - emitted) PROVE <<attempt, emitted + i>> \in pairs
    <3>1. emitted + i \in 1..Reading
      BY <1>1, <1>2, GeneratorAssumption
    <3> QED BY <1>2, <3>1
  <2>2. CASE read - emitted \in Nat
    <3> HIDE DEF pairs
    <3> QED BY <2>1, <2>2 DEF NewTail
  <2>3. CASE read - emitted \notin Nat
    <3>1. 1..(read - emitted) = {}
      BY <1>1, <1>2, <2>3
    <3>2. NewTail(read) = <<>>
      BY <3>1 DEF NewTail
    <3> QED BY <3>2
  <2> QED BY <2>2, <2>3
<1> HIDE DEF pairs
<1>4. spoken \o NewTail(read) \in Seq(pairs)
  BY <1>2, <1>3, ConcatProperties
<1> QED BY <1>1, <1>4 DEF read, pairs

\* No attempt was begun before the start, so that the first one is no step back.
NoneBegun == genStage = "start" => attempt = 0

LEMMA NoneBegunStep == GenTypeOK /\ NoneBegun /\ [GenNext]_genVars => NoneBegun'
<1> SUFFICES ASSUME GenTypeOK, NoneBegun, [GenNext]_genVars PROVE NoneBegun'
  OBVIOUS
<1>1. genStage' = "start" => UNCHANGED <<genStage, attempt>>
  BY DEF GenNext, genVars, Begin, Take, CallFails, BufferedAnswers, AfterFailure, StreamOpens,
         FrameArrives, StreamBreaks, StreamEnds, PublishPlan
<1> QED BY <1>1 DEF NoneBegun

LEMMA GenTypeStep == GenTypeOK /\ NoneBegun /\ [GenNext]_genVars => GenTypeOK'
<1> SUFFICES ASSUME GenTypeOK, NoneBegun, [GenNext]_genVars PROVE GenTypeOK'
  OBVIOUS
<1>1. /\ config \in Configs /\ attempt \in Nat /\ attempt <= MaxRetries + 1
      /\ source \in Nat /\ source <= attempt /\ received \in Nat /\ received <= 2 * Letters
      /\ emitted \in 0..Reading /\ form \in {"none", "tool", "text"}
      /\ spoken \in Seq((0..(MaxRetries + 1)) \X (1..Reading))
      /\ genStage = "start" => attempt = 0
  BY GeneratorAssumption DEF GenTypeOK, NoneBegun
<1>a. 0 \in 0..Reading
  BY LegibleGrows
<1> USE GeneratorAssumption
<1>2. CASE Begin
  <2>1. /\ attempt = 0 /\ source = 0 /\ UNCHANGED <<config, form, received, emitted, spoken>>
        /\ \/ genStage' = "calling" /\ attempt' = 1 /\ source' = 0
           \/ genStage' = "publish" /\ attempt' = 0 /\ source' = 0
    BY <1>1, <1>2 DEF Begin, Take
  <2>2. attempt' \in 0..(MaxRetries + 1) /\ source' \in 0..attempt'
    BY <2>1
  <2> QED BY <1>1, <2>1, <2>2 DEF GenTypeOK
<1>3. ASSUME AfterFailure, UNCHANGED <<config, spoken>> PROVE GenTypeOK'
  BY <1>1, <1>a, <1>3, FailureTyped DEF GenTypeOK
<1>4. ASSUME Take(attempt), UNCHANGED <<config, spoken, attempt, form, received, emitted>>
      PROVE  GenTypeOK'
  BY <1>1, <1>4 DEF Take, GenTypeOK
<1>5. CASE CallFails \/ StreamBreaks
  BY <1>3, <1>5 DEF CallFails, StreamBreaks
<1>6. CASE BufferedAnswers
  BY <1>3, <1>4, <1>6 DEF BufferedAnswers
<1>7. CASE StreamOpens
  BY <1>1, <1>7 DEF StreamOpens, GenTypeOK
<1>8. CASE FrameArrives
  <2>1. PICK answer \in {"tool", "text"}, halves \in 1..(2 * Letters - received) :
          /\ form' = answer /\ received' = received + halves
          /\ IF answer = "tool"
             THEN /\ spoken' = spoken \o NewTail(Legible(received'))
                  /\ emitted' = Legible(received')
             ELSE UNCHANGED <<spoken, emitted>>
    BY <1>8 DEF FrameArrives
  <2>2. received' \in 0..(2 * Letters)
    BY <1>1, <2>1
  <2>3. /\ Legible(received') \in 0..Reading
        /\ spoken \o NewTail(Legible(received')) \in Seq((0..(MaxRetries + 1)) \X (1..Reading))
    BY <2>2, TailTyped
  <2>4. emitted' \in 0..Reading /\ spoken' \in Seq((0..(MaxRetries + 1)) \X (1..Reading))
    BY <1>1, <2>1, <2>3
  <2>5. UNCHANGED <<config, genStage, attempt, source>>
    BY <1>8 DEF FrameArrives
  <2> QED BY <2>1, <2>2, <2>4, <2>5 DEF GenTypeOK
<1>9. CASE StreamEnds
  <2>1. CASE AfterFailure /\ UNCHANGED spoken
    BY <1>3, <1>9, <2>1 DEF StreamEnds
  <2>2. CASE /\ Take(attempt) /\ spoken' = spoken \o NewTail(Legible(received))
             /\ emitted' = Legible(received) /\ UNCHANGED <<attempt, form, received>>
    <3>1. received \in 0..(2 * Letters) /\ config' = config
      BY <1>1, <1>9 DEF StreamEnds
    <3>2. emitted' \in 0..Reading /\ spoken' \in Seq((0..(MaxRetries + 1)) \X (1..Reading))
      BY <2>2, <3>1, TailTyped
    <3> QED BY <1>1, <2>2, <3>1, <3>2 DEF Take, GenTypeOK
  <2> QED BY <1>9, <2>1, <2>2 DEF StreamEnds
<1>10. CASE PublishPlan
  <2> DEFINE all == [i \in 1..Letters |-> <<source, i>>]
             pairs == (0..(MaxRetries + 1)) \X (1..Reading)
  <2>1. /\ genStage' = "done" /\ spoken' \in {spoken, all}
        /\ UNCHANGED <<config, attempt, form, received, emitted, source>>
    BY <1>10 DEF PublishPlan, WholeSummary
  <2>2. \A i \in 1..Letters : <<source, i>> \in pairs
    <3>1. source \in 0..(MaxRetries + 1)
      BY <1>1
    <3>2. Letters <= Reading /\ Reading \in Nat
      BY LegibleGrows
    <3> QED BY <3>1, <3>2
  <2>3. all \in Seq(pairs)
    <3> HIDE DEF pairs
    <3> QED BY <2>2
  <2> HIDE DEF all
  <2>4. spoken' \in Seq((0..(MaxRetries + 1)) \X (1..Reading))
    BY <1>1, <2>1, <2>3
  <2> QED BY <1>1, <2>1, <2>4 DEF GenTypeOK
<1>11. CASE UNCHANGED genVars
  BY <1>11 DEF genVars, GenTypeOK
<1> QED BY <1>2, <1>5, <1>6, <1>7, <1>8, <1>9, <1>10, <1>11 DEF GenNext

\* However attempts fail and frames cut, the generator never goes beyond its
\* last retry and never speaks a character that is not read (Generate).
THEOREM GenTypeCorrect == GenSpec => []GenTypeOK
<1>1. GenInit => GenTypeOK /\ NoneBegun
  BY GeneratorAssumption, LegibleGrows DEF GenInit, GenTypeOK, NoneBegun
<1> QED BY <1>1, GenTypeStep, NoneBegunStep, PTL DEF GenSpec

-----------------------------------------------------------------------------
(* Texts, words and lists of a brief                                      *)

\* The texts that TrimSpace returns, and those of them that hold a word.
Named == {<<w>> : w \in Words}
Trimmed == Named \cup {<<>>}

\* A trimmed text is empty or its word.
LEMMA TrimTyped ==
    ASSUME NEW t \in Text
    PROVE  \/ TrimSpace(t) = <<>> /\ \A i \in DOMAIN t : t[i] \notin Words
           \/ \E w \in Words : /\ TrimSpace(t) = <<w>>
                               /\ \E i \in DOMAIN t : t[i] = w
<1>1. t \in Seq(Words \cup {Blank})
  BY DEF Text
<1>2. \A i, j \in DOMAIN t : t[i] \in Words /\ t[j] \in Words => i = j
  BY DEF Text
<1>3. \/ KeptIn(t, Words) = <<>> /\ \A i \in DOMAIN t : t[i] \notin Words
      \/ \E i \in DOMAIN t : t[i] \in Words /\ KeptIn(t, Words) = <<t[i]>>
  BY <1>1, <1>2, KeptShort
<1> QED BY <1>3 DEF TrimSpace

\* Trimming again changes nothing.
LEMMA TrimTwice ==
    ASSUME NEW t \in Trimmed
    PROVE  t \in Text /\ TrimSpace(t) = t
<1>1. CASE t = <<>>
  <2>1. t \in Text
    BY <1>1 DEF Text
  <2> QED BY <1>1, <2>1, TrimTyped
<1>2. CASE t \in Named
  <2>1. PICK w \in Words : t = <<w>>
    BY <1>2 DEF Named
  <2>2. t \in Seq(Words \cup {Blank}) /\ DOMAIN t = 1..1 /\ t[1] = w
    BY <2>1
  <2>3. \A i \in DOMAIN t : i = 1
    BY <2>2
  <2>4. t \in Text
    BY <2>2, <2>3 DEF Text
  <2>5. 1 \in DOMAIN t
    BY <2>2
  <2> QED BY <2>1, <2>2, <2>3, <2>4, <2>5, TrimTyped
<1> QED BY <1>1, <1>2 DEF Trimmed

\* Of a list the texts that hold a word are kept, trimmed.
LEMMA TrimmedOnlyWords ==
    ASSUME NEW list \in Seq(Text)
    PROVE  TrimmedOnly(list) \in Seq(Named) /\ Range(TrimmedOnly(list)) = WordsOf(list)
<1> DEFINE tl == [i \in DOMAIN list |-> TrimSpace(list[i])]
           I == {i \in DOMAIN list : TrimSpace(list[i]) # <<>>}
           r == ElementsAt(tl, I)
<1>1. \A i \in DOMAIN list : list[i] \in Text /\ TrimSpace(list[i]) \in Trimmed
  BY TrimTyped DEF Trimmed, Named
<1>2. tl \in Seq(Trimmed) /\ DOMAIN tl = DOMAIN list
  BY <1>1
<1>3. I \in SUBSET DOMAIN tl
  BY <1>2
<1>4. \A i \in I : tl[i] = TrimSpace(list[i]) /\ tl[i] \in Named
  BY <1>1 DEF Trimmed
<1>5. TrimmedOnly(list) = r
  BY DEF TrimmedOnly
<1>6. {tl[i] : i \in I} = WordsOf(list)
  BY DEF WordsOf
<1> HIDE DEF tl, I
<1>7. r \in Seq(Trimmed) /\ \E p : Picks(p, r, tl, I)
  BY <1>2, <1>3, ElementsAtPicks
<1> HIDE DEF r
<1>8. PICK p : Picks(p, r, tl, I)
  BY <1>7
<1>9. \A k \in 1 .. Len(r) : r[k] \in Named
  BY <1>4, <1>8 DEF Picks
<1>10. r \in Seq(Named)
  BY <1>7, <1>9
<1>11. Range(r) = {tl[i] : i \in I}
  <2> HIDE DEF Trimmed
  <2>1. r \in Seq(Trimmed) /\ Picks(p, r, tl, I)
    BY <1>7, <1>8
  <2>2. \A k \in 1 .. Len(r) : p[k] \in I /\ r[k] = tl[p[k]]
    BY <2>1 DEF Picks
  <2>3. \A i \in I : \E k \in 1 .. Len(r) : p[k] = i
    BY <2>1 DEF Picks
  <2>4. DOMAIN r = 1 .. Len(r)
    BY <2>1
  <2> QED BY <2>2, <2>3, <2>4 DEF Range
<1> QED BY <1>5, <1>6, <1>10, <1>11

\* The normal form of a list has each of its words once.
LEMMA NormalList ==
    ASSUME NEW list \in Seq(Text)
    PROVE  /\ normalizeStringSlice(list) \in Seq(Named)
           /\ Range(normalizeStringSlice(list)) = WordsOf(list)
           /\ \A i, j \in DOMAIN normalizeStringSlice(list) :
                 normalizeStringSlice(list)[i] = normalizeStringSlice(list)[j] => i = j
BY TrimmedOnlyWords, FirstsOnlyOnce DEF normalizeStringSlice

\* The normal form of a list is one already.
LEMMA NamedWords ==
    ASSUME NEW list \in Seq(Named)
    PROVE  list \in Seq(Text) /\ WordsOf(list) = Range(list)
<1>1. \A i \in DOMAIN list : list[i] \in Text /\ TrimSpace(list[i]) = list[i] /\ list[i] # <<>>
  <2>1. \A t \in Named : t # <<>> /\ t \in Trimmed
    BY DEF Named, Trimmed
  <2> QED BY <2>1, TrimTwice
<1>2. list \in Seq(Text)
  BY <1>1
<1>3. WordsOf(list) = Range(list)
  BY <1>1 DEF WordsOf, Range
<1> QED BY <1>2, <1>3

LEMMA NormalWords ==
    ASSUME NEW list \in Seq(Text)
    PROVE  /\ normalizeStringSlice(list) \in Seq(Text)
           /\ WordsOf(normalizeStringSlice(list)) = WordsOf(list)
           /\ normalizeStringSlice(list) = <<>> <=> WordsOf(list) = {}
<1>1. /\ normalizeStringSlice(list) \in Seq(Named)
      /\ Range(normalizeStringSlice(list)) = WordsOf(list)
  BY NormalList
<1>2. \A s \in Seq(Named) : s = <<>> <=> Range(s) = {}
  <2> SUFFICES ASSUME NEW s \in Seq(Named) PROVE s = <<>> <=> Range(s) = {}
    OBVIOUS
  <2>1. s # <<>> => 1 \in DOMAIN s
    OBVIOUS
  <2> QED BY <2>1 DEF Range
<1> QED BY <1>1, <1>2, NamedWords

\* Merged lists have the words of both.
LEMMA WordsOfMerged ==
    ASSUME NEW a \in Seq(Text), NEW b \in Seq(Text)
    PROVE  /\ mergeUniqueStrings(a, b) \in Seq(Text)
           /\ WordsOf(mergeUniqueStrings(a, b)) = WordsOf(a) \cup WordsOf(b)
<1>1. a \o b \in Seq(Text)
  OBVIOUS
<1>2. WordsOf(a \o b) = WordsOf(a) \cup WordsOf(b)
  <2> DEFINE c == a \o b
  <2>1. /\ Len(a) \in Nat /\ Len(b) \in Nat /\ Len(c) = Len(a) + Len(b)
        /\ \A i \in 1 .. Len(a) : c[i] = a[i]
        /\ \A i \in 1 .. Len(b) : c[Len(a) + i] = b[i]
        /\ DOMAIN c = 1 .. Len(a) + Len(b) /\ DOMAIN a = 1 .. Len(a)
        /\ DOMAIN b = 1 .. Len(b)
    OBVIOUS
  <2> HIDE DEF c
  <2>2. \A i \in 1 .. Len(a) + Len(b) :
           \/ i \in 1 .. Len(a)
           \/ i - Len(a) \in 1 .. Len(b) /\ i = Len(a) + (i - Len(a))
    BY <2>1
  <2>3. /\ \A i \in 1 .. Len(a) : i \in 1 .. Len(a) + Len(b)
        /\ \A i \in 1 .. Len(b) : Len(a) + i \in 1 .. Len(a) + Len(b)
    BY <2>1
  <2>4. {c[i] : i \in DOMAIN c} = {a[i] : i \in DOMAIN a} \cup {b[i] : i \in DOMAIN b}
    <3>1. \A i \in DOMAIN c : (\E j \in DOMAIN a : c[i] = a[j]) \/ \E j \in DOMAIN b : c[i] = b[j]
      <4> SUFFICES ASSUME NEW i \in DOMAIN c
                   PROVE  (\E j \in DOMAIN a : c[i] = a[j]) \/ \E j \in DOMAIN b : c[i] = b[j]
        OBVIOUS
      <4>1. CASE i \in 1 .. Len(a)
        BY <2>1, <4>1
      <4>2. CASE i - Len(a) \in 1 .. Len(b) /\ i = Len(a) + (i - Len(a))
        <5>1. PICK j \in 1 .. Len(b) : i = Len(a) + j
          BY <4>2
        <5>2. c[i] = b[j] /\ j \in DOMAIN b
          BY <2>1, <5>1
        <5> QED BY <5>2
      <4> QED BY <2>1, <2>2, <4>1, <4>2
    <3>2. /\ \A j \in DOMAIN a : \E i \in DOMAIN c : c[i] = a[j]
          /\ \A j \in DOMAIN b : \E i \in DOMAIN c : c[i] = b[j]
      BY <2>1, <2>3
    <3> QED BY <3>1, <3>2
  <2>5. \A s : WordsOf(s) = {TrimSpace(t) : t \in {s[i] : i \in DOMAIN s}} \ {<<>>}
    BY DEF WordsOf
  <2> QED BY <2>4, <2>5 DEF c
<1> QED BY <1>1, <1>2, NormalWords DEF mergeUniqueStrings

\* The normal form of a brief, and what is merged of two, are briefs.
LEMMA NormalPace ==
    ASSUME ConversationAssumption, NEW t \in Text
    PROVE  NormalizePace(t) \in Text
<1>1. CASE TrimSpace(t) = <<>>
  <2>1. <<DefaultPace>> \in Trimmed
    BY DEF ConversationAssumption, Trimmed, Named
  <2>2. NormalizePace(t) = <<DefaultPace>>
    BY <1>1 DEF NormalizePace
  <2> QED BY <2>1, <2>2, TrimTwice
<1>2. CASE \E w \in Words : TrimSpace(t) = <<w>>
  <2>1. PICK w \in Words : TrimSpace(t) = <<w>>
    BY <1>2
  <2>2. [i \in DOMAIN <<w>> |-> Label[(<<w>>)[i]]] = <<Label[w]>>
    <3> DEFINE s == <<w>>
    <3>1. DOMAIN s = 1 .. 1 /\ \A i \in 1 .. 1 : i = 1
      OBVIOUS
    <3>2. s[1] = w
      OBVIOUS
    <3> HIDE DEF s
    <3>3. [i \in DOMAIN s |-> Label[s[i]]] = [i \in 1 .. 1 |-> Label[w]]
      BY <3>1, <3>2
    <3>4. [i \in 1 .. 1 |-> Label[w]] = <<Label[w]>>
      OBVIOUS
    <3> QED BY <3>3, <3>4 DEF s
  <2>3. NormalizePace(t) = <<Label[w]>>
    <3>1. <<w>> # <<>>
      OBVIOUS
    <3> QED BY <2>1, <2>2, <3>1 DEF NormalizePace
  <2>4. Label[w] \in Words
    BY <2>1 DEF ConversationAssumption
  <2>5. <<Label[w]>> \in Trimmed
    BY <2>4 DEF Trimmed, Named
  <2> QED BY <2>3, <2>5, TrimTwice
<1> QED BY <1>1, <1>2, TrimTyped

\* What a budget includes is in normal form like any list, once the default
\* is put in.
LEMMA NormalIncludes ==
    ASSUME ConversationAssumption, NEW list \in Seq(Text)
    PROVE  /\ Included(list) \in Seq(Text)
           /\ normalizeIncludes(list) = normalizeStringSlice(Included(list))
           /\ normalizeIncludes(list) \in Seq(Text)
           /\ WordsOf(normalizeIncludes(list)) = WordsOf(Included(list))
           /\ WordsOf(Included(list)) # {}
<1>1. /\ DefaultIncludes \in Seq(Text) /\ DefaultIncludes # <<>>
      /\ DefaultIncludes = normalizeStringSlice(DefaultIncludes)
  BY DEF ConversationAssumption
<1>2. Included(list) \in Seq(Text)
  BY <1>1 DEF Included
<1>3. normalizeStringSlice(list) = <<>> <=> WordsOf(list) = {}
  BY NormalWords
<1>4. normalizeIncludes(list) = normalizeStringSlice(Included(list))
  BY <1>1, <1>3 DEF normalizeIncludes, Included
<1>5. normalizeStringSlice(DefaultIncludes) = <<>> <=> WordsOf(DefaultIncludes) = {}
  BY <1>1, NormalWords
<1>6. WordsOf(Included(list)) # {}
  BY <1>1, <1>5 DEF Included
<1> QED BY <1>2, <1>4, <1>6, NormalWords

LEMMA NormalBrief ==
    ASSUME ConversationAssumption, NEW b \in TravelBrief
    PROVE  NormalizeTravelBrief(b) \in TravelBrief
<1>1. /\ b.city \in Text /\ b.days \in Nat /\ b.pace \in Text
      /\ b.interests \in Seq(Text) /\ b.must \in Seq(Text) /\ b.includes \in Seq(Text)
  BY DEF TravelBrief
<1>2. TrimSpace(b.city) \in Text
  <2>1. TrimSpace(b.city) \in Trimmed
    BY <1>1, TrimTyped DEF Trimmed, Named
  <2> QED BY <2>1, TrimTwice
<1> QED BY <1>1, <1>2, NormalPace, NormalWords, NormalIncludes DEF NormalizeTravelBrief, TravelBrief

LEMMA MergedBrief ==
    ASSUME NEW b \in TravelBrief, NEW x \in TravelBrief
    PROVE  mergeTravelRequest(b, x) \in TravelBrief
<1>1. /\ {b.city, b.pace, x.city, x.pace} \subseteq Text /\ {b.days, x.days} \subseteq Nat
      /\ {b.interests, b.must, x.interests, x.must} \subseteq Seq(Text)
      /\ {b.includes, x.includes, <<>>} \subseteq Seq(Text)
  BY DEF TravelBrief
<1> QED BY <1>1, WordsOfMerged DEF mergeTravelRequest, TravelBrief

-----------------------------------------------------------------------------
(* The briefs of a conversation *)

ChatInv == ChatTypeOK /\ (phase = "extracting" => turn \in 1..MaxTurns)

LEMMA OwnTyped ==
    ASSUME ConversationAssumption
    PROVE  OwnReply \in Seq({"own", "streamed"} \X (1..ReplyWords))
<1> DEFINE S == {"own", "streamed"} \X (1..ReplyWords)
<1>1. ReplyWords \in Nat /\ \A i \in 1..ReplyWords : <<"own", i>> \in S
  BY DEF ConversationAssumption
<1> HIDE DEF S
<1>2. [i \in 1..ReplyWords |-> <<"own", i>>] \in Seq(S)
  BY <1>1
<1> QED BY <1>2 DEF OwnReply, S

LEMMA ChatTypeStart == ASSUME ConversationAssumption, ChatInit PROVE ChatInv
<1>1. NoBrief \in TravelBrief
  <2>1. <<>> \in Text /\ <<>> \in Seq(Text)
    BY DEF Text
  <2> QED BY <2>1 DEF NoBrief, TravelBrief
<1>2. OwnReply \in Seq({"own", "streamed"} \X (1..ReplyWords))
  BY OwnTyped
<1> DEFINE S == {"own", "streamed"} \X (1..ReplyWords)
<1>3. {reply, said} \subseteq Seq(S)
  <2>1. OwnReply \in Seq(S) /\ <<>> \in Seq(S)
    BY <1>2
  <2> HIDE DEF S
  <2> QED BY <2>1 DEF ChatInit
<1>4. MaxTurns \in Nat
  BY DEF ConversationAssumption
<1>5. requests = {} /\ turn = 0 /\ phase = "idle"
  BY DEF ChatInit
<1> HIDE DEF S
<1>6. /\ extractor \in {"rules", "buffered", "streamed"}
      /\ saw \in BOOLEAN /\ {held, result} \subseteq TravelBrief
  BY <1>1 DEF ChatInit
<1> QED BY <1>3, <1>4, <1>5, <1>6 DEF ChatInv, ChatTypeOK, S

LEMMA ChatTypeStep ==
    ASSUME ConversationAssumption, ChatInv, [ChatNext]_chatVars
    PROVE  ChatInv'
<1> DEFINE Words2 == {"own", "streamed"} \X (1..ReplyWords)
<1>0. ChatTypeOK /\ MaxTurns \in Nat /\ ReplyWords \in Nat /\ Typed \subseteq TravelBrief
  BY DEF ChatInv, ConversationAssumption
<1>01. OwnReply \in Seq(Words2) /\ <<>> \in Seq(Words2)
  <2>1. OwnReply \in Seq(Words2)
    BY OwnTyped
  <2> HIDE DEF Words2
  <2> QED BY <2>1
<1> USE DEF ChatInv, ChatTypeOK
<1>1. CASE Ask
  <2>1. /\ turn < MaxTurns /\ turn' = turn + 1 /\ phase' = "extracting"
        /\ reply' = OwnReply /\ saw' = FALSE /\ said' = <<>>
        /\ UNCHANGED <<extractor, held, result, requests>>
    BY <1>1 DEF Ask
  <2>2. {reply', said'} \subseteq Seq(Words2)
    BY <1>01, <2>1
  <2>3. turn' \in 0..MaxTurns /\ turn' \in 1..MaxTurns
    BY <1>0, <2>1
  <2> HIDE DEF Words2
  <2> QED BY <1>0, <2>1, <2>2, <2>3 DEF Words2
<1>2. CASE ExtractByRules \/ ExtractByModel
  <2>1. PICK x \in Extracts(turn) :
           \/ result' = NormalizeTravelBrief(mergeTravelRequest(NormalizeTravelBrief(held), x))
           \/ result' = NormalizeTravelBrief(x)
    BY <1>2 DEF ExtractByRules, ExtractByModel
  <2>2. x \in TravelBrief
    BY <1>2, <2>1 DEF ExtractByRules, ExtractByModel, ConversationAssumption
  <2>3. NormalizeTravelBrief(held) \in TravelBrief /\ NormalizeTravelBrief(x) \in TravelBrief
    BY <2>2, NormalBrief
  <2>4. mergeTravelRequest(NormalizeTravelBrief(held), x) \in TravelBrief
    BY <2>2, <2>3, MergedBrief
  <2>5. result' \in TravelBrief
    BY <2>1, <2>3, <2>4, NormalBrief
  <2>6. /\ phase' \in {"replying", "answering"}
        /\ UNCHANGED <<extractor, turn, held, reply, saw, said, requests>>
    BY <1>2 DEF ExtractByRules, ExtractByModel
  <2> QED BY <1>0, <2>5, <2>6
<1>3. CASE ReplyWord
  <2>1. Len(said) \in Nat /\ Len(said) + 1 \in 1..ReplyWords
    BY <1>0, <1>3 DEF ReplyWord
  <2>2. <<"streamed", Len(said) + 1>> \in Words2
    BY <2>1
  <2>3. said' \in Seq(Words2)
    <3>1. said \in Seq(Words2) /\ said' = Append(said, <<"streamed", Len(said) + 1>>)
      BY <1>3 DEF ReplyWord
    <3> HIDE DEF Words2
    <3> QED BY <2>2, <3>1
  <2> QED BY <1>0, <1>3, <2>3 DEF ReplyWord
<1>4. CASE ReplySpace \/ ReplyEnds \/ ReplyBreaks
  BY <1>0, <1>4 DEF ReplySpace, ReplyEnds, ReplyBreaks
<1>5. CASE AnswerTurn
  <2>2. said' \in Seq(Words2)
    <3>1. /\ said \in Seq(Words2) /\ reply \in Seq(Words2)
          /\ said' = said \/ said' = said \o reply
      BY <1>5 DEF AnswerTurn
    <3> HIDE DEF Words2, ChatInv, ChatTypeOK
    <3>2. said \o reply \in Seq(Words2)
      BY <3>1, ConcatProperties
    <3> QED BY <3>1, <3>2
  <2> QED BY <1>0, <1>5, <2>2 DEF AnswerTurn
<1>6. CASE TurnLost
  <2>1. /\ phase' = "idle" /\ reply' = OwnReply /\ saw' = FALSE /\ said' = <<>>
        /\ UNCHANGED <<extractor, turn, held, result, requests>>
    BY <1>6 DEF TurnLost
  <2>2. {reply', said'} \subseteq Seq(Words2)
    BY <1>01, <2>1
  <2> HIDE DEF Words2
  <2> QED BY <1>0, <2>1, <2>2 DEF Words2
<1>7. CASE EditBrief
  BY <1>0, <1>7 DEF EditBrief
<1>8. CASE RequestPlan
  BY <1>0, <1>8 DEF RequestPlan
<1>9. CASE UNCHANGED chatVars
  BY <1>0, <1>9 DEF chatVars
<1> QED BY <1>1, <1>2, <1>3, <1>4, <1>5, <1>6, <1>7, <1>8, <1>9 DEF ChatNext

LEMMA ChatInvariant == ChatSpec => []ChatInv
<1>1. ChatInit => ChatInv
  BY ConversationAssumption, ChatTypeStart
<1>2. ChatInv /\ [ChatNext]_chatVars => ChatInv'
  BY ConversationAssumption, ChatTypeStep
<1> QED BY <1>1, <1>2, PTL DEF ChatSpec

\* The variables of a conversation keep their types, and a request the hash
\* of the brief it came with (CreateTask).
THEOREM ChatTypeCorrect == ChatSpec => []ChatTypeOK
BY ChatInvariant, PTL DEF ChatInv

\* What the rules make of a brief, x being what they read from the message.
Updates(x) ==
    LET old == NormalizeTravelBrief(held) IN
    /\ old.city # <<>> => result'.city # <<>>
    /\ old.days > 0 => result'.days > 0
    /\ result'.city \in {old.city, TrimSpace(x.city)}
    /\ result'.days \in {old.days, x.days}
    /\ result'.pace \in {old.pace, NormalizePace(x.pace)}
    /\ WordsOf(result'.interests) = WordsOf(held.interests) \cup WordsOf(x.interests)
    /\ WordsOf(result'.must) = WordsOf(held.must) \cup WordsOf(x.must)
    /\ WordsOf(result'.includes) \in {WordsOf(Included(held.includes)),
                                     WordsOf(Included(x.includes))}

\* A wish list holds the words of both.
LEMMA WishesUnited ==
    ASSUME NEW old \in Seq(Text), NEW new \in Seq(Text)
    PROVE  LET base == normalizeStringSlice(old)
               merged == IF new # <<>> THEN mergeUniqueStrings(base, new) ELSE base
           IN  WordsOf(normalizeStringSlice(merged)) = WordsOf(old) \cup WordsOf(new)
<1> DEFINE base == normalizeStringSlice(old)
           merged == IF new # <<>> THEN mergeUniqueStrings(base, new) ELSE base
<1>1. base \in Seq(Text) /\ WordsOf(base) = WordsOf(old)
  BY NormalWords
<1> HIDE DEF base
<1>2. new = <<>> => WordsOf(new) = {}
  BY DEF WordsOf
<1>3. merged \in Seq(Text) /\ WordsOf(merged) = WordsOf(old) \cup WordsOf(new)
  BY <1>1, <1>2, WordsOfMerged
<1> HIDE DEF merged
<1>4. WordsOf(normalizeStringSlice(merged)) = WordsOf(merged)
  BY <1>3, NormalWords
<1> QED BY <1>3, <1>4 DEF base, merged

\* A label names itself.
LEMMA PaceTwice ==
    ASSUME ConversationAssumption, NEW t \in Text
    PROVE  NormalizePace(NormalizePace(t)) = NormalizePace(t)
<1>1. ASSUME NEW w \in Words
      PROVE  NormalizePace(<<w>>) = <<Label[w]>>
  <2> DEFINE s == <<w>>
  <2>1. TrimSpace(s) = s
    BY TrimTwice DEF Trimmed, Named
  <2>2. DOMAIN s = 1 .. 1 /\ s[1] = w /\ s # <<>> /\ \A i \in 1 .. 1 : i = 1
    OBVIOUS
  <2> HIDE DEF s
  <2>3. [i \in DOMAIN s |-> Label[s[i]]] = [i \in 1 .. 1 |-> Label[w]]
    BY <2>2
  <2>4. [i \in 1 .. 1 |-> Label[w]] = <<Label[w]>>
    OBVIOUS
  <2>5. NormalizePace(s) = <<Label[w]>>
    BY <2>1, <2>2, <2>3, <2>4 DEF NormalizePace
  <2> QED BY <2>5 DEF s
<1>2. \E w \in Words : NormalizePace(t) = <<w>> /\ Label[w] = w
  <2>1. CASE TrimSpace(t) = <<>>
    BY <2>1 DEF NormalizePace, ConversationAssumption
  <2>2. CASE \E w \in Words : TrimSpace(t) = <<w>>
    <3>1. PICK w \in Words : TrimSpace(t) = <<w>>
      BY <2>2
    <3>2. TrimSpace(<<w>>) = <<w>>
      BY TrimTwice DEF Trimmed, Named
    <3>3. NormalizePace(t) = NormalizePace(<<w>>)
      BY <3>1, <3>2 DEF NormalizePace
    <3>4. Label[w] \in Words /\ Label[Label[w]] = Label[w]
      BY DEF ConversationAssumption
    <3> QED BY <1>1, <3>3, <3>4
  <2> QED BY <2>1, <2>2, TrimTyped
<1> QED BY <1>1, <1>2

LEMMA RulesUpdate ==
    ASSUME ConversationAssumption, ChatInv, ExtractByRules
    PROVE  \E x \in Extracts(turn) : Updates(x)
<1> DEFINE b == NormalizeTravelBrief(held)
<1>1. PICK x \in Extracts(turn) : result' = NormalizeTravelBrief(mergeTravelRequest(b, x))
  BY DEF ExtractByRules
<1> DEFINE m == mergeTravelRequest(b, x)
<1>2. x \in TravelBrief /\ (x.city # <<>> => TrimSpace(x.city) # <<>>)
  BY <1>1 DEF ExtractByRules, ChatInv, ConversationAssumption
<1>3. held \in TravelBrief
  BY DEF ChatInv, ChatTypeOK
<1>4. /\ {held.city, x.city, held.pace, x.pace} \subseteq Text
      /\ {held.days, x.days} \subseteq Nat
      /\ {held.interests, held.must, held.includes, x.interests, x.must, x.includes}
            \subseteq Seq(Text)
  <2> HIDE DEF b, m
  <2> QED BY <1>2, <1>3 DEF TravelBrief
<1>5. /\ b.city = TrimSpace(held.city) /\ b.days = held.days
      /\ b.interests = normalizeStringSlice(held.interests)
      /\ b.pace = NormalizePace(held.pace)
      /\ b.must = normalizeStringSlice(held.must)
      /\ b.includes = normalizeIncludes(held.includes)
  BY DEF NormalizeTravelBrief
<1>6. /\ result'.city = TrimSpace(m.city) /\ result'.days = m.days
      /\ result'.interests = normalizeStringSlice(m.interests)
      /\ result'.pace = NormalizePace(m.pace)
      /\ result'.must = normalizeStringSlice(m.must)
      /\ result'.includes = normalizeIncludes(m.includes)
  BY <1>1 DEF NormalizeTravelBrief
<1>7. /\ m.city = IF x.city # <<>> THEN x.city ELSE b.city
      /\ m.days = IF x.days > 0 THEN x.days ELSE b.days
      /\ m.interests = IF x.interests # <<>> THEN mergeUniqueStrings(b.interests, x.interests)
                                             ELSE b.interests
      /\ m.pace = IF x.pace # <<>> THEN x.pace ELSE b.pace
      /\ m.must = IF x.must # <<>> THEN mergeUniqueStrings(b.must, x.must) ELSE b.must
      /\ m.includes = IF x.includes # <<>> THEN mergeUniqueStrings(<<>>, x.includes)
                                           ELSE b.includes
  BY DEF mergeTravelRequest
<1> HIDE DEF b, m
<1>8. TrimSpace(b.city) = b.city
  <2>1. TrimSpace(held.city) \in Trimmed
    BY <1>4, TrimTyped DEF Trimmed, Named
  <2> QED BY <1>5, <2>1, TrimTwice
<1>9. /\ b.city # <<>> => result'.city # <<>>
      /\ result'.city \in {b.city, TrimSpace(x.city)}
  BY <1>2, <1>6, <1>7, <1>8
<1>10. /\ b.days > 0 => result'.days > 0
       /\ result'.days \in {b.days, x.days}
  BY <1>4, <1>5, <1>6, <1>7
<1>11. result'.pace \in {b.pace, NormalizePace(x.pace)}
  <2>1. NormalizePace(b.pace) = b.pace
    BY <1>4, <1>5, PaceTwice
  <2> QED BY <1>6, <1>7, <2>1
<1>12. WordsOf(result'.interests) = WordsOf(held.interests) \cup WordsOf(x.interests)
  BY <1>4, <1>5, <1>6, <1>7, WishesUnited
<1>13. WordsOf(result'.must) = WordsOf(held.must) \cup WordsOf(x.must)
  BY <1>4, <1>5, <1>6, <1>7, WishesUnited
<1>14. WordsOf(result'.includes) \in {WordsOf(Included(held.includes)),
                                     WordsOf(Included(x.includes))}
  <2>1. CASE x.includes = <<>>
    <3>1. /\ b.includes \in Seq(Text) /\ WordsOf(b.includes) = WordsOf(Included(held.includes))
          /\ WordsOf(b.includes) # {}
      BY <1>4, <1>5, NormalIncludes
    <3>2. Included(b.includes) = b.includes
      BY <3>1 DEF Included
    <3>3. WordsOf(normalizeIncludes(b.includes)) = WordsOf(Included(b.includes))
      BY <3>1, NormalIncludes
    <3> QED BY <1>6, <1>7, <2>1, <3>1, <3>2, <3>3
  <2>2. CASE x.includes # <<>>
    <3> DEFINE merged == mergeUniqueStrings(<<>>, x.includes)
    <3>1. merged \in Seq(Text) /\ WordsOf(merged) = WordsOf(x.includes)
      <4>1. <<>> \in Seq(Text) /\ WordsOf(<<>>) = {}
        BY DEF WordsOf
      <4>2. x.includes \in Seq(Text)
        BY <1>4
      <4>3. WordsOf(merged) = WordsOf(<<>>) \cup WordsOf(x.includes) /\ merged \in Seq(Text)
        <5> HIDE DEF b, m
        <5> QED BY <4>1, <4>2, WordsOfMerged
      <4> QED BY <4>1, <4>3
    <3>2. m.includes = merged
      BY <1>7, <2>2
    <3> HIDE DEF merged
    <3>3. WordsOf(normalizeIncludes(merged)) = WordsOf(Included(merged))
      BY <3>1, NormalIncludes
    <3>4. WordsOf(Included(merged)) = WordsOf(Included(x.includes))
      BY <3>1 DEF Included
    <3> QED BY <1>6, <3>2, <3>3, <3>4
  <2> QED BY <2>1, <2>2
<1>15. Updates(x)
  BY <1>9, <1>10, <1>11, <1>12, <1>13, <1>14 DEF Updates, b
<1> QED BY <1>1, <1>15

\* A turn that the rules read changes of a brief what the message says and no
\* more, whatever the brief and the message: what was known stays known, wishes
\* are united, and only what the budget includes is replaced as a whole
\* (mergeTravelRequest between two NormalizeTravelBrief).
THEOREM TurnsOnlyUpdate == ChatSpec => RulesOnlyUpdate
<1>1. ASSUME ChatInv, [ChatNext]_chatVars
      PROVE  [ExtractByRules =>
                LET old == NormalizeTravelBrief(held) IN
                /\ old.city # <<>> => result'.city # <<>>
                /\ old.days > 0 => result'.days > 0
                /\ \E x \in Extracts(turn) :
                      /\ result'.city \in {old.city, TrimSpace(x.city)}
                      /\ result'.days \in {old.days, x.days}
                      /\ result'.pace \in {old.pace, NormalizePace(x.pace)}
                      /\ WordsOf(result'.interests) =
                            WordsOf(held.interests) \cup WordsOf(x.interests)
                      /\ WordsOf(result'.must) = WordsOf(held.must) \cup WordsOf(x.must)
                      /\ WordsOf(result'.includes) \in {WordsOf(Included(held.includes)),
                                                       WordsOf(Included(x.includes))}]_chatVars
  <2> SUFFICES ASSUME ExtractByRules
               PROVE  LET old == NormalizeTravelBrief(held) IN
                /\ old.city # <<>> => result'.city # <<>>
                /\ old.days > 0 => result'.days > 0
                /\ \E x \in Extracts(turn) :
                      /\ result'.city \in {old.city, TrimSpace(x.city)}
                      /\ result'.days \in {old.days, x.days}
                      /\ result'.pace \in {old.pace, NormalizePace(x.pace)}
                      /\ WordsOf(result'.interests) =
                            WordsOf(held.interests) \cup WordsOf(x.interests)
                      /\ WordsOf(result'.must) = WordsOf(held.must) \cup WordsOf(x.must)
                      /\ WordsOf(result'.includes) \in {WordsOf(Included(held.includes)),
                                                       WordsOf(Included(x.includes))}
    OBVIOUS
  <2>1. PICK x \in Extracts(turn) : Updates(x)
    BY <1>1, ConversationAssumption, RulesUpdate
  <2> QED BY <2>1, Zenon DEF Updates
<1> QED BY <1>1, ChatInvariant, PTL DEF ChatSpec, RulesOnlyUpdate

-----------------------------------------------------------------------------
(* Sorting *)

\* Finitely many numbers have a bound.
LEMMA Bounded ==
    ASSUME NEW n \in Nat, NEW k \in [1..n -> Nat]
    PROVE  \E M \in Nat : \A i \in 1..n : k[i] <= M
<1> DEFINE Bound(l) == \E M \in Nat : \A i \in 1..l : k[i] <= M
           T == {l \in Nat : l <= n /\ ~Bound(l)}
<1>1. ASSUME T # {} PROVE FALSE
  <2>1. PICK l \in T : \A j \in T : l <= j
    <3>1. T \subseteq Nat
      OBVIOUS
    <3> HIDE DEF T
    <3> QED BY <1>1, <3>1, LeastOf
  <2>2. l \in Nat /\ l <= n /\ ~Bound(l)
    BY <2>1
  <2>3. l # 0
    <3>1. Bound(0)
      <4>1. 0 \in Nat /\ \A i \in 1..0 : k[i] <= 0
        OBVIOUS
      <4> QED BY <4>1
    <3> HIDE DEF Bound
    <3> QED BY <2>2, <3>1
  <2>4. l - 1 \in Nat /\ l - 1 <= n /\ ~(l <= l - 1) /\ l \in 1..n
    BY <2>2, <2>3
  <2>5. Bound(l - 1)
    <3>1. l - 1 \notin T
      <4> HIDE DEF T
      <4> QED BY <2>1, <2>4
    <3> HIDE DEF Bound
    <3> QED BY <2>4, <3>1
  <2>6. PICK M \in Nat : \A i \in 1..l - 1 : k[i] <= M
    BY <2>5
  <2>7. \A i \in 1..l : i \in 1..l - 1 \/ i = l
    BY <2>2
  <2>8. PICK N \in Nat : M <= N /\ k[l] <= N
    <3>1. PICK x \in Nat : x = k[l]
      BY <2>4
    <3>2. CASE M <= x
      BY <3>1, <3>2
    <3>3. CASE x < M
      BY <3>1, <3>3
    <3> QED BY <3>1, <3>2, <3>3
  <2>9. \A i \in 1..l : k[i] <= N
    <3>1. \A i \in 1..l : k[i] \in Nat
      BY <2>2
    <3> QED BY <2>6, <2>7, <2>8, <3>1
  <2> QED BY <2>2, <2>8, <2>9
<1>2. n \notin T
  <2> HIDE DEF T
  <2> QED BY <1>1
<1> QED BY <1>2

\* Different numbers can be put in order.
LEMMA OrderExists ==
    ASSUME NEW n \in Nat, NEW k \in [1..n -> Nat \ {0}],
           \A i, j \in 1..n : k[i] = k[j] => i = j
    PROVE  \E p \in Bijection(1..n, 1..n) : \A i, j \in 1..n : i < j => k[p[i]] <= k[p[j]]
<1>1. PICK M \in Nat : \A i \in 1..n : k[i] <= M
  <2>1. k \in [1..n -> Nat]
    OBVIOUS
  <2> QED BY <2>1, Bounded
<1> DEFINE K == {k[i] : i \in 1..n}
           self == [w \in 1..M |-> w]
           r == ElementsAt(self, K)
<1>2. self \in Seq(Nat) /\ DOMAIN self = 1..M
  OBVIOUS
<1>3. K \in SUBSET DOMAIN self /\ K \subseteq Nat
  <2>1. \A i \in 1..n : k[i] \in Nat /\ k[i] \in 1..M
    BY <1>1
  <2> QED BY <1>2, <2>1
<1>4. /\ \A w \in K : \E i \in 1..n : k[i] = w
      /\ \A i \in 1..n : k[i] \in K
  OBVIOUS
<1> HIDE DEF self, K
<1>5. r \in Seq(Nat) /\ \E p : Picks(p, r, self, K)
  BY <1>2, <1>3, ElementsAtPicks
<1> HIDE DEF r
<1>6. PICK p : Picks(p, r, self, K)
  BY <1>5
<1> DEFINE m == Len(r)
<1>7. /\ m \in Nat /\ p \in [1..m -> K]
      /\ \A i, j \in 1..m : i < j => p[i] < p[j]
      /\ \A w \in K : \E i \in 1..m : p[i] = w
  BY <1>5, <1>6 DEF Picks
<1> HIDE DEF m
<1> DEFINE q == [i \in 1..m |-> CHOOSE j \in 1..n : k[j] = p[i]]
<1>8. \A i \in 1..m : q[i] \in 1..n /\ k[q[i]] = p[i]
  <2> SUFFICES ASSUME NEW i \in 1..m PROVE q[i] \in 1..n /\ k[q[i]] = p[i]
    OBVIOUS
  <2>1. p[i] \in K
    BY <1>7
  <2>2. \E j \in 1..n : k[j] = p[i]
    BY <1>4, <2>1
  <2> QED BY <2>2
<1>9. q \in [1..m -> 1..n]
  BY <1>8
<1> HIDE DEF q
<1>10. \A i, j \in 1..m : q[i] = q[j] => i = j
  <2> SUFFICES ASSUME NEW i \in 1..m, NEW j \in 1..m, q[i] = q[j] PROVE i = j
    OBVIOUS
  <2>1. p[i] = p[j] /\ p[i] \in Nat
    BY <1>3, <1>7, <1>8
  <2>2. ~(i < j) /\ ~(j < i)
    BY <1>7, <2>1
  <2> QED BY <1>7, <2>2
<1>11. \A j \in 1..n : \E i \in 1..m : q[i] = j
  <2> SUFFICES ASSUME NEW j \in 1..n PROVE \E i \in 1..m : q[i] = j
    OBVIOUS
  <2>1. PICK i \in 1..m : p[i] = k[j]
    BY <1>4, <1>7
  <2> QED BY <1>8, <2>1
<1>12. q \in Bijection(1..m, 1..n)
  BY <1>9, <1>10, <1>11 DEF Bijection, Injection, Surjection, IsInjective
<1>13. m = n
  <2>1. ExistsBijection(1..m, 1..n)
    BY <1>12 DEF ExistsBijection
  <2>2. /\ IsFiniteSet(1..m) /\ Cardinality(1..m) = IF 1 > m THEN 0 ELSE m - 1 + 1
        /\ Cardinality(1..n) = IF 1 > n THEN 0 ELSE n - 1 + 1
    BY <1>7, FS_Interval
  <2>3. Cardinality(1..m) = Cardinality(1..n)
    BY <2>1, <2>2, FS_Bijection
  <2> QED BY <1>7, <2>2, <2>3
<1>14. \A i, j \in 1..n : i < j => k[q[i]] <= k[q[j]]
  <2>1. \A i \in 1..m : p[i] \in Nat
    BY <1>3, <1>7
  <2> SUFFICES ASSUME NEW i \in 1..n, NEW j \in 1..n, i < j PROVE k[q[i]] <= k[q[j]]
    OBVIOUS
  <2>2. p[i] < p[j] /\ p[i] \in Nat /\ p[j] \in Nat
    BY <1>7, <1>13, <2>1
  <2>3. k[q[i]] = p[i] /\ k[q[j]] = p[j]
    BY <1>8, <1>13
  <2> QED BY <2>2, <2>3
<1> QED BY <1>12, <1>13, <1>14

Rises(a, n) == a \in [1..n -> Nat] /\ \A i, j \in 1..n : i < j => a[i] < a[j]
WithinText(a, m, b, n) == \A i \in 1..m : \E j \in 1..n : b[j] = a[i]
AgreeUpTo(a, b, l) == \A i \in 1..l : a[i] = b[i]

\* Of two rising sequences with the same numbers neither is ahead,
LEMMA NeitherAhead ==
    ASSUME NEW m \in Nat, NEW n \in Nat, NEW a, NEW b, Rises(a, m), Rises(b, n),
           WithinText(a, m, b, n), NEW l \in 1..m, l \in 1..n, AgreeUpTo(a, b, l - 1)
    PROVE  ~(a[l] < b[l])
<1> SUFFICES ASSUME a[l] < b[l] PROVE FALSE
  OBVIOUS
<1>1. PICK j \in 1..n : b[j] = a[l]
  BY DEF WithinText
<1>2. l \in Nat /\ j \in Nat /\ {a[l], b[l], b[j]} \subseteq Nat
  BY DEF Rises
<1>3. CASE j < l
  <2>1. j \in 1..l - 1 /\ j \in 1..m
    BY <1>2, <1>3
  <2>2. a[j] < a[l] /\ a[j] = b[j]
    BY <1>3, <2>1 DEF AgreeUpTo, Rises
  <2> QED BY <1>1, <1>2, <2>2
<1>4. CASE l < j
  <2>1. b[l] < b[j]
    BY <1>4 DEF Rises
  <2> QED BY <1>1, <1>2, <2>1
<1>5. CASE l = j
  BY <1>1, <1>2, <1>5
<1> QED BY <1>2, <1>3, <1>4, <1>5

\* and neither goes on when the other ends,
LEMMA NeitherLonger ==
    ASSUME NEW m \in Nat, NEW n \in Nat, NEW a, NEW b, Rises(a, m), Rises(b, n),
           WithinText(b, n, a, m), AgreeUpTo(a, b, m)
    PROVE  ~(m < n)
<1> SUFFICES ASSUME m < n PROVE FALSE
  OBVIOUS
<1>1. m + 1 \in 1..n /\ \A j \in 1..m : j \in 1..n /\ j < m + 1
  OBVIOUS
<1>2. PICK j \in 1..m : a[j] = b[m + 1]
  BY <1>1 DEF WithinText
<1>3. b[j] < b[m + 1] /\ a[j] = b[j] /\ b[j] \in Nat
  BY <1>1 DEF Rises, AgreeUpTo
<1> QED BY <1>2, <1>3

\* so they are one.
LEMMA RisingUnique ==
    ASSUME NEW m \in Nat, NEW n \in Nat, NEW a, NEW b, Rises(a, m), Rises(b, n),
           WithinText(a, m, b, n), WithinText(b, n, a, m)
    PROVE  m = n /\ a = b
<1> DEFINE T == {i \in 1..m : i \in 1..n /\ a[i] # b[i]}
<1>1. ASSUME T # {} PROVE FALSE
  <2>1. PICK l \in T : \A i \in T : l <= i
    <3>1. T \subseteq Nat
      OBVIOUS
    <3> HIDE DEF T
    <3> QED BY <1>1, <3>1, LeastOf
  <2>2. l \in 1..m /\ l \in 1..n /\ a[l] # b[l]
    BY <2>1
  <2>3. a[l] \in Nat /\ b[l] \in Nat
    BY <2>2 DEF Rises
  <2>4. \A i \in 1..l - 1 : a[i] = b[i]
    <3> SUFFICES ASSUME NEW i \in 1..l - 1, a[i] # b[i] PROVE FALSE
      OBVIOUS
    <3>1. i \in 1..m /\ i \in 1..n /\ ~(l <= i)
      BY <2>2
    <3> QED BY <2>1, <3>1
  <2>5. AgreeUpTo(a, b, l - 1) /\ AgreeUpTo(b, a, l - 1)
    BY <2>4 DEF AgreeUpTo
  <2>6. ~(a[l] < b[l])
    BY <2>2, <2>5, NeitherAhead
  <2>7. ~(b[l] < a[l])
    BY <2>2, <2>5, NeitherAhead
  <2> QED BY <2>2, <2>3, <2>6, <2>7
<1>2. \A i \in 1..m : i \in 1..n => a[i] = b[i]
  BY <1>1
<1>3. ~(m < n)
  <2>1. m < n => AgreeUpTo(a, b, m)
    BY <1>2 DEF AgreeUpTo
  <2> QED BY <2>1, NeitherLonger
<1>4. ~(n < m)
  <2>1. n < m => AgreeUpTo(b, a, n)
    BY <1>2 DEF AgreeUpTo
  <2> QED BY <2>1, NeitherLonger
<1>5. m = n
  BY <1>3, <1>4
<1> QED BY <1>2, <1>5 DEF Rises

\* A list without repetitions is sorted without losing or repeating any.
LEMMA SortedList ==
    ASSUME ConversationAssumption, NEW list \in Seq(Named),
           \A i, j \in DOMAIN list : list[i] = list[j] => i = j
    PROVE  /\ sortedCopy(list) \in Seq(Named) /\ Range(sortedCopy(list)) = Range(list)
           /\ \A i, j \in DOMAIN sortedCopy(list) :
                 i < j => sortedCopy(list)[i][1] < sortedCopy(list)[j][1]
<1> DEFINE n == Len(list)
           Order(p) == \A i, j \in DOMAIN list : i < j => list[p[i]][1] <= list[p[j]][1]
           order == CHOOSE p \in Bijection(DOMAIN list, DOMAIN list) : Order(p)
           s == sortedCopy(list)
<1>1. n \in Nat /\ DOMAIN list = 1..n /\ \A i \in 1..n : list[i] \in Named
  OBVIOUS
<1>2. \A t \in Named : t = <<t[1]>> /\ t[1] \in Words /\ t[1] \in Nat \ {0}
  BY DEF Named, ConversationAssumption
<1>3. s = [i \in 1..n |-> list[order[i]]]
  BY <1>1 DEF sortedCopy
<1> DEFINE k == [i \in 1..n |-> list[i][1]]
<1>4. /\ k \in [1..n -> Nat \ {0}] /\ \A i, j \in 1..n : k[i] = k[j] => i = j
      /\ \A i \in 1..n : k[i] = list[i][1]
  <2>1. \A i \in 1..n : k[i] = list[i][1] /\ k[i] \in Nat \ {0} /\ list[i] = <<k[i]>>
    BY <1>1, <1>2
  <2>2. DOMAIN k = 1..n /\ k \in [1..n -> Nat \ {0}]
    BY <2>1
  <2>3. \A i, j \in 1..n : k[i] = k[j] => list[i] = list[j]
    <3> HIDE DEF k
    <3> QED BY <2>1
  <2>4. \A i, j \in 1..n : list[i] = list[j] => i = j
    <3> HIDE DEF k, n
    <3> QED BY <1>1
  <2> HIDE DEF k, n
  <2> QED BY <2>1, <2>2, <2>3, <2>4
<1> HIDE DEF k, n, s
<1>5. order \in Bijection(1..n, 1..n) /\ Order(order)
  <2>1. PICK p \in Bijection(1..n, 1..n) : \A i, j \in 1..n : i < j => k[p[i]] <= k[p[j]]
    BY <1>1, <1>4, OrderExists
  <2>2. \A i \in 1..n : p[i] \in 1..n
    BY <2>1 DEF Bijection, Injection
  <2>3. Order(p)
    BY <1>1, <1>4, <2>1, <2>2
  <2> HIDE DEF Order
  <2>4. \E x \in Bijection(DOMAIN list, DOMAIN list) : Order(x)
    BY <1>1, <2>1, <2>3
  <2>5. order \in Bijection(DOMAIN list, DOMAIN list) /\ Order(order)
    BY <2>4
  <2> QED BY <1>1, <2>5
<1> HIDE DEF order
<1>6. /\ order \in [1..n -> 1..n]
      /\ \A i, j \in 1..n : order[i] = order[j] => i = j
      /\ \A j \in 1..n : \E i \in 1..n : order[i] = j
  BY <1>5 DEF Bijection, Injection, Surjection, IsInjective
<1>7. /\ s \in Seq(Named) /\ DOMAIN s = 1..n
      /\ \A i \in 1..n : s[i] = list[order[i]] /\ order[i] \in 1..n
  <2>1. \A i \in 1..n : order[i] \in 1..n /\ list[order[i]] \in Named
    BY <1>1, <1>6
  <2>2. DOMAIN s = 1..n /\ \A i \in 1..n : s[i] = list[order[i]]
    BY <1>3
  <2>3. s \in [1..n -> Named]
    BY <1>3, <2>1
  <2>4. \A f \in [1..n -> Named] : f \in Seq(Named)
    BY <1>1
  <2> QED BY <2>1, <2>2, <2>3, <2>4
<1>8. Range(s) = Range(list)
  BY <1>1, <1>6, <1>7 DEF Range
<1>9. ASSUME NEW i \in 1..n, NEW j \in 1..n, i < j
      PROVE  s[i][1] < s[j][1]
  <2>1. s[i][1] = k[order[i]] /\ s[j][1] = k[order[j]]
    BY <1>4, <1>7
  <2>2. k[order[i]] <= k[order[j]]
    <3>1. \A x, y \in DOMAIN list : x < y => list[order[x]][1] <= list[order[y]][1]
      BY <1>5
    <3>2. i \in DOMAIN list /\ j \in DOMAIN list /\ s[i] = list[order[i]] /\ s[j] = list[order[j]]
      BY <1>1, <1>7
    <3> HIDE DEF Order
    <3> QED BY <1>9, <2>1, <3>1, <3>2
  <2>3. k[order[i]] # k[order[j]]
    <3>1. i # j /\ order[i] \in 1..n /\ order[j] \in 1..n
      BY <1>1, <1>7, <1>9
    <3>2. order[i] # order[j]
      BY <1>6, <3>1
    <3> QED BY <1>4, <3>1, <3>2
  <2>4. k[order[i]] \in Nat /\ k[order[j]] \in Nat
    BY <1>4, <1>6
  <2> QED BY <2>1, <2>2, <2>3, <2>4
<1> QED BY <1>7, <1>8, <1>9 DEF s

\* Of lists without repetitions the sorted copies tell the words, not the order.
LEMMA SortedAgree ==
    ASSUME ConversationAssumption, NEW a \in Seq(Named), NEW b \in Seq(Named),
           \A i, j \in DOMAIN a : a[i] = a[j] => i = j,
           \A i, j \in DOMAIN b : b[i] = b[j] => i = j
    PROVE  sortedCopy(a) = sortedCopy(b) <=> Range(a) = Range(b)
<1> DEFINE s == sortedCopy(a)
           t == sortedCopy(b)
<1>1. /\ s \in Seq(Named) /\ Range(s) = Range(a)
      /\ \A i, j \in DOMAIN s : i < j => s[i][1] < s[j][1]
  BY SortedList
<1>2. /\ t \in Seq(Named) /\ Range(t) = Range(b)
      /\ \A i, j \in DOMAIN t : i < j => t[i][1] < t[j][1]
  BY SortedList
<1> HIDE DEF s, t
<1>3. ASSUME Range(a) = Range(b)
      PROVE  s = t
  <2> DEFINE m == Len(s)
             n == Len(t)
             x == [i \in 1..m |-> s[i][1]]
             y == [i \in 1..n |-> t[i][1]]
  <2>1. m \in Nat /\ n \in Nat /\ DOMAIN s = 1..m /\ DOMAIN t = 1..n
    BY <1>1, <1>2
  <2>2. \A c \in Named : c = <<c[1]>> /\ c[1] \in Nat
    BY DEF Named, ConversationAssumption
  <2>3. /\ \A i \in 1..m : s[i] \in Named
        /\ \A i \in 1..n : t[i] \in Named
    BY <1>1, <1>2, <2>1
  <2>4. {s[i] : i \in 1..m} = {t[i] : i \in 1..n}
    <3> HIDE DEF m, n, x, y
    <3> QED BY <1>1, <1>2, <1>3, <2>1 DEF Range
  <2>5. \A i \in 1..m : s[i] \in Named /\ \E j \in 1..n : t[j] = s[i]
    <3> HIDE DEF m, n, x, y
    <3> SUFFICES ASSUME NEW i \in 1..m PROVE \E j \in 1..n : t[j] = s[i]
      BY <2>3
    <3>1. s[i] \in {t[j] : j \in 1..n}
      BY <2>4
    <3> QED BY <3>1
  <2>6. \A i \in 1..n : t[i] \in Named /\ \E j \in 1..m : s[j] = t[i]
    <3> HIDE DEF m, n, x, y
    <3> SUFFICES ASSUME NEW i \in 1..n PROVE \E j \in 1..m : s[j] = t[i]
      BY <2>3
    <3>1. t[i] \in {s[j] : j \in 1..m}
      BY <2>4
    <3> QED BY <3>1
  <2>7. Rises(x, m) /\ Rises(y, n)
    BY <1>1, <1>2, <2>1, <2>2, <2>5, <2>6 DEF Rises
  <2>8. WithinText(x, m, y, n) /\ WithinText(y, n, x, m)
    BY <2>5, <2>6 DEF WithinText
  <2>9. \A i \in 1..m : x[i] = s[i][1]
    OBVIOUS
  <2>10. \A i \in 1..n : y[i] = t[i][1]
    OBVIOUS
  <2> HIDE DEF x, y, m, n
  <2>11. m = n /\ x = y
    BY <2>1, <2>7, <2>8, RisingUnique
  <2>12. \A i \in 1..n : s[i] = t[i]
    <3> SUFFICES ASSUME NEW i \in 1..n PROVE s[i] = t[i]
      OBVIOUS
    <3>1. s[i][1] = t[i][1]
      BY <2>9, <2>10, <2>11
    <3>2. s[i] = <<s[i][1]>> /\ t[i] = <<t[i][1]>>
      BY <2>2, <2>5, <2>6, <2>11
    <3> QED BY <3>1, <3>2
  <2> QED BY <1>1, <1>2, <2>1, <2>11, <2>12 DEF m, n
<1> QED BY <1>1, <1>2, <1>3 DEF s, t

LEMMA HashOfWish ==
    ASSUME ConversationAssumption, NEW b \in TravelBrief, NEW c \in TravelBrief
    PROVE  RequestHash(b) = RequestHash(c) <=>
              /\ TrimSpace(b.city) = TrimSpace(c.city)
              /\ b.days = c.days
              /\ NormalizePace(b.pace) = NormalizePace(c.pace)
              /\ WordsOf(b.interests) = WordsOf(c.interests)
              /\ WordsOf(b.must) = WordsOf(c.must)
              /\ WordsOf(Included(b.includes)) = WordsOf(Included(c.includes))
<1>1. \A x \in TravelBrief :
         RequestHash(x) = [city |-> TrimSpace(x.city), days |-> x.days,
                           interests |-> sortedCopy(normalizeStringSlice(x.interests)),
                           pace |-> NormalizePace(x.pace),
                           must |-> sortedCopy(normalizeStringSlice(x.must)),
                           includes |-> sortedCopy(normalizeStringSlice(Included(x.includes)))]
  <2> SUFFICES ASSUME NEW x \in TravelBrief
               PROVE  RequestHash(x) =
                         [city |-> TrimSpace(x.city), days |-> x.days,
                          interests |-> sortedCopy(normalizeStringSlice(x.interests)),
                          pace |-> NormalizePace(x.pace),
                          must |-> sortedCopy(normalizeStringSlice(x.must)),
                          includes |-> sortedCopy(normalizeStringSlice(Included(x.includes)))]
    OBVIOUS
  <2> DEFINE n == NormalizeTravelBrief(x)
  <2>1. RequestHash(x) = [city |-> n.city, days |-> n.days,
                          interests |-> sortedCopy(n.interests),
                          pace |-> n.pace, must |-> sortedCopy(n.must),
                          includes |-> sortedCopy(n.includes)]
    BY DEF RequestHash
  <2>2. /\ n.city = TrimSpace(x.city) /\ n.days = x.days
        /\ n.interests = normalizeStringSlice(x.interests)
        /\ n.pace = NormalizePace(x.pace) /\ n.must = normalizeStringSlice(x.must)
        /\ n.includes = normalizeIncludes(x.includes)
    BY DEF NormalizeTravelBrief
  <2>3. normalizeIncludes(x.includes) = normalizeStringSlice(Included(x.includes))
    <3>1. x.includes \in Seq(Text)
      BY DEF TravelBrief
    <3> QED BY <3>1, NormalIncludes
  <2> HIDE DEF n
  <2> QED BY <2>1, <2>2, <2>3
<1>2. \A l1, l2 \in Seq(Text) :
         sortedCopy(normalizeStringSlice(l1)) = sortedCopy(normalizeStringSlice(l2))
            <=> WordsOf(l1) = WordsOf(l2)
  <2> SUFFICES ASSUME NEW l1 \in Seq(Text), NEW l2 \in Seq(Text)
               PROVE  sortedCopy(normalizeStringSlice(l1)) = sortedCopy(normalizeStringSlice(l2))
                         <=> WordsOf(l1) = WordsOf(l2)
    OBVIOUS
  <2> DEFINE n1 == normalizeStringSlice(l1)
             n2 == normalizeStringSlice(l2)
  <2>1. /\ n1 \in Seq(Named) /\ Range(n1) = WordsOf(l1)
        /\ \A i, j \in DOMAIN n1 : n1[i] = n1[j] => i = j
    BY NormalList
  <2>2. /\ n2 \in Seq(Named) /\ Range(n2) = WordsOf(l2)
        /\ \A i, j \in DOMAIN n2 : n2[i] = n2[j] => i = j
    BY NormalList
  <2> HIDE DEF n1, n2
  <2>3. sortedCopy(n1) = sortedCopy(n2) <=> Range(n1) = Range(n2)
    BY <2>1, <2>2, SortedAgree
  <2> QED BY <2>1, <2>2, <2>3 DEF n1, n2
<1>3. /\ b.interests \in Seq(Text) /\ c.interests \in Seq(Text)
      /\ b.must \in Seq(Text) /\ c.must \in Seq(Text)
  BY DEF TravelBrief
<1>4. Included(b.includes) \in Seq(Text) /\ Included(c.includes) \in Seq(Text)
  <2>1. b.includes \in Seq(Text) /\ c.includes \in Seq(Text)
    BY DEF TravelBrief
  <2> QED BY <2>1, NormalIncludes
<1> QED BY <1>1, <1>2, <1>3, <1>4

\* The hash of a request names what is wished for and nothing else, for any
\* vocabulary and any lists (RequestHashForUser).
THEOREM HashesNameWishes == ChatSpec => []HashNamesTheWish
<1>1. ASSUME ChatInv
      PROVE  HashNamesTheWish
  <2>1. \A r \in requests : r.brief \in TravelBrief /\ r.hash = RequestHash(r.brief)
    BY <1>1 DEF ChatInv, ChatTypeOK
  <2>2. SUFFICES ASSUME NEW r \in requests, NEW s \in requests
                 PROVE  r.hash = s.hash <=>
                           /\ TrimSpace(r.brief.city) = TrimSpace(s.brief.city)
                           /\ r.brief.days = s.brief.days
                           /\ NormalizePace(r.brief.pace) = NormalizePace(s.brief.pace)
                           /\ WordsOf(r.brief.interests) = WordsOf(s.brief.interests)
                           /\ WordsOf(r.brief.must) = WordsOf(s.brief.must)
                           /\ WordsOf(Included(r.brief.includes))
                                 = WordsOf(Included(s.brief.includes))
    BY DEF HashNamesTheWish
  <2> DEFINE b == r.brief
             c == s.brief
  <2>3. b \in TravelBrief /\ c \in TravelBrief
    BY <2>1
  <2>4. RequestHash(b) = RequestHash(c) <=>
              /\ TrimSpace(b.city) = TrimSpace(c.city)
              /\ b.days = c.days
              /\ NormalizePace(b.pace) = NormalizePace(c.pace)
              /\ WordsOf(b.interests) = WordsOf(c.interests)
              /\ WordsOf(b.must) = WordsOf(c.must)
              /\ WordsOf(Included(b.includes)) = WordsOf(Included(c.includes))
    <3> HIDE DEF b, c
    <3> QED BY <2>3, ConversationAssumption, HashOfWish
  <2> QED BY <2>1, <2>4 DEF b, c
<1> QED BY <1>1, ChatInvariant, PTL
=============================================================================
