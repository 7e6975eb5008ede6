---------------------------- MODULE PlanGenerator ----------------------------
(***************************************************************************)
(* The model that writes a task's plan (src/internal/agent/eino: llm.go,   *)
(* llm_stream.go, summary_stream.go) and what the task's stream is told    *)
(* meanwhile (plannerDeltaReporter and publishPlanSummary of               *)
(* src/internal/travel/service.go).                                        *)
(*                                                                         *)
(* Up to MaxRetries + 1 attempts are made.  In a streamed attempt the      *)
(* arguments of the tool call arrive in frames, and of their "summary"     *)
(* what can be read so far is spoken at once, before the answer is known   *)
(* to be a plan.  A letter arrives in two halves (a character of several   *)
(* bytes, an escape of several characters) that frames may separate.  Some *)
(* letters are written as a surrogate pair of escapes, one in each half:   *)
(* the reading decodes each on its own and has two replacement characters  *)
(* for the letter.  When every attempt fails the deterministic plan is     *)
(* taken.                                                                  *)
(***************************************************************************)
EXTENDS Naturals, Sequences, FiniteSets, SequencesExt

CONSTANTS
    Letters,        \* letters of a summary
    Surrogates,     \* those the model writes as a surrogate pair of escapes
    MaxRetries      \* LLMConfig.MaxRetries

ASSUME GeneratorAssumption ==
    Letters \in Nat \ {0} /\ MaxRetries \in Nat /\ Surrogates \subseteq 1..Letters

VARIABLES
    config,     \* LLMConfig and the task's options; fixed
    genStage,   \* "start", "calling", "streaming", "publish" or "done"
    attempt,    \* attempts begun
    form,       \* how the streamed answer arrives: "tool", "text" or "none" yet
    received,   \* halves of letters of this attempt's summary that have arrived
    emitted,    \* emittedPrefix: characters of this attempt already spoken
    spoken,     \* assistant deltas published: attempt and number of each character
    source      \* the attempt the plan is from, 0 for the deterministic plan

genVars == <<config, genStage, attempt, form, received, emitted, spoken, source>>

\* usable: enabled, with a key, an address and a model; deepseek: the provider;
\* modeTools, cfgTools: whether the model of the task's mode, and the one
\* configured for both, take tool calls.
Configs == [usable : BOOLEAN, testMode : BOOLEAN, stream : BOOLEAN, deepseek : BOOLEAN,
            modeTools : BOOLEAN, cfgTools : BOOLEAN]

GenInit ==
    /\ config \in Configs
    /\ genStage = "start" /\ attempt = 0
    /\ form = "none" /\ received = 0 /\ emitted = 0
    /\ spoken = <<>> /\ source = 0

\* A faulty variant, for the sensitivity of the properties: the whole reading is
\* spoken with each frame.
WholeReading(read) == [i \in 1..read |-> <<attempt, i>>]

\* extractSummarySoFar: the characters that can be read of what has arrived.  A
\* letter is one, read with its second half; a surrogate pair is two, each read
\* with its own half (decodeUnicodeEscape takes one escape at a time).
Legible(halves) ==
    (halves \div 2) + Cardinality({letter \in Surrogates : 2 * letter <= halves + 1})

Reading == Legible(2 * Letters)

\* The characters of the reading that were not spoken yet.
NewTail(read) == [i \in 1..(read - emitted) |-> <<attempt, emitted + i>>]

\* buildChatCompletionRequest: a tool call where provider and model take one,
\* else a schema for the text.
AskedForm == IF config.deepseek /\ config.modeTools THEN "tool" ELSE "text"

\* extractStreamToolPayload and extractTravelPlanPayload.
StreamAccepts(answer) == answer = "tool" \/ AskedForm = "text"
BufferAccepts(answer) ==
    IF config.deepseek THEN answer = "tool" \/ ~config.cfgTools ELSE answer = "text"

----------------------------------------------------------------------------
(* Attempts *)

\* A plan is taken, to be published with the task.
Take(from) == source' = from /\ genStage' = "publish"

\* The next attempt, or the deterministic plan after the last one.
AfterFailure ==
    /\ IF attempt <= MaxRetries THEN /\ genStage' = "calling" /\ attempt' = attempt + 1
                                     /\ UNCHANGED source
                                ELSE Take(0) /\ UNCHANGED attempt
    /\ form' = "none" /\ received' = 0 /\ emitted' = 0

\* Generate: in test mode and without a usable model nothing is called.
Begin ==
    /\ genStage = "start"
    /\ IF config.usable /\ ~config.testMode
       THEN genStage' = "calling" /\ attempt' = 1 /\ UNCHANGED source
       ELSE Take(0) /\ UNCHANGED attempt
    /\ UNCHANGED <<config, form, received, emitted, spoken>>

\* No connection, or a status other than 2xx; in a buffered call also a time
\* out at any moment.
CallFails ==
    /\ genStage = "calling"
    /\ AfterFailure
    /\ UNCHANGED <<config, spoken>>

\* generateTravelPlanBuffered: the whole answer is read, then checked.
BufferedAnswers ==
    /\ genStage = "calling" /\ ~config.stream
    /\ \E answer \in {"tool", "text"}, valid \in BOOLEAN :
          /\ IF BufferAccepts(answer) /\ valid
             THEN Take(attempt) /\ UNCHANGED <<attempt, form, received, emitted>>
             ELSE AfterFailure
    /\ UNCHANGED <<config, spoken>>

\* chatCompletionStream: the headers of a streamed answer.
StreamOpens ==
    /\ genStage = "calling" /\ config.stream
    /\ genStage' = "streaming"
    /\ UNCHANGED <<config, attempt, form, received, emitted, spoken, source>>

\* A frame with some of the arguments or of the text; of the arguments what can
\* be read is spoken (onToolArgs and ReportLLMDelta).
FrameArrives ==
    /\ genStage = "streaming" /\ received < 2 * Letters
    /\ \E answer \in {"tool", "text"}, halves \in 1..(2 * Letters - received) :
          /\ form \in {"none", answer}
          /\ form' = answer
          /\ received' = received + halves
          /\ IF answer = "tool"
             THEN /\ spoken' = spoken \o NewTail(Legible(received'))
                  /\ emitted' = Legible(received')
             ELSE UNCHANGED <<spoken, emitted>>
    /\ UNCHANGED <<config, genStage, attempt, source>>

\* The connection is lost in the middle.
StreamBreaks ==
    /\ genStage = "streaming"
    /\ AfterFailure
    /\ UNCHANGED <<config, spoken>>

\* The stream ends, complete or not: the payload is extracted and parsed, and
\* the rest of the summary is spoken.
StreamEnds ==
    /\ genStage = "streaming"
    /\ \E valid \in BOOLEAN :
          /\ valid => received = 2 * Letters
          /\ IF valid /\ StreamAccepts(form)
             THEN /\ Take(attempt)
                  /\ spoken' = spoken \o NewTail(Legible(received))
                  /\ emitted' = Legible(received)
                  /\ UNCHANGED <<attempt, form, received>>
             ELSE AfterFailure /\ UNCHANGED spoken
    /\ UNCHANGED config

----------------------------------------------------------------------------
(* The end of the task *)

\* The summary of the parsed plan, letter by letter.
WholeSummary == [i \in 1..Letters |-> <<source, i>>]

\* publishPlanSummary, which speaks the summary in chunks only if no delta was
\* spoken; then the plan itself as assistant_done and done.
PublishPlan ==
    /\ genStage = "publish"
    /\ genStage' = "done"
    /\ spoken' = IF spoken = <<>> THEN WholeSummary ELSE spoken
    /\ UNCHANGED <<config, attempt, form, received, emitted, source>>

GenNext ==
    \/ Begin \/ CallFails \/ BufferedAnswers
    \/ StreamOpens \/ FrameArrives \/ StreamBreaks \/ StreamEnds
    \/ PublishPlan

GenSpec == GenInit /\ [][GenNext]_genVars

\* The program takes its own steps, and a buffered call ends by its time out if
\* not before.  A stream has no time out of its own, and runTask's context no
\* deadline: nothing ends one that the provider keeps open.
GenFairness ==
    /\ WF_genVars(Begin)
    /\ WF_genVars(~config.stream /\ CallFails)
    /\ WF_genVars(PublishPlan)

GenFairSpec == GenSpec /\ GenFairness

----------------------------------------------------------------------------
(* Properties *)

\* Every variable has its type.
GenTypeOK ==
    /\ config \in Configs
    /\ genStage \in {"start", "calling", "streaming", "publish", "done"}
    /\ attempt \in 0..(MaxRetries + 1) /\ source \in 0..attempt
    /\ form \in {"none", "tool", "text"}
    /\ received \in 0..(2 * Letters) /\ emitted \in 0..Reading
    /\ spoken \in Seq((0..(MaxRetries + 1)) \X (1..Reading))

\* Of each attempt the client is told the characters that extractSummarySoFar
\* reads, from the first on, each once and in order, however frames cut the
\* letters, the halves of a pair included, and whatever earlier attempts left
\* behind.  When the task is done it was told, last, all that is read of the
\* summary of its plan (two replacement characters for a surrogate pair), or,
\* when nothing was streamed, all its letters; unless the plan is the
\* deterministic one and a failed attempt had spoken (emittedPrefix and
\* publishPlanSummary, which asks only whether anything was spoken).
SummaryTold ==
    /\ \A i \in DOMAIN spoken :
          LET before == IF i = 1 THEN <<0, 0>> ELSE spoken[i - 1]
          IN \/ spoken[i] = <<before[1], before[2] + 1>>
             \/ spoken[i][1] > before[1] /\ spoken[i][2] = 1
    /\ genStage = "done" =>
          \/ emitted = Reading /\ spoken # <<>> /\ Last(spoken) = <<source, Reading>>
          \/ emitted = 0 /\ spoken = WholeSummary
          \/ source = 0 /\ spoken # <<>> /\ \A i \in DOMAIN spoken : spoken[i][1] > 0

\* Every plan is generated in the end: a caller of chatCompletionStream passes
\* a context with a deadline, as the method's comment asks.
GenerationEnds == <>(genStage = "done")
=============================================================================
