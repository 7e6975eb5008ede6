---------------------------- MODULE Conversation ----------------------------
(***************************************************************************)
(* The conversation that collects a travel brief: Chat and ChatStream of   *)
(* src/internal/travel/service.go, the extractor behind them               *)
(* (src/internal/agent/eino/chat.go, chat_stream.go), the normal form of a *)
(* brief (src/internal/domain/brief.go) and the hash that names a request  *)
(* (src/internal/travel/cache.go).                                         *)
(*                                                                         *)
(* The server keeps nothing between turns: the browser holds the brief,    *)
(* sends it with each message, takes the one that is answered, and sends   *)
(* it once more to have a plan made.  A text is a sequence of blanks with  *)
(* at most one word, a number, among them.  Of the fields there is one of  *)
(* each kind: required text, number and list, optional text and list, and  *)
(* budget_includes, the list that has a default.                           *)
(***************************************************************************)
EXTENDS Naturals, Sequences, Functions, Lists

CONSTANTS
    Label,          \* the label that a word stands for, in lower case or not
    DefaultPace,    \* label of the pace when none is wished
    DefaultIncludes,\* what a budget includes when nothing is said of it
    Typed,          \* briefs the traveller may type into the panel
    Extracts(_),    \* what the rules, or a model, may read from a turn's message
    ReplyWords,     \* words of a reply
    MaxTurns        \* turns of a conversation

Words == DOMAIN Label
Blank == 0

Text == {t \in Seq(Words \cup {Blank}) :
            \A i, j \in DOMAIN t : {t[i], t[j]} \subseteq Words => i = j}
TravelBrief ==
    [city : Text, days : Nat, interests : Seq(Text), pace : Text, must : Seq(Text),
     includes : Seq(Text)]

\* strings.TrimSpace of a text.
TrimSpace(text) == KeptIn(text, Words)

VARIABLES
    extractor,  \* "rules", "buffered" or "streamed": how a turn is read; fixed
    turn,       \* turns begun
    phase,      \* "idle", "extracting", "replying" or "answering"
    held,       \* the brief the browser holds
    result,     \* the extractor's result for this turn
    reply,      \* its reply: the source and number of each word
    saw,        \* chatDeltaReporter.saw: whether a delta was passed on
    said,       \* the words of the turn's assistant deltas, likewise
    requests    \* briefs for which a plan was accepted, with their hashes

chatVars == <<extractor, turn, phase, held, result, reply, saw, said, requests>>

\* The reply that the result of a turn comes with.
OwnReply == [i \in 1..ReplyWords |-> <<"own", i>>]

\* Faulty variants, for the sensitivity of the properties: new wishes replace
\* the old ones; duplicates are looked for before blanks are removed; the reply is
\* chunked whenever it is the result's own.
IncomingOnly(old, new) == new
ReplyIsOwn == reply = OwnReply

TrimmedOnly(list) ==
    ElementsAt([i \in DOMAIN list |-> TrimSpace(list[i])],
               {i \in DOMAIN list : TrimSpace(list[i]) # <<>>})
SeenBeforeTrim(list) == TrimmedOnly(FirstsOnly(list))

\* normalizeStringSlice: trimmed, without blanks and duplicates, in order.
normalizeStringSlice(list) == FirstsOnly(TrimmedOnly(list))

\* NormalizePace and its like: a word's label, or the default.
NormalizePace(text) ==
    LET t == TrimSpace(text)
    IN IF t = <<>> THEN <<DefaultPace>> ELSE [i \in DOMAIN t |-> Label[t[i]]]

normalizeIncludes(list) ==
    IF normalizeStringSlice(list) = <<>> THEN DefaultIncludes ELSE normalizeStringSlice(list)

NormalizeTravelBrief(b) ==
    [city |-> TrimSpace(b.city), days |-> b.days,
     interests |-> normalizeStringSlice(b.interests),
     pace |-> NormalizePace(b.pace), must |-> normalizeStringSlice(b.must),
     includes |-> normalizeIncludes(b.includes)]

mergeUniqueStrings(old, new) == normalizeStringSlice(old \o new)

\* mergeTravelRequest: what the message says, and the rest as it was; interests
\* and must-visits are added, but what the budget includes is replaced.
mergeTravelRequest(b, x) ==
    [city |-> IF x.city # <<>> THEN x.city ELSE b.city,
     days |-> IF x.days > 0 THEN x.days ELSE b.days,
     interests |-> IF x.interests # <<>> THEN mergeUniqueStrings(b.interests, x.interests)
                                         ELSE b.interests,
     pace |-> IF x.pace # <<>> THEN x.pace ELSE b.pace,
     must |-> IF x.must # <<>> THEN mergeUniqueStrings(b.must, x.must) ELSE b.must,
     includes |-> IF x.includes # <<>> THEN mergeUniqueStrings(<<>>, x.includes)
                                       ELSE b.includes]

\* is_complete: missingFieldsFromRequest finds nothing.
IsComplete(b) == b.city # <<>> /\ b.days > 0 /\ b.interests # <<>>

\* validateCreatePlanRequest, of the request as it was sent.
Accepted(b) == TrimSpace(b.city) # <<>> /\ b.days > 0 /\ b.interests # <<>>

\* RequestHashForUser: the normal form, its lists sorted.
sortedCopy(list) ==
    LET order == CHOOSE p \in Bijection(DOMAIN list, DOMAIN list) :
                    \A i, j \in DOMAIN list : i < j => list[p[i]][1] <= list[p[j]][1]
    IN [i \in DOMAIN list |-> list[order[i]]]
RequestHash(b) ==
    LET n == NormalizeTravelBrief(b)
    IN [city |-> n.city, days |-> n.days, interests |-> sortedCopy(n.interests),
        pace |-> n.pace, must |-> sortedCopy(n.must), includes |-> sortedCopy(n.includes)]

NoBrief == [city |-> <<>>, days |-> 0, interests |-> <<>>, pace |-> <<>>, must |-> <<>>,
            includes |-> <<>>]

\* The city that is read from a message is trimmed (cleanCityCandidate).
ASSUME ConversationAssumption ==
    /\ Words \subseteq Nat \ {0} /\ Label \in [Words -> Words]
    /\ \A w \in Words : Label[Label[w]] = Label[w]
    /\ DefaultPace \in Words /\ Label[DefaultPace] = DefaultPace
    /\ DefaultIncludes \in Seq(Text) \ {<<>>}
    /\ DefaultIncludes = normalizeStringSlice(DefaultIncludes)
    /\ ReplyWords \in Nat \ {0} /\ MaxTurns \in Nat
    /\ Typed \subseteq TravelBrief
    /\ \A n \in 1..MaxTurns : \A x \in Extracts(n) :
          x \in TravelBrief /\ (x.city # <<>> => TrimSpace(x.city) # <<>>)

ChatInit ==
    /\ extractor \in {"rules", "buffered", "streamed"}
    /\ turn = 0 /\ phase = "idle"
    /\ held = NoBrief /\ result = NoBrief
    /\ reply = OwnReply /\ saw = FALSE /\ said = <<>>
    /\ requests = {}

----------------------------------------------------------------------------
(* A turn *)

\* The browser sends a message with the brief it holds.
Ask ==
    /\ phase = "idle" /\ turn < MaxTurns
    /\ turn' = turn + 1 /\ phase' = "extracting"
    /\ reply' = OwnReply /\ saw' = FALSE /\ said' = <<>>
    /\ UNCHANGED <<extractor, held, result, requests>>

\* simpleFallbackExtractor, the only one in test mode and without a model, and
\* the last resort when all attempts of the model fail.
ExtractByRules ==
    /\ phase = "extracting"
    /\ \E x \in Extracts(turn) :
          result' = NormalizeTravelBrief(mergeTravelRequest(NormalizeTravelBrief(held), x))
    /\ phase' = "answering"
    /\ UNCHANGED <<extractor, turn, held, reply, saw, said, requests>>

\* A model's result takes the place of the brief (parseChatInfoResult); in a
\* streaming configuration its reply is then asked for once more.
ExtractByModel ==
    /\ phase = "extracting" /\ extractor # "rules"
    /\ \E x \in Extracts(turn) : result' = NormalizeTravelBrief(x)
    /\ phase' = IF extractor = "streamed" THEN "replying" ELSE "answering"
    /\ UNCHANGED <<extractor, turn, held, reply, saw, said, requests>>

\* streamChatReply: a delta with a word of the reply, or one of white space
\* only, arrives and is passed on.
ReplyWord ==
    /\ phase = "replying" /\ Len(said) < ReplyWords
    /\ saw' = TRUE /\ said' = Append(said, <<"streamed", Len(said) + 1>>)
    /\ UNCHANGED <<extractor, turn, phase, held, result, reply, requests>>
ReplySpace ==
    /\ phase = "replying"
    /\ saw' = TRUE
    /\ UNCHANGED <<extractor, turn, phase, held, result, reply, said, requests>>

\* The stream ends, complete or cut short, which is not told from it: what came
\* takes the place of the result's own reply, unless it is empty when trimmed.
ReplyEnds ==
    /\ phase = "replying"
    /\ reply' = IF said = <<>> THEN reply ELSE said
    /\ phase' = "answering"
    /\ UNCHANGED <<extractor, turn, held, result, saw, said, requests>>

\* The stream cannot be opened or read: the result keeps its own reply.
ReplyBreaks ==
    /\ phase = "replying"
    /\ phase' = "answering"
    /\ UNCHANGED <<extractor, turn, held, result, reply, saw, said, requests>>

\* ChatStream chunks the reply only if no delta was passed on (SawAnyDelta).
NeedsChunks == ~saw

\* The end of ChatStream: chunks, assistant_done and done, whose brief the
\* browser takes.
AnswerTurn ==
    /\ phase = "answering"
    /\ said' = IF NeedsChunks THEN said \o reply ELSE said
    /\ held' = result
    /\ phase' = "idle"
    /\ UNCHANGED <<extractor, turn, result, reply, saw, requests>>

\* The browser goes away, or the turn ends with an error event: the brief stays
\* as it was.
TurnLost ==
    /\ phase # "idle"
    /\ phase' = "idle" /\ said' = <<>> /\ saw' = FALSE /\ reply' = OwnReply
    /\ UNCHANGED <<extractor, turn, held, result, requests>>

\* The traveller changes the brief by hand.
EditBrief ==
    /\ phase = "idle"
    /\ held' \in Typed
    /\ UNCHANGED <<extractor, turn, phase, result, reply, saw, said, requests>>

\* CreatePlan with the brief: the request is validated, then named by its hash.
RequestPlan ==
    /\ phase = "idle" /\ Accepted(held)
    /\ requests' = requests \cup {[brief |-> held, hash |-> RequestHash(held)]}
    /\ UNCHANGED <<extractor, turn, phase, held, result, reply, saw, said>>

ChatNext ==
    \/ Ask \/ ExtractByRules \/ ExtractByModel
    \/ ReplyWord \/ ReplySpace \/ ReplyEnds \/ ReplyBreaks
    \/ AnswerTurn \/ TurnLost \/ EditBrief \/ RequestPlan

ChatSpec == ChatInit /\ [][ChatNext]_chatVars

----------------------------------------------------------------------------
(* Properties *)

WordsOf(list) == {TrimSpace(list[i]) : i \in DOMAIN list} \ {<<>>}

\* What a budget includes by a list, or by default.
Included(list) == IF WordsOf(list) = {} THEN DefaultIncludes ELSE list

\* Every variable has its type.
ChatTypeOK ==
    /\ extractor \in {"rules", "buffered", "streamed"}
    /\ turn \in 0..MaxTurns
    /\ phase \in {"idle", "extracting", "replying", "answering"}
    /\ {held, result} \subseteq TravelBrief
    /\ saw \in BOOLEAN
    /\ {reply, said} \subseteq Seq({"own", "streamed"} \X (1..ReplyWords))
    /\ \A r \in requests : r.brief \in TravelBrief /\ r.hash = RequestHash(r.brief)

\* A turn that the rules read changes of the brief what its message says, and
\* that alone: a required field that was known stays known, city, days and pace
\* are as they were or as the message has them, interests and must-visits are
\* those of both, and what the budget includes is kept or replaced as a whole
\* (mergeTravelRequest between two NormalizeTravelBrief, which fills in
\* defaults that a later turn must not take for the traveller's words).
RulesOnlyUpdate ==
    [][ExtractByRules =>
          LET old == NormalizeTravelBrief(held) IN
          /\ old.city # <<>> => result'.city # <<>>
          /\ old.days > 0 => result'.days > 0
          /\ \E x \in Extracts(turn) :
                /\ result'.city \in {old.city, TrimSpace(x.city)}
                /\ result'.days \in {old.days, x.days}
                /\ result'.pace \in {old.pace, NormalizePace(x.pace)}
                /\ WordsOf(result'.interests) = WordsOf(held.interests) \cup WordsOf(x.interests)
                /\ WordsOf(result'.must) = WordsOf(held.must) \cup WordsOf(x.must)
                /\ WordsOf(result'.includes) \in {WordsOf(Included(held.includes)),
                                                 WordsOf(Included(x.includes))}]_chatVars

\* Two accepted requests have one hash exactly if they wish for the same,
\* whatever blanks, duplicates, old names and order they are written with
\* (RequestHashForUser; the cache answers one with the plan of the other).
HashNamesTheWish ==
    \A r, s \in requests :
        r.hash = s.hash <=>
            /\ TrimSpace(r.brief.city) = TrimSpace(s.brief.city)
            /\ r.brief.days = s.brief.days
            /\ NormalizePace(r.brief.pace) = NormalizePace(s.brief.pace)
            /\ WordsOf(r.brief.interests) = WordsOf(s.brief.interests)
            /\ WordsOf(r.brief.must) = WordsOf(s.brief.must)
            /\ WordsOf(Included(r.brief.includes)) = WordsOf(Included(s.brief.includes))

\* When a turn was answered its deltas were the words of the reply that
\* assistant_done repeats, each once and in order, unless that is the result's
\* own because the stream of another broke or had no word: then the deltas were
\* the first words of that other, and nothing was begun again (SawAnyDelta in
\* ChatStream).
RepliesHeard ==
    phase = "idle" /\ (saw \/ said # <<>>) =>
        \/ said = reply
        \/ /\ reply = OwnReply /\ saw /\ extractor = "streamed"
           /\ said = [i \in 1..Len(said) |-> <<"streamed", i>>]
=============================================================================
