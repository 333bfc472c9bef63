------------------------------ MODULE ReactLoop ------------------------------
(***************************************************************************)
(* ReActAgentRuntime.process_message: the conversation it builds for the   *)
(* language model round by round, the tool calls the model asks for, and   *)
(* the compaction when the model's context runs out, over several turns    *)
(* that share one ContextManager.                                          *)
(*                                                                         *)
(* A message is its role: "question" is the user message of this turn,     *)
(* "user" one of an earlier turn, "calls" an assistant message with tool   *)
(* calls, whose results are "tool" messages.  A call is known by a number, *)
(* and its tool and arguments by a key.  What the model answers, and       *)
(* whether it answers, is open.  Left out: the events yielded on the way,  *)
(* which AgentTurns delivers, and the truncation of long results.          *)
(***************************************************************************)
EXTENDS Naturals, Sequences, SequencesExt, FiniteSetsExt

CONSTANTS
    CallKeys,          \* tools with their arguments
    MaxCalls,          \* bound: calls in one answer of the model
    MaxRounds,         \* max_tool_rounds
    MaxSameCalls,      \* _MAX_SAME_CALL_REPEATS
    MaxNoProgress,     \* _MAX_CONSECUTIVE_NO_PROGRESS
    CompactAbove,      \* messages below which nothing is compacted
    KeepRecent,        \* messages a compaction keeps
    KeepAggressive,    \* ... after the model refused the length
    MaxMessages,       \* messages the ContextManager keeps
    MaxQuestions       \* bound: turns

ASSUME ReactAssumption ==
    /\ {MaxCalls, MaxRounds, MaxSameCalls, MaxNoProgress, CompactAbove, KeepRecent, KeepAggressive,
        MaxMessages} \subseteq Nat \ {0}
    /\ MaxQuestions \in Nat

VARIABLES
    reactPc,       \* where process_message is
    memory,        \* the messages of the ContextManager
    conversation,  \* the messages for the model
    toolRound,
    attempt,       \* calls of the model in this round
    todo,          \* calls of the model's last answer that have not run
    callHistory,   \* keys of the calls that ran
    noProgress,    \* rounds without call or text
    calls,         \* calls so far, which number them
    questions      \* turns so far

reactVars == <<reactPc, memory, conversation, toolRound, attempt, todo, callHistory, noProgress, calls, questions>>

Roles == {"system", "summary", "user", "question", "assistant", "calls", "tool"}
CallIds == 1..(MaxQuestions * MaxRounds * MaxCalls)

\* ids: the calls a message "calls" asks for, or the call a "tool" answers.
Message(role, ids) == [role |-> role, ids |-> ids]
Said(role) == Message(role, {})

ReactTypeOK ==
    /\ reactPc \in {"idle", "thinking", "asking", "acting"}
    /\ memory \in Seq({"user", "assistant"}) /\ Len(memory) <= MaxMessages
    /\ conversation \in Seq([role: Roles, ids: SUBSET CallIds])
    /\ toolRound \in 0..MaxRounds
    /\ attempt \in 0..2
    /\ todo \in Seq([id: CallIds, key: CallKeys])
    /\ callHistory \in Seq(CallKeys)
    /\ noProgress \in 0..MaxNoProgress
    /\ calls \in Nat
    /\ questions \in 0..MaxQuestions

ReactInit ==
    /\ reactPc = "idle"
    /\ memory = <<>>
    /\ conversation = <<>>
    /\ toolRound = 0 /\ attempt = 0
    /\ todo = <<>>
    /\ callHistory = <<>>
    /\ noProgress = 0
    /\ calls = 0
    /\ questions = 0

-------------------------------------------------------------------------------
(* The ContextManager *)

\* add_message: beyond the limit the oldest message goes.
Remembered(role) ==
    LET all == Append(memory, role)
    IN  IF Len(all) > MaxMessages THEN Tail(all) ELSE all

-------------------------------------------------------------------------------
(* _compact_conversation *)

CompactKeepingOld(messages, keep) ==
    LET rest == Tail(messages)
    IN  IF Len(messages) <= CompactAbove \/ Len(rest) <= keep THEN messages
        ELSE <<Head(messages), Said("summary")>> \o SubSeq(rest, 1, keep)

\* The system prompt and the first user message, of whatever turn, stay in
\* front; of the rest the last messages stay, counted one by one.
Compact(messages, keep) ==
    LET body  == Tail(messages)
        users == {n \in DOMAIN body : body[n].role \in {"user", "question"}}
        head  == IF users = {} THEN <<Head(messages)>> ELSE <<Head(messages), body[Min(users)]>>
        rest  == IF users = {} THEN body ELSE RemoveAt(body, Min(users))
    IN  IF Len(messages) <= CompactAbove THEN messages
        ELSE IF Len(rest) <= keep THEN head \o rest
        ELSE head \o <<Said("summary")>> \o SubSeq(rest, Len(rest) - keep + 1, Len(rest))

-------------------------------------------------------------------------------
(* process_message *)

\* The question is remembered, and the conversation built from the memory.
Question ==
    /\ reactPc = "idle"
    /\ questions < MaxQuestions
    /\ questions' = questions + 1
    /\ memory' = Remembered("user")
    /\ conversation' = <<Said("system")>>
                       \o [n \in 1..(Len(memory') - 1) |-> Said(memory'[n])]
                       \o <<Said("question")>>
    /\ toolRound' = 1 /\ reactPc' = "thinking"
    /\ attempt' = 0 /\ todo' = <<>> /\ callHistory' = <<>> /\ noProgress' = 0
    /\ UNCHANGED calls

\* A round begins, with a compaction if the last answer used too many tokens.
BeginRound ==
    /\ reactPc = "thinking"
    /\ reactPc' = "asking"
    /\ attempt' = 0
    /\ \/ UNCHANGED conversation
       \/ toolRound > 1 /\ conversation' = Compact(conversation, KeepRecent)
    /\ UNCHANGED <<memory, toolRound, todo, callHistory, noProgress, calls, questions>>

\* DONE without an answer: nothing is remembered.
GiveUp ==
    /\ reactPc' = "idle"
    /\ UNCHANGED <<memory, conversation, toolRound, attempt, todo, callHistory, noProgress, calls, questions>>

\* The model refuses the length of the conversation, at most three times.
ModelOverflows ==
    /\ reactPc = "asking"
    /\ IF attempt = 2 THEN GiveUp
       ELSE /\ attempt' = attempt + 1
            /\ conversation' = Compact(conversation, KeepAggressive)
            /\ UNCHANGED <<reactPc, memory, toolRound, todo, callHistory, noProgress, calls, questions>>

\* Any other error is retried if it is the first of the round, of either kind.
ModelFails ==
    /\ reactPc = "asking"
    /\ IF attempt > 0 THEN GiveUp
       ELSE /\ attempt' = 1
            /\ UNCHANGED <<reactPc, memory, conversation, toolRound, todo, callHistory, noProgress, calls, questions>>

\* The round is over; the last one ends the turn, with a warning that is
\* remembered as the answer.
NextRound ==
    IF toolRound < MaxRounds
    THEN /\ toolRound' = toolRound + 1 /\ reactPc' = "thinking"
         /\ UNCHANGED memory
    ELSE /\ reactPc' = "idle"
         /\ memory' = Remembered("assistant")
         /\ UNCHANGED toolRound

\* The model asks for tools.
ModelCalls(keys) ==
    LET asked == [n \in DOMAIN keys |-> [id |-> calls + n, key |-> keys[n]]]
    IN  /\ reactPc = "asking"
        /\ reactPc' = "acting"
        /\ calls' = calls + Len(keys)
        /\ todo' = asked
        /\ conversation' = Append(conversation, Message("calls", {asked[n].id : n \in DOMAIN asked}))
        /\ UNCHANGED <<memory, toolRound, attempt, callHistory, noProgress, questions>>

ModelAnswers ==
    /\ reactPc = "asking"
    /\ reactPc' = "idle"
    /\ memory' = Remembered("assistant")
    /\ UNCHANGED <<conversation, toolRound, attempt, todo, callHistory, noProgress, calls, questions>>

\* Neither calls nor text.
ModelSaysNothing ==
    /\ reactPc = "asking"
    /\ noProgress' = noProgress + 1
    /\ IF noProgress' >= MaxNoProgress
       THEN reactPc' = "idle" /\ UNCHANGED <<memory, toolRound>>
       ELSE NextRound
    /\ UNCHANGED <<conversation, attempt, todo, callHistory, calls, questions>>

-------------------------------------------------------------------------------
(* Tool calls *)

\* The last calls all were this one: the turn stops.
IsLoop(key) ==
    LET last == SubSeq(callHistory, Max({1, Len(callHistory) - MaxSameCalls + 2}), Len(callHistory))
    IN  Len(SelectSeq(last, LAMBDA k : k = key)) >= MaxSameCalls - 1

LoopDetected ==
    /\ reactPc = "acting"
    /\ todo # <<>>
    /\ IsLoop(Head(todo).key)
    /\ GiveUp

\* The tool runs, is forbidden, is missing or raises: there is a result.
RunTool ==
    /\ reactPc = "acting"
    /\ todo # <<>>
    /\ ~ IsLoop(Head(todo).key)
    /\ callHistory' = Append(callHistory, Head(todo).key)
    /\ conversation' = Append(conversation, Message("tool", {Head(todo).id}))
    /\ todo' = Tail(todo)
    /\ UNCHANGED <<reactPc, memory, toolRound, attempt, noProgress, calls, questions>>

EndRound ==
    /\ reactPc = "acting"
    /\ todo = <<>>
    /\ noProgress' = 0
    /\ NextRound
    /\ UNCHANGED <<conversation, attempt, todo, callHistory, calls, questions>>

ReactNext ==
    \/ Question \/ BeginRound
    \/ ModelOverflows \/ ModelFails \/ ModelAnswers \/ ModelSaysNothing
    \/ \E keys \in BoundedSeq(CallKeys, MaxCalls) : keys # <<>> /\ ModelCalls(keys)
    \/ LoopDetected \/ RunTool \/ EndRound

ReactSpec == ReactInit /\ [][ReactNext]_reactVars

-------------------------------------------------------------------------------
(* Properties *)

\* Every tool call in what the model is sent is followed by all its results.
CallsAreAnswered(messages) ==
    \A n \in DOMAIN messages :
        messages[n].role = "calls" =>
            \A id \in messages[n].ids :
                \E m \in (n + 1)..(n + Cardinality(messages[n].ids)) :
                    m \in DOMAIN messages /\ messages[m] = Message("tool", {id})

\* Whatever is compacted, once or again, before a round or after a refusal, the
\* model is sent "an OpenAI-compatible conversation" at least so far as that no
\* call in it lacks a result; and the question of a first turn is always in it.
\* Not so: results whose calls were cut off, and the question of a later turn.
RequestsAreAnswerable ==
    reactPc = "asking" =>
        /\ conversation[1] = Said("system")
        /\ CallsAreAnswered(conversation)
        /\ questions = 1 => Said("question") \in ToSet(conversation)

=============================================================================
