------------------------------ MODULE AgentLoop ------------------------------
(***************************************************************************)
(* One call of agentLoop (agent.js): requests to the model's provider with *)
(* their retries and fallbacks, the tool calls of each message, which run  *)
(* in parallel, the lock on destructive tools, and what the callbacks of   *)
(* the screening cycle (index.js) conclude about its deploy.               *)
(*                                                                         *)
(* swap_token is locked as close_position is; every other tool is "other". *)
(* executeTool answers every call, failures included; the prompt and the   *)
(* texts are left out.                                                     *)
(***************************************************************************)
EXTENDS Integers

CONSTANTS
    CallSlot,       \* the tool calls one model message may hold
    MaxSteps    \* maxSteps

ASSUME StepsAssumption == MaxSteps \in Nat \ {0}

VARIABLES
    pc,               \* "ask": a request is out; "tools": calls run; "done"
    outcome,          \* what the loop returns, or "error" if it throws
    step, attempt,    \* the loop's counters
    usedModel,        \* the configured model or the fallback
    toolChoice,       \* tool_choice of the request
    providerMode,     \* how the instructions are sent
    mustUseRealTool,  \* shouldRequireRealToolUse(goal, ...)
    sawToolCall, noToolRetryCount,
    firedOnce,        \* tools locked for this session
    calls,            \* [CallSlot -> the state of a call of the last message]
    deployAttempted, deploySucceeded,   \* what the screening cycle notes
    requests,         \* history: requests sent
    ran               \* history: destructive calls executed

loopVars == <<pc, outcome, step, attempt, usedModel, toolChoice>>
answerVars == <<mustUseRealTool, sawToolCall, noToolRetryCount>>
toolVars == <<firedOnce, calls, deployAttempted, deploySucceeded, ran>>
agentVars == <<loopVars, answerVars, toolVars, providerMode, requests>>

Tool == {"deploy_position", "close_position", "other"}
ONCE_PER_SESSION == {"deploy_position", "close_position"}
NO_RETRY_TOOLS == {"deploy_position"}

NoCall == [at |-> "none", tool |-> "other"]
NoCalls == [k \in CallSlot |-> NoCall]

LoopInit ==
    /\ \/ pc = "ask" /\ outcome = "none"
       \/ pc = "done" /\ outcome = "disabled"
    /\ step = 0 /\ attempt = 0 /\ usedModel = "configured"
    /\ mustUseRealTool \in BOOLEAN
    /\ toolChoice \in {"required", "auto"}
    /\ mustUseRealTool => toolChoice = "required"
    /\ providerMode = "system"
    /\ sawToolCall = FALSE /\ noToolRetryCount = 0
    /\ firedOnce = {} /\ calls = NoCalls
    /\ deployAttempted = FALSE /\ deploySucceeded = FALSE
    /\ requests = 0 /\ ran = {}

Ends(result) ==
    /\ pc' = "done" /\ outcome' = result
    /\ UNCHANGED <<step, attempt, usedModel, toolChoice>>

\* The next iteration: the model and the attempts start over, and a tool
\* call is forced on the first step only.
NextStep ==
    /\ step' = step + 1 /\ attempt' = 0
    /\ usedModel' = "configured" /\ toolChoice' = "auto"
    /\ IF step + 1 = MaxSteps THEN pc' = "done" /\ outcome' = "max_steps"
                              ELSE pc' = "ask" /\ outcome' = outcome

-----------------------------------------------------------------------------
(* The provider's answers *)

RequestBound == 3 * MaxSteps + 2

\* The count stops one above the bound the property states.
Asked ==
    /\ pc = "ask"
    /\ requests' = IF requests > RequestBound THEN requests ELSE requests + 1

\* Mutant: the first request is built again and the mode is not switched.
RejectsSystemRole_forever ==
    /\ Asked /\ providerMode = "system"
    /\ toolChoice' = "required"
    /\ UNCHANGED <<pc, outcome, step, attempt, usedModel, answerVars, toolVars,
                   providerMode>>

\* The provider knows no system role: the history starts over with the
\* instructions embedded, and the attempt does not count.
RejectsSystemRole ==
    /\ Asked /\ providerMode = "system"
    /\ providerMode' = "user_embedded"
    /\ UNCHANGED <<loopVars, answerVars, toolVars>>

\* The provider cannot force a tool call: asked again without, uncounted.
RejectsToolChoice ==
    /\ Asked /\ toolChoice = "required"
    /\ toolChoice' = "auto"
    /\ UNCHANGED <<pc, outcome, step, attempt, usedModel, answerVars, toolVars,
                   providerMode>>

\* 502, 503 or 529: three attempts, the last one with the fallback model.
Overloaded ==
    /\ Asked
    /\ IF attempt = 2
       THEN Ends("error")
       ELSE /\ attempt' = attempt + 1
            /\ usedModel' = IF attempt = 1 THEN "fallback" ELSE usedModel
            /\ UNCHANGED <<pc, outcome, step, toolChoice>>
    /\ UNCHANGED <<answerVars, toolVars, providerMode>>

\* 429 costs the step.
RateLimited ==
    /\ Asked /\ NextStep
    /\ UNCHANGED <<answerVars, toolVars, providerMode>>

\* Any other error, or an answer without choices.
RequestFails ==
    /\ Asked /\ Ends("error")
    /\ UNCHANGED <<answerVars, toolVars, providerMode>>

\* A message without text and without calls is dropped; it costs the step.
AnswersEmpty ==
    /\ Asked /\ NextStep
    /\ UNCHANGED <<answerVars, toolVars, providerMode>>

\* A final text.  A request that needs a tool refuses it while no message
\* has called one: once with a reminder, then for good.
AnswersText ==
    /\ Asked
    /\ IF mustUseRealTool /\ ~sawToolCall
       THEN /\ noToolRetryCount' = noToolRetryCount + 1
            /\ IF noToolRetryCount + 1 >= 2 THEN Ends("refusal") ELSE NextStep
       ELSE Ends("answer") /\ UNCHANGED noToolRetryCount
    /\ UNCHANGED <<mustUseRealTool, sawToolCall, toolVars, providerMode>>

-----------------------------------------------------------------------------
(* Tool calls *)

\* Mutant: only a call that ran through locks its tool.
Locked_afterSuccess(tool) ==
    \E r \in ran : r.tool = tool /\ r.success

Locked(tool) == tool \in ONCE_PER_SESSION /\ tool \in firedOnce

\* Mutant: a blocked call counts as one that succeeded.
Noted_blocked(B, success) ==
    IF \E k \in B : k.tool = "deploy_position" THEN TRUE ELSE deploySucceeded

\* onToolFinish of the screening cycle for the calls C: the last deploy call
\* decides.
Noted(C, success) ==
    IF \E c \in C : c.tool = "deploy_position" THEN success ELSE deploySucceeded

\* A message with the calls of K.  All of them look at the lock, and those
\* that are locked or whose arguments cannot be repaired are answered as
\* blocked, before any of the others has run.
CallsTools ==
    /\ Asked
    /\ \E K \in SUBSET CallSlot : \E t \in [K -> Tool], bad \in SUBSET K :
          LET blocked == {k \in K : k \in bad \/ Locked(t[k])} IN
          /\ K # {}
          /\ calls' = [k \in CallSlot |->
                         IF k \notin K THEN NoCall
                         ELSE [tool |-> t[k],
                               at |-> IF k \in blocked THEN "answered"
                                      ELSE "running"]]
          /\ deployAttempted' =
                (deployAttempted \/ \E k \in K : t[k] = "deploy_position")
          /\ deploySucceeded' = Noted({calls'[k] : k \in blocked}, FALSE)
    /\ sawToolCall' = TRUE /\ pc' = "tools"
    /\ UNCHANGED <<outcome, step, attempt, usedModel, toolChoice,
                   mustUseRealTool, noToolRetryCount, firedOnce, ran,
                   providerMode>>

\* executeTool returns.  deploy_position is locked whatever it returned, the
\* other destructive tools when they succeeded.
ToolReturns(k) ==
    /\ calls[k].at = "running"
    /\ \E success \in BOOLEAN :
          LET tool == calls[k].tool IN
          /\ firedOnce' =
                IF tool \in NO_RETRY_TOOLS \/ (tool \in ONCE_PER_SESSION /\ success)
                THEN firedOnce \cup {tool} ELSE firedOnce
          /\ ran' = IF tool \in ONCE_PER_SESSION
                    THEN ran \cup {[step |-> step, tool |-> tool, success |-> success]}
                    ELSE ran
          /\ deploySucceeded' = Noted({calls[k]}, success)
    /\ calls' = [calls EXCEPT ![k].at = "answered"]
    /\ UNCHANGED <<loopVars, answerVars, providerMode, requests,
                   deployAttempted>>

\* All calls are answered: their results join the history.
ResultsJoin ==
    /\ pc = "tools"
    /\ \A k \in CallSlot : calls[k].at \in {"none", "answered"}
    /\ calls' = NoCalls
    /\ NextStep
    /\ UNCHANGED <<answerVars, providerMode, requests, firedOnce,
                   deployAttempted, deploySucceeded, ran>>

Done == pc = "done" /\ UNCHANGED agentVars

LoopNext ==
    \/ RejectsSystemRole \/ RejectsToolChoice \/ Overloaded \/ RateLimited
    \/ RequestFails \/ AnswersEmpty \/ AnswersText \/ CallsTools
    \/ \E k \in CallSlot : ToolReturns(k)
    \/ ResultsJoin
    \/ Done

\* A request ends, by its five-minute timeout at the latest, and executeTool
\* returns; the loop itself never waits for anything else.
LoopSpec == LoopInit /\ [][LoopNext]_agentVars /\ WF_agentVars(LoopNext)

-----------------------------------------------------------------------------
(* Properties *)

\* The state of the loop has its type.
LoopTypeOK ==
    /\ pc \in {"ask", "tools", "done"}
    /\ outcome \in {"none", "disabled", "error", "answer", "refusal", "max_steps"}
    /\ step \in 0..MaxSteps /\ attempt \in 0..2
    /\ usedModel \in {"configured", "fallback"}
    /\ toolChoice \in {"required", "auto"}
    /\ providerMode \in {"system", "user_embedded"}
    /\ mustUseRealTool \in BOOLEAN /\ sawToolCall \in BOOLEAN
    /\ noToolRetryCount \in 0..2
    /\ firedOnce \subseteq ONCE_PER_SESSION
    /\ calls \in [CallSlot -> [at : {"none", "running", "answered"},
                           tool : Tool]]
    /\ deployAttempted \in BOOLEAN /\ deploySucceeded \in BOOLEAN
    /\ requests \in Nat
    /\ ran \subseteq [step : 0..(MaxSteps - 1), tool : ONCE_PER_SESSION,
                      success : BOOLEAN]

\* A destructive tool that has run to success, and deploy_position once it
\* has run at all, never runs again for a later message of the same session,
\* whatever errors, retries and rebuilt histories lie in between
\* (agent.js:237-243).
NoRepeatAfterAnswer ==
    \A r, q \in ran :
        r.tool = q.tool /\ r.step < q.step =>
            ~r.success /\ r.tool \notin NO_RETRY_TOOLS

\* Retries that do not count an attempt (attempt -= 1) cannot multiply: a
\* session sends at most three requests per step and two more.
RequestsBounded == requests <= RequestBound

\* When the screening cycle notes a successful deploy (index.js:1114-1119),
\* one ran to success in this session.
NotedDeployIsReal ==
    deploySucceeded =>
        deployAttempted /\ \E r \in ran : r.tool = "deploy_position" /\ r.success

\* The cycle's records say that no deploy succeeded (index.js:1164-1172) only
\* if none did.
NoDeployNotedIsReal ==
    pc = "done" /\ ~deploySucceeded =>
        \A r \in ran : r.tool = "deploy_position" => ~r.success

\* Every session ends, whatever the provider answers.
Terminates == <>(pc = "done")
=============================================================================
