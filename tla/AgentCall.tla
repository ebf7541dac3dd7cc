----------------------------- MODULE AgentCall ------------------------------
(***************************************************************************)
(* One call of an agent: structured attempts (StructuredAgent._complete),  *)
(* each a bounded loop of model requests and tool calls                    *)
(* (ToolCallingAgentRuntime.run), each request repeated by the transport   *)
(* (DeepSeekClient.create_chat_completion); with the accounting of all     *)
(* three.  The model service, the tools and the validation of an answer    *)
(* are the environment.                                                    *)
(*                                                                         *)
(* A definition X_Variant above a definition X is X with a plausible       *)
(* mistake; no action uses it.                                             *)
(***************************************************************************)
EXTENDS Naturals, Sequences

CONSTANTS
  MaxAttempts,   \* max_attempts of the agent
  MaxSteps,      \* max_steps of the runtime
  HttpAttempts,  \* max_attempts of the transport
  HasTools,      \* whether the agent has tools
  MaxToolCalls   \* bound: tool calls in one answer

ASSUME AttemptsAssumption ==
  /\ MaxAttempts \in Nat \ {0}
  /\ MaxSteps \in Nat \ {0}
  /\ HttpAttempts \in Nat \ {0}
ASSUME ToolsAssumption == HasTools \in BOOLEAN /\ MaxToolCalls \in Nat \ {0}

VARIABLES
  pc,         \* "attempt", "request", "answer", "tools", "validate", "ended"
  attempt,    \* attempt of _complete
  step,       \* step of run
  httpTry,    \* attempt of create_chat_completion
  open,       \* tool calls of the last answer that are not answered yet
  apiCalls,   \* api_calls
  toolCalls,  \* tool_call_count
  stats,      \* the runtime's statistics, one record per ended attempt
  audit,      \* how many tool calls of this attempt were audited
  outcome,    \* "none", "accepted", "invalid", "error" or "interrupt"
  runs,       \* history: runs of the runtime begun
  sent,       \* history: HTTP requests made in this attempt
  executed    \* history: tools executed in this attempt

vars == << pc, attempt, step, httpTry, open, apiCalls, toolCalls, stats, audit,
           outcome, runs, sent, executed >>

counters == << apiCalls, toolCalls, audit, runs, sent, executed >>

Init ==
  /\ pc = "attempt"
  /\ attempt = 1
  /\ step = 0
  /\ httpTry = 1
  /\ open = 0
  /\ apiCalls = 0
  /\ toolCalls = 0
  /\ stats = << >>
  /\ audit = 0
  /\ outcome = "none"
  /\ runs = 0
  /\ sent = 0
  /\ executed = 0

-----------------------------------------------------------------------------
(* Statistics *)

\* How an attempt of the runtime ends: "completed", or by what exception.
Ending == {"completed", "transport", "broken", "protocol", "tool", "interrupt"}

\* The record of an ended attempt.  counted are the requests its exception
\* reports, http_attempts; the fields after toolCalls are history.
Record(ending, counted) ==
  [status |-> IF ending = "completed" THEN "COMPLETED" ELSE "FAILED",
   apiCalls |-> apiCalls + counted,
   toolCalls |-> toolCalls',
   ending |-> ending, sent |-> sent', executed |-> executed', audited |-> audit']

\* Where the call goes: an exception leaves run and _complete alike.
Leave(ending) ==
  IF ending = "completed"
  THEN pc' = "validate" /\ UNCHANGED outcome
  ELSE /\ pc' = "ended"
       /\ outcome' = IF ending = "interrupt" THEN "interrupt" ELSE "error"

EndRun_OnlyCompleted(ending, counted) ==
  /\ stats' = IF ending = "completed"
              THEN Append(stats, Record(ending, counted)) ELSE stats
  /\ Leave(ending)

EndRun_IgnoresHttp(ending, counted) ==
  /\ stats' = Append(stats, Record(ending, 0))
  /\ Leave(ending)

EndRun_RetriesErrors(ending, counted) ==
  /\ stats' = Append(stats, Record(ending, counted))
  /\ IF ending \in {"completed", "interrupt"}
     THEN Leave(ending)
     ELSE pc' = "attempt" /\ UNCHANGED outcome

\* The except and finally clauses of run: every attempt is recorded.
EndRun(ending, counted) ==
  /\ stats' = Append(stats, Record(ending, counted))
  /\ Leave(ending)

-----------------------------------------------------------------------------
(* _complete *)

BeginAttempt_OffByOne ==
  /\ pc = "attempt" /\ attempt < MaxAttempts
  /\ step' = 0 /\ httpTry' = 1 /\ open' = 0
  /\ apiCalls' = 0 /\ toolCalls' = 0 /\ audit' = 0 /\ sent' = 0 /\ executed' = 0
  /\ runs' = runs + 1
  /\ pc' = "request"
  /\ UNCHANGED << attempt, stats, outcome >>

BeginAttempt ==
  /\ pc = "attempt"
  /\ step' = 0 /\ httpTry' = 1 /\ open' = 0
  /\ apiCalls' = 0 /\ toolCalls' = 0 /\ audit' = 0 /\ sent' = 0 /\ executed' = 0
  /\ runs' = runs + 1
  /\ pc' = "request"
  /\ UNCHANGED << attempt, stats, outcome >>

\* The answer matches the schema and the agent's own rules.
Accept ==
  /\ pc = "validate"
  /\ pc' = "ended" /\ outcome' = "accepted"
  /\ UNCHANGED << attempt, step, httpTry, open, stats, counters >>

\* It does not: a corrected answer is asked for, while attempts last.
Reject ==
  /\ pc = "validate"
  /\ \/ /\ attempt < MaxAttempts
        /\ attempt' = attempt + 1
        /\ pc' = "attempt"
        /\ UNCHANGED outcome
     \/ /\ attempt = MaxAttempts
        /\ pc' = "ended" /\ outcome' = "invalid"
        /\ UNCHANGED attempt
  /\ UNCHANGED << step, httpTry, open, stats, counters >>

-----------------------------------------------------------------------------
(* The transport *)

Send == pc = "request" /\ sent' = sent + 1

\* A JSON object arrives.
RequestSucceeds ==
  /\ Send
  /\ apiCalls' = apiCalls + httpTry
  /\ pc' = "answer"
  /\ UNCHANGED << attempt, step, httpTry, open, toolCalls, stats, audit, outcome, runs, executed >>

\* HTTP 429 or 5xx, no connection, a timeout or a body that is not JSON.
RequestRetried ==
  /\ Send
  /\ httpTry < HttpAttempts
  /\ httpTry' = httpTry + 1
  /\ UNCHANGED << pc, attempt, step, open, apiCalls, toolCalls, stats, audit, outcome, runs, executed >>

\* The last of these, any other HTTP error, or JSON that is no object: the
\* exception carries the number of requests.
RequestFails ==
  /\ Send
  /\ UNCHANGED << attempt, step, httpTry, open, apiCalls, toolCalls, audit, runs, executed >>
  /\ EndRun("transport", httpTry)

\* The peer closes the connection before or inside the answer, or the answer is
\* not UTF-8: no except clause of the transport is for that.
ReadBreaks ==
  /\ Send
  /\ UNCHANGED << attempt, step, httpTry, open, apiCalls, toolCalls, audit, runs, executed >>
  /\ EndRun("broken", 0)

-----------------------------------------------------------------------------
(* The tool loop *)

FinalizationStep_Late == HasTools /\ step = MaxSteps
FinalizationStep == HasTools /\ step = MaxSteps - 1

\* No message, a truncated one, or one without content.
AnswerUnusable ==
  /\ pc = "answer"
  /\ UNCHANGED << attempt, step, httpTry, open, counters >>
  /\ EndRun("protocol", 0)

AnswerIsFinal ==
  /\ pc = "answer"
  /\ UNCHANGED << attempt, step, httpTry, open, counters >>
  /\ EndRun("completed", 0)

\* Tool calls of an agent without tools, or in the step that has none.
ToolsRefused ==
  /\ pc = "answer"
  /\ FinalizationStep \/ ~ HasTools
  /\ \E n \in 1..MaxToolCalls : toolCalls' = toolCalls + n
  /\ UNCHANGED << attempt, step, httpTry, open, apiCalls, audit, runs, sent, executed >>
  /\ EndRun("protocol", 0)

ToolsCalled ==
  /\ pc = "answer"
  /\ HasTools /\ ~ FinalizationStep
  /\ \E n \in 1..MaxToolCalls : toolCalls' = toolCalls + n /\ open' = n
  /\ pc' = "tools"
  /\ UNCHANGED << attempt, step, httpTry, apiCalls, stats, audit, outcome, runs, sent, executed >>

ExecuteTool_AuditsLater ==
  /\ pc = "tools"
  /\ executed' = executed + 1
  /\ open' = open - 1
  /\ IF open = 1
     THEN pc' = "request" /\ step' = step + 1 /\ httpTry' = 1 /\ audit' = audit + 1
     ELSE UNCHANGED << pc, step, httpTry, audit >>
  /\ UNCHANGED << attempt, apiCalls, toolCalls, stats, outcome, runs, sent >>

\* One tool is executed and audited, in the order of the calls; after the last
\* the next step sends its request.
ExecuteTool ==
  /\ pc = "tools"
  /\ executed' = executed + 1
  /\ audit' = audit + 1
  /\ open' = open - 1
  /\ IF open = 1
     THEN pc' = "request" /\ step' = step + 1 /\ httpTry' = 1
     ELSE UNCHANGED << pc, step, httpTry >>
  /\ UNCHANGED << attempt, apiCalls, toolCalls, stats, outcome, runs, sent >>

\* A call without an id, a function, a name or arguments; nothing is executed.
ToolCallMalformed ==
  /\ pc = "tools"
  /\ UNCHANGED << attempt, step, httpTry, open, counters >>
  /\ EndRun("protocol", 0)

\* An exception that execute does not turn into an answer: a KeyError of a
\* handler, or an error text that is not UTF-8.  What the handler did stays.
ToolRaises ==
  /\ pc = "tools"
  /\ executed' = executed + 1
  /\ UNCHANGED << attempt, step, httpTry, open, apiCalls, toolCalls, audit, runs, sent >>
  /\ EndRun("tool", 0)

\* Ctrl-C while the runtime works: before, in or after a request or a tool.
InterruptRun ==
  /\ pc \in {"request", "answer", "tools"}
  /\ IF pc = "request" THEN sent' \in {sent, sent + 1} ELSE UNCHANGED sent
  /\ IF pc = "tools" THEN executed' \in {executed, executed + 1} ELSE UNCHANGED executed
  /\ UNCHANGED << attempt, step, httpTry, open, apiCalls, toolCalls, audit, runs >>
  /\ EndRun("interrupt", 0)

\* Ctrl-C between runs of the runtime.
InterruptCall ==
  /\ pc \in {"attempt", "validate"}
  /\ pc' = "ended" /\ outcome' = "interrupt"
  /\ UNCHANGED << attempt, step, httpTry, open, stats, counters >>

-----------------------------------------------------------------------------
Step ==
  \/ BeginAttempt \/ Accept \/ Reject
  \/ RequestSucceeds \/ RequestRetried \/ RequestFails \/ ReadBreaks
  \/ AnswerUnusable \/ AnswerIsFinal \/ ToolsRefused \/ ToolsCalled
  \/ ExecuteTool \/ ToolCallMalformed \/ ToolRaises

Next == Step \/ InterruptRun \/ InterruptCall

Spec == Init /\ [][Next]_vars

\* Requests time out and tools return, so the controller always goes on.
FairSpec == Spec /\ WF_vars(Step)
=============================================================================
