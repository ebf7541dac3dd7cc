-------------------------- MODULE AgentCallProofs ---------------------------
(***************************************************************************)
(* The accounts and budgets of an agent call, for any limits.              *)
(***************************************************************************)
EXTENDS AgentCallProperties, SequenceTheorems, TLAPS

USE AttemptsAssumption, ToolsAssumption

-----------------------------------------------------------------------------
(* Types *)

\* TypeOK with the counters one by one.
Counters ==
  /\ apiCalls \in Nat /\ toolCalls \in Nat /\ audit \in Nat
  /\ runs \in Nat /\ sent \in Nat /\ executed \in Nat

\* Tools are only called before the final step, and only while calls are open.
ToolPhase ==
  /\ pc = "tools" => HasTools /\ step < MaxSteps - 1 /\ open > 0

\* The type invariant, with what makes it inductive.
TypeInv == TypeOK /\ Counters /\ ToolPhase

\* Every counter starts at zero.
LEMMA InitType == Init => TypeInv
BY DEF Init, TypeInv, TypeOK, Counters, ToolPhase

\* The record of an ended attempt has its type.
LEMMA EndRunType ==
  ASSUME TypeInv, NEW ending \in Ending, NEW counted \in Nat, EndRun(ending, counted),
         toolCalls' \in Nat, audit' \in Nat, sent' \in Nat, executed' \in Nat
  PROVE  /\ stats' \in Seq(RunStats)
         /\ pc' \in {"validate", "ended"}
         /\ outcome' \in {"none", "accepted", "invalid", "error", "interrupt"}
<1>1. Record(ending, counted) \in RunStats
  BY DEF TypeInv, Counters, Record, RunStats
<1> QED
  BY <1>1 DEF EndRun, Leave, TypeInv, TypeOK

\* No step takes a counter beyond its limit.
LEMMA StepType == TypeInv /\ [Next]_vars => TypeInv'
<1> SUFFICES ASSUME TypeInv, [Next]_vars PROVE TypeInv'
  OBVIOUS
<1> USE DEF TypeInv, TypeOK, Counters, ToolPhase, counters
<1>1. CASE UNCHANGED vars
  BY <1>1 DEF vars
<1>2. CASE BeginAttempt
  BY <1>2 DEF BeginAttempt
<1>3. CASE Accept
  BY <1>3 DEF Accept
<1>4. CASE Reject
  BY <1>4 DEF Reject
<1>5. CASE RequestSucceeds
  BY <1>5 DEF RequestSucceeds, Send
<1>6. CASE RequestRetried
  BY <1>6 DEF RequestRetried, Send
<1>7. CASE RequestFails
  BY <1>7, EndRunType DEF RequestFails, Send, Ending
<1>8. CASE ReadBreaks
  BY <1>8, EndRunType DEF ReadBreaks, Send, Ending
<1>9. CASE AnswerUnusable
  BY <1>9, EndRunType DEF AnswerUnusable, Ending
<1>10. CASE AnswerIsFinal
  BY <1>10, EndRunType DEF AnswerIsFinal, Ending
<1>11. CASE ToolsRefused
  BY <1>11, EndRunType DEF ToolsRefused, Ending
<1>12. CASE ToolsCalled
  BY <1>12 DEF ToolsCalled, FinalizationStep
<1>13. CASE ExecuteTool
  BY <1>13 DEF ExecuteTool
<1>14. CASE ToolCallMalformed
  BY <1>14, EndRunType DEF ToolCallMalformed, Ending
<1>15. CASE ToolRaises
  BY <1>15, EndRunType DEF ToolRaises, Ending
<1>16. CASE InterruptRun
  <2>1. sent' \in Nat /\ executed' \in Nat
    BY <1>16 DEF InterruptRun
  <2> QED
    BY <1>16, <2>1, EndRunType DEF InterruptRun, Ending
<1>17. CASE InterruptCall
  BY <1>17 DEF InterruptCall
<1> QED
  BY <1>1, <1>2, <1>3, <1>4, <1>5, <1>6, <1>7, <1>8, <1>9, <1>10, <1>11, <1>12,
     <1>13, <1>14, <1>15, <1>16, <1>17 DEF Next, Step

\* The types and limits hold throughout.
LEMMA TypeInvariant == Spec => []TypeInv
BY InitType, StepType, PTL DEF Spec

\* Attempts, steps, requests and open tool calls keep their limits.
THEOREM TypeCorrect == Spec => []TypeOK
<1>1. TypeInv => TypeOK
  BY DEF TypeInv
<1> QED BY TypeInvariant, <1>1, PTL

\* No tool runs in the step that is kept for the answer.
THEOREM LastStepCorrect == Spec => LastStepIsForTheAnswer
<1>1. ASSUME TypeInv, [Next]_vars, executed' > executed
      PROVE  step < MaxSteps - 1
  <2>1. pc = "tools"
    BY <1>1 DEF TypeInv, Counters, vars, counters, Next, Step, BeginAttempt, Accept, Reject,
       RequestSucceeds, RequestRetried, RequestFails, ReadBreaks, AnswerUnusable,
       AnswerIsFinal, ToolsRefused, ToolsCalled, ExecuteTool, ToolCallMalformed,
       ToolRaises, InterruptRun, InterruptCall
  <2> QED
    BY <1>1, <2>1 DEF TypeInv, ToolPhase
<1> QED
  BY <1>1, TypeInvariant, PTL DEF Spec, LastStepIsForTheAnswer

\* Every step of the call comes closer to its end, whatever the limits are and the
\* model, the network and the tools answer.
THEOREM Advance == Spec => StepsAdvance
<1>1. ASSUME TypeInv, Next
      PROVE  /\ pc # "ended"
             /\ \/ attempt' > attempt
                \/ attempt' = attempt /\ Phase[pc'] > Phase[pc]
                \/ UNCHANGED attempt /\ Phase[pc'] = Phase[pc] /\ step' > step
                \/ UNCHANGED << attempt, step >> /\ Phase[pc'] = Phase[pc] /\ Turn[pc'] > Turn[pc]
                \/ UNCHANGED << attempt, step, pc >> /\ (httpTry' > httpTry \/ open' < open)
  <2> USE <1>1 DEF TypeInv, TypeOK, Phase, Turn
  <2>1. CASE \/ RequestFails \/ ReadBreaks \/ AnswerUnusable \/ AnswerIsFinal \/ ToolsRefused
             \/ ToolCallMalformed \/ ToolRaises \/ InterruptRun
    <3>1. /\ pc \in {"request", "answer", "tools"} /\ UNCHANGED attempt
          /\ \E ending, counted : EndRun(ending, counted)
      BY <2>1 DEF RequestFails, ReadBreaks, Send, AnswerUnusable, AnswerIsFinal, ToolsRefused,
                  ToolCallMalformed, ToolRaises, InterruptRun
    <3> QED
      BY <3>1 DEF EndRun, Leave
  <2>2. CASE \/ BeginAttempt \/ Accept \/ Reject \/ InterruptCall
    BY <2>2 DEF BeginAttempt, Accept, Reject, InterruptCall
  <2>3. CASE \/ RequestSucceeds \/ RequestRetried \/ ToolsCalled
    BY <2>3 DEF RequestSucceeds, RequestRetried, Send, ToolsCalled
  <2>4. CASE ExecuteTool
    BY <2>4 DEF ExecuteTool
  <2> QED
    BY <2>1, <2>2, <2>3, <2>4 DEF Next, Step
<1> QED
  BY <1>1, TypeInvariant, PTL DEF Spec, StepsAdvance

-----------------------------------------------------------------------------
(* Statistics *)

\* What the end of a run does.
Appended(ending, counted) ==
  /\ Len(stats) \in Nat
  /\ Len(stats') = Len(stats) + 1
  /\ stats'[Len(stats) + 1] = Record(ending, counted)
  /\ \A i \in 1..Len(stats) : stats'[i] = stats[i]
  /\ Leave(ending)

\* The end of a run adds its record to the statistics and changes no other.
LEMMA EndRunAppends ==
  ASSUME TypeInv, TypeInv', NEW ending \in Ending, NEW counted \in Nat,
         EndRun(ending, counted)
  PROVE  Appended(ending, counted)
<1>1. Record(ending, counted) \in RunStats
  BY DEF TypeInv, Counters, Record, RunStats
<1>2. stats \in Seq(RunStats) /\ Len(stats) \in Nat
  BY DEF TypeInv, TypeOK
<1>3. stats' = Append(stats, Record(ending, counted)) /\ Leave(ending)
  BY DEF EndRun
<1>4. /\ Len(stats') = Len(stats) + 1
      /\ stats'[Len(stats) + 1] = Record(ending, counted)
      /\ \A i \in 1..Len(stats) : stats'[i] = stats[i]
  BY <1>1, <1>2, <1>3, AppendProperties
<1> QED
  BY <1>2, <1>3, <1>4 DEF Appended

\* How many runs of the runtime an attempt has begun and recorded.
RecordInv ==
  /\ EveryAttemptRecorded
  /\ pc = "attempt" => runs = attempt - 1
  /\ pc \in {"request", "answer", "tools", "validate"} => runs = attempt

\* A run that ends is recorded, one that begins takes an attempt.
LEMMA RecordStep ==
  ASSUME TypeInv, TypeInv', RecordInv, [Next]_vars
  PROVE  RecordInv'
<1> USE DEF TypeInv, TypeOK, Counters, ToolPhase, RecordInv, EveryAttemptRecorded
<1>1. CASE UNCHANGED vars
  BY <1>1 DEF vars
<1>2. CASE BeginAttempt
  BY <1>2 DEF BeginAttempt, counters
<1>3. CASE Accept
  BY <1>3 DEF Accept, counters
<1>4. CASE Reject
  <2>1. /\ stats' = stats /\ runs' = runs /\ pc = "validate"
        /\ \/ attempt' = attempt + 1 /\ pc' = "attempt"
           \/ attempt' = attempt /\ pc' = "ended"
    BY <1>4 DEF Reject, counters
  <2>2. Len(stats') = runs' /\ runs' = attempt /\ attempt \in Nat
    BY <2>1
  <2> HIDE DEF TypeInv
  <2> QED
    BY <2>1, <2>2
<1>5. CASE RequestSucceeds
  BY <1>5 DEF RequestSucceeds, Send
<1>6. CASE RequestRetried
  BY <1>6 DEF RequestRetried, Send
<1>7. CASE RequestFails
  <2>1. Appended("transport", httpTry)
    BY <1>7, EndRunAppends DEF RequestFails, Ending
  <2> QED
    BY <1>7, <2>1 DEF RequestFails, Send, Appended, Record, Leave
<1>8. CASE ReadBreaks
  <2>1. Appended("broken", 0)
    BY <1>8, EndRunAppends DEF ReadBreaks, Ending
  <2> QED
    BY <1>8, <2>1 DEF ReadBreaks, Send, Appended, Record, Leave
<1>9. CASE AnswerUnusable
  <2>1. Appended("protocol", 0)
    BY <1>9, EndRunAppends DEF AnswerUnusable, Ending
  <2> QED
    BY <1>9, <2>1 DEF AnswerUnusable, counters, Appended, Record, Leave
<1>10. CASE AnswerIsFinal
  <2>1. Appended("completed", 0)
    BY <1>10, EndRunAppends DEF AnswerIsFinal, Ending
  <2> QED
    BY <1>10, <2>1 DEF AnswerIsFinal, counters, Appended, Record, Leave
<1>11. CASE ToolsRefused
  <2>1. Appended("protocol", 0)
    BY <1>11, EndRunAppends DEF ToolsRefused, Ending
  <2> QED
    BY <1>11, <2>1 DEF ToolsRefused, Appended, Record, Leave
<1>12. CASE ToolsCalled
  BY <1>12 DEF ToolsCalled, counters
<1>13. CASE ExecuteTool
  BY <1>13 DEF ExecuteTool, counters
<1>14. CASE ToolCallMalformed
  <2>1. Appended("protocol", 0)
    BY <1>14, EndRunAppends DEF ToolCallMalformed, Ending
  <2> QED
    BY <1>14, <2>1 DEF ToolCallMalformed, counters, Appended, Record, Leave
<1>15. CASE ToolRaises
  <2>1. Appended("tool", 0)
    BY <1>15, EndRunAppends DEF ToolRaises, Ending
  <2> QED
    BY <1>15, <2>1 DEF ToolRaises, Appended, Record, Leave
<1>16. CASE InterruptRun
  <2>1. Appended("interrupt", 0)
    BY <1>16, EndRunAppends DEF InterruptRun, Ending
  <2> QED
    BY <1>16, <2>1 DEF InterruptRun, Appended, Record, Leave
<1>17. CASE InterruptCall
  BY <1>17 DEF InterruptCall, counters
<1> QED
  BY <1>1, <1>2, <1>3, <1>4, <1>5, <1>6, <1>7, <1>8, <1>9,
     <1>10, <1>11, <1>12, <1>13, <1>14, <1>15, <1>16, <1>17 DEF Next, Step

\* Every run of the runtime that ended is in the statistics, and no other.
THEOREM RecordCorrect == Spec => []EveryAttemptRecorded
<1>1. Init => RecordInv
  BY DEF Init, RecordInv, EveryAttemptRecorded
<1>2. RecordInv => EveryAttemptRecorded
  BY DEF RecordInv
<1> QED
  BY <1>1, <1>2, RecordStep, TypeInvariant, PTL DEF Spec

-----------------------------------------------------------------------------
(* Requests *)

\* A step's requests fit in its tries, and an attempt's in those of all its steps.
LEMMA StepBudget ==
  ASSUME NEW s \in 0..(MaxSteps - 1)
  PROVE  /\ s * HttpAttempts \in Nat /\ MaxSteps * HttpAttempts \in Nat
         /\ (s + 1) * HttpAttempts = s * HttpAttempts + HttpAttempts
         /\ s * HttpAttempts + HttpAttempts <= MaxSteps * HttpAttempts
<1>1. (s + 1) * HttpAttempts = s * HttpAttempts + HttpAttempts
  OBVIOUS
<1>2. /\ MaxSteps - (s + 1) \in Nat
      /\ MaxSteps * HttpAttempts = (s + 1) * HttpAttempts + (MaxSteps - (s + 1)) * HttpAttempts
  OBVIOUS
<1>3. \A n \in Nat : n * HttpAttempts \in Nat
  OBVIOUS
<1> QED
  BY <1>1, <1>2, <1>3

\* The requests so far: those of the steps before at most, and this one's.
Budget ==
  /\ pc = "request" => sent + 1 <= step * HttpAttempts + httpTry
  /\ pc = "answer" => sent <= step * HttpAttempts + httpTry
  /\ pc = "tools" => sent <= step * HttpAttempts + HttpAttempts
  /\ RequestsWithinLimits

\* A step leaves the statistics, or ends a run and adds its record.
LEMMA StatsStep ==
  ASSUME TypeInv, TypeInv', [Next]_vars
  PROVE  \/ stats' = stats
         \/ /\ pc \in {"request", "answer", "tools"} /\ pc' \in {"validate", "ended"}
            /\ sent' <= sent + 1 /\ (pc # "request" => sent' = sent)
            /\ \E ending \in Ending, counted \in Nat : Appended(ending, counted)
<1>1. \/ stats' = stats
      \/ /\ pc \in {"request", "answer", "tools"} /\ sent' \in {sent, sent + 1}
         /\ pc # "request" => sent' = sent
         /\ \E ending \in Ending, counted \in {0, httpTry} : EndRun(ending, counted)
  BY DEF Next, vars, counters, Step, BeginAttempt, Accept, Reject, RequestSucceeds, RequestRetried,
         RequestFails, ReadBreaks, Send, AnswerUnusable, AnswerIsFinal, ToolsRefused, ToolsCalled,
         ExecuteTool, ToolCallMalformed, ToolRaises, InterruptRun, InterruptCall, Ending
<1>2. httpTry \in Nat /\ sent \in Nat
  BY DEF TypeInv, TypeOK, Counters
<1>3. \A ending, counted : EndRun(ending, counted) => pc' \in {"validate", "ended"}
  BY DEF EndRun, Leave
<1> QED
  BY <1>1, <1>2, <1>3, EndRunAppends

\* No step spends more than its tries.
LEMMA BudgetStep ==
  ASSUME TypeInv, TypeInv', Budget, [Next]_vars
  PROVE  Budget'
<1>a. /\ step \in 0..(MaxSteps - 1) /\ httpTry \in 1..HttpAttempts /\ sent \in Nat
      /\ Len(stats) \in Nat
  BY DEF TypeInv, TypeOK, Counters
<1> DEFINE before == step * HttpAttempts
           limit == MaxSteps * HttpAttempts
<1>b. /\ before \in Nat /\ limit \in Nat /\ before + HttpAttempts <= limit
      /\ (step + 1) * HttpAttempts = before + HttpAttempts
  BY <1>a, StepBudget
<1>c. 0 * HttpAttempts = 0
  OBVIOUS
<1>1. RequestsWithinLimits'
  <2>1. CASE stats' = stats
    BY <2>1 DEF Budget, RequestsWithinLimits
  <2>2. ASSUME pc \in {"request", "answer", "tools"}, sent' <= sent + 1, pc # "request" => sent' = sent,
               NEW ending \in Ending, NEW counted \in Nat, Appended(ending, counted)
        PROVE  RequestsWithinLimits'
    <3>1. sent' <= limit
      BY <1>a, <1>b, <2>2 DEF Budget, TypeInv, Counters
    <3>2. stats'[Len(stats) + 1].sent = sent'
      BY <2>2 DEF Appended, Record
    <3> QED
      BY <1>a, <2>2, <3>1, <3>2 DEF Appended, Budget, RequestsWithinLimits
  <2> QED
    BY <2>1, <2>2, StatsStep
<1>2. \/ UNCHANGED << pc, step, httpTry, sent >>
      \/ pc' = "request" /\ step' = 0 /\ httpTry' = 1 /\ sent' = 0
      \/ pc = "request" /\ pc' = "answer" /\ sent' = sent + 1 /\ UNCHANGED << step, httpTry >>
      \/ pc = "request" /\ pc' = pc /\ sent' = sent + 1 /\ httpTry' = httpTry + 1 /\ step' = step
      \/ pc = "answer" /\ pc' = "tools" /\ UNCHANGED << step, httpTry, sent >>
      \/ pc = "tools" /\ pc' = "request" /\ step' = step + 1 /\ httpTry' = 1 /\ sent' = sent
      \/ pc' \in {"attempt", "validate", "ended"}
  BY DEF Next, vars, counters, Step, BeginAttempt, Accept, Reject, RequestSucceeds, RequestRetried,
         RequestFails, ReadBreaks, Send, AnswerUnusable, AnswerIsFinal, ToolsRefused, ToolsCalled,
         ExecuteTool, ToolCallMalformed, ToolRaises, InterruptRun, InterruptCall, EndRun, Leave
<1> QED
  BY <1>a, <1>b, <1>c, <1>1, <1>2 DEF Budget

\* Each request is counted once, when it succeeds or when the last one fails.
LEMMA RequestStep ==
  ASSUME TypeInv, TypeInv', RequestsCounted, Budget', [Next]_vars
  PROVE  RequestsCounted'
<1>0. RequestsWithinLimits'
  BY DEF Budget
<1> USE <1>0 DEF TypeInv, TypeOK, Counters, ToolPhase, RequestsCounted
<1>1. CASE UNCHANGED vars
  BY <1>1 DEF vars
<1>2. CASE BeginAttempt
  BY <1>2 DEF BeginAttempt, counters
<1>3. CASE Accept
  BY <1>3 DEF Accept, counters
<1>4. CASE Reject
  BY <1>4 DEF Reject, counters
<1>5. CASE RequestSucceeds
  BY <1>5 DEF RequestSucceeds, Send
<1>6. CASE RequestRetried
  BY <1>6 DEF RequestRetried, Send
<1>7. CASE RequestFails
  <2>1. Appended("transport", httpTry)
    BY <1>7, EndRunAppends DEF RequestFails, Ending
  <2> QED
    BY <1>7, <2>1 DEF RequestFails, Send, Appended, Record, Leave
<1>8. CASE ReadBreaks
  <2>1. Appended("broken", 0)
    BY <1>8, EndRunAppends DEF ReadBreaks, Ending
  <2> QED
    BY <1>8, <2>1 DEF ReadBreaks, Send, Appended, Record, Leave
<1>9. CASE AnswerUnusable
  <2>1. Appended("protocol", 0)
    BY <1>9, EndRunAppends DEF AnswerUnusable, Ending
  <2> QED
    BY <1>9, <2>1 DEF AnswerUnusable, counters, Appended, Record, Leave
<1>10. CASE AnswerIsFinal
  <2>1. Appended("completed", 0)
    BY <1>10, EndRunAppends DEF AnswerIsFinal, Ending
  <2> QED
    BY <1>10, <2>1 DEF AnswerIsFinal, counters, Appended, Record, Leave
<1>11. CASE ToolsRefused
  <2>1. Appended("protocol", 0)
    BY <1>11, EndRunAppends DEF ToolsRefused, Ending
  <2> QED
    BY <1>11, <2>1 DEF ToolsRefused, Appended, Record, Leave
<1>12. CASE ToolsCalled
  BY <1>12 DEF ToolsCalled, counters
<1>13. CASE ExecuteTool
  <2>1. /\ stats' = stats /\ apiCalls' = apiCalls /\ sent' = sent /\ pc = "tools"
        /\ \/ pc' = "request" /\ httpTry' = 1
           \/ pc' = "tools"
    BY <1>13 DEF ExecuteTool
  <2>2. apiCalls' = sent' /\ sent' \in Nat
    BY <2>1
  <2> HIDE DEF TypeInv
  <2> QED
    BY <2>1, <2>2
<1>14. CASE ToolCallMalformed
  <2>1. Appended("protocol", 0)
    BY <1>14, EndRunAppends DEF ToolCallMalformed, Ending
  <2> QED
    BY <1>14, <2>1 DEF ToolCallMalformed, counters, Appended, Record, Leave
<1>15. CASE ToolRaises
  <2>1. Appended("tool", 0)
    BY <1>15, EndRunAppends DEF ToolRaises, Ending
  <2> QED
    BY <1>15, <2>1 DEF ToolRaises, Appended, Record, Leave
<1>16. CASE InterruptRun
  <2>1. Appended("interrupt", 0)
    BY <1>16, EndRunAppends DEF InterruptRun, Ending
  <2> QED
    BY <1>16, <2>1 DEF InterruptRun, Appended, Record, Leave
<1>17. CASE InterruptCall
  BY <1>17 DEF InterruptCall, counters
<1> QED
  BY <1>1, <1>2, <1>3, <1>4, <1>5, <1>6, <1>7, <1>8, <1>9,
     <1>10, <1>11, <1>12, <1>13, <1>14, <1>15, <1>16, <1>17 DEF Next, Step

\* The requests of an attempt are counted exactly, unless its exception does not tell,
\* and are at most MaxSteps * HttpAttempts.
THEOREM RequestCorrect == Spec => []RequestsCounted
<1>1. Init => RequestsCounted /\ Budget
  BY DEF Init, RequestsCounted, Budget, RequestsWithinLimits
<1>2. TypeInv /\ TypeInv' /\ Budget /\ [Next]_vars => Budget'
  BY BudgetStep
<1>3. TypeInv /\ TypeInv' /\ RequestsCounted /\ Budget' /\ [Next]_vars => RequestsCounted'
  BY RequestStep
<1> QED
  BY <1>1, <1>2, <1>3, TypeInvariant, PTL DEF Spec

-----------------------------------------------------------------------------
(* Tools *)

\* No tool call is open while the model is asked.
ToolInv ==
  /\ ToolsAudited
  /\ pc \in {"request", "answer", "validate"} => open = 0

\* Each tool that runs is audited before the next.
LEMMA ToolStep ==
  ASSUME TypeInv, TypeInv', ToolInv, [Next]_vars
  PROVE  ToolInv'
<1> USE DEF TypeInv, TypeOK, Counters, ToolPhase, ToolInv, ToolsAudited
<1>1. CASE UNCHANGED vars
  BY <1>1 DEF vars
<1>2. CASE BeginAttempt
  BY <1>2 DEF BeginAttempt, counters
<1>3. CASE Accept
  BY <1>3 DEF Accept, counters
<1>4. CASE Reject
  BY <1>4 DEF Reject, counters
<1>5. CASE RequestSucceeds
  BY <1>5 DEF RequestSucceeds, Send
<1>6. CASE RequestRetried
  BY <1>6 DEF RequestRetried, Send
<1>7. CASE RequestFails
  <2>1. Appended("transport", httpTry)
    BY <1>7, EndRunAppends DEF RequestFails, Ending
  <2> QED
    BY <1>7, <2>1 DEF RequestFails, Send, Appended, Record, Leave
<1>8. CASE ReadBreaks
  <2>1. Appended("broken", 0)
    BY <1>8, EndRunAppends DEF ReadBreaks, Ending
  <2> QED
    BY <1>8, <2>1 DEF ReadBreaks, Send, Appended, Record, Leave
<1>9. CASE AnswerUnusable
  <2>1. Appended("protocol", 0)
    BY <1>9, EndRunAppends DEF AnswerUnusable, Ending
  <2> QED
    BY <1>9, <2>1 DEF AnswerUnusable, counters, Appended, Record, Leave
<1>10. CASE AnswerIsFinal
  <2>1. Appended("completed", 0)
    BY <1>10, EndRunAppends DEF AnswerIsFinal, Ending
  <2> QED
    BY <1>10, <2>1 DEF AnswerIsFinal, counters, Appended, Record, Leave
<1>11. CASE ToolsRefused
  <2>1. Appended("protocol", 0)
    BY <1>11, EndRunAppends DEF ToolsRefused, Ending
  <2> QED
    BY <1>11, <2>1 DEF ToolsRefused, Appended, Record, Leave
<1>12. CASE ToolsCalled
  BY <1>12 DEF ToolsCalled, counters
<1>13. CASE ExecuteTool
  BY <1>13 DEF ExecuteTool, counters
<1>14. CASE ToolCallMalformed
  <2>1. Appended("protocol", 0)
    BY <1>14, EndRunAppends DEF ToolCallMalformed, Ending
  <2> QED
    BY <1>14, <2>1 DEF ToolCallMalformed, counters, Appended, Record, Leave
<1>15. CASE ToolRaises
  <2>1. Appended("tool", 0)
    BY <1>15, EndRunAppends DEF ToolRaises, Ending
  <2> QED
    BY <1>15, <2>1 DEF ToolRaises, Appended, Record, Leave
<1>16. CASE InterruptRun
  <2>1. Appended("interrupt", 0)
    BY <1>16, EndRunAppends DEF InterruptRun, Ending
  <2> QED
    BY <1>16, <2>1 DEF InterruptRun, Appended, Record, Leave
<1>17. CASE InterruptCall
  BY <1>17 DEF InterruptCall, counters
<1> QED
  BY <1>1, <1>2, <1>3, <1>4, <1>5, <1>6, <1>7, <1>8, <1>9,
     <1>10, <1>11, <1>12, <1>13, <1>14, <1>15, <1>16, <1>17 DEF Next, Step

\* What ran is audited, save the tool that ended the attempt.
THEOREM ToolCorrect == Spec => []ToolsAudited
<1>1. Init => ToolInv
  BY DEF Init, ToolInv, ToolsAudited
<1>2. ToolInv => ToolsAudited
  BY DEF ToolInv
<1> QED
  BY <1>1, <1>2, ToolStep, TypeInvariant, PTL DEF Spec

-----------------------------------------------------------------------------
(* Retries *)

\* The call has no outcome while it goes on, and so no failed attempt.
OutcomeInv ==
  /\ OnlyInvalidAnswersRepeat
  /\ pc # "ended" => outcome = "none"
  /\ pc = "validate" => stats[Len(stats)].status = "COMPLETED"

\* A failed attempt ends the call.
LEMMA OutcomeStep ==
  ASSUME TypeInv, TypeInv', OutcomeInv, [Next]_vars
  PROVE  OutcomeInv'
<1> USE DEF TypeInv, TypeOK, Counters, ToolPhase, OutcomeInv, OnlyInvalidAnswersRepeat
<1>1. CASE UNCHANGED vars
  BY <1>1 DEF vars
<1>2. CASE BeginAttempt
  BY <1>2 DEF BeginAttempt, counters
<1>3. CASE Accept
  BY <1>3 DEF Accept, counters
<1>4. CASE Reject
  BY <1>4 DEF Reject, counters
<1>5. CASE RequestSucceeds
  BY <1>5 DEF RequestSucceeds, Send
<1>6. CASE RequestRetried
  BY <1>6 DEF RequestRetried, Send
<1>7. CASE RequestFails
  <2>1. Appended("transport", httpTry)
    BY <1>7, EndRunAppends DEF RequestFails, Ending
  <2> QED
    BY <1>7, <2>1 DEF RequestFails, Send, Appended, Record, Leave
<1>8. CASE ReadBreaks
  <2>1. Appended("broken", 0)
    BY <1>8, EndRunAppends DEF ReadBreaks, Ending
  <2> QED
    BY <1>8, <2>1 DEF ReadBreaks, Send, Appended, Record, Leave
<1>9. CASE AnswerUnusable
  <2>1. Appended("protocol", 0)
    BY <1>9, EndRunAppends DEF AnswerUnusable, Ending
  <2> QED
    BY <1>9, <2>1 DEF AnswerUnusable, counters, Appended, Record, Leave
<1>10. CASE AnswerIsFinal
  <2>1. Appended("completed", 0)
    BY <1>10, EndRunAppends DEF AnswerIsFinal, Ending
  <2> QED
    BY <1>10, <2>1 DEF AnswerIsFinal, counters, Appended, Record, Leave
<1>11. CASE ToolsRefused
  <2>1. Appended("protocol", 0)
    BY <1>11, EndRunAppends DEF ToolsRefused, Ending
  <2> QED
    BY <1>11, <2>1 DEF ToolsRefused, Appended, Record, Leave
<1>12. CASE ToolsCalled
  BY <1>12 DEF ToolsCalled, counters
<1>13. CASE ExecuteTool
  BY <1>13 DEF ExecuteTool, counters
<1>14. CASE ToolCallMalformed
  <2>1. Appended("protocol", 0)
    BY <1>14, EndRunAppends DEF ToolCallMalformed, Ending
  <2> QED
    BY <1>14, <2>1 DEF ToolCallMalformed, counters, Appended, Record, Leave
<1>15. CASE ToolRaises
  <2>1. Appended("tool", 0)
    BY <1>15, EndRunAppends DEF ToolRaises, Ending
  <2> QED
    BY <1>15, <2>1 DEF ToolRaises, Appended, Record, Leave
<1>16. CASE InterruptRun
  <2>1. Appended("interrupt", 0)
    BY <1>16, EndRunAppends DEF InterruptRun, Ending
  <2> QED
    BY <1>16, <2>1 DEF InterruptRun, Appended, Record, Leave
<1>17. CASE InterruptCall
  BY <1>17 DEF InterruptCall, counters
<1> QED
  BY <1>1, <1>2, <1>3, <1>4, <1>5, <1>6, <1>7, <1>8, <1>9,
     <1>10, <1>11, <1>12, <1>13, <1>14, <1>15, <1>16, <1>17 DEF Next, Step

\* Only an invalid answer is asked for again.
THEOREM RetryCorrect == Spec => []OnlyInvalidAnswersRepeat
<1>1. Init => OutcomeInv
  BY DEF Init, OutcomeInv, OnlyInvalidAnswersRepeat
<1>2. OutcomeInv => OnlyInvalidAnswersRepeat
  BY DEF OutcomeInv
<1> QED
  BY <1>1, <1>2, OutcomeStep, TypeInvariant, PTL DEF Spec
=============================================================================
