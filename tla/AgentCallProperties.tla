------------------------ MODULE AgentCallProperties -------------------------
(***************************************************************************)
(* What the bounded agent call promises: budgets, accounting and retries.  *)
(***************************************************************************)
EXTENDS AgentCall

RunStats ==
  [status : {"COMPLETED", "FAILED"}, apiCalls : Nat, toolCalls : Nat,
   ending : Ending, sent : Nat, executed : Nat, audited : Nat]

\* Every variable has its type; attempts, steps and requests keep their limits,
\* so the check for too many steps at the end of the loop is never reached.
TypeOK ==
  /\ pc \in {"attempt", "request", "answer", "tools", "validate", "ended"}
  /\ attempt \in 1..MaxAttempts
  /\ step \in 0..(MaxSteps - 1)
  /\ httpTry \in 1..HttpAttempts
  /\ open \in 0..MaxToolCalls
  /\ {apiCalls, toolCalls, audit, runs, sent, executed} \subseteq Nat
  /\ stats \in Seq(RunStats)
  /\ outcome \in {"none", "accepted", "invalid", "error", "interrupt"}

\* Every run of the runtime that ended is in the statistics, however it ended,
\* and no other; and there are no more runs than the agent has attempts.
EveryAttemptRecorded ==
  /\ Len(stats) = IF pc \in {"request", "answer", "tools"} THEN runs - 1 ELSE runs
  /\ runs <= attempt

\* An attempt is repeated for an invalid answer only: a transport failure, a
\* misused tool or a Ctrl-C ends the call, and an accepted answer is the last.
OnlyInvalidAnswersRepeat ==
  /\ \A i \in 1..Len(stats) :
       stats[i].status = "FAILED" => i = Len(stats) /\ outcome \in {"error", "interrupt"}
  /\ outcome = "accepted" => stats[Len(stats)].status = "COMPLETED"

\* An attempt sends at most its HTTP attempts for each of its steps, whatever is
\* repeated for which reason.
RequestsWithinLimits ==
  \A i \in 1..Len(stats) : stats[i].sent <= MaxSteps * HttpAttempts

\* The requests of an attempt are counted exactly, retries and the last failure
\* included, however often the transport repeated which of them; unless the
\* attempt ends in an exception that does not tell; and there are never more of them
\* than its steps have tries.
RequestsCounted ==
  /\ \A i \in 1..Len(stats) :
       /\ stats[i].apiCalls <= stats[i].sent
       /\ stats[i].ending \notin {"broken", "interrupt"} =>
            stats[i].apiCalls = stats[i].sent
  /\ pc \in {"answer", "tools", "validate"} => apiCalls = sent
  /\ pc = "request" => sent = apiCalls + (httpTry - 1)
  /\ RequestsWithinLimits

\* Every tool that ran is in the audit, save one that raised or was interrupted
\* and so ended the attempt; and an attempt that completed ran and audited all
\* the tools its statistics count.
ToolsAudited ==
  /\ pc \notin {"attempt", "ended"} => audit = executed /\ toolCalls = audit + open
  /\ \A i \in 1..Len(stats) :
       /\ stats[i].executed - stats[i].audited \in
            (IF stats[i].ending \in {"tool", "interrupt"} THEN {0, 1} ELSE {0})
       /\ stats[i].executed <= stats[i].toolCalls
       /\ stats[i].status = "COMPLETED" => stats[i].audited = stats[i].toolCalls

\* The last step is kept for the answer: no tool runs in it, so what a tool
\* did is always followed by a request that can report it.
LastStepIsForTheAnswer ==
  [][executed' > executed => step < MaxSteps - 1]_vars

\* The order of the places, within an attempt.
Phase == [attempt |-> 0, request |-> 1, answer |-> 1, tools |-> 1, validate |-> 2, ended |-> 3]
Turn == [attempt |-> 0, request |-> 1, answer |-> 2, tools |-> 3, validate |-> 4, ended |-> 5]

\* Every step comes closer to the end, whatever the limits are: it begins a later
\* attempt or step, goes on in this one, repeats a request once more or leaves fewer
\* tool calls open; nothing follows the end.
StepsAdvance ==
  [][/\ pc # "ended"
     /\ \/ attempt' > attempt
        \/ attempt' = attempt /\ Phase[pc'] > Phase[pc]
        \/ UNCHANGED attempt /\ Phase[pc'] = Phase[pc] /\ step' > step
        \/ UNCHANGED << attempt, step >> /\ Phase[pc'] = Phase[pc] /\ Turn[pc'] > Turn[pc]
        \/ UNCHANGED << attempt, step, pc >> /\ (httpTry' > httpTry \/ open' < open)]_vars

\* The call returns an answer or an exception.
Termination == <>(pc = "ended")

-----------------------------------------------------------------------------
(* What the documentation says *)

\* runtime.py:150-151: api_calls is the number of real HTTP requests; and
\* runtime.py:235: the cost of a failure never disappears from the statistics.
ApiCallsAreReal ==
  \A i \in 1..Len(stats) : stats[i].apiCalls = stats[i].sent
=============================================================================
