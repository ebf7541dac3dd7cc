----------------------------- MODULE Candidate ------------------------------
(***************************************************************************)
(* What a run does with its candidate, whoever looks at it: there is one   *)
(* at a time; a round opens it as the round before left it, changes it and *)
(* drops it or admits it; only what was admitted and built in a round is   *)
(* offered to review in that round, and only what was offered is revised,  *)
(* analysed again or delivered, as it was offered.                         *)
(*                                                                         *)
(* Workflow and Worktrees look at the same loop from two sides, the one at *)
(* the decisions, the other at files; both implement this module.  A       *)
(* candidate is known by the rounds its edits are from.                    *)
(***************************************************************************)
EXTENDS Naturals, TLAPS

CONSTANTS
  Analyses,   \* limits.agent1_reanalysis_rounds
  Patches     \* limits.agent2_patch_rounds

VARIABLES
  stage,      \* "planning", "withdrawn", "opening", "open", "closed", "voided",
              \* "admitted", "built", "offered", "delivered" or "dropped"
  round,      \* the analysis and the patch round
  candidate,  \* the rounds that the candidate has edits of
  recorded    \* whether the run directory has a changes.patch

vars == << stage, round, candidate, recorded >>

Init ==
  /\ stage = "planning"
  /\ round = << 1, 1 >>
  /\ candidate = {}
  /\ recorded = FALSE

-----------------------------------------------------------------------------
Forget == candidate' = {} /\ recorded' = FALSE

Finish == stage' = "dropped" /\ candidate' = {} /\ UNCHANGED round

\* Another worktree in this analysis round, or the rounds are used up.
NextPatchRound ==
  /\ round[2] < Patches
  /\ round' = << round[1], round[2] + 1 >>
  /\ stage' = "opening"

\* An analysis, which may find that the candidate cannot stay.
Plan ==
  /\ \/ stage = "planning" /\ UNCHANGED << candidate, recorded >>
     \/ stage \in {"planning", "withdrawn"} /\ Forget
  /\ stage' = "opening"
  /\ UNCHANGED round

Open ==
  /\ stage = "opening"
  /\ stage' = "open"
  /\ UNCHANGED << round, candidate, recorded >>

\* Agent 2 adds edits of this round and may undo any.
Edit ==
  /\ stage = "open"
  /\ stage' \in {"open", "closed"}
  /\ candidate' \subseteq candidate \cup {round}
  /\ UNCHANGED << round, recorded >>

\* A candidate that cannot stay is given up; what the run directory has of it goes
\* next, and nothing else can follow.
Void ==
  /\ \/ stage = "planning" /\ stage' = "withdrawn"
     \/ stage = "closed" /\ stage' = "voided"
  /\ candidate' = {}
  /\ UNCHANGED << round, recorded >>

Remove ==
  /\ stage \in {"withdrawn", "voided"}
  /\ recorded' = FALSE
  /\ UNCHANGED << stage, round, candidate >>

\* Nothing of the candidate stays, nor is on disk.
Drop ==
  /\ stage \in {"closed", "voided"}
  /\ NextPatchRound
  /\ Forget

Admit ==
  /\ stage = "closed"
  /\ stage' = "admitted"
  /\ UNCHANGED << round, candidate, recorded >>

\* Formatting and building may leave files behind.
Build ==
  /\ stage = "admitted"
  /\ stage' \in {"admitted", "built"}
  /\ candidate' \subseteq candidate \cup {round}
  /\ UNCHANGED << round, recorded >>

\* What does not build is kept, save for what Git does not show.
Retry ==
  /\ stage = "admitted"
  /\ NextPatchRound
  /\ candidate' \subseteq candidate
  /\ UNCHANGED recorded

Offer ==
  /\ stage = "built"
  /\ stage' = "offered"
  /\ candidate' \subseteq candidate
  /\ recorded' = TRUE
  /\ UNCHANGED round

Revise ==
  /\ stage = "offered"
  /\ NextPatchRound
  /\ UNCHANGED << candidate, recorded >>

Reanalyse ==
  /\ stage = "offered"
  /\ round[1] < Analyses
  /\ round' = << round[1] + 1, 1 >>
  /\ stage' = "planning"
  /\ UNCHANGED << candidate, recorded >>

Deliver ==
  /\ stage = "offered"
  /\ stage' = "delivered"
  /\ UNCHANGED << round, candidate, recorded >>

\* A run ends without a candidate at any time; what it recorded stays, unless the
\* candidate was dropped.
Stop ==
  /\ stage \notin {"delivered", "dropped"}
  /\ Finish
  /\ \/ UNCHANGED recorded
     \/ stage \in {"planning", "withdrawn", "closed", "voided"} /\ recorded' = FALSE

Next ==
  \/ Plan \/ Open \/ Edit \/ Void \/ Remove \/ Drop \/ Admit \/ Build \/ Retry \/ Offer
  \/ Revise \/ Reanalyse \/ Deliver \/ Stop

Spec == Init /\ [][Next]_vars

-----------------------------------------------------------------------------
(* What follows for both *)

\* The stages of a candidate.
Stages ==
  {"planning", "withdrawn", "opening", "open", "closed", "voided", "admitted", "built", "offered",
   "delivered", "dropped"}

\* Round r comes after round s: of a later analysis, or a later patch round of the same.
Later(r, s) == r[1] > s[1] \/ (r[1] = s[1] /\ r[2] > s[2])

\* A stage is one of the above, and rounds are counted.
TypeOK == stage \in Stages /\ round \in Nat \X Nat

\* A candidate has no edit of a round to come and, until its worktree is there, only
\* edits of rounds that are over; what is offered or delivered is in the run directory.
CandidateIsPast ==
  /\ \A r \in candidate : Later(round, r) \/ (r = round /\ stage \notin {"planning", "withdrawn", "opening"})
  /\ stage \in {"offered", "delivered"} => recorded

\* A round is over and the candidate has nothing of it.
Gone(r) == Later(round, r) /\ r \notin candidate

\* TypeOK in every state, for all limits.
LEMMA TypeCorrect == Spec => []TypeOK
<1>1. Init => TypeOK
  BY DEF Init, TypeOK, Stages
<1>2. TypeOK /\ [Next]_vars => TypeOK'
  <2> SUFFICES ASSUME TypeOK, [Next]_vars PROVE TypeOK'
    OBVIOUS
  <2>1. round' \in {round, << round[1], round[2] + 1 >>, << round[1] + 1, 1 >>}
    BY DEF Next, vars, Plan, Open, Edit, Void, Remove, Drop, Admit, Build, Retry, Offer, Revise,
           Reanalyse, Deliver, Stop, Finish, NextPatchRound
  <2>2. stage' \in Stages
    BY DEF TypeOK, Stages, Next, vars, Plan, Open, Edit, Void, Remove, Drop, Admit, Build, Retry, Offer,
           Revise, Reanalyse, Deliver, Stop, Finish, NextPatchRound
  <2> QED
    BY <2>1, <2>2 DEF TypeOK
<1> QED
  BY <1>1, <1>2, PTL DEF Spec

\* Rounds only go forward, and a candidate gets edits of the round it is in.
LEMMA StepForward ==
  ASSUME TypeOK, [Next]_vars
  PROVE  /\ candidate' \subseteq candidate \cup {round}
         /\ \/ UNCHANGED round
            \/ /\ Later(round', round)
               /\ \A r \in Nat \X Nat : Later(round, r) => Later(round', r)
               /\ candidate' \subseteq candidate
<1>1. candidate' \subseteq candidate \cup {round}
  BY DEF Next, vars, Plan, Open, Edit, Void, Remove, Drop, Admit, Build, Retry, Offer, Revise,
         Reanalyse, Deliver, Stop, Finish, Forget, NextPatchRound
<1>2. \/ UNCHANGED round
      \/ /\ round' \in {<< round[1], round[2] + 1 >>, << round[1] + 1, 1 >>}
         /\ candidate' \subseteq candidate
  BY DEF Next, vars, Plan, Open, Edit, Void, Remove, Drop, Admit, Build, Retry, Offer, Revise,
         Reanalyse, Deliver, Stop, Finish, Forget, NextPatchRound
<1> QED
  BY <1>1, <1>2 DEF TypeOK, Later

\* Edits are of past rounds or of this one, and what is offered is on disk.
THEOREM PastCorrect == Spec => []CandidateIsPast
<1>1. Init => CandidateIsPast
  BY DEF Init, CandidateIsPast
<1>2. ASSUME TypeOK, CandidateIsPast, candidate \subseteq Nat \X Nat, [Next]_vars
      PROVE  CandidateIsPast'
  <2>1. \/ UNCHANGED round
        \/ Later(round', round) /\ candidate' \subseteq candidate
           /\ \A r \in Nat \X Nat : Later(round, r) => Later(round', r)
    BY <1>2, StepForward
  <2>2. stage' \in {"planning", "withdrawn", "opening"} /\ UNCHANGED round =>
          stage \in {"planning", "withdrawn", "opening"} /\ candidate' \subseteq candidate
    BY <1>2 DEF Next, vars, Plan, Open, Edit, Void, Remove, Drop, Admit, Build, Retry, Offer, Revise,
           Reanalyse, Deliver, Stop, Finish, Forget, NextPatchRound, TypeOK, Stages
  <2>3. stage' \in {"offered", "delivered"} => recorded'
    BY <1>2 DEF CandidateIsPast, Next, vars, Plan, Open, Edit, Void, Remove, Drop, Admit, Build, Retry, Offer,
           Revise, Reanalyse, Deliver, Stop, Finish, Forget, NextPatchRound
  <2>4. \A r \in candidate' :
          Later(round', r) \/ (r = round' /\ stage' \notin {"planning", "withdrawn", "opening"})
    BY <1>2, <2>1, <2>2, StepForward DEF CandidateIsPast
  <2> QED
    BY <2>3, <2>4 DEF CandidateIsPast
<1>3. Spec => [](candidate \subseteq Nat \X Nat)
  <2>1. Init => candidate \subseteq Nat \X Nat
    BY DEF Init
  <2>2. TypeOK /\ candidate \subseteq Nat \X Nat /\ [Next]_vars => (candidate \subseteq Nat \X Nat)'
    BY StepForward DEF TypeOK
  <2> QED
    BY <2>1, <2>2, TypeCorrect, PTL DEF Spec
<1> QED
  BY <1>1, <1>2, <1>3, TypeCorrect, PTL DEF Spec

\* What is gone stays gone: no later round, revision or reanalysis brings back an edit
\* of a round that was undone or dropped.
THEOREM GoneForGood == ASSUME NEW r \in Nat \X Nat
                       PROVE  Spec => [](Gone(r) => []Gone(r))
<1>1. TypeOK /\ Gone(r) /\ [Next]_vars => Gone(r)'
  <2> SUFFICES ASSUME TypeOK, Gone(r), [Next]_vars PROVE Gone(r)'
    OBVIOUS
  <2>1. r # round
    BY DEF TypeOK, Gone, Later
  <2> QED
    BY <2>1, StepForward DEF Gone
<1> QED
  BY <1>1, TypeCorrect, PTL DEF Spec
=============================================================================
