# A verification project for ConsensusSeam

ConsensusSeam asks three model agents to make a consensus implementation
testable: Agent 1 analyses which of seven testability capabilities the target
has, Agent 2 patches the missing ones in an isolated Git worktree, Agent 3
reviews the patch. A deterministic controller decides what is kept, discarded,
revised and accepted. The agents answer anything; what is worth verifying is the
controller, and that is what these modules model.

1. [The system](#1-the-system)
2. [The modules](#2-the-modules)
3. [What is checked](#3-what-is-checked)
4. [What is proved](#4-what-is-proved)
5. [Where code and documentation disagree](#5-where-code-and-documentation-disagree)
6. [What is not modelled](#6-what-is-not-modelled)
7. [What is left](#7-what-is-left)

Paths below are relative to `src/consensus_seam/` unless they start with
`README.md` or `docs/`. `PROJECT.json` maps every definition to its lines.

Run a model with `tlc -config PatchReanalysis.cfg MCWorkflow`, check a proof with
`tlapm WorkflowProofs.tla`.

## 1. The system

### Inventory

| component | state it keeps | operations | what makes it correct |
|---|---|---|---|
| patch loop (`workflow.py`) | analysis and patch round, report in force, selected capabilities, feedback, the candidate kept for the next round (patch and interface report), the current worktree | analyse, transform, merge, discard, format and build, review, verify, revise, conclude | a PASS is about one candidate; a discarded candidate leaves no trace; a revision starts from the candidate its feedback speaks of; the loop ends |
| capability model (`models.py`) | none (values) | validate a report, PATCHABLE set, rediscovery | a report in force is one its validator accepts |
| failure routing (`routing.py`) | none | failure code to agent or human | every code has the route the specification names |
| deterministic verifier (`verify/verifier.py`, `verify/capability.py`) | none | build, original tests, capability checks | a pass stands for every required check |
| baseline (`verify/baseline.py`) | none | build and tests of the unmodified target | no analysis of a broken target |
| verification fixtures (`verify/fixtures.py`) | the hidden files it placed | place, remove | hidden files are there when the checks begin and gone after them; no file of the candidate is touched |
| isolated worktrees (`workspace.py`) | one Git worktree per patch round, its index; outside of it the target's HEAD and working tree | look at the target, create, apply, diff, classify changed tests | a patch holds what was built; a revision starts with it; the record is of the sources used |
| run artifacts (`reporting.py`) | one run directory | find a free name and make it; write reports, USAGE, unresolved; discard; mark incomplete | documents on disk agree with one another, save between two writes |
| publication (`reporting.py`) | `runs/latest/<project>` and a backup, shared by all runs of a project | `publish_latest` | the newest completed run is not lost, as long as commands come one after the other |
| run lifecycle and command line (`workflow.py`, `cli.py`) | completion, exception in flight, exit code | `_with_artifacts`, `main` | the exit code and the marker tell the truth; a failed run keeps its costs |
| structured agents (`agents/`) | attempt | prompt, validate, ask again | only an invalid answer is asked again |
| tool loop (`llm/runtime.py`) | step, messages, statistics, tool audit | request, execute tools, finalise, record | budgets hold; every attempt and every tool is on record |
| transport (`llm/deepseek.py`) | HTTP attempt | POST, retry, give up | every request is counted |
| local tools (`tools.py`) | none (the worktree) | list, read, search, write, apply a patch, run a test | paths stay inside the roots; answers are bounded, and say what they omit |
| target language backend (`languages/`) | none | format, build, test, search | every Go file that a patch shows is formatted |
| project manifest (`config.py`, `models.py`) | none | load and validate | every path is a place of the repository, hidden files are none |
| model profiles, resources, fake runtimes | none | lookups, test doubles | - |

### How they interact

The command line calls `ConsensusWorkflow.analyze`, `patch` or `run`. Each wraps its
operation in `_with_artifacts`, which owns the run directory, records the
outcome or the failure, writes the costs and publishes a completed run. The
operation calls the agents in sequence; an agent call is a bounded loop of
attempts (`agents/base.py`), each a bounded loop of requests and tool calls
(`llm/runtime.py`), each request a bounded loop of HTTP attempts
(`llm/deepseek.py`). Agent 2 edits its worktree through tools while it is called.
After the review, `run` copies hidden files into the worktree, executes the
manifest's checks and removes the files.

There are no threads and no asynchronous code inside one command. Concurrency
comes from several commands on one project, which share `runs/latest` and the
directory their run directories are made in; from the user, who may edit and commit
in the target while a command runs on it; and from what may happen at any point of a
command: an exception of any agent, command or file operation, Ctrl-C, a kill.

### What is hard

* A candidate exists in many places at once: worktree, patch to replay,
  interface report to merge with, `changes.patch`, `interface-report.json`, the
  review, the verification, `USAGE.md`. Five different branches discard, keep or
  replace it, each touching some of these places.
* Revisions are partial: only the capabilities a review names are redone and
  merged with the rest; a reanalysis can withdraw or add capabilities meanwhile.
* Clean-up code runs while an exception is in flight, can itself fail, and can be
  interrupted.
* Publication replaces a directory by two renames and two recursive removals, each of which
  can fail half way.
* The files of a run are written one by one: `interface-report.json` before `USAGE.md`, a discard
  before `USAGE.md` is written again.
* Three nested retry loops share one set of counters.
* The target is looked at many times: by the gate of a formal experiment, for
  `run-config.json`, by Agent 1, and in every round for its HEAD. Nothing locks it.
* What Git shows of a worktree is not what is in it: new files only once the index
  has an intent to add of them, ignored ones never, names beyond ASCII in quotes.

The 40 hazards in `PROJECT.json` are these, line by line, each with the properties
that would notice, or with the reason why none does.

## 2. The modules

```
Candidate               abstract: what becomes of a candidate, and what follows
Capabilities            pure functions of the controller on capability sets
  Workflow              the patch loop; implements Candidate
    WorkflowProperties    MCWorkflow          WorkflowProofs
                                                WorkflowRefinement
  Verdict               abstract: the verdict of a verification
  Verification          detailed: commands, hidden files, checks; implements Verdict
    VerificationProperties  MCVerification    VerificationProofs
RunLifecycle            a command from directory to exit code, and publication
    RunLifecycleProperties  MCRunLifecycle      RunLifecycleProofs
Manifest                pure: which manifests are accepted, what their paths mean
  Tools                 pure: what the paths that an agent names mean
    Worktrees           the target, its user, worktrees, patches; implements Candidate
      WorktreesProperties   MCWorktrees         WorktreesProofs
Answers                 pure: how much of a tool's answer reaches the agent
                            MCWorktrees         AnswersProofs
AgentCall               attempts, steps, requests, tools and their accounts
    AgentCallProperties     MCAgentCall       AgentCallProofs
```

A definition `X_Variant` directly above a definition `X` is `X` with a plausible
mistake. No action uses it; it is there to be put in the place of `X` to see that
the property named for it in `PROJECT.json` notices.

### Candidate

The loop as its candidate sees it, over `stage`, `round`, `candidate` (the rounds whose edits it has)
and `recorded` (whether there is a `changes.patch`):

`planning -> opening -> open -> closed -> admitted -> built -> offered -> delivered`

or `dropped`, at once or over `voided` (in a round) and `withdrawn` (by a reanalysis), where
the candidate is given up and its files are being removed. A candidate that was dropped leaves nothing, on disk either; one that does not
build is kept for the next round; one that was offered is revised, analysed again or
delivered as it was offered. `Workflow` sees the loop from its decisions, with edits in place of
files, `Worktrees` from its files, with any decision. Each implements `Candidate` under a
refinement mapping (`Abstract` in its properties), which is what makes them two views of one
loop; its theorems hold for both.

### Capabilities

The seven capability names, the statuses, the cross-field rules of
`CapabilityReport`, `patchable`, `apply_rediscovered`, the order of `_ordered_transform_units`,
the narrowing of a revision, `write_unresolved`, the failure codes, their route, and
the verdicts a manifest allows. A capability report is a function from name to
status. A manifest can only configure `AllowedChecks`.

### Workflow

One action per branch of `_execute_patch_loop`. `pc` is the place in the loop:

`baseline -> analyze -> worktree -> transform -> inspect -> describe -> classify -> build -> record -> review -> verify -> done`

with `discard -> discarded` after `classify`, and `withdraw -> withdrawn` after an analysis. A discard sets the kept
candidate to `None` (`Discard`), removes its files one by one (`RemoveFile`), writes `USAGE.md` without
interfaces (`DescribeNothing`), and goes on as its branch does (`RetryWithoutInvasive`,
`RetryWithoutTests`, `PlanAfresh`).

* `report`, `selected`, `feedback`, `reanalysisReview`, `prior`, `iface`: the local variables of the
  same purpose. `prior` holds the patch to replay and the report to merge with;
  `prior.held` is the code's `is not None`.
* `worktree` is the set of edits of the candidate. An edit is a pair of the round
  that made it and of what it is: to sources, to a test that exists at HEAD, or to one
  whose name Git quotes, which `modified_existing_go_tests` does not recognise and gofmt does not find.
  That is all any branch asks of a diff: whether it is empty, which round's it is,
  whether it touches an existing test.
* `iface` maps each capability to the call of Agent 2 that reported it: the round, and the unit
  of capabilities it was for.
* `artifacts`, `usage`, `unresolved`: the files of the run directory, by the round they
  are about.
* `live` is a history variable: the rounds since the last complete discard.

Agent answers, builds, formats and tests are chosen with `\E` from what their
validators allow. The Analyzer's answer is any of the constant `Reports`, a review may
name any of `Issues`.

`Abort` is an exception or Ctrl-C before any step. So two writes are two actions where a run
that is cut short between them leaves something else on disk: the interface report and `USAGE.md`,
each file of a discard and `USAGE.md`, the candidate's documents, the review, the verification.
They are one action where it does not: `changes.patch`, `patch-metrics.json` and the interface
report that is written a second time unchanged; the two reports of a review and `USAGE.md`, which
describes the same interfaces before and after.

### Verification and Verdict

`Verification` models `_verify_with_fixtures`: `verify_base`, `materialized_fixtures` with its
`finally`, `verify_capabilities`. `disk` says what is at every destination of a hidden
file: nothing, a file of the candidate (or one its tests left), the hidden file,
a `stray`: what a copy wrote that never got into `created`, or something `other` that a check put
there. A check runs the candidate's code in the worktree (`CheckRuns`): whether it passes, fails or
raises, any hidden file may be gone or replaced after it. The clean-up unlinks what is
there, whoever made it. Each copy, removal and check is a step that may succeed, be refused, fail
or be interrupted.

`Verdict` is what `Workflow` assumes when it calls the verifier: one verdict, decided
once, among those `VerifierFailures` and `MissingChecks` allow. The same two operators are the
guards of `Workflow`'s `VerificationPasses` and `VerificationFails`, so the refinement
`Verification => Verdict` is what justifies that abstraction.

### RunLifecycle

One action per step of `ArtifactStore.create`, `_with_artifacts` and `publish_latest`, for a set of
runs that share `latest`, `backup` and the names of run directories. A look (`exists`) and the change it leads to are separate
steps. A directory is a record of the run it came from, the files in it and
whether it is whole: `rmtree` first makes it `Torn`, with any of its files left, then absent, and
may fail before either. `os.replace` moves to a place where nothing is, or an empty directory. The
roll-back of a failed installation is two looks and a move (`RollBack`, `LookAgain`, `MoveBack`), and
a failed publication (`Fail`) may leave its staging directory, as the removal ignores its errors. `Interrupt` (once per
run) and `Kill` may come before any step. `unwritten`, `installed`, `published` and `overlapped` are history
variables. `MaxActive` says how many commands run at once.

### AgentCall

`_complete`, `run` and `create_chat_completion` in one module, as they share the counters the
statistics are made of. `stats` is the list the runtime appends to; each record
also carries, as history, how many requests were really sent and how many tools
really executed. Messages are abstracted to whether they are usable, final, or
contain tool calls, and how many.

### Manifest and Tools

A path is the sequence of its parts, as in pathlib; `Resolve` follows the links of the
constant `Links` and `..`, part by part, as `Path.resolve` does. `Accepted` is `load_project` with the
validators of the manifest and of its fixtures, `LoadedProject` its result. `PathOf` is
`LocalToolFactory._resolve`. For a header of a patch, `CheckedPath` is the path `_validate_patch_paths` looks at,
without `a/` or `b/`, and `GitPathOf` the one `git apply` writes, without the first part whatever it is,
and through no link; `PatchPathOf` is both.

### Worktrees

What `Workflow` has as one set of edits is here a tree of files. `pc` is the place in the
command:

`load -> gate -> record -> baseline -> analyze -> create -> replay -> edit -> classify -> format -> build -> candidate -> review -> delivered`

* `head` and `work` are the target: the version of every file at HEAD and in the working
  tree. `UserEdits` and `UserCommits` may change them before any step. `config` is what
  `run-config.json` says of it, `analysed` what Agent 1 read.
* `base`, `edits` and `added` are the worktree of the round: the tree it was created from,
  the edit of every file since (the round that made it, and whether it is formatted), and
  the new files that the index has an intent to add of. `Diff` is what Git shows of that.
* `kept` is `prior_candidate_patch`, `changes` is `changes.patch`: a base and edits. `Replay` is
  `git apply`, which refuses a file that is there already or is not there, and may refuse a
  file of another version.
* `WriteFile` and `PatchFiles` write what `Tools` lets the paths of the tools lead to. The headers of a
  patch are those of a diff of Git (`DiffHeaders`), or a path without `a/` or `b/`, or none that is looked
  at, as a copy, an empty new file or a mode has none; `irregular` remembers that a patch wrote a file
  it could not have written by the first kind. `RunTests` and
  `Build` leave the files of `Leftovers` behind, the `Baseline` does so in the target.
* `built`, `last` and `disturbed` are history: what was built last, what the last round ended
  with, and in which phases the user changed the target.

Which way a round ends is `Workflow`'s matter; here it may end in any of them.

### Answers

The limits of `list_files`, `read_file` (with the 500 lines that are read if no end is asked for,
and at most), `search_text` (with ripgrep and without), and `_bounded_json`, as
functions of the lengths of lines and of how many bytes each byte of an answer takes
when it is quoted in another.

## 3. What is checked

| run | question | states |
|---|---|---|
| `patch_reanalysis` | `patch` with two analysis and two patch rounds: what is kept, dropped and revised; what is left where a run is cut short; refines `Candidate` | 7.8 M |
| `run_verified` | `run` with a baseline, the verifier, a capability out of scope and one without its required check: what a PASS stands for; every step advances and, under fairness, both loops end | 3.3 M |
| `verification` | three hidden files, four checks, any set of implemented capabilities, any candidate, checks that change the hidden files; refines `Verdict` | 14 k |
| `commands` | two commands in any order or at once, a third after them, that fail, are interrupted or killed anywhere, with moves and removals that fail | 5.3 M |
| `worktrees` | two analysis and two patch rounds on a target that its user changes | 2.2 M |
| `agent_with_tools` | one agent call: budgets, retries, accounts; under fairness, it ends | 35 k |

and six runs that end in a violation, section 5.

### Patch loop

* `PassIsVetted`: a PASS delivers one candidate. Patch, review and verification on disk
  are of the last round, the review says PASS, the interface report on disk is the
  one reviewed, and, for `run`, every implemented capability has its check.
* `PassAccountsForAll`: without a reanalysis, a PASS implements or lists as unresolved
  every capability that is not at hand, whatever was rediscovered, discarded or
  revised on the way. (With a reanalysis it does not hold: section 5.)
* `DiscardedStaysOut`: nothing produced before the last discard is in the worktree, the
  candidate kept, the run directory or USAGE.md. The history variable `live` makes it a
  statement about all earlier rounds. A discard is complete when `USAGE.md` is written again; a
  run that is cut short before leaves some of the files.
* `ExistingTestsUntouched`: no candidate that is kept or goes on to build changes a test
  at HEAD that the controller recognises, and none that is recorded, reviewed or verified
  changes any. A test whose name Git quotes is not recognised: a patch that changes it is kept
  and applied again, until its rounds are over or the change is undone.
* `UsageMatchesInterface`: USAGE.md describes the interface report on disk. It is the older of the
  two only between two writes, and in a run that was cut short there; then it describes the
  report that was just replaced, the kept candidate's, or that of the candidate just discarded.
* `CandidateWithinReport`: Agent 2 is only asked for, and a kept candidate only has, what
  the report in force calls PATCHABLE and the scope allows.
* `MessageControlIsJoint`: capture and injection that are both in an interface report come
  from one call of Agent 2, through all partial revisions. Where both are available, neither is
  revised without the other, and before a reanalysis no kept candidate has just one. (A
  reanalysis may make the second available, and the revision that follows need not name it.)
* `FeedbackMatchesWorktree`, `RevisionStartsFromLast`: the feedback speaks of an applied
  candidate exactly when one was applied, and that is the last one.
* `CandidateRefined`: the loop handles its candidate as `Candidate` says.
* `StepsAdvance`: every step begins a later round, goes on in this one, leaves fewer calls of
  Agent 2 or fewer files to remove; discards, failures and revisions too. It says why the loop ends, and needs no fairness.
* `Termination`: under fairness, it does end.

`PassIsVetted` and `PassAccountsForAll` are checked for `run`, where they say more, and proved for both
commands.

### Verification

* `OracleLeavesWithVerifier`: no hidden file stays in the worktree after the verification, nor
  what a check put in its place, whichever command, check or copy failed; only a removal that
  breaks off, or the one copy that did, leaves something.
* `CandidateKept`: a file that the candidate has in the place of a hidden one is neither replaced nor
  removed in the clean-up after the copy that was refused for it; no check runs.
* `ChecksSeeOracle`: the first check sees all hidden files. Nothing in the code keeps a check from
  changing them for the next; what is established for all is that none sees a file the candidate
  brought along in their place, or a part of a copy.
* `VerdictIsEarned`: a pass executed every required check and came with no exception.
* `VerdictRefined`: the refinement.

### Commands and publication

* `DirectoriesAreDistinct`: no two commands work in one run directory, although both may have
  found its name free.
* `SnapshotSurvives`: as long as commands come one after the other, the newest snapshot that was installed
  is on disk in one piece, as `latest` or as the backup of an absent `latest`, after
  any sequence of failures, interrupts and kills, also in the middle of recovery.
* `LatestIsCompletedRun`: `latest` is of a completed run, without a failure marker and worktrees,
  also with concurrent publishers; and it has result, statistics and audit, unless one command began
  to remove it as a backup and another moved it back, which takes two at the same time.
* `FailureKeepsCosts`: a run that failed has its statistics, audit and marker, as long as writing
  these did not fail itself.
* `ExitIsHonest`: exit codes 0 and 1 mean completed and published, with no staging directory
  left. Exit code 2 promises neither: the removal of a failed publication's staging directory
  ignores its errors.

### The target and its worktrees

* `DeliveredIsBuilt`: from its review to its delivery, `changes.patch` holds, against the base of
  its worktree, every edit that was formatted and built there and that Git shows, and no
  other, and its Go files are formatted, new ones too. A new file that is ignored is not
  shown and so missing from the patch, although it was built.
* `BaseTestsUntouched`: `changes.patch` changes no Go test of the tree it is against, which is
  another one in every round if the user commits. A test whose name Git quotes is not
  recognised by `modified_existing_go_tests`; a patch that changes it is kept and applied again,
  and it is only because gofmt cannot find the quoted name, and so fails in every round in
  which the file is changed, that it is never delivered.
* `RevisionContinues`: a revision starts with every edit of the round before that Git shows;
  a kept candidate is only refused if it is empty or if the user moved HEAD; no round
  finds its directory taken.
* `RecordIsOfTheRun`: if the target was clean when `run-config.json` was written and is left
  alone from then on, the analysis and the base of every patch are of the revision
  recorded, although the target is looked at anew each time. A formal experiment
  records a clean target unless it was changed between its gate and the record.
* `RootsAreKept`: no path leads a tool to a file the manifest hides, in the repository or in a
  worktree. As long as every patch names its files as a diff of Git does, a candidate has no edit
  outside the scope roots save what builds and tests leave. A patch that names them otherwise can:
  `--- core/wire/x.go` is looked at as `core/wire/x.go` and written at `wire/x.go`.
* `AnswersAreBounded`, `OmissionsAreTold`: no answer exceeds its limit, however much of it is
  escaped, or is emptied by it; and an agent is told of what a list or a search leaves out, and of
  a read that was cut for its length. A read of 500 lines of a longer file is not marked: all that
  tells is the `end` it answers, and that no line up to it is missing. They are about no state,
  and looked at where a command begins.

### Agent calls

* `EveryAttemptRecorded`, `OnlyInvalidAnswersRepeat`, `RequestsCounted`, `ToolsAudited`: however an
  attempt ends, it is in the statistics once, with its requests and tools; and only
  an invalid answer is asked for again.
  `RequestsCounted` also limits the requests of an attempt by its steps and their tries.
* `LastStepIsForTheAnswer`: no tool runs in the step reserved for the answer.
* `Termination`.

Each module also has its type invariant, which includes the limits of its counters.

Two properties are proved and in no run: `CandidateRefined` of `Worktrees` and `StepsAdvance` of `AgentCall`.
TLC agrees with both on the instances of `Worktrees.cfg` and `AgentWithTools.cfg`.

### Bounds, and why they are enough

* A call of Agent 2 makes edits of one kind, or none (`Changes`); a candidate has more than one
  kind by the calls of several units or rounds. Proved for any edits.
* Two analysis and two patch rounds: the first round of each kind starts with
  nothing kept, the second with what the first kept or discarded, and the last one
  ends the run. More rounds repeat the second. The proofs of section 4 are for any
  number.
* Three capabilities that the Analyzer decides on: capture and injection, which
  are coupled, and one that is independent; the rest are not applicable. SUPPORTED,
  PATCHABLE and PARTIAL are the three ways a status matters to the loop (done, to
  do, to list). Proved for any reports.
* Three runs in `commands`: a first that leaves a snapshot, a second that leaves it
  half replaced, a third that recovers. Two of them at once: the interference is between
  a look and a change of one run and the changes of one other. `FewVariants` limits the
  third to follow two that did not overlap and are the plain variants of what came before, and what
  a removal leaves to nothing or some files (`PartsLeft`).
  Proved for any number of runs, at any number at once.
* Seven files in `worktrees`: production code and a test, each at HEAD and new, an ignored
  file, what a build leaves, a file outside the scope; the test at HEAD is the one with a
  quoted name, the other one is recognised and may be committed by the user. Links lead
  from the scope to the rest, out of the target to a hidden file, and into it. `MaxSteps` is
  two writes, two changes of the user or one of each. `FewWorktrees` stops after two
  worktrees: a first round, and a second that depends on it. `StrayPatches`: a patch that is not
  named as Git does only writes outside the scope.
* `UserActsBeforeLooks`: the user acts just before the command looks at the target. No other step of
  the command reads or writes what the user changes, so it commutes with the user's
  step. The user changes a production file, a new test or an ignored file. Proved for any
  files and any user.
* Answers of at most four lines of three lengths, one of which alone exceeds the limit,
  and limits of eight bytes: below, at and above each limit.
* Three hidden files: the first, one in the middle and the last; four checks: two of
  one capability, one that is not the required one of its capability, and
  capabilities with none. Proved for any.
* Two attempts of three steps with three requests, and two tool calls in an answer:
  a first, an intermediate and a final step; a first, a repeated and a last request; a
  tool call that is followed by another. `MaxToolCalls` is the only bound that is not a
  limit of the code. All three agents have tools (`HasTools`); without them, tool calls
  are refused as they are in the final step.
* Runs of a project are interchangeable, so the runs of the lifecycle use symmetry. No
  liveness property is checked with it.

### Fairness

`WF_vars(Step)` in `Workflow` and `AgentCall`: the controller is one thread that goes on when it
can. Requests have a timeout, as has every command of the target
(`languages/base.py:46`, `llm/deepseek.py`), so each of these steps does end; with which answer
is left open. Git and gofmt are called without a timeout and are taken to end. No fairness is assumed of agents, of Ctrl-C or of failures.

## 4. What is proved

TLAPS checks these for every value of the constants: any round limits, any scope, any
set of reports the Analyzer's validator accepts, any reviews, any manifest.

**`WorkflowProofs`**: the safety properties of the patch loop and its type invariant. The assumptions are those of `Workflow`: limits between 1 and 10, reports
valid. The argument has one inductive invariant per concern, so that each step of
the loop is looked at for one reason at a time:

* `UsageInv`: which report USAGE.md and which `interface-report.json` is of, at each step (`Written`): the
  kept one until Agent 2's is written, that one afterwards, none after a discard.
* `AskedInv`: what is asked for, being revised or described is within the report in
  force, at each step of a round. `ReviewRevision` and `NextUnit` never leave the available set,
  a reanalysis keeps a candidate only if `Compatible`, external input is never PATCHABLE.
  While units are called, neither message capability is reported on while the other is left to do
  (`Called`); so a call reports on both or none (`CallIsJoint`), and merging keeps that
  (`MergeIsJoint`). It carries `CandidateWithinReport` and most of `MessageControlIsJoint`.
* `VettedInv`: on the way to `done`, which of patch, review and verification are of this
  round. It is indexed by `pc`, as it is the order of the steps that makes it true.
* `RevisionInv`: the kept candidate is the last worktree, or nothing is left of any
  earlier round; both revision properties follow.
* `AccountInv`: in the first analysis round the kept candidate has nothing or all that is
  available, and what is being revised and what it has are together all of it. That it never has
  just one message capability, the rest of `MessageControlIsJoint`, follows.
* `ExistingTestsUntouched` is inductive as it is, `DiscardedStaysOut` is with `UsageInv` and `RevisionInv`.

**`Candidate`**: what follows from the abstract specification alone, for all limits. Rounds only
go forward and a candidate only gets edits of the round it is in (`StepForward`); so it never has
an edit of a round to come (`PastCorrect`), and what is gone of a round that is over is gone for
good (`GoneForGood`): no revision and no reanalysis brings it back.

**`WorkflowRefinement`**: `Workflow` implements `Candidate` (`Refinement`). Each action is a step of `Candidate` or a
stutter: `PlanRefines`, `DiscardRefines`, `RoundRefines`, `BuildRefines` and `ReviewRefines` go through them in the order of the
loop. Beside `TypeOK` they need of `UsageInv` that nothing is kept before the first analysis, and
`RevisionInv` where a verification fails: what the next round starts from was kept by the review
before it, and has to be the worktree that was verified. `DiscardedForGood` is `GoneForGood` of the loop.
`Advance` is `StepsAdvance`, for any limits: the loop cannot run in circles, whatever the agents, the
builds and the tests answer.

**`VerificationProofs`**: all properties of the verifier and its refinement of
`Verdict`, for any list of checks and of hidden files with distinct destinations
(`config.py:119` refuses others). The invariant says that the places that were filled are
exactly the first `placed` ones, that until a check has run they hold the hidden files and after
it at least nothing of the candidate's, and what has been reported or caught in each phase.
Together with `PassCorrect`, which uses the same `MissingChecks`, it covers the claim that a PASS of
`run` executed every check it needs.

**`AgentCallProofs`**: all safety properties of an agent call, for any limits of attempts,
steps and requests and any number of tool calls in an answer, with or without
tools. `RequestsCounted` is inductive as it relates the counter of the current attempt to the
requests really sent in each phase; the others are with: how many runs have begun
by an attempt (`RecordInv`), that no tool call is open while the model is asked (`ToolInv`),
that a call that goes on has no outcome and so no failed attempt (`OutcomeInv`). All
ways in which an attempt ends go through `EndRun`, and one lemma (`EndRunAppends`) says what it does
to the statistics. The limit on the requests of an attempt needs that each step adds no more
than its tries (`Budget`). `Advance` is `StepsAdvance`: every step is the next try, tool, step or attempt,
or the end.

**`RunLifecycleProofs`**: all properties of commands and publication, for any number of
runs and any number at once. `DirectoriesAreDistinct` is because `mkdir` without `exist_ok` is one
step, whatever `exists` said before. `LatestIsCompletedRun` is because only completed runs publish, and
what has all its files until its removal begins (`SnapshotInv`). `SnapshotSurvives` needs an invariant that says for each
place in `publish_latest`, including the places a kill leaves behind, where the newest whole
snapshot is; it assumes `~ overlapped`, and section 5 shows that it must.

**`WorktreesProofs`**: all properties of the target and its worktrees, for any files, any
manifests, directories and links, any paths and any number of rounds. The user may act
before every step. The assumptions say that builds leave no Go files behind, that limits
are at least 1, and that no file of the manifest is in a worktree that does not exist yet.

* `DiffShows` is the lemma the rest stands on: with an index that only has intents to add of
  new files that are not ignored (`AddedIsNew`), a patch shows exactly the edits Git shows.
* `BuiltInv` follows the worktree from formatting to the record: what Git shows is tidy, what
  was built is what is there.
* `TestsInv` keeps two sets of tests apart: recognised ones are untouched from `Classify` on,
  quoted ones from `Format` on.
* `HeadInv`: while the user leaves the target alone, record, patches and worktree are of its one
  HEAD. `RevisionInv`: the worktrees that exist are of earlier rounds, in the order of rounds.
* `RecordInv`: a clean target stays as recorded, save for what Git ignores; a formal experiment
  passes its gate only with one.
* `RootsInv`: while every patch named its files as Git does, every edit, in the worktree and in the
  patches, is in scope. `SourcesAreHidden`, `DiffHeaderPath` (of such a header, Git writes the path that is
  looked at) and `WritableInScope` are about the operators of `Tools` alone.
* `Refinement`: `Worktrees` implements `Candidate` too, and so has `DiscardedForGood` and `CandidatePast`, for
  files and whatever the user does. It needs no more than `TypeOK`: what a patch shows is of no
  round its worktree is not of (`RoundsOfPatches`), and a replay only brings what was kept.

**`AnswersProofs`**: no answer exceeds its limit or is emptied by it, for a text of any length
(`AnswersKeepLimit`); `search_text` tells of every omission, and `read_file` has every line up to the end it
answers unless it says that it does not, for any lines (`SearchesAreTold`, `ReadsAreTold`); `AnswersAreBounded` and `OmissionsAreTold` of the runs follow. These are about
sums over sequences. Induction is by the least number for which the claim fails, as the
library's induction rules cannot be instantiated by the provers. The assumption on the
constants is that a preview of one step fits in an answer although all of it is escaped;
in the code a step is 512 of 64000 bytes (`tools.py`).

Only model-checked: `Termination` of the patch loop and of the agent call. The prover does not do
liveness under fairness; `StepsAdvance` of each is the safety half of the argument.

## 5. Where code and documentation disagree

Each is a run that ends in a violation of what the quoted line says.

| run | code | what happens |
|---|---|---|
| `rediscovery_invalidates` | `models.py:553` | `apply_rediscovered` leaves a report that its own validator rejects; the nested assignment does not run it |
| `unresolved_incomplete` | `reporting.py:165` | after a reanalysis, a capability can be PATCHABLE, not implemented and not listed in `unresolved.json` of a PASS |
| `empty_candidate` | `workspace.py:82` | a reviewed candidate without changes is kept and cannot be re-applied: the automatic revision ends the run with an exception |
| `stale_changes` | `workflow.py:388` | a run that exhausts its rounds on builds leaves a `changes.patch` older than its interface report |
| `snapshot_lost` | `reporting.py:604` | of two commands that publish at the same time, one removes as its own backup the snapshot that the other has just moved away; if that one stops before it installs, neither a snapshot nor a whole backup is left |
| `requests_lost` | `llm/runtime.py:231` | the requests of a connection that breaks, or of a Ctrl-C, are missing from `api_calls` |

## 6. What is not modelled

* Wording: prompts, feedback text, Markdown, logs, token counts, times.
* The field-level validators of evidence, buffers and paths: an answer that is accepted
  satisfies its validator, that is all the controller relies on.
* The Go syntax search (`languages/go_ast`) and the counts of patch metrics: parsers without
  state. `find_symbol` and `find_references` stop at 500 results without saying so (`tools.py:535`), which is
  listed as a hazard.
* Hunks: a patch changes whole files, and whether a hunk applies to another version of a
  file is left open. Deletions: tools refuse them.
* A worktree whose ignored files were built but are not in its patch: `DeliveredIsBuilt` states it,
  nothing says what the code should do instead.
* The controller's own repository, which the gate looks at as well: it may refuse.
* Half-written files, `rmtree`, the staging directory and the fixture copies excepted. In `Workflow` an
  exception can end the run before every write (`Abort`); in `RunLifecycle` the writes of result, marker,
  statistics, audit and staging, and every rename and removal, can fail.
* Processes of a command of the target that outlive it: what runs in a worktree is taken to
  end when the command does.
* Empty directories that the removal of hidden files may leave.

## 7. What is left

1. The counts of `patch_metrics`, which a reviewer agent relies on, as a function of a patch.
2. The cross-field validators of the agents' answers (`models.py`), beyond those of the
   capability report.
