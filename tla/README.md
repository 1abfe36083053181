# Verification of Hermes Eats World

TLA+ models of the Hermes Eats World plugin and its sidecar (`src/sidecar`), the
TLC instances that check them, and TLAPS proofs of their safety properties for
every value of the constants. The code reads the UI Automation (UIA) tree of one
Windows window on behalf of an agent, inside processes that can be killed, and
holds a policy-gated executor for one kind of action.

Run from this directory:

    tlc -workers 2 -config MCScanTool.cfg MCScanTool      # each run of the table below
    tlapm ScanTool_proofs.tla                             # each *_proofs.tla

## The system

| Component | State it keeps | Operations | Interacts with |
|---|---|---|---|
| Scan tool handler (`hermes_plugin.py`) | `_SCAN_SLOT`, a semaphore of one permit per Hermes process | `handle_uia_perceive_window` | calls `run_runtime_worker`; looks at the runtime that setup builds |
| Worker transport (`plugin_runtime.py`, `run_runtime_worker`) | the worker process, its pipes | spawn, communicate with a deadline, kill, reap | one JSON request in, one JSON object out of `plugin_worker.py` |
| Runtime setup (`plugin_runtime.py`, `setup_runtime`) | the profile's runtime directory, a staging and a backup directory | build, smoke test, swap by two renames, roll back | changes what the handler and the transport find |
| Plugin worker (`plugin_worker.py`) | none, one request per process | `perceive_request`: find, perceive, encode, byte budget | `find_window`, `perceive_hwnd` |
| Window finding (`target/`) | none | `find_window`, `list_windows`, `drill_frame` | the desktop, through UIA |
| Perception (`service/worker.py`, `perception/`) | the counter and deadline of a walk | identity checks, tree walk, summary, tier | the desktop, through UIA |
| Isolation (`service/isolation.py`) | a child process and a queue | `run_isolated` | runs `perceive_hwnd` for the developer CLI |
| Developer CLI (`service/cli.py`) | none | perceive, list, check, screenshot | isolation, finder, screenshot |
| Action executor (`action/`) | none, immutable requests and receipts | `execute_action`: policy, resolution, invoke, verification | an adapter and a snapshot supplier of the embedding caller |
| Schema, environment check, screenshot, scripts | none | data definitions, straight-line calls | |

What is hard in it: several handler threads and several Hermes processes; a
worker that hangs, dies, answers late or writes junk; an operator who rebuilds
the runtime while it is used, and whose setup may be interrupted or killed
between any two steps; a desktop that changes between any two reads, with handles
that are reused; an adapter that raises after it acted. `PROJECT.json` lists these
hazards line by line, with the property that covers each one.

What makes each part correct:

- handler and transport: the permit is exact and comes back, no worker outlives its
  call beside another scan, an answer is about the call's own worker;
- setup: a runtime that looks available works, a working runtime is never lost,
  failure rolls back, setup ends;
- perception: an answer is about the window that was asked for, as far as two
  identity checks can tell; limits end the walk; a partial tree says so;
- output: what is returned fits the budget that was asked for, and the request that
  is suggested instead is valid, smaller, and leads to an end;
- isolation and the CLI above it: the status is what the child did, the call
  returns once there is a window, survivors are visible, exit codes tell what happened;
- actions: nothing is touched past a gate, and the receipt tells what was done.

## Modules

| Module | Models | Notes |
|---|---|---|
| `ScanService` | what the tool promises: refused, or one scan at a time per process, each call answered | abstract, implemented by `ScanTool` |
| `ScanTool` | handler and transport, all calls of all processes | `ScanTool_proofs` |
| `RuntimeSetup` | `setup_runtime`, any number of invocations on one profile | `RuntimeSetup_proofs` |
| `Perceive` | `perceive_request`, or the CLI's `run_perceive`, with `find_window` (by handle), `perceive_hwnd`, `drill_frame`, over a changing desktop | `Perceive_proofs` |
| `TreeWalk` | `element_to_dict`, one walk of one window, and `summarize_tree` | EXTENDS `Classifier`; `TreeWalk_proofs` |
| `Classifier` | `classify_tier` and its confidences, pure operators | used by `TreeWalk` and `ScanBudget` |
| `ScanBudget` | the limits of a request, the two size checks, the suggested parameters, and an agent that follows them | `ScanBudget_proofs` |
| `FindWindow` | `find_window` by title, process and class, and `list_windows`, over windows that open and close | `FindWindow_proofs` |
| `Isolation` | `run_isolated`, the child, the queue's feeder thread and pipe | proved in `CliPerceive_proofs` |
| `CliPerceive` | the developer CLI, `main` to its exit code, composed with `Isolation` | `CliPerceive_proofs` |
| `ActionExecutor` | `execute_action` with policy and resolver | `ActionExecutor_proofs` |
| `MC*` | constants of the TLC instances | |

### ScanTool

`pc[c]` is where the handler of call `c` is: `admit` (arguments, runtime),
`acquire` (the semaphore), `probe` and `spawn` (`run_runtime_worker` up to
`Popen`), `wait` (the first `communicate`), `kill` and `reap` (the
`TimeoutExpired` branch), `release` (the `finally` after a result), `unwind` (the
`finally` under an exception), `reply` (after the `try`). `slot` is the semaphore's
value per process, `worker` the one-shot process of each call, `answer` the error
code or "snapshot", `installed` whether `runtime_python()` is a file.

The runtime is looked at three times (handler, `run_runtime_worker`, `Popen`), so
`RuntimeChanges` may step in between: while setup swaps directories there is no
executable at the target. `Interrupt` is a `KeyboardInterrupt` delivered where the
handler blocks; Python delivers it to main threads only, hence `Interruptible`.
The worker may exit in four ways (`Exits`) at any time, between the expiry of the
deadline and the kill included. Request contents and JSON are abstracted away; the
two checks of the size of a result are kept as the choice in `Reply`.

### RuntimeSetup

`pc[s]` follows `setup_runtime`; `target`, `staging[s]` and `backup[s]` are the
directories, each abstracted to what the program can find out about it: absent,
bare, unready, ready. The four commands of a build are `RunCommand`; `Fail` is any
exception of any of them or of a rename, with whatever a half-finished `venv`
leaves; `CleanStaging` and `Restore` are the `except BaseException`; `DropSome` is
one deletion of `rmtree`, so that every intermediate directory is visible; `Crash`
is the process being killed. Nothing in the code keeps two setups apart, so any number may
run at once; the history variable `overlapped` says that one began while another was in
progress, and the properties that need one operator at one shell hold as long as
it is false.

### Perceive

The desktop is `occupant`, who has each handle, and `gone`, the windows that were
closed; `Close` and `Open` may happen between any two reads. The worker's places
follow `perceive_request`: `find` and `find_process` (`_make_target_info` reads
the class and the process in separate calls), `attach` (the checks before the
walk), `drill`, `walk`, `recheck`, `encode`. The tree is reduced to `seen`, the
windows its elements were read from. `found`, `attached` and `rechecked` are history
variables: the windows the three looks saw. Any UIA call may raise (`FindFails`,
`PerceiveFails`), and does on a handle without a window. `caller` is who asks: the plugin
passes the process id it found, the developer CLI (`cli.py:117-124`) passes none, so
that only the handle is compared (`SameProcess`) and `ForeignNeedsTwoReuses` is about the
plugin.

When the walk was drilled into a frame's content, nothing in the code identifies
the content window again. The properties about strangers are therefore stated for
walks of the requested handle itself; `StableTargetOnly` covers the decision to
drill.

### FindWindow

`pc` is the selector `find_window` is at (`title`, `process`, `class`), or where the
loop over the top-level windows is: `list` (`GetRootControl` and `GetChildren`),
`next` (the generator `_enumerate_top_windows`, with `left` what it has not come to),
`match` (the process id and its name), `row` (the body of `list_windows`), `describe`
(`_make_target_info`). The generator and its two callers each have a `try` of their own,
around the whole loop in the one and around one iteration in the others: `YieldRaises`
ends the enumeration, `DescribeRaises` and `RowRaises` go on with the next window. The
searches by title and class are the library's and look at the desktop once, and
what a window is does not change while it is open. `Match` may take a closed
window for one of the process, because its process id may have been reused between the
two reads. `steady`, `unread` and `behind` are history variables: the windows that
stood through the call, those that could not be read themselves, and those that a broken
enumeration never came to. The search by handle is `Perceive`'s.

### TreeWalk and Classifier

The recursion of `element_to_dict` is a state machine: `at` is the element of the
innermost call and `pc` where in that call the code is (`enter`: the deadline and
the limit, `read`: patterns and properties, `children`: the depth and
`GetChildren`, `loop`: the loop over the children and the return). The stack needs
no variable: the callers are the ancestors of `at`, `walked` says how far each one's
loop is, and its local `truncated` is membership in the set `truncated`. A UIA
call that raises ends the caller's loop (`ReadFails`: `except Exception` around the
whole loop), keeps the element without children (`ListFails`), or, as a
`RuntimeError` or `TimeoutError`, leaves the walk (`ReadRaises` and `ListRaises`, like the
two limits).
`unread` and `unlisted` are history variables: where that happened. The tree itself is
fixed; an application that changes it during a walk shows as elements that raise.

`Classifier` keeps the thresholds as constants, since `TIER_THRESHOLDS` is waiting to be
calibrated, and computes confidences in ten-thousandths. A tie of `round` may go
either way, because the floats it sees are not exact.

### ScanBudget

A call is one step (`Refuse`, `Scan` or `ScanFails`): processes and timeouts are
`ScanTool`'s. A window is the sizes of the parts of its snapshot, and may be another
one at each call. `perceive_request` is the worker's size check, `Checked` the
handler's, which adds `Overhead` (two fields) first. `Follow` is the agent asking again
with what was suggested; it keeps its `max_output_bytes`, which is never suggested.

### Isolation

`parent` follows `run_isolated`, `child` is the process: it computes, its feeder thread
writes what `put()` handed over (`flushing`), it goes down (`exiting`). A child that goes down
in good order waits for its feeder, and a message that does not fit into the pipe waits for a
reader. `Abort` is a crash, at any of the three places: before `put()`, while the feeder has
not written, in which case the message is lost, and after that, while the interpreter and COM
are torn down, in which case it stays in the pipe and is a success with a nonzero exit code. A
kill by someone else is the same step. A message is in the pipe as a whole or not at all.
`Hang` is a provider that never answers or a teardown that never ends. `Die` is the effect of
`terminate` or `kill`, which may come late or never. `Ample` restricts the first join to give
up only on a child that cannot end by itself: it stands for a timeout longer than the function
needs.

### CliPerceive

`cli` is where `main` is; the subprocess steps of `Isolation` run while it is in
`isolated` and, for a child that was not killed, after that. Arguments are what the
code branches on, a window found is whether it has a handle and a bounding box.
Every way out of `main` is an `Exit` with its code and what was printed, an exception
that nobody catches included ("traceback"): `find_window` by title or class,
`capture_window` before its `try`, the validation and the file of the snapshot. The CLI's exit
code does not depend on the child's: `perceive_hwnd`'s result of a child that crashed on its
way out is a snapshot and exit code 0, which `ExitHonest` allows (the child computed the tree
and is dead), as `StatusIsChilds` allows a success beside a nonzero `exit_code`.

### ActionExecutor

One call of `execute_action`. A tree is reduced to which controls carry the target
element id and how each looks. `UiChanges` may change the window between any two
steps. The adapter and the snapshot supplier belong to the embedding caller, so
`Invoke` and `Observe` may act, not act, raise an `Exception` (a failed receipt) or a
`BaseException` (`raised`, no receipt).

## Runs

| Run | Question | Instance | Distinct states |
|---|---|---|---|
| `scan_tool` | slot, exclusion, honesty, liveness, refinement of `ScanService` | 2 calls on one process, 1 on another; one of them interruptible | 315,370 |
| `setup` | nothing lost, termination; without overlaps validity, rollback, success | 3 setups, in sequence or overlapping | 273,756 |
| `perceive` | what the identity checks guarantee | both callers, 2 handles, 5 windows of 2 processes, one a frame | 212,894 |
| `cli` | status, survivors, exit codes, files left behind, return of an isolated call | all arguments and environments, 3 message sizes around the pipe's capacity, a crash at any place of the child | 9,822 |
| `action` | gates and receipts | 2 controls, 2 windows, requests within 2 fields of a good one, 12 policies | 527,248 |
| `tree_walk` | gaps, unmarked cuts, the element limit, tiers, termination | 7 elements on 4 levels, depth limits 0 to 3, element limits 1, 3, 5 and 7 | 5,498 |
| `scan_budget` | budget, suggestions, confidence bands | 480 requests at, past and between the limits; 14 windows | 28,219 |
| `find_window` | what a search may pass over, and why | 4 windows that open and close: two of the process, two of the class, one with the title, one pane that matches everything; all selectors | 339,614 |
| `one_scan` | violated: "one scan may run per profile at a time" | as `scan_tool` | |
| `perceive_reuse` | violated: handle reuse is detected | as `perceive` | |
| `isolation_pipe` | violated: a timeout means the function did not finish | 3 message sizes around the pipe's capacity, `Ample` | |
| `list_all` | violated: all visible top-level windows are listed | as `find_window` | |

Bounds, and why they are enough to be interesting:

- `ScanTool`: the slot is contended by two calls of one process; the third call shows
  that processes do not share it. A call is handled once, so a third contender
  would only repeat the second.
- `RuntimeSetup`: three setups give one that fails half-way, one that runs into what
  it left, and one that overlaps both. Directory states are finite.
- `Perceive`: five windows let the requested handle change hands four times, twice
  within the process asked about; foreign elements do get into an answer in this
  instance (after two reuses), so `ForeignNeedsTwoReuses` is not vacuous.
- `TreeWalk`: a childless element between two with children lets an element be lost
  before and after a sibling, and be at the depth limit with and without children;
  the limits lie below, at and above the number of elements, and thresholds are
  lowered so that the seven elements can have every tier.
- `ScanBudget`: the numbers are the code's own, its limits and defaults; windows are
  chosen to fit, to be just within the worker's check and past the handler's, and to
  be too large at any depth. A tree as wide at every level is enough, because the code
  only looks at the number of elements and bytes.
- `FindWindow`: the process has one window that also has the title and one that also has
  the class, so that each search can come to nothing, find what a stronger one
  passed over, or lose one window behind another; any of them opens or closes
  between any two reads.
- `Isolation`, `CliPerceive`: sizes below, at and above `PipeCapacity`.
- `ActionExecutor`: two controls suffice for ambiguity (both carry the id) and for an
  id that moves. Pairs of deviations of a request cover every order of two gates.

`CHECK_DEADLOCK FALSE` is set where the system stops: setups, one walk, one conversation, one
search, one run of the CLI, one request and one action all end. `ScanTool` never stops, since
the runtime may always change: that its handlers do not wait for each other for ever is what
`SlotComesBack` says, not the absence of deadlock.

### Fairness

- `ScanTool`: weak fairness of each handler's steps (a thread is scheduled until it
  returns, and the deadline is a timeout of `communicate`, so it does expire) and of
  `WorkerDies` (the system ends a process it was told to end). No fairness makes a
  worker exit, lets a call be interrupted or changes the runtime.
- `RuntimeSetup`: weak fairness of each running setup's steps; every command has a
  timeout of 300 or 60 seconds. None for starting one or for crashing.
- `TreeWalk`: weak fairness of the walking thread, whose UIA calls answer or raise; the
  provider that never answers is what the processes around the walk are for.
- `ScanBudget`: weak fairness of the next step: each call is answered, which is
  `SlotComesBack`, and the agent follows what it is told.
- `Isolation`, `CliPerceive`: weak fairness of the parent's steps (its joins and its `get` have
  timeouts), and of `main` where it waits for nothing but them (`Unblocked`). `main` reads the
  environment, the desktop and the screenshot's pixels in its own process, by calls that may
  block for ever, so nothing forces those steps, and `PerceiveReturns` begins with the window
  and ends where a screenshot begins. None for the child: it need not go on, nor die when it
  is signalled.

`Perceive`, `FindWindow` and `ActionExecutor` have safety properties only: a UIA call or an
adapter may block forever. For the plugin's UIA calls the end is `ScanTool`'s kill; for an
adapter, and for the developer CLI's search and list, there is none.

## Proofs

All for arbitrary constants, under the named assumptions of the modules (see the
end of this section), by TLAPS:

- `ScanTool_proofs`: `TypeCorrect`, `SlotAccounted`, `Exclusion`, `Honesty`, and
  `Refinement` (`SafetySpec => Service!SafetySpec`). The inductive invariant `IInv`
  adds to the properties what the worker of a call may be at each place of its
  handler (`WorkerMatchesPlace`) and which answers go with which worker
  (`AnswerMatchesWorker`): exclusion is not inductive without knowing that a
  handler past `reap` has a dead worker, honesty not without knowing that one
  before `spawn` has none. Refinement maps each handler's place to a phase of the
  service; `SlotAccounting` gives the guards of `Begin` and `Busy`.
- `RuntimeSetup_proofs`: `TypeCorrect` and `NothingLost` however setups overlap;
  `AvailableIsReady`, `RollsBack` and `Success` as long as they did not. `OverlapInv` says that
  what is about to be published passed its smoke test, that backup names are
  fresh, and that a backup is deleted only while another ready copy exists outside
  every deletion. `ExclusiveInv` adds, until an overlap, that one setup runs and what
  target and backup hold at each of its places.
- `Perceive_proofs`: `TypeCorrect`, `ForeignCaught`, `StableOnly`. The argument: a window
  read through a handle has the handle still or is closed for good
  (`SeenAccounted`), so the recheck, which finds a window of the right process that is
  not closed, tells what may have happened in between.
- `ActionExecutor_proofs`: `TypeCorrect`, `Gated` and `Honest`, from an invariant that carries the
  gates passed at each place to the end of the call.
- `CliPerceive_proofs`: for the subprocess, `TypeCorrect`, `StatusTrue` and `SurvivorSeen`, from
  an invariant that relates the parent's place to what the child may be by then and a message
  in the pipe to one the child sent (`Delivered`: a child that ended in good order either had
  a value that does not pickle or left its message in the pipe). A step
  of the CLI leaves the subprocess alone, so that invariant is kept, and the CLI's own
  adds what each printed line was derived from (`CliTypeCorrect`, `ExitTrue`).
- `TreeWalk_proofs`: `TypeCorrect`, `LimitHonest`, `NoGapUnexplained`, `UnmarkedIsComplete`,
  `CutOffIsMarked` and `TierSound`, for every finite tree, and `TruncatedMeansDeepest`, which no
  run checks: the mark means an element at the limit, with or without children. The counter is compared with
  the set of elements whose call began (`CountInv`); that a finished walk
  has gone through every loop of a kept element needs the stack, which the model
  does not store: `StackInv` asserts a set of unfinished calls, one per level, that
  contains `at` and the callers. That an unmarked tree is complete follows by taking a missing
  element of least depth.
- `FindWindow_proofs`: `TypeCorrect`, `MissesExplained`, `ProcessFound`, `ListAccounted`. The
  invariant says of every window that stood that it is left to be looked at, is being looked
  at, or is accounted for, and of every search behind the place where the call is that
  its windows are accounted for.
- `ScanBudget_proofs`: `TypeCorrect`, `BudgetHolds`, `SuggestionsValid`, `SuggestionsShrink`
  (`FollowsShrink`), and
  `BandsApart` for thresholds at least the code's. Suggestions stay valid because they
  are made from arguments that were accepted (`HintIsForArgs`), which is what makes the
  invariant inductive. `OverheadAssumption` is needed: a summary, with what the
  handler adds, fits into the smallest budget.

The other theorems go beyond what the runs check, in four directions.

*Where the documents' sentences are true.* Each of the four violated sentences is proved under
a hypothesis, which its run shows to be needed:

| Theorem | Sentence | Holds where |
|---|---|---|
| `OneScanUninterrupted` | one scan at a time, in each process | `Interruptible = {}`: no handler runs on the main thread |
| `SoleReplacementDetected` | handle reuse is detected | the process found has one window, and it is the window attached to |
| `SmallMessagesInTime` | a timeout means the function did not finish | every result fits into the pipe, the timeout is `Ample`, and no child hangs after its result left it |
| `UnbrokenListsAll` | all windows are listed | the enumeration was never broken |

Behind them stand `SoleWindowsExact` (then the whole answer is the attached window's, an
invariant of its own, `SoleWindowRead`, since the conclusion of the recheck alone is not
inductive) and `TimeoutsExplained` (whatever the sizes: a message too large, and a child
whose message has left it but which hangs in its teardown, are the only other reasons;
`GaveUpOnStuck` carries the first join's reason through the kills).

*What a step may never do.* `RuntimeNeverInPlace`: a published runtime appears and goes away
by renames only, and goes away only for a validated one, overlaps of setups included.
`ActedOnce`: one control, once, and nothing after an adapter that raised. `StableTouch`: what is
touched is what the request names unless the window changed since the snapshot, which is
the window between guard and adapter that the code cannot close. `EachReadOnce` and
`LimitsHold`: an answered tree is a tree, within both limits, whatever was lost
(`SizeInv`: every element kept was counted). `ListedSound`, `FoundMatches`: the converse of
`ListExplained` and `MissExplained`, from what each place knows of the window it looks at
(`CandidateInv`). `UntimedWaitEnds`: the `communicate()` without a timeout is entered
past the kill only.

*Progress.* Liveness under fairness is out of the prover's reach, but its combinatorial half is
not: `HandlersEnd`, `SetupsAdvance`, `CliEnds`, `WalkAdvances`, `FinderEnds` and `FollowsEnd` show
for every value of the constants that each step of a process takes it down an order in which
nothing descends forever, and in `SetupsAdvance` that nobody else's step takes it back. So
each of these loops ends unless it stops in the middle. Some orders are numbers (43 steps of a setup
and 20 of the CLI with its child); a walk's is the set of elements not called for, then
the depth, then the place; a search's is the search, then what the generator has left, then the
place; an agent's is the number of halvings left (`Within`). That they do not stop in the
middle, which is where fairness and enabledness come in, is TLC's part.

*Composition.* `CliRunsIsolation`: the CLI's behaviours are behaviours of `run_isolated`, so that
`CliStatusTrue` follows for the composition. `ServiceAlone`: the service that `Refinement`
says is implemented does keep to one scan per process.

The assumptions on constants type them, or say what kind of data they are: elements form a
tree, thresholds are ordered, a missing key or suggestion is no value (`AbsentAssumption`,
`NoHintAssumption`). Only `OverheadAssumption` (above) is about sizes.

Model-checked only: liveness (`SlotComesBack`, `SetupEnds`, `PerceiveReturns`, `WalkEnds`, `Settles`
and the liveness half of `ImplementsService`), which is out of the prover's reach. Every
invariant and every safety action property of the passing runs is proved.

## Where code and documentation differ

Four runs violate a sentence of the documentation; `PROJECT.json` quotes each, and a theorem
(see Proofs) says where it is true:

1. A handler interrupted in `communicate` frees the slot over a running worker
   (`one_scan`). The slot is per process besides, not per profile.
2. A handle reused by the same process is not detected (`perceive_reuse`).
3. `run_isolated` joins before it reads the queue, so a result larger than the pipe is
   reported as a timeout (`isolation_pipe`).
4. A window that raises when its control type is read ends the enumeration, so the windows
   behind it are missing from `list_windows`, which lists "all" (`list_all`).

Noticed while modelling, without a run:

- After an overlap of setups, what `AvailableMeansReady` says does not hold: one
  setup fails while deleting its backup, another sets the published target aside,
  and the first one's rollback renames its damaged backup to the empty target.
- SECURITY.md:47 says that destructive risk levels are rejected; a policy whose
  `maximum_risk` is destructive admits them (`policy.py:57`). `GatedInvoke` says that nothing
  destructive is touched under any other policy.
- SECURITY.md:48-50 requires declared preconditions of a live invoke; `expected_before` may be
  empty, and is then satisfied by any state (`resolver.py:36-43`), while an empty
  `expected_after` is refused (`executor.py:48`). `GatedInvoke` says that states which were
  declared did hold.
- README.md:107-108 promises that oversized results come back with smaller suggested
  parameters. The handler's own size check (`hermes_plugin.py:159-165`) returns none, and the
  worker suggests a summary of one element at depth 0 to a request that was one already. No
  property says that there is a suggestion; `FollowsShrink` is about one that an agent follows:
  unless it is what was asked for already, it is smaller.
- `max_elements` bounds the walk by making it fail (`tree_walker.py:89-90`), so halving it as
  suggested may turn `output_budget_exceeded` into `tree_worker_error`.
- `truncated` is described as "True if children were truncated due to depth limit"
  (`models.py:142-145`, and `tree_walker.py:79-80` of the recursion that stopped); an element
  at the depth limit sets it without being asked for children, so a tree with a childless
  leaf there is marked although it is whole (`tree_walker.py:148-149`). The runs check the
  two directions in which the documents and the code agree, that what was cut off is marked
  (`CutOffMarked`) and that an unmarked tree is whole (`CompleteUnlessMarked`); what the mark
  does mean is `TruncatedExactly` of `TreeWalk_proofs`.
- Siblings lost to an exception are not marked by anything (`tree_walker.py:146-147`).
  `GapsExplained` says what such a tree may lack; it cannot be told from a whole one.
- Three elements without a pattern have the confidence of the richest sparse window
  (`classifier.py:94`): confidences are not comparable between T3 and T2.
- A walk that runs out of time raises in the child, so the CLI says
  `tree_worker_failed`, not retryable, where the same window a second later is
  `tree_worker_timeout`, retryable (`cli.py:127-138`).
- A child that wrote its result and then crashed is reported as a success, with its nonzero
  exit code beside it (`isolation.py:65-75`), which the CLI does not look at.
- Only `ValueError` becomes `invalid_arguments`; an unhashable mode or an integer beyond
  every float raises something else out of the handler (`hermes_plugin.py:101-109`). No slot is held there.
- An `expected_process_id` of 0 switches the process checks off (`worker.py:22`, `:47`), for
  the plugin too.

## Not modelled, and the plan

| Planned | Question |
|---|---|
| place of windows in `CliPerceive` | the screenshot of an old bounding box |
| an interpreter that exits | `multiprocessing` joining a child that survived its kill |

`ScanTool` and `RuntimeSetup` are not composed: `RuntimeChanges` lets the runtime come and
go between any two steps of a call, which is more than setup does to it, so the
scan tool's properties hold beside any number of setups, and `AvailableMeansReady`
says what a worker is started from.

Left out for good: `schema/` (data definitions, no state), the warnings, DPI awareness
and scaling of `env_check.py` and `screenshot.py` (straight-line system calls), the states
and the redaction of patterns (the model keeps which patterns were found),
`register()` (one-time wiring), `scripts/` and the disposable prototypes in `spikes/`.
Hazards without a property are
listed in `PROJECT.json` with the reason.
