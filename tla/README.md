# HomeIntent in TLA+

HomeIntent (`src/custom_components/homeintent/`) is a Home Assistant integration
that understands German sentences and acts on them: it switches devices, answers
questions, writes and manages automations, and speaks up by itself when a rule or an
observation asks for it. It runs in one Python process on Home Assistant's event
loop. Its difficulties are those of such programs: handlers interleave at every
`await`, several files and Home Assistant itself hold parts of one fact, calls fail
half-way, Home Assistant stops at any moment, and other programs write the same
files.

This directory holds specifications of the parts of the program where that matters,
their model-checking configurations, and machine-checked proofs.

    tlc -workers 2 -config executor_crash.cfg MCAutomationExecutor
    tlapm AutomationExecutorProofs.tla

File names below without a path are in `src/custom_components/homeintent/`.

## 1. Inventory

| Component (main files) | State it keeps | Operations | What is hard |
|---|---|---|---|
| **Automation executor** (`automation_executor.py`, `automation_transaction.py`, `automation_history.py`, `automation_metadata_store.py`, start-up part of `__init__.py`) | `automations.yaml`, metadata sidecar, one-record transaction journal, bounded history, Home Assistant's loaded automations and entity registry | create, delete, enable, disable, reschedule, limit runs, rewrite actions or a section, undo the last change, record a run, expire missed one-shots; at start-up recover, reconcile, clean up | crash between any two writes; a call that fails after others succeeded; a foreign writer of the same file; a start-up task that must understand what a dead process left |
| **Proactive agent runtime** (`agent_runtime.py`, `agent_event.py`, `agent_event_store.py`, `agent_delivery.py`) | the event file, one-shot reminder automations in Home Assistant, in-memory copies in handlers | signal, deliver, click, spoken answer, snooze, recheck, recover | handlers overlap; the lock covers reading and claiming but not delivery or execution; every save replaces the whole event by a copy; restarts with a reminder due meanwhile |
| **Goal execution** (`execution_coordinator.py`, `planner.py`, `service_executor.py`, `effect_monitor.py`, `goal_run.py`) | reserved targets, plan steps and their results, effect deadlines, bounded history of runs | reserve/release, execute, verify, compensate, observe, time out | waiting for overlapping target sets; compensation of partly executed plans; effects observed before they are registered |
| **V12 proactive context** (`proactive_engine.py`, `proactive_session.py`, `proactive_store.py`, `proactive_execution.py`, `attention_policy.py`, `standing_permission.py`, ...) | situations, proposals, snoozes, standing permissions, attention budget, all in one file | observe, evaluate, propose, choose, execute, snooze, revoke, restore | several answer paths to one proposal, state read before an await and written after it, writes of one file that overtake each other, restore of a run that was executing, a full store |
| **Dialogs** (`conversation.py`, `dialog_manager.py`, `proactive_dialog.py`, `management_dialogs.py`, `nlu/context.py`) | pending questions per conversation and owner, in two stores with a mirror between them | ask, answer, amend, give up, cancel, expire | which of several pending questions a short reply reaches; turns that overlap at every await |
| **Learning** (`learning_manager.py`, `experience_store.py`, `model_registry.py`, ...) | bounded evidence, models and their life cycle | add evidence, train, forget | forgetting while evidence arrives; duplicate evidence |
| **Timed observers** (`thermal_tracker.py`, `monitor_goal.py`, `event_runtime.py`) | running episodes and goals | state change, deadline, close | deadlines against state changes |
| **Native timers and calendars** | none of its own: Home Assistant's | one call each | - |
| **Undo of device actions** (`undo.py`) | bounded list of inverse plans | remember, undo | an inverse that has become stale |
| **Household memory and user bindings** | single rows | read, write | - |
| **Language understanding**, **automation language** | none: pure functions of the text | parse, ground, generate | vocabulary, not state |
| **Read-only views**, **configuration** | none, or forms | present | - |

How they interact. A sentence enters through `conversation.py`, which first offers
it to the pending dialogs and then to the parsers. A parsed command becomes a plan
for goal execution; a parsed automation becomes a request to the executor, which
alone writes `automations.yaml` and calls `automation.reload`. Automations that the
executor wrote signal the agent runtime by a service call (`agent_signal`) and
bounded ones report their runs back (`record_automation_run`), which may request
their own deletion. The agent asks users by push and speech and runs the stored plan
through `service_executor.py` when they agree; it uses one-shot automations of Home
Assistant as its timers. At start-up one task runs recovery, reconciliation and
clean-up of the executor, another the recovery of the agent.

What makes each correct, in one line: the executor changes the catalogue by whole
operations, never loses what others wrote and always gets its stores back in line;
the agent keeps one open event per situation and executes it at most once, for an
answer that was meant for it; goal execution holds all its targets or none and
reports what really happened; a proposal never leaves a terminal state and reaches a
device once, and what a user was told of it stays true; a reply reaches the question
its speaker had heard, and only if it was the speaker's.

## 2. Modules

| Module | Models | Uses |
|---|---|---|
| `AutomationCatalog` | what the executor promises: one catalogue that changes by whole operations | - |
| `AutomationExecutor` | the executor with files, crashes, failing calls and foreign edits | instantiates `AutomationCatalog` |
| `AutomationExecutorProofs` | its theorems: types, recovery, what others wrote | extends `AutomationExecutor`, TLAPS |
| `AutomationExecutorPromises` | its theorems: whole operations, what success and failure mean | extends `AutomationExecutorProofs` |
| `AutomationExecutorStores` | its theorems: file, sidecar and category agree | extends `AutomationExecutorPromises` |
| `MCAutomationExecutor` | requests and edit phases of the runs | extends `AutomationExecutor` |
| `AgentRuntime` | the agent's handlers as tasks of the event loop | - |
| `AgentRuntimeProofs` | its theorems | extends `AgentRuntime`, TLAPS |
| `MCAgentRuntime` | signals and symmetry of the runs | extends `AgentRuntime` |
| `TargetReservations` | what the coordinator of goal runs promises: exclusive devices, taken and given back together | - |
| `GoalExecution` | turns that execute goals, the effect monitor and the run history | instantiates `TargetReservations` |
| `GoalExecutionProofs` | its theorems: reservations, ownership, expectations | extends `GoalExecution`, TLAPS |
| `GoalExecutionResults` | its theorems: results, compensation, the run history | extends `GoalExecutionProofs` |
| `MCGoalExecution` | the plans of the run | extends `GoalExecution` |
| `AnswerOnce` | what a question of the house promises: one answer, and what was told stays | - |
| `ProactiveContext` | situations, questions, snoozes, permissions and their file | instantiates `AnswerOnce` |
| `ProactiveContextProofs` | its theorems | extends `ProactiveContext`, TLAPS |
| `MCProactiveContext` | symmetry of the run | extends `ProactiveContext` |
| `Dialogs` | the open questions of one conversation and the turns that answer them | - |
| `DialogsProofs` | its theorems | extends `Dialogs`, TLAPS |
| `MCDialogs` | kinds of question and symmetry of the run | extends `Dialogs` |

### AutomationExecutor

One `asyncio.Lock` serialises the operations, so the model has one program counter,
`pc`, the place where the lock's holder stands. Three groups of state are kept apart
because a crash treats them differently:

* `yaml`, `meta`, `journal`, `history` are files and survive;
* `live`, `entity` are Home Assistant's; a restart loads `live` from the file,
  registry entries stay;
* `pc`, `req`, `tx`, `failedAt`, `todo`, `owed` live in memory and are lost.

An operation is: `Begin` (snapshot, checks, prepared journal record), `CheckDigest`
and `WriteYaml` (two steps, because another program can come between them),
`VerifyWrite` (read back, second journal record), `AppendHistory`, `Reload`,
`Record` (category and metadata) or `ExpireMetadata`, `Complete`, and for an undo
`PopHistory`. Each step succeeds or, at a point of `FaultPoints`, fails; a failure
takes the except branch of the code: `UndoCheck` to `UndoReload`, or nothing where
the code handles nothing. What the operations differ in (the checks of `Allowed`,
the new list of `Updated`, the metadata of `Recorded`) is written as functions of
the request. `Startup` is `Recover`, `BeginReconcile` with `Reconcile`, and
`StartupCleanup`.

The bytes of the file matter only through their digest, so a file is its list of
automations plus whether its bytes are what HomeIntent's own YAML dump would produce
(`form`). A rollback of a hand-formatted file reproduces the list but not the bytes;
that is why the distinction is needed. An automation keeps what the operations
change: on or off, the guarded one-shot time, the run limit, a body.

Left out: `duplicate` and `pause_until` (a read or a disable followed by an ordinary
request), listing, and errors when a file is read.

### AgentRuntime

Every handler is a task with a program counter, the copy of the event it holds, and
for a spoken answer the moment and the questions the speaker had heard. `lock` is
the `asyncio.Lock`. The stored event is always replaced as a whole by a task's copy
(`SaveCopy`), as `async_save` does. `Create`, `Deliver` and `StoreDelivered` are
separate because delivery runs outside the lock; `Claim` saves before `Execute`,
which runs outside it too. `Remind` creates the one-shot automation before the
snooze is saved. `Recover` is the start-up loop over events it loaded once, without
the lock.

Free choices: whether the source entity still matches (each look at it), whether
push and speech succeed, whether the policy allows AUTO, and what a service call
does (executed, failed, refused). A service call that raises is taken to have had no
effect. Not modelled: the quarantine of stored plans, the checks of user and device
of a click (they only refuse), the feedback message after a refusal (it stores
nothing), and errors when the event file is read. A reminder fires once when due
while Home Assistant runs; one that fell due while it was down is lost, and the
start-up loop has to notice. A reminder falling due in the moment between the
start-up loop's reading of the clock and Home Assistant's arming of its time
triggers is counted as firing.

### GoalExecution

A run is one turn that carries out the plan of a goal (`planner.py`): it takes all
devices of its plan at once or is refused (`Acquire`, `Refuse`:
`execution_coordinator.py`), sends one call after the other, waits for each effect
to be seen, and on a failure takes back what can be taken back. `pc` is the `await`
it is suspended at: `call` (the service call), `verify` (polling), `schedule` (an
automation for later), `undo` (a compensating call), `append` and `write` (the read
and the write of the history inside `GoalRunStore`'s lock). Between two of these the
event loop does not switch, so everything up to the next one is one action:
`Continue`, `StartStep`, `Compensate` and `PlanDone` are the parts such an action is
put together from.

`owners` is the coordinator's table, `results`, `undone` and `status` what the
caller gets, `pending` the effects `EffectMonitor` waits for, `file` the bounded
history. `device` and `command` are Home Assistant's: what a device shows and what
it was told and has not done yet; it may do it (`React`), never do it (`Lose`), or
be changed by somebody else (`Foreign`). `Abort` is the cancellation of a turn at an
await, `Restart` a restart of Home Assistant, after which only devices and file are
left. An effect is registered after the call returned, and observed or given up at
any time later (`Observe`, `Expire`).

Left out: how a goal becomes a plan, risk and policy (both decide whether a call is
accepted, which is a choice of the model), retries (the default is one attempt),
steps with several devices, and answering questions about past runs.

### ProactiveContext

A key is a door left open or lights left on in one area; `situ` is its current
occurrence (`SituationStore`), `prop` the life of each question (`ProposalStore`),
`granted` and `attempts` the standing permissions, `check` and `wake` the timers. A
task of the event loop is started by a state change (`Observe`), a timer
(`CheckFires`, `WakeFires`) or an answer (`Accept`, `Later`, `Refuse`, `Revoke`),
and is suspended in three places: while messages are delivered, while a run changes
devices (`run` for a question, `auto` under a permission) and while a thread writes
the file (`save`). `Evaluate`, `Decide`, `Ask` and `Recheck` are the code between.

Every write is a whole document, built when the task asks for it; the threads finish
in any order, and one whose generation is overtaken writes nothing (`Finish`,
`Write`). The write may fail (`Fail`). A user hears of an outcome only after the
write returned, which is what `heard` and `revoked` record; `started` and `autos`
count runs. `Restart` reads the file back, holds it against the doors as they are
now, and arms timers again.

Attention policy, privacy, routing and quiet hours are choices: they decide only
whether something is said. Left out: digests and grouping, the ageing of old
situations, which of several questions a spoken reply means (`Dialogs` models that
for its own queue), the identity checks of a tapped answer (they only refuse), the
history, muting, and the granting of a permission.

### Dialogs

The context of a conversation (`ConversationContextStore`) holds at most one
question; the queue (`DialogManager`) holds tasks with a priority, one of which,
`Mirror`, is kept equal to the context's question. `Kind` is a table of what the
handlers of the kinds of question differ in: where it is kept, its priority, its
place in the chain of handlers, whether only its owner may answer, whether it is
closed before or after the answer is acted upon, and what else is closed with it.
The actions quantify over that table instead of repeating the handlers.

A turn is `spoken` (it has read the context and waits for the user's preferences),
then is routed in one go: it replaces, stops, accepts, declines, amends, gives up or
repeats a question, or wishes something new. Thereafter it is `running` a command,
`asking` a question of its own, or `acting` on what it accepted, and suspended
meanwhile. A handler that gives up passes the sentence on to the next one, and
between the two others may come. `Tick` is the clock; questions expire when they are
looked at. `heard` and `gone` of a turn, and `closed`, are bookkeeping of the model
for the properties.

Simplifications: no two questions have equal payloads; the queue has one task of a
kind; what a sentence is (an answer, a command, a correction) is a choice made when
it is routed; the stages of editing an action are one question that is asked
`Again`. Left out are the kinds whose answer is not a yes (wizard, drafts,
productivity, comfort, routines, preferences, habits, clarifications of goals) and
what answers do. The table has fifteen kinds; the run takes one of each shape, eight
in all.

## 3. Runs

| Run | Question | Bounds, and why they are enough |
|---|---|---|
| `executor_crash` | do file, sidecar, category and Home Assistant agree again after crashes and failing calls, and do callers see whole operations only? | a bounded automation and a one-shot; three transactions, so that one starts on what a recovered one left; two crashes, so that recovery itself is interrupted; one failing call, so that a rollback is interrupted |
| `executor_undo` | does the journal always know what the file holds, and is the abstract catalogue implemented? | one automation, every kind of change and the undo, every call may fail, files whose bytes a rollback does not reproduce |
| `executor_edits` | does what another program wrote survive? | two foreign edits anywhere except between comparison and write (and inside reconciliation, which reads the file once and does not write it), with one failure and one crash |
| `executor_live` | does the journal drain, does the start-up complete, does a failure leave no trace? | fair; the failing calls are those the code handles |
| `agent_answers` | one open event per key, one execution, answers stand, a yes is unambiguous | two events, two keys (an ASK and an AUTO rule), two handlers and two answers: the smallest instance where two handlers meet over one event and where two questions compete for a yes |
| `agent_live` | the same across a restart and failing triggers, and an overdue snooze returns | one event, a handler beside the start-up loop, one restart |
| `goals` | are devices held exclusively and only as long as needed, is the reported result true, is compensation in order, is no record lost, does every turn end? | fair; two goals that want the same two devices in opposite order, the order in which waiting would deadlock; one step is put off until later and one cannot be taken back; a history with room for both records, since with room for one a lost record would not show (that the limit itself is kept, for every `Limit`, is proved: `NoRecordIsLost`); one foreign change, one restart |
| `proactive` | is a question answered once and what was told of it kept, does a snooze come back, does a permission stay in its budget and end when revoked? | one key, since nothing but capacity and the file is shared between keys, and those are covered by two questions in a store of one; two tasks, so that any two handlers overlap and two writes can overtake each other; two changes of the door, so that a situation ends and returns; one restart. Safety only, no fairness |
| `dialogs` | does a reply reach the question its speaker had heard, never one that was answered before, and only the speaker's own? | two turns of two users, two questions, a kind of each shape, lives of one step of the clock so that either question can expire before the other. Two questions are what it takes for a mirror to be stale or for one to be asked while the other is being answered; the proofs cover any number. Safety only |
| `undo_crash_v`, `expire_fault_v`, `agent_race_v` | violations, section 6 | the smallest instances that show them |

Counters (`MaxTime`, `MaxTx`, `MaxFaults`, `MaxCrashes`, `MaxEdits`, `MaxAnswers`,
`MaxForeign`, `MaxRestarts`, `MaxChanges`, `MaxProposals`, `MaxQuestions`) occur
only in the guards of the actions that increase them. When they are used up the
executor may stop, but never with an operation in flight, and `AgentRuntime` may
rest only when every task is idle; `Dialogs` never stops, because its clock goes on.
Deadlock is checked in these runs. It is not in `goals`, where all turns have been
taken at the end (that none of them is left hanging is `RunEnds`), and in
`proactive`, where doors and timers come to rest.

Fairness. `AutomationExecutor!FairSpec` is weakly fair in the running operation and
in the start-up task, which the event loop keeps running; it assumes nothing of
users, edits, time or crashes (which are bounded). `AgentRuntime!FairSpec` is weakly
fair in the steps of each task and in recovery, strongly fair in getting the lock
(asyncio serves waiters first in, first out) and in firing a due reminder (a free
handler is always there in the program, while the model has a fixed number), and
lets time pass. `GoalExecution!FairSpec` is weakly fair in the steps of each run
that has started: a service call returns or raises, a verification has a deadline,
and the threads finish their file accesses. It does not assume that devices obey.

## 4. Properties

Of the executor: `StoresAgree`, `KnownAreCategorised`, `ExpiredAreStopped`,
`SuccessIsEverywhere`, `FailureLeavesNoTrace`, `Recoverable`, `EditsSurvive`,
`JournalDrains`, `StartupCompletes`, and `CatalogPromise`: under the mapping
`Committed` (the file, or the journal's old list while an unfinished record would
bring that back) every step is one of `AutomationCatalog` or a stutter.

Of the agent: `OneOpenPerKey`, `ExecutedOnce`, `AnswerStands`, `VoiceUnambiguous`,
`SnoozeComesBack`.

Of goal execution: `ReservationExact` (all devices or none, however a turn ends),
`WritesAreOwned`, `KeepsReservations` (it implements `TargetReservations`),
`ResultIsTruthful` (what is reported as done, scheduled or partly done is so),
`ReverseOrder`, `RunsKept`, `NoStaleExpectation`, `RunEnds`.

Of the proactive context: `OpenIsCurrent`, `SnoozesReturn`, `RunsOnce`,
`AutoBudget`, `RevokedStays`, and `KeepsPromise`: `prop` and `heard` implement
`AnswerOnce`, in which an answered question is never open again and a restart may
forget only what nobody was told. `AutoBudget` counts runs since the last restart,
because an attempt that was not yet written is forgotten by one. `OpenIsCurrent`
makes an exception for keys a permission ran for: a run that fails may ask about an
occurrence that ended under it.

Of the dialogs: `AnswersWhatWasHeard`, `AnsweredStaysAnswered`, `OwnersAnswer`. Not
a property: that a question is acted upon once. It is not (section 6).

Every module has one type invariant, `TypeOK`. Every property is stated and
explained in its module; each has a plausible fault of the code (the operators
marked `Fault:` or `A slip:`) under which TLC finds it violated.

## 5. Proofs

`AutomationExecutorProofs` holds for every set of ids, bodies and requests, and
every bound.

* `InvariantHolds`: `IInv == TypeOK /\ InFlight` is inductive. `TypeOK` alone is
  not: that a step writes a well-formed file needs that whoever holds the lock has a
  request and a transaction, that a request which replaces metadata has the entry it
  replaces, and that the journal holds a record where the code relies on one.
  `InFlight` says so, point by point of `pc`. One lemma per action.
* `TypeCorrect`: `Spec => []TypeOK`.
* `AlwaysRecoverable`: `Spec => []Recoverable`. Strengthened by what each point of
  `pc` says of the file: before the write it is the old one, after it the new one.
* `OthersAreSafe`: `EditsGuarded => (Spec => []EditsSurvive)`, where `EditsGuarded`
  says that nobody writes between a comparison of the digest and the write behind it
  and that no undo is asked for. Both are necessary (section 6). The strengthening
  says that the snapshot, the planned list and, in an open journal record, the two
  lists agree with the others' automations whenever the digest still matches.

`AutomationExecutorPromises` is about what callers see. Its invariant `Told` adds to
`IInv` which transaction the holder of the lock works on and for whom (`Orderly`),
where each point of `pc` has put the file (`InPlace`), what a transaction may change
(`Changes`: the difference between its two lists is one whole operation, and the one
that was asked for), and that an id has a time in all records or in none
(`Natured`). The last one is what the clean-up relies on when the sidecar file tells
it which of the listed automations have expired.

* `OnlyWholeOperations`: `MaxEdits = 0 => (Spec => CatalogPromise)`, step by step.
  Only the write, its rollback, the journal and the undo change the catalogue; each
  is one operation of `AutomationCatalog`, everything else a stutter, a crash
  included. With an edit by another program the catalogue may change in two places
  at once when the journal is cleared.
* `SuccessIsTrue`, `ExpiredOnesAreStopped`: without hypotheses, and so for every
  failing call and every crash. (Where these properties are about the file they are
  about one nobody else writes: `edits = 0` is part of them.)
* `FailuresAreUndone`: `Untraced => (Spec => FailureLeavesNoTrace)`. `Untraced`
  excludes four failing calls: writing the journal, clearing it, putting the file
  back, and dropping the metadata of what has expired. Each of the four is
  necessary: with any one of them TLC finds a failure that leaves something behind.

`AutomationExecutorStores` holds if nobody asks for an undo of the last change
(`NoUndoAsked`).

* `AllAreCategorised`: `Spec => []KnownAreCategorised`. The invariant `Categories`
  follows the reconciliation of the start-up id by id.
* `StoresAgreeAtRest`: `Spec => []StoresAgree`. `Coverage` says that nothing is
  listed, or may be listed again by a rollback, that is not known; `Agreement` that
  what the sidecar file says is so of the list that counts: the file, or the old
  list of a transaction under way.

Without `NoUndoAsked` both are false. An undo of a deletion brings the automation
and its sidecar entry back, but not its category, which only the next start sets
(TLC: create, delete, undo); and a crash between the two files of an undo leaves
them in disagreement (`undo_crash_v`). With undo requests and without crashes TLC
finds `StoresAgree` to hold; that case is not proved.

`AgentRuntimeProofs` holds for any number of events, keys, signals, handlers,
answers and restarts.

* `InvariantHolds` and `TypeCorrect`: `IInv` adds to the types what a task brings
  with it where it stands (`Shaped`), that the lock is held exactly by the task
  inside it (`LockHeld`), and that the start-up loop visits only events it has
  loaded.
* `AtMostOnce`: `~DeliveryRaces => (Spec => []ExecutedOnce)`. The argument: a task
  is *armed* for an event while it may still execute its action or write the event
  back as an open one. `ClaimInv` says that an event has at most one armed task
  (`Alone`); that an armed task outside the lock has either closed the event before,
  or is delivering it, or is the automatic execution of an event nobody is asked
  about (`ClosedBefore`); that nobody inside the lock works on an event that is
  being delivered (`Gate`, the only place where the assumption is used); that every
  id in use belongs to a stored event (`Real`); and that an executed event can never
  be asked about again (`Spent`). A handler that finds an open event inside the lock
  therefore finds one without an armed task (`FreeToArm`). All steps are instances
  of a few moves (`DisciplinedKeeps`, `PerformKeeps`, `ArmedMoveKeeps`,
  `ReadMoveKeeps`). `agent_race_v` shows that the assumption is necessary. A failing
  `automation.trigger` (`TriggerFails`) does no harm to this property.
* `AnswersAreKept`: `~DeliveryRaces => (Spec => AnswerStands)`;
  `RepliesAreUnambiguous`: `~DeliveryRaces => (Spec => VoiceUnambiguous)`;
  `KeysAreUnique`: `~DeliveryRaces /\ ~TriggerFails => (Spec => []OneOpenPerKey)`.
  They rest on `HandInv`, which says what a handler knows of the store while it
  holds a copy of an event across an await: no two tasks hold a copy of one event
  (`OneWriter`), an event nobody has been shown is known to its own handler only
  (`Hidden`), a copy that is still open is written over nothing that was answered
  (`Stands`), a reply that has found its question found no other and none came since
  (`Voiced`), and who is about to open an event has seen no other open one of its
  key (`Sole`). The hypotheses are necessary: TLC violates each of the three
  properties with `DeliveryRaces`, and `OneOpenPerKey` with `TriggerFails`, where a
  failed trigger puts the expired event back beside the new one signalled meanwhile.

`GoalExecutionProofs` holds for any runs, devices and plans.

* `InvariantHolds`: `IInv == TypeOK /\ ReservationExact /\ AtWork`. `AtWork` says
  that the step or the steps to take back a run stands at are steps of its plan,
  which the type of a counter does not say and the next access to the plan needs.
  The three parts of an action are each proved once: what it may do to the
  reservations (`Reserving`: go on holding, give back and end, or neither), to the
  types, and to its own place.
* `TypeCorrect`, `ReservationsAreExact`: conjuncts of it.
* `CoordinatorImplementsReservations`: `Spec => KeepsReservations`, step by step: an
  acquisition is `Take`, an end `Give`, a restart `Reset`, everything else a
  stutter.
* `OnlyOwnersWrite`: `Spec => WritesAreOwned`, from `IInv`: whoever sends is in
  `Running`, hence holds its targets.
* `ExpectationsAreCurrent`: `Spec => []NoStaleExpectation`; a run that comes to
  verify has just replaced what was expected of the device, and nobody else may send
  to it.

`GoalExecutionResults` rests on it and holds as well for any runs, devices, plans
and limit.

* `CompensationRunsBackwards`: `Spec => []ReverseOrder`; `ResultsAreTrue`: `Spec =>
  []ResultIsTruthful`. The invariant `Story` says at each place of a run what it has
  to show: good results up to the step it stands at and nothing after it, and while
  it compensates a step that went wrong, only steps with an effect left, all of them
  before those taken back. The code tells a complete run from a partial one by
  counting; that the counts say the same as the sets is the lemma `FewerThanPlaces`.
* `NoRecordIsLost`: `Spec => []RunsKept`. No record is missing, none is of a run
  that did not end, and no run has two. The invariant adds that who is about to
  write is the one inside the lock, and that what was read there is still the file.

`ProactiveContextProofs` holds for any keys, tasks, questions, capacity and
restarts.

* `InvariantHolds`. Writes that overtake each other are what makes the invariant.
  `Told`: what was told is true of the memory, of the file *and of every document
  that can still become the file*. `WillTell`: what a task will tell when its write
  returns is true of the memory, of its own document and of all newer ones, and of
  the file once its own document is out of the line, because then it or a newer one
  has been written. Together they carry "told" across the return of a write, where
  it is first assumed. `Lines` says that a document waits once, `Known` that numbers
  not yet used occur nowhere, `Claims` and `Once` that a run belongs to a question
  that is not open any more, `Counted` that under a permission all runs but the one
  under way are counted.
* `TypeCorrect`, `SnoozesKeepTheirTimers`, `OneRunEach`, `BudgetHolds`:
  consequences.
* `RevocationStands` and `PromiseKept` (the refinement of `AnswerOnce`) are about
  steps: each action is shown to keep `IInv` and to be an allowed step of both at
  the same time (`Kept`).
* `OpenQuestionsAreCurrent`: `Spec => []OpenIsCurrent`. `CurrentInv` must also speak
  of what a restart may read: in the memory, the file and every document that may
  become the file at most one question is open about an occurrence (`OneEach`). That
  the file may have an old question open whose occurrence is over does no harm,
  because a restart withdraws it.

`DialogsProofs` holds for any turns, users, kinds of the table, questions and lives.

* `InvariantHolds`: `IInv == \E K \in Numbering(asked) : Holds(K)`. Questions are
  told apart by their numbers, and the argument needs that a number seen in the
  queue and the same number seen in the context or in a turn are one question. `K`
  says so: it gives every number its kind, so that questions of different places
  have different numbers; a new question extends it. `Holds` then says that neither
  store holds a closed question, that no turn carries one that was closed when it
  began, and that what a turn has read of the context is what it heard.
* `TypeCorrect`, `AnswersAreHeard`, `AnsweredStays`, `OnlyOwnersAnswer`:
  consequences.

All inductive invariants were model-checked on the configurations of the runs before
they were proved. The assumptions on constants are those named in the modules:
bounds are natural numbers, the values that stand for "none" are not records, the
ids of events are finitely many (`agent_runtime.py:154` takes them from uuid4), and
a rescheduling asks for a time (0 stands for none; `async_reschedule_automation`
takes a `datetime`).

Only model-checked: liveness (`JournalDrains`, `StartupCompletes`,
`SnoozeComesBack`, `RunEnds`), because fairness and ENABLED are out of the prover's
reach. Every other property of the passing runs is a theorem. No module declares a
recursive operator.

## 6. Where the code does something else than it says

Three are runs of their own, with the details under `findings` in `PROJECT.json`:

* `undo_crash_v`: a crash while an undo is under way, after the sidecar was
  replaced; recovery rolls back the file alone, and the automation stays without
  metadata.
* `expire_fault_v`: a failing sidecar write during the expiry of missed one-shots;
  the shortened file stays and the journal record refuses every further change until
  a restart.
* `agent_race_v`: a click while the event is being delivered; the delivery
  overwrites the claim and a second click executes the action again.

Others follow from the passing configurations with one constant changed:

* `FaultPoints = {"journal"}` in `executor_live`: a failing second journal write
  violates `FailureLeavesNoTrace` and, until a restart, blocks every change.
* `HandWritten = TRUE`, `MaxCrashes = 2` in `executor_live`: a rollback of a
  hand-formatted file, interrupted twice, leaves bytes of neither digest; recovery
  gives up and `StartupCompletes` fails.
* `EditPoints <- AllPhases` in `executor_edits`: an edit between comparison and
  write is lost; the window is short, but the code cannot close it by comparing
  first.
* `Requests <- ChangeRequests` in `executor_edits`: an undo drops what others added
  after the undone change.
* `Requests <- GuardedRequests` in `executor_crash`: `KnownAreCategorised` fails,
  because the undo of a deletion restores the file and the sidecar but not the
  category, until the next start.
* `DeliveryRaces = TRUE` in `agent_answers`: `VoiceUnambiguous` fails, because a
  question that has been spoken but is not stored yet does not count.
* `TriggerFails = TRUE` in `agent_answers`: `OneOpenPerKey` fails, because the
  failed trigger restores the snoozed event without looking what came meanwhile.

These are why the passing runs fix the constants as they do: `DeliveryRaces = FALSE`
keeps answers away from an event while it is delivered and nothing else.

Ten were met while the code of goal execution, the proactive context and the dialogs
was translated. The models contain all but the dimming, whose value they abstract
from, and the properties are stated so that they do not depend on them; details are
under `findings`.

* Goal execution. `planner.py:665` compares the number of verified steps with that
  of compensated ones, which may include the failing step: a plan whose first,
  irreversible step stands is reported as failed. `ResultIsTruthful` states what
  does hold: a partial failure is only reported when a verified step is left.
  `planner.py:584` skips a dimming step because the lamp is already on.
  `effect_monitor.py:62` registers an effect after the call, so an effect that was
  visible before is reported as missing.
* Proactive context. `proactive_store.py:140`: a "Später" that arrives while the
  question is still being delivered elsewhere is thrown away.
  `proactive_engine.py:870`: a run that ends acknowledges whatever occurrence the
  key has by then.
* Dialogs. `conversation.py:702`: two turns that both read an open question carry it
  out twice. `conversation.py:993`: with a more urgent task in the queue, a yes to
  the question of the context reaches neither. `conversation.py:2886`: finishing a
  plan clears questions that were asked meanwhile. `conversation.py:1528`: an
  unclear choice writes an old context over a newer question.
  `conversation.py:4260`: anyone may revise a pending automation, which its owner
  then confirms.

Two more of the dialogs are consequences of the same structure: the queue's active
task is looked up again after each await (818, 2385), so that a yes may confirm a
plan that was asked only after it was spoken (the reason why `AnswersWhatWasHeard`
is about the context alone); and an equal payload keeps the old mirror with its
expiry (`dialog_manager.py:244-255`), which the model excludes.

## 7. Not modelled

Most of the source consists of functions from a German sentence to a frame, from a
frame to a plan or a YAML document, and from a result to an answer (`engine.py`,
`parsers.py`, nearly all of `nlu/`, the wording in `conversation.py`, the views of
`learning_center.py`). They keep no state, nothing can come between two of their
steps, and what could be said of them is their vocabulary: a model would copy them.
That is why the share of the source under `map` stays small although most of what
keeps state and changes it over several steps is modelled.

| Component | Why not |
|---|---|
| Language understanding; automation language and generation | pure functions of the text, as above; their results enter as requests of the executor, plans of a goal and choices of a turn |
| Learning | statistics in floating point over a bounded store; the store is one read and one write under its lock, exactly the form of `GoalRunStore`, whose `RunsKept` is checked |
| Timed observers | the thermal episode is numeric. A monitor goal is a handler of its own; its two races (a deleted goal that is saved back, two transitions within the cooldown) were found by reading and are listed as a hazard. It is the next module to write |
| Undo of device actions | a list of calls kept in the context that `Dialogs` models; an undo is sent without looking at what the device shows by then, so there is no promise to check |
| Native timers, calendars | one call of Home Assistant each; it keeps the state |
| Household memory and user bindings | single rows, read and written in one step |
| Read-only views, configuration | change nothing, or are forms |

Inside the modelled components, section 2 names what is left out.

## 8. Plan

1. Proofs: what remains of `StoresAgree` and `KnownAreCategorised` with undo
   requests (the stores agree as long as no crash cuts an undo off; the category is
   right again after the next start), and what is kept of `FailureLeavesNoTrace`
   when the journal cannot be cleared.
2. `MonitorGoals`: transitions, the lock per goal, delivery, the shared run history,
   deletion.
3. Composition of `Dialogs` and `ProactiveContext`: a spoken yes with questions of
   both.
4. Goal steps with several devices and more than one attempt.
