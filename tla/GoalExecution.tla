--------------------------- MODULE GoalExecution ---------------------------
(* Goal runs that change devices: a run reserves all the devices of its     *)
(* plan, executes the plan step by step through the one policy-gated write  *)
(* path, verifies every effect, compensates when a step fails, releases its *)
(* devices and appends a record of itself to the goal-run file.  Beside it  *)
(* the effect monitor waits for the effects of accepted calls.              *)
(*                                                                          *)
(* The event loop switches tasks only at an await that really suspends: the *)
(* service call, the polling of a verification, the creation of an          *)
(* automation and the file accesses.  What lies between two of them is one  *)
(* action.  People, automations and the paths that do not reserve change    *)
(* devices at any time (Foreign).                                           *)
EXTENDS Integers, Sequences, FiniteSets, SequencesExt

CONSTANTS
    Run,          \* the goal runs of one session
    Device,       \* entity ids
    Plan,         \* [Run -> Seq(PlanStep)], the action steps of its plan
    NoRun,        \* nobody: the owner of a free device
    Limit,        \* GoalRunStore.limit
    MaxForeign,   \* bound: changes of devices that no run makes
    MaxRestarts   \* bound: restarts of Home Assistant

State == {"on", "off", "gone"}
Value == {"on", "off"}
\* A step sets dev to want, now or by an automation it schedules (later);
\* back is its compensation, "none" if it is irreversible.
PlanStep == [dev : Device, want : Value, back : Value \cup {"none"}, later : BOOLEAN]

ASSUME PlanAssumption == Plan \in [Run -> Seq(PlanStep)]
ASSUME OwnerAssumption == NoRun \notin Run
ASSUME BoundAssumption ==
    Limit \in Nat \ {0} /\ MaxForeign \in Nat /\ MaxRestarts \in Nat

VARIABLES
    owners,       \* ExecutionCoordinator._owners
    device,       \* the state Home Assistant shows for every device
    command,      \* the value a device was told to take and has not taken yet
    pc,           \* the await each run is suspended at
    at,           \* the index of the step it is at
    results,      \* StepResult of every step
    todo,         \* indexes that _compensate has still to take back
    undone,       \* indexes it took back, in order
    status,       \* the PlanStatus of its result
    pending,      \* EffectMonitor._pending: [dev, expected]
    file,         \* the goal-run file, the oldest record first
    reader,       \* the run inside GoalRunStore._lock
    copy,         \* what that run read of the file
    foreign,      \* foreign changes so far
    restarts      \* restarts so far

devices == <<device, command>>
store   == <<file, reader, copy>>
bounds  == <<foreign, restarts>>
vars == <<owners, devices, pc, at, results, todo, undone, status, pending, store, bounds>>

Running == {"call", "verify", "schedule", "undo"}
Place == Running \cup {"idle", "append", "write", "done"}
PlanStatus == {"none", "conflict", "completed", "scheduled", "partial", "failed",
               "aborted"}
Ended == {"completed", "scheduled", "partial", "failed"}
StepResult == {"open", "verified", "satisfied", "planned", "gone", "rejected", "missed"}
RunRecord == [run : Run, status : Ended]

Steps(r) == 1 .. Len(Plan[r])
\* A slip: only the device of the first step is reserved.
Targets_First(r) == {Plan[r][i].dev : i \in {1} \cap Steps(r)}
Targets(r) == {Plan[r][i].dev : i \in Steps(r)}
Step(r) == Plan[r][at[r]]
Having(r, outcomes) == {i \in Steps(r) : results[r][i] \in outcomes}

Init ==
    /\ owners = [d \in Device |-> NoRun]
    /\ device \in [Device -> Value]
    /\ command = [d \in Device |-> "none"]
    /\ pc = [r \in Run |-> "idle"]
    /\ at = [r \in Run |-> 1]
    /\ results = [r \in Run |-> [i \in Steps(r) |-> "open"]]
    /\ todo = [r \in Run |-> {}]
    /\ undone = [r \in Run |-> <<>>]
    /\ status = [r \in Run |-> "none"]
    /\ pending = {}
    /\ file = <<>>
    /\ reader = NoRun
    /\ copy = <<>>
    /\ foreign = 0
    /\ restarts = 0

Go(r, place) == pc' = [pc EXCEPT ![r] = place]
Send(d, v) == command' = [command EXCEPT ![d] = v]

-----------------------------------------------------------------------------
(* The coordinator: both methods hold their lock without awaiting inside,   *)
(* so each happens within one step of its caller.                           *)

\* A slip: whoever comes takes the device.
Conflicts_None(r) == {}
Conflicts(r) == {owners[d] : d \in Targets(r)} \ {NoRun, r}
Reserved(r) == [d \in Device |-> IF d \in Targets(r) THEN r ELSE owners[d]]
Released(r, held) == [d \in Device |-> IF held[d] = r THEN NoRun ELSE held[d]]

\* The end of PlanExecutor.execute and the finally block that releases.
End(r, result, held) ==
    /\ owners' = Released(r, held)
    /\ status' = [status EXCEPT ![r] = result]
    /\ Go(r, "append")
    /\ UNCHANGED command

-----------------------------------------------------------------------------
(* PlanExecutor.execute: the loop up to its next await.                     *)

VerifiedIn(r, outcomes) == {k \in Steps(r) : outcomes[k] = "verified"}

\* A slip: a result that left nothing standing counts as partial.
FailedStatus_Any(verified, compensated) ==
    IF Cardinality(verified) >= Len(compensated) THEN "partial" ELSE "failed"
FailedStatus(verified, compensated) ==
    IF Cardinality(verified) > Len(compensated) THEN "partial" ELSE "failed"

Satisfied(r, i) == device[Plan[r][i].dev] = Plan[r][i].want

\* The outcomes after the loop passed the satisfied steps from i up to j.
Passed(r, i, j, outcomes) ==
    [k \in Steps(r) |-> IF k \in i .. j - 1 THEN "satisfied" ELSE outcomes[k]]

PlanDone(r, outcomes, held) ==
    /\ results' = [results EXCEPT ![r] = outcomes]
    /\ End(r, IF \E k \in Steps(r) : outcomes[k] = "planned"
              THEN "scheduled" ELSE "completed", held)

\* A target that is unavailable right before its step ends the plan, and
\* nothing is compensated.
TargetGone(r, j, outcomes, held) ==
    /\ device[Plan[r][j].dev] = "gone"
    /\ results' = [results EXCEPT ![r] = [outcomes EXCEPT ![j] = "gone"]]
    /\ End(r, FailedStatus(VerifiedIn(r, outcomes), <<>>), held)

StartStep(r, j, outcomes, held) ==
    /\ device[Plan[r][j].dev] # "gone"
    /\ results' = [results EXCEPT ![r] = outcomes]
    /\ owners' = held
    /\ IF Plan[r][j].later
       THEN Go(r, "schedule") /\ UNCHANGED command
       ELSE Go(r, "call") /\ Send(Plan[r][j].dev, Plan[r][j].want)
    /\ UNCHANGED status

\* The loop goes on at step i: it passes the satisfied steps up to j.
\* outcomes are the step results so far and held the reservations.
Continue(r, i, outcomes, held) ==
    \E j \in i .. Len(Plan[r]) + 1 :
        LET now == Passed(r, i, j, outcomes)
        IN  /\ \A k \in i .. j - 1 : Satisfied(r, k)
            /\ at' = [at EXCEPT ![r] = j]
            /\ \/ j \notin Steps(r) /\ PlanDone(r, now, held)
               \/ j \in Steps(r) /\ ~ Satisfied(r, j) /\ TargetGone(r, j, now, held)
               \/ j \in Steps(r) /\ ~ Satisfied(r, j) /\ StartStep(r, j, now, held)

\* A slip: an irreversible step is taken back too.
CanUndo_AnyStep(r, i) == device[Plan[r][i].dev] # "gone"

\* The write path refuses a target without a reliable state, so such a step
\* is passed over like an irreversible one.
CanUndo(r, i) == Plan[r][i].back # "none" /\ device[Plan[r][i].dev] # "gone"

\* _compensate: the last of the remaining steps that can be taken back, taken
\* being the steps compensated so far.
Compensate(r, remaining, outcomes, taken) ==
    LET able == {i \in remaining : CanUndo(r, i)}
    IN  /\ results' = [results EXCEPT ![r] = outcomes]
        /\ undone' = [undone EXCEPT ![r] = taken]
        /\ \/ /\ able = {}
              /\ todo' = [todo EXCEPT ![r] = {}]
              /\ End(r, FailedStatus(VerifiedIn(r, outcomes), taken), owners)
           \/ \E i \in able :
                 /\ \A k \in able : k <= i
                 /\ todo' = [todo EXCEPT ![r] = {k \in remaining : k <= i}]
                 /\ Send(Plan[r][i].dev, Plan[r][i].back)
                 /\ Go(r, "undo")
                 /\ UNCHANGED <<owners, status>>

-----------------------------------------------------------------------------
(* The steps of a turn.                                                     *)

\* The answer "Ja" with every target free: acquire them all and start.
Acquire(r) ==
    /\ pc[r] = "idle" /\ Conflicts(r) = {}
    /\ Continue(r, 1, results[r], Reserved(r))
    /\ UNCHANGED <<device, todo, undone, pending, store, bounds>>

\* A conflict ends the turn: nothing is executed and nothing is recorded.
Refuse(r) ==
    /\ pc[r] = "idle" /\ Conflicts(r) # {}
    /\ Go(r, "done")
    /\ status' = [status EXCEPT ![r] = "conflict"]
    /\ UNCHANGED <<owners, devices, at, results, todo, undone, pending, store, bounds>>

\* A slip: the older expectation stays.
Register_Keeps(d, v) == pending' = pending \cup {[dev |-> d, expected |-> v]}

\* EffectMonitor.register: a new expectation replaces the one of the device.
Register(d, v) ==
    pending' = {e \in pending : e.dev # d} \cup {[dev |-> d, expected |-> v]}

\* Home Assistant accepted the call; its verification polls the state.
Accepted(r) ==
    /\ pc[r] = "call"
    /\ Register(Step(r).dev, Step(r).want)
    /\ Go(r, "verify")
    /\ UNCHANGED <<owners, devices, at, results, todo, undone, status, store, bounds>>

\* A slip: the step that was not accepted is compensated as well.
Rejected_Itself(r) ==
    /\ pc[r] = "call"
    /\ Compensate(r, VerifiedIn(r, results[r]) \cup {at[r]},
                  [results[r] EXCEPT ![at[r]] = "rejected"], undone[r])
    /\ UNCHANGED <<device, at, pending, store, bounds>>

\* The policy denied the step or the call raised: the verified steps before
\* it are compensated.  Its own command may have got through all the same.
Rejected(r) ==
    /\ pc[r] = "call"
    /\ Compensate(r, VerifiedIn(r, results[r]),
                  [results[r] EXCEPT ![at[r]] = "rejected"], undone[r])
    /\ UNCHANGED <<device, at, pending, store, bounds>>

Verified(r) ==
    /\ pc[r] = "verify"
    /\ device[Step(r).dev] = Step(r).want
    /\ Continue(r, at[r] + 1, [results[r] EXCEPT ![at[r]] = "verified"], owners)
    /\ UNCHANGED <<device, todo, undone, pending, store, bounds>>

\* The last poll before the deadline still misses the effect: the failed step
\* itself is compensated too.
NotObserved(r) ==
    /\ pc[r] = "verify"
    /\ device[Step(r).dev] # Step(r).want
    /\ Compensate(r, VerifiedIn(r, results[r]) \cup {at[r]},
                  [results[r] EXCEPT ![at[r]] = "missed"], undone[r])
    /\ UNCHANGED <<device, at, pending, store, bounds>>

\* The automation for a step of a later time was created.
Planned(r) ==
    /\ pc[r] = "schedule"
    /\ Continue(r, at[r] + 1, [results[r] EXCEPT ![at[r]] = "planned"], owners)
    /\ UNCHANGED <<device, todo, undone, pending, store, bounds>>

\* It was not: the plan ends without compensation.
NotPlanned(r) ==
    /\ pc[r] = "schedule"
    /\ results' = [results EXCEPT ![r][at[r]] = "rejected"]
    /\ End(r, FailedStatus(VerifiedIn(r, results[r]), <<>>), owners)
    /\ UNCHANGED <<device, at, todo, undone, pending, store, bounds>>

UndoAccepted(r) ==
    /\ pc[r] = "undo"
    /\ \E i \in todo[r] :
          /\ \A k \in todo[r] : k <= i
          /\ Register(Plan[r][i].dev, Plan[r][i].back)
          /\ Compensate(r, todo[r] \ {i}, results[r], Append(undone[r], i))
    /\ UNCHANGED <<device, at, store, bounds>>

UndoRejected(r) ==
    /\ pc[r] = "undo"
    /\ \E i \in todo[r] :
          /\ \A k \in todo[r] : k <= i
          /\ Compensate(r, todo[r] \ {i}, results[r], undone[r])
    /\ UNCHANGED <<device, at, pending, store, bounds>>

\* A slip: only a turn that returns gives its devices back.
Abort_Keeps(r) ==
    /\ pc[r] \in Running
    /\ status' = [status EXCEPT ![r] = "aborted"]
    /\ Go(r, "done")
    /\ UNCHANGED <<owners, devices, at, results, todo, undone, pending, store, bounds>>

\* The turn is cancelled at an await: the finally block still releases, and
\* no record is written.
Abort(r) ==
    /\ pc[r] \in Running
    /\ owners' = Released(r, owners)
    /\ status' = [status EXCEPT ![r] = "aborted"]
    /\ Go(r, "done")
    /\ UNCHANGED <<devices, at, results, todo, undone, pending, store, bounds>>

-----------------------------------------------------------------------------
(* GoalRunStore.async_append: read, replace and write under one lock.       *)

\* The file holds a run once, so this is the filter on the id.
Without(records, r) ==
    IF \E i \in 1 .. Len(records) : records[i].run = r
    THEN RemoveAt(records, CHOOSE i \in 1 .. Len(records) : records[i].run = r)
    ELSE records

Newest(records) == IF Len(records) > Limit THEN Tail(records) ELSE records

\* goal_run_from_plan_result keeps of the result what the file tells later.
RunOf(r) == [run |-> r, status |-> status[r]]

\* A slip: the file is read without the lock.
ReadRuns_Unlocked(r) ==
    /\ pc[r] = "append"
    /\ reader' = r
    /\ copy' = file
    /\ Go(r, "write")
    /\ UNCHANGED <<owners, devices, at, results, todo, undone, status, pending, file,
                   bounds>>

ReadRuns(r) ==
    /\ pc[r] = "append" /\ reader = NoRun
    /\ reader' = r
    /\ copy' = file
    /\ Go(r, "write")
    /\ UNCHANGED <<owners, devices, at, results, todo, undone, status, pending, file,
                   bounds>>

\* A slip: the lock is not given back.
WriteRuns_Holds(r) ==
    /\ pc[r] = "write"
    /\ file' = Newest(Append(copy, RunOf(r)))
    /\ copy' = <<>>
    /\ Go(r, "done")
    /\ UNCHANGED <<owners, devices, at, results, todo, undone, status, pending, reader,
                   bounds>>

WriteRuns(r) ==
    /\ pc[r] = "write"
    /\ file' = Newest(Append(Without(copy, r), RunOf(r)))
    /\ reader' = NoRun
    /\ copy' = <<>>
    /\ Go(r, "done")
    /\ UNCHANGED <<owners, devices, at, results, todo, undone, status, pending, bounds>>

-----------------------------------------------------------------------------
(* Devices and the effect monitor.                                          *)

\* A device takes the value it was told to take.
React(d) ==
    /\ command[d] # "none"
    /\ device' = [device EXCEPT ![d] = command[d]]
    /\ command' = [command EXCEPT ![d] = "none"]
    /\ UNCHANGED <<owners, pc, at, results, todo, undone, status, pending, store, bounds>>

\* A command that failed or went nowhere.
Lose(d) ==
    /\ command[d] # "none"
    /\ command' = [command EXCEPT ![d] = "none"]
    /\ UNCHANGED <<owners, device, pc, at, results, todo, undone, status, pending,
                   store, bounds>>

Foreign(d) ==
    /\ foreign < MaxForeign
    /\ \E v \in State \ {device[d]} : device' = [device EXCEPT ![d] = v]
    /\ foreign' = foreign + 1
    /\ UNCHANGED <<owners, command, pc, at, results, todo, undone, status, pending,
                   store, restarts>>

\* A state_changed event reaches EffectMonitor.observe while its expectation
\* waits.  The effect of a change that came before is never observed.
Observe(e) ==
    /\ e \in pending /\ device[e.dev] = e.expected
    /\ pending' = pending \ {e}
    /\ UNCHANGED <<owners, devices, pc, at, results, todo, undone, status, store, bounds>>

\* The deadline of an effect nobody observed: it is reported once.
Expire(e) ==
    /\ e \in pending
    /\ pending' = pending \ {e}
    /\ UNCHANGED <<owners, devices, pc, at, results, todo, undone, status, store, bounds>>

\* Home Assistant restarts: everything but the file was memory.
Restart ==
    /\ restarts < MaxRestarts
    /\ restarts' = restarts + 1
    /\ owners' = [d \in Device |-> NoRun]
    /\ pc' = [r \in Run |-> IF pc[r] = "idle" THEN "idle" ELSE "done"]
    /\ status' = [r \in Run |-> IF pc[r] \in {"idle", "done"} THEN status[r]
                                ELSE "aborted"]
    /\ pending' = {}
    /\ reader' = NoRun
    /\ copy' = <<>>
    /\ UNCHANGED <<devices, at, results, todo, undone, file, foreign>>

-----------------------------------------------------------------------------
Answer(r) == Acquire(r) \/ Refuse(r)
Work(r) ==
    \/ Accepted(r) \/ Rejected(r) \/ Verified(r) \/ NotObserved(r)
    \/ Planned(r) \/ NotPlanned(r) \/ UndoAccepted(r) \/ UndoRejected(r)
Record(r) == ReadRuns(r) \/ WriteRuns(r)
World ==
    \/ \E d \in Device : React(d) \/ Lose(d) \/ Foreign(d)
    \/ \E e \in pending : Observe(e) \/ Expire(e)

Next ==
    \/ \E r \in Run : Answer(r) \/ Work(r) \/ Abort(r) \/ Record(r)
    \/ World \/ Restart

Spec == Init /\ [][Next]_vars

\* A turn once started goes on: calls return or raise, a verification has a
\* deadline, and the threads finish their file accesses.
Fairness == \A r \in Run : WF_vars(Work(r) \/ Record(r))

FairSpec == Spec /\ Fairness

-----------------------------------------------------------------------------
(* Properties.                                                              *)

\* Every variable has its type.
TypeOK ==
    /\ owners \in [Device -> Run \cup {NoRun}]
    /\ device \in [Device -> State]
    /\ command \in [Device -> Value \cup {"none"}]
    /\ pc \in [Run -> Place]
    /\ at \in [Run -> Nat]
    /\ results \in [Run -> Seq(StepResult)]
    /\ \A r \in Run : Len(results[r]) = Len(Plan[r])
    /\ todo \in [Run -> SUBSET Nat]
    /\ undone \in [Run -> Seq(Nat)]
    /\ status \in [Run -> PlanStatus]
    /\ pending \subseteq [dev : Device, expected : Value]
    /\ file \in Seq(RunRecord)
    /\ reader \in Run \cup {NoRun}
    /\ copy \in Seq(RunRecord)
    /\ foreign \in Nat
    /\ restarts \in Nat

\* A run holds all the devices of its plan as long as it may touch one of
\* them, and none before or after, however it ends: completed, failed,
\* cancelled in the middle of a call, or cut off by a restart
\* (async_acquire, async_release in the finally block).
ReservationExact ==
    \A r \in Run :
        {d \in Device : owners[d] = r} = IF pc[r] \in Running THEN Targets(r) ELSE {}

\* What the user is told after a plan is so: a completed plan has every step
\* verified or satisfied, a scheduled one at least one automation and nothing
\* else open, a partial one leaves a verified step standing ("Mindestens ein
\* frueherer Schritt ist verifiziert, aber ein weiterer Schritt ist
\* fehlgeschlagen") although _failed_status compares mere counts, and a
\* failed one did not reach its goal.
ResultIsTruthful ==
    \A r \in Run :
        LET good == Having(r, {"verified", "satisfied", "planned"})
        IN  /\ status[r] \in {"completed", "scheduled"} =>
                  good = Steps(r) /\ undone[r] = <<>>
            /\ status[r] = "completed" => Having(r, {"planned"}) = {}
            /\ status[r] = "scheduled" => Having(r, {"planned"}) # {}
            /\ status[r] \in {"partial", "failed"} => good # Steps(r)
            /\ status[r] = "partial" =>
                  ~ (Having(r, {"verified"}) \subseteq ToSet(undone[r]))

\* Only what the run did is taken back, backwards and at most once.
ReverseOrder ==
    \A r \in Run :
        /\ ToSet(undone[r]) \subseteq Having(r, {"verified", "missed"})
        /\ \A i, j \in 1 .. Len(undone[r]) : i < j => undone[r][i] > undone[r][j]

\* Runs that end together lose no record of each other: the file holds the
\* result of every run that ended, once, up to its limit (async_append's lock).
RunsKept ==
    LET ended == {r \in Run : pc[r] = "done" /\ status[r] \in Ended}
    IN  /\ Len(file) = IF Cardinality(ended) > Limit THEN Limit
                       ELSE Cardinality(ended)
        /\ \A i \in 1 .. Len(file) :
              file[i].run \in ended /\ file[i].status = status[file[i].run]
        /\ \A i, j \in 1 .. Len(file) : file[i].run = file[j].run => i = j

\* While a run verifies a step, the effect monitor waits for nothing else of
\* that device: the deadline of an earlier step, of its compensation or of
\* another goal cannot report an anomaly of a device that obeys this one.
NoStaleExpectation ==
    \A r \in Run : \A e \in pending :
        pc[r] = "verify" /\ e.dev = Step(r).dev => e.expected = Step(r).want

\* A device is told something only by the run that holds it.
WritesAreOwned ==
    [][\A d \in Device :
          command'[d] \notin {"none", command[d]} =>
              \E r \in Run :
                  /\ owners'[d] = r
                  /\ pc'[r] \in {"call", "undo"}
                  /\ <<pc[r], at[r], todo[r]>> # <<pc'[r], at'[r], todo'[r]>>]_vars

\* Taken together, the reservations of the runs are those of the abstract
\* manager: all at once, exclusive, given back together.
Reservations == INSTANCE TargetReservations WITH holder <- owners
KeepsReservations == Reservations!Spec

\* Every turn that started ends: nobody waits for a device, so runs that want
\* each other's devices cannot block each other, and nobody waits forever for
\* the lock of the file.
RunEnds == \A r \in Run : pc[r] # "idle" ~> pc[r] = "done"
=============================================================================
