------------------------ MODULE GoalExecutionProofs ------------------------
(* Theorems about GoalExecution, for every set of runs, devices and plans   *)
(* and every bound: the types of its state, that reservations are exact and *)
(* exclusive however a run ends, that no device is told anything by a run   *)
(* that does not hold it, and that the coordinator implements the abstract  *)
(* reservation manager.                                                     *)
EXTENDS GoalExecution, TLAPS

-----------------------------------------------------------------------------
(* The inductive invariant.                                                 *)

\* Where a run stands says what it works on: a step of its plan, or steps to
\* take back of which the last one can be; and a run that comes to its record
\* has a result.
AtWork ==
    \A r \in Run :
        /\ pc[r] \in {"call", "verify", "schedule"} => at[r] \in Steps(r)
        /\ pc[r] = "undo" =>
              /\ todo[r] \subseteq Steps(r)
              /\ \A i \in todo[r] :
                    (\A k \in todo[r] : k <= i) => Plan[r][i].back # "none"
        /\ pc[r] \in {"append", "write"} => status[r] \in Ended
        /\ undone[r] \in Seq(Nat)

IInv == TypeOK /\ ReservationExact /\ AtWork

LEMMA PlanType ==
    ASSUME NEW r \in Run, NEW i \in Steps(r)
    PROVE  /\ Plan[r] \in Seq(PlanStep) /\ Len(Plan[r]) \in Nat /\ i \in Nat
           /\ Plan[r][i] \in PlanStep
           /\ Plan[r][i].dev \in Device /\ Plan[r][i].dev \in Targets(r)
           /\ Plan[r][i].want \in Value
           /\ Plan[r][i].back \in Value \cup {"none"}
<1>1. Plan[r] \in Seq(PlanStep) /\ Len(Plan[r]) \in Nat
  BY PlanAssumption
<1>2. Plan[r][i] \in PlanStep /\ i \in Nat
  BY <1>1 DEF Steps
<1> QED
  BY <1>1, <1>2 DEF PlanStep, Targets

LEMMA TargetsAreDevices ==
    ASSUME NEW r \in Run
    PROVE  Targets(r) \subseteq Device
BY PlanType DEF Targets

-----------------------------------------------------------------------------
(* What a turn may do with the reservations.                                *)

\* The owners that count while r goes on: its own reservation and whatever the
\* other runs hold.
Holding(r, held) ==
    /\ held \in [Device -> Run \cup {NoRun}]
    /\ {d \in Device : held[d] = r} = Targets(r)
    /\ \A q \in Run \ {r} : {d \in Device : held[d] = q} = {d \in Device : owners[d] = q}

LEMMA ReservedHolds ==
    ASSUME IInv, NEW r \in Run, pc[r] = "idle", Conflicts(r) = {}
    PROVE  Holding(r, Reserved(r))
<1>1. \A d \in Targets(r) : owners[d] \in {NoRun, r}
  BY DEF Conflicts, Targets
<1>2. {d \in Device : owners[d] = r} = {}
  BY DEF IInv, ReservationExact, Running
<1> QED
  BY <1>1, <1>2, TargetsAreDevices, OwnerAssumption DEF Holding, Reserved, IInv, TypeOK

LEMMA OwnersHold ==
    ASSUME IInv, NEW r \in Run, pc[r] \in Running
    PROVE  Holding(r, owners)
BY DEF IInv, ReservationExact, TypeOK, Holding

\* A run goes on with the devices it holds, or gives them back and ends, or
\* neither holds nor takes any.
Reserving(r, held, to) ==
    \/ Holding(r, held) /\ to \in Running /\ owners' = held
    \/ Holding(r, held) /\ to \notin Running /\ owners' = Released(r, held)
    \/ pc[r] \notin Running /\ to \notin Running /\ UNCHANGED owners

LEMMA ReservationsKept ==
    ASSUME IInv, NEW r \in Run, NEW held, NEW to \in Place,
           pc' = [pc EXCEPT ![r] = to], Reserving(r, held, to)
    PROVE  ReservationExact' /\ owners' \in [Device -> Run \cup {NoRun}]
<1>1. pc \in [Run -> Place] /\ r # NoRun
  BY OwnerAssumption DEF IInv, TypeOK
<1>2. \A q \in Run \ {r} : pc'[q] = pc[q]
  BY <1>1
<1>3. pc'[r] = to
  BY <1>1
<1>4. owners' \in [Device -> Run \cup {NoRun}]
  BY DEF Holding, Released, Reserving, IInv, TypeOK
<1>5. {d \in Device : owners'[d] = r} = IF to \in Running THEN Targets(r) ELSE {}
  <2>1. CASE pc[r] \notin Running /\ to \notin Running /\ UNCHANGED owners
    BY <2>1 DEF IInv, ReservationExact
  <2> QED
    BY <1>1, <2>1 DEF Holding, Released, Reserving
<1>6. \A q \in Run \ {r} : {d \in Device : owners'[d] = q} = {d \in Device : owners[d] = q}
  BY OwnerAssumption DEF Holding, Released, Reserving
<1>7. \A q \in Run \ {r} : {d \in Device : owners'[d] = q}
                           = IF pc'[q] \in Running THEN Targets(q) ELSE {}
  BY <1>2, <1>6 DEF IInv, ReservationExact
<1> QED
  BY <1>3, <1>4, <1>5, <1>7 DEF ReservationExact, Targets, Steps

-----------------------------------------------------------------------------
(* How the pieces of an action move a run.                                  *)

\* A list of step results of the plan of r.
Outcomes(r) == {o \in Seq(StepResult) : Len(o) = Len(Plan[r])}

\* What AtWork says of one run, for the values it takes.
AtWorkWith(r, place, index, left, taken, result) ==
    /\ place \in {"call", "verify", "schedule"} => index \in Steps(r)
    /\ place = "undo" =>
          /\ left \subseteq Steps(r)
          /\ \A i \in left : (\A k \in left : k <= i) => Plan[r][i].back # "none"
    /\ place \in {"append", "write"} => result \in Ended
    /\ taken \in Seq(Nat)

\* Run r goes to a place with new values; the other runs stay as they are.
Move(r, held, to, index, out, left, taken, result) ==
    /\ to \in Place /\ Reserving(r, held, to)
    /\ index \in Nat /\ out \in Outcomes(r) /\ left \in SUBSET Nat
    /\ taken \in Seq(Nat) /\ result \in PlanStatus
    /\ AtWorkWith(r, to, index, left, taken, result)
    /\ pc' = [pc EXCEPT ![r] = to]
    /\ at' = [at EXCEPT ![r] = index]
    /\ results' = [results EXCEPT ![r] = out]
    /\ todo' = [todo EXCEPT ![r] = left]
    /\ undone' = [undone EXCEPT ![r] = taken]
    /\ status' = [status EXCEPT ![r] = result]

\* What a step of a run does to the devices and the stores.
Surroundings ==
    /\ command' \in [Device -> Value \cup {"none"}]
    /\ pending' \subseteq [dev : Device, expected : Value]
    /\ UNCHANGED <<device, bounds>>
    /\ file' \in Seq(RunRecord) /\ copy' \in Seq(RunRecord)
    /\ reader' \in Run \cup {NoRun}

LEMMA MoveKeeps ==
    ASSUME IInv, NEW r \in Run, NEW held, NEW to, NEW index, NEW out, NEW left,
           NEW taken, NEW result, Move(r, held, to, index, out, left, taken, result),
           Surroundings
    PROVE  IInv'
<1> USE DEF Move, Surroundings
<1>1. TypeOK
  BY DEF IInv
<1>2. ReservationExact' /\ owners' \in [Device -> Run \cup {NoRun}]
  BY ReservationsKept
<1>3. /\ pc' \in [Run -> Place] /\ at' \in [Run -> Nat]
      /\ results' \in [Run -> Seq(StepResult)]
      /\ \A q \in Run : Len(results'[q]) = Len(Plan[q])
      /\ todo' \in [Run -> SUBSET Nat] /\ undone' \in [Run -> Seq(Nat)]
      /\ status' \in [Run -> PlanStatus]
  BY <1>1 DEF TypeOK, Outcomes
<1>4. TypeOK'
  BY <1>1, <1>2, <1>3 DEF TypeOK, bounds, Steps
<1>5. AtWork'
  <2> SUFFICES ASSUME NEW q \in Run
               PROVE  AtWorkWith(q, pc'[q], at'[q], todo'[q], undone'[q], status'[q])
    BY DEF AtWork, AtWorkWith, Steps
  <2>1. CASE q = r
    BY <1>1, <2>1 DEF TypeOK
  <2>2. CASE q # r
    <3>1. /\ pc'[q] = pc[q] /\ at'[q] = at[q] /\ todo'[q] = todo[q]
          /\ undone'[q] = undone[q] /\ status'[q] = status[q]
      BY <1>1, <2>2 DEF TypeOK
    <3> QED
      BY <3>1 DEF IInv, AtWork, AtWorkWith
  <2> QED
    BY <2>1, <2>2
<1> QED
  BY <1>2, <1>4, <1>5 DEF IInv

\* The values a run has already.
LEMMA Values ==
    ASSUME IInv, NEW r \in Run
    PROVE  /\ at[r] \in Nat /\ results[r] \in Outcomes(r) /\ todo[r] \in SUBSET Nat
           /\ undone[r] \in Seq(Nat) /\ status[r] \in PlanStatus /\ pc[r] \in Place
           /\ at = [at EXCEPT ![r] = at[r]]
           /\ results = [results EXCEPT ![r] = results[r]]
           /\ todo = [todo EXCEPT ![r] = todo[r]]
           /\ undone = [undone EXCEPT ![r] = undone[r]]
           /\ status = [status EXCEPT ![r] = status[r]]
BY DEF IInv, TypeOK, Outcomes

LEMMA OutcomeChanges ==
    ASSUME IInv, NEW r \in Run, NEW o \in Outcomes(r)
    PROVE  /\ \A i \in Nat, x \in StepResult : [o EXCEPT ![i] = x] \in Outcomes(r)
           /\ \A i \in Nat, j \in Nat : Passed(r, i, j, o) \in Outcomes(r)
<1>1. Plan[r] \in Seq(PlanStep) /\ o \in Seq(StepResult) /\ Len(o) = Len(Plan[r])
  BY PlanAssumption DEF Outcomes
<1>2. ASSUME NEW i \in Nat, NEW x \in StepResult
      PROVE  [o EXCEPT ![i] = x] \in Outcomes(r)
  <2> DEFINE changed == [o EXCEPT ![i] = x]
  <2>0. o \in [1 .. Len(Plan[r]) -> StepResult]
    BY <1>1
  <2>1. changed \in [1 .. Len(Plan[r]) -> StepResult]
    BY <2>0
  <2> HIDE DEF changed
  <2>2. changed \in Seq(StepResult) /\ Len(changed) = Len(Plan[r])
    BY <1>1, <2>1
  <2>3. changed \in Outcomes(r)
    BY <2>2 DEF Outcomes
  <2> QED
    BY <2>3 DEF changed
<1>3. ASSUME NEW i \in Nat, NEW j \in Nat
      PROVE  Passed(r, i, j, o) \in Outcomes(r)
  <2>1. \A k \in 1 .. Len(Plan[r]) :
           (IF k \in i .. j - 1 THEN "satisfied" ELSE o[k]) \in StepResult
    BY <1>1 DEF StepResult
  <2>2. Passed(r, i, j, o) \in [1 .. Len(Plan[r]) -> StepResult]
    BY <2>1 DEF Passed, Steps
  <2> QED
    BY <1>1, <2>2 DEF Outcomes
<1> QED
  BY <1>2, <1>3

\* A device is told a value, or nothing changes.
LEMMA Commands ==
    ASSUME IInv, NEW r \in Run, NEW i \in Steps(r)
    PROVE  /\ command \in [Device -> Value \cup {"none"}]
           /\ Send(Plan[r][i].dev, Plan[r][i].want) =>
                 command' \in [Device -> Value \cup {"none"}]
           /\ Send(Plan[r][i].dev, Plan[r][i].back) =>
                 command' \in [Device -> Value \cup {"none"}]
BY PlanType DEF IInv, TypeOK, Send

\* One round of the loop keeps the invariant.
LEMMA ContinueKeeps ==
    ASSUME IInv, NEW r \in Run, NEW i \in Nat, NEW outcomes \in Outcomes(r),
           NEW held, Holding(r, held), Continue(r, i, outcomes, held),
           i > 0,
           UNCHANGED <<device, todo, undone, pending, store, bounds>>
    PROVE  IInv'
<1>1. PICK j \in i .. Len(Plan[r]) + 1 :
         /\ at' = [at EXCEPT ![r] = j]
         /\ \/ j \notin Steps(r) /\ PlanDone(r, Passed(r, i, j, outcomes), held)
            \/ j \in Steps(r) /\ TargetGone(r, j, Passed(r, i, j, outcomes), held)
            \/ j \in Steps(r) /\ StartStep(r, j, Passed(r, i, j, outcomes), held)
  BY DEF Continue
<1>2. Plan[r] \in Seq(PlanStep) /\ j \in Nat
  BY PlanAssumption
<1> DEFINE now == Passed(r, i, j, outcomes)
<1>3. now \in Outcomes(r) /\ [now EXCEPT ![j] = "gone"] \in Outcomes(r)
  BY <1>2, OutcomeChanges DEF StepResult
<1>4. /\ todo' = [todo EXCEPT ![r] = todo[r]] /\ undone' = [undone EXCEPT ![r] = undone[r]]
      /\ command' \in [Device -> Value \cup {"none"}] => Surroundings
  BY Values DEF IInv, TypeOK, store, Surroundings
<1> HIDE DEF now
<1>5. CASE PlanDone(r, now, held)
  <2>1. PICK result \in Ended :
           /\ status' = [status EXCEPT ![r] = result] /\ owners' = Released(r, held)
           /\ pc' = [pc EXCEPT ![r] = "append"] /\ command' = command
           /\ results' = [results EXCEPT ![r] = now]
    BY <1>5 DEF PlanDone, End, Go, Ended
  <2>2. AtWorkWith(r, "append", j, todo[r], undone[r], result)
    BY Values DEF AtWorkWith
  <2>3. "append" \in Place /\ "append" \notin Running /\ result \in PlanStatus
    BY DEF Ended, PlanStatus, Place, Running
  <2>4. command' \in [Device -> Value \cup {"none"}]
    BY <2>1 DEF IInv, TypeOK
  <2>5. todo[r] \in SUBSET Nat /\ undone[r] \in Seq(Nat)
    BY Values
  <2>6. Move(r, held, "append", j, now, todo[r], undone[r], result)
    BY <1>1, <1>2, <1>3, <1>4, <2>1, <2>2, <2>3, <2>5 DEF Move, Reserving
  <2> QED
    BY <1>4, <2>4, <2>6, MoveKeeps
<1>6. CASE j \in Steps(r) /\ TargetGone(r, j, now, held)
  <2>1. PICK result \in Ended :
           /\ status' = [status EXCEPT ![r] = result] /\ owners' = Released(r, held)
           /\ pc' = [pc EXCEPT ![r] = "append"] /\ command' = command
           /\ results' = [results EXCEPT ![r] = [now EXCEPT ![j] = "gone"]]
    BY <1>6 DEF TargetGone, End, Go, Ended, FailedStatus
  <2>2. AtWorkWith(r, "append", j, todo[r], undone[r], result)
    BY Values DEF AtWorkWith
  <2>3. "append" \in Place /\ "append" \notin Running /\ result \in PlanStatus
    BY DEF Ended, PlanStatus, Place, Running
  <2>4. command' \in [Device -> Value \cup {"none"}]
    BY <2>1 DEF IInv, TypeOK
  <2>5. todo[r] \in SUBSET Nat /\ undone[r] \in Seq(Nat)
    BY Values
  <2>6. Move(r, held, "append", j, [now EXCEPT ![j] = "gone"], todo[r], undone[r], result)
    BY <1>1, <1>2, <1>3, <1>4, <2>1, <2>2, <2>3, <2>5 DEF Move, Reserving
  <2> QED
    BY <1>4, <2>4, <2>6, MoveKeeps
<1>7. CASE j \in Steps(r) /\ StartStep(r, j, now, held)
  <2>1. PICK to \in {"schedule", "call"} : pc' = [pc EXCEPT ![r] = to]
    BY <1>7 DEF StartStep, Go
  <2>2. /\ status' = [status EXCEPT ![r] = status[r]] /\ owners' = held
        /\ results' = [results EXCEPT ![r] = now]
        /\ command' \in [Device -> Value \cup {"none"}]
    BY <1>7, Values, Commands DEF StartStep
  <2>3. AtWorkWith(r, to, j, todo[r], undone[r], status[r])
    BY <1>7, Values DEF AtWorkWith
  <2>4. to \in Place /\ to \in Running
    BY DEF Place, Running
  <2>5. todo[r] \in SUBSET Nat /\ undone[r] \in Seq(Nat) /\ status[r] \in PlanStatus
    BY Values
  <2>6. Move(r, held, to, j, now, todo[r], undone[r], status[r])
    BY <1>1, <1>2, <1>3, <1>4, <2>1, <2>2, <2>3, <2>4, <2>5 DEF Move, Reserving
  <2> QED
    BY <1>4, <2>2, <2>6, MoveKeeps
<1> QED
  BY <1>1, <1>5, <1>6, <1>7 DEF now

\* One round of _compensate keeps the invariant.
LEMMA CompensateKeeps ==
    ASSUME IInv, NEW r \in Run, pc[r] \in Running,
           NEW remaining \in SUBSET Steps(r), NEW outcomes \in Outcomes(r),
           NEW taken \in Seq(Nat), Compensate(r, remaining, outcomes, taken),
           pending' \subseteq [dev : Device, expected : Value],
           UNCHANGED <<device, at, store, bounds>>
    PROVE  IInv'
<1>1. /\ Holding(r, owners) /\ at' = [at EXCEPT ![r] = at[r]] /\ at[r] \in Nat
      /\ command' \in [Device -> Value \cup {"none"}] => Surroundings
      /\ results' = [results EXCEPT ![r] = outcomes]
      /\ undone' = [undone EXCEPT ![r] = taken]
  BY Values, OwnersHold DEF IInv, TypeOK, store, Surroundings, Compensate
<1>2. Steps(r) \subseteq Nat
  BY PlanAssumption DEF Steps
<1> DEFINE able == {i \in remaining : CanUndo(r, i)}
<1>3. CASE /\ todo' = [todo EXCEPT ![r] = {}]
           /\ End(r, FailedStatus(VerifiedIn(r, outcomes), taken), owners)
  <2>1. PICK result \in Ended :
           /\ status' = [status EXCEPT ![r] = result] /\ owners' = Released(r, owners)
           /\ pc' = [pc EXCEPT ![r] = "append"] /\ command' = command
    BY <1>3 DEF End, Go, Ended, FailedStatus
  <2>2. AtWorkWith(r, "append", at[r], {}, taken, result)
    BY DEF AtWorkWith
  <2>3. "append" \in Place /\ "append" \notin Running /\ result \in PlanStatus
    BY DEF Ended, PlanStatus, Place, Running
  <2>4. command' \in [Device -> Value \cup {"none"}]
    BY <2>1 DEF IInv, TypeOK
  <2>5. Move(r, owners, "append", at[r], outcomes, {}, taken, result)
    BY <1>1, <1>3, <2>1, <2>2, <2>3 DEF Move, Reserving
  <2> QED
    BY <1>1, <2>4, <2>5, MoveKeeps
<1>4. ASSUME NEW i \in able, \A k \in able : k <= i,
             todo' = [todo EXCEPT ![r] = {k \in remaining : k <= i}],
             Send(Plan[r][i].dev, Plan[r][i].back), Go(r, "undo"),
             UNCHANGED <<owners, status>>
      PROVE  IInv'
  <2> DEFINE left == {k \in remaining : k <= i}
  <2>1. i \in Steps(r) /\ i \in left /\ left \subseteq Steps(r) /\ i \in Nat
        /\ Plan[r][i].back # "none"
    BY <1>2 DEF CanUndo
  <2>2. \A k \in left : (\A l \in left : l <= k) => k = i
    BY <1>2, <2>1
  <2>3. AtWorkWith(r, "undo", at[r], left, taken, status[r])
    BY <2>1, <2>2 DEF AtWorkWith
  <2>4. command' \in [Device -> Value \cup {"none"}]
    BY <1>4, <2>1, Commands
  <2>5. /\ pc' = [pc EXCEPT ![r] = "undo"] /\ owners' = owners
        /\ status' = [status EXCEPT ![r] = status[r]] /\ status[r] \in PlanStatus
        /\ todo' = [todo EXCEPT ![r] = left] /\ left \in SUBSET Nat
        /\ "undo" \in Place /\ "undo" \in Running
    BY <1>2, <1>4, Values DEF Go, Place, Running
  <2> HIDE DEF left
  <2>6. Move(r, owners, "undo", at[r], outcomes, left, taken, status[r])
    BY <1>1, <2>3, <2>5 DEF Move, Reserving
  <2> QED
    BY <1>1, <2>4, <2>6, MoveKeeps
<1> QED
  BY <1>3, <1>4 DEF Compensate

\* A new expectation has its type.
LEMMA RegisterType ==
    ASSUME IInv, NEW d \in Device, NEW v \in Value, Register(d, v)
    PROVE  pending' \subseteq [dev : Device, expected : Value]
BY DEF IInv, TypeOK, Register

\* A move of r that leaves everything but pc, the results and the status alone.
LEMMA PlainMove ==
    ASSUME IInv, NEW r \in Run, NEW to \in Place, NEW out \in Outcomes(r),
           NEW result \in PlanStatus,
           pc' = [pc EXCEPT ![r] = to], results' = [results EXCEPT ![r] = out],
           status' = [status EXCEPT ![r] = result],
           Reserving(r, owners, to),
           AtWorkWith(r, to, at[r], todo[r], undone[r], result),
           Surroundings, UNCHANGED <<at, todo, undone>>
    PROVE  IInv'
<1>1. Move(r, owners, to, at[r], out, todo[r], undone[r], result)
  BY Values DEF Move
<1> QED
  BY <1>1, MoveKeeps

-----------------------------------------------------------------------------
(* Every action keeps the invariant.                                        *)

LEMMA AcquireKeeps ==
    ASSUME IInv, NEW r \in Run, Acquire(r)
    PROVE  IInv'
<1>1. Holding(r, Reserved(r)) /\ results[r] \in Outcomes(r)
  BY ReservedHolds, Values DEF Acquire
<1>2. /\ Continue(r, 1, results[r], Reserved(r)) /\ 1 \in Nat /\ 1 > 0
      /\ UNCHANGED <<device, todo, undone, pending, store, bounds>>
  BY DEF Acquire
<1> QED
  BY <1>1, <1>2, ContinueKeeps

LEMMA RefuseKeeps ==
    ASSUME IInv, NEW r \in Run, Refuse(r)
    PROVE  IInv'
<1>1. Reserving(r, owners, "done") /\ "done" \in Place /\ "conflict" \in PlanStatus
  BY DEF Refuse, Reserving, Running, Place, PlanStatus
<1>2. AtWorkWith(r, "done", at[r], todo[r], undone[r], "conflict")
  BY Values DEF AtWorkWith
<1>3. Surroundings
  BY DEF Refuse, Surroundings, devices, store, IInv, TypeOK
<1> QED
  BY <1>1, <1>2, <1>3, PlainMove, Values DEF Refuse, Go

LEMMA AtStep ==
    ASSUME IInv, NEW r \in Run, pc[r] \in {"call", "verify", "schedule"}
    PROVE  /\ at[r] \in Steps(r) /\ at[r] \in Nat /\ at[r] + 1 \in Nat /\ at[r] + 1 > 0
           /\ Step(r).dev \in Device /\ Step(r).want \in Value
           /\ \A x \in StepResult : [results[r] EXCEPT ![at[r]] = x] \in Outcomes(r)
           /\ VerifiedIn(r, results[r]) \cup {at[r]} \in SUBSET Steps(r)
           /\ VerifiedIn(r, results[r]) \in SUBSET Steps(r)
           /\ Holding(r, owners) /\ pc[r] \in Running
<1>1. at[r] \in Steps(r) /\ at[r] \in Nat
  BY PlanAssumption DEF IInv, AtWork, Steps
<1>2. \A x \in StepResult : [results[r] EXCEPT ![at[r]] = x] \in Outcomes(r)
  BY <1>1, Values, OutcomeChanges
<1> QED
  BY <1>1, <1>2, PlanType, OwnersHold DEF Step, VerifiedIn, Running

LEMMA AcceptedKeeps ==
    ASSUME IInv, NEW r \in Run, Accepted(r)
    PROVE  IInv'
<1>1. Reserving(r, owners, "verify") /\ "verify" \in Place
  BY AtStep DEF Accepted, Reserving, Running, Place
<1>2. AtWorkWith(r, "verify", at[r], todo[r], undone[r], status[r])
  BY AtStep, Values DEF Accepted, AtWorkWith
<1>3. Surroundings
  BY AtStep, RegisterType DEF Accepted, Surroundings, devices, store, IInv, TypeOK
<1>4. /\ pc' = [pc EXCEPT ![r] = "verify"] /\ UNCHANGED <<at, todo, undone>>
      /\ results' = [results EXCEPT ![r] = results[r]] /\ results[r] \in Outcomes(r)
      /\ status' = [status EXCEPT ![r] = status[r]] /\ status[r] \in PlanStatus
  BY Values DEF Accepted, Go
<1> QED
  BY <1>1, <1>2, <1>3, <1>4, PlainMove

LEMMA RejectedKeeps ==
    ASSUME IInv, NEW r \in Run, Rejected(r)
    PROVE  IInv'
<1>1. pending' \subseteq [dev : Device, expected : Value]
  BY DEF Rejected, IInv, TypeOK
<1>2. [results[r] EXCEPT ![at[r]] = "rejected"] \in Outcomes(r)
  BY AtStep DEF Rejected, StepResult
<1> QED
  BY <1>1, <1>2, AtStep, Values, CompensateKeeps DEF Rejected

LEMMA VerifiedKeeps ==
    ASSUME IInv, NEW r \in Run, Verified(r)
    PROVE  IInv'
<1>1. [results[r] EXCEPT ![at[r]] = "verified"] \in Outcomes(r)
  BY AtStep DEF Verified, StepResult
<1> QED
  BY <1>1, AtStep, ContinueKeeps DEF Verified

LEMMA NotObservedKeeps ==
    ASSUME IInv, NEW r \in Run, NotObserved(r)
    PROVE  IInv'
<1>1. pending' \subseteq [dev : Device, expected : Value]
  BY DEF NotObserved, IInv, TypeOK
<1>2. [results[r] EXCEPT ![at[r]] = "missed"] \in Outcomes(r)
  BY AtStep DEF NotObserved, StepResult
<1> QED
  BY <1>1, <1>2, AtStep, Values, CompensateKeeps DEF NotObserved

LEMMA PlannedKeeps ==
    ASSUME IInv, NEW r \in Run, Planned(r)
    PROVE  IInv'
<1>1. [results[r] EXCEPT ![at[r]] = "planned"] \in Outcomes(r)
  BY AtStep DEF Planned, StepResult
<1> QED
  BY <1>1, AtStep, ContinueKeeps DEF Planned

LEMMA NotPlannedKeeps ==
    ASSUME IInv, NEW r \in Run, NotPlanned(r)
    PROVE  IInv'
<1>1. [results[r] EXCEPT ![at[r]] = "rejected"] \in Outcomes(r)
  BY AtStep DEF NotPlanned, StepResult
<1>2. PICK result \in Ended :
         /\ status' = [status EXCEPT ![r] = result] /\ owners' = Released(r, owners)
         /\ pc' = [pc EXCEPT ![r] = "append"] /\ command' = command
         /\ results' = [results EXCEPT ![r] = [results[r] EXCEPT ![at[r]] = "rejected"]]
  BY DEF NotPlanned, End, Go, Ended, FailedStatus
<1>3. Reserving(r, owners, "append") /\ "append" \in Place /\ result \in PlanStatus
  BY <1>2, AtStep DEF NotPlanned, Reserving, Running, Place, Ended, PlanStatus
<1>4. AtWorkWith(r, "append", at[r], todo[r], undone[r], result)
  BY Values DEF AtWorkWith
<1>5. Surroundings
  BY <1>2 DEF NotPlanned, Surroundings, devices, store, IInv, TypeOK
<1> QED
  BY <1>1, <1>2, <1>3, <1>4, <1>5, PlainMove DEF NotPlanned

LEMMA UndoKeeps ==
    ASSUME IInv, NEW r \in Run, UndoAccepted(r) \/ UndoRejected(r)
    PROVE  IInv'
<1>1. pc[r] = "undo" /\ pc[r] \in Running
  BY DEF UndoAccepted, UndoRejected, Running
<1>2. /\ todo[r] \subseteq Steps(r) /\ Steps(r) \subseteq Nat
      /\ \A i \in todo[r] : (\A k \in todo[r] : k <= i) => Plan[r][i].back # "none"
  BY <1>1, PlanAssumption DEF IInv, AtWork, Steps
<1>3. CASE UndoAccepted(r)
  <2>1. PICK i \in todo[r] :
           /\ \A k \in todo[r] : k <= i
           /\ Register(Plan[r][i].dev, Plan[r][i].back)
           /\ Compensate(r, todo[r] \ {i}, results[r], Append(undone[r], i))
    BY <1>3 DEF UndoAccepted
  <2>2. pending' \subseteq [dev : Device, expected : Value]
    BY <1>2, <2>1, PlanType, RegisterType
  <2>3. todo[r] \ {i} \in SUBSET Steps(r) /\ Append(undone[r], i) \in Seq(Nat)
    BY <1>2, <2>1, Values
  <2> QED
    BY <1>1, <1>3, <2>1, <2>2, <2>3, Values, CompensateKeeps DEF UndoAccepted
<1>4. CASE UndoRejected(r)
  <2>1. PICK i \in todo[r] : Compensate(r, todo[r] \ {i}, results[r], undone[r])
    BY <1>4 DEF UndoRejected
  <2>2. pending' \subseteq [dev : Device, expected : Value]
    BY <1>4 DEF UndoRejected, IInv, TypeOK
  <2>3. todo[r] \ {i} \in SUBSET Steps(r)
    BY <1>2
  <2> QED
    BY <1>1, <1>4, <2>1, <2>2, <2>3, Values, CompensateKeeps DEF UndoRejected
<1> QED
  BY <1>3, <1>4

LEMMA AbortKeeps ==
    ASSUME IInv, NEW r \in Run, Abort(r)
    PROVE  IInv'
<1>1. Reserving(r, owners, "done") /\ "done" \in Place /\ "aborted" \in PlanStatus
  BY OwnersHold DEF Abort, Reserving, Running, Place, PlanStatus
<1>2. AtWorkWith(r, "done", at[r], todo[r], undone[r], "aborted")
  BY Values DEF AtWorkWith
<1>3. Surroundings
  BY DEF Abort, Surroundings, devices, store, IInv, TypeOK
<1> QED
  BY <1>1, <1>2, <1>3, PlainMove, Values DEF Abort, Go

\* What is written is a list of records again.
LEMMA FileType ==
    ASSUME IInv, NEW r \in Run, pc[r] = "write"
    PROVE  Newest(Append(Without(copy, r), RunOf(r))) \in Seq(RunRecord)
<1>1. copy \in Seq(RunRecord) /\ RunOf(r) \in RunRecord
  BY DEF IInv, TypeOK, AtWork, RunOf, RunRecord
<1>2. Without(copy, r) \in Seq(RunRecord)
  <2>1. CASE \E i \in 1 .. Len(copy) : copy[i].run = r
    <3>1. PICK i \in 1 .. Len(copy) : Without(copy, r) = RemoveAt(copy, i)
      BY <2>1 DEF Without
    <3> QED
      BY <1>1, <3>1 DEF RemoveAt
  <2> QED
    BY <1>1, <2>1 DEF Without
<1> QED
  BY <1>1, <1>2 DEF Newest

LEMMA RecordKeeps ==
    ASSUME IInv, NEW r \in Run, Record(r)
    PROVE  IInv'
<1>1. PICK to \in {"write", "done"} :
         pc' = [pc EXCEPT ![r] = to] /\ (to = "write" => pc[r] = "append")
         /\ pc[r] \in {"append", "write"}
  BY DEF Record, ReadRuns, WriteRuns, Go
<1>2. Reserving(r, owners, to) /\ to \in Place
  BY <1>1 DEF Record, ReadRuns, WriteRuns, Reserving, Running, Place
<1>3. AtWorkWith(r, to, at[r], todo[r], undone[r], status[r])
  BY <1>1, Values DEF AtWorkWith, IInv, AtWork
<1>4. Surroundings
  <2>1. CASE ReadRuns(r)
    BY <2>1 DEF ReadRuns, Surroundings, devices, IInv, TypeOK
  <2>2. CASE WriteRuns(r)
    BY <2>2, FileType DEF WriteRuns, Surroundings, devices, IInv, TypeOK
  <2> QED
    BY <2>1, <2>2 DEF Record
<1>5. /\ UNCHANGED <<at, todo, undone>>
      /\ results' = [results EXCEPT ![r] = results[r]] /\ results[r] \in Outcomes(r)
      /\ status' = [status EXCEPT ![r] = status[r]] /\ status[r] \in PlanStatus
  BY Values DEF Record, ReadRuns, WriteRuns
<1> QED
  BY <1>1, <1>2, <1>3, <1>4, <1>5, PlainMove

\* What the world does touches neither runs nor reservations.
LEMMA WorldKeeps ==
    ASSUME IInv, World
    PROVE  IInv'
<1>1. UNCHANGED <<owners, pc, at, results, todo, undone, status, store, restarts>>
  BY DEF World, React, Lose, Foreign, Observe, Expire, bounds
<1>2. /\ device' \in [Device -> State]
      /\ command' \in [Device -> Value \cup {"none"}]
      /\ pending' \subseteq [dev : Device, expected : Value]
      /\ foreign' \in Nat
  <2>1. ASSUME NEW d \in Device, React(d)
        PROVE  device' \in [Device -> State] /\ command' \in [Device -> Value \cup {"none"}]
               /\ UNCHANGED <<pending, foreign>>
    BY <2>1 DEF React, bounds, IInv, TypeOK, State, Value
  <2>2. ASSUME NEW d \in Device, Lose(d)
        PROVE  command' \in [Device -> Value \cup {"none"}]
               /\ UNCHANGED <<device, pending, foreign>>
    BY <2>2 DEF Lose, bounds, IInv, TypeOK
  <2>3. ASSUME NEW d \in Device, Foreign(d)
        PROVE  device' \in [Device -> State] /\ foreign' \in Nat
               /\ UNCHANGED <<command, pending>>
    BY <2>3 DEF Foreign, IInv, TypeOK
  <2>4. ASSUME NEW e \in pending, Observe(e) \/ Expire(e)
        PROVE  pending' \subseteq pending /\ UNCHANGED <<device, command, foreign>>
    BY <2>4 DEF Observe, Expire, devices, bounds
  <2> QED
    BY <2>1, <2>2, <2>3, <2>4 DEF World, IInv, TypeOK
<1>3. TypeOK'
  BY <1>1, <1>2 DEF IInv, TypeOK, store
<1>4. ReservationExact' /\ AtWork'
  BY <1>1 DEF IInv, ReservationExact, AtWork, Targets, Steps
<1> QED
  BY <1>3, <1>4 DEF IInv

LEMMA RestartKeeps ==
    ASSUME IInv, Restart
    PROVE  IInv'
<1>1. TypeOK'
  BY DEF Restart, IInv, TypeOK, devices, Place, PlanStatus
<1>2. ReservationExact'
  BY OwnerAssumption DEF Restart, ReservationExact, Running
<1>3. AtWork'
  BY DEF Restart, IInv, AtWork
<1> QED
  BY <1>1, <1>2, <1>3 DEF IInv

\* The inductive invariant holds from the start and through every step.
THEOREM InvariantHolds == Spec => []IInv
<1>1. Init => IInv
  <2> SUFFICES ASSUME Init
               PROVE  IInv
    OBVIOUS
  <2>1. \A r \in Run : results[r] \in Seq(StepResult) /\ Len(results[r]) = Len(Plan[r])
    <3> SUFFICES ASSUME NEW r \in Run
                 PROVE  results[r] \in Seq(StepResult) /\ Len(results[r]) = Len(Plan[r])
      OBVIOUS
    <3>1. Plan[r] \in Seq(PlanStep) /\ Len(Plan[r]) \in Nat
      BY PlanAssumption
    <3>2. results[r] = [i \in 1 .. Len(Plan[r]) |-> "open"]
      BY DEF Init, Steps
    <3> QED
      BY <3>1, <3>2 DEF StepResult
  <2>2. TypeOK
    BY <2>1 DEF Init, TypeOK, State, Value, Place, PlanStatus
  <2>3. ReservationExact /\ AtWork
    BY OwnerAssumption DEF Init, ReservationExact, AtWork, Running
  <2> QED
    BY <2>2, <2>3 DEF IInv
<1>2. IInv /\ [Next]_vars => IInv'
  <2> SUFFICES ASSUME IInv, [Next]_vars
               PROVE  IInv'
    OBVIOUS
  <2>1. ASSUME NEW r \in Run, Answer(r)
        PROVE  IInv'
    BY <2>1, AcquireKeeps, RefuseKeeps DEF Answer
  <2>2. ASSUME NEW r \in Run, Work(r)
        PROVE  IInv'
    BY <2>2, AcceptedKeeps, RejectedKeeps, VerifiedKeeps, NotObservedKeeps, PlannedKeeps,
       NotPlannedKeeps, UndoKeeps DEF Work
  <2>3. ASSUME NEW r \in Run, Abort(r) \/ Record(r)
        PROVE  IInv'
    BY <2>3, AbortKeeps, RecordKeeps
  <2>4. CASE UNCHANGED vars
    BY <2>4 DEF vars, devices, store, bounds, IInv, TypeOK, ReservationExact, AtWork,
                Targets, Steps
  <2> QED
    BY <2>1, <2>2, <2>3, <2>4, WorldKeeps, RestartKeeps DEF Next
<1> QED
  BY <1>1, <1>2, PTL DEF Spec

\* Every variable keeps its type in every behaviour.
THEOREM TypeCorrect == Spec => []TypeOK
BY InvariantHolds, PTL DEF IInv

\* However a run ends, it holds all its devices while it may touch one and none
\* before and after.
THEOREM ReservationsAreExact == Spec => []ReservationExact
BY InvariantHolds, PTL DEF IInv

-----------------------------------------------------------------------------
(* What each step does to the owners.                                       *)

\* A step leaves the owners alone, or lets one run take all its devices, all of
\* them free, or lets one run give its devices back, or frees all.
OwnersStep ==
    \/ UNCHANGED owners
    \/ \E r \in Run : /\ \A d \in Device : owners[d] # r
                      /\ \A d \in Targets(r) : owners[d] = NoRun
                      /\ owners' = Reserved(r)
    \/ \E r \in Run : owners' = Released(r, owners)
    \/ owners' = [d \in Device |-> NoRun]

LEMMA ContinueOwners ==
    ASSUME NEW r \in Run, NEW i, NEW outcomes, NEW held, Continue(r, i, outcomes, held)
    PROVE  owners' = held \/ owners' = Released(r, held)
BY DEF Continue, PlanDone, TargetGone, StartStep, End

LEMMA CompensateOwners ==
    ASSUME NEW r \in Run, NEW remaining, NEW outcomes, NEW taken,
           Compensate(r, remaining, outcomes, taken)
    PROVE  owners' = owners \/ owners' = Released(r, owners)
BY DEF Compensate, End

LEMMA OwnersStepHolds ==
    ASSUME IInv, [Next]_vars
    PROVE  OwnersStep
<1>1. owners \in [Device -> Run \cup {NoRun}]
  BY DEF IInv, TypeOK
<1>2. ASSUME NEW r \in Run, Acquire(r)
      PROVE  OwnersStep
  <2>1. /\ \A d \in Device : owners[d] # r
        /\ \A d \in Targets(r) : owners[d] = NoRun
    BY <1>2, TargetsAreDevices DEF Acquire, Conflicts, Targets, IInv, ReservationExact, Running
  <2>2. Released(r, Reserved(r)) = owners
    BY <1>1, <2>1, TargetsAreDevices DEF Released, Reserved
  <2>3. owners' = Reserved(r) \/ owners' = Released(r, Reserved(r))
    BY <1>2, ContinueOwners DEF Acquire
  <2> QED
    BY <2>1, <2>2, <2>3 DEF OwnersStep
<1>3. ASSUME NEW r \in Run, Refuse(r) \/ Accepted(r) \/ Record(r)
      PROVE  OwnersStep
  BY <1>3 DEF Refuse, Accepted, Record, ReadRuns, WriteRuns, OwnersStep
<1>4. ASSUME NEW r \in Run, Verified(r) \/ Planned(r)
      PROVE  OwnersStep
  BY <1>4, ContinueOwners DEF Verified, Planned, OwnersStep
<1>5. ASSUME NEW r \in Run, Rejected(r) \/ NotObserved(r) \/ UndoAccepted(r) \/ UndoRejected(r)
      PROVE  OwnersStep
  BY <1>5, CompensateOwners DEF Rejected, NotObserved, UndoAccepted, UndoRejected, OwnersStep
<1>6. ASSUME NEW r \in Run, NotPlanned(r) \/ Abort(r)
      PROVE  OwnersStep
  BY <1>6 DEF NotPlanned, Abort, End, OwnersStep
<1>7. CASE World \/ UNCHANGED vars
  BY <1>7 DEF World, React, Lose, Foreign, Observe, Expire, vars, OwnersStep
<1>8. CASE Restart
  BY <1>8 DEF Restart, OwnersStep
<1> QED
  BY <1>2, <1>3, <1>4, <1>5, <1>6, <1>7, <1>8 DEF Next, Answer, Work

\* The coordinator, driven by any number of turns that fail, are cancelled or
\* cut off, is the abstract reservation manager.
THEOREM CoordinatorImplementsReservations == Spec => KeepsReservations
<1>1. Init => Reservations!Init
  BY DEF Init, Reservations!Init, Reservations!Free
<1>2. IInv /\ [Next]_vars => [Reservations!Next]_owners
  <2> SUFFICES ASSUME IInv, [Next]_vars
               PROVE  [Reservations!Next]_owners
    OBVIOUS
  <2>1. ASSUME NEW r \in Run, \A d \in Device : owners[d] # r,
               \A d \in Targets(r) : owners[d] = NoRun, owners' = Reserved(r)
        PROVE  Reservations!Take(r, Targets(r))
    BY <2>1 DEF Reservations!Take, Reserved
  <2>2. ASSUME NEW r \in Run, owners' = Released(r, owners)
        PROVE  Reservations!Give(r)
    BY <2>2 DEF Reservations!Give, Released
  <2>3. CASE owners' = [d \in Device |-> NoRun]
    BY <2>3 DEF Reservations!Next, Reservations!Reset, Reservations!Free
  <2> QED
    BY <2>1, <2>2, <2>3, OwnersStepHolds, TargetsAreDevices
       DEF OwnersStep, Reservations!Next
<1> QED
  BY <1>1, <1>2, InvariantHolds, PTL DEF Spec, KeepsReservations, Reservations!Spec

-----------------------------------------------------------------------------
(* Who tells a device what.                                                 *)

\* The run that sends something holds the device and waits for the call.
OwnedSend ==
    \A d \in Device :
        command'[d] \notin {"none", command[d]} =>
            \E r \in Run :
                /\ owners'[d] = r
                /\ pc'[r] \in {"call", "undo"}
                /\ <<pc[r], at[r], todo[r]>> # <<pc'[r], at'[r], todo'[r]>>

LEMMA ContinueSends ==
    ASSUME IInv, NEW r \in Run, NEW i, NEW outcomes, NEW held, Holding(r, held),
           Continue(r, i, outcomes, held), pc[r] # "call"
    PROVE  OwnedSend
<1>1. pc \in [Run -> Place] /\ command \in [Device -> Value \cup {"none"}]
  BY DEF IInv, TypeOK
<1>2. CASE command' = command
  BY <1>2 DEF OwnedSend
<1>3. ASSUME NEW j \in Steps(r), Go(r, "call"), owners' = held,
             Send(Plan[r][j].dev, Plan[r][j].want)
      PROVE  OwnedSend
  <2>1. \A d \in Device : command'[d] # command[d] => d = Plan[r][j].dev
    BY <1>1, <1>3 DEF Send
  <2>2. held[Plan[r][j].dev] = r
    BY PlanType DEF Holding
  <2>3. pc'[r] = "call" /\ pc[r] # pc'[r]
    BY <1>1, <1>3 DEF Go
  <2> QED
    BY <1>3, <2>1, <2>2, <2>3 DEF OwnedSend
<1> QED
  BY <1>2, <1>3 DEF Continue, PlanDone, TargetGone, StartStep, End

LEMMA CompensateSends ==
    ASSUME IInv, NEW r \in Run, pc[r] \in Running, NEW remaining \in SUBSET Steps(r),
           NEW outcomes, NEW taken, Compensate(r, remaining, outcomes, taken),
           pc[r] = "undo" => \E i \in todo[r] : i \notin remaining
    PROVE  OwnedSend
<1>1. /\ pc \in [Run -> Place] /\ command \in [Device -> Value \cup {"none"}]
      /\ todo \in [Run -> SUBSET Nat]
  BY DEF IInv, TypeOK
<1>2. CASE command' = command
  BY <1>2 DEF OwnedSend
<1>3. ASSUME NEW i \in remaining, Go(r, "undo"), owners' = owners,
             Send(Plan[r][i].dev, Plan[r][i].back),
             todo' = [todo EXCEPT ![r] = {k \in remaining : k <= i}]
      PROVE  OwnedSend
  <2>1. \A d \in Device : command'[d] # command[d] => d = Plan[r][i].dev
    BY <1>1, <1>3 DEF Send
  <2>2. owners[Plan[r][i].dev] = r
    BY PlanType, OwnersHold DEF Holding
  <2>3. pc'[r] = "undo"
    BY <1>1, <1>3 DEF Go
  <2>4. pc[r] # pc'[r] \/ todo[r] # todo'[r]
    BY <1>1, <1>3, <2>3
  <2> QED
    BY <1>3, <2>1, <2>2, <2>3, <2>4 DEF OwnedSend
<1> QED
  BY <1>2, <1>3 DEF Compensate, End

\* No device is ever told anything by a run that does not hold it.
THEOREM OnlyOwnersWrite == Spec => WritesAreOwned
<1>1. IInv /\ [Next]_vars => [OwnedSend]_vars
  <2> SUFFICES ASSUME IInv, Next
               PROVE  OwnedSend
    OBVIOUS
  <2>1. ASSUME NEW r \in Run, Acquire(r)
        PROVE  OwnedSend
    BY <2>1, ReservedHolds, ContinueSends DEF Acquire
  <2>2. ASSUME NEW r \in Run, Verified(r) \/ Planned(r)
        PROVE  OwnedSend
    BY <2>2, AtStep, ContinueSends DEF Verified, Planned
  <2>3. ASSUME NEW r \in Run, Rejected(r) \/ NotObserved(r)
        PROVE  OwnedSend
    BY <2>3, AtStep, CompensateSends DEF Rejected, NotObserved
  <2>4. ASSUME NEW r \in Run, UndoAccepted(r) \/ UndoRejected(r)
        PROVE  OwnedSend
    <3>1. pc[r] = "undo" /\ pc[r] \in Running /\ todo[r] \subseteq Steps(r)
      BY <2>4 DEF UndoAccepted, UndoRejected, Running, IInv, AtWork
    <3>2. PICK i \in todo[r] : \E taken : Compensate(r, todo[r] \ {i}, results[r], taken)
      BY <2>4 DEF UndoAccepted, UndoRejected
    <3> QED
      BY <3>1, <3>2, CompensateSends
  <2>5. ASSUME NEW r \in Run, Refuse(r) \/ Accepted(r) \/ NotPlanned(r) \/ Abort(r) \/ Record(r)
        PROVE  OwnedSend
    BY <2>5 DEF Refuse, Accepted, NotPlanned, Abort, Record, ReadRuns, WriteRuns, End,
                devices, OwnedSend
  <2>6. CASE World
    <3>1. \A d \in Device : command'[d] \in {"none", command[d]}
      BY <2>6 DEF World, React, Lose, Foreign, Observe, Expire, devices, IInv, TypeOK
    <3> QED
      BY <3>1 DEF OwnedSend
  <2>7. CASE Restart
    BY <2>7 DEF Restart, devices, OwnedSend
  <2> QED
    BY <2>1, <2>2, <2>3, <2>4, <2>5, <2>6, <2>7 DEF Next, Answer, Work
<1> QED
  BY <1>1, InvariantHolds, PTL DEF Spec, WritesAreOwned, OwnedSend

-----------------------------------------------------------------------------
(* Expectations of the effect monitor.                                      *)

\* What a step does to a run q that verifies, and to what is expected.
VerifyStep(q) ==
    pc'[q] = "verify" =>
        \/ Accepted(q)
        \/ /\ pc[q] = "verify" /\ at'[q] = at[q]
           /\ \A e \in pending' \ pending :
                 \E r \in Run \ {q} : pc[r] \in Running /\ e.dev \in Targets(r)

\* A step of r that goes somewhere else and expects nothing new.
LEMMA QuietStep ==
    ASSUME IInv, NEW r \in Run, NEW to, to # "verify", pc' = [pc EXCEPT ![r] = to],
           pending' = pending, \A q \in Run \ {r} : at'[q] = at[q]
    PROVE  \A q \in Run : VerifyStep(q)
<1>1. pc \in [Run -> Place]
  BY DEF IInv, TypeOK
<1> QED
  BY <1>1 DEF VerifyStep

LEMMA ContinueGoes ==
    ASSUME IInv, NEW r \in Run, NEW i, NEW outcomes, NEW held,
           Continue(r, i, outcomes, held)
    PROVE  /\ \E to : to # "verify" /\ pc' = [pc EXCEPT ![r] = to]
           /\ \A q \in Run \ {r} : at'[q] = at[q]
<1>1. at \in [Run -> Nat]
  BY DEF IInv, TypeOK
<1>2. \E to \in {"append", "schedule", "call"} : pc' = [pc EXCEPT ![r] = to]
  BY DEF Continue, PlanDone, TargetGone, StartStep, End, Go
<1>3. \A q \in Run \ {r} : at'[q] = at[q]
  BY <1>1 DEF Continue
<1> QED
  BY <1>2, <1>3

LEMMA CompensateGoes ==
    ASSUME IInv, NEW r \in Run, NEW remaining, NEW outcomes, NEW taken,
           Compensate(r, remaining, outcomes, taken)
    PROVE  \E to \in {"append", "undo"} : pc' = [pc EXCEPT ![r] = to]
BY DEF Compensate, End, Go

LEMMA VerifyStepHolds ==
    ASSUME IInv, [Next]_vars
    PROVE  \A q \in Run : VerifyStep(q)
<1>1. pc \in [Run -> Place] /\ at \in [Run -> Nat]
  BY DEF IInv, TypeOK
<1>2. ASSUME NEW r \in Run, Acquire(r) \/ Verified(r) \/ Planned(r)
      PROVE  \A q \in Run : VerifyStep(q)
  <2>1. pending' = pending
    BY <1>2 DEF Acquire, Verified, Planned
  <2> QED
    BY <1>2, <2>1, ContinueGoes, QuietStep DEF Acquire, Verified, Planned
<1>3. ASSUME NEW r \in Run, Rejected(r) \/ NotObserved(r) \/ UndoRejected(r)
      PROVE  \A q \in Run : VerifyStep(q)
  <2>1. pending' = pending /\ at' = at
    BY <1>3 DEF Rejected, NotObserved, UndoRejected
  <2>2. \E to \in {"append", "undo"} : pc' = [pc EXCEPT ![r] = to]
    BY <1>3, CompensateGoes DEF Rejected, NotObserved, UndoRejected
  <2> QED
    BY <2>1, <2>2, QuietStep
<1>4. ASSUME NEW r \in Run, UndoAccepted(r)
      PROVE  \A q \in Run : VerifyStep(q)
  <2>1. PICK i \in todo[r] :
           /\ Register(Plan[r][i].dev, Plan[r][i].back)
           /\ Compensate(r, todo[r] \ {i}, results[r], Append(undone[r], i))
    BY <1>4 DEF UndoAccepted
  <2>2. pc[r] \in Running /\ Plan[r][i].dev \in Targets(r)
    BY <1>4, <2>1, PlanType DEF UndoAccepted, Running, IInv, AtWork
  <2>3. \A e \in pending' \ pending : e.dev = Plan[r][i].dev
    BY <2>1 DEF Register
  <2>4. /\ \E to \in {"append", "undo"} : pc' = [pc EXCEPT ![r] = to]
        /\ at' = at
    BY <1>4, <2>1, CompensateGoes DEF UndoAccepted
  <2> QED
    BY <1>1, <2>2, <2>3, <2>4 DEF VerifyStep
<1>5. ASSUME NEW r \in Run, Accepted(r)
      PROVE  \A q \in Run : VerifyStep(q)
  <2>1. pc[r] \in Running /\ Step(r).dev \in Targets(r)
    BY <1>5, AtStep, PlanType DEF Accepted, Step
  <2>2. \A e \in pending' \ pending : e.dev = Step(r).dev
    BY <1>5 DEF Accepted, Register
  <2>3. pc' = [pc EXCEPT ![r] = "verify"] /\ at' = at
    BY <1>5 DEF Accepted, Go
  <2> QED
    BY <1>1, <1>5, <2>1, <2>2, <2>3 DEF VerifyStep
<1>6. ASSUME NEW r \in Run, Refuse(r) \/ NotPlanned(r) \/ Abort(r) \/ Record(r)
      PROVE  \A q \in Run : VerifyStep(q)
  <2>1. /\ pending' = pending /\ at' = at
        /\ \E to \in {"done", "append", "write"} : pc' = [pc EXCEPT ![r] = to]
    BY <1>6 DEF Refuse, NotPlanned, Abort, Record, ReadRuns, WriteRuns, End, Go
  <2> QED
    BY <2>1, QuietStep
<1>7. CASE World
  BY <1>7 DEF World, React, Lose, Foreign, Observe, Expire, VerifyStep
<1>8. CASE Restart
  BY <1>8 DEF Restart, VerifyStep
<1>9. CASE UNCHANGED vars
  BY <1>9 DEF vars, VerifyStep
<1> QED
  BY <1>2, <1>3, <1>4, <1>5, <1>6, <1>7, <1>8, <1>9 DEF Next, Answer, Work

\* The effect monitor never waits for anything but what the run that verifies a
\* device has told it last.
THEOREM ExpectationsAreCurrent == Spec => []NoStaleExpectation
<1>1. Init => NoStaleExpectation
  BY DEF Init, NoStaleExpectation
<1>2. IInv /\ NoStaleExpectation /\ [Next]_vars => NoStaleExpectation'
  <2> SUFFICES ASSUME IInv, NoStaleExpectation, [Next]_vars,
                      NEW q \in Run, NEW e \in pending', pc'[q] = "verify",
                      e.dev = Plan[q][at'[q]].dev
               PROVE  e.expected = Plan[q][at'[q]].want
    BY DEF NoStaleExpectation, Step
  <2>1. CASE Accepted(q)
    BY <2>1 DEF Accepted, Register, Step
  <2>2. CASE pc[q] = "verify" /\ at'[q] = at[q] /\ e \in pending
    BY <2>2 DEF NoStaleExpectation, Step
  <2>3. ASSUME NEW r \in Run \ {q}, pc[r] \in Running, e.dev \in Targets(r),
               pc[q] = "verify", at'[q] = at[q]
        PROVE  FALSE
    <3>1. owners[e.dev] = r /\ e.dev \in Device
      BY <2>3, OwnersHold, TargetsAreDevices DEF Holding
    <3>2. e.dev \in Targets(q)
      BY <2>3, AtStep, PlanType
    <3> QED
      BY <2>3, <3>1, <3>2, OwnersHold DEF Holding, Running
  <2> QED
    BY <2>1, <2>2, <2>3, VerifyStepHolds DEF VerifyStep
<1> QED
  BY <1>1, <1>2, InvariantHolds, PTL DEF Spec
=============================================================================
