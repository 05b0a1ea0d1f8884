------------------------ MODULE GoalExecutionResults ------------------------
(* Theorems about what GoalExecution tells and keeps of a run, for every    *)
(* set of runs, devices and plans and every bound: that the steps taken     *)
(* back are steps of the run, in reverse order and once each, that the      *)
(* result told after a run is so, and that the goal-run file keeps the      *)
(* record of every run that ended, up to its limit.  They rest on the       *)
(* inductive invariant of GoalExecutionProofs.                              *)
EXTENDS GoalExecutionProofs, FiniteSetTheorems

-----------------------------------------------------------------------------
(* The invariant of a run's results.                                        *)

Good == {"verified", "satisfied", "planned"}

\* taken lists steps with an effect, backwards.
Backwards(r, out, taken) ==
    /\ ToSet(taken) \subseteq {i \in Steps(r) : out[i] \in {"verified", "missed"}}
    /\ \A i, j \in 1 .. Len(taken) : i < j => taken[i] > taken[j]

\* What ResultIsTruthful says of one run, for the values it takes.
Truthful(r, out, taken, result) ==
    LET good == {i \in Steps(r) : out[i] \in Good}
        planned == {i \in Steps(r) : out[i] \in {"planned"}}
        verified == {i \in Steps(r) : out[i] \in {"verified"}}
    IN  /\ result \in {"completed", "scheduled"} => good = Steps(r) /\ taken = <<>>
        /\ result = "completed" => planned = {}
        /\ result = "scheduled" => planned # {}
        /\ result \in {"partial", "failed"} => good # Steps(r)
        /\ result = "partial" => ~ (verified \subseteq ToSet(taken))

\* Where a run stands says what it has to show: before its answer nothing, on
\* its way good results only, while it compensates a step that went wrong and
\* only steps with an effect left, all of them before those taken back.
StoryWith(r, place, index, out, left, taken, result) ==
    /\ place \in Running \cup {"idle"} => result = "none"
    /\ place \in {"idle", "call", "verify", "schedule"} => taken = <<>>
    /\ place = "idle" => \A i \in Steps(r) : out[i] = "open"
    /\ place \in {"call", "verify", "schedule"} =>
          \A i \in Steps(r) : IF i < index THEN out[i] \in Good ELSE out[i] = "open"
    /\ place = "undo" =>
          /\ {i \in Steps(r) : out[i] \in Good} # Steps(r)
          /\ left \subseteq {i \in Steps(r) : out[i] \in {"verified", "missed"}}
          /\ \A i \in ToSet(taken), k \in left : i > k
    /\ Backwards(r, out, taken)
    /\ Truthful(r, out, taken, result)

Story == \A r \in Run : StoryWith(r, pc[r], at[r], results[r], todo[r], undone[r], status[r])

-----------------------------------------------------------------------------
(* How the pieces of an action tell the story of a run.                     *)

\* Run r goes to a place with new values; the other runs stay as they are.
LEMMA StoryMoves ==
    ASSUME IInv, Story, NEW r \in Run, NEW to, NEW index, NEW out, NEW left,
           NEW taken, NEW result,
           pc' = [pc EXCEPT ![r] = to], at' = [at EXCEPT ![r] = index],
           results' = [results EXCEPT ![r] = out], todo' = [todo EXCEPT ![r] = left],
           undone' = [undone EXCEPT ![r] = taken],
           status' = [status EXCEPT ![r] = result],
           StoryWith(r, to, index, out, left, taken, result)
    PROVE  Story'
<1>1. TypeOK
  BY DEF IInv
<1>2. ASSUME NEW q \in Run
      PROVE  StoryWith(q, pc'[q], at'[q], results'[q], todo'[q], undone'[q], status'[q])
  <2>1. CASE q = r
    BY <1>1, <2>1 DEF TypeOK
  <2>2. CASE q # r
    <3>1. /\ pc'[q] = pc[q] /\ at'[q] = at[q] /\ results'[q] = results[q]
          /\ todo'[q] = todo[q] /\ undone'[q] = undone[q] /\ status'[q] = status[q]
      BY <1>1, <2>2 DEF TypeOK
    <3> QED
      BY <3>1 DEF Story
  <2> QED
    BY <2>1, <2>2
<1> QED
  BY <1>2 DEF Story, StoryWith, Truthful, Backwards, Steps

\* A list has at least as many places as it has different entries.
LEMMA FewerThanPlaces ==
    ASSUME NEW taken \in Seq(Nat)
    PROVE  /\ IsFiniteSet(ToSet(taken))
           /\ Cardinality(ToSet(taken)) \in Nat
           /\ Cardinality(ToSet(taken)) <= Len(taken)
<1> DEFINE places == 1 .. Len(taken)
<1>1. Len(taken) \in Nat /\ DOMAIN taken = places
  OBVIOUS
<1>2. IsFiniteSet(places) /\ Cardinality(places) = Len(taken)
  <2> DEFINE n == Len(taken)
  <2>1. n \in Int /\ 1 \in Int /\ (IF 1 > n THEN 0 ELSE n - 1 + 1) = n
    BY <1>1
  <2> HIDE DEF n
  <2>2. IsFiniteSet(1 .. n) /\ Cardinality(1 .. n) = IF 1 > n THEN 0 ELSE n - 1 + 1
    BY <2>1, FS_Interval, Zenon
  <2> QED
    BY <2>1, <2>2 DEF n
<1>3. taken \in Surjection(places, ToSet(taken))
  <2>1. taken \in [places -> ToSet(taken)]
    BY <1>1 DEF ToSet
  <2>2. \A v \in ToSet(taken) : \E i \in places : taken[i] = v
    BY <1>1 DEF ToSet
  <2> HIDE DEF places
  <2> QED
    BY <2>1, <2>2, Zenon DEF Surjection
<1> HIDE DEF places
<1>4. IsFiniteSet(ToSet(taken)) /\ Cardinality(ToSet(taken)) <= Cardinality(places)
  BY <1>2, <1>3, FS_Surjection
<1> QED
  BY <1>2, <1>4, FS_CardinalityType

\* _failed_status compares counts, and that is enough: what was taken back is
\* counted at least once, so more verified steps than steps taken back leave a
\* verified step standing.
LEMMA FailedIsTrue ==
    ASSUME NEW r \in Run, NEW out, NEW taken \in Seq(Nat),
           {i \in Steps(r) : out[i] \in Good} # Steps(r)
    PROVE  Truthful(r, out, taken, FailedStatus(VerifiedIn(r, out), taken))
<1>1. ASSUME Cardinality(VerifiedIn(r, out)) > Len(taken)
      PROVE  ~ (VerifiedIn(r, out) \subseteq ToSet(taken))
  <2>1. SUFFICES ASSUME VerifiedIn(r, out) \subseteq ToSet(taken)
                 PROVE  FALSE
    OBVIOUS
  <2>2. /\ IsFiniteSet(VerifiedIn(r, out))
        /\ Cardinality(VerifiedIn(r, out)) <= Cardinality(ToSet(taken))
    BY <2>1, FewerThanPlaces, FS_Subset
  <2> HIDE DEF VerifiedIn
  <2>3. Cardinality(VerifiedIn(r, out)) \in Nat /\ Len(taken) \in Nat
    BY <2>2, FS_CardinalityType
  <2> QED
    BY <1>1, <2>2, <2>3, FewerThanPlaces
<1>2. {i \in Steps(r) : out[i] \in {"verified"}} = VerifiedIn(r, out)
  BY DEF VerifiedIn
<1>3. FailedStatus(VerifiedIn(r, out), taken) \in {"partial", "failed"}
  BY DEF FailedStatus
<1>4. FailedStatus(VerifiedIn(r, out), taken) = "partial" =>
         Cardinality(VerifiedIn(r, out)) > Len(taken)
  BY DEF FailedStatus
<1> HIDE DEF VerifiedIn, FailedStatus
<1> QED
  BY <1>1, <1>2, <1>3, <1>4 DEF Truthful

\* Nothing taken back is trivially backwards.
LEMMA NothingTaken ==
    ASSUME NEW r, NEW out
    PROVE  Backwards(r, out, <<>>) /\ <<>> \in Seq(Nat)
BY DEF Backwards, ToSet

\* One round of the loop: what went well so far, and then the next await or the
\* end.
LEMMA ContinueTells ==
    ASSUME IInv, Story, NEW r \in Run, NEW i \in Nat, i > 0,
           NEW outcomes \in Outcomes(r), NEW held, Continue(r, i, outcomes, held),
           \A k \in Steps(r) : IF k < i THEN outcomes[k] \in Good
                                      ELSE outcomes[k] = "open",
           undone[r] = <<>>, status[r] = "none", UNCHANGED <<todo, undone>>
    PROVE  Story'
<1>1. PICK j \in i .. Len(Plan[r]) + 1 :
         /\ at' = [at EXCEPT ![r] = j]
         /\ \/ j \notin Steps(r) /\ PlanDone(r, Passed(r, i, j, outcomes), held)
            \/ j \in Steps(r) /\ TargetGone(r, j, Passed(r, i, j, outcomes), held)
            \/ j \in Steps(r) /\ StartStep(r, j, Passed(r, i, j, outcomes), held)
  BY DEF Continue
<1>2. Plan[r] \in Seq(PlanStep) /\ j \in Nat /\ Len(Plan[r]) \in Nat
  BY PlanAssumption
<1> DEFINE now == Passed(r, i, j, outcomes)
<1>3. \A k \in Steps(r) : IF k < j THEN now[k] \in Good ELSE now[k] = "open"
  BY <1>2 DEF Passed, Good, Steps
<1>4. /\ todo' = [todo EXCEPT ![r] = todo[r]] /\ undone' = [undone EXCEPT ![r] = <<>>]
  BY Values
<1>5. now \in Outcomes(r)
  BY <1>2, OutcomeChanges
<1> HIDE DEF now
<1>6. CASE j \notin Steps(r) /\ PlanDone(r, now, held)
  <2>1. PICK result \in {"scheduled", "completed"} :
           /\ result = IF \E k \in Steps(r) : now[k] = "planned" THEN "scheduled" ELSE "completed"
           /\ status' = [status EXCEPT ![r] = result]
           /\ pc' = [pc EXCEPT ![r] = "append"]
           /\ results' = [results EXCEPT ![r] = now]
    BY <1>6 DEF PlanDone, End, Go
  <2>2. {k \in Steps(r) : now[k] \in Good} = Steps(r)
    BY <1>2, <1>3, <1>6 DEF Steps
  <2>3. Truthful(r, now, <<>>, result)
    BY <2>1, <2>2 DEF Truthful
  <2>4. StoryWith(r, "append", j, now, todo[r], <<>>, result)
    BY <2>3, NothingTaken DEF StoryWith, Running
  <2> DEFINE left == todo[r]
             taken == <<>>
  <2>5. /\ pc' = [pc EXCEPT ![r] = "append"] /\ at' = [at EXCEPT ![r] = j]
        /\ results' = [results EXCEPT ![r] = now] /\ todo' = [todo EXCEPT ![r] = left]
        /\ undone' = [undone EXCEPT ![r] = taken] /\ status' = [status EXCEPT ![r] = result]
        /\ StoryWith(r, "append", j, now, left, taken, result)
    BY <1>1, <1>4, <2>1, <2>4
  <2> HIDE DEF left, taken
  <2> QED
    BY <2>5, StoryMoves, Zenon
<1>7. CASE j \in Steps(r) /\ TargetGone(r, j, now, held)
  <2> DEFINE out == [now EXCEPT ![j] = "gone"]
             result == FailedStatus(VerifiedIn(r, now), <<>>)
  <2>1. /\ status' = [status EXCEPT ![r] = result]
        /\ pc' = [pc EXCEPT ![r] = "append"]
        /\ results' = [results EXCEPT ![r] = out]
    BY <1>7 DEF TargetGone, End, Go
  <2>2. out[j] = "gone" /\ \A k \in Steps(r) \ {j} : out[k] = now[k]
    BY <1>2, <1>5, <1>7 DEF Outcomes, Steps
  <2>3. {k \in Steps(r) : out[k] \in Good} # Steps(r)
    BY <1>7, <2>2 DEF Good
  <2>4. VerifiedIn(r, now) = VerifiedIn(r, out)
    BY <1>2, <1>3, <1>7, <2>2 DEF VerifiedIn, Steps
  <2> HIDE DEF out
  <2>5. Truthful(r, out, <<>>, result)
    BY <2>3, <2>4, FailedIsTrue, NothingTaken
  <2>6. StoryWith(r, "append", j, out, todo[r], <<>>, result)
    BY <2>5, NothingTaken DEF StoryWith, Running
  <2> HIDE DEF result
  <2> QED
    BY <1>1, <1>4, <2>1, <2>6, StoryMoves
<1>8. CASE j \in Steps(r) /\ StartStep(r, j, now, held)
  <2>1. PICK to \in {"schedule", "call"} : pc' = [pc EXCEPT ![r] = to]
    BY <1>8 DEF StartStep, Go
  <2>2. /\ status' = [status EXCEPT ![r] = "none"]
        /\ results' = [results EXCEPT ![r] = now]
    BY <1>8, Values DEF StartStep
  <2>3. Truthful(r, now, <<>>, "none")
    BY DEF Truthful
  <2>4. StoryWith(r, to, j, now, todo[r], <<>>, "none")
    BY <1>3, <2>1, <2>3, NothingTaken DEF StoryWith
  <2> DEFINE left == todo[r]
             taken == <<>>
             result == "none"
  <2>5. /\ pc' = [pc EXCEPT ![r] = to] /\ at' = [at EXCEPT ![r] = j]
        /\ results' = [results EXCEPT ![r] = now] /\ todo' = [todo EXCEPT ![r] = left]
        /\ undone' = [undone EXCEPT ![r] = taken] /\ status' = [status EXCEPT ![r] = result]
        /\ StoryWith(r, to, j, now, left, taken, result)
    BY <1>1, <1>4, <2>1, <2>2, <2>4
  <2> HIDE DEF left, taken, result
  <2> QED
    BY <2>5, StoryMoves, Zenon
<1> QED
  BY <1>1, <1>6, <1>7, <1>8 DEF now

\* One round of _compensate: what is left lies before what was taken back.
LEMMA CompensateTells ==
    ASSUME IInv, Story, NEW r \in Run, NEW remaining \in SUBSET Steps(r),
           NEW outcomes, NEW taken \in Seq(Nat),
           Compensate(r, remaining, outcomes, taken), status[r] = "none",
           {i \in Steps(r) : outcomes[i] \in Good} # Steps(r),
           remaining \subseteq {i \in Steps(r) : outcomes[i] \in {"verified", "missed"}},
           \A i \in ToSet(taken), k \in remaining : i > k,
           Backwards(r, outcomes, taken), UNCHANGED at
    PROVE  Story'
<1>1. /\ at' = [at EXCEPT ![r] = at[r]] /\ results' = [results EXCEPT ![r] = outcomes]
      /\ undone' = [undone EXCEPT ![r] = taken]
  BY Values DEF Compensate
<1>2. CASE /\ todo' = [todo EXCEPT ![r] = {}]
           /\ End(r, FailedStatus(VerifiedIn(r, outcomes), taken), owners)
  <2> DEFINE result == FailedStatus(VerifiedIn(r, outcomes), taken)
  <2>1. /\ status' = [status EXCEPT ![r] = result]
        /\ pc' = [pc EXCEPT ![r] = "append"]
    BY <1>2 DEF End, Go
  <2>2. Truthful(r, outcomes, taken, result)
    BY FailedIsTrue
  <2> HIDE DEF result
  <2>3. StoryWith(r, "append", at[r], outcomes, {}, taken, result)
    BY <2>2 DEF StoryWith, Running
  <2> QED
    BY <1>1, <1>2, <2>1, <2>3, StoryMoves
<1>3. ASSUME NEW i \in remaining, Go(r, "undo"), UNCHANGED status,
             todo' = [todo EXCEPT ![r] = {k \in remaining : k <= i}]
      PROVE  Story'
  <2> DEFINE left == {k \in remaining : k <= i}
  <2>1. left \subseteq remaining
    OBVIOUS
  <2>2. todo' = [todo EXCEPT ![r] = left]
    BY <1>3
  <2> HIDE DEF left
  <2>3. /\ pc' = [pc EXCEPT ![r] = "undo"]
        /\ status' = [status EXCEPT ![r] = "none"]
    BY <1>3, Values DEF Go
  <2>4. Truthful(r, outcomes, taken, "none")
    BY DEF Truthful
  <2>5. StoryWith(r, "undo", at[r], outcomes, left, taken, "none")
    BY <2>1, <2>4 DEF StoryWith
  <2> QED
    BY <1>1, <2>2, <2>3, <2>5, StoryMoves
<1> QED
  BY <1>2, <1>3 DEF Compensate

\* A step of r that changes only where it is and what it tells.
LEMMA PlainTells ==
    ASSUME IInv, Story, NEW r \in Run, NEW to, NEW result,
           pc' = [pc EXCEPT ![r] = to], status' = [status EXCEPT ![r] = result],
           StoryWith(r, to, at[r], results[r], todo[r], undone[r], result),
           UNCHANGED <<at, results, todo, undone>>
    PROVE  Story'
<1>1. pc \in [Run -> Place] /\ status \in [Run -> PlanStatus]
  BY DEF IInv, TypeOK
<1>2. ASSUME NEW q \in Run
      PROVE  StoryWith(q, pc'[q], at'[q], results'[q], todo'[q], undone'[q], status'[q])
  <2>1. CASE q = r
    BY <1>1, <2>1
  <2>2. CASE q # r
    <3>1. pc'[q] = pc[q] /\ status'[q] = status[q]
      BY <1>1, <2>2
    <3> QED
      BY <3>1 DEF Story
  <2> QED
    BY <2>1, <2>2
<1> QED
  BY <1>2 DEF Story, StoryWith, Truthful, Backwards, Steps

-----------------------------------------------------------------------------
(* Every action keeps the story.                                            *)

LEMMA AcquireTells ==
    ASSUME IInv, Story, NEW r \in Run, Acquire(r)
    PROVE  Story'
<1>1. /\ pc[r] = "idle" /\ Continue(r, 1, results[r], Reserved(r)) /\ 1 \in Nat /\ 1 > 0
      /\ UNCHANGED <<todo, undone>>
  BY DEF Acquire
<1>2. StoryWith(r, pc[r], at[r], results[r], todo[r], undone[r], status[r])
  BY DEF Story
<1>3. /\ undone[r] = <<>> /\ status[r] = "none"
      /\ \A k \in Steps(r) : results[r][k] = "open"
  BY <1>1, <1>2 DEF StoryWith
<1>4. \A k \in Steps(r) : ~ (k < 1)
  BY PlanAssumption DEF Steps
<1>5. results[r] \in Outcomes(r)
  BY Values
<1> QED
  BY <1>1, <1>3, <1>4, <1>5, ContinueTells

\* What the story says of a run at a step of its plan.
LEMMA AtStepStory ==
    ASSUME IInv, Story, NEW r \in Run, pc[r] \in {"call", "verify", "schedule"}
    PROVE  /\ undone[r] = <<>> /\ status[r] = "none"
           /\ \A k \in Steps(r) : IF k < at[r] THEN results[r][k] \in Good
                                  ELSE results[r][k] = "open"
BY DEF Story, StoryWith, Running

\* The step a run is at gets its outcome, and the others keep theirs.
LEMMA OneOutcome ==
    ASSUME IInv, NEW r \in Run, NEW i \in Steps(r), NEW x
    PROVE  /\ [results[r] EXCEPT ![i] = x][i] = x
           /\ \A k \in Steps(r) \ {i} : [results[r] EXCEPT ![i] = x][k] = results[r][k]
<1>1. Steps(r) = DOMAIN results[r]
  BY Values, PlanAssumption DEF Outcomes, Steps
<1> QED
  BY <1>1

LEMMA WentWell ==
    ASSUME IInv, Story, NEW r \in Run, Verified(r) \/ Planned(r)
    PROVE  Story'
<1>1. PICK x \in {"verified", "planned"} :
         /\ Continue(r, at[r] + 1, [results[r] EXCEPT ![at[r]] = x], owners)
         /\ UNCHANGED <<todo, undone>>
  BY DEF Verified, Planned
<1>2. pc[r] \in {"call", "verify", "schedule"}
  BY DEF Verified, Planned
<1> DEFINE out == [results[r] EXCEPT ![at[r]] = x]
<1>3. out \in Outcomes(r)
  BY <1>2, AtStep DEF StepResult
<1>4. out[at[r]] = x /\ \A k \in Steps(r) \ {at[r]} : out[k] = results[r][k]
  <2>1. at[r] \in Steps(r)
    BY <1>2, AtStep
  <2> QED
    BY <2>1, OneOutcome
<1> HIDE DEF out
<1>5. at[r] \in Nat /\ Steps(r) \subseteq Nat
  BY Values, PlanAssumption DEF Steps
<1>6. \A k \in Steps(r) : IF k < at[r] + 1 THEN out[k] \in Good ELSE out[k] = "open"
  BY <1>2, <1>4, <1>5, AtStepStory DEF Good
<1>7. Continue(r, at[r] + 1, out, owners) /\ at[r] + 1 \in Nat /\ at[r] + 1 > 0
  BY <1>1, <1>5 DEF out
<1> QED
  BY <1>1, <1>2, <1>3, <1>6, <1>7, AtStepStory, ContinueTells

LEMMA WentWrong ==
    ASSUME IInv, Story, NEW r \in Run, Rejected(r) \/ NotObserved(r)
    PROVE  Story'
<1>1. pc[r] \in {"call", "verify", "schedule"} /\ UNCHANGED at
  BY DEF Rejected, NotObserved
<1>2. PICK x \in {"rejected", "missed"}, remaining \in SUBSET Steps(r) :
         /\ remaining \subseteq VerifiedIn(r, results[r]) \cup {at[r]}
         /\ x = "rejected" => remaining = VerifiedIn(r, results[r])
         /\ Compensate(r, remaining, [results[r] EXCEPT ![at[r]] = x], undone[r])
  <2>1. CASE Rejected(r)
    BY <1>1, <2>1, AtStep DEF Rejected
  <2>2. CASE NotObserved(r)
    BY <1>1, <2>2, AtStep DEF NotObserved
  <2> QED
    BY <2>1, <2>2
<1> DEFINE out == [results[r] EXCEPT ![at[r]] = x]
<1>3. out[at[r]] = x /\ \A k \in Steps(r) \ {at[r]} : out[k] = results[r][k]
  <2>1. at[r] \in Steps(r)
    BY <1>1, AtStep
  <2> QED
    BY <2>1, OneOutcome
<1>4. Compensate(r, remaining, out, undone[r])
  BY <1>2
<1> HIDE DEF out
<1>5. at[r] \in Steps(r) /\ results[r][at[r]] = "open" /\ undone[r] = <<>> /\ status[r] = "none"
  BY <1>1, AtStep, AtStepStory
<1>6. {i \in Steps(r) : out[i] \in Good} # Steps(r)
  BY <1>3, <1>5 DEF Good
<1>7. remaining \subseteq {i \in Steps(r) : out[i] \in {"verified", "missed"}}
  BY <1>2, <1>3, <1>5 DEF VerifiedIn
<1>8. \A i \in ToSet(undone[r]), k \in remaining : i > k
  BY <1>5 DEF ToSet
<1>9. Backwards(r, out, undone[r]) /\ undone[r] \in Seq(Nat)
  BY <1>5, NothingTaken
<1> QED
  BY <1>1, <1>4, <1>5, <1>6, <1>7, <1>8, <1>9, CompensateTells

LEMMA NotPlannedTells ==
    ASSUME IInv, Story, NEW r \in Run, NotPlanned(r)
    PROVE  Story'
<1> DEFINE out == [results[r] EXCEPT ![at[r]] = "rejected"]
           result == FailedStatus(VerifiedIn(r, results[r]), <<>>)
<1>1. /\ pc[r] \in {"call", "verify", "schedule"} /\ UNCHANGED <<at, todo, undone>>
      /\ pc' = [pc EXCEPT ![r] = "append"] /\ status' = [status EXCEPT ![r] = result]
      /\ results' = [results EXCEPT ![r] = out]
  BY DEF NotPlanned, End, Go
<1>2. out[at[r]] = "rejected" /\ \A k \in Steps(r) \ {at[r]} : out[k] = results[r][k]
  <2>1. at[r] \in Steps(r)
    BY <1>1, AtStep
  <2> QED
    BY <2>1, OneOutcome
<1> HIDE DEF out
<1>3. at[r] \in Steps(r) /\ results[r][at[r]] = "open" /\ undone[r] = <<>>
  BY <1>1, AtStep, AtStepStory
<1>4. {i \in Steps(r) : out[i] \in Good} # Steps(r)
  BY <1>2, <1>3 DEF Good
<1>5. VerifiedIn(r, results[r]) = VerifiedIn(r, out)
  BY <1>2, <1>3 DEF VerifiedIn
<1>6. Truthful(r, out, <<>>, result)
  BY <1>4, <1>5, FailedIsTrue, NothingTaken
<1> HIDE DEF result
<1>7. StoryWith(r, "append", at[r], out, todo[r], <<>>, result)
  BY <1>6, NothingTaken DEF StoryWith, Running
<1>8. /\ at' = [at EXCEPT ![r] = at[r]] /\ todo' = [todo EXCEPT ![r] = todo[r]]
      /\ undone' = [undone EXCEPT ![r] = <<>>]
  BY <1>1, <1>3, Values
<1> QED
  BY <1>1, <1>7, <1>8, StoryMoves

\* A step that was taken back goes to the end of the list, and what is left
\* still lies before it.
LEMMA AppendBackwards ==
    ASSUME NEW r \in Run, NEW out, NEW taken \in Seq(Nat), NEW left \in SUBSET Nat,
           NEW i \in left, \A k \in left : k <= i,
           left \subseteq {k \in Steps(r) : out[k] \in {"verified", "missed"}},
           \A k \in ToSet(taken), l \in left : k > l, Backwards(r, out, taken)
    PROVE  /\ Append(taken, i) \in Seq(Nat) /\ Backwards(r, out, Append(taken, i))
           /\ \A k \in ToSet(Append(taken, i)), l \in left \ {i} : k > l
<1> DEFINE longer == Append(taken, i)
<1>1. /\ longer \in Seq(Nat) /\ Len(longer) = Len(taken) + 1
      /\ longer[Len(taken) + 1] = i /\ Len(taken) \in Nat
      /\ \A k \in 1 .. Len(taken) : longer[k] = taken[k]
  OBVIOUS
<1> HIDE DEF longer
<1>2. ToSet(longer) = ToSet(taken) \cup {i}
  <2>1. DOMAIN longer = 1 .. Len(taken) + 1 /\ DOMAIN taken = 1 .. Len(taken)
    BY <1>1
  <2>2. 1 .. Len(taken) + 1 = (1 .. Len(taken)) \cup {Len(taken) + 1}
    BY <1>1
  <2> QED
    BY <1>1, <2>1, <2>2 DEF ToSet
<1>3. ASSUME NEW k \in 1 .. Len(longer), NEW l \in 1 .. Len(longer), k < l
      PROVE  longer[k] > longer[l]
  <2>1. k \in 1 .. Len(taken)
    BY <1>1, <1>3
  <2>2. CASE l \in 1 .. Len(taken)
    BY <1>1, <1>3, <2>1, <2>2 DEF Backwards
  <2>3. CASE l = Len(taken) + 1
    <3>1. taken[k] \in ToSet(taken)
      BY <2>1 DEF ToSet
    <3> QED
      BY <1>1, <2>1, <2>3, <3>1
  <2> QED
    BY <1>1, <2>2, <2>3
<1>4. ToSet(longer) \subseteq {k \in Steps(r) : out[k] \in {"verified", "missed"}}
  BY <1>2 DEF Backwards
<1>5. \A k \in ToSet(longer), l \in left \ {i} : k > l
  <2>1. \A l \in left \ {i} : i > l
    OBVIOUS
  <2> QED
    BY <1>2, <2>1
<1> QED
  BY <1>1, <1>3, <1>4, <1>5 DEF Backwards, longer

LEMMA UndoTells ==
    ASSUME IInv, Story, NEW r \in Run, UndoAccepted(r) \/ UndoRejected(r)
    PROVE  Story'
<1>1. pc[r] = "undo" /\ UNCHANGED at
  BY DEF UndoAccepted, UndoRejected
<1>2. StoryWith(r, pc[r], at[r], results[r], todo[r], undone[r], status[r])
  BY DEF Story
<1>3. /\ status[r] = "none" /\ {i \in Steps(r) : results[r][i] \in Good} # Steps(r)
      /\ todo[r] \subseteq {i \in Steps(r) : results[r][i] \in {"verified", "missed"}}
      /\ \A i \in ToSet(undone[r]), k \in todo[r] : i > k
      /\ Backwards(r, results[r], undone[r])
      /\ todo[r] \in SUBSET Nat /\ undone[r] \in Seq(Nat)
  BY <1>1, <1>2, Values DEF StoryWith, Running
<1>4. CASE UndoAccepted(r)
  <2>1. PICK i \in todo[r] :
           /\ \A k \in todo[r] : k <= i
           /\ Compensate(r, todo[r] \ {i}, results[r], Append(undone[r], i))
    BY <1>4 DEF UndoAccepted
  <2>2. /\ Append(undone[r], i) \in Seq(Nat)
        /\ Backwards(r, results[r], Append(undone[r], i))
        /\ \A k \in ToSet(Append(undone[r], i)), l \in todo[r] \ {i} : k > l
    <3> DEFINE taken == undone[r]
               out == results[r]
               left == todo[r]
    <3>1. /\ taken \in Seq(Nat) /\ left \in SUBSET Nat /\ i \in left
          /\ \A k \in left : k <= i
          /\ left \subseteq {k \in Steps(r) : out[k] \in {"verified", "missed"}}
          /\ \A k \in ToSet(taken), l \in left : k > l
          /\ Backwards(r, out, taken)
      BY <1>3, <2>1
    <3> HIDE DEF taken, out, left
    <3>2. /\ Append(taken, i) \in Seq(Nat) /\ Backwards(r, out, Append(taken, i))
          /\ \A k \in ToSet(Append(taken, i)), l \in left \ {i} : k > l
      BY <3>1, AppendBackwards
    <3> QED
      BY <3>2 DEF taken, out, left
  <2>3. /\ todo[r] \ {i} \in SUBSET Steps(r)
        /\ todo[r] \ {i} \subseteq {k \in Steps(r) : results[r][k] \in {"verified", "missed"}}
    BY <1>3
  <2> QED
    BY <1>1, <1>3, <2>1, <2>2, <2>3, CompensateTells
<1>5. CASE UndoRejected(r)
  <2>1. PICK i \in todo[r] : Compensate(r, todo[r] \ {i}, results[r], undone[r])
    BY <1>5 DEF UndoRejected
  <2>2. /\ todo[r] \ {i} \in SUBSET Steps(r)
        /\ todo[r] \ {i} \subseteq {k \in Steps(r) : results[r][k] \in {"verified", "missed"}}
        /\ \A k \in ToSet(undone[r]), l \in todo[r] \ {i} : k > l
    BY <1>3
  <2> QED
    BY <1>1, <1>3, <2>1, <2>2, CompensateTells
<1> QED
  BY <1>4, <1>5

\* The steps that change neither results nor compensations.
LEMMA OthersTell ==
    ASSUME IInv, Story, NEW r \in Run, Refuse(r) \/ Accepted(r) \/ Abort(r) \/ Record(r)
    PROVE  Story'
<1>1. UNCHANGED <<at, results, todo, undone>>
  BY DEF Refuse, Accepted, Abort, Record, ReadRuns, WriteRuns
<1>2. StoryWith(r, pc[r], at[r], results[r], todo[r], undone[r], status[r])
  BY DEF Story
<1>3. CASE Refuse(r) \/ Abort(r)
  <2>1. PICK result \in {"conflict", "aborted"} :
           /\ pc' = [pc EXCEPT ![r] = "done"]
           /\ status' = [status EXCEPT ![r] = result]
    BY <1>3 DEF Refuse, Abort, Go
  <2>2. StoryWith(r, "done", at[r], results[r], todo[r], undone[r], result)
    BY <1>2 DEF StoryWith, Truthful, Running
  <2> QED
    BY <1>1, <2>1, <2>2, PlainTells
<1>4. CASE Accepted(r) \/ Record(r)
  <2>1. PICK to \in {"verify", "write", "done"} :
           /\ pc' = [pc EXCEPT ![r] = to]
           /\ to = "verify" => pc[r] = "call"
    BY <1>4 DEF Accepted, Record, ReadRuns, WriteRuns, Go
  <2>2. status' = [status EXCEPT ![r] = status[r]]
    BY <1>4, Values DEF Accepted, Record, ReadRuns, WriteRuns
  <2>3. StoryWith(r, to, at[r], results[r], todo[r], undone[r], status[r])
    BY <1>2, <2>1 DEF StoryWith, Running
  <2> QED
    BY <1>1, <2>1, <2>2, <2>3, PlainTells
<1> QED
  BY <1>3, <1>4

LEMMA RestartTells ==
    ASSUME IInv, Story, Restart
    PROVE  Story'
<1>1. SUFFICES ASSUME NEW q \in Run
               PROVE  StoryWith(q, pc'[q], at'[q], results'[q], todo'[q], undone'[q],
                                status'[q])
  BY DEF Story, StoryWith, Truthful, Backwards, Steps
<1>2. StoryWith(q, pc[q], at[q], results[q], todo[q], undone[q], status[q])
  BY DEF Story
<1>3. /\ pc'[q] = IF pc[q] = "idle" THEN "idle" ELSE "done"
      /\ status'[q] = IF pc[q] \in {"idle", "done"} THEN status[q] ELSE "aborted"
      /\ UNCHANGED <<at, results, todo, undone>>
  BY DEF Restart
<1> QED
  BY <1>2, <1>3 DEF StoryWith, Truthful, Running

LEMMA StoryHolds == Spec => []Story
<1>1. Init => Story
  <2> SUFFICES ASSUME Init, NEW r \in Run
               PROVE  StoryWith(r, pc[r], at[r], results[r], todo[r], undone[r], status[r])
    BY DEF Story
  <2>1. /\ pc[r] = "idle" /\ undone[r] = <<>> /\ status[r] = "none"
        /\ \A i \in Steps(r) : results[r][i] = "open"
    BY DEF Init
  <2> QED
    BY <2>1, NothingTaken DEF StoryWith, Truthful
<1>2. IInv /\ Story /\ [Next]_vars => Story'
  <2> SUFFICES ASSUME IInv, Story, [Next]_vars
               PROVE  Story'
    OBVIOUS
  <2>1. ASSUME NEW r \in Run, Answer(r) \/ Work(r) \/ Abort(r) \/ Record(r)
        PROVE  Story'
    BY <2>1, AcquireTells, WentWell, WentWrong, NotPlannedTells, UndoTells, OthersTell
       DEF Answer, Work
  <2>2. CASE World \/ UNCHANGED vars
    <3>1. UNCHANGED <<pc, at, results, todo, undone, status>>
      BY <2>2 DEF World, React, Lose, Foreign, Observe, Expire, vars
    <3> QED
      BY <3>1 DEF Story, StoryWith, Truthful, Backwards, Steps
  <2> QED
    BY <2>1, <2>2, RestartTells DEF Next
<1> QED
  BY <1>1, <1>2, InvariantHolds, PTL DEF Spec

\* Only steps with an effect are taken back, backwards and at most once.
THEOREM CompensationRunsBackwards == Spec => []ReverseOrder
<1>1. Story => ReverseOrder
  BY DEF Story, StoryWith, Backwards, ReverseOrder, Having
<1> QED
  BY <1>1, StoryHolds, PTL

\* What a run is said to have done it has done, whatever went wrong on its way.
THEOREM ResultsAreTrue == Spec => []ResultIsTruthful
<1>1. Story => ResultIsTruthful
  BY DEF Story, StoryWith, Truthful, Good, ResultIsTruthful, Having
<1> QED
  BY <1>1, StoryHolds, PTL
-----------------------------------------------------------------------------
(* The goal-run file.                                                       *)

\* Only the run inside the lock writes, and what it read is still the file.
Locked ==
    /\ \A r \in Run : pc[r] = "write" <=> reader = r
    /\ reader # NoRun => copy = file

\* The runs with a record to keep, up to the limit of the file.
Finished == {r \in Run : pc[r] = "done" /\ status[r] \in Ended}

Kept == IsFiniteSet(Finished) /\ Locked /\ RunsKept

\* A step of a run that is neither at its record nor ends with one.
Elsewhere(r, to) ==
    /\ pc[r] \notin {"write", "done"} /\ pc' = [pc EXCEPT ![r] = to]
    /\ to # "write" /\ (to = "done" => status'[r] \notin Ended)
    /\ \A q \in Run \ {r} : status'[q] = status[q]
    /\ UNCHANGED store

LEMMA ElsewhereKeeps ==
    ASSUME IInv, Kept, NEW r \in Run, NEW to, Elsewhere(r, to)
    PROVE  Kept'
<1>1. pc \in [Run -> Place]
  BY DEF IInv, TypeOK
<1>2. /\ pc'[r] = to /\ \A q \in Run \ {r} : pc'[q] = pc[q] /\ status'[q] = status[q]
      /\ UNCHANGED <<file, reader, copy>>
  BY <1>1 DEF Elsewhere, store
<1>3. Finished' = Finished
  BY <1>2 DEF Finished, Elsewhere
<1>4. \A q \in Finished : q # r
  BY DEF Finished, Elsewhere
<1>5. Locked'
  BY <1>2 DEF Kept, Locked, Elsewhere
<1>6. RunsKept'
  <2>1. /\ Len(file) = IF Cardinality(Finished) > Limit THEN Limit ELSE Cardinality(Finished)
        /\ \A i \in 1 .. Len(file) :
              file[i].run \in Finished /\ file[i].status = status[file[i].run]
        /\ \A i, j \in 1 .. Len(file) : file[i].run = file[j].run => i = j
    BY DEF Kept, RunsKept, Finished
  <2>2. \A i \in 1 .. Len(file) : status'[file[i].run] = status[file[i].run]
    BY <1>2, <1>4, <2>1 DEF Finished
  <2> QED
    BY <1>2, <1>3, <2>1, <2>2 DEF RunsKept, Finished
<1> QED
  BY <1>3, <1>5, <1>6 DEF Kept

\* Where the steps of a turn go.
LEMMA TurnsElsewhere ==
    ASSUME IInv, NEW r \in Run, Answer(r) \/ Work(r) \/ Abort(r)
    PROVE  \E to : Elsewhere(r, to)
<1>1. /\ pc[r] \in Running \cup {"idle"} /\ UNCHANGED store
  BY DEF Answer, Acquire, Refuse, Work, Accepted, Rejected, Verified, NotObserved, Planned,
         NotPlanned, UndoAccepted, UndoRejected, Abort, Running
<1>2. status \in [Run -> PlanStatus]
  BY DEF IInv, TypeOK
<1>3. \E to \in Running \cup {"append", "done"} :
         /\ pc' = [pc EXCEPT ![r] = to]
         /\ to = "done" => status'[r] \in {"conflict", "aborted"}
         /\ \A q \in Run \ {r} : status'[q] = status[q]
  <2>1. ASSUME NEW i, NEW outcomes, NEW held, Continue(r, i, outcomes, held)
        PROVE  \E to \in {"append", "schedule", "call"} :
                  /\ pc' = [pc EXCEPT ![r] = to]
                  /\ \A q \in Run \ {r} : status'[q] = status[q]
    BY <1>2, <2>1 DEF Continue, PlanDone, TargetGone, StartStep, End, Go
  <2>2. ASSUME NEW remaining, NEW outcomes, NEW taken, Compensate(r, remaining, outcomes, taken)
        PROVE  \E to \in {"append", "undo"} :
                  /\ pc' = [pc EXCEPT ![r] = to]
                  /\ \A q \in Run \ {r} : status'[q] = status[q]
    BY <1>2, <2>2 DEF Compensate, End, Go
  <2>3. CASE Acquire(r) \/ Verified(r) \/ Planned(r)
    BY <2>1, <2>3 DEF Acquire, Verified, Planned, Running
  <2>4. CASE Rejected(r) \/ NotObserved(r) \/ UndoAccepted(r) \/ UndoRejected(r)
    BY <2>2, <2>4 DEF Rejected, NotObserved, UndoAccepted, UndoRejected, Running
  <2>5. CASE Refuse(r) \/ Abort(r)
    BY <1>2, <2>5 DEF Refuse, Abort, Go
  <2>6. CASE NotPlanned(r)
    BY <1>2, <2>6 DEF NotPlanned, End, Go
  <2>7. CASE Accepted(r)
    BY <2>7 DEF Accepted, Go, Running
  <2> QED
    BY <2>3, <2>4, <2>5, <2>6, <2>7 DEF Answer, Work
<1> QED
  BY <1>1, <1>2, <1>3 DEF Elsewhere, Running, Ended

LEMMA ReadKeeps ==
    ASSUME IInv, Kept, NEW r \in Run, ReadRuns(r)
    PROVE  Kept'
<1>1. pc \in [Run -> Place]
  BY DEF IInv, TypeOK
<1>2. /\ pc[r] = "append" /\ reader = NoRun /\ reader' = r /\ copy' = file
      /\ pc'[r] = "write" /\ \A q \in Run \ {r} : pc'[q] = pc[q]
      /\ UNCHANGED <<file, status>>
  BY <1>1 DEF ReadRuns, Go
<1>3. Finished' = Finished
  BY <1>2 DEF Finished
<1>4. Locked'
  BY <1>2, OwnerAssumption DEF Kept, Locked
<1>5. RunsKept'
  BY <1>2, <1>3 DEF Kept, RunsKept, Finished
<1> QED
  BY <1>3, <1>4, <1>5 DEF Kept

\* A file of at most limit records and one more, without the oldest if they
\* are too many.
LEMMA NewestOf ==
    ASSUME NEW records \in Seq(RunRecord), Len(records) <= Limit, NEW x \in RunRecord
    PROVE  LET longer == Newest(Append(records, x))
           IN  /\ Len(longer) = IF Len(records) = Limit THEN Limit ELSE Len(records) + 1
               /\ \E shift \in {0, 1} :
                     \A i \in 1 .. Len(longer) :
                        \/ i + shift \in 1 .. Len(records) /\ longer[i] = records[i + shift]
                        \/ i + shift = Len(records) + 1 /\ longer[i] = x
<1> DEFINE all == Append(records, x)
<1>1. /\ all \in Seq(RunRecord) /\ Len(all) = Len(records) + 1 /\ Len(records) \in Nat
      /\ all[Len(records) + 1] = x
      /\ \A i \in 1 .. Len(records) : all[i] = records[i]
      /\ Limit \in Nat /\ Limit > 0
  BY BoundAssumption
<1> HIDE DEF all
<1>2. CASE Len(records) = Limit
  <2>1. Newest(all) = Tail(all) /\ Len(Tail(all)) = Len(records)
    BY <1>1, <1>2 DEF Newest
  <2>2. \A i \in 1 .. Len(records) : Tail(all)[i] = all[i + 1]
    BY <1>1
  <2> QED
    BY <1>1, <1>2, <2>1, <2>2 DEF all
<1>3. CASE Len(records) # Limit
  <2>1. Newest(all) = all
    BY <1>1, <1>3 DEF Newest
  <2> QED
    BY <1>1, <1>3, <2>1 DEF all
<1> QED
  BY <1>2, <1>3

LEMMA WriteKeeps ==
    ASSUME IInv, Kept, NEW r \in Run, WriteRuns(r)
    PROVE  Kept'
<1>1. /\ pc \in [Run -> Place] /\ status[r] \in Ended /\ RunOf(r) \in RunRecord
      /\ file \in Seq(RunRecord)
  BY DEF IInv, TypeOK, AtWork, WriteRuns, RunOf, RunRecord
<1>2. /\ pc[r] = "write" /\ reader = r /\ copy = file /\ reader' = NoRun
      /\ pc'[r] = "done" /\ \A q \in Run \ {r} : pc'[q] = pc[q]
      /\ UNCHANGED status
  BY <1>1, OwnerAssumption DEF WriteRuns, Go, Kept, Locked
<1>3. r \notin Finished /\ Finished' = Finished \cup {r}
  BY <1>1, <1>2 DEF Finished
<1>4. /\ IsFiniteSet(Finished') /\ Cardinality(Finished') = Cardinality(Finished) + 1
      /\ Cardinality(Finished) \in Nat
  BY <1>3, FS_AddElement, FS_CardinalityType DEF Kept
<1>5. /\ Len(file) = IF Cardinality(Finished) > Limit THEN Limit ELSE Cardinality(Finished)
      /\ \A i \in 1 .. Len(file) :
            file[i].run \in Finished /\ file[i].status = status[file[i].run]
      /\ \A i, j \in 1 .. Len(file) : file[i].run = file[j].run => i = j
  BY DEF Kept, RunsKept, Finished
<1>6. Without(copy, r) = file
  <2>1. ~ \E i \in 1 .. Len(copy) : copy[i].run = r
    BY <1>2, <1>3, <1>5
  <2> QED
    BY <1>2, <2>1, Zenon DEF Without
<1>7. file' = Newest(Append(file, RunOf(r)))
  BY <1>6 DEF WriteRuns
<1>8. Limit \in Nat /\ Len(file) <= Limit /\ Len(file) \in Nat
  BY <1>1, <1>4, <1>5, BoundAssumption
<1>9. PICK shift \in {0, 1} :
         \A i \in 1 .. Len(file') :
            \/ i + shift \in 1 .. Len(file) /\ file'[i] = file[i + shift]
            \/ i + shift = Len(file) + 1 /\ file'[i] = RunOf(r)
  BY <1>1, <1>7, <1>8, NewestOf
<1>10. Len(file') = IF Cardinality(Finished') > Limit THEN Limit ELSE Cardinality(Finished')
  <2>1. Len(file') = IF Len(file) = Limit THEN Limit ELSE Len(file) + 1
    BY <1>1, <1>7, <1>8, NewestOf
  <2> QED
    BY <1>4, <1>5, <1>8, <2>1
<1>11. \A i \in 1 .. Len(file') :
          file'[i].run \in Finished' /\ file'[i].status = status'[file'[i].run]
  <2>1. RunOf(r).run = r /\ RunOf(r).status = status[r]
    BY DEF RunOf
  <2> QED
    BY <1>2, <1>3, <1>5, <1>9, <2>1
<1>12. \A i, j \in 1 .. Len(file') : file'[i].run = file'[j].run => i = j
  <2>1. SUFFICES ASSUME NEW i \in 1 .. Len(file'), NEW j \in 1 .. Len(file'),
                        file'[i].run = file'[j].run
                 PROVE  i = j
    OBVIOUS
  <2>2. RunOf(r).run = r /\ \A k \in 1 .. Len(file) : file[k].run # r
    BY <1>3, <1>5 DEF RunOf
  <2> DEFINE a == i + shift
             b == j + shift
  <2>3. /\ \/ a \in 1 .. Len(file) /\ file'[i] = file[a]
           \/ a = Len(file) + 1 /\ file'[i] = RunOf(r)
        /\ \/ b \in 1 .. Len(file) /\ file'[j] = file[b]
           \/ b = Len(file) + 1 /\ file'[j] = RunOf(r)
    BY <1>9
  <2>4. a = b => i = j
    OBVIOUS
  <2> HIDE DEF a, b
  <2>5. CASE a \in 1 .. Len(file) /\ file'[i] = file[a]
    <3>1. CASE b \in 1 .. Len(file) /\ file'[j] = file[b]
      <4>1. file[a].run = file[b].run
        BY <2>1, <2>5, <3>1
      <4>2. a = b
        BY <1>5, <2>5, <3>1, <4>1
      <4> QED
        BY <2>4, <4>2
    <3>2. CASE b = Len(file) + 1 /\ file'[j] = RunOf(r)
      BY <2>1, <2>2, <2>5, <3>2
    <3> QED
      BY <2>3, <3>1, <3>2
  <2>6. CASE a = Len(file) + 1 /\ file'[i] = RunOf(r)
    BY <2>1, <2>2, <2>3, <2>4, <2>6
  <2> QED
    BY <2>3, <2>5, <2>6
<1>13. Locked'
  BY <1>2, OwnerAssumption DEF Kept, Locked
<1>14. RunsKept'
  BY <1>10, <1>11, <1>12 DEF RunsKept, Finished
<1> QED
  BY <1>4, <1>13, <1>14 DEF Kept

LEMMA RestartLoses ==
    ASSUME IInv, Kept, Restart
    PROVE  Kept'
<1>1. /\ \A r \in Run : pc'[r] = IF pc[r] = "idle" THEN "idle" ELSE "done"
      /\ \A r \in Run : status'[r] = IF pc[r] \in {"idle", "done"} THEN status[r]
                                     ELSE "aborted"
      /\ reader' = NoRun /\ file' = file
  BY DEF Restart
<1>2. Finished' = Finished /\ \A r \in Finished : status'[r] = status[r]
  BY <1>1 DEF Finished, Ended
<1>3. Locked'
  BY <1>1, OwnerAssumption DEF Locked
<1>4. RunsKept'
  BY <1>1, <1>2 DEF Kept, RunsKept, Finished
<1> QED
  BY <1>2, <1>3, <1>4 DEF Kept

\* The file keeps the record of every run that ended, once, up to its limit,
\* although runs that end together read and write it in turns and a restart
\* may cut each of them off.
THEOREM NoRecordIsLost == Spec => []RunsKept
<1>1. Init => Kept
  <2> SUFFICES ASSUME Init
               PROVE  Kept
    OBVIOUS
  <2>1. Finished = {} /\ IsFiniteSet(Finished) /\ Cardinality(Finished) = 0
    BY FS_EmptySet DEF Init, Finished
  <2>2. Len(file) = 0 /\ file = <<>> /\ Limit \in Nat
    BY BoundAssumption DEF Init
  <2>3. Locked
    BY OwnerAssumption DEF Init, Locked
  <2>4. RunsKept
    BY <2>1, <2>2 DEF RunsKept, Finished
  <2> QED
    BY <2>1, <2>3, <2>4 DEF Kept
<1>2. IInv /\ Kept /\ [Next]_vars => Kept'
  <2> SUFFICES ASSUME IInv, Kept, [Next]_vars
               PROVE  Kept'
    OBVIOUS
  <2>1. ASSUME NEW r \in Run, Answer(r) \/ Work(r) \/ Abort(r)
        PROVE  Kept'
    BY <2>1, TurnsElsewhere, ElsewhereKeeps
  <2>2. ASSUME NEW r \in Run, Record(r)
        PROVE  Kept'
    BY <2>2, ReadKeeps, WriteKeeps DEF Record
  <2>3. CASE World \/ UNCHANGED vars
    <3>1. UNCHANGED <<pc, status, file, reader, copy>>
      BY <2>3 DEF World, React, Lose, Foreign, Observe, Expire, vars, store
    <3> QED
      BY <3>1 DEF Kept, Locked, RunsKept, Finished
  <2> QED
    BY <2>1, <2>2, <2>3, RestartLoses DEF Next
<1>3. Kept => RunsKept
  BY DEF Kept
<1> QED
  BY <1>1, <1>2, <1>3, InvariantHolds, PTL DEF Spec
=============================================================================
