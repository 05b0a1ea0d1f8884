-------------------------- MODULE MCGoalExecution --------------------------
(* A small house for GoalExecution: a lamp and a heating, and two goals     *)
(* that both want both: one step of the second is put off until later.      *)
EXTENDS GoalExecution, TLC

CONSTANTS lamp, heating, evening, night

Evening == << [dev |-> lamp, want |-> "on", back |-> "off", later |-> FALSE],
              [dev |-> heating, want |-> "on", back |-> "off", later |-> FALSE] >>
Night == << [dev |-> heating, want |-> "off", back |-> "on", later |-> TRUE],
            [dev |-> lamp, want |-> "off", back |-> "none", later |-> FALSE] >>

MCPlan == evening :> Evening @@ night :> Night
=============================================================================
