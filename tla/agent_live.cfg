CONSTANTS
  e1 = e1
  e2 = e2
  k1 = k1
  k2 = k2
  p1 = p1
  p2 = p2
  Boot = Boot
  None = None
  Events = {e1}
  Keys = {k1, k2}
  RuleKeys = {k2}
  Signals <- TwoQuestions
  Workers = {p1}
  Life = 2
  Cooldown = 1
  Snooze = 1
  MaxTime = 2
  MaxAnswers = 2
  MaxCrashes = 1
  DeliveryRaces = FALSE
  TriggerFails = TRUE
SPECIFICATION FairSpec
INVARIANTS ExecutedOnce
PROPERTIES AnswerStands SnoozeComesBack
