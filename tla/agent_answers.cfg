CONSTANTS
  e1 = e1
  e2 = e2
  k1 = k1
  k2 = k2
  p1 = p1
  p2 = p2
  Boot = Boot
  None = None
  Events = {e1, e2}
  Keys = {k1, k2}
  RuleKeys = {k2}
  Signals <- MixedSignals
  Workers = {p1, p2}
  Life = 1
  Cooldown = 1
  Snooze = 1
  MaxTime = 2
  MaxAnswers = 2
  MaxCrashes = 0
  DeliveryRaces = FALSE
  TriggerFails = FALSE
SPECIFICATION Spec
SYMMETRY Symmetry
INVARIANTS TypeOK OneOpenPerKey ExecutedOnce
PROPERTIES AnswerStands VoiceUnambiguous
