SPECIFICATION Spec
CONSTANTS
    ann = ann
    bob = bob
    nobody = nobody
    t1 = t1
    t2 = t2
    Turns = {t1, t2}
    Speakers = {ann, bob}
    Kinds <- MCKinds
    LongTTL = 1
    ShortTTL = 1
    MaxQuestions = 2
SYMMETRY Symmetry
INVARIANTS
    TypeOK
    AnswersWhatWasHeard
    
    OwnersAnswer
