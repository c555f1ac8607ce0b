SPECIFICATION ReplyFairSpec
CONSTANTS
    Turns = {t1, t2}
    Keyed <- NoKeys
    MaxClock = 1
    Capacity = 1
    Minute = 1
    MaxConcurrent = 1
    e0 = e0
    e1 = e1
    e2 = e2
    e3 = e3
    e4 = e4
    e5 = e5
    e6 = e6
    brief = brief
    agenda = agenda
    mood = mood
    tasks = tasks
    Modules <- MCModules
    Starts <- MCStarts
    IdOf <- MCIdOf
    ExamplesOf <- MCExamplesOf
    IntentOf <- MCIntentOf
    LanesOf <- MCLanesOf
    Scores = {49, 64, 72}
    MaxFragments = 2
    MaxSkillCalls = 1
    Ids = {v1, v2, v3, v4}
    semanticTopK = 3
    maxChars = 3
INVARIANT SlotsMatchCalls
INVARIANT RateHeld
INVARIANT SpokenIsRecorded
INVARIANT DecisionIsReference
INVARIANT RecallIsReference
PROPERTY ReplyEnds
PROPERTY CallIsFirstAnswer
CHECK_DEADLOCK FALSE
