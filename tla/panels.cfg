SPECIFICATION PanelsSpec
CONSTANTS
    Handlings = {h1}
    Rows = {r1, r2}
    FirstRows = {r1}
    Reminders = {m1}
    MaxHappenings = 2
    MaxFetches = 2
INVARIANT SpokenOutcomeTrue
PROPERTY StoresConverge
CHECK_DEADLOCK FALSE
