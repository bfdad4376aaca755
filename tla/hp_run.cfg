CONSTANTS
    MaxOut = 3
    PipeCap = 1
    KeepOut = 2
    KeepErr = 1
SPECIFICATION FairSpec
INVARIANTS TokenFromWholeOutput HelpersAreHeard
PROPERTIES RunsSettle TimedOutHelpersDie StuckGroupsDie
CHECK_DEADLOCK FALSE
