SPECIFICATION FairLiveSpec
CONSTANTS
    Callers = {loop, telegram, health}
    Nobody = nobody
    Cap = 3
    Window = 3
    Attempts = 3
INVARIANTS LiveTypeOK AtMostOnce RaisedMeansUnsent RateKept
PROPERTIES CallsReturn CallsAreOneStep
