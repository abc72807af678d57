SPECIFICATION Spec
CONSTANTS
    Schedulers = {s1, s2}
    Main = main
    Activators = {a1}
    Loader = a1
    Submitters = {u1}
    Nobody = nobody
    Limit = 1
    MaxPerStep = 2
    MaxCalls = 3
INVARIANTS NotStranded OnlyLastDropped
PROPERTIES RefinesSerialQueue EveryCallbackRuns ShutdownEnds
