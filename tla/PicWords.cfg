SPECIFICATION Spec
CONSTANT QuietUntil = 13
INVARIANT BothInitialized
PROPERTY SlaveEoiReachesMaster
