SPECIFICATION Spec
CONSTANT QuietUntil = 10
INVARIANT TickFindsKernelReady
