SPECIFICATION Spec
CONSTANT NUM_PROCESSES = 3
PROPERTY KeysFollowFingers
