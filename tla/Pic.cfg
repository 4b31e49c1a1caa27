SPECIFICATION FairSpec
CONSTANT QuietUntil = 13
PROPERTY Served
