CONSTANT PollLimit = 3
SPECIFICATION Spec
INVARIANTS RunsWhole OwnResult HaltedAfterOk
PROPERTIES MaskChangesHalted CallReturns
