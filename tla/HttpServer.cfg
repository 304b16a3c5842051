SPECIFICATION Spec
CONSTANTS
    Streams <- MCStreams
INVARIANTS CutsDoNotMatter NoRequestWaits AnsweredInOrder
CHECK_DEADLOCK FALSE
