CONSTANTS
    Threads = {"w2"}
    SinkNames = {"file"}
    MaxEntries = 1
    MaxChanges = 0
    Disciplined = FALSE
SPECIFICATION Spec
INVARIANT SinkExclusive
CHECK_DEADLOCK FALSE
