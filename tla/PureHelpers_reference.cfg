\* Every call of every helper on a 4-bit int and strings of up to 2 bytes.
CONSTANTS
    Width = 4
    Bytes = {"a", "b"}
    MaxStrLen = 2
SPECIFICATION Spec
\* A call returns once; there is nothing after it.
CHECK_DEADLOCK FALSE
INVARIANT HelpersMatchReference
