SPECIFICATION Spec
CONSTANTS
    Cols = 2
    Rows = 2
    Start = 1
    Chars = {"a"}
    CommandSize = 3
    Byte = 4
    Hello <- MCHello
    Prompt = 1
    Outputs = {1, 3}
    MaxOff = 2
    MaxColumn = 2
INVARIANT QuietLineRuns
PROPERTIES PrintStaysOnScreen EnterIsAnswered
CHECK_DEADLOCK FALSE
