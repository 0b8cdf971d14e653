\* A change of a content that no report can show.
SPECIFICATION TextsSpec
CONSTANTS
    p = p
    q = q
    spaced = spaced
    blank = blank
    None = None
    Algorithms = {"report"}
    Bits = 7
    Minute = 2
    Hour = 4
    DayHours = 2
    WeekHours = 6
    Numbers <- MCNumbers
    MaxLength = 3
    Lines = {p, q, spaced, blank}
    Blank = blank
    Pretty <- MCPretty
    Dashes = {}
    Pluses = {}
    Context = 3
    MaxLines = 1
CHECK_DEADLOCK FALSE
INVARIANT
    Displayable
