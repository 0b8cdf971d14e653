\* Intervals in words of seven bits; contents of up to three lines.
SPECIFICATION TextsSpec
CONSTANTS
    p = p
    q = q
    spaced = spaced
    blank = blank
    None = None
    Algorithms = {"interval", "report"}
    Bits = 7
    Minute = 2
    Hour = 4
    DayHours = 2
    WeekHours = 6
    Numbers <- MCNumbers
    MaxLength = 3
    Lines = {p, q, spaced, blank}
    Blank = blank
    Pretty <- MCPretty
    Dashes = {}
    Pluses = {}
    Context = 1
    MaxLines = 3
CHECK_DEADLOCK FALSE
INVARIANTS
    ReadExactly
    RoundTrip
    RowsFaithful
    LinesDisplayable
