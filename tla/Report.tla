---------------------------------- MODULE Report ---------------------------------
(****************************************************************************)
(* The report of a change: Build of internal/compare/diff.go, over Beautify *)
(* of internal/extract/format.go, and parseDiff of internal/report/         *)
(* change.go, which reads the unified diff line by line and numbers the     *)
(* rows.  A content is a sequence of lines and whether the last one ends    *)
(* with a newline; a line is a name, and what matters of its text is what   *)
(* beautifying makes of it and how it begins.                               *)
(****************************************************************************)
EXTENDS Integers, SequencesExt

CONSTANTS
    Lines,
    Pretty,     \* line -> what the formatter makes of it
    Dashes,     \* lines that begin with "--"
    Pluses,     \* lines that begin with "++"
    Blank,      \* the empty line
    Context,    \* unchanged lines shown around a change, 3 in the code
    MaxLines    \* bound on the lines of a content

ASSUME ReportAssumption ==
    /\ Pretty \in [Lines -> Lines]
    /\ Dashes \subseteq Lines /\ Pluses \subseteq Lines
    /\ Context \in Nat \ {0} /\ MaxLines \in Nat

VARIABLES
    old, new,     \* the contents of the two snapshots
    diff,         \* the lines of the unified diff left to read, [sign, line]
    counts,       \* lines it adds and removes
    oldLine,      \* the number of the next line of the old text
    newLine,      \* and of the new one
    rows,         \* the rows of the report so far
    outcome       \* "reading", "rendered" or "failed"

reportVars == <<old, new, diff, counts, oldLine, newLine, rows, outcome>>

(* What ends without a newline ends with a line that is not empty; the      *)
(* empty content has no line.                                               *)
Content ==
    {c \in [lines: UNION {[1..n -> Lines] : n \in 0..MaxLines}, newline: BOOLEAN] :
        c.newline \/ (c.lines # <<>> /\ Last(c.lines) # Blank)}

--------------------------------------------------------------------------------
(* Build *)

(* ensureTrailingNewline and trailingNewline: texts are equal when their    *)
(* lines are, whether or not the last one ended.                            *)
Beautify(c) == [i \in DOMAIN c.lines |-> Pretty[c.lines[i]]]

Raw(c) == c.lines

(* Faulty variant, which the runs must reject: no second look.              *)
ComparedPretty(c, d) == <<Beautify(c), Beautify(d)>>

(* The two texts that are compared: the raw ones when only the formatter    *)
(* took the difference away.                                                *)
Compared(c, d) ==
    IF c # d /\ Beautify(c) = Beautify(d) THEN <<Raw(c), Raw(d)>>
    ELSE <<Beautify(c), Beautify(d)>>

Marked(sign, s) == [i \in DOMAIN s |-> [sign |-> sign, line |-> s[i]]]

(* difflib: SplitLines leaves an empty last line; one hunk holds what is    *)
(* between the lines both texts begin and end with, the removed lines       *)
(* first, and some of those lines around it.  Equal texts have no hunk.     *)
Split(text) == Append(text, Blank)

Common(a, b) == LongestCommonPrefix({a, b})

Hunk(a, b) ==
    LET prefix == Common(a, b)
        rest(u) == SubSeq(u, Len(prefix) + 1, Len(u))
        suffix == Reverse(Common(Reverse(rest(a)), Reverse(rest(b))))
        middle(u) == SubSeq(rest(u), 1, Len(rest(u)) - Len(suffix))
        first == Max({1, Len(prefix) - Context + 1})
        last == Min({Len(suffix), Context}) IN
    [start |-> first,
     lines |-> Marked(" ", SubSeq(prefix, first, Len(prefix)))
               \o Marked("-", middle(a)) \o Marked("+", middle(b))
               \o Marked(" ", SubSeq(suffix, 1, last))]

UnifiedDiff(a, b) == IF a = b THEN [start |-> 1, lines |-> <<>>] ELSE Hunk(a, b)

(* A line of the diff is its sign and the line: after "-", one that begins  *)
(* with "--" looks like the name of a file.                                 *)
LooksLikeHeader(l) ==
    (l.sign = "-" /\ l.line \in Dashes) \/ (l.sign = "+" /\ l.line \in Pluses)

Counts(lines) ==
    [sign \in {"-", "+"} |->
        Cardinality({i \in DOMAIN lines :
                        lines[i].sign = sign /\ ~LooksLikeHeader(lines[i])})]

OldText == Split(Compared(old, new)[1])
NewText == Split(Compared(old, new)[2])

ReportInit ==
    /\ old \in Content /\ new \in Content
    /\ old # new
    /\ LET hunk == UnifiedDiff(OldText, NewText) IN
         /\ diff = hunk.lines
         /\ counts = Counts(hunk.lines)
         /\ oldLine = hunk.start /\ newLine = hunk.start
    /\ rows = <<>>
    /\ outcome = "reading"

--------------------------------------------------------------------------------
(* parseDiff *)

Row(l) ==
    [old |-> IF l.sign = "+" THEN 0 ELSE oldLine,
     new |-> IF l.sign = "-" THEN 0 ELSE newLine,
     sign |-> l.sign, code |-> l.line]

(* Faulty variant, which the runs must reject: both numbers move on.        *)
ReadLineBoth ==
    /\ outcome = "reading" /\ diff # <<>>
    /\ rows' = Append(rows, Row(Head(diff)))
    /\ oldLine' = oldLine + 1
    /\ newLine' = newLine + 1
    /\ diff' = Tail(diff)
    /\ UNCHANGED <<old, new, counts, outcome>>

(* A line that looks like a header is left out and not counted.             *)
ReadLine ==
    /\ outcome = "reading" /\ diff # <<>>
    /\ LET l == Head(diff) IN
         IF LooksLikeHeader(l) THEN UNCHANGED <<rows, oldLine, newLine>>
         ELSE /\ rows' = Append(rows, Row(l))
              /\ oldLine' = IF l.sign = "+" THEN oldLine ELSE oldLine + 1
              /\ newLine' = IF l.sign = "-" THEN newLine ELSE newLine + 1
    /\ diff' = Tail(diff)
    /\ UNCHANGED <<old, new, counts, outcome>>

(* A report without a row is an error.                                      *)
Render ==
    /\ outcome = "reading" /\ diff = <<>>
    /\ outcome' = IF rows = <<>> THEN "failed" ELSE "rendered"
    /\ UNCHANGED <<old, new, diff, counts, oldLine, newLine, rows>>

ReportNext == ReadLine \/ Render

ReportSpec == ReportInit /\ [][ReportNext]_reportVars

--------------------------------------------------------------------------------
(* Properties *)

Numbered(text) == {<<i, text[i]>> : i \in DOMAIN text}

NumbersOf(side) == {rows[i][side] : i \in DOMAIN rows}

(* The lines of a text that the report does not show.                       *)
Unshown(text, shown) ==
    LET hidden == {i \in DOMAIN text : i \notin shown} IN
    [k \in 1..Cardinality(hidden) |->
        text[CHOOSE i \in hidden : Cardinality({j \in hidden : j < i}) = k - 1]]

(* Each row shows the line of the number it gives, what is not shown is the *)
(* same in both texts, and as many rows are marked as the message counts.   *)
RowsFaithful ==
    outcome = "rendered" =>
        /\ \A i \in DOMAIN rows :
             /\ rows[i].old > 0 => <<rows[i].old, rows[i].code>> \in Numbered(OldText)
             /\ rows[i].new > 0 => <<rows[i].new, rows[i].code>> \in Numbered(NewText)
        /\ Unshown(OldText, NumbersOf("old")) = Unshown(NewText, NumbersOf("new"))
        /\ \A sign \in {"-", "+"} :
             counts[sign] = Cardinality({i \in DOMAIN rows : rows[i].sign = sign})

(* A change that only the formatter takes away is shown as it is, and no    *)
(* change of a line leaves the report without a row, which would keep the   *)
(* check from being recorded.                                               *)
LinesDisplayable ==
    outcome = "failed" => old.lines = new.lines

(* Every change of a content can be reported.                               *)
Displayable == outcome # "failed"
================================================================================
