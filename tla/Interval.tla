-------------------------------- MODULE Interval --------------------------------
(****************************************************************************)
(* Check intervals as text: parseInterval of cmd/fetchdiff/interval.go,     *)
(* which adds the components of a text such as 1w2d3h in signed words, and  *)
(* compactDuration of cmd/fetchdiff/table.go, which writes an interval as   *)
(* such a text.  A text is a sequence of components; its characters are     *)
(* left out, so every text here is well formed and only its size decides.   *)
(****************************************************************************)
EXTENDS Integers, Sequences

CONSTANTS
    Bits,       \* width of a duration, 64 in the code
    Minute, Hour,        \* in units of the shortest duration
    DayHours, WeekHours, \* 24 and 7 * 24 in the code
    Numbers,    \* numbers a component may have
    MaxLength   \* bound on the components of a text

ASSUME IntervalAssumption ==
    /\ {Bits, Minute, Hour, DayHours, WeekHours} \subseteq Nat \ {0}
    /\ Hour % Minute = 0 /\ WeekHours % DayHours = 0
    /\ Numbers \subseteq Nat /\ MaxLength \in Nat

(* Laws of arithmetic, of which the provers know nothing.                   *)
ASSUME WordAssumption ==
    2^(Bits - 1) \in Nat \ {0} /\ 2^Bits = 2 * 2^(Bits - 1)

MaxDuration == 2^(Bits - 1) - 1

Day == DayHours * Hour
Week == WeekHours * Hour

Size == [s |-> 1, m |-> Minute, h |-> Hour, d |-> Day, w |-> Week]

Component == [number: Numbers, unit: DOMAIN Size]

Invalid == 0    \* an interval is positive
Running == -1

VARIABLES
    text,      \* the components
    written,   \* the interval the text was written from, 0 if a user did
    position,  \* components read so far
    total,     \* what they add up to, in the word of a duration
    result     \* what the call returned, Invalid or Running

intervalVars == <<text, written, position, total, result>>

--------------------------------------------------------------------------------
(* compactDuration *)

Part(n, unit) == IF n > 0 THEN <<[number |-> n, unit |-> unit]>> ELSE <<>>

(* Faulty variant, which the runs must reject: no seconds beside hours.     *)
SubdayMinutes(v) == Part(v \div Hour, "h") \o Part((v % Hour) \div Minute, "m")

(* Duration.String, and compactSubday, which leaves out components of zero. *)
Subday(v) ==
    Part(v \div Hour, "h") \o Part((v % Hour) \div Minute, "m") \o Part(v % Minute, "s")

Compact(v) ==
    IF v > Day
    THEN Part(v \div Week, "w") \o Part((v % Week) \div Day, "d") \o Subday(v % Day)
    ELSE IF v % Hour = 0 THEN Part(v \div Hour, "h")
    ELSE IF v % Minute = 0 THEN Part(v \div Minute, "m")
    ELSE Subday(v)

IntervalInit ==
    /\ \/ /\ written = 0
          /\ text \in UNION {[1..n -> Component] : n \in 0..MaxLength}
       \/ /\ written \in 1..MaxDuration
          /\ text = Compact(written)
    /\ position = 0 /\ total = 0 /\ result = Running

--------------------------------------------------------------------------------
(* parseInterval *)

(* The value of an arithmetic result in the word of a duration.             *)
Wrap(n) == LET r == n % 2^Bits IN IF r > MaxDuration THEN r - 2^Bits ELSE r

(* Faulty variant of the test below, which the runs must reject: the        *)
(* product is tested after it wrapped.                                      *)
FitsWrapped(hours, factor) == Wrap(hours * factor) >= 0

Fits(hours, factor) == hours <= MaxDuration \div factor

HasRoom(component) == component >= 0 /\ component <= MaxDuration - total

(* Days and weeks are read as hours and multiplied; time.ParseDuration      *)
(* reads the other units, and refuses what does not fit.                    *)
Read ==
    /\ result = Running /\ position < Len(text)
    /\ LET c == text[position + 1]
           long == c.unit \in {"d", "w"}
           factor == IF long THEN Size[c.unit] \div Hour ELSE 1
           parsed == c.number * (Size[c.unit] \div factor)
           component == Wrap(parsed * factor) IN
         IF parsed <= MaxDuration /\ (long => Fits(parsed, factor)) /\ HasRoom(component)
         THEN /\ total' = Wrap(total + component)
              /\ position' = position + 1
              /\ UNCHANGED result
         ELSE result' = Invalid /\ UNCHANGED <<position, total>>
    /\ UNCHANGED <<text, written>>

Return ==
    /\ result = Running /\ position = Len(text)
    /\ result' = IF total > 0 THEN total ELSE Invalid
    /\ UNCHANGED <<text, written, position, total>>

IntervalNext == Read \/ Return

IntervalSpec == IntervalInit /\ [][IntervalNext]_intervalVars

--------------------------------------------------------------------------------
(* Properties *)

Value(c) == c.number * Size[c.unit]

(* What the components of a text add up to, one after the other, in numbers *)
(* without a bound.                                                         *)
Sums(t) ==
    LET sum[n \in 0..Len(t)] == IF n = 0 THEN 0 ELSE sum[n - 1] + Value(t[n])
    IN  sum

Meaning == Sums(text)[Len(text)]

(* A text is read as the interval it stands for, or refused when that is no *)
(* duration: no product and no sum wraps to a shorter interval, and nothing *)
(* that fits is refused.                                                    *)
ReadExactly ==
    result # Running =>
        result = IF Meaning \in 1..MaxDuration THEN Meaning ELSE Invalid

(* An interval that a list shows can be given back as it is shown.          *)
RoundTrip == written > 0 /\ result # Running => result = written
================================================================================
