--------------------------------- MODULE Fetch ---------------------------------
(****************************************************************************)
(* One call of fetch.Client.Fetch, internal/fetch/client.go: the attempts,  *)
(* the pauses between them and the cancellation of the context, while the   *)
(* page changes on the server.  Time is counted in units of the backoff     *)
(* base; durations are signed machine words of Width bits, as the shift and *)
(* the product that compute them wrap.                                      *)
(****************************************************************************)
EXTENDS Naturals, Integers

CONSTANTS
    Contents,      \* what the server may serve
    Tag,           \* the content whose validator the request carries, or None
    None,
    Broken,        \* the part of a body that arrived before it broke off
    MaxRetries,    \* client.maxRetries
    Base,          \* 250 ms
    BackoffCap,    \* 5 s
    Second,        \* units per second of a Retry-After header
    RetryCap,      \* 30 s
    Width,         \* bits of a duration
    RetryHeaders   \* Retry-After headers the server may send

Forms == {"seconds", "date", "absent"}

ASSUME FetchAssumption ==
    /\ {None, Broken} \cap Contents = {}
    /\ None # Broken
    /\ Tag \in Contents \cup {None}
    /\ MaxRetries \in Nat
    /\ {Base, BackoffCap, Second, RetryCap, Width} \subseteq Nat \ {0}
    /\ RetryHeaders \subseteq [form: Forms, value: Nat]
    /\ \A h \in RetryHeaders : h.form = "absent" => h.value = 0

(* Laws of arithmetic, of which the provers know nothing.                   *)
ASSUME PowersAssumption ==
    \A n \in 0..MaxRetries + Width :
        2^n \in Nat \ {0} /\ 2^(n + 1) = 2 * 2^n

NoHeader == [form |-> "absent", value |-> 0]

(* Fingerprints and statuses of a fetch error.                              *)
Transient == {"network", "timeout", "body", "http408", "http429", "http5xx"}
Permanent == {"redirect", "encoding", "body:too-large", "http"}

VARIABLES
    page,       \* what the server serves now
    offered,    \* what it served since the call began (auxiliary)
    cancelled,  \* the context is done
    pc,         \* where the call is
    attempt,    \* the attempt being made
    body,       \* the content whose transfer has begun
    failure,    \* how the last attempt failed
    header,     \* the Retry-After header of that failure
    pause,      \* the delay it called for
    elapsed,    \* time slept so far
    result      \* what the call returned

server == <<page, offered>>
vars == <<server, cancelled, pc, attempt, body, failure, header, pause,
          elapsed, result>>

TypeOK ==
    /\ page \in Contents
    /\ offered \subseteq Contents
    /\ cancelled \in BOOLEAN
    /\ pc \in {"request", "waiting", "body", "sleep", "done"}
    /\ attempt \in 1..MaxRetries + 1
    /\ body \in Contents \cup {None}
    /\ failure \in Transient \cup Permanent \cup {None}
    /\ header \in RetryHeaders \cup {NoHeader}
    /\ pause \in Int
    /\ elapsed \in Nat
    /\ result \in {None} \cup
         [kind: {"ok", "notModified", "error"},
          content: Contents \cup {None, Broken}]

Init ==
    /\ page \in Contents
    /\ offered = {page}
    /\ cancelled = FALSE
    /\ pc = "request"
    /\ attempt = 1
    /\ body = None
    /\ failure = None
    /\ header = NoHeader
    /\ pause = 0
    /\ elapsed = 0
    /\ result = None

--------------------------------------------------------------------------------
(* Durations *)

Wrap(n) ==
    LET m == n % 2^Width IN IF m < 2^(Width - 1) THEN m ELSE m - 2^Width

AtMost(n, cap) == IF n > cap THEN cap ELSE n

ParseRetryAfter(h) ==
    CASE h.form = "seconds" -> Wrap(h.value * Second)
      [] h.form = "date"    -> h.value        \* 0 for a date already past
      [] h.form = "absent"  -> 0

(* Faulty variant: Retry-After is not looked at.                            *)
RetryDelayDeaf(h, n) == AtMost(Wrap(Base * 2^(n - 1)), BackoffCap)

RetryDelay(h, n) ==
    LET asked == ParseRetryAfter(h) IN
    IF asked > 0 THEN AtMost(asked, RetryCap)
    ELSE AtMost(Wrap(Base * 2^(n - 1)), BackoffCap)

--------------------------------------------------------------------------------
(* The call *)

Return(kind, content) ==
    /\ result' = [kind |-> kind, content |-> content]
    /\ pc' = "done"
    /\ UNCHANGED <<attempt, pause, elapsed>>

Retryable(f) == f \in Transient

(* Faulty variants: one attempt too few, one too many.                      *)
GivesUpEarly(f) == attempt >= MaxRetries \/ ~Retryable(f)

GivesUpLate(f) == attempt > MaxRetries + 1 \/ ~Retryable(f)

GivesUp(f) == attempt > MaxRetries \/ ~Retryable(f)

(* What Fetch does with the error of an attempt.                            *)
Fail(f, h) ==
    /\ failure' = f
    /\ header' = h
    /\ body' = None
    /\ IF GivesUp(f)
       THEN Return("error", None)
       ELSE /\ pc' = "sleep"
            /\ pause' = RetryDelay(h, attempt)
            /\ elapsed' = 0
            /\ UNCHANGED <<attempt, result>>

(* Do fails at once when the context is done; the request is not sent.      *)
Request ==
    /\ pc = "request"
    /\ IF cancelled
       THEN Fail("network", NoHeader)
       ELSE /\ pc' = "waiting"
            /\ UNCHANGED <<attempt, body, failure, header, pause, elapsed, result>>
    /\ UNCHANGED <<server, cancelled>>

(* The head of a 200: the body that follows is what the server holds now.   *)
Accept ==
    /\ pc = "waiting"
    /\ body' = page
    /\ pc' = "body"
    /\ UNCHANGED <<server, cancelled, attempt, failure, header, pause, elapsed,
                   result>>

NotModified ==
    /\ pc = "waiting"
    /\ Tag = page
    /\ Return("notModified", None)
    /\ UNCHANGED <<server, cancelled, body, failure, header>>

(* Only a 429 has its Retry-After header read.                              *)
Refuse ==
    /\ pc = "waiting"
    /\ \/ \E f \in {"http", "http408", "http5xx"} : Fail(f, NoHeader)
       \/ \E h \in RetryHeaders : Fail("http429", h)
    /\ UNCHANGED <<server, cancelled>>

(* The connection fails, the client times out or the context is done.       *)
Lose ==
    /\ pc = "waiting"
    /\ \E f \in {"network", "timeout", "redirect"} : Fail(f, NoHeader)
    /\ UNCHANGED <<server, cancelled>>

(* Faulty variant: what arrived of a broken body is taken for the content.  *)
ReadBodyLax ==
    /\ pc = "body"
    /\ \E c \in {body, Broken} : Return("ok", c)
    /\ UNCHANGED <<server, cancelled, body, failure, header>>

ReadBody ==
    /\ pc = "body"
    /\ \/ /\ Return("ok", body)
          /\ UNCHANGED <<body, failure, header>>
       \/ \E f \in {"encoding", "body", "body:too-large"} : Fail(f, NoHeader)
    /\ UNCHANGED <<server, cancelled>>

(* Faulty variant: a throttled attempt is not counted.                      *)
WakeUncounted ==
    /\ pc = "sleep"
    /\ elapsed >= pause
    /\ attempt' = IF failure = "http429" THEN attempt ELSE attempt + 1
    /\ pc' = "request"
    /\ UNCHANGED <<server, cancelled, body, failure, header, pause, elapsed,
                   result>>

(* The timer of sleepContext fires.                                         *)
Wake ==
    /\ pc = "sleep"
    /\ elapsed >= pause
    /\ attempt' = attempt + 1
    /\ pc' = "request"
    /\ UNCHANGED <<server, cancelled, body, failure, header, pause, elapsed,
                   result>>

(* The context ends a pause.                                                *)
Interrupt ==
    /\ pc = "sleep"
    /\ cancelled
    /\ Return("error", None)
    /\ UNCHANGED <<server, cancelled, body, failure, header>>

--------------------------------------------------------------------------------
(* Environment *)

Publish ==
    /\ \E c \in Contents \ {page} : page' = c
    /\ offered' = IF result = None THEN offered \cup {page'} ELSE offered
    /\ UNCHANGED <<cancelled, pc, attempt, body, failure, header, pause,
                   elapsed, result>>

Cancel ==
    /\ ~cancelled
    /\ cancelled' = TRUE
    /\ UNCHANGED <<server, pc, attempt, body, failure, header, pause, elapsed,
                   result>>

Tick ==
    /\ pc = "sleep"
    /\ elapsed < pause
    /\ elapsed' = elapsed + 1
    /\ UNCHANGED <<server, cancelled, pc, attempt, body, failure, header, pause,
                   result>>

Step ==
    \/ Request \/ Accept \/ NotModified \/ Refuse \/ Lose \/ ReadBody
    \/ Wake \/ Interrupt \/ Tick

Next == Step \/ Publish \/ Cancel

Spec == Init /\ [][Next]_vars

(* The client's own timeout bounds the wait for a server, and time passes.  *)
FairSpec == Spec /\ WF_vars(Step)

--------------------------------------------------------------------------------
(* Properties *)

(* The abstract specification, over what was returned.                      *)
Call == INSTANCE Answer

(* A call returns what the server held at one moment of the call, whole, or *)
(* an error: never the answer of an earlier call, a mixture of attempts or  *)
(* a body that broke off.  This is what Monitor's Fetch step takes for      *)
(* granted.                                                                 *)
AnswersTrue == Call!Spec

(* A call gives up on a failure that may pass only after MaxRetries retries *)
(* or when its context ends, and never repeats a request whose failure will *)
(* not pass.                                                                *)
Persistent ==
    [][ /\ result # result' /\ result'.kind = "error" =>
             \/ failure' \in Permanent
             \/ attempt = MaxRetries + 1
             \/ cancelled
        /\ attempt' # attempt => failure \in Transient ]_vars

Representable(n) == n < 2^(Width - 1)

(* The pause a failure calls for: what the server asked for, if it asked,   *)
(* else a pause that doubles with each attempt; both up to their caps.      *)
Wanted ==
    LET asked == IF header.form = "seconds" THEN header.value * Second
                 ELSE header.value
    IN  IF asked > 0 THEN AtMost(asked, RetryCap)
        ELSE AtMost(Base * 2^(attempt - 1), BackoffCap)

(* A server that fails is not asked again before that pause has passed, as  *)
(* long as the pause fits a duration: a Retry-After or a backoff that wraps *)
(* shortens it, as the code has no guard against either.                    *)
Patient ==
    [][ (/\ attempt' # attempt
         /\ Representable(Base * 2^(attempt - 1))
         /\ Representable(header.value * Second))
        => elapsed >= Wanted ]_vars

(* Every call ends, whatever the server does.                               *)
Terminates == <>(pc = "done")
================================================================================
