------------------------------- MODULE FetchProofs -------------------------------
(****************************************************************************)
(* Proofs about Fetch, for any page, number of retries, width of a duration *)
(* and headers: a call implements Answer, gives up only when it must, and   *)
(* waits as long as it is asked to.                                         *)
(****************************************************************************)
EXTENDS Fetch, TLAPS

(* What is returned is taken from what the page was during the call.        *)
AnswerInv ==
    /\ page \in Contents
    /\ result = None => page \in offered
    /\ pc # "done" => result = None
    /\ pc = "body" => body \in offered

(* A pause follows a failure that may pass, with an attempt left.           *)
AttemptInv ==
    /\ attempt \in 1..MaxRetries + 1
    /\ pc = "sleep" => attempt <= MaxRetries /\ failure \in Transient

IInv == AnswerInv /\ AttemptInv

--------------------------------------------------------------------------------
USE FetchAssumption

LEMMA Initially == Init => IInv
BY DEF Init, IInv, AnswerInv, AttemptInv

(* The failure of an attempt ends the call with an error or begins a pause. *)
LEMMA FailStep ==
    ASSUME IInv, NEW f \in Transient \cup Permanent, NEW h, Fail(f, h), UNCHANGED server,
           pc # "done"
    PROVE  /\ IInv'
           /\ result' # result => result' = Call!Failure
           /\ result' # result => f \in Permanent \/ attempt = MaxRetries + 1
           /\ attempt' = attempt
<1>1. f \notin Transient => f \in Permanent
  OBVIOUS
<1>2. CASE GivesUp(f)
  BY <1>1, <1>2 DEF Fail, Return, GivesUp, Retryable, IInv, AnswerInv, AttemptInv, server,
                    Call!Failure
<1>3. CASE ~GivesUp(f)
  BY <1>3 DEF Fail, GivesUp, Retryable, IInv, AnswerInv, AttemptInv, server
<1> QED BY <1>2, <1>3

(* The steps that may fail, each with the failures it may end in.           *)
LEMMA RequestStep ==
    ASSUME IInv, Request
    PROVE  \/ cancelled /\ UNCHANGED server /\ pc # "done" /\ Fail("network", NoHeader)
           \/ IInv' /\ UNCHANGED <<server, result, attempt>>
BY DEF Request, IInv, AnswerInv, AttemptInv, server

LEMMA QuietSteps ==
    ASSUME IInv, Accept \/ Wake \/ Tick \/ Cancel
    PROVE  IInv' /\ UNCHANGED <<server, result>>
<1>1. CASE Accept
  BY <1>1 DEF Accept, IInv, AnswerInv, AttemptInv, server
<1>2. CASE Wake
  BY <1>2 DEF Wake, IInv, AnswerInv, AttemptInv, server
<1>3. CASE Tick
  BY <1>3 DEF Tick, IInv, AnswerInv, AttemptInv, server
<1>4. CASE Cancel
  BY <1>4 DEF Cancel, IInv, AnswerInv, AttemptInv, server
<1> QED BY <1>1, <1>2, <1>3, <1>4

(* What the steps that end a call return.                                   *)
LEMMA NotModifiedStep ==
    ASSUME IInv, NotModified
    PROVE  IInv' /\ UNCHANGED <<server, attempt>> /\ result = None
           /\ Tag \in offered /\ result' = Call!Unchanged
BY DEF NotModified, Return, IInv, AnswerInv, AttemptInv, server, Call!Unchanged

LEMMA InterruptStep ==
    ASSUME IInv, Interrupt
    PROVE  IInv' /\ UNCHANGED <<server, attempt>> /\ cancelled /\ result = None
           /\ result' = Call!Failure
BY DEF Interrupt, Return, IInv, AnswerInv, AttemptInv, server, Call!Failure

LEMMA ReadBodyStep ==
    ASSUME IInv, ReadBody
    PROVE  \/ /\ IInv' /\ UNCHANGED <<server, attempt>> /\ result = None
              /\ body \in offered /\ result' = Call!Changed(body)
           \/ /\ \E f \in {"encoding", "body", "body:too-large"} : Fail(f, NoHeader)
              /\ UNCHANGED server /\ pc # "done"
BY DEF ReadBody, Return, IInv, AnswerInv, AttemptInv, server, Call!Changed

LEMMA PublishStep ==
    ASSUME IInv, Publish
    PROVE  IInv' /\ Call!Publish /\ UNCHANGED <<result, attempt>>
<1>1. page' \in Contents /\ UNCHANGED <<result, pc, body, attempt, failure>>
  BY DEF Publish
<1>2. offered' = IF result = None THEN offered \cup {page'} ELSE offered
  BY DEF Publish
<1>3. Call!Publish
  BY DEF Publish, Call!Publish
<1>4. AttemptInv'
  BY <1>1 DEF IInv, AttemptInv
<1>5. AnswerInv'
  BY <1>1, <1>2 DEF IInv, AnswerInv
<1> QED BY <1>1, <1>3, <1>4, <1>5 DEF IInv

(* Every step of the call is one of these: nothing for the caller, a page   *)
(* that changes, an answer that is true, or a failure.                      *)
LEMMA StepAnswers ==
    ASSUME IInv, Next
    PROVE  IInv' /\ (Call!Next \/ UNCHANGED <<page, offered, result>>)
<1> USE DEF Call!Next, Call!Return, server
<1>1. ASSUME NEW f \in Transient \cup Permanent, NEW h, Fail(f, h), UNCHANGED server, pc # "done"
      PROVE  IInv' /\ (Call!Next \/ UNCHANGED <<page, offered, result>>)
  <2>1. IInv' /\ (result' # result => result' = Call!Failure)
    BY <1>1, FailStep
  <2> QED BY <1>1, <2>1 DEF IInv, AnswerInv
<1>2. CASE Request
  BY <1>1, <1>2, RequestStep DEF Transient
<1>3. CASE Refuse
  <2>1. UNCHANGED server /\ pc # "done"
    BY <1>3 DEF Refuse
  <2> QED BY <1>1, <1>3, <2>1 DEF Refuse, Transient, Permanent
<1>4. CASE Lose
  <2>1. UNCHANGED server /\ pc # "done"
    BY <1>4 DEF Lose
  <2> QED BY <1>1, <1>4, <2>1 DEF Lose, Transient, Permanent
<1>5. CASE ReadBody
  BY <1>1, <1>5, ReadBodyStep DEF Transient, Permanent
<1>6. CASE NotModified
  BY <1>6, NotModifiedStep
<1>7. CASE Interrupt
  BY <1>7, InterruptStep
<1>8. CASE Accept \/ Wake \/ Tick \/ Cancel
  BY <1>8, QuietSteps
<1>9. CASE Publish
  BY <1>9, PublishStep
<1> QED BY <1>2, <1>3, <1>4, <1>5, <1>6, <1>7, <1>8, <1>9 DEF Next, Step

LEMMA Preserved == IInv /\ [Next]_vars => IInv'
<1>1. IInv /\ UNCHANGED vars => IInv'
  BY DEF IInv, AnswerInv, AttemptInv, vars, server
<1> QED BY <1>1, StepAnswers

LEMMA Always == Spec => []IInv
BY Initially, Preserved, PTL DEF Spec

--------------------------------------------------------------------------------
(* The calls of the client implement the one step that the monitor takes    *)
(* them for: an answer is whole, and was true at one moment of the call,    *)
(* whatever failed, changed or was cancelled during its attempts.           *)
THEOREM CallsAnswerTruly == Spec => AnswersTrue
<1>1. Init => Call!Init
  BY DEF Init, Call!Init
<1>2. IInv /\ [Next]_vars => [Call!Next]_<<page, offered, result>>
  <2>1. IInv /\ UNCHANGED vars => UNCHANGED <<page, offered, result>>
    BY DEF vars, server
  <2> QED BY <2>1, StepAnswers
<1> QED BY <1>1, <1>2, Always, PTL DEF Spec, AnswersTrue, Call!Spec

(* A call ends with an error only on a failure that will not pass, after    *)
(* all its attempts or because its context ended; and it tries again only   *)
(* after a failure that may pass.                                           *)
THEOREM CallsPersist == Spec => Persistent
<1> DEFINE Step1 == /\ result # result' /\ result'.kind = "error" =>
                         \/ failure' \in Permanent
                         \/ attempt = MaxRetries + 1
                         \/ cancelled
                    /\ attempt' # attempt => failure \in Transient
<1>1. ASSUME IInv, NEW f \in Transient \cup Permanent, NEW h, Fail(f, h), UNCHANGED server,
             pc # "done"
      PROVE  Step1
  BY <1>1, FailStep DEF Fail
<1>2. ASSUME IInv, Next PROVE Step1
  <2>1. CASE Request
    BY <1>1, <1>2, <2>1, RequestStep DEF Transient
  <2>2. CASE Refuse
    <3>1. UNCHANGED server /\ pc # "done"
      BY <2>2 DEF Refuse
    <3> QED BY <1>1, <1>2, <2>2, <3>1 DEF Refuse, Transient, Permanent
  <2>3. CASE Lose
    <3>1. UNCHANGED server /\ pc # "done"
      BY <2>3 DEF Lose
    <3> QED BY <1>1, <1>2, <2>3, <3>1 DEF Lose, Transient, Permanent
  <2>4. CASE ReadBody
    <3>1. [kind |-> "ok", content |-> body].kind # "error"
      OBVIOUS
    <3> QED BY <1>1, <1>2, <2>4, <3>1, ReadBodyStep DEF Transient, Permanent, Call!Changed
  <2>5. CASE NotModified
    BY <1>2, <2>5, NotModifiedStep DEF Call!Unchanged
  <2>6. CASE Interrupt
    BY <1>2, <2>6, InterruptStep
  <2>7. CASE Accept \/ Tick \/ Cancel
    BY <2>7 DEF Accept, Tick, Cancel
  <2>8. CASE Wake
    BY <1>2, <2>8 DEF Wake, IInv, AttemptInv
  <2>9. CASE Publish
    BY <1>2, <2>9, PublishStep
  <2> QED BY <1>2, <2>1, <2>2, <2>3, <2>4, <2>5, <2>6, <2>7, <2>8, <2>9 DEF Next, Step
<1>3. IInv /\ [Next]_vars => [Step1]_vars
  BY <1>2
<1> QED BY <1>3, Always, PTL DEF Spec, Persistent

--------------------------------------------------------------------------------
(* Durations: what wraps is an integer, and what is representable does not  *)
(* wrap.                                                                    *)

LEMMA WrapType == ASSUME NEW n \in Nat PROVE Wrap(n) \in Int
<1>1. Width \in 0..MaxRetries + Width /\ Width - 1 \in 0..MaxRetries + Width
  OBVIOUS
<1>2. 2^Width \in Nat \ {0} /\ 2^(Width - 1) \in Nat
  BY <1>1, PowersAssumption
<1>3. n % 2^Width \in Int
  BY <1>2
<1> QED BY <1>2, <1>3 DEF Wrap

LEMMA WrapKeeps == ASSUME NEW n \in Nat, Representable(n) PROVE Wrap(n) = n
<1>1. Width - 1 \in 0..MaxRetries + Width /\ (Width - 1) + 1 = Width
  OBVIOUS
<1> DEFINE half == 2^(Width - 1)
           whole == 2^Width
<1>2. half \in Nat \ {0} /\ whole = 2 * half
  BY <1>1, PowersAssumption
<1>3. n < half
  BY DEF Representable
<1> HIDE DEF half, whole
<1>4. n % whole = n
  BY <1>2, <1>3
<1>5. Wrap(n) = IF n < half THEN n ELSE n - whole
  BY <1>4 DEF Wrap, half, whole
<1> QED BY <1>3, <1>5

LEMMA BackoffType ==
    ASSUME NEW n \in 1..MaxRetries
    PROVE  Base * 2^(n - 1) \in Nat
<1>1. n - 1 \in 0..MaxRetries + Width
  OBVIOUS
<1>2. 2^(n - 1) \in Nat
  BY <1>1, PowersAssumption
<1> QED BY <1>2

Header == RetryHeaders \cup {NoHeader}

LEMMA HeaderType ==
    ASSUME NEW h \in Header
    PROVE  /\ h.form \in Forms /\ h.value \in Nat /\ h.value * Second \in Nat
           /\ h.form = "absent" => h.value = 0
<1>1. h.form \in Forms /\ h.value \in Nat /\ (h.form = "absent" => h.value = 0)
  BY DEF Header, NoHeader, Forms
<1> QED BY <1>1

LEMMA ParseType == ASSUME NEW h \in Header PROVE ParseRetryAfter(h) \in Int
<1>1. CASE h.form = "seconds"
  BY <1>1, HeaderType, WrapType DEF ParseRetryAfter
<1>2. CASE h.form = "date"
  BY <1>2, HeaderType DEF ParseRetryAfter
<1>3. CASE h.form = "absent"
  BY <1>3 DEF ParseRetryAfter
<1> QED BY <1>1, <1>2, <1>3, HeaderType DEF Forms

LEMMA DelayType ==
    ASSUME NEW h \in Header, NEW n \in 1..MaxRetries
    PROVE  RetryDelay(h, n) \in Int
<1>1. Wrap(Base * 2^(n - 1)) \in Int
  BY BackoffType, WrapType
<1> QED BY <1>1, ParseType DEF RetryDelay, AtMost

(* What the failure of an attempt asks for, unless it wraps.                *)
LEMMA DelayWanted ==
    ASSUME header \in Header, attempt \in 1..MaxRetries,
           Representable(Base * 2^(attempt - 1)), Representable(header.value * Second)
    PROVE  RetryDelay(header, attempt) = Wanted
<1>1. Wrap(Base * 2^(attempt - 1)) = Base * 2^(attempt - 1)
  BY BackoffType, WrapKeeps
<1>2. Wrap(header.value * Second) = header.value * Second
  BY HeaderType, WrapKeeps
<1>3. ParseRetryAfter(header) = IF header.form = "seconds" THEN header.value * Second
                                ELSE header.value
  <2>1. CASE header.form = "seconds"
    BY <1>2, <2>1 DEF ParseRetryAfter
  <2>2. CASE header.form = "date"
    BY <2>2 DEF ParseRetryAfter
  <2>3. CASE header.form = "absent"
    BY <2>3, HeaderType DEF ParseRetryAfter
  <2> QED BY <2>1, <2>2, <2>3, HeaderType DEF Forms
<1> QED BY <1>1, <1>3 DEF RetryDelay, Wanted

--------------------------------------------------------------------------------
(* A pause is the one that the failure before it called for.                *)
PauseInv == pc = "sleep" => pause = RetryDelay(header, attempt)

TypeInv == IInv /\ TypeOK /\ PauseInv

LEMMA FailType ==
    ASSUME TypeInv, NEW f \in Transient \cup Permanent, NEW h \in Header, Fail(f, h),
           UNCHANGED <<server, cancelled>>
    PROVE  TypeOK' /\ PauseInv'
<1>1. CASE GivesUp(f)
  BY <1>1 DEF Fail, Return, TypeInv, TypeOK, PauseInv, server, Header
<1>2. CASE ~GivesUp(f)
  <2>1. attempt \in 1..MaxRetries
    BY <1>2 DEF TypeInv, TypeOK, GivesUp, Retryable, Permanent, Transient
  <2>2. RetryDelay(h, attempt) \in Int
    BY <2>1, DelayType
  <2> QED BY <1>2, <2>2 DEF Fail, TypeInv, TypeOK, PauseInv, server, Header
<1> QED BY <1>1, <1>2

LEMMA TypeInit == Init => TypeOK /\ PauseInv
<1> SUFFICES ASSUME Init PROVE TypeOK /\ PauseInv
  OBVIOUS
<1>1. attempt \in 1..MaxRetries + 1 /\ pause \in Int /\ elapsed \in Nat
  BY DEF Init
<1>2. page \in Contents /\ offered \subseteq Contents
  BY DEF Init
<1> QED BY <1>1, <1>2 DEF Init, TypeOK, PauseInv

LEMMA TypeStep == TypeInv /\ [Next]_vars => TypeOK' /\ PauseInv'
<1> SUFFICES ASSUME TypeInv, [Next]_vars PROVE TypeOK' /\ PauseInv'
  OBVIOUS
<1>0. TypeOK /\ PauseInv
  BY DEF TypeInv
<1>1. NoHeader \in Header /\ RetryHeaders \subseteq Header
  BY DEF Header
<1>2. CASE Request
  <2>1. UNCHANGED <<server, cancelled>>
    BY <1>2 DEF Request
  <2>2. CASE cancelled
    BY <1>1, <1>2, <2>1, <2>2, FailType DEF Request, Transient
  <2>3. CASE ~cancelled
    BY <1>0, <1>2, <2>3 DEF Request, TypeOK, PauseInv, server
  <2> QED BY <2>2, <2>3
<1>3. CASE Refuse
  <2>1. UNCHANGED <<server, cancelled>>
    BY <1>3 DEF Refuse
  <2>2. PICK f \in {"http", "http408", "http5xx", "http429"}, h \in Header : Fail(f, h)
    BY <1>1, <1>3 DEF Refuse
  <2> QED BY <2>1, <2>2, FailType DEF Transient, Permanent
<1>4. CASE Lose
  <2>1. UNCHANGED <<server, cancelled>>
    BY <1>4 DEF Lose
  <2>2. PICK f \in {"network", "timeout", "redirect"} : Fail(f, NoHeader)
    BY <1>4 DEF Lose
  <2> QED BY <1>1, <2>1, <2>2, FailType DEF Transient, Permanent
<1>5. CASE ReadBody
  <2>1. UNCHANGED <<server, cancelled>>
    BY <1>5 DEF ReadBody
  <2>2. CASE \E f \in {"encoding", "body", "body:too-large"} : Fail(f, NoHeader)
    BY <1>1, <2>1, <2>2, FailType DEF Transient, Permanent
  <2>3. CASE Return("ok", body) /\ UNCHANGED <<body, failure, header>>
    BY <1>0, <2>1, <2>3 DEF Return, TypeOK, PauseInv, server
  <2> QED BY <1>5, <2>2, <2>3 DEF ReadBody
<1>6. CASE NotModified
  BY <1>0, <1>6 DEF NotModified, Return, TypeOK, PauseInv, server
<1>7. CASE Interrupt
  BY <1>0, <1>7 DEF Interrupt, Return, TypeOK, PauseInv, server
<1>8. CASE Accept
  BY <1>0, <1>8 DEF Accept, TypeOK, PauseInv, server
<1>9. CASE Wake
  <2>1. attempt' \in 1..MaxRetries + 1
    BY <1>0, <1>9 DEF Wake, TypeInv, IInv, AttemptInv
  <2> QED BY <1>0, <1>9, <2>1 DEF Wake, TypeOK, PauseInv, server
<1>10. CASE Tick
  BY <1>0, <1>10 DEF Tick, TypeOK, PauseInv, server
<1>11. CASE Cancel
  BY <1>0, <1>11 DEF Cancel, TypeOK, PauseInv, server
<1>12. CASE Publish
  BY <1>0, <1>12 DEF Publish, TypeOK, PauseInv
<1>13. CASE UNCHANGED vars
  BY <1>0, <1>13 DEF vars, TypeOK, PauseInv, server
<1> QED BY <1>2, <1>3, <1>4, <1>5, <1>6, <1>7, <1>8, <1>9, <1>10, <1>11, <1>12, <1>13
        DEF Next, Step

LEMMA TypeAlways == Spec => []TypeInv
<1>1. Init => TypeInv
  BY Initially, TypeInit DEF TypeInv
<1>2. TypeInv /\ [Next]_vars => TypeInv'
  BY Preserved, TypeStep DEF TypeInv
<1> QED BY <1>1, <1>2, PTL DEF Spec

(* Whatever fails and whatever the server asks for, the counters of a call  *)
(* stay within their bounds and its pause is a duration.                    *)
THEOREM CallsAreTyped == Spec => []TypeOK
<1>1. TypeInv => TypeOK
  BY DEF TypeInv
<1> QED BY <1>1, TypeAlways, PTL

(* A server that fails is left alone for as long as it asked, or as the     *)
(* backoff of the attempt says, wherever that fits a duration.              *)
THEOREM CallsWait == Spec => Patient
<1> DEFINE Step2 == (/\ attempt' # attempt
                     /\ Representable(Base * 2^(attempt - 1))
                     /\ Representable(header.value * Second)) => elapsed >= Wanted
<1>1. ASSUME TypeInv, Next, attempt' # attempt PROVE Wake
  BY <1>1 DEF Next, Step, Request, Refuse, Lose, ReadBody, Fail, Return, NotModified,
              Interrupt, Accept, Tick, Cancel, Publish
<1>2. ASSUME TypeInv, Wake PROVE Step2
  <2>1. attempt \in 1..MaxRetries /\ header \in Header
    BY <1>2 DEF Wake, TypeInv, IInv, AttemptInv, TypeOK, Header
  <2>2. elapsed >= RetryDelay(header, attempt)
    BY <1>2 DEF Wake, TypeInv, PauseInv
  <2> QED BY <2>1, <2>2, DelayWanted
<1>3. TypeInv /\ [Next]_vars => [Step2]_vars
  BY <1>1, <1>2 DEF vars
<1> QED BY <1>3, TypeAlways, PTL DEF Spec, Patient
================================================================================
