------------------------------- MODULE ProofFetch -------------------------------
(***************************************************************************)
(* fetchAttestcoinProof: a source transaction's proof is polled for until  *)
(* the proof builder has it, refuses it, or a deadline passes.  Time is    *)
(* discrete.  A timer fires within Lag of when it is due; whatever runs    *)
(* between two awaits takes no time.                                       *)
(***************************************************************************)
EXTENDS Integers

CONSTANTS
    Timeouts,    \* ATTESTCOIN_PROOF_WAIT_TIMEOUT_MS
    Polls,       \* ATTESTCOIN_PROOF_POLL_MS
    RequestCap,  \* the longest a request may take: 30 s
    MaxDelay,    \* the longest delay setTimeout knows: 2^31 - 1 ms
    Lag,         \* how late a timer may fire
    AnswerTime,  \* within which a builder that has the proof is expected to answer
    Never        \* the time at which something has not happened

ASSUME FetchAssumption ==
    /\ Timeouts \subseteq Nat \ {0} /\ Polls \subseteq Nat \ {0}
    /\ RequestCap \in Nat /\ 0 < RequestCap /\ RequestCap <= MaxDelay
    /\ MaxDelay \in Nat
    /\ Lag \in Nat
    /\ AnswerTime \in Nat /\ AnswerTime < RequestCap
    /\ Never \notin Nat

VARIABLES
    now,       \* Date.now()
    phase,     \* what the fetch waits for
    timeout, poll, \* the settings
    deadline,
    sent,      \* when the request under way was sent
    timer,     \* when the abort of the request, or the end of the pause, is due
    ready,     \* when the builder had the proof
    lost,      \* a later request, or its answer, was lost or late
    outcome

fetchVars == <<now, phase, timeout, poll, deadline, sent, timer, ready, lost, outcome>>

Least(m, n) == IF m <= n THEN m ELSE n

Settings == UNCHANGED <<timeout, poll>>

World == UNCHANGED <<now, ready, lost>>

\* setTimeout takes a delay it cannot hold for 1.
Delay(d) == IF d > MaxDelay THEN 1 ELSE d

\* Fault: the pause does not look at the deadline.
PauseInFull(left) == Delay(poll)

\* Fault: the pause is all the time that is left.
PauseToTheEnd(left) == Delay(left)

Pause(left) == Delay(Least(poll, left))

\* Fault: the abort is cleared when the headers arrive, and the body takes as long as it takes.
AbortHeadersOnly == FALSE

\* The timer of the request, which covers its body, has fired.
Aborted == now >= timer

\* The builder had the proof when the request was sent.
Informed == ready # Never /\ sent >= ready

-----------------------------------------------------------------------------
(* The steps of the fetch                                                   *)

Finish(how) ==
    /\ phase' = "done" /\ outcome' = how
    /\ UNCHANGED <<deadline, sent, timer>>

\* The test at the top of the loop, and the request.
Request(until) ==
    /\ phase' = "request" /\ sent' = now
    /\ timer' = now + Least(RequestCap, until - now)
    /\ deadline' = until
    /\ UNCHANGED outcome

Begin ==
    /\ phase = "start"
    /\ Request(now + timeout)
    /\ Settings /\ World

\* The end of the loop's body: nothing has come of this request.
Retry ==
    IF now >= deadline
      THEN Finish("timeout")
      ELSE /\ phase' = "pause" /\ timer' = now + Pause(deadline - now)
           /\ UNCHANGED <<deadline, sent, outcome>>

\* The answer is the proof.
Fetched ==
    /\ phase = "request" /\ ready # Never
    /\ Finish("proof")
    /\ Settings /\ World

\* The answer says that there is no proof yet, in a status or a body; or it is no proof.
NotYet ==
    /\ phase = "request" /\ ~ Informed
    /\ Retry
    /\ Settings /\ World

\* The answer is an error that the code does not take for a passing one.
Rejected ==
    /\ phase = "request"
    /\ Finish("rejected")
    /\ Settings /\ World

\* The connection breaks, or the answer is an error of the moment.
Broken ==
    /\ phase = "request"
    /\ Retry
    /\ lost' = (lost \/ Informed)
    /\ Settings /\ UNCHANGED <<now, ready>>

Abort ==
    /\ phase = "request" /\ Aborted
    /\ Retry
    /\ Settings /\ World

Wake ==
    /\ phase = "pause" /\ now >= timer
    /\ IF now < deadline THEN Request(deadline) ELSE Finish("timeout")
    /\ Settings /\ World

-----------------------------------------------------------------------------
(* Time and the builder                                                     *)

BecomesReady ==
    /\ ready = Never /\ phase # "done"
    /\ ready' = now
    /\ UNCHANGED <<now, phase, timeout, poll, deadline, sent, timer, lost, outcome>>

\* No timer is later than Lag.  An answer that takes longer than AnswerTime counts as lost.
Tick ==
    /\ phase \in {"request", "pause"}
    /\ now < timer + Lag
    /\ now' = now + 1
    /\ lost' = (lost \/ (phase = "request" /\ Informed /\ now >= sent + AnswerTime))
    /\ UNCHANGED <<phase, timeout, poll, deadline, sent, timer, ready, outcome>>

FetchStep == Begin \/ Fetched \/ NotYet \/ Rejected \/ Broken \/ Abort \/ Wake

FetchInit ==
    /\ now = 0 /\ phase = "start"
    /\ timeout \in Timeouts /\ poll \in Polls
    /\ deadline = 0 /\ sent = 0 /\ timer = 0
    /\ ready = Never /\ lost = FALSE /\ outcome = "none"

FetchNext == FetchStep \/ BecomesReady \/ Tick

FetchSpec == FetchInit /\ [][FetchNext]_fetchVars

\* The fetch has begun, time passes, and a timer that is due fires.
FetchFairSpec ==
    FetchSpec /\ WF_fetchVars(Begin) /\ WF_fetchVars(Tick) /\ WF_fetchVars(Abort \/ Wake)

-----------------------------------------------------------------------------
(* Properties                                                               *)

\* However requests, aborts and pauses fall around it, the deadline holds up to one late timer.
EndsInTime == phase \in {"request", "pause"} => now <= deadline + Lag

\* A proof that is there a request, a pause and an answer before the deadline is fetched: the
\* fetch times out only if the proof came later than that, or if an answer was lost.
ReadyIsFetched ==
    outcome = "timeout" =>
        \/ ready = Never \/ lost
        \/ ready + RequestCap + poll + 2 * Lag + AnswerTime > deadline

\* The most steps the fetch and its clock can still take: in each instant up to the last timer,
\* the end of a pause, a request and the end of that one.
StepsLeft ==
    CASE phase = "start"   -> 3 * (timeout + Lag + 1) + 2
      [] phase = "request" -> 3 * (deadline + Lag + 1 - now) + 1
      [] phase = "pause"   -> 3 * (deadline + Lag + 1 - now) + (IF now < timer THEN 0 ELSE 2)
      [] phase = "done"    -> 0

\* No pause is over at once, whatever setTimeout makes of its delay: the fetch never asks twice
\* in one instant, and each of its steps, like each instant, brings its end nearer.
NeverAsksInHaste ==
    [][\/ StepsLeft' < StepsLeft
       \/ ready = Never /\ ready' # Never /\ StepsLeft' = StepsLeft]_fetchVars

\* The fetch ends: there is no state of the loop that waits for ever.
FetchEnds == <>(phase = "done")

=============================================================================
