--------------------------- MODULE ReaderFetchProofs ---------------------------
(***************************************************************************)
(* Proofs about AuthorizationReader, for every chain, and about            *)
(* ProofFetch, for all settings and delays.                                *)
(***************************************************************************)
EXTENDS AuthorizationReader, ProofFetch, TLAPS

-----------------------------------------------------------------------------
(* The fetch                                                                *)

FetchTypeOK ==
    /\ now \in Nat
    /\ phase \in {"start", "request", "pause", "done"}
    /\ timeout \in Nat \ {0} /\ poll \in Nat \ {0}
    /\ deadline \in Nat /\ sent \in Nat /\ timer \in Nat
    /\ ready \in Nat \cup {Never}
    /\ lost \in BOOLEAN
    /\ outcome \in {"none", "proof", "rejected", "timeout"}

\* Every timer is set for the deadline at the latest, and time waits for no timer beyond Lag.
TimersOK ==
    /\ phase = "start" => now = 0
    /\ phase # "done" => outcome = "none"
    /\ ready # Never => ready <= now
    /\ phase = "request" =>
          /\ sent <= now /\ sent < deadline
          /\ timer = sent + Least(RequestCap, deadline - sent)
          /\ now <= timer + Lag
    /\ phase = "pause" =>
          /\ timer <= deadline /\ timer <= now + poll
          /\ now <= timer + Lag

\* The proof came too late for a request, a pause and an answer.
Late == ready + RequestCap + poll + 2 * Lag + AnswerTime > deadline

\* The first request sent after the proof was ready is sent in time, and answered in time.
PromptOK ==
    (ready # Never /\ ~ lost) =>
        /\ phase = "request" /\ sent >= ready =>
              \/ Late
              \/ sent < ready + RequestCap + poll + 2 * Lag /\ now <= sent + AnswerTime
        /\ phase = "pause" =>
              \/ Late
              \/ timer < ready + RequestCap + poll + Lag
        /\ outcome = "timeout" => Late

FetchInv == FetchTypeOK /\ TimersOK /\ PromptOK

\* The pause ends by the deadline, is no longer than the poll, and takes some time.
LEMMA PauseBound ==
    ASSUME FetchTypeOK, NEW left \in Nat, left > 0
    PROVE  /\ Pause(left) \in Nat /\ Pause(left) <= left /\ Pause(left) <= poll
           /\ Pause(left) > 0
BY FetchAssumption DEF Pause, Delay, Least, FetchTypeOK

\* A request that came to nothing before the proof was ready leaves time for the next.
LEMMA RetryUninformed ==
    ASSUME FetchInv, phase = "request", Retry, ~ Informed,
           UNCHANGED <<now, ready, timeout, poll>>, lost' \in BOOLEAN, lost => lost'
    PROVE  FetchInv'
<1>1. CASE now >= deadline
  BY <1>1, FetchAssumption
  DEF FetchInv, FetchTypeOK, TimersOK, PromptOK, Late, Retry, Finish, Informed, Least
<1>2. CASE ~ now >= deadline
  <2>1. deadline - now \in Nat /\ deadline - now > 0
    BY <1>2 DEF FetchInv, FetchTypeOK
  <2>2. Pause(deadline - now) \in Nat /\ Pause(deadline - now) <= deadline - now
        /\ Pause(deadline - now) <= poll
    BY <2>1, PauseBound DEF FetchInv
  <2> DEFINE P == Pause(deadline - now)
  <2>3. /\ phase' = "pause" /\ timer' = now + P
        /\ UNCHANGED <<deadline, sent, outcome>>
    BY <1>2 DEF Retry
  <2>4. P \in Nat /\ P <= deadline - now /\ P <= poll
    BY <2>2
  <2> HIDE DEF P
  <2> QED
    BY <2>3, <2>4, FetchAssumption
    DEF FetchInv, FetchTypeOK, TimersOK, PromptOK, Late, Informed, Least
<1> QED BY <1>1, <1>2

\* A request sent after the proof was ready and answered in time is not aborted before its
\* deadline; so if it comes to nothing, an answer was lost or the deadline is near.
LEMMA RetryInformed ==
    ASSUME FetchInv, phase = "request", Retry, Informed, Aborted \/ lost',
           UNCHANGED <<now, ready, timeout, poll>>, lost' \in BOOLEAN, lost => lost'
    PROVE  FetchInv'
<1>0. lost' \/ Late
  BY FetchAssumption
  DEF FetchInv, FetchTypeOK, TimersOK, PromptOK, Late, Informed, Aborted, Least
<1>1. CASE now >= deadline
  BY <1>0, <1>1, FetchAssumption
  DEF FetchInv, FetchTypeOK, TimersOK, PromptOK, Late, Retry, Finish, Informed, Least
<1>2. CASE ~ now >= deadline
  <2>1. deadline - now \in Nat /\ deadline - now > 0
    BY <1>2 DEF FetchInv, FetchTypeOK
  <2>2. Pause(deadline - now) \in Nat /\ Pause(deadline - now) <= deadline - now
        /\ Pause(deadline - now) <= poll
    BY <2>1, PauseBound DEF FetchInv
  <2> DEFINE P == Pause(deadline - now)
  <2>3. /\ phase' = "pause" /\ timer' = now + P
        /\ UNCHANGED <<deadline, sent, outcome>>
    BY <1>2 DEF Retry
  <2>4. P \in Nat /\ P <= deadline - now /\ P <= poll
    BY <2>2
  <2> HIDE DEF P
  <2> QED
    BY <1>0, <2>3, <2>4, FetchAssumption
    DEF FetchInv, FetchTypeOK, TimersOK, PromptOK, Late, Informed, Least
<1> QED BY <1>1, <1>2

\* No step of the fetch, of the builder or of time breaks the invariant.
LEMMA FetchStepKeeps == FetchInv /\ [FetchNext]_fetchVars => FetchInv'
<1> SUFFICES ASSUME FetchInv, [FetchNext]_fetchVars PROVE FetchInv'
  OBVIOUS
<1> USE FetchAssumption
<1>1. CASE Begin
  BY <1>1 DEF Begin, Request, Settings, World, FetchInv, FetchTypeOK, TimersOK, PromptOK, Late,
              Least
<1>2. CASE Fetched
  BY <1>2 DEF Fetched, Finish, Settings, World, FetchInv, FetchTypeOK, TimersOK, PromptOK, Late
<1>3. CASE NotYet
  BY <1>3, RetryUninformed DEF NotYet, Settings, World, FetchInv, FetchTypeOK
<1>4. CASE Rejected
  BY <1>4 DEF Rejected, Finish, Settings, World, FetchInv, FetchTypeOK, TimersOK, PromptOK, Late
<1>5. CASE Broken
  <2>1. lost' \in BOOLEAN /\ (lost => lost') /\ (Informed => lost')
    BY <1>5 DEF Broken, Informed, FetchInv, FetchTypeOK
  <2> QED BY <1>5, <2>1, RetryUninformed, RetryInformed DEF Broken, Settings
<1>6. CASE Abort
  BY <1>6, RetryUninformed, RetryInformed DEF Abort, Settings, World, FetchInv, FetchTypeOK
<1>7. CASE Wake
  BY <1>7 DEF Wake, Request, Finish, Settings, World, FetchInv, FetchTypeOK, TimersOK, PromptOK,
              Late, Least
<1>8. CASE BecomesReady
  BY <1>8 DEF BecomesReady, FetchInv, FetchTypeOK, TimersOK, PromptOK, Late, Least
<1>9. CASE Tick
  <2>1. /\ now < timer + Lag /\ now' = now + 1
        /\ UNCHANGED <<phase, timeout, poll, deadline, sent, timer, ready, outcome>>
        /\ phase \in {"request", "pause"}
    BY <1>9 DEF Tick
  <2>2. /\ lost' \in BOOLEAN /\ (lost => lost')
        /\ phase = "request" /\ Informed /\ ~ lost' => ~ now >= sent + AnswerTime
    BY <1>9, Zenon DEF Tick
  <2>3. FetchTypeOK'
    BY <2>1, <2>2 DEF FetchInv, FetchTypeOK
  <2>4. TimersOK'
    BY <2>1 DEF FetchInv, FetchTypeOK, TimersOK, Least
  <2>5. PromptOK'
    BY <2>1, <2>2 DEF FetchInv, FetchTypeOK, TimersOK, PromptOK, Late, Informed
  <2> QED BY <2>3, <2>4, <2>5 DEF FetchInv
<1>10. CASE UNCHANGED fetchVars
  BY <1>10 DEF fetchVars, FetchInv, FetchTypeOK, TimersOK, PromptOK, Late, Least
<1> QED
  BY <1>1, <1>2, <1>3, <1>4, <1>5, <1>6, <1>7, <1>8, <1>9, <1>10 DEF FetchNext, FetchStep

\* The invariant holds of every fetch.
LEMMA FetchInvariant == FetchSpec => []FetchInv
<1>1. FetchInit => FetchInv
  <2> SUFFICES ASSUME FetchInit PROVE FetchInv
    OBVIOUS
  <2>1. FetchTypeOK
    BY FetchAssumption DEF FetchInit, FetchTypeOK
  <2>2. TimersOK /\ PromptOK
    BY DEF FetchInit, TimersOK, PromptOK
  <2> QED BY <2>1, <2>2 DEF FetchInv
<1> QED BY <1>1, FetchStepKeeps, PTL DEF FetchSpec

\* Whatever the settings, the fetch keeps its deadline up to one late timer
\* (fetchAttestcoinProof's loop).
THEOREM FetchEndsInTime == FetchSpec => []EndsInTime
<1>1. FetchInv => EndsInTime
  BY FetchAssumption DEF FetchInv, FetchTypeOK, TimersOK, EndsInTime, Least
<1> QED BY <1>1, FetchInvariant, PTL

\* Whatever the settings, a proof that is there in time is fetched, unless an answer is lost.
THEOREM FetchTakesWhatIsReady == FetchSpec => []ReadyIsFetched
<1>1. FetchInv => ReadyIsFetched
  BY DEF FetchInv, FetchTypeOK, PromptOK, Late, ReadyIsFetched
<1> QED BY <1>1, FetchInvariant, PTL

\* While the fetch goes on, time is left.
LEMMA TimeIsLeft ==
    ASSUME FetchInv, phase \in {"request", "pause"}
    PROVE  now \in Nat /\ deadline + Lag + 1 - now \in Nat \ {0} /\ Lag \in Nat
  BY FetchAssumption DEF FetchInv, FetchTypeOK, TimersOK, Least

\* Trying again takes a pause, or is the end.
LEMMA RetryInTime ==
    ASSUME FetchInv, phase = "request", Retry, UNCHANGED <<now, timeout, poll>>
    PROVE  StepsLeft' < StepsLeft
<1> DEFINE left == deadline + Lag + 1 - now
<1>1. left \in Nat \ {0} /\ now \in Nat /\ deadline \in Nat
  BY TimeIsLeft DEF FetchInv, FetchTypeOK
<1>2. StepsLeft = 3 * left + 1
  BY DEF StepsLeft
<1>3. CASE now >= deadline
  <2>1. StepsLeft' = 0
    BY <1>3 DEF Retry, Finish, StepsLeft
  <2> HIDE DEF left
  <2> QED BY <2>1, <1>1, <1>2
<1>4. CASE ~ now >= deadline
  <2>1. deadline - now \in Nat /\ deadline - now > 0
    BY <1>1, <1>4
  <2>2. Pause(deadline - now) \in Nat /\ Pause(deadline - now) > 0
    BY <2>1, PauseBound DEF FetchInv
  <2>3. phase' = "pause" /\ timer' = now + Pause(deadline - now) /\ deadline' = deadline
    BY <1>4 DEF Retry
  <2>4. now' < timer' /\ now' = now
    BY <1>1, <2>2, <2>3
  <2>5. StepsLeft' = 3 * left + 0
    BY <2>3, <2>4 DEF StepsLeft
  <2> HIDE DEF left
  <2> QED BY <2>5, <1>1, <1>2
<1> QED BY <1>3, <1>4

\* Every step but the builder's leaves fewer.
LEMMA StepInTime ==
    ASSUME FetchInv, FetchNext
    PROVE  \/ StepsLeft' < StepsLeft
           \/ ready = Never /\ ready' # Never /\ StepsLeft' = StepsLeft
<1> USE FetchAssumption
<1>1. FetchTypeOK /\ TimersOK
  BY DEF FetchInv
<1>2. CASE Begin
  <2>1. StepsLeft = 3 * (timeout + Lag + 1) + 2 /\ timeout \in Nat
    BY <1>1, <1>2 DEF Begin, StepsLeft, FetchTypeOK
  <2>2. phase' = "request" /\ deadline' = now + timeout /\ now' = now /\ now \in Nat
    BY <1>1, <1>2 DEF Begin, Request, World, FetchTypeOK
  <2>3. StepsLeft' = 3 * (timeout + Lag + 1) + 1
    BY <2>1, <2>2 DEF StepsLeft
  <2> QED BY <2>1, <2>3
<1>3. CASE Fetched \/ Rejected
  <2>1. phase = "request" /\ phase' = "done"
    BY <1>3 DEF Fetched, Rejected, Finish
  <2>2. StepsLeft' = 0 /\ StepsLeft = 3 * (deadline + Lag + 1 - now) + 1
    BY <2>1 DEF StepsLeft
  <2> QED BY <2>1, <2>2, TimeIsLeft
<1>4. CASE NotYet \/ Broken \/ Abort
  BY <1>4, RetryInTime DEF NotYet, Broken, Abort, Settings, World
<1>5. CASE Wake
  <2>1. phase = "pause" /\ now >= timer /\ now' = now
    BY <1>5 DEF Wake, World
  <2>2. timer \in Nat /\ now \in Nat /\ deadline + Lag + 1 - now \in Nat \ {0}
    BY <2>1, <1>1, TimeIsLeft DEF FetchTypeOK
  <2>3. StepsLeft = 3 * (deadline + Lag + 1 - now) + 2
    BY <2>1, <2>2 DEF StepsLeft
  <2>4. \/ phase' = "request" /\ deadline' = deadline
        \/ phase' = "done"
    BY <1>5 DEF Wake, Request, Finish
  <2>5. StepsLeft' \in {3 * (deadline + Lag + 1 - now) + 1, 0}
    BY <2>1, <2>4 DEF StepsLeft
  <2> QED BY <2>2, <2>3, <2>5
<1>6. CASE BecomesReady
  <2>1. ready = Never /\ ready' # Never
    BY <1>1, <1>6 DEF BecomesReady, FetchTypeOK
  <2>2. StepsLeft' = StepsLeft
    BY <1>6 DEF BecomesReady, StepsLeft
  <2> QED BY <2>1, <2>2
<1>7. CASE Tick
  <2> DEFINE left == deadline + Lag + 1 - now
  <2>1. phase \in {"request", "pause"} /\ UNCHANGED <<phase, deadline, timer>> /\ now' = now + 1
    BY <1>7 DEF Tick
  <2>2. left \in Nat \ {0} /\ now \in Nat /\ deadline \in Nat
    BY <1>1, <2>1, TimeIsLeft DEF FetchTypeOK
  <2>3. deadline + Lag + 1 - (now + 1) = left - 1
    BY <2>2
  <2>4. \/ StepsLeft = 3 * left + 1 /\ StepsLeft' = 3 * (left - 1) + 1
        \/ StepsLeft \in {3 * left, 3 * left + 2} /\ StepsLeft' = 3 * (left - 1) + 2
        \/ StepsLeft \in {3 * left, 3 * left + 2} /\ StepsLeft' = 3 * (left - 1)
    <3>1. CASE phase = "request"
      BY <3>1, <2>1, <2>3 DEF StepsLeft
    <3>2. CASE phase = "pause"
      <4>1. /\ StepsLeft = 3 * left + (IF now < timer THEN 0 ELSE 2)
            /\ StepsLeft' = 3 * (left - 1) + (IF now + 1 < timer THEN 0 ELSE 2)
        BY <3>2, <2>1, <2>3 DEF StepsLeft
      <4> HIDE DEF left
      <4> QED BY <4>1, <2>2
    <3> QED BY <3>1, <3>2, <2>1
  <2> HIDE DEF left
  <2> QED BY <2>2, <2>4
<1> QED BY <1>2, <1>3, <1>4, <1>5, <1>6, <1>7 DEF FetchNext, FetchStep

\* fetchAttestcoinProof's loop never spins: no pause is over at once, whatever its settings, and
\* every step and every instant brings the end nearer.  With time passing and due timers firing
\* (FetchFairSpec) this is why it ends.
THEOREM FetchRunsOut == FetchSpec => NeverAsksInHaste
<1> DEFINE Nearer == \/ StepsLeft' < StepsLeft
                     \/ ready = Never /\ ready' # Never /\ StepsLeft' = StepsLeft
<1>1. ASSUME FetchInv, [FetchNext]_fetchVars PROVE [Nearer]_fetchVars
  BY <1>1, StepInTime
<1> QED BY <1>1, FetchInvariant, PTL DEF FetchSpec, NeverAsksInHaste

-----------------------------------------------------------------------------
(* The reader                                                               *)

\* The chain has a block, and every block of it was produced.
ChainOK ==
    /\ blocks \in Seq(States)
    /\ canon \in Seq(1 .. Len(blocks))
    /\ Len(canon) > 0

\* What the pinned block says to a call.
Said(call) ==
    IF call = "getAuthorization" THEN blocks[pin.hash].record ELSE blocks[pin.hash].anchors[call]

Pinned == Served /\ canon[pin.number] = pin.hash

\* As long as the pinned block is on the chain, whatever was answered it has answered: a block
\* that has left the chain is not on it when the number is looked at again.
ReaderInv ==
    /\ ChainOK
    /\ pc # "done" => result = "waiting"
    /\ pc \in {"latest", "code"} => DOMAIN answered = {}
    /\ pc = "confirm" => DOMAIN answered = Calls
    /\ pc \in {"code", "calls", "confirm"} =>
          /\ pin.hash \in 1 .. Len(blocks) /\ pin.number \in Nat \ {0}
          /\ Pinned =>
                /\ pc # "code" => blocks[pin.hash].code = TrustedCode
                /\ \A call \in DOMAIN answered : answered[call] = Said(call)

\* A number of the chain names a block.
LEMMA CanonFacts ==
    ASSUME ChainOK
    PROVE  /\ Len(blocks) \in Nat /\ Len(canon) \in Nat \ {0}
           /\ \A n \in 1 .. Len(canon) : canon[n] \in 1 .. Len(blocks)
           /\ \A h \in 1 .. Len(blocks) : blocks[h] \in States
BY DEF ChainOK

\* A new block keeps every block in its place, and has a hash of its own.
LEMMA ExtendFacts ==
    ASSUME ChainOK, NEW n \in 1 .. Len(canon), Extend(n)
    PROVE  /\ ChainOK'
           /\ Len(blocks') = Len(blocks) + 1
           /\ \A h \in 1 .. Len(blocks) : blocks'[h] = blocks[h]
           /\ Len(canon') = n + 1 /\ canon'[n + 1] = Len(blocks) + 1
           /\ \A m \in 1 .. n : canon'[m] = canon[m]
<1>0. /\ Len(blocks) \in Nat /\ Len(canon) \in Nat \ {0} /\ n \in Nat /\ n <= Len(canon)
      /\ canon[n] \in 1 .. Len(blocks) /\ blocks[canon[n]] \in States
  BY CanonFacts
<1>1. PICK s \in Children[blocks[canon[n]]] : blocks' = Append(blocks, s)
  BY DEF Extend
<1>2. s \in States
  BY <1>0, <1>1, LookupAssumption
<1>3. /\ blocks' \in Seq(States) /\ Len(blocks') = Len(blocks) + 1
      /\ \A h \in 1 .. Len(blocks) : blocks'[h] = blocks[h]
  BY <1>1, <1>2 DEF ChainOK
<1> DEFINE kept == SubSeq(canon, 1, n)
           Hashes == 1 .. Len(blocks')
<1>4. canon \in Seq(Hashes)
  BY <1>0, <1>3 DEF ChainOK
<1>5. kept \in Seq(Hashes) /\ Len(kept) = n /\ \A m \in 1 .. n : kept[m] = canon[m]
  BY <1>0, <1>4
<1>6. canon' = Append(kept, Len(blocks) + 1)
  BY DEF Extend
<1>7. Len(blocks) + 1 \in Hashes
  BY <1>0, <1>3
<1> HIDE DEF kept, Hashes
<1>8. /\ canon' \in Seq(Hashes) /\ Len(canon') = n + 1
      /\ canon'[n + 1] = Len(blocks) + 1
      /\ \A m \in 1 .. n : canon'[m] = canon[m]
  BY <1>0, <1>5, <1>6, <1>7
<1>9. ChainOK'
  BY <1>0, <1>3, <1>8 DEF ChainOK, Hashes
<1> QED BY <1>3, <1>8, <1>9

\* The pinned block stays where it was or leaves the chain.
LEMMA ExtendKeeps ==
    ASSUME ReaderInv, NEW n \in 1 .. Len(canon), Extend(n), UNCHANGED <<result, pc, pin, answered>>
    PROVE  ReaderInv'
<1>1. ChainOK
  BY DEF ReaderInv
<1>2. ChainOK' /\ Len(blocks') = Len(blocks) + 1 /\ Len(blocks) \in Nat /\ n \in Nat
      /\ n <= Len(canon) /\ Len(canon) \in Nat
  BY <1>1, ExtendFacts, CanonFacts
<1>3. \A h \in 1 .. Len(blocks) : blocks'[h] = blocks[h]
  BY <1>1, ExtendFacts
<1>4. /\ Len(canon') = n + 1 /\ canon'[n + 1] = Len(blocks) + 1
      /\ \A m \in 1 .. n : canon'[m] = canon[m]
  BY <1>1, ExtendFacts
<1>5. ASSUME pc \in {"code", "calls", "confirm"}
      PROVE  /\ (pin.hash \in 1 .. Len(blocks) /\ pin.number \in Nat \ {0})'
             /\ Pinned' => Pinned
             /\ blocks'[pin.hash] = blocks[pin.hash]
             /\ \A call : Said(call)' = Said(call)
  <2>1. pin' = pin /\ pin.hash \in 1 .. Len(blocks) /\ pin.number \in Nat \ {0}
    BY <1>5 DEF ReaderInv
  <2>2. blocks'[pin.hash] = blocks[pin.hash]
    BY <2>1, <1>3
  <2>3. Pinned' => Pinned
    <3> SUFFICES ASSUME Pinned' PROVE Pinned
      OBVIOUS
    <3>1. pin.number <= n + 1 /\ canon'[pin.number] = pin.hash
      BY <2>1, <1>4 DEF Pinned, Served
    <3>2. pin.number # n + 1
      BY <3>1, <2>1, <1>2, <1>4
    <3>3. pin.number \in 1 .. n
      BY <3>1, <3>2, <2>1, <1>2
    <3> QED BY <3>1, <3>3, <1>2, <1>4 DEF Pinned, Served
  <2>4. (pin.hash \in 1 .. Len(blocks) /\ pin.number \in Nat \ {0})'
    BY <2>1, <1>2
  <2>5. \A call : Said(call)' = Said(call)
    BY <2>1, <2>2 DEF Said
  <2> QED BY <2>2, <2>3, <2>4, <2>5
<1> QED BY <1>2, <1>5 DEF ReaderInv

\* Every step of the lookup, and of the chain, keeps the invariant.
LEMMA ReaderStepKeeps == ReaderInv /\ [ReaderNext]_readerVars => ReaderInv'
<1> SUFFICES ASSUME ReaderInv, [ReaderNext]_readerVars PROVE ReaderInv'
  OBVIOUS
<1>0. ChainOK
  BY DEF ReaderInv
<1>1. CASE PinLatest
  <2>1. /\ pin'.hash \in 1 .. Len(blocks) /\ pin'.number \in Nat \ {0}
        /\ DOMAIN answered' = {} /\ pc' = "code" /\ UNCHANGED <<chainVars, result>>
        /\ result = "waiting"
    BY <1>0, <1>1, CanonFacts DEF PinLatest, ReaderInv
  <2> QED BY <1>0, <2>1 DEF ReaderInv, ChainOK, chainVars
<1>2. CASE ReadCode
  <2>1. CASE Now.code = TrustedCode
    BY <1>2, <2>1 DEF ReadCode, ReaderInv, ChainOK, chainVars, Pinned, Served, Now, Said
  <2>2. CASE Now.code # TrustedCode
    BY <1>2, <2>2 DEF ReadCode, End, ReaderInv, ChainOK, chainVars
  <2> QED BY <2>1, <2>2
<1>3. ASSUME NEW call \in Calls, AnswerCall(call)
      PROVE  ReaderInv'
  <2>1. /\ pc = "calls" /\ Served /\ UNCHANGED <<chainVars, result, pin>>
        /\ answered' = [c \in DOMAIN answered \cup {call} |->
                           IF c = call THEN Answer(call) ELSE answered[c]]
        /\ pc' = IF DOMAIN answered' = Calls THEN "confirm" ELSE "calls"
    BY <1>3 DEF AnswerCall
  <2>2. UNCHANGED <<blocks, canon, Pinned>> /\ ChainOK' /\ \A c : Said(c)' = Said(c)
    BY <1>0, <2>1 DEF chainVars, ChainOK, Pinned, Served, Said
  <2>3. Pinned => Answer(call) = Said(call)
    BY DEF Pinned, Answer, Now, Said
  <2>4. Pinned => \A c \in DOMAIN answered' : answered'[c] = Said(c)
    BY <2>1, <2>3 DEF ReaderInv
  <2>5. /\ pin.hash \in 1 .. Len(blocks) /\ pin.number \in Nat \ {0}
        /\ Pinned => blocks[pin.hash].code = TrustedCode
        /\ result = "waiting"
    BY <2>1 DEF ReaderInv
  <2> QED BY <2>1, <2>2, <2>4, <2>5 DEF ReaderInv
<1>4. CASE Confirm
  BY <1>0, <1>4 DEF Confirm, End, ReaderInv, ChainOK, chainVars
<1>5. CASE RequestFails
  BY <1>0, <1>5 DEF RequestFails, End, ReaderInv, ChainOK, chainVars
<1>6. ASSUME ChainNext /\ UNCHANGED <<result, pc, pin, answered>>
      PROVE  ReaderInv'
  BY <1>6, ExtendKeeps DEF ChainNext
<1>7. CASE UNCHANGED readerVars
  BY <1>0, <1>7 DEF readerVars, chainVars, ReaderInv, ChainOK, Pinned, Served, Said
<1> QED BY <1>1, <1>2, <1>3, <1>4, <1>5, <1>6, <1>7 DEF ReaderNext

\* Every step of the lookup is the one look, or no step of what is promised.
LEMMA ReaderStepLooks ==
    ReaderInv /\ [ReaderNext]_readerVars => [AtomicNext]_<<chainVars, result>>
<1> SUFFICES ASSUME ReaderInv, [ReaderNext]_readerVars
             PROVE  [AtomicNext]_<<chainVars, result>>
  OBVIOUS
<1>1. CASE PinLatest
  BY <1>1 DEF PinLatest
<1>2. CASE ReadCode
  BY <1>2 DEF ReadCode, End, AtomicNext, Look, ReaderInv
<1>3. ASSUME NEW call \in Calls, AnswerCall(call)
      PROVE  UNCHANGED <<chainVars, result>>
  BY <1>3 DEF AnswerCall
<1>4. CASE Confirm
  <2>1. CASE Confirmed
    <3> DEFINE s == blocks[canon[pin.number]]
               found == [a \in Anchors |-> answered[a]]
    <3>1. /\ pin.number \in 1 .. Len(canon) /\ s \in States
          /\ s = blocks[pin.hash] /\ s.code = TrustedCode
      BY <1>4, <2>1, CanonFacts DEF Confirm, Confirmed, ReaderInv, Pinned, Served
    <3>2. \A call \in Calls : answered[call] = Said(call)
      BY <1>4, <2>1 DEF Confirm, Confirmed, ReaderInv, Pinned
    <3>3. answered["getAuthorization"] = s.record
      BY <3>1, <3>2 DEF Calls, Said
    <3>4. \A a \in Anchors : answered[a] = s.anchors[a]
      BY <3>1, <3>2 DEF Calls, Said, Anchors
    <3>5. found = s.anchors
      BY <3>1, <3>4, LookupAssumption
    <3>6. result' = Concluded(found, answered["getAuthorization"]) /\ UNCHANGED chainVars
      BY <1>4, <2>1 DEF Confirm, End
    <3>7. result' = Judged(s)
      BY <3>1, <3>3, <3>5, <3>6 DEF Judged
    <3> QED BY <1>4, <3>1, <3>6, <3>7 DEF AtomicNext, Look, Confirm, ReaderInv
  <2>2. CASE ~ Confirmed
    BY <1>4, <2>2 DEF Confirm, End, AtomicNext, Look, ReaderInv
  <2> QED BY <2>1, <2>2
<1>5. CASE RequestFails
  BY <1>5 DEF RequestFails, End, AtomicNext, Look, ReaderInv
<1>6. CASE ChainNext /\ UNCHANGED <<result, pc, pin, answered>>
  BY <1>6 DEF AtomicNext
<1>7. CASE UNCHANGED readerVars
  BY <1>7 DEF readerVars
<1> QED BY <1>1, <1>2, <1>3, <1>4, <1>5, <1>6, <1>7 DEF ReaderNext

\* The ten requests of readAuthorization are one look at one block, for every chain, however it
\* grows and is reorganised, and every set of records.
THEOREM ReaderImplementsLookup == ReaderSpec => LooksAtOneBlock
<1>1. ReaderInit => ReaderInv
  <2> SUFFICES ASSUME ReaderInit PROVE ReaderInv
    OBVIOUS
  <2>1. PICK s \in States : blocks = <<s>> /\ canon = <<1>>
    BY DEF ReaderInit, ChainInit
  <2>2. ChainOK
    BY <2>1 DEF ChainOK
  <2>3. DOMAIN answered = {} /\ pc = "latest" /\ result = "waiting"
    BY DEF ReaderInit
  <2> QED BY <2>2, <2>3 DEF ReaderInv
<1>2. ReaderInit => AtomicInit
  BY DEF ReaderInit, AtomicInit
<1> QED
  BY <1>1, <1>2, ReaderStepKeeps, ReaderStepLooks, PTL
  DEF ReaderSpec, LooksAtOneBlock, AtomicSpec

=============================================================================
