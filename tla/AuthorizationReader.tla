-------------------------- MODULE AuthorizationReader --------------------------
(***************************************************************************)
(* CreditcoinAuthorizationRegistryReader.readAuthorization: a lookup made  *)
(* of ten requests to a node whose chain moves on, and is reorganised,     *)
(* between any two of them.                                                *)
(***************************************************************************)
EXTENDS AtomicLookup

VARIABLES
    pc,       \* the request under way
    pin,      \* hash and number of the latest block when the lookup began
    answered  \* the calls of the Promise.all that have been answered, and what was said

readerVars == <<chainVars, result, pc, pin, answered>>

Calls == Anchors \cup {"getAuthorization"}

\* A request for the pinned number is answered from the block that has the number now.
Served == pin.number <= Len(canon)

Now == blocks[canon[pin.number]]

Answer(call) == IF call = "getAuthorization" THEN Now.record ELSE Now.anchors[call]

End(how) == result' = how /\ pc' = "done" /\ UNCHANGED <<chainVars, pin, answered>>

PinLatest ==
    /\ pc = "latest"
    /\ pin' = [hash |-> canon[Len(canon)], number |-> Len(canon)]
    /\ pc' = "code"
    /\ UNCHANGED <<chainVars, result, answered>>

ReadCode ==
    /\ pc = "code" /\ Served
    /\ IF Now.code = TrustedCode
         THEN pc' = "calls" /\ UNCHANGED <<chainVars, result, pin, answered>>
         ELSE End("failed")

\* The six calls are answered in any order; a block without the contract has no answer.
AnswerCall(call) ==
    /\ pc = "calls" /\ call \notin DOMAIN answered
    /\ Served /\ Now.code # NoCode
    /\ answered' = [c \in DOMAIN answered \cup {call} |->
                       IF c = call THEN Answer(call) ELSE answered[c]]
    /\ pc' = IF DOMAIN answered' = Calls THEN "confirm" ELSE "calls"
    /\ UNCHANGED <<chainVars, result, pin>>

\* Fault: the number still names a block, whichever.
ConfirmedByNumber == Served

Confirmed == Served /\ canon[pin.number] = pin.hash

Confirm ==
    /\ pc = "confirm"
    /\ IF Confirmed
         THEN End(Concluded([a \in Anchors |-> answered[a]], answered["getAuthorization"]))
         ELSE End("failed")

\* Any request may fail, and one for a number the chain no longer has does.
RequestFails == pc # "done" /\ End("failed")

ReaderInit ==
    /\ ChainInit
    /\ result = "waiting" /\ pc = "latest"
    /\ pin = [hash |-> 0, number |-> 0]
    /\ answered = [c \in {} |-> NoRecord]

ReaderNext ==
    \/ PinLatest \/ ReadCode \/ Confirm \/ RequestFails
    \/ \E call \in Calls : AnswerCall(call)
    \/ ChainNext /\ UNCHANGED <<result, pc, pin, answered>>

ReaderSpec == ReaderInit /\ [][ReaderNext]_readerVars

-----------------------------------------------------------------------------
(* Properties                                                               *)

\* Ten requests are as good as one look: what the lookup returns is what one block of the
\* chain said of the code, of all the trust anchors and of the record, however the chain was
\* reorganised meanwhile.
LooksAtOneBlock == AtomicSpec

=============================================================================
