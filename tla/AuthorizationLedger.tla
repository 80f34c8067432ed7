-------------------------- MODULE AuthorizationLedger --------------------------
(***************************************************************************)
(* What the source contract, the chain it is on and the registry promise   *)
(* whoever relies on a verified authorization, without blocks, logs,       *)
(* transactions or proofs.  A publication has a slot, for which there is   *)
(* no other.  It becomes final, may be recorded once while it has not      *)
(* expired, and stays what it is.                                          *)
(***************************************************************************)

VARIABLES
    final,     \* the publications that can be proved
    recorded,  \* those the registry says are verified
    expired    \* those that are final and no longer valid

OneOfASlot(publications) ==
    \A p, q \in publications : p.slot = q.slot => p = q

LedgerInit == final = {} /\ recorded = {} /\ expired = {}

\* Blocks become final, and time passes.
Advance ==
    /\ final \subseteq final'
    /\ OneOfASlot(final')
    /\ expired \subseteq expired' /\ expired' \subseteq final'
    /\ UNCHANGED recorded

Record(p) ==
    /\ p \notin recorded \cup expired
    /\ recorded' = recorded \cup {p}
    /\ UNCHANGED <<final, expired>>

LedgerNext == Advance \/ \E p \in final : Record(p)

LedgerSpec == LedgerInit /\ [][LedgerNext]_<<final, recorded, expired>>

=============================================================================
