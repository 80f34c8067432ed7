------------------------- MODULE AuthorizedExecution -------------------------
(***************************************************************************)
(* What the guarded signer promises the owner of an account, without       *)
(* calls, processes or providers: whoever runs it, what it puts on the     *)
(* wire is a transaction of a known authorization, at the nonce that the   *)
(* authorization commits to, within the fee ceiling.  The node's book      *)
(* holds, by nonce, such transactions and those of others.                 *)
(***************************************************************************)
EXTENDS Naturals, Sequences

CONSTANTS Accounts, AuthIds, Commitment, FeeCeiling, Foreign

VARIABLES
    known,  \* the authorizations that can be relied on
    wire,   \* transactions issued and not yet processed
    book    \* per account, by nonce: the transactions the node counts

\* An issued transaction; everything but its fee is what the authorization commits to.
Issued == [authId: AuthIds, fee: 0 .. FeeCeiling]

Slot(tx) == Commitment[tx.authId].nonce + 1

Init ==
    /\ known = {}
    /\ wire = {}
    /\ book = [a \in Accounts |-> <<>>]

Learn(id) ==
    /\ known' = known \cup {id}
    /\ UNCHANGED <<wire, book>>

Issue(tx) ==
    /\ tx.authId \in known
    /\ wire' = wire \cup {tx}
    /\ UNCHANGED <<known, book>>

\* A copy of a transaction may stay on the wire when one of them is processed.
Consume(tx) ==
    /\ tx \in wire
    /\ wire' \in {wire, wire \ {tx}}

Land(tx) ==
    LET a == Commitment[tx.authId].account
    IN  /\ Consume(tx)
        /\ Slot(tx) <= Len(book[a]) + 1
        /\ book' = [book EXCEPT ![a] =
                       IF Slot(tx) <= Len(@) THEN [@ EXCEPT ![Slot(tx)] = tx]
                                             ELSE Append(@, tx)]
        /\ UNCHANGED known

Lose(tx) == Consume(tx) /\ UNCHANGED <<known, book>>

Spend(a) ==
    /\ book' = [book EXCEPT ![a] = Append(@, Foreign)]
    /\ UNCHANGED <<known, wire>>

Forget(a) ==
    /\ \E n \in 0 .. Len(book[a]) : book' = [book EXCEPT ![a] = SubSeq(@, 1, n)]
    /\ UNCHANGED <<known, wire>>

Next ==
    \/ \E id \in AuthIds : Learn(id)
    \/ \E tx \in Issued : Issue(tx) \/ Land(tx) \/ Lose(tx)
    \/ \E a \in Accounts : Spend(a) \/ Forget(a)

Spec == Init /\ [][Next]_<<known, wire, book>>

=============================================================================
