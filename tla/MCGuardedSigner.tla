--------------------------- MODULE MCGuardedSigner ---------------------------
(* Values of the constants of GuardedSigner for TLC.                        *)
EXTENDS GuardedSigner, TLC

CONSTANTS c1, c2, p1, p2, a1, e1, e2, x1, x2, id1, id2

Binding(nonce, validUntil, effect) ==
    [account |-> a1, nonce |-> nonce, validUntil |-> validUntil, effect |-> effect, code |-> x1]

\* Two authorizations that compete for the account's first nonce ...
Rivals ==
    [id \in AuthIds |-> IF id = id1 THEN Binding(0, 2, e1) ELSE Binding(0, 3, e2)]

\* ... and two for successive nonces.
Successive ==
    [id \in AuthIds |-> IF id = id1 THEN Binding(0, 2, e1) ELSE Binding(1, 2, e2)]

Approval(id, ceiling) ==
    [authId |-> id, commitment |-> Commitment[id], executor |-> Commitment[id].account,
     nonce |-> Commitment[id].nonce, validUntil |-> Commitment[id].validUntil,
     ceiling |-> ceiling]

Faithful(id) ==
    [authId |-> id, declared |-> Commitment[id], effect |-> Commitment[id].effect,
     approval |-> Approval(id, 1)]

\* The caller asks for another effect, or brings an approval under another ceiling.
Unfaithful ==
    {[Faithful(id1) EXCEPT !.effect = e2],
     [Faithful(id1) EXCEPT !.approval = Approval(id1, 2)]}

FaithfulRequests == {Faithful(id) : id \in AuthIds}
AllRequests == FaithfulRequests \cup Unfaithful

OneProcess == [c \in Calls |-> p1]
TwoProcesses == [c \in Calls |-> IF c = c2 THEN p2 ELSE p1]
OneAccount == [c \in Calls |-> a1]

CallSymmetry == Permutations(Calls)

=============================================================================
