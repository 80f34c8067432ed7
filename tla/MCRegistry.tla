------------------------------ MODULE MCRegistry ------------------------------
(* Values of the constants of VerifiedAuthorizationRegistry for TLC.        *)
EXTENDS VerifiedAuthorizationRegistry

CONSTANTS o1, o2, t1, t2, bad, here, there

Authorization(owner, terms, validUntil) ==
    [sender |-> owner, terms |-> terms, validUntil |-> validUntil]

\* One owner has two authorizations to offer, another brings one that is not its own and one
\* whose terms are not well shaped.
SomeOffered ==
    {Authorization(o1, t1, 1), Authorization(o1, t2, 2), Authorization(o2, t1, 2),
     Authorization(o2, bad, 2)}

\* A contract elsewhere emits what the source would have emitted.
Lookalike(address) ==
    LET a == Authorization(o2, t1, 2)
    IN  [address |-> address, event |-> Event(AuthorizationId(here, 0, a), Commitment(a), 0, a)]

SomeOtherLogs == {Lookalike(there)}

\* On another chain a contract has the address of the source.
SomeForeignLogs == {Lookalike(here)}

=============================================================================
