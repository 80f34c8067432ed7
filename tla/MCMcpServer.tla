----------------------------- MODULE MCMcpServer -----------------------------
(* Values of the constants of McpServer for TLC.                            *)
EXTENDS McpServer

CONSTANTS c1, c2, c3, p1, p2, a1, a2, e1, x1, id1, id2

Binding(nonce) ==
    [account |-> a1, nonce |-> nonce, validUntil |-> 2, effect |-> e1, code |-> x1]

SameNonce == [id \in AuthIds |-> Binding(0)]

Approval(id) ==
    [authId |-> id, commitment |-> Commitment[id], executor |-> a1, nonce |-> 0,
     validUntil |-> 2, ceiling |-> 1]

\* The server holds an approval for the first authorization only.
FirstOnly == [id \in AuthIds |-> IF id = id1 THEN Approval(id) ELSE None]

FirstRequest ==
    {[authId |-> id1, declared |-> Commitment[id1], effect |-> e1, approval |-> Approval(id1)]}

Proposal(id, from, nonce) ==
    [authId |-> id, declared |-> Commitment[id], effect |-> e1, from |-> from, nonce |-> nonce]

SomeProposals ==
    {Proposal(id1, a1, 0), Proposal(id2, a1, 0), Proposal(id1, a2, 0), Proposal(id1, a1, 1)}

\* The third call is made to another server, whose wallet is the controller's.
TwoServers == [c \in Calls |-> IF c = c3 THEN p2 ELSE p1]
ControllerToo == [c \in Calls |-> IF c = c3 THEN a2 ELSE a1]

=============================================================================
