------------------------- MODULE MCAuthorizationReader -------------------------
(* Values of the constants of AuthorizationReader for TLC.                      *)
EXTENDS AuthorizationReader

CONSTANTS r1, r2

Ours == [a \in Anchors |-> "ours"]

Holding(record) == [code |-> "registry", anchors |-> Ours, record |-> record]

Missing == [code |-> "none", anchors |-> Ours, record |-> NoRecord]

\* Deployed for another source contract, which is an immutable and so part of the code.
Foreign ==
    [code |-> "registry of theirs", record |-> r2,
     anchors |-> [Ours EXCEPT !["trustedAuthorizationSource"] = "theirs"]]

SomeStates == {Missing, Foreign, Holding(NoRecord), Holding(r1), Holding(r2)}

\* A contract stays where it was deployed and a record stays as it was written.
SomeChildren ==
    [s \in SomeStates |->
        IF s = Missing THEN SomeStates
        ELSE IF s = Holding(NoRecord) THEN {s, Holding(r1), Holding(r2)} ELSE {s}]

=============================================================================
