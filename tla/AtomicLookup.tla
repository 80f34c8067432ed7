----------------------------- MODULE AtomicLookup -----------------------------
(***************************************************************************)
(* What a lookup of a verified authorization promises: its result is that  *)
(* of looking, in one instant, at one block of the chain the registry is   *)
(* on.  That chain grows, and its last blocks may be replaced.  Assumed: a *)
(* block that was replaced does not come back.  The code tells a chain     *)
(* that left its block and returned to it from one that stayed no better   *)
(* than the comparison of two hashes does.                                 *)
(***************************************************************************)
EXTENDS Naturals, Sequences

CONSTANTS
    States,       \* what a block may say of the registry's address
    Children,     \* States -> what the block after it may say
    TrustedCode,  \* the expected runtime code hash
    NoCode,       \* the hash of no code
    Trusted,      \* the expected answer to each question about the trust anchors
    Records,      \* the records of the authorization
    NoRecord,     \* the zero commitment, not verified
    MaxBlocks     \* bound: blocks ever produced, replaced ones included

Anchors ==
    {"trustedSourceChainKey", "trustedSourceChainId", "trustedAuthorizationSource",
     "AUTHORIZATION_COMMITMENT_DOMAIN", "AUTHORIZATION_ID_DOMAIN"}

ASSUME LookupAssumption ==
    /\ \A s \in States : /\ s.anchors = [a \in Anchors |-> s.anchors[a]]
                         /\ s.record \in Records \cup {NoRecord}
    /\ Children \in [States -> SUBSET States]
    /\ TrustedCode # NoCode
    /\ DOMAIN Trusted = Anchors
    /\ NoRecord \notin Records
    /\ {"waiting", "failed", "absent"} \cap Records = {}
    /\ MaxBlocks \in Nat

VARIABLES
    blocks,  \* every block ever produced; a block's hash is its index
    canon,   \* the hashes of the current chain, by block number
    result   \* how the lookup ended

chainVars == <<blocks, canon>>

\* The checks made of one block's answers.
Concluded(anchors, record) ==
    IF anchors # Trusted THEN "failed" ELSE IF record = NoRecord THEN "absent" ELSE record

Judged(s) == IF s.code # TrustedCode THEN "failed" ELSE Concluded(s.anchors, s.record)

\* A block is added after the first n: a new block, or one that replaces the others.
Extend(n) ==
    /\ Len(blocks) < MaxBlocks
    /\ \E s \in Children[blocks[canon[n]]] : blocks' = Append(blocks, s)
    /\ canon' = Append(SubSeq(canon, 1, n), Len(blocks) + 1)

ChainInit == \E s \in States : blocks = <<s>> /\ canon = <<1>>

ChainNext == \E n \in 1 .. Len(canon) : Extend(n)

Look ==
    /\ result = "waiting"
    /\ \/ result' = "failed"
       \/ \E n \in 1 .. Len(canon) : result' = Judged(blocks[canon[n]])
    /\ UNCHANGED chainVars

AtomicInit == ChainInit /\ result = "waiting"

AtomicNext == Look \/ (ChainNext /\ UNCHANGED result)

AtomicSpec == AtomicInit /\ [][AtomicNext]_<<chainVars, result>>

=============================================================================
