------------------------- MODULE AuthorizationSource -------------------------
(***************************************************************************)
(* The contract AuthorizationSource and the source chain it lives on.      *)
(*                                                                         *)
(* A transaction may call publishAuthorization several times, and other    *)
(* contracts, before it ends; then its logs and nonces become part of the  *)
(* head block, or nothing does.  Blocks that are not attested yet can be   *)
(* replaced, and what they published goes with them.                       *)
(***************************************************************************)
EXTENDS Naturals, Sequences, FiniteSets

CONSTANTS
    Owners,      \* who may call publishAuthorization
    Terms,       \* what an authorization allows: nonce, action, target, parties, amount
    WellShaped,  \* the terms that pass _validateShape
    Offered,     \* the authorizations that callers pass
    Source,      \* the chain and address of the contract
    OtherLogs,   \* logs with the same topic that other contracts emit
    MaxBlocks,   \* bound: blocks of the source chain
    MaxTxs,      \* bound: transactions of a block
    MaxLogs,     \* bound: logs of a block
    MaxTick,     \* bound: seconds between two blocks
    None         \* no transaction is being executed

AuthorizationType == [sender: Owners, terms: Terms, validUntil: Nat]

\* Commitments and ids are hashes of their fields; they collide only when the fields agree.
Commitment(a) == [sender |-> a.sender, terms |-> a.terms, validUntil |-> a.validUntil]

AuthorizationId(at, nonce, a) ==
    [source |-> at, sender |-> a.sender, nonce |-> nonce, validUntil |-> a.validUntil,
     commitment |-> Commitment(a)]

\* The event AuthorizationPublished, or one that looks like it.
Event(id, commitment, nonce, a) ==
    [authorizationId |-> id, commitment |-> commitment, nonce |-> nonce, authorization |-> a]

\* An event that the contract can have emitted.
IsPublication(e) ==
    /\ e.authorization \in AuthorizationType
    /\ e.authorization.terms \in WellShaped
    /\ e.nonce \in Nat
    /\ e.commitment = Commitment(e.authorization)
    /\ e.authorizationId = AuthorizationId(Source, e.nonce, e.authorization)

ASSUME SourceAssumption ==
    /\ WellShaped \subseteq Terms
    /\ Offered \subseteq AuthorizationType
    /\ \A l \in OtherLogs : l.address # Source
    /\ MaxBlocks \in Nat /\ MaxTxs \in Nat /\ MaxLogs \in Nat /\ MaxTick \in Nat

VARIABLES
    blocks,    \* the current chain: per block its time, number of transactions, next nonces
    logs,      \* the logs of the chain, each with its block and transaction
    tx,        \* the transaction under execution: its logs and the nonces it leaves
    attested   \* the number of blocks that are attested, and final

sourceVars == <<blocks, logs, tx, attested>>

HeadBlock == blocks[Len(blocks)]

-----------------------------------------------------------------------------
(* Faults                                                                   *)

KeepNonce(nonces, owner) == nonces

AnyShape(a) == a.validUntil > HeadBlock.time

-----------------------------------------------------------------------------

\* _validateShape, and the expiry.
Publishable(a) == a.terms \in WellShaped /\ a.validUntil > HeadBlock.time

NonceTaken(nonces, owner) == [nonces EXCEPT ![owner] = @ + 1]

\* The log that the transaction under execution emits next.
Emitted(address, event) ==
    [block |-> Len(blocks), transaction |-> HeadBlock.txs + 1, index |-> tx.size + 1,
     address |-> address, event |-> event]

LogsInHead == tx.size + Cardinality({l \in logs : l.block = Len(blocks)})

Emit(address, event, nonces) ==
    tx' = [size |-> tx.size + 1, logs |-> tx.logs \cup {Emitted(address, event)},
           nextNonce |-> nonces]

Begin ==
    /\ tx = None
    /\ HeadBlock.txs < MaxTxs
    /\ tx' = [size |-> 0, logs |-> {}, nextNonce |-> HeadBlock.nextNonce]
    /\ UNCHANGED <<blocks, logs, attested>>

\* A call that reverts leaves no trace, whether its caller goes on or not.
PublishAuthorization(caller, a) ==
    /\ tx # None
    /\ LogsInHead < MaxLogs
    /\ a.sender = caller
    /\ Publishable(a)
    /\ LET nonce == tx.nextNonce[caller]
       IN  Emit(Source, Event(AuthorizationId(Source, nonce, a), Commitment(a), nonce, a),
                NonceTaken(tx.nextNonce, caller))
    /\ UNCHANGED <<blocks, logs, attested>>

EmitElsewhere ==
    /\ tx # None
    /\ LogsInHead < MaxLogs
    /\ \E l \in OtherLogs : Emit(l.address, l.event, tx.nextNonce)
    /\ UNCHANGED <<blocks, logs, attested>>

End ==
    /\ tx # None
    /\ blocks' = [blocks EXCEPT ![Len(blocks)] =
                     [time |-> @.time, txs |-> @.txs + 1, nextNonce |-> tx.nextNonce]]
    /\ logs' = logs \cup tx.logs
    /\ tx' = None
    /\ UNCHANGED attested

\* The transaction as a whole reverts; it is in the block all the same.
Revert ==
    /\ tx # None
    /\ blocks' = [blocks EXCEPT ![Len(blocks)].txs = @ + 1]
    /\ tx' = None
    /\ UNCHANGED <<logs, attested>>

\* A block on top of the first n, in place of those that followed them.
Mine(n, tick) ==
    /\ tx = None
    /\ n < MaxBlocks
    /\ blocks' = Append(SubSeq(blocks, 1, n),
                        [time |-> blocks[n].time + tick, txs |-> 0,
                         nextNonce |-> blocks[n].nextNonce])
    /\ logs' = {l \in logs : l.block <= n}
    /\ UNCHANGED <<tx, attested>>

NewBlock == \E tick \in 1 .. MaxTick : Mine(Len(blocks), tick)

Reorganise ==
    \E n \in 1 .. Len(blocks) - 1, tick \in 1 .. MaxTick : n >= attested /\ Mine(n, tick)

Attest ==
    /\ attested + 1 < Len(blocks)
    /\ attested' = attested + 1
    /\ UNCHANGED <<blocks, logs, tx>>

SourceInit ==
    /\ blocks = <<[time |-> 0, txs |-> 0, nextNonce |-> [o \in Owners |-> 0]]>>
    /\ logs = {}
    /\ tx = None
    /\ attested = 0

SourceNext ==
    \/ Begin \/ EmitElsewhere \/ End \/ Revert
    \/ \E caller \in Owners, a \in Offered : PublishAuthorization(caller, a)
    \/ NewBlock \/ Reorganise \/ Attest

=============================================================================
