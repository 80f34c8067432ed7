-------------------- MODULE VerifiedAuthorizationRegistry --------------------
(***************************************************************************)
(* The contract VerifiedAuthorizationRegistry on Creditcoin, fed with      *)
(* proofs of transactions of the source chain.  The native BlockProver     *)
(* verifies a proof iff it is of a transaction of an attested block.       *)
(***************************************************************************)
EXTENDS AuthorizationSource

CONSTANTS
    TrustedChain,  \* trustedSourceChainKey
    OtherChains,   \* other chains that Creditcoin attests
    ForeignLogs,   \* the logs of any transaction of such a chain
    MaxTime        \* bound: the time of Creditcoin

ASSUME RegistryAssumption == TrustedChain \notin OtherChains /\ MaxTime \in Nat

VARIABLES
    authorizations,         \* authorizationId -> VerifiedAuthorization, of the recorded ids
    processedTransactions,  \* the keys of the transactions that were recorded
    now                     \* block.timestamp of Creditcoin

registryVars == <<authorizations, processedTransactions>>
allVars == <<sourceVars, registryVars, now>>

-----------------------------------------------------------------------------
(* Faults                                                                   *)

AnyLog(ls) == ls

KeyOfBlock(chain, h, i) == <<chain, h, 1>>

AnyChain(chain) == TRUE

-----------------------------------------------------------------------------

\* computeTransactionKey
TransactionKey(chain, h, i) == <<chain, h, i>>

IsTrustedChain(chain) == chain = TrustedChain

\* The receipt of the transaction that a verified proof is about.
ReceiptLogs(chain, h, i) ==
    IF chain = TrustedChain
      THEN {l \in logs : l.block = h /\ l.transaction = i}
      ELSE ForeignLogs

Provable(chain, h, i) ==
    chain = TrustedChain => h \in 1 .. attested /\ i \in 1 .. blocks[h].txs

\* The logs of the trusted contract; a transaction that reverted has none.
TrustedLogs(ls) == {l \in ls : l.address = Source}

\* The last checks of submitVerifiedAuthorization, on the one trusted event.
Recordable(e) ==
    /\ e.authorization.terms \in WellShaped
    /\ e.authorization.validUntil > now
    /\ Commitment(e.authorization) = e.commitment
    /\ AuthorizationId(Source, e.nonce, e.authorization) = e.authorizationId
    /\ e.authorizationId \notin DOMAIN authorizations

VerifiedAuthorization(chain, h, i, e) ==
    [commitment |-> e.commitment, sourceChainKey |-> chain, sourceBlockNumber |-> h,
     transactionIndex |-> i, validUntil |-> e.authorization.validUntil,
     sourceSender |-> e.authorization.sender]

Submit(chain, h, i) ==
    /\ IsTrustedChain(chain)
    /\ TransactionKey(chain, h, i) \notin processedTransactions
    /\ Provable(chain, h, i)
    /\ \E l \in TrustedLogs(ReceiptLogs(chain, h, i)) :
          /\ TrustedLogs(ReceiptLogs(chain, h, i)) = {l}
          /\ Recordable(l.event)
          /\ authorizations' =
                [id \in DOMAIN authorizations \cup {l.event.authorizationId} |->
                    IF id = l.event.authorizationId
                      THEN VerifiedAuthorization(chain, h, i, l.event)
                      ELSE authorizations[id]]
    /\ processedTransactions' = processedTransactions \cup {TransactionKey(chain, h, i)}
    /\ UNCHANGED <<sourceVars, now>>

Pass ==
    /\ now < MaxTime
    /\ now' = now + 1
    /\ UNCHANGED <<sourceVars, registryVars>>

RegistryInit ==
    /\ SourceInit
    /\ authorizations = [id \in {} |-> None]
    /\ processedTransactions = {}
    /\ now = 0

RegistryNext ==
    \/ SourceNext /\ UNCHANGED <<registryVars, now>>
    \/ \E chain \in {TrustedChain} \cup OtherChains :
          \E h \in 1 .. MaxBlocks, i \in 1 .. MaxTxs : Submit(chain, h, i)
    \/ Pass

RegistrySpec == RegistryInit /\ [][RegistryNext]_allVars

-----------------------------------------------------------------------------
(* Properties                                                               *)

LogType(l) ==
    /\ l.block \in Nat /\ l.transaction \in Nat /\ l.index \in Nat
    /\ l.address = Source => IsPublication(l.event)

\* The types of the variables.
RegistryTypeOK ==
    /\ blocks \in Seq([time: Nat, txs: Nat, nextNonce: [Owners -> Nat]])
    /\ attested \in Nat /\ now \in Nat
    /\ \A l \in logs : LogType(l)
    /\ tx # None => /\ tx.size \in Nat
                    /\ tx.nextNonce \in [Owners -> Nat]
                    /\ \A l \in tx.logs : LogType(l)

\* The events of the source in transaction i of block h.
Publications(h, i) ==
    {l \in logs : l.block = h /\ l.transaction = i /\ l.address = Source}

\* The one event of a recorded authorization stands in a final block of the trusted chain:
\* getAuthorization never says verified of what the owner did not publish, or published on
\* another chain, through another contract, or in a block that has been replaced.
RecordsArePublished ==
    \A id \in DOMAIN authorizations :
        LET r == authorizations[id]
        IN  /\ r.sourceChainKey = TrustedChain
            /\ r.sourceBlockNumber <= attested
            /\ \E l \in logs :
                  /\ Publications(r.sourceBlockNumber, r.transactionIndex) = {l}
                  /\ l.event.authorizationId = id
                  /\ r.commitment = Commitment(l.event.authorization)
                  /\ r.validUntil = l.event.authorization.validUntil
                  /\ r.sourceSender = l.event.authorization.sender

\* No two recorded authorizations of one owner have the same nonce, though a publication that
\* was reorganised away gave its nonce to another.
OneRecordPerNonce ==
    \A id1, id2 \in DOMAIN authorizations :
        id1.sender = id2.sender /\ id1.nonce = id2.nonce => id1 = id2

HasRecord(h, i) ==
    \E id \in DOMAIN authorizations :
        /\ authorizations[id].sourceBlockNumber = h
        /\ authorizations[id].transactionIndex = i

\* An authorization that was published alone in its transaction, and is final, can be recorded
\* as long as it has not been and has not expired: the registry's recomputations agree with
\* the source's, and neither another transaction's key nor another record is in its way.
NothingLeftOut ==
    \A h \in 1 .. attested : \A i \in 1 .. blocks[h].txs : \A l \in Publications(h, i) :
        (/\ Publications(h, i) = {l}
         /\ l.event.authorization.validUntil > now
         /\ ~ HasRecord(h, i))
        => /\ TransactionKey(TrustedChain, h, i) \notin processedTransactions
           /\ Recordable(l.event)

\* A record is written once: what a reader has seen of an authorization stays true.
RecordsStand ==
    [][\A id \in DOMAIN authorizations :
          id \in DOMAIN authorizations' /\ authorizations'[id] = authorizations[id]]_allVars

-----------------------------------------------------------------------------
(* Refinement                                                               *)

\* A publication as its log tells it, and as a record does.
AsPublished(l) ==
    LET a == l.event.authorization
    IN  [slot |-> <<a.sender, l.event.nonce>>, commitment |-> Commitment(a),
         until |-> a.validUntil, at |-> TransactionKey(TrustedChain, l.block, l.transaction)]

AsRecorded(id) ==
    LET r == authorizations[id]
    IN  [slot |-> <<id.sender, id.nonce>>, commitment |-> r.commitment, until |-> r.validUntil,
         at |-> TransactionKey(r.sourceChainKey, r.sourceBlockNumber, r.transactionIndex)]

\* The final logs that can be recorded: those that are the only one of their transaction.
Final ==
    {l \in logs : /\ l.address = Source /\ l.block <= attested
                  /\ Publications(l.block, l.transaction) = {l}}

Ledger == INSTANCE AuthorizationLedger WITH
    final    <- {AsPublished(l) : l \in Final},
    recorded <- {AsRecorded(id) : id \in DOMAIN authorizations},
    expired  <- {AsPublished(l) : l \in {m \in Final : m.event.authorization.validUntil <= now}}

\* Blocks that are replaced, batches, reverted transactions, other chains and other contracts are
\* all one to who reads a record: it is of a publication that is final and was not expired when
\* it was recorded, the only one of its owner and nonce, and it stays.
KeepsLedger == Ledger!LedgerSpec

-----------------------------------------------------------------------------
(* The inductive strengthening                                              *)

TrustedLog(l) == l.address = Source

Owner(l) == l.event.authorization.sender

SamePublication(l, m) == Owner(l) = Owner(m) /\ l.event.nonce = m.event.nonce

NoncesGrow ==
    \A g, h \in DOMAIN blocks : g <= h =>
        \A o \in Owners : blocks[g].nextNonce[o] <= blocks[h].nextNonce[o]

\* A publication has taken a nonce of its block, and no other publication has taken it.
LogsInPlace ==
    \A l \in logs :
        /\ l.block \in DOMAIN blocks
        /\ l.transaction \in 1 .. blocks[l.block].txs
        /\ TrustedLog(l) =>
              /\ l.event.nonce < blocks[l.block].nextNonce[Owner(l)]
              /\ \A h \in DOMAIN blocks :
                    h < l.block => blocks[h].nextNonce[Owner(l)] <= l.event.nonce
              /\ \A m \in logs : TrustedLog(m) /\ SamePublication(l, m) => l = m

OpenInPlace ==
    tx # None =>
        /\ \A o \in Owners : HeadBlock.nextNonce[o] <= tx.nextNonce[o]
        /\ \A l \in tx.logs :
              /\ l.block = Len(blocks)
              /\ l.transaction = HeadBlock.txs + 1
              /\ TrustedLog(l) =>
                    /\ HeadBlock.nextNonce[Owner(l)] <= l.event.nonce
                    /\ l.event.nonce < tx.nextNonce[Owner(l)]
                    /\ \A m \in tx.logs : TrustedLog(m) /\ SamePublication(l, m) => l = m

\* The processed transactions are those that have a record.
ProcessedExact ==
    processedTransactions =
        {TransactionKey(authorizations[id].sourceChainKey, authorizations[id].sourceBlockNumber,
                        authorizations[id].transactionIndex) : id \in DOMAIN authorizations}

RegistryInv ==
    /\ RegistryTypeOK
    /\ attested < Len(blocks)
    /\ NoncesGrow
    /\ LogsInPlace
    /\ OpenInPlace
    /\ RecordsArePublished
    /\ ProcessedExact

=============================================================================
