---------------------------- MODULE RegistryProofs ----------------------------
(***************************************************************************)
(* The safety of VerifiedAuthorizationRegistry over AuthorizationSource,   *)
(* for any owners, authorizations, chains and bounds.                      *)
(***************************************************************************)
EXTENDS VerifiedAuthorizationRegistry, SequenceTheorems, TLAPS

USE SourceAssumption, RegistryAssumption

\* An empty chain has no logs, and an empty registry no records.
LEMMA RegistryInitInv == RegistryInit => RegistryInv
<1> SUFFICES ASSUME RegistryInit PROVE RegistryInv
  OBVIOUS
<1> USE DEF RegistryInit, SourceInit
<1>1. RegistryTypeOK /\ attested < Len(blocks)
  BY DEF RegistryTypeOK
<1>2. NoncesGrow /\ LogsInPlace /\ OpenInPlace
  BY DEF NoncesGrow, LogsInPlace, OpenInPlace
<1>3. RecordsArePublished /\ ProcessedExact
  BY DEF RecordsArePublished, ProcessedExact
<1> QED BY <1>1, <1>2, <1>3 DEF RegistryInv

Block == [time: Nat, txs: Nat, nextNonce: [Owners -> Nat]]

\* There is a head block, and what is below it is final.
LEMMA HeadFacts ==
    ASSUME RegistryInv
    PROVE  /\ blocks \in Seq(Block)
           /\ Len(blocks) \in Nat \ {0}
           /\ DOMAIN blocks = 1 .. Len(blocks)
           /\ Len(blocks) \in DOMAIN blocks
           /\ HeadBlock \in Block
           /\ attested \in Nat /\ attested < Len(blocks)
<1>1. blocks \in Seq(Block) /\ attested \in Nat /\ attested < Len(blocks)
  BY DEF RegistryInv, RegistryTypeOK, Block
<1>2. Len(blocks) \in Nat /\ DOMAIN blocks = 1 .. Len(blocks)
  BY <1>1
<1>3. Len(blocks) \in Nat \ {0} /\ Len(blocks) \in 1 .. Len(blocks)
  BY <1>1, <1>2
<1>4. HeadBlock \in Block
  BY <1>1, <1>3, ElementOfSeq DEF HeadBlock
<1> QED BY <1>1, <1>2, <1>3, <1>4

\* As long as the logs of the final blocks stand, so does what is said of the records.
LEMMA PublishedFrame ==
    ASSUME RegistryTypeOK, LogsInPlace, RecordsArePublished, authorizations' = authorizations,
           attested' \in Nat, attested <= attested',
           \A l \in logs : l.block <= attested => l \in logs',
           \A l \in logs' : l.block <= attested => l \in logs
    PROVE  RecordsArePublished'
<1> SUFFICES ASSUME NEW id \in DOMAIN authorizations
             PROVE  LET r == authorizations[id]
                    IN  /\ r.sourceChainKey = TrustedChain
                        /\ r.sourceBlockNumber <= attested'
                        /\ \E l \in logs' :
                              /\ Publications(r.sourceBlockNumber, r.transactionIndex)' = {l}
                              /\ l.event.authorizationId = id
                              /\ r.commitment = Commitment(l.event.authorization)
                              /\ r.validUntil = l.event.authorization.validUntil
                              /\ r.sourceSender = l.event.authorization.sender
  BY DEF RecordsArePublished, Publications
<1> DEFINE r == authorizations[id]
           h == r.sourceBlockNumber
           i == r.transactionIndex
<1>1. PICK l \in logs :
          /\ Publications(h, i) = {l}
          /\ l.event.authorizationId = id
          /\ r.commitment = Commitment(l.event.authorization)
          /\ r.validUntil = l.event.authorization.validUntil
          /\ r.sourceSender = l.event.authorization.sender
  BY DEF RecordsArePublished
<1>2. r.sourceChainKey = TrustedChain /\ h <= attested
  BY DEF RecordsArePublished
<1>3. l.block = h /\ h \in Nat
  BY <1>1 DEF Publications, RegistryTypeOK, LogType
<1>4. Publications(h, i)' = Publications(h, i)
  BY <1>2, <1>3 DEF Publications
<1>5. h <= attested'
  BY <1>2, <1>3 DEF RegistryTypeOK
<1>6. l \in logs'
  BY <1>2, <1>3
<1> QED BY <1>1, <1>2, <1>4, <1>5, <1>6

\* A transaction begins with the nonces its block has left.
LEMMA BeginInv ==
    ASSUME RegistryInv, Begin, UNCHANGED <<registryVars, now>>
    PROVE  RegistryInv'
<1> USE DEF RegistryInv, Begin, registryVars
<1>1. HeadBlock \in [time: Nat, txs: Nat, nextNonce: [Owners -> Nat]]
  BY HeadFacts DEF Block
<1>2. RegistryTypeOK'
  BY <1>1 DEF RegistryTypeOK
<1>3. (attested < Len(blocks))' /\ NoncesGrow' /\ LogsInPlace'
  BY DEF NoncesGrow, LogsInPlace, TrustedLog, SamePublication, Owner
<1>4. OpenInPlace'
  BY <1>1 DEF OpenInPlace, HeadBlock
<1>5. RecordsArePublished' /\ ProcessedExact'
  BY DEF RecordsArePublished, Publications, ProcessedExact, TransactionKey
<1> QED BY <1>2, <1>3, <1>4, <1>5

\* What a transaction emits stands behind what it has emitted: if it is a publication, it is
\* one that the contract can make, and it takes the next nonce of its owner.
LEMMA EmitInv ==
    ASSUME RegistryInv, tx # None, UNCHANGED <<blocks, logs, attested, registryVars, now>>,
           NEW address, NEW event, NEW nonces \in [Owners -> Nat],
           Emit(address, event, nonces),
           \A o \in Owners : tx.nextNonce[o] <= nonces[o],
           address = Source =>
              /\ IsPublication(event)
              /\ tx.nextNonce[event.authorization.sender] <= event.nonce
              /\ event.nonce < nonces[event.authorization.sender]
    PROVE  RegistryInv'
<1> USE DEF RegistryInv, registryVars
<1> DEFINE new == Emitted(address, event)
<1>1. HeadBlock \in [time: Nat, txs: Nat, nextNonce: [Owners -> Nat]] /\ HeadBlock' = HeadBlock
  <2>1. HeadBlock \in Block
    BY HeadFacts
  <2>2. HeadBlock' = HeadBlock
    BY DEF HeadBlock
  <2> QED BY <2>1, <2>2 DEF Block
<1>2. /\ tx'.size = tx.size + 1 /\ tx'.logs = tx.logs \cup {new} /\ tx'.nextNonce = nonces
      /\ tx.size \in Nat /\ tx.nextNonce \in [Owners -> Nat]
  BY DEF Emit, RegistryTypeOK
<1>3. /\ new.block = Len(blocks) /\ new.transaction = HeadBlock.txs + 1 /\ new.index = tx.size + 1
      /\ new.address = address /\ new.event = event
  BY DEF Emitted
<1> HIDE DEF new
<1>4. LogType(new)
  BY <1>1, <1>2, <1>3 DEF LogType, RegistryTypeOK
<1>5. RegistryTypeOK'
  BY <1>2, <1>4 DEF RegistryTypeOK, LogType
<1>6. (attested < Len(blocks))' /\ NoncesGrow' /\ LogsInPlace'
  BY DEF NoncesGrow, LogsInPlace, TrustedLog, SamePublication, Owner
<1>7. OpenInPlace'
  <2>1. \A o \in Owners : HeadBlock.nextNonce[o] <= nonces[o]
    BY <1>1, <1>2 DEF OpenInPlace
  <2>2. \A l \in tx.logs \cup {new} : l.block = Len(blocks) /\ l.transaction = HeadBlock.txs + 1
    BY <1>3 DEF OpenInPlace
  <2>3. \A l \in tx.logs \cup {new} : TrustedLog(l) =>
            /\ Owner(l) \in Owners /\ l.event.nonce \in Nat
            /\ HeadBlock.nextNonce[Owner(l)] <= l.event.nonce /\ l.event.nonce < nonces[Owner(l)]
    <3> SUFFICES ASSUME NEW l \in tx.logs \cup {new}, TrustedLog(l)
                 PROVE  /\ Owner(l) \in Owners /\ l.event.nonce \in Nat
                        /\ HeadBlock.nextNonce[Owner(l)] <= l.event.nonce
                        /\ l.event.nonce < nonces[Owner(l)]
      OBVIOUS
    <3>1. Owner(l) \in Owners /\ l.event.nonce \in Nat
      BY <1>4 DEF RegistryTypeOK, LogType, IsPublication, AuthorizationType, Owner, TrustedLog
    <3>2. CASE l \in tx.logs
      BY <3>1, <3>2, <1>1, <1>2 DEF OpenInPlace
    <3>3. CASE l = new
      BY <3>1, <3>3, <1>1, <1>2, <1>3 DEF OpenInPlace, TrustedLog, Owner
    <3> QED BY <3>1, <3>2, <3>3
  <2>4. \A l, m \in tx.logs \cup {new} :
            TrustedLog(l) /\ TrustedLog(m) /\ SamePublication(l, m) => l = m
    <3>1. \A l \in tx.logs : TrustedLog(l) /\ TrustedLog(new) => ~ SamePublication(l, new)
      <4> SUFFICES ASSUME NEW l \in tx.logs, TrustedLog(l), TrustedLog(new)
                   PROVE  ~ SamePublication(l, new)
        OBVIOUS
      <4>1. Owner(l) \in Owners /\ l.event.nonce \in Nat /\ new.event.nonce \in Nat
        BY <2>3
      <4>2. l.event.nonce < tx.nextNonce[Owner(l)]
        BY DEF OpenInPlace
      <4>3. tx.nextNonce[Owner(new)] <= new.event.nonce
        BY <1>3 DEF TrustedLog, Owner
      <4> QED BY <4>1, <4>2, <4>3, <1>2 DEF SamePublication
    <3>2. \A l, m : SamePublication(l, m) <=> SamePublication(m, l)
      BY DEF SamePublication
    <3> QED BY <3>1, <3>2 DEF OpenInPlace
  <2> QED BY <1>1, <1>2, <2>1, <2>2, <2>3, <2>4 DEF OpenInPlace, TrustedLog, Owner, SamePublication
<1>8. RecordsArePublished' /\ ProcessedExact'
  BY DEF RecordsArePublished, Publications, ProcessedExact, TransactionKey
<1> QED BY <1>5, <1>6, <1>7, <1>8

\* publishAuthorization takes the next nonce of its caller.
LEMMA PublishInv ==
    ASSUME RegistryInv, NEW caller \in Owners, NEW a \in Offered,
           PublishAuthorization(caller, a), UNCHANGED <<registryVars, now>>
    PROVE  RegistryInv'
<1> DEFINE nonce == tx.nextNonce[caller]
           event == Event(AuthorizationId(Source, nonce, a), Commitment(a), nonce, a)
           nonces == NonceTaken(tx.nextNonce, caller)
<1>1. tx # None /\ a.sender = caller /\ a.terms \in WellShaped /\ Emit(Source, event, nonces)
      /\ UNCHANGED <<blocks, logs, attested, registryVars, now>>
  BY DEF PublishAuthorization, Publishable
<1>2. tx.nextNonce \in [Owners -> Nat] /\ nonce \in Nat
  BY <1>1 DEF RegistryInv, RegistryTypeOK
<1>3. nonces \in [Owners -> Nat] /\ nonces[caller] = nonce + 1
      /\ \A o \in Owners : tx.nextNonce[o] <= nonces[o]
  BY <1>2 DEF NonceTaken
<1>4. IsPublication(event) /\ event.nonce = nonce /\ event.authorization.sender = caller
  BY <1>1, <1>2 DEF IsPublication, Event
<1> HIDE DEF event, nonces, nonce
<1>5. nonce <= event.nonce /\ event.nonce < nonces[caller]
  BY <1>2, <1>3, <1>4
<1>6. tx.nextNonce[event.authorization.sender] <= event.nonce
      /\ event.nonce < nonces[event.authorization.sender]
  BY <1>4, <1>5 DEF nonce
<1> QED BY <1>1, <1>3, <1>4, <1>6, EmitInv

\* A log of another contract is no publication.
LEMMA EmitElsewhereInv ==
    ASSUME RegistryInv, EmitElsewhere, UNCHANGED <<registryVars, now>>
    PROVE  RegistryInv'
<1>1. PICK l \in OtherLogs : Emit(l.address, l.event, tx.nextNonce)
  BY DEF EmitElsewhere
<1>2. tx # None /\ UNCHANGED <<blocks, logs, attested, registryVars, now>>
  BY DEF EmitElsewhere
<1>3. tx.nextNonce \in [Owners -> Nat] /\ \A o \in Owners : tx.nextNonce[o] <= tx.nextNonce[o]
  BY <1>2 DEF RegistryInv, RegistryTypeOK
<1>4. l.address # Source
  OBVIOUS
<1> QED BY <1>1, <1>2, <1>3, <1>4, EmitInv

\* The end of a transaction adds its publications to those of the chain: they have the nonces
\* that the block had left, which no earlier publication has taken.
LEMMA EndInv ==
    ASSUME RegistryInv, End, UNCHANGED <<registryVars, now>>
    PROVE  RegistryInv'
<1> USE DEF RegistryInv, registryVars
<1> DEFINE n == Len(blocks)
<1>1. /\ tx # None /\ tx' = None /\ attested' = attested /\ logs' = logs \cup tx.logs
      /\ blocks' = [blocks EXCEPT ![n] = [time |-> @.time, txs |-> @.txs + 1,
                                           nextNonce |-> tx.nextNonce]]
  BY DEF End
<1>2. /\ blocks \in Seq(Block) /\ n \in Nat \ {0} /\ DOMAIN blocks = 1 .. n /\ n \in DOMAIN blocks
      /\ HeadBlock \in Block /\ HeadBlock = blocks[n] /\ attested \in Nat /\ attested < n
  BY HeadFacts DEF HeadBlock
<1>3. tx.nextNonce \in [Owners -> Nat] /\ \A l \in tx.logs : LogType(l)
  BY <1>1 DEF RegistryTypeOK
<1>a. /\ n \in Nat \ {0} /\ n \in 1 .. n /\ HeadBlock = blocks[n] /\ attested < n
      /\ attested \in Nat
  BY <1>2
<1> DEFINE new == [time |-> HeadBlock.time, txs |-> HeadBlock.txs + 1, nextNonce |-> tx.nextNonce]
<1>b. new \in Block
  BY <1>2, <1>3 DEF Block
<1>c. blocks' = [blocks EXCEPT ![n] = new]
  BY <1>1, <1>2
<1>5. blocks' \in Seq(Block) /\ Len(blocks') = n
  BY <1>2, <1>b, <1>c, ExceptSeq
<1>d. DOMAIN blocks' = 1 .. n /\ \A i \in 1 .. n : i # n => blocks'[i] = blocks[i]
  BY <1>2, <1>c
<1>e. blocks'[n] = new
  BY <1>2, <1>c
<1>4. /\ DOMAIN blocks' = 1 .. n
      /\ \A i \in 1 .. n : i # n => blocks'[i] = blocks[i]
      /\ blocks'[n].txs = HeadBlock.txs + 1 /\ blocks'[n].nextNonce = tx.nextNonce
  BY <1>d, <1>e
<1>f. HeadBlock.txs \in Nat
  BY <1>2 DEF Block
<1> HIDE DEF n
<1>6. RegistryTypeOK'
  BY <1>1, <1>5 DEF RegistryTypeOK, Block, LogType
<1>7. \A i \in 1 .. n : blocks[i] \in Block
  BY <1>2
<1>8. \A i \in 1 .. n, o \in Owners :
          /\ blocks[i].nextNonce[o] \in Nat /\ blocks'[i].nextNonce[o] \in Nat
          /\ blocks[i].nextNonce[o] <= blocks'[i].nextNonce[o]
  <2> SUFFICES ASSUME NEW i \in 1 .. n, NEW o \in Owners
               PROVE  /\ blocks[i].nextNonce[o] \in Nat /\ blocks'[i].nextNonce[o] \in Nat
                      /\ blocks[i].nextNonce[o] <= blocks'[i].nextNonce[o]
    OBVIOUS
  <2>1. blocks[i].nextNonce[o] \in Nat
    BY <1>7 DEF Block
  <2>2. CASE i # n
    BY <2>1, <2>2, <1>4
  <2>3. CASE i = n
    BY <2>1, <2>3, <1>1, <1>2, <1>3, <1>4 DEF OpenInPlace
  <2> QED BY <2>1, <2>2, <2>3
<1>9. NoncesGrow'
  <2> SUFFICES ASSUME NEW g \in 1 .. n, NEW h \in 1 .. n, g <= h, NEW o \in Owners
               PROVE  blocks'[g].nextNonce[o] <= blocks'[h].nextNonce[o]
    BY <1>4 DEF NoncesGrow
  <2>1. blocks[g].nextNonce[o] <= blocks[h].nextNonce[o]
    BY <1>2 DEF NoncesGrow
  <2>2. CASE g # n
    BY <2>1, <2>2, <1>4, <1>8
  <2>3. CASE g = n
    BY <2>3, <1>2, <1>8
  <2> QED BY <2>2, <2>3
<1>10. \A l \in logs' : TrustedLog(l) => Owner(l) \in Owners /\ l.event.nonce \in Nat
  BY <1>6 DEF RegistryTypeOK, LogType, IsPublication, AuthorizationType, Owner, TrustedLog
<1>11. \A l \in tx.logs : l.block = n /\ l.transaction = HeadBlock.txs + 1
  BY <1>1 DEF OpenInPlace, n
<1>12. \A l \in logs : /\ l.block \in 1 .. n /\ l.transaction \in 1 .. blocks[l.block].txs
  BY <1>2 DEF LogsInPlace
<1>13. \A i \in 1 .. n : blocks[i].txs \in Nat /\ blocks'[i].txs \in Nat /\ blocks[i].txs <= blocks'[i].txs
  <2> SUFFICES ASSUME NEW i \in 1 .. n
               PROVE  /\ blocks[i].txs \in Nat /\ blocks'[i].txs \in Nat
                      /\ blocks[i].txs <= blocks'[i].txs
    OBVIOUS
  <2>1. blocks[i].txs \in Nat
    BY <1>7 DEF Block
  <2> QED BY <2>1, <1>a, <1>4, <1>f, SMTT(30)
<1>14. \A l \in logs' : l.block \in 1 .. n /\ l.transaction \in 1 .. blocks'[l.block].txs
  <2> SUFFICES ASSUME NEW l \in logs'
               PROVE  l.block \in 1 .. n /\ l.transaction \in 1 .. blocks'[l.block].txs
    OBVIOUS
  <2>1. CASE l \in logs
    BY <2>1, <1>12, <1>13
  <2>2. CASE l \in tx.logs
    <3>1. l.block = n /\ l.transaction = HeadBlock.txs + 1 /\ blocks'[n].txs = HeadBlock.txs + 1
      BY <2>2, <1>4, <1>11
    <3> QED BY <3>1, <1>a, <1>f
  <2> QED BY <2>1, <2>2, <1>1
<1>15. \A l \in logs' : TrustedLog(l) =>
          /\ l.event.nonce < blocks'[l.block].nextNonce[Owner(l)]
          /\ \A h \in 1 .. n : h < l.block => blocks'[h].nextNonce[Owner(l)] <= l.event.nonce
  <2> SUFFICES ASSUME NEW l \in logs', TrustedLog(l)
               PROVE  /\ l.event.nonce < blocks'[l.block].nextNonce[Owner(l)]
                      /\ \A h \in 1 .. n :
                            h < l.block => blocks'[h].nextNonce[Owner(l)] <= l.event.nonce
    OBVIOUS
  <2>1. Owner(l) \in Owners /\ l.event.nonce \in Nat /\ l.block \in 1 .. n
    BY <1>10, <1>14
  <2>2. \A h \in 1 .. n : h < l.block => h # n /\ blocks'[h] = blocks[h]
    BY <2>1, <1>a, <1>4
  <2>3. CASE l \in logs
    <3>1. l.event.nonce < blocks[l.block].nextNonce[Owner(l)]
      BY <2>3 DEF LogsInPlace
    <3>2. \A h \in 1 .. n : h < l.block => blocks[h].nextNonce[Owner(l)] <= l.event.nonce
      BY <2>3, <1>2 DEF LogsInPlace
    <3>3. l.event.nonce < blocks'[l.block].nextNonce[Owner(l)]
      <4>1. /\ blocks[l.block].nextNonce[Owner(l)] \in Nat
            /\ blocks'[l.block].nextNonce[Owner(l)] \in Nat
            /\ blocks[l.block].nextNonce[Owner(l)] <= blocks'[l.block].nextNonce[Owner(l)]
        BY <2>1, <1>8
      <4> QED BY <3>1, <4>1, <2>1
    <3> QED BY <3>2, <3>3, <2>2
  <2>4. CASE l \in tx.logs
    <3>1. HeadBlock.nextNonce[Owner(l)] <= l.event.nonce /\ l.event.nonce < tx.nextNonce[Owner(l)]
      BY <2>4, <1>1 DEF OpenInPlace
    <3>2. l.block = n
      BY <2>4, <1>11
    <3>3. \A h \in 1 .. n : h < n => blocks[h].nextNonce[Owner(l)] <= blocks[n].nextNonce[Owner(l)]
      BY <2>1, <1>2 DEF NoncesGrow
    <3>4. l.event.nonce < blocks'[l.block].nextNonce[Owner(l)]
      BY <3>1, <3>2, <1>4
    <3>5. ASSUME NEW h \in 1 .. n, h < l.block
          PROVE  blocks'[h].nextNonce[Owner(l)] <= l.event.nonce
      <4>1. blocks'[h] = blocks[h] /\ h < n
        BY <2>2, <3>2, <3>5
      <4>2. blocks[h].nextNonce[Owner(l)] <= blocks[n].nextNonce[Owner(l)]
        BY <4>1, <3>3
      <4>3. blocks[h].nextNonce[Owner(l)] \in Nat /\ blocks[n].nextNonce[Owner(l)] \in Nat
        BY <2>1, <1>a, <1>8
      <4> QED BY <4>1, <4>2, <4>3, <3>1, <2>1, <1>a
    <3> QED BY <3>4, <3>5
  <2> QED BY <2>3, <2>4, <1>1
<1>16. \A l, m \in logs' : TrustedLog(l) /\ TrustedLog(m) /\ SamePublication(l, m) => l = m
  <2>1. \A l \in logs, m \in tx.logs : TrustedLog(l) /\ TrustedLog(m) => ~ SamePublication(l, m)
    <3> SUFFICES ASSUME NEW l \in logs, NEW m \in tx.logs, TrustedLog(l), TrustedLog(m)
                 PROVE  ~ SamePublication(l, m)
      OBVIOUS
    <3>1. Owner(l) \in Owners /\ l.event.nonce \in Nat /\ m.event.nonce \in Nat /\ l.block \in 1 .. n
      BY <1>1, <1>10, <1>12
    <3>2. l.event.nonce < blocks[l.block].nextNonce[Owner(l)]
      BY DEF LogsInPlace
    <3>3. blocks[l.block].nextNonce[Owner(l)] <= blocks[n].nextNonce[Owner(l)]
      BY <3>1, <1>2 DEF NoncesGrow
    <3>4. HeadBlock.nextNonce[Owner(m)] <= m.event.nonce
      BY <1>1 DEF OpenInPlace
    <3> QED BY <3>1, <3>2, <3>3, <3>4, <1>2, <1>8 DEF SamePublication
  <2>2. \A l, m : SamePublication(l, m) <=> SamePublication(m, l)
    BY DEF SamePublication
  <2>3. \A l, m \in logs : TrustedLog(l) /\ TrustedLog(m) /\ SamePublication(l, m) => l = m
    BY DEF LogsInPlace
  <2>4. \A l, m \in tx.logs : TrustedLog(l) /\ TrustedLog(m) /\ SamePublication(l, m) => l = m
    BY <1>1 DEF OpenInPlace
  <2> QED BY <2>1, <2>2, <2>3, <2>4, <1>1
<1>17. LogsInPlace'
  BY <1>4, <1>14, <1>15, <1>16 DEF LogsInPlace, TrustedLog, Owner, SamePublication
<1>18. (attested < Len(blocks))' /\ OpenInPlace' /\ ProcessedExact'
  BY <1>1, <1>2, <1>5 DEF OpenInPlace, ProcessedExact, TransactionKey
<1>19. RecordsArePublished'
  <2>1. \A l \in logs' : l.block <= attested => l \in logs
    BY <1>1, <1>2, <1>11
  <2> QED BY <2>1, <1>1, <1>2, PublishedFrame
<1> QED BY <1>6, <1>9, <1>17, <1>18, <1>19

\* A transaction that reverts takes its place in the block and nothing else.
LEMMA RevertInv ==
    ASSUME RegistryInv, Revert, UNCHANGED <<registryVars, now>>
    PROVE  RegistryInv'
<1> USE DEF registryVars
<1> DEFINE n == Len(blocks)
<1>1. /\ tx' = None /\ attested' = attested /\ logs' = logs
      /\ blocks' = [blocks EXCEPT ![n].txs = @ + 1]
  BY DEF Revert
<1>2. /\ blocks \in Seq(Block) /\ n \in Nat \ {0} /\ DOMAIN blocks = 1 .. n /\ n \in 1 .. n
      /\ attested \in Nat /\ attested < n
  BY HeadFacts
<1>3. \A i \in 1 .. n : blocks[i] \in Block
  BY <1>2
<1>4. [blocks[n] EXCEPT !.txs = @ + 1] \in Block
  <2>1. PICK b \in Block : b = blocks[n]
    BY <1>2, <1>3
  <2>2. [b EXCEPT !.txs = @ + 1] \in Block
    BY DEF Block
  <2> QED BY <2>1, <2>2
<1>5. blocks' \in Seq(Block) /\ Len(blocks') = n /\ DOMAIN blocks' = 1 .. n
  BY <1>1, <1>2, <1>4, ExceptSeq
<1>6. \A i \in 1 .. n : /\ blocks'[i].nextNonce = blocks[i].nextNonce
                        /\ blocks[i].txs \in Nat /\ blocks'[i].txs \in Nat
                        /\ blocks[i].txs <= blocks'[i].txs
  <2> SUFFICES ASSUME NEW i \in 1 .. n
               PROVE  /\ blocks'[i].nextNonce = blocks[i].nextNonce
                      /\ blocks[i].txs \in Nat /\ blocks'[i].txs \in Nat
                      /\ blocks[i].txs <= blocks'[i].txs
    OBVIOUS
  <2>1. blocks[i] \in Block /\ blocks[i].txs \in Nat
    BY <1>3 DEF Block
  <2>2. CASE i # n
    BY <2>1, <2>2, <1>1, <1>2
  <2>3. CASE i = n
    BY <2>1, <2>3, <1>1, <1>2 DEF Block
  <2> QED BY <2>2, <2>3
<1> HIDE DEF n
<1>7. RegistryTypeOK'
  BY <1>1, <1>5 DEF RegistryInv, RegistryTypeOK, Block, LogType
<1>8. NoncesGrow'
  BY <1>2, <1>5, <1>6 DEF RegistryInv, NoncesGrow
<1>9. LogsInPlace'
  <2>1. \A l \in logs : l.block \in 1 .. n /\ l.transaction \in 1 .. blocks'[l.block].txs
    BY <1>2, <1>6 DEF RegistryInv, LogsInPlace
  <2>2. \A l \in logs : TrustedLog(l) =>
            /\ l.event.nonce < blocks'[l.block].nextNonce[Owner(l)]
            /\ \A h \in 1 .. n : h < l.block => blocks'[h].nextNonce[Owner(l)] <= l.event.nonce
    BY <2>1, <1>2, <1>6 DEF RegistryInv, LogsInPlace
  <2> QED BY <2>1, <2>2, <1>1, <1>5 DEF RegistryInv, LogsInPlace, TrustedLog, Owner, SamePublication
<1>10. (attested < Len(blocks))' /\ OpenInPlace' /\ ProcessedExact'
  BY <1>1, <1>2, <1>5 DEF RegistryInv, OpenInPlace, ProcessedExact, TransactionKey
<1>11. RecordsArePublished'
  BY <1>1, <1>2, PublishedFrame DEF RegistryInv
<1> QED BY <1>7, <1>8, <1>9, <1>10, <1>11 DEF RegistryInv

\* A block on top of another inherits its nonces; what followed that block is gone with its
\* logs, all of them of blocks that were not final.
LEMMA MineInv ==
    ASSUME RegistryInv, NEW n \in 1 .. Len(blocks), n >= attested, NEW tick \in 1 .. MaxTick,
           Mine(n, tick), UNCHANGED <<registryVars, now>>
    PROVE  RegistryInv'
<1> USE DEF registryVars
<1> DEFINE new == [time |-> blocks[n].time + tick, txs |-> 0, nextNonce |-> blocks[n].nextNonce]
           below == SubSeq(blocks, 1, n)
<1>1. /\ tx = None /\ tx' = tx /\ attested' = attested
      /\ logs' = {l \in logs : l.block <= n}
      /\ blocks' = Append(below, new)
  BY DEF Mine
<1>2. /\ blocks \in Seq(Block) /\ DOMAIN blocks = 1 .. Len(blocks) /\ Len(blocks) \in Nat
      /\ attested \in Nat /\ attested <= n /\ n \in Nat \ {0} /\ n \in 1 .. n
  BY HeadFacts
<1>3. blocks[n] \in Block
  BY <1>2
<1>4. new \in Block
  BY <1>3 DEF Block
<1>5. below \in Seq(Block) /\ Len(below) = n /\ \A i \in 1 .. n : below[i] = blocks[i]
  <2>1. 1 \in 1 .. Len(blocks) + 1
    BY <1>2
  <2> QED BY <1>2, <2>1, SubSeqProperties
<1> HIDE DEF new, below
<1>6. /\ blocks' \in Seq(Block) /\ Len(blocks') = n + 1 /\ DOMAIN blocks' = 1 .. n + 1
      /\ blocks'[n + 1] = new
      /\ \A i \in 1 .. n : blocks'[i] = blocks[i]
  BY <1>1, <1>2, <1>4, <1>5, AppendProperties
<1>7. RegistryTypeOK'
  BY <1>1, <1>6 DEF RegistryInv, RegistryTypeOK, Block, LogType
<1>8. blocks'[n + 1].nextNonce = blocks[n].nextNonce
  BY <1>6 DEF new
<1>9. \A i \in 1 .. n : \A o \in Owners : blocks[i].nextNonce[o] <= blocks[n].nextNonce[o]
  BY <1>2 DEF RegistryInv, NoncesGrow
<1>10. NoncesGrow'
  <2> SUFFICES ASSUME NEW g \in 1 .. n + 1, NEW h \in 1 .. n + 1, g <= h, NEW o \in Owners
               PROVE  blocks'[g].nextNonce[o] <= blocks'[h].nextNonce[o]
    BY <1>6 DEF NoncesGrow
  <2>1. CASE h \in 1 .. n
    <3>1. g \in 1 .. n
      BY <2>1, <1>2
    <3>2. blocks'[g] = blocks[g] /\ blocks'[h] = blocks[h]
      BY <2>1, <3>1, <1>6
    <3>3. g \in DOMAIN blocks /\ h \in DOMAIN blocks
      BY <2>1, <3>1, <1>2
    <3>4. NoncesGrow
      BY DEF RegistryInv
    <3>5. blocks[g].nextNonce[o] <= blocks[h].nextNonce[o]
      BY <3>3, <3>4 DEF NoncesGrow
    <3> QED BY <3>2, <3>5
  <2>2. CASE g \in 1 .. n /\ h = n + 1
    BY <2>2, <1>6, <1>8, <1>9
  <2>3. CASE g = n + 1 /\ h = n + 1
    <3>1. blocks'[n + 1].nextNonce[o] \in Nat
      BY <1>3, <1>8 DEF Block
    <3> QED BY <2>3, <3>1
  <2> QED BY <2>1, <2>2, <2>3, <1>2
<1>11. \A l \in logs' : l \in logs /\ l.block \in 1 .. n /\ blocks'[l.block] = blocks[l.block]
  <2>1. \A l \in logs' : l \in logs /\ l.block <= n /\ l.block \in 1 .. Len(blocks)
    BY <1>1, <1>2 DEF RegistryInv, LogsInPlace
  <2>2. \A l \in logs' : l.block \in 1 .. n
    BY <2>1, <1>2
  <2> QED BY <2>1, <2>2, <1>6
<1>12. LogsInPlace'
  <2>1. \A l \in logs' : l.block \in 1 .. n + 1 /\ l.transaction \in 1 .. blocks'[l.block].txs
    BY <1>2, <1>11 DEF RegistryInv, LogsInPlace
  <2>2. \A l \in logs' : TrustedLog(l) =>
            /\ l.event.nonce < blocks'[l.block].nextNonce[Owner(l)]
            /\ \A h \in 1 .. n + 1 :
                  h < l.block => blocks'[h].nextNonce[Owner(l)] <= l.event.nonce
    <3> SUFFICES ASSUME NEW l \in logs', TrustedLog(l)
                 PROVE  /\ l.event.nonce < blocks'[l.block].nextNonce[Owner(l)]
                        /\ \A h \in 1 .. n + 1 :
                              h < l.block => blocks'[h].nextNonce[Owner(l)] <= l.event.nonce
      OBVIOUS
    <3>1. l.event.nonce < blocks'[l.block].nextNonce[Owner(l)]
      BY <1>11 DEF RegistryInv, LogsInPlace
    <3>2. ASSUME NEW h \in 1 .. n + 1, h < l.block
          PROVE  blocks'[h].nextNonce[Owner(l)] <= l.event.nonce
      <4>1. h \in 1 .. n /\ h \in DOMAIN blocks /\ blocks'[h] = blocks[h]
        BY <3>2, <1>2, <1>6, <1>11
      <4> QED BY <3>2, <4>1, <1>11 DEF RegistryInv, LogsInPlace
    <3> QED BY <3>1, <3>2
  <2>3. \A l, m \in logs' : TrustedLog(l) /\ TrustedLog(m) /\ SamePublication(l, m) => l = m
    BY <1>11 DEF RegistryInv, LogsInPlace
  <2> QED BY <2>1, <2>2, <2>3, <1>6 DEF LogsInPlace, TrustedLog, Owner, SamePublication
<1>13. (attested < Len(blocks))' /\ OpenInPlace' /\ ProcessedExact'
  BY <1>1, <1>2, <1>6 DEF RegistryInv, OpenInPlace, ProcessedExact, TransactionKey
<1>14. RecordsArePublished'
  <2>1. \A l \in logs : l.block <= attested => l \in logs'
    <3>1. \A l \in logs : l.block \in 1 .. Len(blocks)
      BY <1>2 DEF RegistryInv, LogsInPlace
    <3> QED BY <3>1, <1>1, <1>2
  <2> QED BY <2>1, <1>1, <1>2, <1>11, PublishedFrame DEF RegistryInv
<1> QED BY <1>7, <1>10, <1>12, <1>13, <1>14 DEF RegistryInv

\* More blocks become final.
LEMMA AttestInv ==
    ASSUME RegistryInv, Attest, UNCHANGED <<registryVars, now>>
    PROVE  RegistryInv'
<1> USE DEF registryVars
<1>1. attested' = attested + 1 /\ attested + 1 < Len(blocks) /\ UNCHANGED <<blocks, logs, tx>>
  BY DEF Attest
<1>2. attested \in Nat
  BY HeadFacts
<1>3. RegistryTypeOK'
  BY <1>1, <1>2 DEF RegistryInv, RegistryTypeOK, LogType
<1>4. (attested < Len(blocks))' /\ NoncesGrow' /\ LogsInPlace' /\ OpenInPlace' /\ ProcessedExact'
  BY <1>1 DEF RegistryInv, NoncesGrow, LogsInPlace, OpenInPlace, ProcessedExact, TransactionKey,
              TrustedLog, Owner, SamePublication, HeadBlock
<1>5. RecordsArePublished'
  BY <1>1, <1>2, PublishedFrame DEF RegistryInv
<1> QED BY <1>3, <1>4, <1>5 DEF RegistryInv

\* A record is made of the only event that the source emitted in a final transaction, and the
\* transaction is then processed.
LEMMA SubmitInv ==
    ASSUME RegistryInv, NEW chain, NEW h, NEW i, Submit(chain, h, i)
    PROVE  RegistryInv'
<1> DEFINE Receipt == TrustedLogs(ReceiptLogs(chain, h, i))
<1>1. PICK l \in Receipt :
          /\ Receipt = {l}
          /\ Recordable(l.event)
          /\ authorizations' =
                [id \in DOMAIN authorizations \cup {l.event.authorizationId} |->
                    IF id = l.event.authorizationId
                      THEN VerifiedAuthorization(chain, h, i, l.event)
                      ELSE authorizations[id]]
  BY DEF Submit
<1>2. /\ chain = TrustedChain /\ h \in 1 .. attested
      /\ processedTransactions' = processedTransactions \cup {TransactionKey(chain, h, i)}
      /\ UNCHANGED <<sourceVars, now>>
  BY DEF Submit, IsTrustedChain, Provable
<1>3. Receipt = Publications(h, i) /\ l \in logs
  BY <1>2 DEF TrustedLogs, ReceiptLogs, Publications
<1> DEFINE new == l.event.authorizationId
<1>4. /\ DOMAIN authorizations' = DOMAIN authorizations \cup {new}
      /\ new \notin DOMAIN authorizations
      /\ authorizations'[new] = VerifiedAuthorization(chain, h, i, l.event)
      /\ \A id \in DOMAIN authorizations : authorizations'[id] = authorizations[id]
  BY <1>1 DEF Recordable
<1>5. RegistryTypeOK' /\ (attested < Len(blocks))' /\ NoncesGrow' /\ LogsInPlace' /\ OpenInPlace'
  BY <1>2 DEF RegistryInv, RegistryTypeOK, NoncesGrow, LogsInPlace, OpenInPlace, sourceVars,
              TrustedLog, Owner, SamePublication, HeadBlock, LogType
<1>6. \A g, j : Publications(g, j)' = Publications(g, j)
  BY <1>2 DEF Publications, sourceVars
<1>7. RecordsArePublished'
  <2> SUFFICES ASSUME NEW id \in DOMAIN authorizations'
               PROVE  LET r == authorizations'[id]
                      IN  /\ r.sourceChainKey = TrustedChain
                          /\ r.sourceBlockNumber <= attested
                          /\ \E m \in logs :
                                /\ Publications(r.sourceBlockNumber, r.transactionIndex) = {m}
                                /\ m.event.authorizationId = id
                                /\ r.commitment = Commitment(m.event.authorization)
                                /\ r.validUntil = m.event.authorization.validUntil
                                /\ r.sourceSender = m.event.authorization.sender
    BY <1>2, <1>6 DEF RecordsArePublished, sourceVars
  <2>1. CASE id \in DOMAIN authorizations
    <3>1. authorizations'[id] = authorizations[id]
      BY <2>1, <1>4
    <3> DEFINE r == authorizations[id]
    <3>2. /\ r.sourceChainKey = TrustedChain
          /\ r.sourceBlockNumber <= attested
          /\ \E m \in logs :
                /\ Publications(r.sourceBlockNumber, r.transactionIndex) = {m}
                /\ m.event.authorizationId = id
                /\ r.commitment = Commitment(m.event.authorization)
                /\ r.validUntil = m.event.authorization.validUntil
                /\ r.sourceSender = m.event.authorization.sender
      BY <2>1 DEF RegistryInv, RecordsArePublished
    <3> QED BY <3>1, <3>2
  <2>2. CASE id = new
    <3>1. h <= attested
      BY <1>2
    <3>2. Commitment(l.event.authorization) = l.event.commitment
      BY <1>1 DEF Recordable
    <3> QED BY <2>2, <3>1, <3>2, <1>1, <1>2, <1>3, <1>4 DEF VerifiedAuthorization
  <2> QED BY <2>1, <2>2, <1>4
<1>8. ProcessedExact'
  <2> DEFINE KeyOf(r) == TransactionKey(r.sourceChainKey, r.sourceBlockNumber, r.transactionIndex)
  <2>1. processedTransactions = {KeyOf(authorizations[id]) : id \in DOMAIN authorizations}
    BY DEF RegistryInv, ProcessedExact
  <2>2. KeyOf(authorizations'[new]) = TransactionKey(chain, h, i)
    BY <1>4 DEF VerifiedAuthorization
  <2> HIDE DEF KeyOf
  <2>3. processedTransactions' = {KeyOf(authorizations'[id]) : id \in DOMAIN authorizations'}
    BY <2>1, <2>2, <1>2, <1>4
  <2> QED BY <2>3 DEF KeyOf, ProcessedExact, TransactionKey
<1> QED BY <1>5, <1>7, <1>8 DEF RegistryInv

\* Time does not touch what has been recorded.
LEMMA PassInv ==
    ASSUME RegistryInv, UNCHANGED <<sourceVars, registryVars>>, now' \in Nat
    PROVE  RegistryInv'
<1>1. RegistryTypeOK' /\ (attested < Len(blocks))' /\ NoncesGrow' /\ LogsInPlace' /\ OpenInPlace'
  BY DEF RegistryInv, RegistryTypeOK, NoncesGrow, LogsInPlace, OpenInPlace, sourceVars,
         TrustedLog, Owner, SamePublication, HeadBlock, LogType
<1>2. RecordsArePublished' /\ ProcessedExact'
  BY DEF RegistryInv, RecordsArePublished, Publications, ProcessedExact, TransactionKey,
         sourceVars, registryVars
<1> QED BY <1>1, <1>2 DEF RegistryInv

\* The inductive invariant of the two contracts.
THEOREM RegistryInvariance == RegistrySpec => []RegistryInv
<1>1. RegistryInv /\ [RegistryNext]_allVars => RegistryInv'
  <2> SUFFICES ASSUME RegistryInv, [RegistryNext]_allVars PROVE RegistryInv'
    OBVIOUS
  <2>1. now \in Nat
    BY DEF RegistryInv, RegistryTypeOK
  <2>2. CASE UNCHANGED allVars
    BY <2>1, <2>2, PassInv DEF allVars
  <2>3. CASE SourceNext /\ UNCHANGED <<registryVars, now>>
    <3>1. CASE Begin
      BY <2>3, <3>1, BeginInv
    <3>2. CASE EmitElsewhere
      BY <2>3, <3>2, EmitElsewhereInv
    <3>3. CASE End
      BY <2>3, <3>3, EndInv
    <3>4. CASE Revert
      BY <2>3, <3>4, RevertInv
    <3>5. CASE \E caller \in Owners, a \in Offered : PublishAuthorization(caller, a)
      BY <2>3, <3>5, PublishInv
    <3>6. CASE NewBlock
      <4>1. PICK tick \in 1 .. MaxTick : Mine(Len(blocks), tick)
        BY <3>6 DEF NewBlock
      <4>2. Len(blocks) \in 1 .. Len(blocks) /\ Len(blocks) >= attested
        BY HeadFacts
      <4> QED BY <2>3, <4>1, <4>2, MineInv
    <3>7. CASE Reorganise
      <4>1. PICK n \in 1 .. Len(blocks) - 1, tick \in 1 .. MaxTick : n >= attested /\ Mine(n, tick)
        BY <3>7 DEF Reorganise
      <4>2. n \in 1 .. Len(blocks)
        BY HeadFacts
      <4> QED BY <2>3, <4>1, <4>2, MineInv
    <3>8. CASE Attest
      BY <2>3, <3>8, AttestInv
    <3> QED BY <2>3, <3>1, <3>2, <3>3, <3>4, <3>5, <3>6, <3>7, <3>8 DEF SourceNext
  <2>4. CASE \E chain \in {TrustedChain} \cup OtherChains :
                \E h \in 1 .. MaxBlocks, i \in 1 .. MaxTxs : Submit(chain, h, i)
    BY <2>4, SubmitInv
  <2>5. CASE Pass
    <3>1. now' \in Nat /\ UNCHANGED <<sourceVars, registryVars>>
      BY <2>1, <2>5 DEF Pass
    <3> QED BY <3>1, PassInv
  <2> QED BY <2>2, <2>3, <2>4, <2>5 DEF RegistryNext
<1> QED BY <1>1, RegistryInitInv, PTL DEF RegistrySpec

\* The types of the two contracts and the chain: what the trusted
\* address emitted is always something the contract can emit.
THEOREM RegistryTypeCorrect == RegistrySpec => []RegistryTypeOK
<1>1. RegistryInv => RegistryTypeOK
  BY DEF RegistryInv
<1> QED BY <1>1, RegistryInvariance, PTL

\* What is recorded was published by its owner, and is final.
THEOREM PublishedRecords == RegistrySpec => []RecordsArePublished
<1>1. RegistryInv => RecordsArePublished
  BY DEF RegistryInv
<1> QED BY <1>1, RegistryInvariance, PTL

\* The log of a record is a publication of the source, and its id names the publication.
LEMMA LogOfRecord ==
    ASSUME RegistryInv, NEW id \in DOMAIN authorizations
    PROVE  \E l \in logs :
              /\ TrustedLog(l)
              /\ Publications(authorizations[id].sourceBlockNumber,
                              authorizations[id].transactionIndex) = {l}
              /\ l.event.authorizationId = id
              /\ id.sender = Owner(l)
              /\ id.nonce = l.event.nonce
<1>1. PICK l \in logs :
          /\ Publications(authorizations[id].sourceBlockNumber,
                          authorizations[id].transactionIndex) = {l}
          /\ l.event.authorizationId = id
  BY DEF RegistryInv, RecordsArePublished
<1>2. TrustedLog(l)
  BY <1>1 DEF Publications, TrustedLog
<1>3. IsPublication(l.event)
  BY <1>2 DEF RegistryInv, RegistryTypeOK, LogType, TrustedLog
<1>4. id = AuthorizationId(Source, l.event.nonce, l.event.authorization)
  BY <1>1, <1>3 DEF IsPublication
<1>5. id.sender = Owner(l) /\ id.nonce = l.event.nonce
  BY <1>4 DEF AuthorizationId, Owner
<1> QED BY <1>1, <1>2, <1>5

\* An owner's nonce is recorded at most once, whatever the source chain has taken back.
THEOREM NonceRecordedOnce == RegistrySpec => []OneRecordPerNonce
<1>1. RegistryInv => OneRecordPerNonce
  <2> SUFFICES ASSUME RegistryInv,
                      NEW id1 \in DOMAIN authorizations, NEW id2 \in DOMAIN authorizations,
                      id1.sender = id2.sender, id1.nonce = id2.nonce
               PROVE  id1 = id2
    BY DEF OneRecordPerNonce
  <2>1. PICK l \in logs : /\ TrustedLog(l) /\ l.event.authorizationId = id1
                          /\ id1.sender = Owner(l) /\ id1.nonce = l.event.nonce
    BY LogOfRecord
  <2>2. PICK m \in logs : /\ TrustedLog(m) /\ m.event.authorizationId = id2
                          /\ id2.sender = Owner(m) /\ id2.nonce = m.event.nonce
    BY LogOfRecord
  <2>3. SamePublication(l, m)
    BY <2>1, <2>2 DEF SamePublication
  <2>4. l = m
    BY <2>1, <2>2, <2>3 DEF RegistryInv, LogsInPlace
  <2> QED BY <2>1, <2>2, <2>4
<1> QED BY <1>1, RegistryInvariance, PTL

\* Nothing final that was published alone is kept out of the registry before it expires.
THEOREM NothingIsLeftOut == RegistrySpec => []NothingLeftOut
<1>1. RegistryInv => NothingLeftOut
  <2> SUFFICES ASSUME RegistryInv,
                      NEW h \in 1 .. attested, NEW i \in 1 .. blocks[h].txs,
                      NEW l \in Publications(h, i),
                      Publications(h, i) = {l},
                      l.event.authorization.validUntil > now,
                      ~ HasRecord(h, i)
               PROVE  /\ TransactionKey(TrustedChain, h, i) \notin processedTransactions
                      /\ Recordable(l.event)
    BY DEF NothingLeftOut
  <2>1. TransactionKey(TrustedChain, h, i) \notin processedTransactions
    BY DEF RegistryInv, ProcessedExact, TransactionKey, HasRecord
  <2>2. l \in logs /\ TrustedLog(l) /\ l.block = h /\ l.transaction = i
    BY DEF Publications, TrustedLog
  <2>3. IsPublication(l.event)
    BY <2>2 DEF RegistryInv, RegistryTypeOK, LogType, TrustedLog
  <2>4. l.event.authorizationId \notin DOMAIN authorizations
    <3> SUFFICES ASSUME NEW id \in DOMAIN authorizations, l.event.authorizationId = id
                 PROVE  FALSE
      OBVIOUS
    <3>1. PICK m \in logs :
              /\ TrustedLog(m)
              /\ Publications(authorizations[id].sourceBlockNumber,
                              authorizations[id].transactionIndex) = {m}
              /\ id.sender = Owner(m) /\ id.nonce = m.event.nonce
      BY LogOfRecord
    <3>2. id.sender = Owner(l) /\ id.nonce = l.event.nonce
      BY <2>3 DEF IsPublication, AuthorizationId, Owner
    <3>3. l = m
      BY <2>2, <3>1, <3>2 DEF RegistryInv, LogsInPlace, SamePublication
    <3>4. /\ authorizations[id].sourceBlockNumber = h
          /\ authorizations[id].transactionIndex = i
      BY <2>2, <3>1, <3>3 DEF Publications
    <3> QED BY <3>4 DEF HasRecord
  <2> QED BY <2>1, <2>3, <2>4 DEF Recordable, IsPublication
<1> QED BY <1>1, RegistryInvariance, PTL

\* Whatever the source chain and the callers do, a record stays as it was written.
THEOREM RecordsNeverChange == RegistrySpec => RecordsStand
<1> DEFINE Stands == \A id \in DOMAIN authorizations :
                        id \in DOMAIN authorizations' /\ authorizations'[id] = authorizations[id]
<1>1. [RegistryNext]_allVars => [Stands]_allVars
  <2> SUFFICES ASSUME RegistryNext PROVE Stands
    OBVIOUS
  <2>1. CASE authorizations' = authorizations
    BY <2>1
  <2>2. ASSUME NEW chain, NEW h, NEW i, Submit(chain, h, i)
        PROVE  Stands
    BY <2>2 DEF Submit, Recordable
  <2> QED BY <2>1, <2>2 DEF RegistryNext, registryVars, Pass
<1> QED BY <1>1, PTL DEF RegistrySpec, RecordsStand

-----------------------------------------------------------------------------
(* Refinement                                                               *)

\* Two final publications of one slot are one.
LEMMA FinalSlots ==
    RegistryInv => Ledger!OneOfASlot({AsPublished(l) : l \in Final})
<1> SUFFICES ASSUME RegistryInv, NEW l \in Final, NEW m \in Final, AsPublished(l).slot = AsPublished(m).slot
             PROVE  AsPublished(l) = AsPublished(m)
  BY DEF Ledger!OneOfASlot
<1>1. l \in logs /\ m \in logs /\ TrustedLog(l) /\ TrustedLog(m)
  BY DEF Final, TrustedLog
<1>2. SamePublication(l, m)
  BY DEF AsPublished, SamePublication, Owner
<1> QED BY <1>1, <1>2 DEF RegistryInv, LogsInPlace

LEMMA FinalSlotsNext ==
    RegistryInv' => Ledger!OneOfASlot({AsPublished(l) : l \in Final})'
BY FinalSlots, PTL

\* While nothing is recorded and the logs of final blocks stand, publications only become final.
LEMMA AdvanceStep ==
    ASSUME RegistryInv, RegistryInv', authorizations' = authorizations,
           attested <= attested', now <= now',
           \A l \in logs : l.block <= attested => l \in logs',
           \A l \in logs' : l.block <= attested => l \in logs
    PROVE  Ledger!Advance
<1>1. attested \in Nat /\ attested' \in Nat /\ now \in Nat /\ now' \in Nat
  BY DEF RegistryInv, RegistryTypeOK
<1>2. ASSUME NEW l \in Final
      PROVE  l \in Final'
  <2>1. l \in logs' /\ l.address = Source /\ l.block <= attested /\ l.block \in Nat
    BY <1>2 DEF Final, RegistryInv, RegistryTypeOK, LogType
  <2>2. Publications(l.block, l.transaction)' = Publications(l.block, l.transaction)
    BY <1>2, <2>1 DEF Publications
  <2>3. l.block <= attested'
    BY <1>1, <2>1
  <2> QED BY <1>2, <2>1, <2>2, <2>3 DEF Final
<1>3. {AsPublished(l) : l \in Final} \subseteq {AsPublished(l) : l \in Final}'
  BY <1>2 DEF AsPublished, Commitment, TransactionKey
<1>4. ASSUME NEW l \in Final, l.event.authorization.validUntil <= now
      PROVE  l.event.authorization.validUntil <= now'
  <2>1. l.event.authorization.validUntil \in Nat
    BY <1>4 DEF Final, RegistryInv, RegistryTypeOK, LogType, IsPublication, AuthorizationType
  <2> QED BY <1>1, <1>4, <2>1
<1> DEFINE Expired == {AsPublished(l) :
                          l \in {m \in Final : m.event.authorization.validUntil <= now}}
<1>5. Expired \subseteq Expired'
  BY <1>2, <1>4 DEF AsPublished, Commitment, TransactionKey
<1>6. Expired' \subseteq {AsPublished(l) : l \in Final}'
  OBVIOUS
<1>7. Ledger!OneOfASlot({AsPublished(l) : l \in Final}')
  BY FinalSlotsNext DEF Ledger!OneOfASlot
<1>8. {AsRecorded(id) : id \in DOMAIN authorizations}'
          = {AsRecorded(id) : id \in DOMAIN authorizations}
  BY DEF AsRecorded, TransactionKey
<1> QED BY <1>3, <1>5, <1>6, <1>7, <1>8 DEF Ledger!Advance

\* A submission that is taken records a final publication that has not expired.
LEMMA RecordStep ==
    ASSUME RegistryInv, RegistryInv', NEW chain, NEW h, NEW i, Submit(chain, h, i)
    PROVE  \E p \in {AsPublished(l) : l \in Final} : Ledger!Record(p)
<1> DEFINE Receipt == TrustedLogs(ReceiptLogs(chain, h, i))
<1>1. PICK l \in Receipt :
          /\ Receipt = {l}
          /\ Recordable(l.event)
          /\ authorizations' =
                [id \in DOMAIN authorizations \cup {l.event.authorizationId} |->
                    IF id = l.event.authorizationId
                      THEN VerifiedAuthorization(chain, h, i, l.event)
                      ELSE authorizations[id]]
  BY DEF Submit
<1>2. chain = TrustedChain /\ h \in 1 .. attested /\ UNCHANGED <<sourceVars, now>>
  BY DEF Submit, IsTrustedChain, Provable
<1>3. Receipt = Publications(h, i) /\ l \in logs /\ l.address = Source
      /\ l.block = h /\ l.transaction = i
  BY <1>2 DEF TrustedLogs, ReceiptLogs, Publications
<1>4. l \in Final
  BY <1>1, <1>2, <1>3 DEF Final, RegistryInv, RegistryTypeOK
<1>5. IsPublication(l.event)
  BY <1>3 DEF RegistryInv, RegistryTypeOK, LogType
<1> DEFINE new == l.event.authorizationId
<1>6. /\ new.sender = l.event.authorization.sender
      /\ new.nonce = l.event.nonce
  BY <1>5 DEF IsPublication, AuthorizationId
<1>7. AsRecorded(new)' = AsPublished(l)
  <2>1. authorizations'[new] = VerifiedAuthorization(chain, h, i, l.event)
    BY <1>1
  <2>2. l.event.commitment = Commitment(l.event.authorization)
    BY <1>5 DEF IsPublication
  <2> QED BY <1>2, <1>3, <1>6, <2>1, <2>2 DEF AsRecorded, AsPublished, VerifiedAuthorization
<1>8. /\ DOMAIN authorizations' = DOMAIN authorizations \cup {new}
      /\ new \notin DOMAIN authorizations
      /\ \A id \in DOMAIN authorizations : AsRecorded(id)' = AsRecorded(id)
  BY <1>1 DEF Recordable, AsRecorded, TransactionKey
<1>9. {AsRecorded(id) : id \in DOMAIN authorizations}'
          = {AsRecorded(id) : id \in DOMAIN authorizations} \cup {AsPublished(l)}
  BY <1>7, <1>8
<1>10. AsPublished(l) \notin {AsRecorded(id) : id \in DOMAIN authorizations}
  <2> SUFFICES ASSUME NEW id \in DOMAIN authorizations, AsRecorded(id) = AsPublished(l)
               PROVE  FALSE
    OBVIOUS
  <2>1. <<id.sender, id.nonce>> = <<l.event.authorization.sender, l.event.nonce>>
    BY DEF AsRecorded, AsPublished
  <2>2. id.sender = Owner(l) /\ id.nonce = l.event.nonce
    BY <2>1 DEF Owner
  <2>3. PICK m \in logs : /\ TrustedLog(m) /\ m.event.authorizationId = id
                          /\ id.sender = Owner(m) /\ id.nonce = m.event.nonce
    BY LogOfRecord
  <2>4. l = m
    BY <1>3, <2>2, <2>3 DEF RegistryInv, LogsInPlace, SamePublication, TrustedLog
  <2> QED BY <1>8, <2>3, <2>4
<1>11. AsPublished(l) \notin
          {AsPublished(m) : m \in {k \in Final : k.event.authorization.validUntil <= now}}
  <2> SUFFICES ASSUME NEW m \in Final, m.event.authorization.validUntil <= now,
                      AsPublished(m) = AsPublished(l)
               PROVE  FALSE
    OBVIOUS
  <2>1. m.event.authorization.validUntil = l.event.authorization.validUntil
    BY DEF AsPublished
  <2>2. l.event.authorization.validUntil > now
    BY <1>1 DEF Recordable
  <2>3. now \in Nat /\ l.event.authorization.validUntil \in Nat
    BY <1>5 DEF RegistryInv, RegistryTypeOK, IsPublication, AuthorizationType
  <2> QED BY <2>1, <2>2, <2>3
<1>12. Final' = Final
  BY <1>2 DEF Final, Publications, sourceVars
<1>13. /\ {AsPublished(m) : m \in Final}' = {AsPublished(m) : m \in Final}
       /\ {AsPublished(m) : m \in {k \in Final : k.event.authorization.validUntil <= now}}'
            = {AsPublished(m) : m \in {k \in Final : k.event.authorization.validUntil <= now}}
  BY <1>2, <1>12 DEF AsPublished, Commitment, TransactionKey
<1>14. Ledger!Record(AsPublished(l))
  BY <1>9, <1>10, <1>11, <1>13 DEF Ledger!Record
<1> QED BY <1>4, <1>14

\* A step of the source chain leaves the logs of final blocks as they are.
LEMMA FinalLogsStand ==
    ASSUME RegistryInv, SourceNext
    PROVE  /\ attested <= attested'
           /\ \A l \in logs : l.block <= attested => l \in logs'
           /\ \A l \in logs' : l.block <= attested => l \in logs
<1>1. attested \in Nat /\ attested < Len(blocks) /\ Len(blocks) \in Nat
  BY HeadFacts
<1>2. CASE UNCHANGED <<logs, attested>>
  BY <1>1, <1>2
<1>3. CASE End
  <2>1. tx # None /\ logs' = logs \cup tx.logs /\ attested' = attested
    BY <1>3 DEF End
  <2>2. \A l \in tx.logs : l.block = Len(blocks)
    BY <2>1 DEF RegistryInv, OpenInPlace
  <2> QED BY <1>1, <2>1, <2>2
<1>4. CASE Attest
  BY <1>1, <1>4 DEF Attest
<1>5. ASSUME NEW n \in 1 .. Len(blocks), NEW tick, n >= attested, Mine(n, tick)
      PROVE  /\ attested <= attested'
             /\ \A l \in logs : l.block <= attested => l \in logs'
             /\ \A l \in logs' : l.block <= attested => l \in logs
  <2>1. logs' = {l \in logs : l.block <= n} /\ attested' = attested
    BY <1>5 DEF Mine
  <2>2. \A l \in logs : l.block \in Nat
    BY DEF RegistryInv, RegistryTypeOK, LogType
  <2> QED BY <1>1, <1>5, <2>1, <2>2
<1>6. CASE NewBlock
  <2>1. PICK tick \in 1 .. MaxTick : Mine(Len(blocks), tick)
    BY <1>6 DEF NewBlock
  <2> QED BY <1>1, <2>1, <1>5
<1>7. CASE Reorganise
  <2>1. PICK n \in 1 .. Len(blocks) - 1, tick \in 1 .. MaxTick : n >= attested /\ Mine(n, tick)
    BY <1>7 DEF Reorganise
  <2>2. n \in 1 .. Len(blocks)
    BY <1>1
  <2> QED BY <2>1, <2>2, <1>5
<1> QED BY <1>2, <1>3, <1>4, <1>6, <1>7
        DEF SourceNext, Begin, EmitElsewhere, Revert, PublishAuthorization

\* The registry on its source chain is the ledger that its readers take it for: whatever is
\* replaced, reverted, batched, submitted twice or late, only a final publication that is the
\* only one of its slot is recorded, once, before it expires.
THEOREM RegistryIsLedger == RegistrySpec => KeepsLedger
<1>1. RegistryInit => Ledger!LedgerInit
  BY DEF RegistryInit, SourceInit, Ledger!LedgerInit, Final
<1>2. RegistryInv /\ RegistryInv' /\ [RegistryNext]_allVars
        => [Ledger!LedgerNext]_<<{AsPublished(l) : l \in Final},
                                 {AsRecorded(id) : id \in DOMAIN authorizations},
                                 {AsPublished(l) : l \in {m \in Final :
                                     m.event.authorization.validUntil <= now}}>>
  <2> SUFFICES ASSUME RegistryInv, RegistryInv', [RegistryNext]_allVars
               PROVE  \/ Ledger!LedgerNext
                      \/ UNCHANGED <<{AsPublished(l) : l \in Final},
                                     {AsRecorded(id) : id \in DOMAIN authorizations},
                                     {AsPublished(l) : l \in {m \in Final :
                                         m.event.authorization.validUntil <= now}}>>
    OBVIOUS
  <2>1. attested \in Nat /\ now \in Nat
    BY DEF RegistryInv, RegistryTypeOK
  <2>2. CASE UNCHANGED allVars
    BY <2>1, <2>2, AdvanceStep DEF allVars, sourceVars, registryVars, Ledger!LedgerNext
  <2>3. CASE SourceNext /\ UNCHANGED <<registryVars, now>>
    BY <2>1, <2>3, FinalLogsStand, AdvanceStep DEF registryVars, Ledger!LedgerNext
  <2>4. CASE \E chain \in {TrustedChain} \cup OtherChains :
                \E h \in 1 .. MaxBlocks, i \in 1 .. MaxTxs : Submit(chain, h, i)
    BY <2>4, RecordStep DEF Ledger!LedgerNext
  <2>5. CASE Pass
    BY <2>1, <2>5, AdvanceStep DEF Pass, sourceVars, registryVars, Ledger!LedgerNext
  <2> QED BY <2>2, <2>3, <2>4, <2>5 DEF RegistryNext
<1> QED BY <1>1, <1>2, RegistryInvariance, PTL DEF RegistrySpec, KeepsLedger, Ledger!LedgerSpec

=============================================================================
