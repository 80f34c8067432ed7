---------------------------- MODULE PreflightProofs ----------------------------
(***************************************************************************)
(* Proofs about VerifiedPreflight: for every authorization, intent,        *)
(* transaction, policy, fee and state of the execution chain.              *)
(***************************************************************************)
EXTENDS VerifiedPreflight, TLAPS

-----------------------------------------------------------------------------
(* Calldata and commitments                                                 *)

\* Calldata is its five parts; only transferFrom has two address words.
LEMMA CalldataFacts ==
    ASSUME NEW d \in Calldata
    PROVE  /\ d.selector \in Methods \cup {"none", "other"}
           /\ d.a \in Addresses /\ d.b \in Addresses /\ d.n \in 0 .. MaxUint
           /\ d.selector = "none" <=> d = Empty
           /\ d.selector # "transferFrom" => d.b = Zero
           /\ d = [selector |-> d.selector, a |-> d.a, b |-> d.b, n |-> d.n, tail |-> d.tail]
BY VerdictAssumption DEF Calldata, Empty, Methods

\* The encoding of a call is calldata.
LEMMA CallIsCalldata ==
    ASSUME NEW m \in Methods, NEW a \in Addresses, NEW b \in Addresses, NEW n \in 0 .. MaxUint,
           m # "transferFrom" => b = Zero
    PROVE  [selector |-> m, a |-> a, b |-> b, n |-> n, tail |-> "exact"] \in Calldata
<1>1. CASE m = "transferFrom"
  BY <1>1 DEF Calldata, Methods
<1>2. CASE m # "transferFrom"
  BY <1>2 DEF Calldata, Methods
<1> QED BY <1>1, <1>2

\* What the firewall encodes of an effect is calldata.
LEMMA BindingType ==
    ASSUME NEW e \in EffectType, Fits(e), e.amount <= MaxUint
    PROVE  Binding(e) \in [data: Calldata, value: Nat]
<1>1. CASE e.action = "native_transfer"
  BY <1>1 DEF Binding, Calldata, EffectType
<1>2. CASE e.action # "native_transfer"
  <2>1. e.action \in Methods /\ e.first \in Addresses /\ e.second \in Addresses
        /\ e.amount \in 0 .. MaxUint /\ (e.action # "transferFrom" => e.second = Zero)
    BY <1>2, VerdictAssumption DEF EffectType, Actions, Fits
  <2> QED BY <1>2, <2>1, CallIsCalldata DEF Binding
<1> QED BY <1>1, <1>2

\* The contract and the firewall encode a call alike.
LEMMA BindingsAgree ==
    ASSUME NEW auth \in AuthorizationType, Shaped(auth)
    PROVE  /\ Fits(auth.effect)
           /\ SourceBinding(auth.effect) = Binding(auth.effect)
           /\ EvidenceBinding(auth.effect) = Binding(auth.effect)
<1> DEFINE e == auth.effect
<1>1. /\ e \in [action: Actions, asset: Addresses, first: Addresses, second: Addresses,
                amount: 0 .. MaxUint]
  BY DEF AuthorizationType
<1>2. Fits(e)
  BY <1>1 DEF Shaped, Fits
<1>3. SourceBinding(e) = Binding(e)
  BY <1>1, <1>2, VerdictAssumption DEF SourceBinding, Binding, Fits
<1>4. EvidenceBinding(e) = Binding(e)
  <2>1. CASE e.action = "setApprovalForAll"
    <3>1. (IF e.amount = 1 THEN 1 ELSE 0) = e.amount
      BY <1>1, <1>2, <2>1, VerdictAssumption DEF Fits
    <3>2. [e EXCEPT !.amount = e.amount] = e
      BY <1>1
    <3> QED BY <2>1, <3>1, <3>2 DEF EvidenceBinding
  <2>2. CASE e.action # "setApprovalForAll"
    BY <2>2 DEF EvidenceBinding
  <2> QED BY <2>1, <2>2
<1> QED BY <1>2, <1>3, <1>4

\* The record of an authorization.
RecordOf(auth) == [commitment |-> Published(auth).commitment, validUntil |-> auth.validUntil]

\* The ingest tool finds the contract's event in order, and the record is one.
LEMMA PublishedHolds ==
    ASSUME NEW auth \in AuthorizationType, Shaped(auth)
    PROVE  /\ EvidenceHolds(Published(auth))
           /\ Published(auth).auth = auth
           /\ Published(auth).commitment \in CommitmentType
           /\ RecordOf(auth) \in RecordType
<1>1. EvidenceHolds(Published(auth)) /\ Published(auth).auth = auth
  BY BindingsAgree DEF EvidenceHolds, Published
<1>2. auth.effect \in EffectType /\ auth.effect.amount <= MaxUint
  BY VerdictAssumption DEF AuthorizationType, EffectType
<1>3. SourceBinding(auth.effect) \in [data: Calldata, value: Nat]
  BY <1>2, BindingsAgree, BindingType
<1>4. auth.nonce \in Nat /\ auth.validUntil \in Nat
  BY VerdictAssumption DEF AuthorizationType
<1>5. Published(auth).commitment \in CommitmentType
  BY <1>2, <1>3, <1>4 DEF Published, CommitmentType, AuthorizationType
<1> QED BY <1>1, <1>4, <1>5 DEF RecordOf, RecordType

-----------------------------------------------------------------------------
(* Points                                                                   *)

\* A score is a number of points.
LEMMA ScoreIsNatural ==
    ASSUME NEW tx, NEW policy, NEW snap
    PROVE  Score(tx, policy, snap) \in Nat
<1>1. \A c, n : n \in Nat => Points(c, n) \in Nat
  BY DEF Points
<1>2. \A n \in Nat : Capped(n) \in Nat
  BY DEF Capped
<1>3. CallPoints(tx.data, policy.strict) \in Nat
  BY <1>1 DEF CallPoints
<1>4. LocalScore(tx, policy) \in Nat
  BY <1>1, <1>2, <1>3 DEF LocalScore
<1> QED BY <1>1, <1>2, <1>4 DEF Score

\* No finding takes points away, so a low score is low in all its parts.
LEMMA LowScore ==
    ASSUME NEW tx \in TransactionType, NEW policy \in PolicyType, NEW s \in SnapshotType,
           Score(tx, policy, s) < 40
    PROVE  /\ CallPoints(tx.data, policy.strict) < 40
           /\ policy.max # None => tx.value <= policy.max
<1>1. \A c, n : n \in Nat => Points(c, n) \in Nat
  BY DEF Points
<1> DEFINE p1 == Points(tx.to = Zero, 70)
           p2 == Points(tx.to \in policy.blocked, 100)
           p3 == Points(policy.allowed # {} /\ tx.to \notin policy.allowed, 70)
           p4 == Points(policy.max # None /\ tx.value > policy.max, 70)
           p5 == CallPoints(tx.data, policy.strict)
           p6 == Points(tx.value > 0 /\ tx.data # Empty, 15)
           q1 == Points(s.code = NoCode /\ tx.data # Empty, 45)
           q2 == Points(~ s.simulated, 45)
           q3 == Points(~ s.estimated, 20)
           local == Capped(p1 + p2 + p3 + p4 + p5 + p6)
<1>2. p1 \in Nat /\ p2 \in Nat /\ p3 \in Nat /\ p4 \in Nat /\ p6 \in Nat
  BY <1>1
<1>3. q1 \in Nat /\ q2 \in Nat /\ q3 \in Nat
  BY <1>1
<1>4. p5 \in Nat
  BY <1>1 DEF CallPoints
<1>5. LocalScore(tx, policy) = local
  BY DEF LocalScore
<1>6. Capped(local + q1 + q2 + q3) < 40
  BY <1>5 DEF Score
<1>7. p4 = 0 \/ p4 = 70
  BY DEF Points
<1>8. p4 = 0 => (policy.max # None => ~ (tx.value > policy.max))
  BY DEF Points
<1> HIDE DEF p1, p2, p3, p4, p5, p6, q1, q2, q3
<1>9. p4 < 40 /\ p5 < 40
  BY <1>2, <1>3, <1>4, <1>6 DEF Capped
<1>10. policy.max # None => tx.value \in Nat /\ policy.max \in Nat
  BY DEF TransactionType, PolicyType
<1> QED BY <1>7, <1>8, <1>9, <1>10 DEF p5

\* What a low score leaves of the calls the decoder knows: no operator approved for all.
LEMMA LowCall ==
    ASSUME NEW d \in Calldata, NEW strict, CallPoints(d, strict) < 40, Canonical(d)
    PROVE  d.selector = "setApprovalForAll" => d.n = 0
<1>1. d.n \in Nat /\ Decodes(d)
  BY CalldataFacts, VerdictAssumption DEF Canonical, Decodes
<1>2. CASE d.selector = "setApprovalForAll" /\ d.n > 0
  <2>1. CallPoints(d, strict) = 75
    BY <1>1, <1>2 DEF CallPoints, Points
  <2> QED BY <2>1
<1> QED BY <1>1, <1>2

\* A transaction that matches an intent, with a low score, is the call the intent describes.
LEMMA MatchIsDone ==
    ASSUME NEW tx \in TransactionType, NEW declared \in IntentType, NEW strict,
           Matches(declared, tx), CallPoints(tx.data, strict) < 40
    PROVE  /\ tx.to = declared.target
           /\ Binding(declared.effect) = [data |-> tx.data, value |-> tx.value]
<1> DEFINE d == tx.data
<1>1. d \in Calldata /\ tx.value \in Nat
  BY DEF TransactionType
<1>2. tx.to = declared.target /\ declared.effect = ActualEffect(tx) /\ Known(tx)
      /\ (d # Empty => tx.value = 0)
  BY DEF Matches
<1>3. CASE d = Empty
  BY <1>2, <1>3 DEF ActualEffect, Binding
<1>4. CASE d # Empty
  <2>1. Canonical(d)
    BY <1>2, <1>4 DEF Known
  <2>2. d.selector = "setApprovalForAll" => d.n = 0
    BY <1>1, <2>1, LowCall
  <2>3. d = [selector |-> d.selector, a |-> d.a, b |-> d.b, n |-> d.n, tail |-> "exact"]
    BY <1>1, <2>1, CalldataFacts DEF Canonical
  <2>4. ActualEffect(tx) = [action |-> d.selector, asset |-> tx.to, first |-> d.a,
                            second |-> d.b, amount |-> d.n]
    BY <1>4, <2>2 DEF ActualEffect
  <2>5. d.selector # "native_transfer"
    BY <2>1 DEF Canonical, Methods
  <2> QED BY <1>2, <1>4, <2>3, <2>4, <2>5 DEF Binding
<1> QED BY <1>2, <1>3, <1>4

-----------------------------------------------------------------------------
(* The invariant                                                            *)

\* What Judge answers to a request, a snapshot and a record.
Verdict(r, snap, rec) ==
    LET matches == r.level = "preflight" \/ Matches(r.declared, r.tx)
        authorized == r.level = "verified" => Authorized(r.declared, r.tx, snap, rec)
        until == IF rec # None THEN rec.validUntil ELSE r.declared.validUntil
    IN  [decision |-> IF matches /\ authorized THEN Graded(Score(r.tx, r.policy, snap))
                                               ELSE "BLOCK",
         matches |-> matches, authorized |-> authorized,
         declared |-> IF Committable(r.declared) THEN DeclaredCommitment(r.declared) ELSE None,
         actual |-> IF until \in 0 .. MaxUint64 /\ ActuallyCommittable(r.tx)
                      THEN ActualCommitment(r.tx, snap.code, until) ELSE None]

FeesChecked ==
    request.entry = "signer" =>
        NormalFeePolicy(request.feePolicy) /\ FeeIsSafe(request.fee, request.feePolicy)

\* The evidence of the authorization, or that there is none.
Recorded ==
    /\ Shaped(request.auth)
    /\ InForce(request.auth, request.published) /\ InForce(request.auth, request.ingested)

Evidence == IF Recorded THEN RecordOf(request.auth) ELSE None

Judged == snapshot \in Snapshots /\ response = Verdict(request, snapshot, record) /\ FeesChecked

Answered ==
    IF request.entry = "sdk" /\ ~ WellFormed(request.level) THEN "ERROR"
    ELSE IF response.decision = "ALLOW" THEN "ALLOW" ELSE "REJECTED"

PreflightInv ==
    /\ PreflightTypeOK
    /\ stage = "ingest" =>
          /\ Shaped(request.auth) /\ InForce(request.auth, request.published)
          /\ event = Published(request.auth)
    /\ stage \notin {"publish", "ingest"} => stored = Evidence
    /\ record \in {None, stored}
    /\ stage \in {"publish", "ingest"} => stored = None
    /\ stage \in {"publish", "ingest", "request", "inspect"} => snapshot = None /\ record = None
    /\ stage \in Posted => FeesChecked
    /\ stage \in {"lookup", "judge"} => snapshot \in Snapshots
    /\ stage = "lookup" => record = None
    /\ stage = "answer" => Judged
    /\ stage = "end" =>
          \/ told = "TIMEOUT"
          \/ told \in {"REJECTED", "ERROR"} /\ snapshot = None
          \/ told = Answered /\ Judged

\* A request is what its type says.
LEMMA RequestFacts ==
    ASSUME NEW r \in Requests
    PROVE  /\ r.level \in {"preflight", "intent", "verified"} /\ r.entry \in {"sdk", "signer"}
           /\ r.auth \in AuthorizationType /\ r.declared \in IntentType
           /\ r.tx \in TransactionType /\ r.policy \in PolicyType
           /\ r.fee \in FeeType /\ r.feePolicy \in FeePolicyType
BY PreflightAssumption DEF RequestType

\* Every step, from the publication to the answer, keeps the invariant.
LEMMA PreflightStepKeeps == PreflightInv /\ [PreflightNext]_vars => PreflightInv'
<1> SUFFICES ASSUME PreflightInv, [PreflightNext]_vars PROVE PreflightInv'
  OBVIOUS
<1> USE DEF PreflightInv, PreflightTypeOK, Stages, Posted
<1>1. CASE Publish
  <2>1. CASE Shaped(request.auth) /\ InForce(request.auth, request.published)
    BY <1>1, <2>1 DEF Publish
  <2>2. CASE ~ (Shaped(request.auth) /\ InForce(request.auth, request.published))
    BY <1>1, <2>2 DEF Publish, Evidence, Recorded
  <2> QED BY <2>1, <2>2
<1>2. CASE Ingest
  <2>1. /\ stage = "ingest" /\ stage' = "request"
        /\ UNCHANGED <<request, event, snapshot, record, bulky, response, told>>
        /\ Shaped(request.auth) /\ InForce(request.auth, request.published)
        /\ event = Published(request.auth)
    BY <1>2 DEF Ingest
  <2>2. /\ EvidenceHolds(Published(request.auth))
        /\ Published(request.auth).auth = request.auth
    BY <2>1, RequestFacts, PublishedHolds
  <2>3. stored' = IF InForce(request.auth, request.ingested) THEN RecordOf(request.auth) ELSE None
    BY <1>2, <2>1, <2>2 DEF Ingest, RecordOf
  <2>4. (stored = Evidence)'
    BY <2>1, <2>3 DEF Evidence, Recorded
  <2> QED BY <2>1, <2>4
<1>3. CASE Propose
  BY <1>3 DEF Propose, Tell, FeesChecked, Evidence, Recorded
<1>4. CASE Inspect
  BY <1>4 DEF Inspect, FeesChecked, Evidence, Recorded
<1>5. CASE InspectionFails
  BY <1>5 DEF InspectionFails, Tell, Evidence, Recorded
<1>6. CASE LookUp
  BY <1>6 DEF LookUp, FeesChecked, Evidence, Recorded
<1>7. CASE LookUpFails
  BY <1>7 DEF LookUpFails, FeesChecked, Evidence, Recorded
<1>8. CASE Judge
  <2>1. /\ stage = "judge" /\ stage' = "answer"
        /\ UNCHANGED <<request, event, stored, snapshot, record, bulky, told>>
    BY <1>8 DEF Judge
  <2>2. response' = Verdict(request, snapshot, record)
    BY <1>8 DEF Judge, Verdict, Decision
  <2>3. Judged'
    BY <2>1, <2>2 DEF Judged, FeesChecked
  <2> QED BY <2>1, <2>3 DEF FeesChecked, Evidence, Recorded
<1>9. CASE Receive
  <2>1. /\ stage = "answer" /\ stage' = "end" /\ told' = Answered
        /\ UNCHANGED <<request, event, stored, snapshot, record, bulky, response>>
    BY <1>9 DEF Receive, Tell, Answered
  <2>2. Judged' /\ Answered' = Answered
    BY <2>1 DEF Judged, FeesChecked, Answered, WellFormed, Complete
  <2>3. Answered \in {"ALLOW", "REJECTED", "ERROR"}
    BY DEF Answered
  <2> QED BY <2>1, <2>2, <2>3 DEF Evidence, Recorded
<1>10. CASE TimeOut
  BY <1>10 DEF TimeOut, Tell, Evidence, Recorded
<1>11. CASE UNCHANGED vars
  BY <1>11 DEF vars, FeesChecked, Evidence, Recorded, Judged, Answered, WellFormed, Complete
<1> QED
  BY <1>1, <1>2, <1>3, <1>4, <1>5, <1>6, <1>7, <1>8, <1>9, <1>10, <1>11 DEF PreflightNext

\* The invariant holds of every request.
LEMMA PreflightInvariant == PreflightSpec => []PreflightInv
<1>1. PreflightInit => PreflightInv
  BY DEF PreflightInit, PreflightInv, PreflightTypeOK, Stages, Posted
<1> QED BY <1>1, PreflightStepKeeps, PTL DEF PreflightSpec

\* What an ALLOW stands on.
LEMMA AllowFacts ==
    ASSUME PreflightInv, told = "ALLOW"
    PROVE  /\ request \in Requests /\ snapshot \in SnapshotType /\ FeesChecked
           /\ Score(request.tx, request.policy, snapshot) < 40
           /\ request.level # "preflight" => Matches(request.declared, request.tx)
           /\ request.level = "verified" =>
                 Authorized(request.declared, request.tx, snapshot, record)
           /\ record # None => Recorded /\ record = RecordOf(request.auth)
<1>1. /\ stage = "end" /\ Judged /\ Answered = "ALLOW" /\ request \in Requests
      /\ stored = Evidence /\ record \in {None, stored}
  BY DEF PreflightInv, PreflightTypeOK
<1>2. response.decision = "ALLOW" /\ response = Verdict(request, snapshot, record)
      /\ snapshot \in Snapshots /\ FeesChecked
  BY <1>1 DEF Answered, Judged
<1> DEFINE matches == request.level = "preflight" \/ Matches(request.declared, request.tx)
           authorized == request.level = "verified" =>
                             Authorized(request.declared, request.tx, snapshot, record)
           score == Score(request.tx, request.policy, snapshot)
<1>3. response.decision = IF matches /\ authorized THEN Graded(score) ELSE "BLOCK"
  BY <1>2 DEF Verdict
<1> HIDE DEF matches, authorized, score
<1>4. matches /\ authorized /\ ~ score >= 40
  BY <1>2, <1>3 DEF Graded
<1>5. score \in Nat
  BY ScoreIsNatural DEF score
<1>6. score < 40
  BY <1>4, <1>5
<1> QED
  BY <1>1, <1>2, <1>4, <1>6, PreflightAssumption DEF matches, authorized, score, Evidence

-----------------------------------------------------------------------------
(* The theorems                                                             *)

\* Whatever is allowed on the word of an intent is the call the intent describes, byte for byte.
THEOREM AllowedIsDeclared == PreflightSpec => []DeclaredIsDone
<1>1. PreflightInv => DeclaredIsDone
  <2> SUFFICES ASSUME PreflightInv, Allowed({"intent", "verified"})
               PROVE  /\ request.tx.to = request.declared.target
                      /\ Binding(request.declared.effect) =
                             [data |-> request.tx.data, value |-> request.tx.value]
    BY DEF DeclaredIsDone
  <2>1. /\ request \in Requests /\ snapshot \in SnapshotType
        /\ Score(request.tx, request.policy, snapshot) < 40
        /\ Matches(request.declared, request.tx)
    BY AllowFacts DEF Allowed
  <2> QED BY <2>1, RequestFacts, LowScore, MatchIsDone
<1> QED BY <1>1, PreflightInvariant, PTL

\* Whatever is allowed on the word of the registry is the transaction the owner published.
THEOREM AllowedIsPublished == PreflightSpec => []AllowedAsPublished
<1>1. PreflightInv => AllowedAsPublished
  <2> SUFFICES ASSUME PreflightInv, Allowed({"verified"}) PROVE AllowedAsPublished
    BY DEF AllowedAsPublished
  <2> DEFINE auth == request.auth
             tx == request.tx
             com == Published(auth).commitment
  <2>1. /\ request \in Requests /\ snapshot \in SnapshotType
        /\ Authorized(request.declared, tx, snapshot, record)
        /\ record # None => Recorded /\ record = RecordOf(auth)
    BY AllowFacts DEF Allowed
  <2>2. Shaped(auth) /\ Recorded /\ record = RecordOf(auth)
    BY <2>1 DEF Authorized, Recorded
  <2>3. /\ com = ActualCommitment(tx, snapshot.code, auth.validUntil)
        /\ auth.validUntil > snapshot.time
        /\ Proxy(snapshot) = "not-detected"
    BY <2>1, <2>2 DEF Authorized, Unexpired, RecordOf, Proxy
  <2>4. /\ auth.chain = tx.chain /\ auth.sender = tx.from /\ auth.target = tx.to
        /\ auth.nonce = tx.nonce /\ auth.code = snapshot.code
        /\ SourceBinding(auth.effect) = [data |-> tx.data, value |-> tx.value]
    BY <2>3 DEF Published, ActualCommitment
  <2>5. tx = [chain |-> tx.chain, from |-> tx.from, to |-> tx.to, data |-> tx.data,
              value |-> tx.value, nonce |-> tx.nonce]
    BY <2>1, RequestFacts DEF TransactionType
  <2>6. auth.validUntil \in Nat /\ snapshot.time \in Nat
    BY <2>1, RequestFacts, VerdictAssumption DEF AuthorizationType, SnapshotType
  <2>7. \A now \in {request.published, request.ingested, snapshot.time} : now < auth.validUntil
    BY <2>2, <2>3, <2>6 DEF Recorded, InForce
  <2> QED BY <2>2, <2>3, <2>4, <2>5, <2>7 DEF AllowedAsPublished
<1> QED BY <1>1, PreflightInvariant, PTL

\* Multiplication is monotonic.
LEMMA ProductGrows ==
    ASSUME NEW a \in Nat, NEW b \in Nat, NEW c \in Nat, NEW d \in Nat, a <= c, b <= d
    PROVE  a * b <= c * d
<1>1. c * b = a * b + (c - a) * b /\ (c - a) * b >= 0
  OBVIOUS
<1>2. c * d = c * b + c * (d - b) /\ c * (d - b) >= 0
  OBVIOUS
<1> QED BY <1>1, <1>2

\* What the signer goes on to sign costs at most the two ceilings together.
THEOREM SpendStaysBounded == PreflightSpec => []SpendIsBounded
<1>1. PreflightInv => SpendIsBounded
  <2> DEFINE fee == request.fee
             p == request.feePolicy
             Price(base) == IF fee.type = 2 /\ base + fee.priority < fee.unit
                              THEN base + fee.priority ELSE fee.unit
  <2> SUFFICES ASSUME PreflightInv, told = "ALLOW", request.entry = "signer",
                      request.policy.max # None,
                      NEW gas \in 0 .. fee.gasLimit, NEW base \in 0 .. fee.unit
               PROVE  gas * Price(base) + request.tx.value <= p.total + request.policy.max
    BY DEF SpendIsBounded
  <2>1. /\ request \in Requests /\ snapshot \in SnapshotType /\ FeesChecked
        /\ Score(request.tx, request.policy, snapshot) < 40
    BY AllowFacts
  <2>2. /\ fee.gasLimit \in Nat /\ fee.unit \in Nat /\ fee.priority \in Nat /\ p.total \in Nat
        /\ request.tx.value \in Nat /\ request.policy.max \in Nat
    BY <2>1, RequestFacts DEF FeeType, FeePolicyType, TransactionType, PolicyType
  <2>3. request.tx.value <= request.policy.max
    BY <2>1, RequestFacts, LowScore
  <2>4. fee.gasLimit * fee.unit <= p.total
    BY <2>1 DEF FeesChecked, FeeIsSafe, Total
  <2>5. Price(base) \in Nat /\ Price(base) <= fee.unit /\ gas \in Nat /\ gas <= fee.gasLimit
    BY <2>2
  <2> HIDE DEF Price, fee, p
  <2>6. gas * Price(base) <= fee.gasLimit * fee.unit
    BY <2>2, <2>5, ProductGrows
  <2>7. gas * Price(base) \in Nat /\ fee.gasLimit * fee.unit \in Nat
    BY <2>2, <2>5
  <2> QED BY <2>2, <2>3, <2>4, <2>6, <2>7
<1> QED BY <1>1, PreflightInvariant, PTL

\* The decoder reads back the effect of what the contract has encoded.
LEMMA EffectIsReadBack ==
    ASSUME NEW auth \in AuthorizationType, Shaped(auth),
           auth.effect.action = "native_transfer" => auth.effect.amount > 0,
           NEW tx \in TransactionType, tx.to = auth.target,
           SourceBinding(auth.effect) = [data |-> tx.data, value |-> tx.value]
    PROVE  /\ Known(tx)
           /\ tx.data # Empty => tx.value = 0
           /\ ActualEffect(tx) = auth.effect
<1> DEFINE e == auth.effect
<1>1. /\ e \in [action: Actions, asset: Addresses, first: Addresses, second: Addresses,
                amount: 0 .. MaxUint]
      /\ e = [action |-> e.action, asset |-> e.asset, first |-> e.first, second |-> e.second,
              amount |-> e.amount]
  BY DEF AuthorizationType
<1>2. Binding(e) = [data |-> tx.data, value |-> tx.value]
  BY BindingsAgree
<1>3. CASE e.action = "native_transfer"
  <2>1. tx.data = Empty /\ tx.value = e.amount
    BY <1>2, <1>3 DEF Binding
  <2>2. e.asset = Zero /\ e.first = auth.target /\ e.second = Zero
    BY <1>3 DEF Shaped
  <2> QED BY <1>1, <1>3, <2>1, <2>2 DEF Known, ActualEffect
<1>4. CASE e.action # "native_transfer"
  <2>1. /\ tx.value = 0
        /\ tx.data = [selector |-> e.action, a |-> e.first, b |-> e.second, n |-> e.amount,
                      tail |-> "exact"]
    BY <1>2, <1>4 DEF Binding
  <2>2. e.action \in Methods /\ Canonical(tx.data) /\ tx.data # Empty
    BY <1>1, <1>4, <2>1 DEF Canonical, Actions, Methods, Empty
  <2>3. e.asset = auth.target /\ (e.action = "setApprovalForAll" => e.amount <= 1)
    BY <1>4 DEF Shaped
  <2>4. (IF tx.data.selector = "setApprovalForAll" /\ tx.data.n > 0 THEN 1 ELSE tx.data.n)
            = e.amount
    BY <1>1, <2>1, <2>3, VerdictAssumption
  <2> QED BY <1>1, <2>1, <2>2, <2>3, <2>4 DEF Known, ActualEffect
<1> QED BY <1>3, <1>4

\* The parts of what deserves to pass.
LEMMA DeservedFacts ==
    ASSUME Deserved, request \in Requests
    PROVE  LET auth == request.auth
               d == request.declared
               tx == request.tx
           IN  /\ Shaped(auth)
               /\ auth.effect.action = "native_transfer" => auth.effect.amount > 0
               /\ tx.chain = auth.chain /\ tx.from = auth.sender /\ tx.to = auth.target
               /\ tx.nonce = auth.nonce
               /\ SourceBinding(auth.effect) = [data |-> tx.data, value |-> tx.value]
               /\ d.chain = auth.chain /\ d.sender = auth.sender /\ d.nonce = auth.nonce
               /\ d.validUntil = auth.validUntil /\ d.code = auth.code
               /\ d.target = auth.target /\ d.effect = auth.effect
               /\ d.method \in {None, auth.effect.action}
<1> DEFINE auth == request.auth
           d == request.declared
           tx == request.tx
           loose == [d EXCEPT !.method = None]
<1>1. Shaped(auth) /\ (auth.effect.action = "native_transfer" => auth.effect.amount > 0)
      /\ d.method \in {None, auth.effect.action}
  BY DEF Deserved
<1>2. tx = [chain |-> auth.chain, from |-> auth.sender, to |-> auth.target,
            data |-> SourceBinding(auth.effect).data,
            value |-> SourceBinding(auth.effect).value, nonce |-> auth.nonce]
  BY DEF Deserved
<1>3. loose = [chain |-> auth.chain, sender |-> auth.sender, nonce |-> auth.nonce,
               validUntil |-> auth.validUntil, code |-> auth.code, target |-> auth.target,
               method |-> None, effect |-> auth.effect]
  BY DEF Deserved
<1>4. d \in IntentType /\ auth \in AuthorizationType
  BY RequestFacts
<1>5. /\ loose.chain = d.chain /\ loose.sender = d.sender /\ loose.nonce = d.nonce
      /\ loose.validUntil = d.validUntil /\ loose.code = d.code
      /\ loose.target = d.target /\ loose.effect = d.effect
  BY <1>4 DEF IntentType
<1> HIDE DEF loose
<1>6. /\ d.chain = auth.chain /\ d.sender = auth.sender /\ d.nonce = auth.nonce
      /\ d.validUntil = auth.validUntil /\ d.code = auth.code
      /\ d.target = auth.target /\ d.effect = auth.effect
  BY <1>3, <1>5
<1>7. auth.effect \in EffectType /\ auth.effect.amount <= MaxUint
  BY <1>4, VerdictAssumption DEF AuthorizationType, EffectType
<1>8. SourceBinding(auth.effect) \in [data: Calldata, value: Nat]
  BY <1>1, <1>4, <1>7, BindingsAgree, BindingType
<1>9. SourceBinding(auth.effect) = [data |-> tx.data, value |-> tx.value]
  BY <1>2, <1>8
<1> QED BY <1>1, <1>2, <1>6, <1>9

\* What the owner published in time passes: the contract, the ingest tool and the firewall agree
\* on the bytes of every effect, and the client on what a complete answer is, if none of its texts
\* is too long.
THEOREM PublishedPasses == PreflightSpec => []AuthorizedPasses
<1>1. PreflightInv => AuthorizedPasses
  <2> DEFINE auth == request.auth
             d == request.declared
             tx == request.tx
  <2> SUFFICES ASSUME PreflightInv, stage = "end", Deserved, told # "TIMEOUT",
                      ~ (record = None /\ stored # None)
               PROVE  told = "ALLOW" \/ (told = "ERROR" /\ request.entry = "sdk" /\ bulky)
    BY DEF AuthorizedPasses
  <2>1. /\ request \in Requests /\ told = Answered /\ Judged
        /\ stored = Evidence /\ record \in {None, stored}
        /\ request.level = "verified"
    BY DEF PreflightInv, PreflightTypeOK, Deserved
  <2>2. /\ auth \in AuthorizationType /\ d \in IntentType /\ tx \in TransactionType
        /\ snapshot \in SnapshotType
    BY <2>1, RequestFacts, PreflightAssumption DEF Judged
  <2>3. /\ Shaped(auth)
        /\ auth.effect.action = "native_transfer" => auth.effect.amount > 0
        /\ tx.chain = auth.chain /\ tx.from = auth.sender /\ tx.to = auth.target
        /\ tx.nonce = auth.nonce
        /\ SourceBinding(auth.effect) = [data |-> tx.data, value |-> tx.value]
    BY <2>1, DeservedFacts
  <2>4. /\ d.chain = auth.chain /\ d.sender = auth.sender /\ d.nonce = auth.nonce
        /\ d.validUntil = auth.validUntil /\ d.code = auth.code
        /\ d.target = auth.target /\ d.effect = auth.effect
        /\ d.method \in {None, auth.effect.action}
    BY <2>1, DeservedFacts
  <2>5. /\ snapshot.code = auth.code /\ Proxy(snapshot) = "not-detected"
        /\ snapshot.time < auth.validUntil
        /\ Score(tx, request.policy, snapshot) < 40
    BY DEF Deserved, InForce
  <2>6. Known(tx) /\ (tx.data # Empty => tx.value = 0) /\ ActualEffect(tx) = auth.effect
    BY <2>2, <2>3, EffectIsReadBack
  <2>7. record = RecordOf(auth) /\ record # None
    <3>1. Recorded
      BY <2>3 DEF Recorded, Deserved
    <3> QED BY <2>1, <2>2, <2>3, <3>1, PublishedHolds, CommitmentAssumption DEF Evidence
  <2>8. Matches(d, tx)
    BY <2>3, <2>4, <2>6 DEF Matches
  <2> DEFINE com == Published(auth).commitment
  <2>9. SourceBinding(auth.effect) = Binding(auth.effect)
    BY <2>2, <2>3, BindingsAgree
  <2>10. com = DeclaredCommitment(d)
    BY <2>4, <2>9 DEF Published, DeclaredCommitment
  <2>11. com = ActualCommitment(tx, snapshot.code, auth.validUntil)
    BY <2>3, <2>5, <2>6 DEF Published, ActualCommitment
  <2>12. /\ auth.sender \in Addresses /\ auth.nonce \in Nat /\ auth.nonce <= MaxUint
         /\ auth.validUntil \in Nat /\ auth.validUntil <= MaxUint64 /\ auth.code \in Codes
         /\ auth.effect.amount \in Nat /\ auth.effect.amount <= MaxUint
    BY <2>2, VerdictAssumption DEF AuthorizationType
  <2>13. Committable(d)
    BY <2>4, <2>12, VerdictAssumption DEF Committable
  <2>14. tx.value <= MaxUint
    BY <2>3, <2>9, <2>12, VerdictAssumption DEF Binding
  <2>15. ActuallyCommittable(tx)
    BY <2>3, <2>6, <2>12, <2>14, VerdictAssumption DEF ActuallyCommittable
  <2>16. record.commitment = com /\ record.validUntil = auth.validUntil
    BY <2>7 DEF RecordOf
  <2>17. snapshot.time \in Nat
    BY <2>2 DEF SnapshotType
  <2>18. Authorized(d, tx, snapshot, record)
    BY <2>4, <2>5, <2>7, <2>10, <2>11, <2>12, <2>13, <2>15, <2>16, <2>17
    DEF Authorized, Unexpired
  <2>19. Graded(Score(tx, request.policy, snapshot)) = "ALLOW"
    <3> DEFINE score == Score(tx, request.policy, snapshot)
    <3>1. score \in Nat
      BY <2>1, ScoreIsNatural
    <3> HIDE DEF score
    <3>2. score < 40 => Graded(score) = "ALLOW"
      BY <3>1 DEF Graded
    <3> QED BY <2>5, <3>2 DEF score
  <2>20. /\ response.decision = "ALLOW" /\ response.matches /\ response.authorized
         /\ response.declared = com /\ response.actual = com
    <3>1. record.validUntil \in 0 .. MaxUint64
      BY <2>12, <2>16, VerdictAssumption
    <3> QED BY <2>1, <2>7, <2>8, <2>10, <2>11, <2>13, <2>15, <2>16, <2>18, <2>19, <3>1
            DEF Judged, Verdict
  <2>21. com # None
    BY <2>2, <2>3, PublishedHolds, CommitmentAssumption
  <2>22. Complete(request.level)
    BY <2>5, <2>7, <2>16, <2>20, <2>21 DEF Complete
  <2>23. CASE request.entry = "sdk" /\ bulky
    <3>1. told = "ERROR"
      BY <2>1, <2>23 DEF Answered, WellFormed
    <3> QED BY <2>23, <3>1
  <2>24. CASE ~ (request.entry = "sdk" /\ bulky)
    <3>1. ~ (request.entry = "sdk" /\ ~ WellFormed(request.level))
      BY <2>22, <2>24 DEF WellFormed
    <3>2. told = "ALLOW"
      BY <2>1, <2>20, <3>1 DEF Answered
    <3> QED BY <3>2
  <2> QED BY <2>23, <2>24
<1> QED BY <1>1, PreflightInvariant, PTL

-----------------------------------------------------------------------------
(* Stricter policies                                                        *)

\* Points are given for a condition: for a weaker one they are no fewer.
LEMMA PointsGrow ==
    ASSUME NEW a, NEW b, a => b, NEW n \in Nat
    PROVE  Points(a, n) \in Nat /\ Points(b, n) \in Nat /\ Points(a, n) <= Points(b, n)
  BY DEF Points

\* A strict policy gives no fewer points for a call than one that is not.
LEMMA CallPointsGrow ==
    ASSUME NEW d, NEW a, NEW b, a => b
    PROVE  CallPoints(d, a) \in Nat /\ CallPoints(d, b) \in Nat
           /\ CallPoints(d, a) <= CallPoints(d, b)
<1> DEFINE rest == Points(d.selector = "approve" /\ Decodes(d) /\ d.n = MaxUint, 80)
                   + Points(d.selector = "approve" /\ Decodes(d) /\ d.n \in 1 .. MaxUint - 1, 20)
                   + Points(d.selector = "setApprovalForAll" /\ Decodes(d) /\ d.n > 0, 75)
                   + Points(d.selector = "transfer" /\ Decodes(d), 5)
                   + Points(d.selector = "transferFrom" /\ Decodes(d), 20)
           unknown(s) == Points(d # Empty /\ ~ Decodes(d), IF s THEN 70 ELSE 35)
<1>1. \A c, n : n \in Nat => Points(c, n) \in Nat
  BY DEF Points
<1>2. rest \in Nat
  BY <1>1
<1>3. unknown(a) \in Nat /\ unknown(b) \in Nat /\ unknown(a) <= unknown(b)
  BY DEF Points
<1>4. CallPoints(d, a) = rest + unknown(a) /\ CallPoints(d, b) = rest + unknown(b)
  BY DEF CallPoints
<1> HIDE DEF rest, unknown
<1> QED BY <1>2, <1>3, <1>4

\* The cap keeps the order of two scores.
LEMMA CapKeepsOrder ==
    ASSUME NEW m \in Nat, NEW n \in Nat, m <= n
    PROVE  Capped(m) \in Nat /\ Capped(n) \in Nat /\ Capped(m) <= Capped(n)
  BY DEF Capped

\* Under a stricter policy no transaction scores less.
LEMMA ScoreGrows ==
    ASSUME NEW tx \in TransactionType, NEW s, NEW p \in PolicyType, NEW q \in PolicyType,
           Stricter(q, p)
    PROVE  Score(tx, p, s) <= Score(tx, q, s)
<1> DEFINE zero == Points(tx.to = Zero, 70)
           blocked(r) == Points(tx.to \in r.blocked, 100)
           allowed(r) == Points(r.allowed # {} /\ tx.to \notin r.allowed, 70)
           max(r) == Points(r.max # None /\ tx.value > r.max, 70)
           call(r) == CallPoints(tx.data, r.strict)
           value == Points(tx.value > 0 /\ tx.data # Empty, 15)
           sum(r) == zero + blocked(r) + allowed(r) + max(r) + call(r) + value
           inspected == Points(s.code = NoCode /\ tx.data # Empty, 45)
           simulated == Points(~ s.simulated, 45)
           estimated == Points(~ s.estimated, 20)
<1>1. \A c, n : n \in Nat => Points(c, n) \in Nat
  BY DEF Points
<1>2. zero \in Nat /\ value \in Nat /\ inspected \in Nat /\ simulated \in Nat /\ estimated \in Nat
  BY <1>1
<1>3. blocked(p) \in Nat /\ blocked(q) \in Nat /\ blocked(p) <= blocked(q)
  BY PointsGrow DEF Stricter
<1>4. allowed(p) \in Nat /\ allowed(q) \in Nat /\ allowed(p) <= allowed(q)
  <2>1. p.allowed # {} /\ tx.to \notin p.allowed => q.allowed # {} /\ tx.to \notin q.allowed
    BY DEF Stricter
  <2> QED BY <2>1, PointsGrow
<1>5. max(p) \in Nat /\ max(q) \in Nat /\ max(p) <= max(q)
  <2>1. tx.value \in Nat /\ p.max \in Nat \cup {None} /\ q.max \in Nat \cup {None}
    BY DEF TransactionType, PolicyType
  <2>2. p.max # None /\ tx.value > p.max => q.max # None /\ tx.value > q.max
    BY <2>1 DEF Stricter
  <2> QED BY <2>2, PointsGrow
<1>6. call(p) \in Nat /\ call(q) \in Nat /\ call(p) <= call(q)
  BY CallPointsGrow DEF Stricter
<1>7. LocalScore(tx, p) = Capped(sum(p)) /\ LocalScore(tx, q) = Capped(sum(q))
  BY DEF LocalScore
<1> HIDE DEF zero, blocked, allowed, max, call, value, inspected, simulated, estimated
<1>8. sum(p) \in Nat /\ sum(q) \in Nat /\ sum(p) <= sum(q)
  BY <1>2, <1>3, <1>4, <1>5, <1>6
<1> HIDE DEF sum
<1> DEFINE local(r) == Capped(sum(r))
           whole(r) == local(r) + inspected + simulated + estimated
<1>9. local(p) \in Nat /\ local(q) \in Nat /\ local(p) <= local(q)
  BY <1>8, CapKeepsOrder
<1>10. Score(tx, p, s) = Capped(whole(p)) /\ Score(tx, q, s) = Capped(whole(q))
  BY <1>7 DEF Score, inspected, simulated, estimated
<1> HIDE DEF local
<1>11. whole(p) \in Nat /\ whole(q) \in Nat /\ whole(p) <= whole(q)
  BY <1>2, <1>9
<1> HIDE DEF whole
<1> QED BY <1>10, <1>11, CapKeepsOrder

\* Fees that are safe under lower ceilings are safe under higher ones.
LEMMA SafeUnderHigherCeilings ==
    ASSUME NEW fee \in FeeType, NEW p \in FeePolicyType, NEW q \in FeePolicyType,
           LowerCeilings(q, p), FeeIsSafe(fee, q)
    PROVE  FeeIsSafe(fee, p)
<1>1. /\ fee.gasLimit \in Nat /\ fee.unit \in Nat /\ fee.priority \in Nat
      /\ p.gasLimit \in Nat /\ p.unit \in Nat /\ p.priority \in Nat /\ p.total \in Nat
      /\ q.gasLimit \in Nat /\ q.unit \in Nat /\ q.priority \in Nat /\ q.total \in Nat
  BY DEF FeeType, FeePolicyType
<1>2. Total(fee) \in Nat
  BY <1>1 DEF Total
<1> QED BY <1>1, <1>2 DEF FeeIsSafe, LowerCeilings

\* Asking for more never lets more through: no transaction passes a policy, or ceilings, that
\* a less demanding one would have stopped.
THEOREM TighteningIsSafe == PreflightSpec => []TighterNeverAllowsMore
<1>1. PreflightInv => TighterNeverAllowsMore
  <2> SUFFICES ASSUME PreflightInv, told = "ALLOW", NEW r \in Requests
               PROVE  /\ Stricter(request.policy, r.policy) =>
                             Graded(Score(request.tx, r.policy, snapshot)) = "ALLOW"
                      /\ request.entry = "signer"
                         /\ LowerCeilings(request.feePolicy, r.feePolicy) =>
                             FeeIsSafe(request.fee, r.feePolicy)
    BY DEF TighterNeverAllowsMore
  <2>1. /\ request \in Requests /\ FeesChecked
        /\ Score(request.tx, request.policy, snapshot) < 40
    BY AllowFacts
  <2>2. ASSUME Stricter(request.policy, r.policy)
        PROVE  Graded(Score(request.tx, r.policy, snapshot)) = "ALLOW"
    <3> DEFINE score == Score(request.tx, r.policy, snapshot)
               stricter == Score(request.tx, request.policy, snapshot)
    <3>1. score <= stricter
      BY <2>1, <2>2, RequestFacts, ScoreGrows
    <3>2. score \in Nat /\ stricter \in Nat /\ stricter < 40
      BY <2>1, ScoreIsNatural
    <3> HIDE DEF score, stricter
    <3>3. Graded(score) = "ALLOW"
      BY <3>1, <3>2 DEF Graded
    <3> QED BY <3>3 DEF score
  <2>3. ASSUME request.entry = "signer", LowerCeilings(request.feePolicy, r.feePolicy)
        PROVE  FeeIsSafe(request.fee, r.feePolicy)
    BY <2>1, <2>3, RequestFacts, SafeUnderHigherCeilings DEF FeesChecked
  <2> QED BY <2>2, <2>3
<1> QED BY <1>1, PreflightInvariant, PTL

-----------------------------------------------------------------------------
(* The client                                                               *)

\* What a server answers of an authorization that holds is complete in the client's eyes: it
\* refuses a verdict for the length of its texts, and for nothing else.
THEOREM ServerAlwaysBelieved == PreflightSpec => []ServerIsBelieved
<1>1. PreflightInv => ServerIsBelieved
  <2> SUFFICES ASSUME PreflightInv, stage = "answer", request.level = "verified",
                      response.decision = "ALLOW"
               PROVE  Complete(request.level)
    BY DEF ServerIsBelieved, WellFormed, Complete
  <2> DEFINE d == request.declared
             tx == request.tx
             authorized == Authorized(d, tx, snapshot, record)
  <2>1. /\ request \in Requests /\ Judged /\ record \in {None, Evidence}
    BY DEF PreflightInv, PreflightTypeOK
  <2>2. /\ request.auth \in AuthorizationType /\ d \in IntentType /\ tx \in TransactionType
        /\ snapshot \in SnapshotType
    BY <2>1, RequestFacts, PreflightAssumption DEF Judged
  <2>3. response = Verdict(request, snapshot, record)
    BY <2>1 DEF Judged
  <2>4. response.matches /\ response.authorized /\ Matches(d, tx) /\ authorized
    BY <2>3 DEF Verdict
  <2>5. record # None /\ Shaped(request.auth) /\ record = RecordOf(request.auth)
    BY <2>1, <2>4 DEF Authorized, Evidence, Recorded
  <2>6. /\ Committable(d) /\ ActuallyCommittable(tx)
        /\ record.commitment = DeclaredCommitment(d)
        /\ record.commitment = ActualCommitment(tx, snapshot.code, record.validUntil)
        /\ Proxy(snapshot) = "not-detected"
    BY <2>4 DEF Authorized, Proxy
  <2>7. record.validUntil \in 0 .. MaxUint64 /\ record.commitment # None
    BY <2>2, <2>5, PublishedHolds, CommitmentAssumption DEF RecordOf, AuthorizationType
  <2>8. response.declared = record.commitment /\ response.actual = record.commitment
    BY <2>3, <2>5, <2>6, <2>7 DEF Verdict
  <2> QED BY <2>4, <2>5, <2>6, <2>7, <2>8 DEF Complete
<1> QED BY <1>1, PreflightInvariant, PTL

=============================================================================
