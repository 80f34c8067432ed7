------------------------------- MODULE Verdicts -------------------------------
(***************************************************************************)
(* The pure part of a preflight: what a transaction does, what an intent   *)
(* declares, what an authorization commits to in the three places that     *)
(* compute it, and the points, checks and fee ceilings a verdict is made   *)
(* of.  An address, a number or a hash is a value; calldata is what ABI    *)
(* decoding sees of it; a hash of a record is the record.                  *)
(***************************************************************************)
EXTENDS Naturals

CONSTANTS
    Addresses,
    Zero,          \* the zero address
    Chains,
    Codes,         \* runtime code of a target
    NoCode,        \* "0x"
    Clones,        \* the codes that are EIP-1167 proxies
    MaxUint,       \* 2^256 - 1
    MaxUint64,     \* 2^64 - 1
    None           \* an optional field that is left out, a null

ASSUME VerdictAssumption ==
    /\ Zero \in Addresses
    /\ NoCode \in Codes /\ Clones \subseteq Codes \ {NoCode}
    /\ MaxUint \in Nat /\ MaxUint > 1
    /\ MaxUint64 \in Nat
    /\ None \notin Addresses \cup Codes \cup Nat

Methods == {"approve", "transfer", "transferFrom", "setApprovalForAll"}
Actions == Methods \cup {"native_transfer"}

Empty == [selector |-> "none", a |-> Zero, b |-> Zero, n |-> 0, tail |-> "exact"]

\* a and b are the address words, n is the last word.  The rest is of the exact length, goes on
\* after the last word, or cannot be decoded (too short, or an address word that is no address).
Calldata ==
    LET Tails == {"exact", "long", "broken"}
    IN  {Empty}
        \cup [selector: (Methods \ {"transferFrom"}) \cup {"other"}, a: Addresses, b: {Zero},
              n: 0 .. MaxUint, tail: Tails]
        \cup [selector: {"transferFrom"}, a: Addresses, b: Addresses, n: 0 .. MaxUint,
              tail: Tails]

TransactionType ==
    [chain: Chains, from: Addresses \cup {None}, to: Addresses, data: Calldata,
     value: Nat, nonce: Nat \cup {None}]

EffectType ==
    [action: Actions, asset: Addresses, first: Addresses, second: Addresses, amount: Nat]

\* The schema of an intent has no other fields than its action's, and a flag is a boolean.
Fits(e) ==
    /\ e.action = "native_transfer" => e.asset = Zero
    /\ e.action # "transferFrom" => e.second = Zero
    /\ e.action = "setApprovalForAll" => e.amount <= 1

IntentType ==
    [chain: Chains, sender: Addresses \cup {None}, nonce: Nat \cup {None},
     validUntil: Nat \cup {None}, code: Codes \cup {None}, target: Addresses,
     method: Actions \cup {None}, effect: {e \in EffectType : Fits(e)}]

AuthorizationType ==
    [chain: Chains, sender: Addresses, nonce: 0 .. MaxUint, validUntil: 0 .. MaxUint64,
     code: Codes, target: Addresses, effect: [action: Actions, asset: Addresses,
     first: Addresses, second: Addresses, amount: 0 .. MaxUint]]

PolicyType ==
    [max: Nat \cup {None}, allowed: SUBSET Addresses, blocked: SUBSET Addresses,
     strict: BOOLEAN]

\* What the pinned block says.  slots: what the two EIP-1967 slots hold.
SnapshotType ==
    [code: Codes, slots: {"empty", "set", "unreadable"}, simulated: BOOLEAN,
     estimated: BOOLEAN, time: Nat]

FeeType == [type: {0, 1, 2}, gasLimit: Nat, unit: Nat, priority: Nat]
FeePolicyType == [gasLimit: Nat, unit: Nat, priority: Nat, total: Nat]

-----------------------------------------------------------------------------
(* The baseline score                                                       *)

Points(condition, n) == IF condition THEN n ELSE 0

Capped(score) == IF score > 100 THEN 100 ELSE score

\* ethers decodes what it can and tolerates bytes after the last word.
Decodes(d) == d.selector \in Methods /\ d.tail # "broken"

CallPoints(d, strict) ==
    Points(d.selector = "approve" /\ Decodes(d) /\ d.n = MaxUint, 80)
    + Points(d.selector = "approve" /\ Decodes(d) /\ d.n \in 1 .. MaxUint - 1, 20)
    + Points(d.selector = "setApprovalForAll" /\ Decodes(d) /\ d.n > 0, 75)
    + Points(d.selector = "transfer" /\ Decodes(d), 5)
    + Points(d.selector = "transferFrom" /\ Decodes(d), 20)
    + Points(d # Empty /\ ~ Decodes(d), IF strict THEN 70 ELSE 35)

\* analyzeTransaction
LocalScore(tx, policy) ==
    Capped(Points(tx.to = Zero, 70)
           + Points(tx.to \in policy.blocked, 100)
           + Points(policy.allowed # {} /\ tx.to \notin policy.allowed, 70)
           + Points(policy.max # None /\ tx.value > policy.max, 70)
           + CallPoints(tx.data, policy.strict)
           + Points(tx.value > 0 /\ tx.data # Empty, 15))

\* runPreflight
Score(tx, policy, snapshot) ==
    Capped(LocalScore(tx, policy)
           + Points(snapshot.code = NoCode /\ tx.data # Empty, 45)
           + Points(~ snapshot.simulated, 45)
           + Points(~ snapshot.estimated, 20))

Graded(score) == IF score >= 70 THEN "BLOCK" ELSE IF score >= 40 THEN "REVIEW" ELSE "ALLOW"

-----------------------------------------------------------------------------
(* Intent and effect                                                        *)

\* Fault: a known selector is enough, whatever follows the last word.
CanonicalAnyLength(d) == Decodes(d)

\* The length of the calldata is the one of the method's arguments.
Canonical(d) == d.selector \in Methods /\ d.tail = "exact"

\* decodeActualEffect; a word that is not zero decodes as true.
Known(tx) == IF tx.data = Empty THEN tx.value > 0 ELSE Canonical(tx.data)

ActualEffect(tx) ==
    IF tx.data = Empty
      THEN [action |-> "native_transfer", asset |-> Zero, first |-> tx.to, second |-> Zero,
            amount |-> tx.value]
      ELSE [action |-> tx.data.selector, asset |-> tx.to, first |-> tx.data.a,
            second |-> tx.data.b,
            amount |-> IF tx.data.selector = "setApprovalForAll" /\ tx.data.n > 0
                         THEN 1 ELSE tx.data.n]

\* matchDeclaredIntent finds nothing to object to.
Matches(declared, tx) ==
    /\ declared.chain = tx.chain
    /\ declared.target = tx.to
    /\ declared.sender \in {None, tx.from}
    /\ declared.nonce \in {None, tx.nonce}
    /\ Known(tx)
    /\ tx.data # Empty => tx.value = 0
    /\ declared.method \in {None, ActualEffect(tx).action}
    /\ declared.effect = ActualEffect(tx)

-----------------------------------------------------------------------------
(* Commitments                                                              *)

\* declaredCallBinding
Binding(effect) ==
    IF effect.action = "native_transfer"
      THEN [data |-> Empty, value |-> effect.amount]
      ELSE [data |-> [selector |-> effect.action, a |-> effect.first, b |-> effect.second,
                      n |-> effect.amount, tail |-> "exact"],
            value |-> 0]

\* commitmentFromDeclaredIntent throws.
Committable(declared) ==
    /\ None \notin {declared.sender, declared.nonce, declared.validUntil, declared.code}
    /\ declared.validUntil <= MaxUint64
    /\ declared.nonce <= MaxUint
    /\ declared.effect.amount <= MaxUint

DeclaredCommitment(declared) ==
    [chain |-> declared.chain, sender |-> declared.sender, nonce |-> declared.nonce,
     validUntil |-> declared.validUntil, code |-> declared.code, target |-> declared.target,
     effect |-> declared.effect, binding |-> Binding(declared.effect)]

\* commitmentFromActualEffect throws.
ActuallyCommittable(tx) ==
    /\ Known(tx)
    /\ None \notin {tx.from, tx.nonce}
    /\ tx.nonce <= MaxUint
    /\ tx.value <= MaxUint

ActualCommitment(tx, code, validUntil) ==
    [chain |-> tx.chain, sender |-> tx.from, nonce |-> tx.nonce,
     validUntil |-> validUntil, code |-> code, target |-> tx.to,
     effect |-> ActualEffect(tx), binding |-> [data |-> tx.data, value |-> tx.value]]

\* _validateShape
Shaped(auth) ==
    LET e == auth.effect
    IN  /\ auth.target # Zero
        /\ auth.validUntil > 0
        /\ e.asset = IF e.action = "native_transfer" THEN Zero ELSE auth.target
        /\ IF e.action = "native_transfer" THEN e.first = auth.target ELSE e.first # Zero
        /\ (e.action = "transferFrom") = (e.second # Zero)
        /\ e.action = "setApprovalForAll" => e.amount <= 1

\* computeExecutionBinding
SourceBinding(effect) ==
    LET Call(n) == [selector |-> effect.action, a |-> effect.first, b |-> effect.second,
                    n |-> n, tail |-> "exact"]
    IN  CASE effect.action = "native_transfer" ->
                 [data |-> Empty, value |-> effect.amount]
          [] effect.action = "setApprovalForAll" ->
                 [data |-> Call(IF effect.amount = 1 THEN 1 ELSE 0), value |-> 0]
          [] OTHER ->
                 [data |-> Call(effect.amount), value |-> 0]

\* The event AuthorizationPublished, with what _computeCommitment made of the authorization.
Published(auth) ==
    LET binding == SourceBinding(auth.effect)
    IN  [auth |-> auth, binding |-> binding,
         commitment |->
            [chain |-> auth.chain, sender |-> auth.sender, nonce |-> auth.nonce,
             validUntil |-> auth.validUntil, code |-> auth.code, target |-> auth.target,
             effect |-> auth.effect, binding |-> binding]]

\* Fault: the native value of every action is the amount.
EvidenceBindingOfAmount(effect) ==
    [data |-> Binding(effect).data, value |-> effect.amount]

\* expectedEvidenceExecutionBinding
EvidenceBinding(effect) ==
    IF effect.action = "setApprovalForAll"
      THEN Binding([effect EXCEPT !.amount = IF effect.amount = 1 THEN 1 ELSE 0])
      ELSE Binding(effect)

\* validateSourceAuthorizationEvidence
EvidenceHolds(event) ==
    LET a == event.auth
    IN  /\ Shaped(a)
        /\ event.binding = EvidenceBinding(a.effect)
        /\ event.commitment =
               [chain |-> a.chain, sender |-> a.sender, nonce |-> a.nonce,
                validUntil |-> a.validUntil, code |-> a.code, target |-> a.target,
                effect |-> a.effect, binding |-> event.binding]

CommitmentType ==
    [chain: Chains, sender: Addresses, nonce: Nat, validUntil: Nat, code: Codes,
     target: Addresses, effect: EffectType, binding: [data: Calldata, value: Nat]]

RecordType == [commitment: CommitmentType, validUntil: Nat]

ASSUME CommitmentAssumption == None \notin CommitmentType /\ None \notin RecordType

-----------------------------------------------------------------------------
(* The checks of a verified preflight                                       *)

\* detectProxyIdentity
Proxy(snapshot) ==
    IF snapshot.code = NoCode THEN "not-detected"
    ELSE IF snapshot.code \in Clones \/ snapshot.slots = "set" THEN "detected"
    ELSE IF snapshot.slots = "empty" THEN "not-detected" ELSE "unknown"

\* Fault: an authorization still holds in the second it expires.
UnexpiredStill(record, snapshot) == record.validUntil >= snapshot.time

Unexpired(record, snapshot) == record.validUntil > snapshot.time

\* evaluateVerifiedAuthorization, with what runVerifiedPreflight adds about proxies
Authorized(declared, tx, snapshot, record) ==
    /\ record # None
    /\ declared.code = snapshot.code
    /\ Committable(declared)
    /\ declared.validUntil = record.validUntil
    /\ Unexpired(record, snapshot)
    /\ ActuallyCommittable(tx)
    /\ record.commitment = DeclaredCommitment(declared)
    /\ record.commitment = ActualCommitment(tx, snapshot.code, record.validUntil)
    /\ Proxy(snapshot) # "detected"
    /\ snapshot.code # NoCode => Proxy(snapshot) # "unknown"

-----------------------------------------------------------------------------
(* Fees                                                                     *)

\* normalizeFeeSafetyPolicy
NormalFeePolicy(p) ==
    /\ p.gasLimit > 0 /\ p.unit > 0 /\ p.total > 0
    /\ p.priority <= p.unit

\* Fault: the total is compared with the ceiling of the priority fee.
TotalOfPriority(fee) == fee.gasLimit * fee.priority

\* The worst case: all the gas at the highest price.
Total(fee) == fee.gasLimit * fee.unit

\* enforceFeeSafety; unit is maxFeePerGas, or the gasPrice of a legacy transaction.
FeeIsSafe(fee, p) ==
    /\ fee.gasLimit \in 1 .. p.gasLimit
    /\ fee.type \in {0, 2}
    /\ fee.unit <= p.unit
    /\ fee.type = 2 => fee.priority <= p.priority /\ fee.priority <= fee.unit
    /\ Total(fee) <= p.total

=============================================================================
