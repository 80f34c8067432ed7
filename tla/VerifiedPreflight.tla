--------------------------- MODULE VerifiedPreflight ---------------------------
(***************************************************************************)
(* One authorization and one transaction, from the authorization's         *)
(* publication to what the caller is told of the transaction: the source   *)
(* contract and the ingest tool on one side, the HTTP server with its      *)
(* client or the guarded signer on the other.  The server keeps no state   *)
(* between requests, so one request at a time is enough.                   *)
(***************************************************************************)
EXTENDS Verdicts

CONSTANTS
    Requests,   \* what is published, declared, proposed, and under which policies
    Snapshots   \* what the execution chain may say at the pinned block

\* entry: through the SDK's client and the HTTP server, or through the guarded signer.
\* level: guard, guardIntent or guardVerified.  published, ingested: the time of the source
\* chain's and of Creditcoin's block in which the contracts run; the snapshot has its own.
RequestType ==
    [entry: {"sdk", "signer"}, level: {"preflight", "intent", "verified"},
     auth: AuthorizationType, declared: IntentType, tx: TransactionType,
     policy: PolicyType, fee: FeeType, feePolicy: FeePolicyType,
     published: Nat, ingested: Nat]

ASSUME PreflightAssumption ==
    /\ Requests \subseteq RequestType
    /\ \A r \in Requests : r.entry = "signer" => r.level = "verified"
    /\ Snapshots \subseteq SnapshotType
    /\ None \notin Snapshots

VARIABLES
    stage,     \* what the request is waiting for
    request,   \* its arguments
    event,     \* the AuthorizationPublished event
    stored,    \* the record of the registry
    snapshot,  \* what the inspection has found
    record,    \* what the reader has found
    bulky,     \* a text of the answer is longer than the client takes
    response,  \* the verdict
    told       \* what the caller knows

vars == <<stage, request, event, stored, snapshot, record, bulky, response, told>>

Stages == {"publish", "ingest", "request", "inspect", "lookup", "judge", "answer", "end"}

\* The client waits for the server's answer.
Posted == {"inspect", "lookup", "judge", "answer"}

Tell(what) == told' = what /\ stage' = "end"

-----------------------------------------------------------------------------
(* The authorization reaches the registry                                   *)

\* Both contracts refuse what has expired by the time of their own block.
InForce(auth, now) == now < auth.validUntil

Publish ==
    /\ stage = "publish"
    /\ IF Shaped(request.auth) /\ InForce(request.auth, request.published)
         THEN event' = Published(request.auth) /\ stage' = "ingest"
         ELSE stage' = "request" /\ UNCHANGED event
    /\ UNCHANGED <<request, stored, snapshot, record, bulky, response, told>>

Ingest ==
    /\ stage = "ingest"
    /\ stored' = IF EvidenceHolds(event) /\ InForce(event.auth, request.ingested)
                   THEN [commitment |-> event.commitment, validUntil |-> event.auth.validUntil]
                   ELSE None
    /\ stage' = "request"
    /\ UNCHANGED <<request, event, snapshot, record, bulky, response, told>>

-----------------------------------------------------------------------------
(* The transaction is judged                                                *)

\* The client posts; the signer is constructed and checks the fees of what the wallet filled in.
Propose ==
    /\ stage = "request"
    /\ IF request.entry = "signer"
          => NormalFeePolicy(request.feePolicy) /\ FeeIsSafe(request.fee, request.feePolicy)
         THEN stage' = "inspect" /\ UNCHANGED told
         ELSE Tell("REJECTED")
    /\ UNCHANGED <<request, event, stored, snapshot, record, bulky, response>>

\* The result of eth_call and the texts of errors are of any length.
Inspect ==
    /\ stage = "inspect"
    /\ snapshot' \in Snapshots /\ bulky' \in BOOLEAN
    /\ stage' = IF request.level = "verified" THEN "lookup" ELSE "judge"
    /\ UNCHANGED <<request, event, stored, record, response, told>>

InspectionFails ==
    /\ stage = "inspect"
    /\ Tell("ERROR")
    /\ UNCHANGED <<request, event, stored, snapshot, record, bulky, response>>

LookUp ==
    /\ stage = "lookup"
    /\ record' = stored
    /\ stage' = "judge"
    /\ UNCHANGED <<request, event, stored, snapshot, bulky, response, told>>

\* A failed lookup is a finding, with the error's text, as a record that is not there is.
LookUpFails ==
    /\ stage = "lookup"
    /\ bulky' \in {bulky, TRUE}
    /\ stage' = "judge"
    /\ UNCHANGED <<request, event, stored, snapshot, record, response, told>>

\* runIntentPreflight and runVerifiedPreflight block hard; else the baseline decides.
Decision(r, matches, authorized) ==
    IF matches /\ authorized THEN Graded(Score(r.tx, r.policy, snapshot)) ELSE "BLOCK"

Judge ==
    LET r == request
        matches == r.level = "preflight" \/ Matches(r.declared, r.tx)
        authorized == r.level = "verified" => Authorized(r.declared, r.tx, snapshot, record)
        until == IF record # None THEN record.validUntil ELSE r.declared.validUntil
    IN  /\ stage = "judge"
        /\ response' =
              [decision |-> Decision(r, matches, authorized),
               matches |-> matches, authorized |-> authorized,
               declared |-> IF Committable(r.declared)
                              THEN DeclaredCommitment(r.declared) ELSE None,
               actual |-> IF until \in 0 .. MaxUint64 /\ ActuallyCommittable(r.tx)
                            THEN ActualCommitment(r.tx, snapshot.code, until) ELSE None]
        /\ stage' = "answer"
        /\ UNCHANGED <<request, event, stored, snapshot, record, bulky, told>>

-----------------------------------------------------------------------------
(* The caller is told                                                       *)

\* A verified ALLOW has to be complete.
Complete(level) ==
    level = "verified" /\ response.decision = "ALLOW" =>
        /\ response.matches /\ response.authorized
        /\ record # None
        /\ response.declared # None /\ response.actual # None
        /\ response.declared = response.actual
        /\ record.commitment = response.actual
        /\ Proxy(snapshot) = "not-detected"

\* The schemas of the client bound every text of an answer, whatever it decides.
WellFormed(level) == ~ bulky /\ Complete(level)

Receive ==
    /\ stage = "answer"
    /\ IF request.entry = "sdk" /\ ~ WellFormed(request.level) THEN Tell("ERROR")
       ELSE IF response.decision = "ALLOW" THEN Tell("ALLOW") ELSE Tell("REJECTED")
    /\ UNCHANGED <<request, event, stored, snapshot, record, bulky, response>>

\* The answer is lost, or not there when the client's timer fires.
TimeOut ==
    /\ request.entry = "sdk" /\ stage \in Posted
    /\ Tell("TIMEOUT")
    /\ UNCHANGED <<request, event, stored, snapshot, record, bulky, response>>

PreflightInit ==
    /\ stage = "publish"
    /\ request \in Requests
    /\ event = None /\ stored = None /\ snapshot = None /\ record = None /\ response = None
    /\ bulky = FALSE
    /\ told = "nothing"

PreflightNext ==
    \/ Publish \/ Ingest
    \/ Propose \/ Inspect \/ InspectionFails \/ LookUp \/ LookUpFails \/ Judge
    \/ Receive \/ TimeOut

PreflightSpec == PreflightInit /\ [][PreflightNext]_vars

-----------------------------------------------------------------------------
(* Properties                                                               *)

Allowed(levels) == told = "ALLOW" /\ request.level \in levels

\* What is allowed on the word of an intent is, byte for byte, the call the intent describes:
\* the decoder of the effect and the encoder of the commitment are inverse of each other on
\* everything a verdict lets pass.
DeclaredIsDone ==
    Allowed({"intent", "verified"}) =>
        /\ request.tx.to = request.declared.target
        /\ Binding(request.declared.effect) =
               [data |-> request.tx.data, value |-> request.tx.value]

\* What is allowed on the word of the registry is the one transaction the owner published: the
\* bytes and the value computed on the source chain, at the sender's nonce, to the same code
\* and no proxy, before the authorization expires on any of the three chains.
AllowedAsPublished ==
    Allowed({"verified"}) =>
        LET auth == request.auth
        IN  /\ Shaped(auth)
            /\ [chain |-> auth.chain, from |-> auth.sender, to |-> auth.target,
                data |-> SourceBinding(auth.effect).data,
                value |-> SourceBinding(auth.effect).value, nonce |-> auth.nonce] = request.tx
            /\ snapshot.code = auth.code /\ Proxy(snapshot) = "not-detected"
            /\ \A now \in {request.published, request.ingested, snapshot.time} :
                   now < auth.validUntil

\* The transaction of an authorization, published, recorded and proposed in time, declared as it
\* is and found clean by the baseline.
Deserved ==
    LET auth == request.auth
        d == request.declared
    IN  /\ request.level = "verified"
        /\ Shaped(auth)
        /\ auth.effect.action = "native_transfer" => auth.effect.amount > 0
        /\ request.tx =
              [chain |-> auth.chain, from |-> auth.sender, to |-> auth.target,
               data |-> SourceBinding(auth.effect).data,
               value |-> SourceBinding(auth.effect).value, nonce |-> auth.nonce]
        /\ d.method \in {None, auth.effect.action}
        /\ [d EXCEPT !.method = None] =
              [chain |-> auth.chain, sender |-> auth.sender, nonce |-> auth.nonce,
               validUntil |-> auth.validUntil, code |-> auth.code, target |-> auth.target,
               method |-> None, effect |-> auth.effect]
        /\ snapshot # None
        /\ snapshot.code = auth.code /\ Proxy(snapshot) = "not-detected"
        /\ \A now \in {request.published, request.ingested, snapshot.time} : InForce(auth, now)
        /\ Score(request.tx, request.policy, snapshot) < 40

\* Nothing on the way stops what deserves to pass: the contract, the check of its event and the
\* firewall encode the same call, and the client believes what the server says.  In the way are
\* only a lookup that fails, the client's timer, and an answer that has grown too long for the
\* client, as it can: nothing bounds what the called contract returns.
AuthorizedPasses ==
    stage = "end" /\ Deserved =>
        \/ told \in {"ALLOW", "TIMEOUT"}
        \/ record = None /\ stored # None
        \/ told = "ERROR" /\ request.entry = "sdk" /\ bulky

\* What the signer is asked to sign cannot cost more than the two ceilings together, whatever
\* the base fee and the gas used turn out to be.
SpendIsBounded ==
    told = "ALLOW" /\ request.entry = "signer" /\ request.policy.max # None =>
        LET fee == request.fee
            Price(base) == IF fee.type = 2 /\ base + fee.priority < fee.unit
                             THEN base + fee.priority ELSE fee.unit
        IN  \A gas \in 0 .. fee.gasLimit, base \in 0 .. fee.unit :
                gas * Price(base) + request.tx.value
                    <= request.feePolicy.total + request.policy.max

\* Policy q asks for all that policy p asks for.  An empty allow-list restricts nothing: taking
\* its last target away does not make a policy stricter.
Stricter(q, p) ==
    /\ p.max # None => q.max # None /\ q.max <= p.max
    /\ p.allowed # {} => q.allowed # {} /\ q.allowed \subseteq p.allowed
    /\ p.blocked \subseteq q.blocked
    /\ p.strict => q.strict

LowerCeilings(q, p) ==
    q.gasLimit <= p.gasLimit /\ q.unit <= p.unit /\ q.priority <= p.priority /\ q.total <= p.total

\* No policy is a way round another: what passes under a policy and its ceilings passes under
\* each one that asks for less, though the points of a verdict are capped on the way and some
\* of them depend on several fields.
TighterNeverAllowsMore ==
    told = "ALLOW" =>
        \A r \in Requests :
            /\ Stricter(request.policy, r.policy) =>
                   Graded(Score(request.tx, r.policy, snapshot)) = "ALLOW"
            /\ request.entry = "signer" /\ LowerCeilings(request.feePolicy, r.feePolicy) =>
                   FeeIsSafe(request.fee, r.feePolicy)

\* The client takes a verdict of this server for a forged or a cut one only if it is too long.
\* What its schemas ask of an ALLOW besides is what the server has computed, by other code and
\* other comparisons.
ServerIsBelieved == stage = "answer" => (WellFormed(request.level) <=> ~ bulky)

PreflightTypeOK ==
    /\ stage \in Stages
    /\ request \in Requests
    /\ snapshot \in Snapshots \cup {None}
    /\ bulky \in BOOLEAN
    /\ told \in {"nothing", "ALLOW", "REJECTED", "ERROR", "TIMEOUT"}
    /\ told = "nothing" <=> stage # "end"

=============================================================================
