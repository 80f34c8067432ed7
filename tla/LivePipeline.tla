---------------------------- MODULE LivePipeline ----------------------------
(***************************************************************************)
(* The live tools: publish-demo-authorization, attestcoin-semantic         *)
(* (ingest), sign-controller-approval, demo-verified-live,                 *)
(* verify-live-evidence, and live-e2e, which runs them one after another.  *)
(*                                                                         *)
(* They share two files, the authorization artifact and the evidence.      *)
(* Every tool reads the artifact once, when it starts, awaits answers of   *)
(* two chains for up to half an hour, and writes the whole artifact back.  *)
(* A tool may fail or be killed between any two steps, and then the rest   *)
(* of its script is not run.                                               *)
(*                                                                         *)
(* pc[r] is what run r is waiting for; an action is its answer and the     *)
(* synchronous code up to the next await.                                  *)
(*                                                                         *)
(* All publications and executions are by one account.  An authorization   *)
(* is known by the number of its publication; its id, commitment,          *)
(* transactions and record are what they are because of it.                *)
(*                                                                         *)
(* The source chain reorganises above its attested height.  Creditcoin is  *)
(* taken never to: what the registry has recorded it keeps.                *)
(***************************************************************************)
EXTENDS Naturals, Sequences, FiniteSets

CONSTANTS
    Runs,               \* what is typed into the terminals
    Script,             \* the tools each runs
    Together,           \* whether one may start while another is running
    MaxAuthorizations,  \* bounds of the world
    MaxBlock,
    MaxCount

Tools == {"publish", "ingest", "approve", "dry", "send", "verify", "report"}

ASSUME PipelineAssumption ==
    /\ Script \in [Runs -> Seq(Tools)]
    /\ \A r \in Runs : Script[r] # <<>>
    /\ Together \in BOOLEAN
    /\ {MaxAuthorizations, MaxBlock, MaxCount} \subseteq Nat

VARIABLES
    published,  \* source chain: the authorizations, with their nonce and block
    count,      \* the account's transactions
    executed,   \* authorizations whose transaction is mined
    final,      \* the height up to which the source chain is attested
    recorded,   \* Creditcoin: authorizations in the registry
    expired,    \* authorizations that are no longer valid
    artifact,   \* build/live-authorization.json
    evidence,   \* build/live-evidence.json
    pc, step, local,
    fresh,      \* history: the authorization each run has published
    report      \* what live-e2e printed

chains == <<published, count, executed, final, recorded, expired>>
files  == <<artifact, evidence>>
told   == <<fresh, report>>
pipelineVars == <<chains, files, pc, step, local, told>>

\* Zero stands for a section, or a file, that is not there.  block: of the source transaction.
\* ingested, proofBlock: section creditcoin, by the authorization its transaction recorded.
\* approval: controllerApproval.  checked: verification, "signed" with the signer's call counts.
\* executed: executionResult, by the authorization that was executed.
NoArtifact ==
    [source |-> 0, block |-> 0, ingested |-> 0, proofBlock |-> 0, approval |-> 0,
     checked |-> "no", executed |-> 0]

Artifacts ==
    [source: Nat, block: Nat, ingested: Nat, proofBlock: Nat, approval: Nat,
     checked: {"no", "preflight", "signed"}, executed: Nat]

NoEvidence ==
    [source |-> 0, block |-> 0, ingested |-> 0, proofBlock |-> 0, approval |-> 0,
     signer |-> FALSE, executed |-> 0]

Evidence ==
    [source: Nat, block: Nat, ingested: Nat, proofBlock: Nat, approval: Nat,
     signer: BOOLEAN, executed: Nat]

\* id: the authorization a tool works on.  count: an answered nonce.  block: an answered receipt.
Blank ==
    [file |-> NoArtifact, seen |-> NoEvidence, id |-> 0, mined |-> 0, count |-> 0, block |-> 0]

Locals ==
    [file: Artifacts, seen: Evidence, id: Nat, mined: Nat, count: Nat, block: Nat]

Labels ==
    [publish |-> {"start", "predict", "mine", "compare"},
     ingest  |-> {"start", "receipt", "proof", "submit", "readback"},
     approve |-> {"start", "signature"},
     dry     |-> {"start", "preflight", "save", "evidence"},
     send    |-> {"start", "preflight", "save", "evidence", "pending", "guard", "execution"},
     verify  |-> {"start", "source", "ingested", "executed", "landed", "latest", "counted"},
     report  |-> {"start"}]

Tool(r) == Script[r][step[r]]

LiveE2E == <<"publish", "ingest", "approve", "send", "verify", "report">>

Id == 1..Len(published)

-----------------------------------------------------------------------------
(* Faults: each is a plausible mistake in the definition it is named for.   *)

Merged(a) == [artifact EXCEPT !.approval = a.source]

ResultReset(a) == [a EXCEPT !.checked = "preflight", !.executed = 0]

RecordUnread(id) == id \notin expired

NeverSends(tool, a) == "finish"

AlwaysSends(tool, a) == IF a.checked = "signed" THEN "finish" ELSE "pending"

ReceiptUnread(a) == TRUE

-----------------------------------------------------------------------------
(* The files                                                                *)

PublishedArtifact(id, block) == [NoArtifact EXCEPT !.source = id, !.block = block]

Ingested(a, id, block) == [a EXCEPT !.ingested = id, !.proofBlock = block]

Approved(a) == [a EXCEPT !.approval = a.source]

Preflighted(a) == [a EXCEPT !.checked = "preflight"]

WithExecution(a) == [a EXCEPT !.checked = "signed", !.executed = a.source]

Buildable(a) == a.ingested # 0 /\ a.checked # "no" /\ a.proofBlock = a.block

\* buildLiveJudgeEvidence: section guardedSigner needs the result and the call counts.
Build(a) ==
    [source |-> a.source, block |-> a.block, ingested |-> a.ingested,
     proofBlock |-> a.proofBlock, approval |-> a.approval,
     signer |-> a.checked = "signed" /\ a.executed # 0, executed |-> a.executed]

-----------------------------------------------------------------------------
(* The chains                                                               *)

ExecutionNonce(n) == n + 1

\* Blocks in which the publication of id can be: the account's transactions keep their order.
BlocksFor(id) ==
    {b \in final + 1 .. MaxBlock :
        /\ \A k \in Id : k < id => published[k].block < b
        /\ \A k \in Id : k > id => published[k].block > b}

Publish(nonce, b) ==
    /\ Len(published) < MaxAuthorizations /\ count < MaxCount
    /\ published' = Append(published, [nonce |-> nonce, block |-> b])
    /\ count' = count + 1

Provable(id) == id \in Id /\ published[id].block <= final

Recordable(id) == id \notin recorded \cup expired

Allowed(id) == id \in recorded \ expired

\* The source chain replaces the block of a publication that is not attested.
Remine ==
    /\ \E id \in Id :
          /\ ~ Provable(id)
          /\ \E b \in BlocksFor(id) : published' = [published EXCEPT ![id].block = b]
    /\ UNCHANGED <<count, executed, final, recorded, expired>>

Attest ==
    /\ final < MaxBlock
    /\ final' = final + 1
    /\ UNCHANGED <<published, count, executed, recorded, expired>>

Expire ==
    /\ \E id \in Id \ expired : expired' = expired \cup {id}
    /\ UNCHANGED <<published, count, executed, final, recorded>>

\* Anyone may submit a proof.
RecordedByOther ==
    /\ \E id \in Id : Provable(id) /\ Recordable(id) /\ recorded' = recorded \cup {id}
    /\ UNCHANGED <<published, count, executed, final, expired>>

\* The account is used elsewhere.
ForeignSend ==
    /\ count < MaxCount
    /\ count' = count + 1
    /\ UNCHANGED <<published, executed, final, recorded, expired>>

\* A reorganisation drops the account's last transaction, if it is an execution.
DropExecution ==
    /\ \E id \in executed :
          /\ published[id].nonce + 1 = count
          /\ executed' = executed \ {id}
    /\ count' = count - 1
    /\ UNCHANGED <<published, final, recorded, expired>>

World ==
    /\ Remine \/ Attest \/ Expire \/ RecordedByOther \/ ForeignSend \/ DropExecution
    /\ UNCHANGED <<files, pc, step, local, told>>

-----------------------------------------------------------------------------
(* Running tools                                                            *)

Running(r) == pc[r] \notin {"idle", "done", "stopped"}

\* A tool goes on; l are its locals.
Wait(r, label, l) ==
    /\ pc' = [pc EXCEPT ![r] = label]
    /\ local' = [local EXCEPT ![r] = l]
    /\ UNCHANGED step

\* A tool ends well, and the next one of the script starts.
Finish(r) ==
    /\ local' = [local EXCEPT ![r] = Blank]
    /\ \/ /\ step[r] < Len(Script[r])
          /\ step' = [step EXCEPT ![r] = @ + 1]
          /\ pc' = [pc EXCEPT ![r] = "start"]
       \/ /\ step[r] = Len(Script[r])
          /\ pc' = [pc EXCEPT ![r] = "done"]
          /\ UNCHANGED step

At(r, tools, label) == pc[r] = label /\ Tool(r) \in tools

Begin(r) ==
    /\ pc[r] = "idle"
    /\ Together \/ \A q \in Runs : ~ Running(q)
    /\ Wait(r, "start", local[r])
    /\ UNCHANGED <<chains, files, told>>

\* A tool throws, is killed, or the machine goes down.
Stop(r) ==
    /\ Running(r)
    /\ Wait(r, "stopped", Blank)
    /\ UNCHANGED <<chains, files, told>>

-----------------------------------------------------------------------------
(* publish-demo-authorization                                               *)

PublishCount(r) ==
    /\ At(r, {"publish"}, "start")
    /\ Wait(r, "predict", [local[r] EXCEPT !.count = count])
    /\ UNCHANGED <<chains, files, told>>

\* The static call tells the id, which depends on the contract's nonce of the account.
PublishPredict(r) ==
    /\ At(r, {"publish"}, "predict")
    /\ Wait(r, "mine", [local[r] EXCEPT !.id = Len(published) + 1])
    /\ UNCHANGED <<chains, files, told>>

PublishMined(r) ==
    /\ At(r, {"publish"}, "mine")
    /\ \E b \in BlocksFor(Len(published) + 1) :
          /\ Publish(ExecutionNonce(local[r].count), b)
          /\ Wait(r, "compare", [local[r] EXCEPT !.mined = Len(published) + 1, !.block = b])
    /\ UNCHANGED <<executed, final, recorded, expired, files, told>>

PublishWrite(r) ==
    /\ At(r, {"publish"}, "compare")
    /\ local[r].mined = local[r].id
    /\ artifact' = PublishedArtifact(local[r].mined, local[r].block)
    /\ fresh' = [fresh EXCEPT ![r] = local[r].mined]
    /\ Finish(r)
    /\ UNCHANGED <<chains, evidence, report>>

-----------------------------------------------------------------------------
(* attestcoin-semantic                                                      *)

\* SOURCE_CHAIN_TXN_HASH may name another transaction than the artifact.
IngestRead(r) ==
    /\ At(r, {"ingest"}, "start")
    /\ \E id \in Id \cup ({artifact.source} \ {0}) :
          Wait(r, "receipt", [local[r] EXCEPT !.file = artifact, !.id = id])
    /\ UNCHANGED <<chains, files, told>>

IngestReceipt(r) ==
    /\ At(r, {"ingest"}, "receipt")
    /\ local[r].id \notin expired
    /\ Wait(r, "proof", [local[r] EXCEPT !.block = published[local[r].id].block])
    /\ UNCHANGED <<chains, files, told>>

\* fetchAttestcoinProof returns and the proof is of the block the receipt named.
IngestProof(r) ==
    /\ At(r, {"ingest"}, "proof")
    /\ Provable(local[r].id) /\ published[local[r].id].block = local[r].block
    /\ Wait(r, "submit", local[r])
    /\ UNCHANGED <<chains, files, told>>

IngestSubmit(r) ==
    /\ At(r, {"ingest"}, "submit")
    /\ Recordable(local[r].id)
    /\ recorded' = recorded \cup {local[r].id}
    /\ Wait(r, "readback", local[r])
    /\ UNCHANGED <<published, count, executed, final, expired, files, told>>

IngestWrite(r) ==
    LET l == local[r]
    IN  /\ At(r, {"ingest"}, "readback")
        /\ artifact' = IF l.file.source = 0 THEN artifact ELSE Ingested(l.file, l.id, l.block)
        /\ Finish(r)
        /\ UNCHANGED <<chains, evidence, told>>

-----------------------------------------------------------------------------
(* sign-controller-approval                                                 *)

ApproveRead(r) ==
    /\ At(r, {"approve"}, "start")
    /\ artifact.ingested # 0
    /\ Wait(r, "signature", [local[r] EXCEPT !.file = artifact])
    /\ UNCHANGED <<chains, files, told>>

ApproveWrite(r) ==
    /\ At(r, {"approve"}, "signature")
    /\ artifact' = Approved(local[r].file)
    /\ Finish(r)
    /\ UNCHANGED <<chains, evidence, told>>

-----------------------------------------------------------------------------
(* demo-verified-live, without and with AGENTFIREWALL_LIVE_SEND             *)

DemoRead(r) ==
    /\ At(r, {"dry", "send"}, "start")
    /\ artifact.ingested # 0
    /\ Wait(r, "preflight", [local[r] EXCEPT !.file = artifact])
    /\ UNCHANGED <<chains, files, told>>

\* The mutated transaction is blocked whatever the registry says, the exact one is allowed.
DemoPreflight(r) ==
    /\ At(r, {"dry", "send"}, "preflight")
    /\ Allowed(local[r].file.source)
    /\ Wait(r, "save", [local[r] EXCEPT !.file = Preflighted(@)])
    /\ UNCHANGED <<chains, files, told>>

\* persistLiveEvidence writes one file and then the other.
DemoSave(r) ==
    /\ At(r, {"dry", "send"}, "save")
    /\ artifact' = local[r].file
    /\ Wait(r, "evidence", local[r])
    /\ UNCHANGED <<chains, evidence, told>>

AfterEvidence(tool, a) ==
    IF tool = "dry" \/ a.checked = "signed" THEN "finish" ELSE "pending"

DemoEvidence(r) ==
    LET a == local[r].file
        next == AfterEvidence(Tool(r), a)
    IN  /\ At(r, {"dry", "send"}, "evidence")
        /\ Buildable(a)
        /\ evidence' = Build(a)
        /\ \/ next = "finish" /\ Finish(r)
           \/ next = "pending" /\ Wait(r, next, local[r])
        /\ UNCHANGED <<chains, artifact, told>>

\* The nonce is still free and the approval is for this authorization.
DemoPending(r) ==
    LET a == local[r].file
    IN  /\ At(r, {"send"}, "pending")
        /\ count = published[a.source].nonce
        /\ a.approval = a.source
        /\ Wait(r, "guard", local[r])
        /\ UNCHANGED <<chains, files, told>>

\* guardAndSendVerified rejects the mutated transaction and dispatches the exact one.
DemoSend(r) ==
    LET a == local[r].file
    IN  /\ At(r, {"send"}, "guard")
        /\ Allowed(a.source)
        /\ count = published[a.source].nonce /\ count < MaxCount
        /\ executed' = executed \cup {a.source}
        /\ count' = count + 1
        /\ Wait(r, "execution", local[r])
        /\ UNCHANGED <<published, final, recorded, expired, files, told>>

DemoMined(r) ==
    /\ At(r, {"send"}, "execution")
    /\ local[r].file.source \in executed
    /\ Wait(r, "save", [local[r] EXCEPT !.file = WithExecution(@)])
    /\ UNCHANGED <<chains, files, told>>

-----------------------------------------------------------------------------
(* verify-live-evidence                                                     *)

VerifyRead(r) ==
    /\ At(r, {"verify"}, "start")
    /\ artifact.source # 0 /\ evidence.source # 0
    /\ Wait(r, "source", [local[r] EXCEPT !.file = artifact, !.seen = evidence])
    /\ UNCHANGED <<chains, files, told>>

VerifySource(r) ==
    /\ At(r, {"verify"}, "source")
    /\ published[local[r].file.source].block = local[r].file.block
    /\ Wait(r, "ingested", local[r])
    /\ UNCHANGED <<chains, files, told>>

\* historicalEvidenceMatchesArtifacts
Matches(e, a) == Buildable(a) /\ e = Build(a)

\* The execution is looked up only if both files tell of one.
AfterRecord(a, e) == IF a.executed # 0 /\ e.executed # 0 THEN "executed" ELSE "latest"

\* verifyCreditcoin: the record is the one the artifact tells of.
VerifyIngested(r) ==
    LET a == local[r].file
    IN  /\ At(r, {"verify"}, "ingested")
        /\ a.ingested = a.source /\ a.source \in recorded
        /\ Matches(local[r].seen, a)
        /\ Wait(r, AfterRecord(a, local[r].seen), local[r])
        /\ UNCHANGED <<chains, files, told>>

\* The node may know a transaction that no block holds.
VerifyTransaction(r) ==
    /\ At(r, {"verify"}, "executed")
    /\ Wait(r, "landed", local[r])
    /\ UNCHANGED <<chains, files, told>>

\* The transaction of the result is mined and has the nonce and the effect of the authorization.
ExecutionHolds(a) ==
    a.executed \in executed /\ published[a.executed].nonce = published[a.source].nonce

VerifyReceipt(r) ==
    /\ At(r, {"verify"}, "landed")
    /\ ExecutionHolds(local[r].file)
    /\ Wait(r, "latest", local[r])
    /\ UNCHANGED <<chains, files, told>>

VerifyLatest(r) ==
    /\ At(r, {"verify"}, "latest")
    /\ Wait(r, "counted", local[r])
    /\ UNCHANGED <<chains, files, told>>

\* The count only goes into what is printed with "verified".
VerifyCount(r) ==
    /\ At(r, {"verify"}, "counted")
    /\ Finish(r)
    /\ UNCHANGED <<chains, files, told>>

\* What live-e2e prints when all tools have ended well.
Report(r) ==
    /\ At(r, {"report"}, "start")
    /\ evidence.source # 0
    /\ report' = [report EXCEPT ![r] = evidence]
    /\ Finish(r)
    /\ UNCHANGED <<chains, files, fresh>>

-----------------------------------------------------------------------------

PipelineInit ==
    /\ published = <<>>
    /\ count = 0
    /\ executed = {}
    /\ final = 0
    /\ recorded = {}
    /\ expired = {}
    /\ artifact = NoArtifact
    /\ evidence = NoEvidence
    /\ pc = [r \in Runs |-> "idle"]
    /\ step = [r \in Runs |-> 1]
    /\ local = [r \in Runs |-> Blank]
    /\ fresh = [r \in Runs |-> 0]
    /\ report = [r \in Runs |-> NoEvidence]

ToolStep(r) ==
    \/ PublishCount(r) \/ PublishPredict(r) \/ PublishMined(r) \/ PublishWrite(r)
    \/ IngestRead(r) \/ IngestReceipt(r) \/ IngestProof(r) \/ IngestSubmit(r) \/ IngestWrite(r)
    \/ ApproveRead(r) \/ ApproveWrite(r)
    \/ DemoRead(r) \/ DemoPreflight(r) \/ DemoSave(r) \/ DemoEvidence(r)
    \/ DemoPending(r) \/ DemoSend(r) \/ DemoMined(r)
    \/ VerifyRead(r) \/ VerifySource(r) \/ VerifyIngested(r)
    \/ VerifyTransaction(r) \/ VerifyReceipt(r) \/ VerifyLatest(r) \/ VerifyCount(r)
    \/ Report(r)

PipelineNext ==
    \/ \E r \in Runs : Begin(r) \/ ToolStep(r) \/ Stop(r)
    \/ World

PipelineSpec == PipelineInit /\ [][PipelineNext]_pipelineVars

-----------------------------------------------------------------------------
(* Properties                                                               *)

PipelineTypeOK ==
    /\ published \in Seq([nonce: Nat, block: Nat])
    /\ count \in Nat /\ final \in Nat
    /\ executed \cup recorded \cup expired \subseteq Id
    /\ artifact \in Artifacts
    /\ evidence \in Evidence
    /\ step \in [Runs -> Nat \ {0}]
    /\ \A r \in Runs : step[r] <= Len(Script[r])
    /\ pc \in [Runs -> {"idle", "done", "stopped"} \cup UNION {Labels[t] : t \in Tools}]
    /\ \A r \in Runs : pc[r] \in {"idle", "done", "stopped"} \cup Labels[Tool(r)]
    /\ local \in [Runs -> Locals]
    /\ fresh \in [Runs -> Nat]
    /\ report \in [Runs -> Evidence]

\* Whatever tools run at the same time, and wherever they are killed, the artifact's approval and
\* its execution result are of the authorization it names: a tool that writes back an old
\* artifact loses what others wrote, but mixes nothing.
OfOneAuthorization(a) == {a.approval, a.executed} \subseteq {0, a.source}

SectionsAgree == OfOneAuthorization(artifact)

\* The evidence names an authorization that is in the registry, though the file outlives crashes,
\* overrides of the ingested transaction and artifacts written over each other.
EvidenceIsBacked ==
    /\ evidence.source # 0 => evidence.source \in recorded
    /\ evidence.signer => evidence.executed = evidence.source

\* Whatever terminals publish, approve and send at once, and whatever a reorganisation takes
\* back, a nonce of the account is spent on one authorization at most, though several can be
\* published, recorded and approved for the same nonce, and it stays behind the account's count.
NonceSpentOnce ==
    \A id \in executed :
        /\ published[id].nonce < count
        /\ \A other \in executed : published[other].nonce = published[id].nonce => other = id

\* What live:evidence verifies has been so at one moment: when the receipt of the execution is
\* read, the publication is where the evidence says, attested and recorded by the transaction it
\* names, and what it says was executed is mined, though all of it was asked for one after the
\* other of two chains that move.  When "verified" is printed, two answers later, a
\* reorganisation may have dropped the execution, but nothing else of it.
Stands(e) ==
    /\ e.source \in recorded /\ e.ingested = e.source
    /\ published[e.source].block = e.block /\ e.proofBlock = e.block
    /\ e.executed \in {0, e.source}

VerifiedIsTrue ==
    [][\A r \in Runs :
          /\ VerifyReceipt(r) => Stands(local[r].seen) /\ local[r].seen.executed \in executed
          /\ VerifyCount(r) => Stands(local[r].seen)]_pipelineVars

\* One terminal at a time: when live-e2e reports, the evidence is of the authorization that this
\* run published, ingested, approved and executed, and shows the signer's calls (VALIDATION.md
\* 52-64), whatever earlier runs left behind.
FreshE2E ==
    ~ Together =>
        \A r \in Runs : Script[r] = LiveE2E /\ report[r] # NoEvidence =>
            /\ report[r].source = fresh[r] /\ fresh[r] # 0
            /\ {report[r].ingested, report[r].approval, report[r].executed} = {fresh[r]}
            /\ report[r].signer

\* One terminal at a time: no tool but publish removes an execution result from the artifact.
ExecutionKept ==
    [][~ Together /\ artifact.executed # 0 =>
          artifact'.executed = artifact.executed \/ artifact'.source # artifact.source]_pipelineVars

\* The most awaits a tool can still come to, from the label and with the locals it has: a tool
\* that sends writes its files twice, and the second time is told by the result it has.
StagesFrom(label, l) ==
    CASE label = "start"                                     -> 11
      [] label = "preflight"                                 -> 10
      [] label = "save" /\ l.file.checked # "signed"         -> 9
      [] label = "evidence" /\ l.file.checked # "signed"     -> 8
      [] label = "pending"                                   -> 7
      [] label = "guard"                                     -> 6
      [] label = "source"                                    -> 6
      [] label \in {"execution", "ingested"}                 -> 5
      [] label \in {"predict", "receipt", "executed"}        -> 4
      [] label \in {"mine", "proof", "landed"}               -> 3
      [] label \in {"compare", "submit", "latest"}           -> 2
      [] label = "save" /\ l.file.checked = "signed"         -> 2
      [] label \in {"readback", "signature", "counted"}      -> 1
      [] label = "evidence" /\ l.file.checked = "signed"     -> 1

\* The most steps a run can still take.
StepsFrom(r, label, s, l) ==
    CASE label = "idle"                -> 11 * Len(Script[r]) + 1
      [] label \in {"done", "stopped"} -> 0
      [] OTHER                         -> 11 * (Len(Script[r]) - s) + StagesFrom(label, l)

StepsLeft(r) == StepsFrom(r, pc[r], step[r], local[r])

\* No tool goes back to what it has done: whatever happens on the chains, and whatever other
\* tools write into the files, a run waits where it is or comes nearer to its end.  A tool that
\* sends does so once, though it passes twice through persistLiveEvidence.
RunsGoForward ==
    [][\A r \in Runs :
          StepsLeft(r)' < StepsLeft(r) \/ UNCHANGED <<pc[r], step[r], local[r]>>]_pipelineVars

-----------------------------------------------------------------------------
(* Refinement                                                               *)

AsPublication(id) == [slot |-> id, block |-> published[id].block]

Finalized == {id \in Id : Provable(id)}

Ledger == INSTANCE AuthorizationLedger WITH
    final    <- {AsPublication(id) : id \in Finalized},
    recorded <- {AsPublication(id) : id \in recorded},
    expired  <- {AsPublication(id) : id \in Finalized \cap expired}

\* What the tools see of the two chains is what the contracts promise: a tool that waits for a
\* proof, or comes late with one, records nothing but a final publication that is still valid,
\* and in no block but the one it stays in.
PipelineKeepsLedger == Ledger!LedgerSpec

-----------------------------------------------------------------------------
(* The inductive invariants                                                 *)

ChainsOK ==
    /\ \A k, l \in Id : k < l => published[k].block < published[l].block
    /\ executed \subseteq recorded
    /\ \A id \in recorded : Provable(id)

IngestOK(id, block) == id \in recorded /\ published[id].block = block

\* What any artifact, in the file or in the memory of a tool, is known to say.
ArtifactOK(a) ==
    /\ OfOneAuthorization(a)
    /\ a.source \in Id \cup {0} /\ (a.source = 0 => a = NoArtifact)
    /\ a.ingested # 0 => IngestOK(a.ingested, a.proofBlock)
    /\ a.checked # "no" => a.source \in recorded
    /\ a.checked = "signed" => a.executed = a.source
    /\ a.executed # 0 => a.checked # "no"

EvidenceOK(e) ==
    e # NoEvidence =>
        /\ OfOneAuthorization(e) /\ e.source \in recorded
        /\ IngestOK(e.ingested, e.proofBlock) /\ e.proofBlock = e.block
        /\ e.signer => e.executed = e.source

\* What the locals l of a run at label x are known to say.
LocalsAtLabel(x, l) ==
    LET a == l.file
    IN  /\ x \in {"receipt", "proof", "submit", "readback"} => l.id \in Id
        /\ x \in {"submit", "readback"} => Provable(l.id) /\ published[l.id].block = l.block
        /\ x = "readback" => l.id \in recorded
        /\ x = "compare" => l.mined \in Id
        /\ x \in {"signature", "preflight"} => a.source # 0
        /\ x \in {"save", "evidence", "pending", "guard", "execution"} =>
              a.source # 0 /\ a.checked # "no"
        /\ x \in {"source", "ingested", "executed", "landed", "latest", "counted"} =>
              a.source # 0
        /\ x \in {"executed", "landed", "latest", "counted"} =>
              a.ingested = a.source /\ Buildable(a) /\ l.seen = Build(a)
        /\ x \in {"executed", "landed"} => a.executed # 0

LocalsOK(x, l) == ArtifactOK(l.file) /\ EvidenceOK(l.seen) /\ LocalsAtLabel(x, l)

PipelineInv ==
    /\ PipelineTypeOK
    /\ ChainsOK
    /\ ArtifactOK(artifact) /\ EvidenceOK(evidence)
    /\ \A r \in Runs : LocalsOK(pc[r], local[r])

\* Of one terminal: the file in memory is the one on disk, or becomes it.
FileAtLabel(x, l) ==
    LET a == l.file
    IN  /\ x \in {"receipt", "proof", "submit", "readback", "signature", "preflight",
                  "evidence", "pending", "guard", "execution",
                  "source", "ingested", "executed", "landed", "latest", "counted"} => a = artifact
        /\ x = "save" => a \in {Preflighted(artifact), WithExecution(artifact)}
        /\ x = "compare" => l.mined > artifact.source

\* What the tools of live-e2e have achieved when the step of run r is reached.
E2EAtStep(r) ==
    /\ step[r] > 1 => fresh[r] # 0 /\ artifact.source = fresh[r]
    /\ step[r] > 2 => artifact.ingested # 0
    /\ step[r] > 3 => artifact.approval = fresh[r]
    /\ step[r] > 4 => artifact.checked = "signed" /\ evidence = Build(artifact)
    /\ step[r] > 5 => artifact.ingested = fresh[r]

E2EReported(r) ==
    /\ step[r] = Len(LiveE2E)
    /\ report[r].source = fresh[r] /\ fresh[r] # 0
    /\ {report[r].ingested, report[r].approval, report[r].executed} = {fresh[r]}
    /\ report[r].signer

SequentialInv ==
    ~ Together =>
        /\ \A r, q \in Runs : Running(r) /\ Running(q) => r = q
        /\ \A r \in Runs : Running(r) => FileAtLabel(pc[r], local[r])
        /\ \A r \in Runs : Script[r] = LiveE2E =>
              /\ Running(r) => E2EAtStep(r)
              /\ report[r] # NoEvidence => E2EReported(r)
              /\ pc[r] = "idle" => step[r] = 1

=============================================================================
