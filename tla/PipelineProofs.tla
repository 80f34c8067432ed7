--------------------------- MODULE PipelineProofs ---------------------------
(***************************************************************************)
(* PipelineInv is inductive, with any number of tools running at the same  *)
(* time, and what follows from it: the sections of the artifact agree, the *)
(* evidence is backed by the registry, what is verified is true.           *)
(* SequentialInv is inductive with it when one terminal is used at a time: *)
(* then live-e2e reports what it did itself, and results are kept.         *)
(***************************************************************************)
EXTENDS LivePipeline, SequenceTheorems, TLAPS

USE PipelineAssumption

\* Chains may grow, and may move what is not attested, but what is attested or recorded stays.
ChainsGrow ==
    /\ published' \in Seq([nonce: Nat, block: Nat])
    /\ count' \in Nat /\ final' \in Nat
    /\ (executed \cup recorded \cup expired \subseteq Id)'
    /\ ChainsOK'
    /\ Len(published) <= Len(published')
    /\ recorded \subseteq recorded'
    /\ \A id \in Id : Provable(id) => Provable(id)' /\ published'[id].block = published[id].block

\* Every tool has the label it starts with.
LEMMA StartIsLabel ==
    \A t \in Tools : "start" \in Labels[t]
BY DEF Tools, Labels

\* The tool of a run's current step.
LEMMA ToolIsTool ==
    ASSUME PipelineTypeOK, NEW r \in Runs
    PROVE  /\ step[r] \in 1..Len(Script[r]) /\ Script[r] \in Seq(Tools)
           /\ Tool(r) \in Tools
BY DEF PipelineTypeOK, Tool

\* Publications have blocks.
LEMMA Published ==
    ASSUME PipelineTypeOK, NEW id \in Id
    PROVE  /\ id \in Nat /\ published[id] \in [nonce: Nat, block: Nat]
           /\ published[id].nonce \in Nat /\ published[id].block \in Nat
<1>1. published \in Seq([nonce: Nat, block: Nat])
  BY DEF PipelineTypeOK
<1>2. id \in Nat /\ id \in 1..Len(published)
  BY <1>1 DEF Id
<1>3. published[id] \in [nonce: Nat, block: Nat]
  BY <1>1, <1>2, ElementOfSeq
<1> QED BY <1>2, <1>3

\* A record that a transaction made stays, and so does its block.
LEMMA IngestKept ==
    ASSUME PipelineTypeOK, ChainsOK, ChainsGrow
    PROVE  \A id, b : IngestOK(id, b) => IngestOK(id, b)'
BY DEF ChainsOK, ChainsGrow, IngestOK, PipelineTypeOK, Id

\* What an artifact says stays known.
LEMMA ArtifactKept ==
    ASSUME PipelineTypeOK, ChainsOK, ChainsGrow
    PROVE  \A a \in Artifacts : ArtifactOK(a) => ArtifactOK(a)'
<1> SUFFICES ASSUME NEW a \in Artifacts, ArtifactOK(a)
             PROVE  ArtifactOK(a)'
  OBVIOUS
<1>1. a.ingested # 0 => IngestOK(a.ingested, a.proofBlock)'
  BY IngestKept DEF ArtifactOK
<1>2. a.source \in Id' \cup {0}
  BY DEF ArtifactOK, ChainsGrow, PipelineTypeOK, Id
<1> QED BY <1>1, <1>2 DEF ArtifactOK, OfOneAuthorization, ChainsGrow

\* What evidence says stays known.
LEMMA EvidenceKept ==
    ASSUME PipelineTypeOK, ChainsOK, ChainsGrow
    PROVE  \A e \in Evidence : EvidenceOK(e) => EvidenceOK(e)'
<1> SUFFICES ASSUME NEW e \in Evidence, EvidenceOK(e)
             PROVE  EvidenceOK(e)'
  OBVIOUS
<1>1. e # NoEvidence => IngestOK(e.ingested, e.proofBlock)'
  BY IngestKept DEF EvidenceOK
<1> QED BY <1>1 DEF EvidenceOK, OfOneAuthorization, ChainsGrow

\* What a tool knows stays known while it waits.
LEMMA LocalsKept ==
    ASSUME PipelineTypeOK, ChainsOK, ChainsGrow
    PROVE  \A x, l : l \in Locals /\ LocalsOK(x, l) => LocalsOK(x, l)'
<1> SUFFICES ASSUME NEW x, NEW l \in Locals, LocalsOK(x, l)
             PROVE  LocalsOK(x, l)'
  OBVIOUS
<1>1. l.file \in Artifacts /\ l.seen \in Evidence
  BY DEF Locals
<1>2. ArtifactOK(l.file)' /\ EvidenceOK(l.seen)'
  BY <1>1, ArtifactKept, EvidenceKept DEF LocalsOK
<1>3. \A id \in Id : id \in Id'
  BY DEF ChainsGrow, PipelineTypeOK, Id
<1>4. LocalsAtLabel(x, l)
  BY DEF LocalsOK
<1>5. x \in {"submit", "readback"} => Provable(l.id)' /\ published'[l.id].block = l.block
  BY <1>4 DEF LocalsAtLabel, ChainsGrow, Provable
<1>6. LocalsAtLabel(x, l)'
  BY <1>3, <1>4, <1>5 DEF LocalsAtLabel, ChainsGrow
<1> QED BY <1>2, <1>6 DEF LocalsOK

-----------------------------------------------------------------------------
(* Steps                                                                    *)

\* The chains go on and no tool does.
LEMMA WorldStep ==
    ASSUME PipelineInv, ChainsGrow, UNCHANGED <<files, pc, step, local, told>>
    PROVE  PipelineInv'
<1>1. PipelineTypeOK'
  BY DEF PipelineInv, PipelineTypeOK, ChainsGrow, files, told, Tool
<1>2. ArtifactOK(artifact)'
  <2>1. artifact \in Artifacts /\ ArtifactOK(artifact) /\ artifact' = artifact
    BY DEF PipelineInv, PipelineTypeOK, files
  <2> QED BY <2>1, ArtifactKept DEF PipelineInv, ArtifactOK
<1>3. EvidenceOK(evidence)'
  <2>1. evidence \in Evidence /\ EvidenceOK(evidence) /\ evidence' = evidence
    BY DEF PipelineInv, PipelineTypeOK, files
  <2> QED BY <2>1, EvidenceKept DEF PipelineInv, EvidenceOK
<1>4. ASSUME NEW r \in Runs PROVE LocalsOK(pc[r], local[r])'
  <2>1. local[r] \in Locals /\ LocalsOK(pc[r], local[r])
    BY DEF PipelineInv, PipelineTypeOK
  <2>2. local'[r] = local[r] /\ pc'[r] = pc[r]
    OBVIOUS
  <2> QED BY <2>1, <2>2, LocalsKept DEF PipelineInv
<1> QED BY <1>1, <1>2, <1>3, <1>4 DEF PipelineInv, ChainsGrow

\* Run r goes on at label x with locals l, having written files; the chains may have grown.
LEMMA RunStep ==
    ASSUME PipelineInv, ChainsGrow, NEW r \in Runs,
           NEW s \in 1..Len(Script[r]), NEW x, NEW l \in Locals,
           x \in {"idle", "done", "stopped"} \cup Labels[Script[r][s]],
           pc' = [pc EXCEPT ![r] = x], step' = [step EXCEPT ![r] = s],
           local' = [local EXCEPT ![r] = l],
           LocalsOK(x, l)',
           artifact' \in Artifacts, ArtifactOK(artifact)',
           evidence' \in Evidence, EvidenceOK(evidence)',
           fresh' \in [Runs -> Nat], report' \in [Runs -> Evidence]
    PROVE  PipelineInv'
<1>1. \A q \in Runs : q # r => pc'[q] = pc[q] /\ step'[q] = step[q] /\ local'[q] = local[q]
  BY DEF PipelineInv, PipelineTypeOK
<1>2. pc'[r] = x /\ step'[r] = s /\ local'[r] = l
  BY DEF PipelineInv, PipelineTypeOK
<1>3. PipelineTypeOK'
  <2>1. step' \in [Runs -> Nat \ {0}] /\ local' \in [Runs -> Locals]
    BY DEF PipelineInv, PipelineTypeOK
  <2>2. pc' \in [Runs -> {"idle", "done", "stopped"} \cup UNION {Labels[t] : t \in Tools}]
    <3>1. Script[r][s] \in Tools
      OBVIOUS
    <3>2. x \in {"idle", "done", "stopped"} \cup UNION {Labels[t] : t \in Tools}
      BY <3>1
    <3> QED BY <3>2 DEF PipelineInv, PipelineTypeOK
  <2>3. ASSUME NEW q \in Runs
        PROVE  /\ step'[q] <= Len(Script[q])
               /\ pc'[q] \in {"idle", "done", "stopped"} \cup Labels[Tool(q)']
    BY <1>1, <1>2 DEF PipelineInv, PipelineTypeOK, Tool
  <2> QED BY <2>1, <2>2, <2>3 DEF PipelineTypeOK, ChainsGrow
<1>4. ASSUME NEW q \in Runs PROVE LocalsOK(pc[q], local[q])'
  <2>1. CASE q = r
    BY <1>2, <2>1
  <2>2. CASE q # r
    <3>1. local[q] \in Locals /\ LocalsOK(pc[q], local[q])
      BY DEF PipelineInv, PipelineTypeOK
    <3> QED BY <1>1, <2>2, <3>1, LocalsKept DEF PipelineInv
  <2> QED BY <2>1, <2>2
<1> QED BY <1>3, <1>4 DEF PipelineInv, ChainsGrow

\* Chains that stay as they are have grown.
LEMMA ChainsStay ==
    ASSUME PipelineInv, UNCHANGED chains
    PROVE  ChainsGrow /\ Id' = Id
<1>1. /\ published' = published /\ count' = count /\ final' = final
      /\ executed' = executed /\ recorded' = recorded /\ expired' = expired
  BY DEF chains
<1>2. Id' = Id /\ ChainsOK'
  BY <1>1 DEF Id, PipelineInv, ChainsOK, Provable
<1>3. /\ published \in Seq([nonce: Nat, block: Nat]) /\ Len(published) \in Nat
      /\ count \in Nat /\ final \in Nat /\ executed \cup recorded \cup expired \subseteq Id
  BY DEF PipelineInv, PipelineTypeOK
<1> QED BY <1>1, <1>2, <1>3 DEF ChainsGrow, Provable

\* Run r waits for the next answer and writes no file.
LEMMA WaitStep ==
    ASSUME PipelineInv, ChainsGrow, NEW r \in Runs, NEW x, NEW l \in Locals,
           x \in {"stopped"} \cup Labels[Tool(r)], Wait(r, x, l), LocalsOK(x, l)',
           UNCHANGED <<files, told>>
    PROVE  PipelineInv'
<1>1. step[r] \in 1..Len(Script[r]) /\ step' = [step EXCEPT ![r] = step[r]]
  BY ToolIsTool DEF PipelineInv, PipelineTypeOK, Wait
<1>2. artifact' \in Artifacts /\ ArtifactOK(artifact)'
  <2>1. artifact \in Artifacts /\ ArtifactOK(artifact) /\ artifact' = artifact
    BY DEF PipelineInv, PipelineTypeOK, files
  <2> QED BY <2>1, ArtifactKept DEF PipelineInv, ArtifactOK
<1>3. evidence' \in Evidence /\ EvidenceOK(evidence)'
  <2>1. evidence \in Evidence /\ EvidenceOK(evidence) /\ evidence' = evidence
    BY DEF PipelineInv, PipelineTypeOK, files
  <2> QED BY <2>1, EvidenceKept DEF PipelineInv, EvidenceOK
<1>4. fresh' \in [Runs -> Nat] /\ report' \in [Runs -> Evidence]
  BY DEF PipelineInv, PipelineTypeOK, told
<1> QED BY <1>1, <1>2, <1>3, <1>4, RunStep DEF Wait, Tool

\* A tool that has not read anything knows nothing wrong.
LEMMA BlankOK ==
    ASSUME PipelineTypeOK
    PROVE  /\ Blank \in Locals
           /\ \A x \in {"start", "done", "stopped"} : LocalsOK(x, Blank)
BY DEF Blank, Locals, NoArtifact, NoEvidence, Artifacts, Evidence, LocalsOK, LocalsAtLabel,
       ArtifactOK, EvidenceOK, OfOneAuthorization

\* Run r ends a tool well, having written files.
LEMMA FinishStep ==
    ASSUME PipelineInv, UNCHANGED chains, NEW r \in Runs, Finish(r),
           artifact' \in Artifacts, ArtifactOK(artifact)',
           evidence' \in Evidence, EvidenceOK(evidence)',
           fresh' \in [Runs -> Nat], report' \in [Runs -> Evidence]
    PROVE  PipelineInv'
<1>1. ChainsGrow
  BY ChainsStay
<1>2. Blank \in Locals /\ \A x \in {"start", "done", "stopped"} : LocalsOK(x, Blank)'
  <2>1. \A x \in {"start", "done", "stopped"} : LocalsOK(x, Blank)
    BY BlankOK DEF PipelineInv
  <2> QED BY <1>1, <2>1, BlankOK, LocalsKept DEF PipelineInv
<1>3. step[r] \in 1..Len(Script[r]) /\ Script[r] \in Seq(Tools)
  BY ToolIsTool DEF PipelineInv
<1>4. CASE step[r] < Len(Script[r])
  <2>1. step[r] + 1 \in 1..Len(Script[r])
    BY <1>3, <1>4
  <2>2. "start" \in Labels[Script[r][step[r] + 1]]
    BY <1>3, <2>1, StartIsLabel
  <2>3. step' = [step EXCEPT ![r] = step[r] + 1] /\ pc' = [pc EXCEPT ![r] = "start"]
    BY <1>4 DEF Finish
  <2> QED BY <1>1, <1>2, <2>1, <2>2, <2>3, RunStep DEF Finish
<1>5. CASE step[r] = Len(Script[r])
  <2>1. step' = [step EXCEPT ![r] = step[r]] /\ pc' = [pc EXCEPT ![r] = "done"]
    BY <1>3, <1>5 DEF Finish, PipelineInv, PipelineTypeOK
  <2> QED BY <1>1, <1>2, <1>3, <2>1, RunStep DEF Finish
<1> QED BY <1>3, <1>4, <1>5

-----------------------------------------------------------------------------
(* The world                                                                *)

\* Attestation, expiry, and what the account does elsewhere.
LEMMA WorldKeepsInv ==
    ASSUME PipelineInv, World
    PROVE  PipelineInv'
<1>1. UNCHANGED <<files, pc, step, local, told>>
  BY DEF World
<1>2. /\ published \in Seq([nonce: Nat, block: Nat]) /\ Len(published) \in Nat
      /\ count \in Nat /\ final \in Nat
      /\ executed \subseteq Id /\ recorded \subseteq Id /\ expired \subseteq Id
  BY DEF PipelineInv, PipelineTypeOK
<1>3. CASE Remine
  <2>1. PICK id \in Id : /\ ~ Provable(id)
                         /\ \E b \in BlocksFor(id) :
                               published' = [published EXCEPT ![id].block = b]
    BY <1>3 DEF Remine
  <2>2. PICK b \in BlocksFor(id) : published' = [published EXCEPT ![id].block = b]
    BY <2>1
  <2>3. /\ b \in Nat /\ b > final
        /\ \A k \in Id : k < id => published[k].block < b
        /\ \A k \in Id : k > id => published[k].block > b
    BY <1>2, <2>2 DEF BlocksFor, PipelineAssumption
  <2>4. published[id] \in [nonce: Nat, block: Nat] /\ id \in 1..Len(published)
    BY Published DEF PipelineInv, Id
  <2>5. published' \in Seq([nonce: Nat, block: Nat]) /\ Len(published') = Len(published)
    <3> DEFINE p == [published[id] EXCEPT !.block = b]
    <3>1. p \in [nonce: Nat, block: Nat] /\ published' = [published EXCEPT ![id] = p]
      BY <2>2, <2>3, <2>4
    <3> HIDE DEF p
    <3> QED BY <1>2, <2>4, <3>1, ExceptSeq
  <2>6. Id' = Id
    BY <2>5 DEF Id
  <2>7. published'[id].block = b /\ \A k \in Id : k # id => published'[k] = published[k]
    BY <1>2, <2>2, <2>3, <2>4 DEF Id
  <2>8. /\ count' = count /\ executed' = executed /\ final' = final
        /\ recorded' = recorded /\ expired' = expired
    BY <1>3 DEF Remine
  <2>9. \A k \in Id : Provable(k) => Provable(k)' /\ published'[k].block = published[k].block
    BY <2>1, <2>6, <2>7, <2>8 DEF Provable
  <2>10. \A k, l \in Id : k < l => published'[k].block < published'[l].block
    <3> SUFFICES ASSUME NEW k \in Id, NEW l \in Id, k < l
                 PROVE  published'[k].block < published'[l].block
      OBVIOUS
    <3>1. published[k].block < published[l].block /\ k # l
      BY <1>2 DEF PipelineInv, ChainsOK, Id
    <3> QED BY <2>3, <2>7, <3>1
  <2>11. ChainsOK'
    BY <1>2, <2>6, <2>8, <2>9, <2>10 DEF ChainsOK, PipelineInv
  <2> QED BY <1>1, <1>2, <2>5, <2>6, <2>8, <2>9, <2>11, WorldStep DEF ChainsGrow
<1>4. CASE Attest \/ Expire \/ RecordedByOther \/ ForeignSend \/ DropExecution
  <2>1. published' = published /\ Id' = Id
    BY <1>4 DEF Attest, Expire, RecordedByOther, ForeignSend, DropExecution, Id
  <2>2. /\ count' \in Nat /\ final' \in Nat /\ final <= final'
        /\ executed' \subseteq executed
        /\ recorded \subseteq recorded' /\ recorded' \subseteq Id
        /\ expired' \subseteq Id
        /\ \A id \in recorded' : id \in recorded \/ Provable(id)
    <3>1. CASE Attest
      BY <1>2, <3>1 DEF Attest
    <3>2. CASE Expire
      BY <1>2, <3>2 DEF Expire
    <3>3. CASE RecordedByOther
      BY <1>2, <3>3 DEF RecordedByOther
    <3>4. CASE ForeignSend
      BY <1>2, <3>4 DEF ForeignSend
    <3>5. CASE DropExecution
      <4>1. PICK id \in executed : published[id].nonce + 1 = count /\ executed' = executed \ {id}
        BY <3>5 DEF DropExecution
      <4>2. published[id].nonce \in Nat
        BY <1>2, Published DEF PipelineInv
      <4> QED BY <1>2, <3>5, <4>1, <4>2 DEF DropExecution
    <3> QED BY <1>4, <3>1, <3>2, <3>3, <3>4, <3>5
  <2>3. \A k \in Id : Provable(k) => Provable(k)' /\ published'[k].block = published[k].block
    <3> SUFFICES ASSUME NEW k \in Id, published[k].block <= final
                 PROVE  published[k].block <= final'
      BY <2>1 DEF Provable
    <3>1. published[k].block \in Nat
      BY Published DEF PipelineInv
    <3> QED BY <1>2, <2>2, <3>1
  <2>4. ChainsOK'
    BY <1>2, <2>1, <2>2, <2>3 DEF ChainsOK, PipelineInv
  <2> QED BY <1>1, <1>2, <2>1, <2>2, <2>3, <2>4, WorldStep DEF ChainsGrow
<1> QED BY <1>3, <1>4 DEF World

-----------------------------------------------------------------------------
(* The tools                                                                *)

\* What a run starts an action from.
LEMMA Known ==
    ASSUME PipelineInv, NEW r \in Runs
    PROVE  /\ local[r] \in Locals
           /\ ArtifactOK(local[r].file) /\ EvidenceOK(local[r].seen)
           /\ LocalsAtLabel(pc[r], local[r])
           /\ local[r].file \in Artifacts /\ local[r].seen \in Evidence
           /\ artifact \in Artifacts /\ ArtifactOK(artifact)
           /\ evidence \in Evidence /\ EvidenceOK(evidence)
           /\ fresh \in [Runs -> Nat] /\ report \in [Runs -> Evidence]
           /\ published \in Seq([nonce: Nat, block: Nat]) /\ Len(published) \in Nat
           /\ count \in Nat /\ final \in Nat
           /\ executed \subseteq Id /\ recorded \subseteq Id /\ expired \subseteq Id
           /\ Id \subseteq Nat /\ \A id \in Id : published[id] \in [nonce: Nat, block: Nat]
<1>1. local[r] \in Locals
  BY DEF PipelineInv, PipelineTypeOK
<1>2. Id \subseteq Nat /\ \A id \in Id : published[id] \in [nonce: Nat, block: Nat]
  BY Published DEF PipelineInv
<1> QED BY <1>1, <1>2 DEF PipelineInv, PipelineTypeOK, LocalsOK, Locals

\* An action that only takes note of an answer.
LEMMA QuietStep ==
    ASSUME PipelineInv, UNCHANGED <<chains, files, told>>, NEW r \in Runs,
           NEW x, NEW l \in Locals,
           x \in {"stopped"} \cup Labels[Tool(r)], Wait(r, x, l), LocalsOK(x, l)
    PROVE  PipelineInv'
<1>1. UNCHANGED chains
  OBVIOUS
<1>2. ChainsGrow
  BY <1>1, ChainsStay
<1>3. LocalsOK(x, l)'
  BY <1>2, LocalsKept DEF PipelineInv
<1>4. UNCHANGED <<files, told>>
  OBVIOUS
<1> QED BY <1>2, <1>3, <1>4, WaitStep

\* A run begins, or stops.
LEMMA BeginStopKeepInv ==
    ASSUME PipelineInv, NEW r \in Runs, Begin(r) \/ Stop(r)
    PROVE  PipelineInv'
<1>1. CASE Begin(r)
  <2>1. LocalsOK("start", local[r])
    BY Known DEF LocalsOK, LocalsAtLabel
  <2>2. "start" \in Labels[Tool(r)]
    BY ToolIsTool, StartIsLabel DEF PipelineInv
  <2> QED BY <1>1, <2>1, <2>2, Known, QuietStep DEF Begin
<1>2. CASE Stop(r)
  <2>1. Blank \in Locals /\ LocalsOK("stopped", Blank)
    BY BlankOK DEF PipelineInv
  <2> QED BY <1>2, <2>1, QuietStep DEF Stop
<1> QED BY <1>1, <1>2

\* A publication in a block after all others.
LEMMA PublicationGrows ==
    ASSUME PipelineInv, NEW p \in [nonce: Nat, block: Nat], p.block > final,
           \A k \in Id : published[k].block < p.block,
           published' = Append(published, p), count' \in Nat,
           UNCHANGED <<executed, final, recorded, expired>>
    PROVE  ChainsGrow /\ Len(published) + 1 \in Id'
<1>0. /\ published \in Seq([nonce: Nat, block: Nat]) /\ Len(published) \in Nat /\ final \in Nat
      /\ executed \cup recorded \cup expired \subseteq Id
  BY DEF PipelineInv, PipelineTypeOK
<1>1. /\ published' \in Seq([nonce: Nat, block: Nat])
      /\ Len(published') = Len(published) + 1
      /\ \A k \in Id : published'[k] = published[k]
      /\ published'[Len(published) + 1] = p
  BY <1>0, AppendProperties DEF Id
<1>2. Id' = Id \cup {Len(published) + 1} /\ Len(published) + 1 \notin Id
  BY <1>0, <1>1 DEF Id
<1>3. \A k \in Id : Provable(k) => Provable(k)' /\ published'[k].block = published[k].block
  BY <1>1, <1>2 DEF Provable
<1>4. ASSUME NEW j \in Id', NEW k \in Id', j < k
      PROVE  published'[j].block < published'[k].block
  <2>1. j \in Id
    <3>1. j \in 1..Len(published) + 1 /\ k \in 1..Len(published) + 1
      BY <1>1 DEF Id
    <3> QED BY <1>0, <1>4, <3>1 DEF Id
  <2>2. CASE k \in Id
    BY <1>1, <1>4, <2>1, <2>2 DEF PipelineInv, ChainsOK
  <2>3. CASE k = Len(published) + 1
    BY <1>1, <2>1, <2>3
  <2> QED BY <1>2, <2>2, <2>3
<1>5. ChainsOK'
  <2>1. executed \subseteq recorded /\ \A id \in recorded : Provable(id)
    BY DEF PipelineInv, ChainsOK
  <2> QED BY <1>0, <1>3, <1>4, <2>1 DEF ChainsOK
<1>6. (executed \cup recorded \cup expired \subseteq Id)'
  BY <1>0, <1>2
<1>7. final' \in Nat /\ Len(published) <= Len(published') /\ recorded \subseteq recorded'
  BY <1>0, <1>1
<1> QED BY <1>1, <1>2, <1>3, <1>5, <1>6, <1>7 DEF ChainsGrow

\* publish-demo-authorization writes an artifact of what it published.
LEMMA PublishKeepsInv ==
    ASSUME PipelineInv, NEW r \in Runs,
           PublishCount(r) \/ PublishPredict(r) \/ PublishMined(r) \/ PublishWrite(r)
    PROVE  PipelineInv'
<1> DEFINE l == local[r]
<1>l. /\ l \in Locals /\ LocalsOK("start", l)
      /\ count \in Nat /\ Len(published) \in Nat
  BY Known DEF LocalsOK, LocalsAtLabel
<1>1. CASE PublishCount(r)
  <2> DEFINE m == [l EXCEPT !.count = count]
  <2>1. m \in Locals /\ LocalsOK("predict", m)
    BY <1>l DEF Locals, LocalsOK, LocalsAtLabel
  <2>2. "predict" \in Labels[Tool(r)] /\ Wait(r, "predict", m)
    BY <1>1 DEF PublishCount, At, Labels
  <2> HIDE DEF m
  <2> QED BY <1>1, <2>1, <2>2, QuietStep DEF PublishCount
<1>2. CASE PublishPredict(r)
  <2>0. PICK n \in Nat : n = Len(published) + 1
    BY <1>l
  <2> DEFINE m == [l EXCEPT !.id = n]
  <2>1. m \in Locals /\ LocalsOK("mine", m)
    BY <1>l DEF Locals, LocalsOK, LocalsAtLabel
  <2>2. "mine" \in Labels[Tool(r)] /\ Wait(r, "mine", m)
    BY <1>2, <2>0 DEF PublishPredict, At, Labels
  <2> HIDE DEF m
  <2> QED BY <1>2, <2>1, <2>2, QuietStep DEF PublishPredict
<1>3. CASE PublishMined(r)
  <2>0. PICK n \in Nat : n = Len(published) + 1
    BY <1>l
  <2>1. PICK b \in BlocksFor(n) :
            /\ Publish(ExecutionNonce(l.count), b)
            /\ Wait(r, "compare", [l EXCEPT !.mined = n, !.block = b])
    BY <1>3, <2>0 DEF PublishMined
  <2>2. /\ b \in Nat /\ b > final
        /\ \A k \in Id : published[k].block < b
    BY <1>l, <2>0, Known DEF BlocksFor, PipelineAssumption, Id
  <2>3. PICK m \in Locals : m = [l EXCEPT !.mined = n, !.block = b]
    BY <1>l, <2>2 DEF Locals
  <2>4. PICK p \in [nonce: Nat, block: Nat] : p = [nonce |-> ExecutionNonce(l.count), block |-> b]
    <3>1. ExecutionNonce(l.count) \in Nat
      BY <1>l DEF ExecutionNonce, Locals
    <3> QED BY <2>2, <3>1
  <2>5. UNCHANGED <<executed, final, recorded, expired, files, told>> /\ At(r, {"publish"}, "mine")
    BY <1>3 DEF PublishMined
  <2>6. ChainsGrow /\ n \in Id'
    <3>1. published' = Append(published, p) /\ count' \in Nat
      BY <1>l, <2>1, <2>4 DEF Publish
    <3>2. p.block = b
      BY <2>4
    <3> QED BY <2>0, <2>2, <2>5, <3>1, <3>2, PublicationGrows
  <2>7. LocalsOK("compare", m)'
    <3>1. LocalsOK("start", m) /\ m.mined = n
      BY <1>l, <2>3 DEF Locals, LocalsOK, LocalsAtLabel
    <3>2. LocalsOK("start", m)'
      BY <2>6, <3>1, LocalsKept DEF PipelineInv
    <3> QED BY <2>6, <3>1, <3>2 DEF LocalsOK, LocalsAtLabel
  <2>8. "compare" \in Labels[Tool(r)]
    BY <2>5 DEF At, Labels
  <2>9. Wait(r, "compare", m)
    BY <2>1, <2>3
  <2>10. UNCHANGED <<files, told>>
    BY <2>5
  <2> QED BY <2>6, <2>7, <2>8, <2>9, <2>10, WaitStep
<1>4. CASE PublishWrite(r)
  <2>1. /\ UNCHANGED chains /\ evidence' = evidence /\ report' = report /\ Finish(r)
        /\ artifact' = PublishedArtifact(l.mined, l.block)
        /\ fresh' = [fresh EXCEPT ![r] = l.mined]
    BY <1>4 DEF PublishWrite
  <2>2. l.mined \in Id /\ l.mined \in Nat \ {0} /\ l.block \in Nat
    BY <1>4, Known DEF PublishWrite, At, LocalsAtLabel, Locals, Id
  <2>3. ChainsGrow /\ Id' = Id
    BY <2>1, ChainsStay
  <2>4. artifact' \in Artifacts /\ ArtifactOK(artifact)'
    BY <2>1, <2>2, <2>3
       DEF PublishedArtifact, NoArtifact, Artifacts, ArtifactOK, OfOneAuthorization
  <2>5. EvidenceOK(evidence)'
    BY <2>1, <2>3, Known, EvidenceKept DEF PipelineInv
  <2> QED BY <2>1, <2>2, <2>4, <2>5, Known, FinishStep
<1> QED BY <1>1, <1>2, <1>3, <1>4

\* What a tool writes is as good as what it wrote it from.
LEMMA Written ==
    ASSUME PipelineInv, UNCHANGED chains
    PROVE  /\ \A a \in Artifacts : ArtifactOK(a) /\ artifact' = a =>
                  artifact' \in Artifacts /\ ArtifactOK(artifact)'
           /\ \A e \in Evidence : EvidenceOK(e) /\ evidence' = e =>
                  evidence' \in Evidence /\ EvidenceOK(evidence)'
BY ChainsStay, ArtifactKept, EvidenceKept DEF PipelineInv

\* attestcoin-semantic notes what it proved and recorded.
LEMMA IngestKeepsInv ==
    ASSUME PipelineInv, NEW r \in Runs,
           \/ IngestRead(r) \/ IngestReceipt(r) \/ IngestProof(r) \/ IngestSubmit(r)
           \/ IngestWrite(r)
    PROVE  PipelineInv'
<1> DEFINE l == local[r]
<1>l. /\ l \in Locals /\ ArtifactOK(l.file) /\ EvidenceOK(l.seen) /\ LocalsAtLabel(pc[r], l)
      /\ l.file \in Artifacts /\ artifact \in Artifacts /\ ArtifactOK(artifact)
  BY Known
<1>1. CASE IngestRead(r)
  <2>1. /\ At(r, {"ingest"}, "start") /\ UNCHANGED <<chains, files, told>>
        /\ \E id \in Id \cup ({artifact.source} \ {0}) :
              Wait(r, "receipt", [l EXCEPT !.file = artifact, !.id = id])
    BY <1>1 DEF IngestRead
  <2>2. PICK id \in Id : Wait(r, "receipt", [l EXCEPT !.file = artifact, !.id = id])
    BY <1>l, <2>1 DEF ArtifactOK
  <2>3. id \in Nat
    BY Known
  <2>4. PICK m \in Locals : m = [l EXCEPT !.file = artifact, !.id = id]
    BY <1>l, <2>3 DEF Locals
  <2>5. LocalsOK("receipt", m)
    BY <1>l, <2>4 DEF Locals, LocalsOK, LocalsAtLabel
  <2>6. "receipt" \in Labels[Tool(r)]
    BY <2>1 DEF At, Labels
  <2> QED BY <2>1, <2>2, <2>4, <2>5, <2>6, QuietStep
<1>2. CASE IngestReceipt(r)
  <2>1. /\ At(r, {"ingest"}, "receipt") /\ UNCHANGED <<chains, files, told>>
        /\ Wait(r, "proof", [l EXCEPT !.block = published[l.id].block])
    BY <1>2 DEF IngestReceipt
  <2>2. l.id \in Id
    BY <1>l, <2>1 DEF At, LocalsAtLabel
  <2>3. published[l.id].block \in Nat
    BY <2>2, Published DEF PipelineInv
  <2>4. PICK m \in Locals : m = [l EXCEPT !.block = published[l.id].block]
    BY <1>l, <2>3 DEF Locals
  <2>5. LocalsOK("proof", m)
    BY <1>l, <2>2, <2>4 DEF Locals, LocalsOK, LocalsAtLabel
  <2>6. "proof" \in Labels[Tool(r)]
    BY <2>1 DEF At, Labels
  <2> QED BY <2>1, <2>4, <2>5, <2>6, QuietStep
<1>3. CASE IngestProof(r)
  <2>1. /\ At(r, {"ingest"}, "proof") /\ UNCHANGED <<chains, files, told>>
        /\ Provable(l.id) /\ published[l.id].block = l.block /\ Wait(r, "submit", l)
    BY <1>3 DEF IngestProof
  <2>2. LocalsOK("submit", l)
    BY <1>l, <2>1 DEF At, LocalsOK, LocalsAtLabel
  <2>3. "submit" \in Labels[Tool(r)]
    BY <2>1 DEF At, Labels
  <2> QED BY <1>l, <2>1, <2>2, <2>3, QuietStep
<1>4. CASE IngestSubmit(r)
  <2>1. /\ At(r, {"ingest"}, "submit") /\ Recordable(l.id) /\ recorded' = recorded \cup {l.id}
        /\ UNCHANGED <<published, count, executed, final, expired, files, told>>
        /\ Wait(r, "readback", l)
    BY <1>4 DEF IngestSubmit
  <2>2. l.id \in Id /\ Provable(l.id) /\ published[l.id].block = l.block
    BY <1>l, <2>1 DEF At, LocalsAtLabel
  <2>3. Id' = Id /\ (ChainsOK)'
    BY <2>1, <2>2 DEF PipelineInv, ChainsOK, Provable, Id
  <2>4. ChainsGrow
    <3>1. /\ published' = published /\ final' = final /\ count' = count
          /\ executed' = executed /\ expired' = expired
      BY <2>1
    <3> QED BY <2>1, <2>2, <2>3, <3>1, Known DEF ChainsGrow, Provable
  <2>5. PICK m \in Locals : m = l
    BY <1>l
  <2>6. LocalsOK("submit", m)'
    <3>1. LocalsOK("submit", m)
      BY <1>l, <2>1, <2>5 DEF At, LocalsOK, LocalsAtLabel
    <3> QED BY <2>4, <3>1, LocalsKept DEF PipelineInv
  <2>7. LocalsOK("readback", m)'
    <3>1. m.id \in recorded'
      BY <2>1, <2>5
    <3> QED BY <2>6, <3>1 DEF LocalsOK, LocalsAtLabel
  <2>8. "readback" \in Labels[Tool(r)]
    BY <2>1 DEF At, Labels
  <2>9. UNCHANGED <<files, told>>
    BY <2>1
  <2> QED BY <2>1, <2>4, <2>5, <2>7, <2>8, <2>9, WaitStep
<1>5. CASE IngestWrite(r)
  <2>1. /\ At(r, {"ingest"}, "readback") /\ Finish(r)
        /\ artifact' = IF l.file.source = 0 THEN artifact ELSE Ingested(l.file, l.id, l.block)
        /\ UNCHANGED <<chains, evidence, told>>
    BY <1>5 DEF IngestWrite
  <2>2. IngestOK(l.id, l.block) /\ l.id \in Nat /\ l.block \in Nat
    BY <1>l, <2>1 DEF At, LocalsAtLabel, IngestOK, Locals
  <2>3. PICK a \in Artifacts : a = Ingested(l.file, l.id, l.block)
    BY <1>l, <2>2 DEF Ingested, Artifacts
  <2>4. l.file.source # 0 => ArtifactOK(a)
    BY <1>l, <2>2, <2>3 DEF Ingested, Artifacts, ArtifactOK, OfOneAuthorization
  <2>5. PICK o \in Artifacts : o = artifact
    BY <1>l
  <2>6. artifact' \in Artifacts /\ ArtifactOK(artifact)'
    <3>1. UNCHANGED chains
      BY <2>1
    <3>2. CASE l.file.source = 0
      BY <1>l, <2>1, <2>5, <3>1, <3>2, Written
    <3>3. CASE l.file.source # 0
      BY <2>1, <2>3, <2>4, <3>1, <3>3, Written
    <3> QED BY <3>2, <3>3
  <2>7. evidence' \in Evidence /\ EvidenceOK(evidence)' /\ UNCHANGED chains
    BY <2>1, Known, Written
  <2>8. fresh' \in [Runs -> Nat] /\ report' \in [Runs -> Evidence]
    BY <2>1, Known DEF told
  <2> QED BY <2>1, <2>6, <2>7, <2>8, FinishStep
<1> QED BY <1>1, <1>2, <1>3, <1>4, <1>5

\* sign-controller-approval approves the artifact it read.
LEMMA ApproveKeepsInv ==
    ASSUME PipelineInv, NEW r \in Runs, ApproveRead(r) \/ ApproveWrite(r)
    PROVE  PipelineInv'
<1> DEFINE l == local[r]
<1>l. /\ l \in Locals /\ ArtifactOK(l.file) /\ EvidenceOK(l.seen) /\ LocalsAtLabel(pc[r], l)
      /\ l.file \in Artifacts /\ artifact \in Artifacts /\ ArtifactOK(artifact)
  BY Known
<1>1. CASE ApproveRead(r)
  <2>1. /\ At(r, {"approve"}, "start") /\ UNCHANGED <<chains, files, told>>
        /\ artifact.ingested # 0 /\ Wait(r, "signature", [l EXCEPT !.file = artifact])
    BY <1>1 DEF ApproveRead
  <2>2. PICK m \in Locals : m = [l EXCEPT !.file = artifact]
    BY <1>l DEF Locals
  <2>3. artifact.source # 0
    BY <1>l, <2>1 DEF ArtifactOK, NoArtifact
  <2>4. LocalsOK("signature", m)
    BY <1>l, <2>2, <2>3 DEF Locals, LocalsOK, LocalsAtLabel
  <2>5. "signature" \in Labels[Tool(r)]
    BY <2>1 DEF At, Labels
  <2> QED BY <2>1, <2>2, <2>4, <2>5, QuietStep
<1>2. CASE ApproveWrite(r)
  <2>1. /\ At(r, {"approve"}, "signature") /\ Finish(r) /\ artifact' = Approved(l.file)
        /\ UNCHANGED <<chains, evidence, told>>
    BY <1>2 DEF ApproveWrite
  <2>2. l.file.source # 0
    BY <1>l, <2>1 DEF At, LocalsAtLabel
  <2>3. PICK a \in Artifacts : a = Approved(l.file)
    BY <1>l DEF Approved, Artifacts
  <2>4. ArtifactOK(a)
    BY <1>l, <2>2, <2>3 DEF Approved, Artifacts, ArtifactOK, OfOneAuthorization
  <2>5. artifact' \in Artifacts /\ ArtifactOK(artifact)' /\ UNCHANGED chains
    BY <2>1, <2>3, <2>4, Written
  <2>6. evidence' \in Evidence /\ EvidenceOK(evidence)'
    BY <2>1, Known, Written
  <2>7. fresh' \in [Runs -> Nat] /\ report' \in [Runs -> Evidence]
    BY <2>1, Known DEF told
  <2> QED BY <2>1, <2>5, <2>6, <2>7, FinishStep
<1> QED BY <1>1, <1>2

\* Evidence is built from an artifact whose parts are known, and says no more than it.
LEMMA BuildOK ==
    ASSUME PipelineInv, NEW a \in Artifacts, ArtifactOK(a), Buildable(a)
    PROVE  Build(a) \in Evidence /\ EvidenceOK(Build(a)) /\ a.source # 0
<1>1. a.source # 0 /\ a.source \in recorded
  BY DEF Buildable, ArtifactOK, NoArtifact
<1>2. Build(a) \in Evidence
  BY DEF Build, Artifacts, Evidence
<1>3. OfOneAuthorization(Build(a)) /\ IngestOK(Build(a).ingested, Build(a).proofBlock)
  BY DEF Build, Buildable, ArtifactOK, OfOneAuthorization
<1>4. Build(a).proofBlock = Build(a).block /\ Build(a).source \in recorded
  BY <1>1 DEF Build, Buildable
<1>5. Build(a).signer => Build(a).executed = Build(a).source
  BY DEF Build, ArtifactOK
<1> QED BY <1>1, <1>2, <1>3, <1>4, <1>5 DEF EvidenceOK

\* demo-verified-live up to the evidence of the preflight, or of the execution.
LEMMA DemoKeepsInv ==
    ASSUME PipelineInv, NEW r \in Runs,
           DemoRead(r) \/ DemoPreflight(r) \/ DemoSave(r) \/ DemoEvidence(r)
    PROVE  PipelineInv'
<1> DEFINE l == local[r]
<1>l. /\ l \in Locals /\ ArtifactOK(l.file) /\ EvidenceOK(l.seen) /\ LocalsAtLabel(pc[r], l)
      /\ l.file \in Artifacts /\ artifact \in Artifacts /\ ArtifactOK(artifact)
      /\ evidence \in Evidence /\ EvidenceOK(evidence)
      /\ fresh \in [Runs -> Nat] /\ report \in [Runs -> Evidence]
  BY Known
<1>1. CASE DemoRead(r)
  <2>1. /\ At(r, {"dry", "send"}, "start") /\ UNCHANGED <<chains, files, told>>
        /\ artifact.ingested # 0 /\ Wait(r, "preflight", [l EXCEPT !.file = artifact])
    BY <1>1 DEF DemoRead
  <2>2. PICK m \in Locals : m = [l EXCEPT !.file = artifact]
    BY <1>l DEF Locals
  <2>3. artifact.source # 0
    BY <1>l, <2>1 DEF ArtifactOK, NoArtifact
  <2>4. LocalsOK("preflight", m)
    BY <1>l, <2>2, <2>3 DEF Locals, LocalsOK, LocalsAtLabel
  <2>5. "preflight" \in Labels[Tool(r)]
    BY <2>1 DEF At, Labels
  <2> QED BY <2>1, <2>2, <2>4, <2>5, QuietStep
<1>2. CASE DemoPreflight(r)
  <2>1. /\ At(r, {"dry", "send"}, "preflight") /\ UNCHANGED <<chains, files, told>>
        /\ Allowed(l.file.source)
        /\ Wait(r, "save", [l EXCEPT !.file = Preflighted(@)])
    BY <1>2 DEF DemoPreflight
  <2>2. PICK a \in Artifacts : a = Preflighted(l.file)
    BY <1>l DEF Preflighted, Artifacts
  <2>3. PICK m \in Locals : m = [l EXCEPT !.file = a]
    BY <1>l DEF Locals
  <2>4. a.source \in recorded /\ a.source # 0
    BY <1>l, <2>1, <2>2 DEF At, LocalsAtLabel, Allowed, Preflighted, Artifacts
  <2>5. ArtifactOK(a)
    BY <1>l, <2>2, <2>4 DEF Preflighted, Artifacts, ArtifactOK, OfOneAuthorization
  <2>6. LocalsOK("save", m)
    <3>1. m.file = a /\ m.seen = l.seen /\ a.checked = "preflight"
      BY <1>l, <2>2, <2>3 DEF Locals, Preflighted, Artifacts
    <3> QED BY <1>l, <2>4, <2>5, <3>1 DEF LocalsOK, LocalsAtLabel
  <2>7. "save" \in Labels[Tool(r)]
    BY <2>1 DEF At, Labels
  <2>8. Wait(r, "save", m)
    BY <1>l, <2>1, <2>2, <2>3 DEF Locals
  <2> QED BY <2>1, <2>3, <2>6, <2>7, <2>8, QuietStep
<1>3. CASE DemoSave(r)
  <2>1. /\ At(r, {"dry", "send"}, "save") /\ artifact' = l.file /\ Wait(r, "evidence", l)
        /\ UNCHANGED <<chains, evidence, told>>
    BY <1>3 DEF DemoSave
  <2>2. UNCHANGED chains /\ ChainsGrow
    BY <2>1, ChainsStay
  <2>3. artifact' \in Artifacts /\ ArtifactOK(artifact)'
    BY <1>l, <2>1, <2>2, Written
  <2>4. evidence' \in Evidence /\ EvidenceOK(evidence)'
    BY <1>l, <2>1, <2>2, Written
  <2>5. PICK m \in Locals : m = l
    BY <1>l
  <2>6. LocalsOK("evidence", m)'
    <3>1. LocalsOK("evidence", m)
      BY <1>l, <2>1, <2>5 DEF At, LocalsOK, LocalsAtLabel
    <3> QED BY <2>2, <3>1, LocalsKept DEF PipelineInv
  <2>7. "evidence" \in Labels[Script[r][step[r]]]
    BY <2>1 DEF At, Labels, Tool
  <2>8. step[r] \in 1..Len(Script[r]) /\ step' = [step EXCEPT ![r] = step[r]]
    BY <2>1, ToolIsTool DEF Wait, PipelineInv, PipelineTypeOK
  <2>9. fresh' \in [Runs -> Nat] /\ report' \in [Runs -> Evidence]
    BY <1>l, <2>1 DEF told
  <2>10. pc' = [pc EXCEPT ![r] = "evidence"] /\ local' = [local EXCEPT ![r] = m]
    BY <2>1, <2>5 DEF Wait
  <2> QED BY <2>2, <2>3, <2>4, <2>5, <2>6, <2>7, <2>8, <2>9, <2>10, RunStep
<1>4. CASE DemoEvidence(r)
  <2>1. /\ At(r, {"dry", "send"}, "evidence") /\ Buildable(l.file)
        /\ evidence' = Build(l.file) /\ UNCHANGED <<chains, artifact, told>>
        /\ \/ Finish(r)
           \/ AfterEvidence(Tool(r), l.file) = "pending" /\ Wait(r, "pending", l)
    BY <1>4 DEF DemoEvidence
  <2>2. UNCHANGED chains /\ ChainsGrow
    BY <2>1, ChainsStay
  <2>3. PICK e \in Evidence : e = Build(l.file) /\ EvidenceOK(e)
    BY <1>l, <2>1, BuildOK
  <2>4. evidence' \in Evidence /\ EvidenceOK(evidence)'
    BY <2>1, <2>2, <2>3, Written
  <2>5. artifact' \in Artifacts /\ ArtifactOK(artifact)'
    BY <1>l, <2>1, <2>2, Written
  <2>6. fresh' \in [Runs -> Nat] /\ report' \in [Runs -> Evidence]
    BY <1>l, <2>1 DEF told
  <2>7. CASE Finish(r)
    BY <2>2, <2>4, <2>5, <2>6, <2>7, FinishStep
  <2>8. CASE AfterEvidence(Tool(r), l.file) = "pending" /\ Wait(r, "pending", l)
    <3>1. PICK m \in Locals : m = l
      BY <1>l
    <3>2. LocalsOK("pending", m)'
      <4>1. LocalsOK("pending", m)
        BY <1>l, <2>1, <3>1 DEF At, LocalsOK, LocalsAtLabel
      <4> QED BY <2>2, <4>1, LocalsKept DEF PipelineInv
    <3>3. "pending" \in Labels[Script[r][step[r]]]
      BY <2>1, <2>8 DEF At, Labels, Tool, AfterEvidence
    <3>4. step[r] \in 1..Len(Script[r]) /\ step' = [step EXCEPT ![r] = step[r]]
      BY <2>8, ToolIsTool DEF Wait, PipelineInv, PipelineTypeOK
    <3>5. pc' = [pc EXCEPT ![r] = "pending"] /\ local' = [local EXCEPT ![r] = m]
      BY <2>8, <3>1 DEF Wait
    <3> QED BY <2>2, <2>4, <2>5, <2>6, <3>1, <3>2, <3>3, <3>4, <3>5, RunStep
  <2> QED BY <2>1, <2>7, <2>8
<1> QED BY <1>1, <1>2, <1>3, <1>4

\* demo-verified-live from the pending execution to its result.
LEMMA SendKeepsInv ==
    ASSUME PipelineInv, NEW r \in Runs, DemoPending(r) \/ DemoSend(r) \/ DemoMined(r)
    PROVE  PipelineInv'
<1> DEFINE l == local[r]
<1>l. /\ l \in Locals /\ ArtifactOK(l.file) /\ EvidenceOK(l.seen) /\ LocalsAtLabel(pc[r], l)
      /\ l.file \in Artifacts
  BY Known
<1>1. CASE DemoPending(r)
  <2>1. /\ At(r, {"send"}, "pending") /\ UNCHANGED <<chains, files, told>>
        /\ Wait(r, "guard", l)
    BY <1>1 DEF DemoPending
  <2>2. LocalsOK("guard", l)
    BY <1>l, <2>1 DEF At, LocalsOK, LocalsAtLabel
  <2>3. "guard" \in Labels[Tool(r)]
    BY <2>1 DEF At, Labels
  <2> QED BY <1>l, <2>1, <2>2, <2>3, QuietStep
<1>2. CASE DemoSend(r)
  <2>1. /\ At(r, {"send"}, "guard") /\ Allowed(l.file.source) /\ Wait(r, "execution", l)
        /\ executed' = executed \cup {l.file.source} /\ count' = count + 1
        /\ UNCHANGED <<published, final, recorded, expired, files, told>>
    BY <1>2 DEF DemoSend
  <2>2. l.file.source \in recorded
    BY <2>1 DEF Allowed
  <2>3. Id' = Id /\ ChainsOK'
    BY <2>1, <2>2 DEF PipelineInv, ChainsOK, Provable, Id
  <2>4. ChainsGrow
    <3>1. published' = published /\ final' = final /\ recorded' = recorded /\ expired' = expired
      BY <2>1
    <3> QED BY <2>1, <2>2, <2>3, <3>1, Known DEF ChainsGrow, Provable
  <2>5. PICK m \in Locals : m = l
    BY <1>l
  <2>6. LocalsOK("execution", m)'
    <3>1. LocalsOK("execution", m)
      BY <1>l, <2>1, <2>5 DEF At, LocalsOK, LocalsAtLabel
    <3> QED BY <2>4, <3>1, LocalsKept DEF PipelineInv
  <2>7. "execution" \in Labels[Tool(r)]
    BY <2>1 DEF At, Labels
  <2>8. UNCHANGED <<files, told>>
    BY <2>1
  <2> QED BY <2>1, <2>4, <2>5, <2>6, <2>7, <2>8, WaitStep
<1>3. CASE DemoMined(r)
  <2>1. /\ At(r, {"send"}, "execution") /\ UNCHANGED <<chains, files, told>>
        /\ Wait(r, "save", [l EXCEPT !.file = WithExecution(@)])
    BY <1>3 DEF DemoMined
  <2>2. PICK a \in Artifacts : a = WithExecution(l.file)
    BY <1>l DEF WithExecution, Artifacts
  <2>3. PICK m \in Locals : m = [l EXCEPT !.file = a]
    BY <1>l DEF Locals
  <2>4. l.file.source # 0 /\ l.file.checked # "no"
    BY <1>l, <2>1 DEF At, LocalsAtLabel
  <2>5. ArtifactOK(a) /\ a.source # 0 /\ a.checked # "no"
    BY <1>l, <2>2, <2>4 DEF WithExecution, Artifacts, ArtifactOK, OfOneAuthorization
  <2>6. LocalsOK("save", m)
    BY <1>l, <2>3, <2>5 DEF Locals, LocalsOK, LocalsAtLabel
  <2>7. "save" \in Labels[Tool(r)]
    BY <2>1 DEF At, Labels
  <2>8. Wait(r, "save", m)
    BY <1>l, <2>1, <2>2, <2>3 DEF Locals
  <2> QED BY <2>1, <2>3, <2>6, <2>7, <2>8, QuietStep
<1> QED BY <1>1, <1>2, <1>3

\* verify-live-evidence and the report write no file.
LEMMA VerifyKeepsInv ==
    ASSUME PipelineInv, NEW r \in Runs,
           \/ VerifyRead(r) \/ VerifySource(r) \/ VerifyIngested(r) \/ VerifyTransaction(r)
           \/ VerifyReceipt(r) \/ VerifyLatest(r) \/ VerifyCount(r) \/ Report(r)
    PROVE  PipelineInv'
<1> DEFINE l == local[r]
<1>l. /\ l \in Locals /\ ArtifactOK(l.file) /\ EvidenceOK(l.seen) /\ LocalsAtLabel(pc[r], l)
      /\ l.file \in Artifacts /\ artifact \in Artifacts /\ ArtifactOK(artifact)
      /\ evidence \in Evidence /\ EvidenceOK(evidence)
      /\ fresh \in [Runs -> Nat] /\ report \in [Runs -> Evidence]
  BY Known
<1>1. CASE VerifyRead(r)
  <2>1. /\ At(r, {"verify"}, "start") /\ UNCHANGED <<chains, files, told>>
        /\ artifact.source # 0
        /\ Wait(r, "source", [l EXCEPT !.file = artifact, !.seen = evidence])
    BY <1>1 DEF VerifyRead
  <2>2. PICK m \in Locals : m = [l EXCEPT !.file = artifact, !.seen = evidence]
    BY <1>l DEF Locals
  <2>3. LocalsOK("source", m)
    BY <1>l, <2>1, <2>2 DEF Locals, LocalsOK, LocalsAtLabel
  <2>4. "source" \in Labels[Tool(r)]
    BY <2>1 DEF At, Labels
  <2> QED BY <2>1, <2>2, <2>3, <2>4, QuietStep
<1>2. CASE VerifySource(r)
  <2>1. /\ At(r, {"verify"}, "source") /\ UNCHANGED <<chains, files, told>>
        /\ Wait(r, "ingested", l)
    BY <1>2 DEF VerifySource
  <2>2. LocalsOK("ingested", l)
    BY <1>l, <2>1 DEF At, LocalsOK, LocalsAtLabel
  <2>3. "ingested" \in Labels[Tool(r)]
    BY <2>1 DEF At, Labels
  <2> QED BY <1>l, <2>1, <2>2, <2>3, QuietStep
<1>3. CASE VerifyIngested(r)
  <2>1. /\ At(r, {"verify"}, "ingested") /\ UNCHANGED <<chains, files, told>>
        /\ l.file.ingested = l.file.source /\ Buildable(l.file) /\ l.seen = Build(l.file)
        /\ Wait(r, AfterRecord(l.file, l.seen), l)
    BY <1>3 DEF VerifyIngested, Matches
  <2>2. LocalsOK(AfterRecord(l.file, l.seen), l)
    BY <1>l, <2>1 DEF At, LocalsOK, LocalsAtLabel, AfterRecord
  <2>3. AfterRecord(l.file, l.seen) \in Labels[Tool(r)]
    BY <2>1 DEF At, Labels, AfterRecord
  <2> QED BY <1>l, <2>1, <2>2, <2>3, QuietStep
<1>4. CASE VerifyTransaction(r) \/ VerifyReceipt(r) \/ VerifyLatest(r)
  <2>1. Tool(r) = "verify" /\ UNCHANGED <<chains, files, told>>
    BY <1>4 DEF VerifyTransaction, VerifyReceipt, VerifyLatest, At
  <2>2. /\ VerifyTransaction(r) => Wait(r, "landed", l) /\ LocalsOK("landed", l)
        /\ VerifyReceipt(r) => Wait(r, "latest", l) /\ LocalsOK("latest", l)
        /\ VerifyLatest(r) => Wait(r, "counted", l) /\ LocalsOK("counted", l)
    BY <1>l DEF VerifyTransaction, VerifyReceipt, VerifyLatest, At, LocalsOK, LocalsAtLabel
  <2>3. {"landed", "latest", "counted"} \subseteq Labels[Tool(r)]
    BY <2>1 DEF Labels
  <2> QED BY <1>l, <1>4, <2>1, <2>2, <2>3, QuietStep
<1>5. CASE VerifyCount(r) \/ Report(r)
  <2>1. UNCHANGED <<chains, files>> /\ Finish(r) /\ fresh' = fresh
    BY <1>5 DEF VerifyCount, Report, told
  <2>2. report' \in [Runs -> Evidence]
    BY <1>l, <1>5 DEF VerifyCount, Report, told
  <2>3. UNCHANGED chains /\ artifact' = artifact /\ evidence' = evidence
    BY <2>1 DEF files
  <2>4. /\ artifact' \in Artifacts /\ ArtifactOK(artifact)'
        /\ evidence' \in Evidence /\ EvidenceOK(evidence)'
    BY <1>l, <2>3, Written
  <2> QED BY <1>l, <2>1, <2>2, <2>3, <2>4, FinishStep
<1> QED BY <1>1, <1>2, <1>3, <1>4, <1>5

-----------------------------------------------------------------------------
(* Theorems                                                                 *)

\* The invariant holds when nothing was run.
LEMMA InitImpliesInv ==
    PipelineInit => PipelineInv
<1> SUFFICES ASSUME PipelineInit PROVE PipelineInv
  OBVIOUS
<1>1. /\ NoArtifact \in Artifacts /\ NoEvidence \in Evidence /\ Blank \in Locals
      /\ Blank.file = NoArtifact /\ Blank.seen = NoEvidence
  BY DEF NoArtifact, Artifacts, NoEvidence, Evidence, Blank, Locals
<1>2. Id = {}
  BY DEF PipelineInit, Id
<1>3. PipelineTypeOK
  <2>1. \A r \in Runs : Len(Script[r]) \in Nat /\ 1 <= Len(Script[r])
    BY DEF PipelineAssumption
  <2> QED BY <1>1, <1>2, <2>1 DEF PipelineInit, PipelineTypeOK
<1>4. ChainsOK
  BY <1>2 DEF PipelineInit, ChainsOK
<1>5. ArtifactOK(NoArtifact) /\ EvidenceOK(NoEvidence)
  BY DEF ArtifactOK, EvidenceOK, NoArtifact, OfOneAuthorization
<1>6. \A r \in Runs : LocalsOK(pc[r], local[r])
  BY <1>1, <1>5 DEF PipelineInit, LocalsOK, LocalsAtLabel
<1> QED BY <1>3, <1>4, <1>5, <1>6 DEF PipelineInit, PipelineInv

\* Every step preserves it.
LEMMA NextPreservesInv ==
    PipelineInv /\ [PipelineNext]_pipelineVars => PipelineInv'
<1> SUFFICES ASSUME PipelineInv, [PipelineNext]_pipelineVars PROVE PipelineInv'
  OBVIOUS
<1>1. ASSUME NEW r \in Runs, Begin(r) \/ ToolStep(r) \/ Stop(r)
      PROVE  PipelineInv'
  BY <1>1, BeginStopKeepInv, PublishKeepsInv, IngestKeepsInv, ApproveKeepsInv, DemoKeepsInv,
     SendKeepsInv, VerifyKeepsInv DEF ToolStep
<1>2. CASE World
  BY <1>2, WorldKeepsInv
<1>3. CASE UNCHANGED pipelineVars
  <2>1. UNCHANGED chains /\ UNCHANGED <<files, pc, step, local, told>>
    BY <1>3 DEF pipelineVars
  <2> QED BY <2>1, ChainsStay, WorldStep
<1> QED BY <1>1, <1>2, <1>3 DEF PipelineNext

\* PipelineInv holds always: in publish-demo-authorization, attestcoin-semantic,
\* sign-controller-approval, demo-verified-live and verify-live-evidence, run at the same time in
\* one directory, whatever their number.
THEOREM PipelineInvariance == PipelineSpec => []PipelineInv
<1>1. PipelineInit => PipelineInv
  BY InitImpliesInv
<1>2. PipelineInv /\ [PipelineNext]_pipelineVars => PipelineInv'
  BY NextPreservesInv
<1> QED BY <1>1, <1>2, PTL DEF PipelineSpec

\* The files and the variables of the tools have their types.
THEOREM PipelineTypeCorrect == PipelineSpec => []PipelineTypeOK
<1>1. PipelineInv => PipelineTypeOK
  BY DEF PipelineInv
<1> QED BY <1>1, PipelineInvariance, PTL

\* The approval and the result in build/live-authorization.json are of the authorization it names,
\* though every tool writes back the whole file it read before its awaits.
THEOREM SectionsAlwaysAgree == PipelineSpec => []SectionsAgree
<1>1. PipelineInv => SectionsAgree
  BY DEF PipelineInv, ArtifactOK, SectionsAgree
<1> QED BY <1>1, PipelineInvariance, PTL

\* build/live-evidence.json names an authorization that is in the registry.
THEOREM EvidenceAlwaysBacked == PipelineSpec => []EvidenceIsBacked
<1>1. PipelineInv => EvidenceIsBacked
  <2> SUFFICES ASSUME PipelineInv PROVE EvidenceIsBacked
    OBVIOUS
  <2>1. EvidenceOK(evidence)
    BY DEF PipelineInv
  <2>2. CASE evidence = NoEvidence
    BY <2>2 DEF EvidenceIsBacked, NoEvidence
  <2>3. CASE evidence # NoEvidence
    BY <2>1, <2>3 DEF EvidenceIsBacked, EvidenceOK
  <2> QED BY <2>2, <2>3
<1> QED BY <1>1, PipelineInvariance, PTL

\* When live:evidence reads the receipt, all that it verifies holds at once, although it saw it
\* piece by piece while the chains went on; when it prints "verified", two answers later, the
\* publication and the record still do, and only the execution may have been dropped meanwhile.
THEOREM VerifiedMeansTrue == PipelineSpec => VerifiedIsTrue
<1>1. PipelineInv =>
          \A r \in Runs :
              /\ VerifyReceipt(r) => Stands(local[r].seen) /\ local[r].seen.executed \in executed
              /\ VerifyCount(r) => Stands(local[r].seen)
  <2> SUFFICES ASSUME PipelineInv, NEW r \in Runs, VerifyReceipt(r) \/ VerifyCount(r)
               PROVE  /\ Stands(local[r].seen)
                      /\ VerifyReceipt(r) => local[r].seen.executed \in executed
    OBVIOUS
  <2> DEFINE a == local[r].file
             e == local[r].seen
  <2>1. /\ ArtifactOK(a) /\ a.source # 0 /\ a.ingested = a.source /\ Buildable(a)
        /\ e = Build(a)
    BY Known DEF VerifyReceipt, VerifyCount, At, LocalsAtLabel
  <2>2. /\ e.source = a.source /\ e.block = a.block /\ e.ingested = a.ingested
        /\ e.proofBlock = a.proofBlock /\ e.executed = a.executed
    BY <2>1 DEF Build
  <2>3. IngestOK(a.source, a.block) /\ a.proofBlock = a.block
    BY <2>1 DEF ArtifactOK, Buildable
  <2>4. a.executed \in {0, a.source}
    BY <2>1 DEF ArtifactOK, OfOneAuthorization
  <2>5. VerifyReceipt(r) => a.executed \in executed
    BY DEF VerifyReceipt, ExecutionHolds
  <2> QED BY <2>1, <2>2, <2>3, <2>4, <2>5 DEF Stands, IngestOK
<1> QED BY <1>1, PipelineInvariance, PTL DEF VerifiedIsTrue

-----------------------------------------------------------------------------
(* One terminal at a time                                                   *)

\* What SequentialInv says of the results of live-e2e in run r.
E2EOK(r) ==
    Script[r] = LiveE2E =>
        /\ Running(r) => E2EAtStep(r)
        /\ report[r] # NoEvidence => E2EReported(r)
        /\ pc[r] = "idle" => step[r] = 1

\* The parts of SequentialInv.
LEMMA SequentialParts ==
    ASSUME ~ Together
    PROVE  SequentialInv <=> /\ \A r, q \in Runs : Running(r) /\ Running(q) => r = q
                             /\ \A r \in Runs : Running(r) => FileAtLabel(pc[r], local[r])
                             /\ \A r \in Runs : E2EOK(r)
BY DEF SequentialInv, E2EOK

\* The same, of the next state.
LEMMA SequentialPartsNext ==
    ASSUME ~ Together,
           \A r, q \in Runs : Running(r)' /\ Running(q)' => r = q,
           \A r \in Runs : Running(r)' => FileAtLabel(pc[r], local[r])',
           \A r \in Runs : E2EOK(r)'
    PROVE  SequentialInv'
BY DEF SequentialInv, E2EOK

\* In which step of live-e2e a tool runs.
LEMMA E2ESteps ==
    ASSUME PipelineTypeOK, NEW r \in Runs, Script[r] = LiveE2E
    PROVE  /\ step[r] \in 1..6 /\ Len(Script[r]) = 6
           /\ Tool(r) = "publish" => step[r] = 1
           /\ Tool(r) = "ingest"  => step[r] = 2
           /\ Tool(r) = "approve" => step[r] = 3
           /\ Tool(r) = "send"    => step[r] = 4
           /\ Tool(r) = "verify"  => step[r] = 5
           /\ Tool(r) = "report"  => step[r] = 6
           /\ Tool(r) # "dry"
<1>1. Len(Script[r]) = 6
  BY DEF LiveE2E
<1>2. step[r] \in 1..6
  BY <1>1, ToolIsTool
<1> QED BY <1>1, <1>2 DEF LiveE2E, Tool

\* A step of the run that runs: the others have no file in memory.
LEMMA AloneStep ==
    ASSUME ~ Together, PipelineInv, SequentialInv, NEW r \in Runs, Running(r), NEW x,
           pc' = [pc EXCEPT ![r] = x],
           \A q \in Runs \ {r} : /\ local'[q] = local[q] /\ step'[q] = step[q]
                                 /\ fresh'[q] = fresh[q] /\ report'[q] = report[q],
           x \notin {"done", "stopped"} => FileAtLabel(x, local[r])',
           E2EOK(r)'
    PROVE  SequentialInv'
<1>1. pc'[r] = x /\ \A q \in Runs \ {r} : pc'[q] = pc[q] /\ ~ Running(q) /\ ~ Running(q)'
  BY DEF PipelineInv, PipelineTypeOK, SequentialInv, Running
<1>2. \A q \in Runs : Running(q)' => q = r
  BY <1>1
<1>3. ASSUME NEW q \in Runs, Running(q)' PROVE FileAtLabel(pc[q], local[q])'
  BY <1>1, <1>2, <1>3 DEF Running
<1>4. ASSUME NEW q \in Runs PROVE E2EOK(q)'
  <2>1. CASE q = r
    BY <2>1
  <2>2. CASE q # r
    <3>1. E2EOK(q)
      BY SequentialParts
    <3> QED BY <1>1, <2>2, <3>1 DEF E2EOK, E2EReported
  <2> QED BY <2>1, <2>2
<1> QED BY <1>2, <1>3, <1>4, SequentialPartsNext

\* A step in which the run that runs only waits for the next answer.
LEMMA AloneWait ==
    ASSUME ~ Together, PipelineInv, SequentialInv, NEW r \in Runs, Running(r),
           NEW x, NEW l, Wait(r, x, l), x # "idle", UNCHANGED <<files, told>>,
           x # "stopped" => FileAtLabel(x, l)
    PROVE  SequentialInv'
<1>1. /\ pc' = [pc EXCEPT ![r] = x] /\ step' = step /\ local'[r] = l /\ pc'[r] = x
      /\ \A q \in Runs \ {r} : local'[q] = local[q]
  BY DEF Wait, PipelineInv, PipelineTypeOK
<1>2. artifact' = artifact /\ evidence' = evidence /\ fresh' = fresh /\ report' = report
  BY DEF files, told
<1>3. FileAtLabel(x, l) => FileAtLabel(x, local[r])'
  BY <1>1, <1>2 DEF FileAtLabel
<1>4. E2EOK(r)'
  <2>1. E2EOK(r)
    BY SequentialParts
  <2> QED BY <1>1, <1>2, <2>1 DEF E2EOK, E2EAtStep, E2EReported
<1> QED BY <1>1, <1>2, <1>3, <1>4, AloneStep

\* A step in which a tool ends well.
LEMMA AloneFinish ==
    ASSUME ~ Together, PipelineInv, SequentialInv, NEW r \in Runs, Running(r), Finish(r),
           \A q \in Runs \ {r} : fresh'[q] = fresh[q] /\ report'[q] = report[q],
           Script[r] = LiveE2E =>
               /\ step[r] < 6 => (step'[r] = step[r] + 1 => E2EAtStep(r)')
               /\ report'[r] # NoEvidence => (step[r] = 6 => E2EReported(r)')
               /\ step[r] # 6 => report'[r] = report[r]
    PROVE  SequentialInv'
<1>0. step[r] \in 1..Len(Script[r])
  BY ToolIsTool DEF PipelineInv
<1>1. PICK x \in {"start", "done"} :
          /\ pc' = [pc EXCEPT ![r] = x]
          /\ x = "start" => step[r] < Len(Script[r]) /\ step' = [step EXCEPT ![r] = @ + 1]
          /\ x = "done" => step[r] = Len(Script[r]) /\ step' = step
  BY <1>0 DEF Finish
<1>2. \A q \in Runs \ {r} : local'[q] = local[q] /\ step'[q] = step[q]
  BY <1>1 DEF Finish, PipelineInv, PipelineTypeOK
<1>3. FileAtLabel("start", local[r])'
  BY DEF FileAtLabel
<1>4. E2EOK(r)'
  <2> SUFFICES ASSUME Script[r] = LiveE2E PROVE E2EOK(r)'
    BY DEF E2EOK
  <2>1. E2EOK(r) /\ step[r] \in 1..6 /\ Len(Script[r]) = 6
    BY SequentialParts, E2ESteps DEF PipelineInv
  <2>2. pc'[r] = x
    BY <1>1 DEF PipelineInv, PipelineTypeOK
  <2>3. CASE x = "start"
    <3>1. step'[r] = step[r] + 1 /\ step[r] < 6
      BY <1>1, <2>1, <2>3 DEF PipelineInv, PipelineTypeOK
    <3>2. report'[r] = NoEvidence
      BY <2>1, <3>1 DEF E2EOK, E2EReported, LiveE2E
    <3> QED BY <2>2, <2>3, <3>1, <3>2 DEF E2EOK
  <2>4. CASE x = "done"
    BY <1>1, <2>1, <2>2, <2>4 DEF E2EOK, Running
  <2> QED BY <2>3, <2>4
<1> QED BY <1>1, <1>2, <1>3, <1>4, AloneStep

\* What a run that runs alone starts an action from.
LEMMA AloneKnown ==
    ASSUME ~ Together, PipelineInv, SequentialInv, NEW r \in Runs, Running(r)
    PROVE  /\ FileAtLabel(pc[r], local[r])
           /\ Script[r] = LiveE2E => E2EAtStep(r)
BY SequentialParts DEF E2EOK

\* Alone, a tool's answers change nothing it has read.
LEMMA PublishAlone ==
    ASSUME ~ Together, PipelineInv, SequentialInv, NEW r \in Runs,
           PublishCount(r) \/ PublishPredict(r) \/ PublishMined(r) \/ IngestRead(r)
    PROVE  SequentialInv'
<1> DEFINE l == local[r]
<1>l. l \in Locals /\ artifact \in Artifacts /\ ArtifactOK(artifact) /\ Len(published) \in Nat
  BY Known
<1>1. ASSUME PublishCount(r) \/ PublishPredict(r) PROVE SequentialInv'
  <2>1. UNCHANGED <<files, told>> /\ Running(r)
    BY <1>1 DEF PublishCount, PublishPredict, At, Running
  <2>2. \A m : FileAtLabel("predict", m) /\ FileAtLabel("mine", m)
    BY DEF FileAtLabel
  <2> QED BY <1>1, <2>1, <2>2, AloneWait DEF PublishCount, PublishPredict
<1>2. CASE PublishMined(r)
  <2>1. UNCHANGED <<files, told>> /\ Running(r)
    BY <1>2 DEF PublishMined, At, Running
  <2>2. PICK n \in Nat : n = Len(published) + 1
    BY <1>l
  <2>3. PICK b : Wait(r, "compare", [l EXCEPT !.mined = n, !.block = b])
    BY <1>2, <2>2 DEF PublishMined
  <2> DEFINE m == [l EXCEPT !.mined = n, !.block = b]
  <2>4. m.mined = n
    BY <1>l DEF Locals
  <2>5. n > artifact.source
    BY <1>l, <2>2 DEF ArtifactOK, Id
  <2>6. FileAtLabel("compare", m)
    BY <2>4, <2>5 DEF FileAtLabel
  <2> HIDE DEF m
  <2>7. Wait(r, "compare", m)
    BY <2>3 DEF m
  <2> QED BY <2>1, <2>6, <2>7, AloneWait
<1>3. CASE IngestRead(r)
  <2>1. UNCHANGED <<files, told>> /\ Running(r)
    BY <1>3 DEF IngestRead, At, Running
  <2>2. PICK id : Wait(r, "receipt", [l EXCEPT !.file = artifact, !.id = id])
    BY <1>3 DEF IngestRead
  <2> DEFINE m == [l EXCEPT !.file = artifact, !.id = id]
  <2>3. FileAtLabel("receipt", m)
    BY <1>l DEF FileAtLabel, Locals
  <2> HIDE DEF m
  <2>4. Wait(r, "receipt", m)
    BY <2>2 DEF m
  <2> QED BY <2>1, <2>3, <2>4, AloneWait
<1> QED BY <1>1, <1>2, <1>3

\* Of the other steps that write no file, those at which nothing has been read yet.
LEMMA ReadAlone ==
    ASSUME ~ Together, PipelineInv, SequentialInv, NEW r \in Runs,
           ApproveRead(r) \/ DemoRead(r) \/ VerifyRead(r)
    PROVE  SequentialInv'
<1> DEFINE l == local[r]
<1>l. l \in Locals
  BY Known
<1>1. UNCHANGED <<files, told>> /\ Running(r)
  BY DEF ApproveRead, DemoRead, VerifyRead, At, Running
<1>2. CASE ApproveRead(r) \/ DemoRead(r)
  <2> DEFINE m == [l EXCEPT !.file = artifact]
  <2>1. FileAtLabel("signature", m) /\ FileAtLabel("preflight", m)
    BY <1>l DEF FileAtLabel, Locals
  <2>2. Wait(r, "signature", m) \/ Wait(r, "preflight", m)
    BY <1>2 DEF ApproveRead, DemoRead
  <2> HIDE DEF m
  <2> QED BY <1>1, <2>1, <2>2, AloneWait
<1>3. CASE VerifyRead(r)
  <2> DEFINE m == [l EXCEPT !.file = artifact, !.seen = evidence]
  <2>1. FileAtLabel("source", m)
    BY <1>l DEF FileAtLabel, Locals
  <2>2. Wait(r, "source", m)
    BY <1>3 DEF VerifyRead
  <2> HIDE DEF m
  <2> QED BY <1>1, <2>1, <2>2, AloneWait
<1> QED BY <1>2, <1>3

\* And those that go on with what was read.
LEMMA GoOnAlone ==
    ASSUME ~ Together, PipelineInv, SequentialInv, NEW r \in Runs,
           \/ IngestReceipt(r) \/ IngestProof(r) \/ IngestSubmit(r)
           \/ DemoPreflight(r) \/ DemoPending(r) \/ DemoSend(r) \/ DemoMined(r)
           \/ VerifySource(r) \/ VerifyIngested(r) \/ VerifyTransaction(r) \/ VerifyReceipt(r)
           \/ VerifyLatest(r)
    PROVE  SequentialInv'
<1> DEFINE l == local[r]
<1>l. l \in Locals
  BY Known
<1>1. UNCHANGED <<files, told>> /\ Running(r)
  BY DEF IngestReceipt, IngestProof, IngestSubmit, DemoPreflight, DemoPending, DemoSend,
         DemoMined, VerifySource, VerifyIngested, VerifyTransaction, VerifyReceipt, VerifyLatest,
         At, Running
<1>2. l.file = artifact
  <2>1. FileAtLabel(pc[r], l)
    BY <1>1, AloneKnown
  <2> QED BY <2>1
          DEF FileAtLabel, IngestReceipt, IngestProof, IngestSubmit, DemoPreflight, DemoPending,
              DemoSend, DemoMined, VerifySource, VerifyIngested, VerifyTransaction, VerifyReceipt,
              VerifyLatest, At
<1> DEFINE Next == {"submit", "readback", "guard", "execution", "ingested", "executed", "landed",
                    "latest", "counted"}
<1>3. \A x \in Next : FileAtLabel(x, l)
  BY <1>2 DEF FileAtLabel
<1>4. CASE \E x \in Next : Wait(r, x, l)
  BY <1>1, <1>3, <1>4, AloneWait
<1>5. CASE IngestReceipt(r)
  <2> DEFINE m == [l EXCEPT !.block = published[l.id].block]
  <2>1. FileAtLabel("proof", m)
    BY <1>l, <1>2 DEF FileAtLabel, Locals
  <2>2. Wait(r, "proof", m)
    BY <1>5 DEF IngestReceipt
  <2> HIDE DEF m
  <2> QED BY <1>1, <2>1, <2>2, AloneWait
<1>6. CASE DemoPreflight(r) \/ DemoMined(r)
  <2>1. PICK a \in {Preflighted(artifact), WithExecution(artifact)} :
            Wait(r, "save", [l EXCEPT !.file = a])
    BY <1>l, <1>2, <1>6 DEF DemoPreflight, DemoMined, Locals
  <2> DEFINE m == [l EXCEPT !.file = a]
  <2>2. m.file = a
    BY <1>l DEF Locals
  <2>3. FileAtLabel("save", m)
    BY <2>1, <2>2 DEF FileAtLabel
  <2> HIDE DEF m
  <2>4. Wait(r, "save", m)
    BY <2>1 DEF m
  <2> QED BY <1>1, <2>3, <2>4, AloneWait
<1> QED BY <1>4, <1>5, <1>6
        DEF IngestProof, IngestSubmit, DemoPending, DemoSend, VerifySource, VerifyIngested,
            AfterRecord, VerifyTransaction, VerifyReceipt, VerifyLatest

\* Alone, publish and ingest write what the next tool expects.
LEMMA WriteAlone ==
    ASSUME ~ Together, PipelineInv, SequentialInv, NEW r \in Runs,
           PublishWrite(r) \/ IngestWrite(r) \/ ApproveWrite(r)
    PROVE  SequentialInv'
<1> DEFINE l == local[r]
<1>l. /\ l \in Locals /\ l.file \in Artifacts /\ LocalsAtLabel(pc[r], l)
      /\ fresh \in [Runs -> Nat] /\ artifact \in Artifacts
  BY Known
<1>1. Running(r) /\ Finish(r) /\ report' = report
  BY DEF PublishWrite, IngestWrite, ApproveWrite, At, Running, told
<1>2. \A q \in Runs \ {r} : fresh'[q] = fresh[q] /\ report'[q] = report[q]
  BY <1>1, <1>l DEF PublishWrite, IngestWrite, ApproveWrite, told
<1>3. ASSUME Script[r] = LiveE2E, step'[r] = step[r] + 1
      PROVE  E2EAtStep(r)' /\ step[r] # 6
  <2>1. E2EAtStep(r)
    BY <1>1, <1>3, AloneKnown
  <2>2. CASE PublishWrite(r)
    <3>1. step[r] = 1 /\ step'[r] = 2
      BY <1>3, <2>2, E2ESteps DEF PublishWrite, At, PipelineInv
    <3>2. /\ l.mined \in Nat \ {0} /\ artifact'.source = l.mined /\ fresh'[r] = l.mined
      BY <1>l, <2>2
         DEF PublishWrite, At, LocalsAtLabel, Id, PublishedArtifact, NoArtifact
    <3> QED BY <3>1, <3>2 DEF E2EAtStep
  <2>3. CASE IngestWrite(r)
    <3>1. step[r] = 2 /\ step'[r] = 3
      BY <1>3, <2>3, E2ESteps DEF IngestWrite, At, PipelineInv
    <3>2. fresh' = fresh /\ l.file = artifact /\ artifact.source = fresh[r] /\ fresh[r] # 0
      BY <1>1, <2>1, <2>3, <3>1, AloneKnown
         DEF IngestWrite, At, FileAtLabel, E2EAtStep, told
    <3>3. l.id # 0
      BY <1>l, <2>3 DEF IngestWrite, At, LocalsAtLabel, Id
    <3>4. artifact'.source = artifact.source /\ artifact'.ingested = l.id
      BY <1>l, <2>3, <3>2 DEF IngestWrite, Ingested, Artifacts
    <3> QED BY <3>1, <3>2, <3>3, <3>4 DEF E2EAtStep
  <2>4. CASE ApproveWrite(r)
    <3>1. step[r] = 3 /\ step'[r] = 4
      BY <1>3, <2>4, E2ESteps DEF ApproveWrite, At, PipelineInv
    <3>2. /\ fresh' = fresh /\ l.file = artifact /\ artifact.source = fresh[r] /\ fresh[r] # 0
          /\ artifact.ingested # 0
      BY <1>1, <2>1, <2>4, <3>1, AloneKnown
         DEF ApproveWrite, At, FileAtLabel, E2EAtStep, told
    <3>3. /\ artifact'.source = artifact.source /\ artifact'.ingested = artifact.ingested
          /\ artifact'.approval = artifact.source
      BY <1>l, <2>4, <3>2 DEF ApproveWrite, Approved, Artifacts
    <3> QED BY <3>1, <3>2, <3>3 DEF E2EAtStep
  <2> QED BY <2>2, <2>3, <2>4
<1>4. Script[r] = LiveE2E => step[r] # 6
  BY E2ESteps DEF PublishWrite, IngestWrite, ApproveWrite, At, PipelineInv
<1> QED BY <1>1, <1>2, <1>3, <1>4, AloneFinish

\* Alone, demo-verified-live writes evidence of the artifact it has written.
LEMMA DemoAlone ==
    ASSUME ~ Together, PipelineInv, SequentialInv, NEW r \in Runs, DemoSave(r) \/ DemoEvidence(r)
    PROVE  SequentialInv'
<1> DEFINE l == local[r]
<1>l. l \in Locals /\ l.file \in Artifacts /\ artifact \in Artifacts /\ ArtifactOK(l.file)
  BY Known
<1>1. Running(r) /\ fresh' = fresh /\ report' = report
  BY DEF DemoSave, DemoEvidence, At, Running, told
<1>2. Script[r] = LiveE2E => step[r] = 4 /\ E2EAtStep(r) /\ E2EOK(r) /\ Tool(r) = "send"
  BY <1>1, AloneKnown, E2ESteps, SequentialParts DEF DemoSave, DemoEvidence, At, PipelineInv
<1>3. CASE DemoSave(r)
  <2>1. Wait(r, "evidence", l) /\ artifact' = l.file /\ evidence' = evidence
    BY <1>3 DEF DemoSave
  <2>2. /\ pc' = [pc EXCEPT ![r] = "evidence"] /\ step' = step /\ local'[r] = l
        /\ \A q \in Runs \ {r} : local'[q] = local[q]
    BY <2>1 DEF Wait, PipelineInv, PipelineTypeOK
  <2>3. FileAtLabel("evidence", local[r])'
    BY <2>1, <2>2 DEF FileAtLabel
  <2>4. l.file \in {Preflighted(artifact), WithExecution(artifact)}
    BY <1>1, <1>3, AloneKnown DEF DemoSave, At, FileAtLabel
  <2>5. /\ l.file.source = artifact.source /\ l.file.ingested = artifact.ingested
        /\ l.file.approval = artifact.approval
    BY <1>l, <2>4 DEF Preflighted, WithExecution, Artifacts
  <2>6. E2EOK(r)'
    <3> SUFFICES ASSUME Script[r] = LiveE2E PROVE E2EOK(r)'
      BY DEF E2EOK
    <3>1. E2EAtStep(r)'
      BY <1>1, <1>2, <2>1, <2>2, <2>5 DEF E2EAtStep
    <3>2. report'[r] = NoEvidence
      BY <1>1, <1>2 DEF E2EOK, E2EReported, LiveE2E
    <3>3. pc'[r] # "idle"
      BY <2>2 DEF PipelineInv, PipelineTypeOK
    <3> QED BY <3>1, <3>2, <3>3 DEF E2EOK
  <2> QED BY <1>1, <2>2, <2>3, <2>6, AloneStep
<1>4. CASE DemoEvidence(r)
  <2>1. /\ evidence' = Build(l.file) /\ artifact' = artifact /\ l.file = artifact
        /\ \/ AfterEvidence(Tool(r), l.file) = "finish" /\ Finish(r)
           \/ Wait(r, "pending", l)
    BY <1>1, <1>4, AloneKnown DEF DemoEvidence, At, FileAtLabel
  <2>2. CASE AfterEvidence(Tool(r), l.file) = "finish" /\ Finish(r)
    <3>1. ASSUME Script[r] = LiveE2E, step'[r] = step[r] + 1 PROVE E2EAtStep(r)'
      <4>1. artifact.checked = "signed"
        BY <1>2, <2>1, <2>2, <3>1 DEF AfterEvidence
      <4> QED BY <1>1, <1>2, <2>1, <3>1, <4>1 DEF E2EAtStep
    <3> QED BY <1>1, <1>2, <2>2, <3>1, AloneFinish
  <2>3. CASE Wait(r, "pending", l)
    <3>1. /\ pc' = [pc EXCEPT ![r] = "pending"] /\ step' = step /\ local'[r] = l
          /\ \A q \in Runs \ {r} : local'[q] = local[q]
      BY <2>3 DEF Wait, PipelineInv, PipelineTypeOK
    <3>2. FileAtLabel("pending", local[r])'
      BY <2>1, <3>1 DEF FileAtLabel
    <3>3. E2EOK(r)'
      <4> SUFFICES ASSUME Script[r] = LiveE2E PROVE E2EOK(r)'
        BY DEF E2EOK
      <4>1. E2EAtStep(r)'
        BY <1>1, <1>2, <2>1, <3>1 DEF E2EAtStep
      <4>2. report'[r] = NoEvidence
        BY <1>1, <1>2 DEF E2EOK, E2EReported, LiveE2E
      <4>3. pc'[r] # "idle"
        BY <3>1 DEF PipelineInv, PipelineTypeOK
      <4> QED BY <4>1, <4>2, <4>3 DEF E2EOK
    <3> QED BY <1>1, <3>1, <3>2, <3>3, AloneStep
  <2> QED BY <2>1, <2>2, <2>3
<1> QED BY <1>3, <1>4

\* Alone, what live-e2e prints is of what it published.
LEMMA VerifyAlone ==
    ASSUME ~ Together, PipelineInv, SequentialInv, NEW r \in Runs,
           VerifyCount(r) \/ Report(r)
    PROVE  SequentialInv'
<1> DEFINE l == local[r]
<1>1. Running(r) /\ Finish(r) /\ fresh' = fresh /\ artifact' = artifact /\ evidence' = evidence
  BY DEF VerifyCount, Report, At, Running, files, told
<1>2. CASE VerifyCount(r)
  <2>1. report' = report /\ l.file.ingested = l.file.source /\ l.file = artifact
    BY <1>1, <1>2, Known, AloneKnown
       DEF VerifyCount, At, told, LocalsAtLabel, FileAtLabel
  <2>2. ASSUME Script[r] = LiveE2E, step'[r] = step[r] + 1 PROVE E2EAtStep(r)'
    <3>1. step[r] = 5 /\ E2EAtStep(r)
      BY <1>1, <1>2, <2>2, E2ESteps, AloneKnown DEF VerifyCount, At, PipelineInv
    <3> QED BY <1>1, <2>1, <2>2, <3>1 DEF E2EAtStep
  <2>3. Script[r] = LiveE2E => step[r] # 6
    BY <1>2, E2ESteps DEF VerifyCount, At, PipelineInv
  <2> QED BY <1>1, <2>1, <2>2, <2>3, AloneFinish
<1>3. CASE Report(r)
  <2>1. report' = [report EXCEPT ![r] = evidence] /\ report'[r] = evidence
    BY <1>3, Known DEF Report
  <2>2. ASSUME Script[r] = LiveE2E
        PROVE  step[r] = 6 /\ (step'[r] = step[r] => E2EReported(r)')
    <3>1. step[r] = 6 /\ E2EAtStep(r)
      BY <1>1, <1>3, <2>2, E2ESteps, AloneKnown DEF Report, At, PipelineInv
    <3>2. /\ fresh[r] # 0 /\ artifact.source = fresh[r] /\ artifact.approval = fresh[r]
          /\ artifact.ingested = fresh[r] /\ artifact.checked = "signed"
          /\ evidence = Build(artifact)
      BY <3>1 DEF E2EAtStep
    <3>3. artifact.executed = fresh[r]
      BY <3>2, Known DEF ArtifactOK
    <3>4. /\ evidence.source = fresh[r] /\ evidence.approval = fresh[r]
          /\ evidence.ingested = fresh[r] /\ evidence.executed = fresh[r] /\ evidence.signer
      BY <3>2, <3>3 DEF Build
    <3> QED BY <1>1, <2>1, <3>1, <3>2, <3>4 DEF E2EReported, LiveE2E
  <2>3. Script[r] = LiveE2E => step'[r] = step[r]
    <3> SUFFICES ASSUME Script[r] = LiveE2E PROVE step'[r] = step[r]
      OBVIOUS
    <3>1. step[r] = 6 /\ Len(Script[r]) = 6
      BY <2>2, E2ESteps DEF PipelineInv
    <3> QED BY <1>1, <3>1 DEF Finish
  <2>4. \A q \in Runs \ {r} : report'[q] = report[q]
    BY <2>1, Known
  <2> QED BY <1>1, <2>2, <2>3, <2>4, AloneFinish
<1> QED BY <1>2, <1>3

\* A run begins when no other is running; the world has no part in it.
LEMMA RestAlone ==
    ASSUME ~ Together, PipelineInv, SequentialInv,
           (\E r \in Runs : Begin(r) \/ Stop(r)) \/ World \/ UNCHANGED pipelineVars
    PROVE  SequentialInv'
<1>1. ASSUME NEW r \in Runs, Begin(r) PROVE SequentialInv'
  <2>1. /\ pc[r] = "idle" /\ (\A q \in Runs : ~ Running(q))
        /\ pc' = [pc EXCEPT ![r] = "start"] /\ step' = step
        /\ artifact' = artifact /\ evidence' = evidence /\ fresh' = fresh /\ report' = report
    BY <1>1 DEF Begin, Wait, files, told
  <2>2. pc'[r] = "start" /\ \A q \in Runs : q # r => pc'[q] = pc[q] /\ ~ Running(q)'
    BY <2>1 DEF PipelineInv, PipelineTypeOK, Running
  <2>3. ASSUME NEW q \in Runs, Running(q)' PROVE FileAtLabel(pc[q], local[q])'
    BY <2>2, <2>3 DEF FileAtLabel
  <2>4. ASSUME NEW q \in Runs PROVE E2EOK(q)'
    <3>1. E2EOK(q)
      BY SequentialParts
    <3>2. CASE q = r
      <4>1. Script[r] = LiveE2E => step[r] = 1
        BY <2>1, <3>1, <3>2 DEF E2EOK
      <4>2. Script[r] = LiveE2E => E2EAtStep(r)'
        BY <2>1, <4>1 DEF E2EAtStep
      <4>3. E2EReported(r) => E2EReported(r)'
        BY <2>1 DEF E2EReported
      <4>4. E2EOK(r)'
        BY <2>1, <2>2, <3>1, <3>2, <4>2, <4>3 DEF E2EOK
      <4> QED BY <3>2, <4>4
    <3>3. CASE q # r
      BY <2>1, <2>2, <3>1, <3>3 DEF E2EOK, E2EReported
    <3> QED BY <3>2, <3>3
  <2> QED BY <2>2, <2>3, <2>4, SequentialPartsNext
<1>2. ASSUME NEW r \in Runs, Stop(r) PROVE SequentialInv'
  BY <1>2, AloneWait DEF Stop
<1>3. CASE World \/ UNCHANGED pipelineVars
  <2>1. /\ pc' = pc /\ step' = step /\ local' = local /\ artifact' = artifact
        /\ evidence' = evidence /\ fresh' = fresh /\ report' = report
    BY <1>3 DEF World, pipelineVars, files, told
  <2> QED BY <2>1
          DEF SequentialInv, Running, FileAtLabel, E2EAtStep, E2EReported
<1> QED BY <1>1, <1>2, <1>3

\* Nothing is said when nothing was run.
LEMMA InitImpliesSequential ==
    PipelineInit => SequentialInv
BY DEF PipelineInit, SequentialInv, Running

\* SequentialInv is inductive, given PipelineInv.
LEMMA NextPreservesSequential ==
    PipelineInv /\ SequentialInv /\ [PipelineNext]_pipelineVars => SequentialInv'
<1> SUFFICES ASSUME PipelineInv, SequentialInv, [PipelineNext]_pipelineVars
             PROVE  SequentialInv'
  OBVIOUS
<1>1. CASE Together
  BY <1>1 DEF SequentialInv
<1>2. CASE ~ Together
  <2>1. ASSUME NEW r \in Runs, ToolStep(r) PROVE SequentialInv'
    BY <1>2, <2>1, PublishAlone, ReadAlone, GoOnAlone, WriteAlone, DemoAlone, VerifyAlone
       DEF ToolStep
  <2>2. ASSUME (\E r \in Runs : Begin(r) \/ Stop(r)) \/ World \/ UNCHANGED pipelineVars
        PROVE  SequentialInv'
    BY <1>2, <2>2, RestAlone
  <2> QED BY <2>1, <2>2 DEF PipelineNext
<1> QED BY <1>1, <1>2

\* With one terminal at a time: the file in a tool's memory is the one on disk, or becomes it, and
\* each step of live-e2e finds what the one before has left.
THEOREM SequentialInvariance == PipelineSpec => []SequentialInv
<1>1. PipelineInit => SequentialInv
  BY InitImpliesSequential
<1>2. PipelineInv /\ SequentialInv /\ [PipelineNext]_pipelineVars => SequentialInv'
  BY NextPreservesSequential
<1> QED BY <1>1, <1>2, PipelineInvariance, PTL DEF PipelineSpec

\* With one terminal at a time, what live-e2e prints is of the authorization that this run
\* published, and of all its tools, whatever was left in build/ and however often it was run.
THEOREM E2EIsFresh == PipelineSpec => []FreshE2E
<1>1. SequentialInv => FreshE2E
  BY DEF SequentialInv, FreshE2E, E2EReported
<1> QED BY <1>1, SequentialInvariance, PTL

\* With one terminal at a time, only a new publication removes an execution result.
THEOREM ResultsAreKept == PipelineSpec => ExecutionKept
<1>1. PipelineInv /\ SequentialInv /\ [PipelineNext]_pipelineVars /\ ~ Together
      /\ artifact.executed # 0 =>
          artifact'.executed = artifact.executed \/ artifact'.source # artifact.source
  <2> SUFFICES ASSUME PipelineInv, SequentialInv, [PipelineNext]_pipelineVars, ~ Together,
                      artifact.executed # 0, artifact' # artifact
               PROVE  \/ artifact'.executed = artifact.executed
                      \/ artifact'.source # artifact.source
    OBVIOUS
  <2>1. PICK r \in Runs : PublishWrite(r) \/ IngestWrite(r) \/ ApproveWrite(r) \/ DemoSave(r)
    <3>1. ~ World /\ ~ UNCHANGED pipelineVars
      BY DEF World, pipelineVars, files
    <3> QED BY <3>1
            DEF PipelineNext, ToolStep, files, Begin, Stop, PublishCount, PublishPredict,
                PublishMined, IngestRead, IngestReceipt, IngestProof, IngestSubmit, ApproveRead,
                DemoRead, DemoPreflight, DemoEvidence, DemoPending, DemoSend, DemoMined,
                VerifyRead, VerifySource, VerifyIngested, VerifyTransaction, VerifyReceipt,
                VerifyLatest, VerifyCount, Report
  <2> DEFINE l == local[r]
  <2>2. Running(r)
    BY <2>1 DEF PublishWrite, IngestWrite, ApproveWrite, DemoSave, At, Running
  <2>3. FileAtLabel(pc[r], l) /\ l.file \in Artifacts /\ ArtifactOK(artifact)
        /\ artifact \in Artifacts
    BY <2>2, AloneKnown, Known
  <2>4. CASE PublishWrite(r)
    <3>1. l.mined > artifact.source
      BY <2>3, <2>4 DEF PublishWrite, At, FileAtLabel
    <3>2. artifact'.source = l.mined
      BY <2>4 DEF PublishWrite, PublishedArtifact, NoArtifact
    <3>3. l.mined \in Nat /\ artifact.source \in Nat
      BY <2>3, Known DEF Locals, Artifacts
    <3> QED BY <3>1, <3>2, <3>3
  <2>5. CASE IngestWrite(r)
    BY <2>3, <2>5 DEF IngestWrite, At, FileAtLabel, Ingested, Artifacts
  <2>6. CASE ApproveWrite(r)
    BY <2>3, <2>6 DEF ApproveWrite, At, FileAtLabel, Approved, Artifacts
  <2>7. CASE DemoSave(r)
    <3>1. artifact' \in {Preflighted(artifact), WithExecution(artifact)}
      BY <2>3, <2>7 DEF DemoSave, At, FileAtLabel
    <3>2. artifact.executed = artifact.source
      BY <2>3 DEF ArtifactOK, OfOneAuthorization
    <3> QED BY <2>3, <3>1, <3>2 DEF Preflighted, WithExecution, Artifacts
  <2> QED BY <2>1, <2>4, <2>5, <2>6, <2>7
<1> QED BY <1>1, PipelineInvariance, SequentialInvariance, PTL DEF PipelineSpec, ExecutionKept

-----------------------------------------------------------------------------
(* Refinement                                                               *)

\* While nothing is recorded, and what is final stays where it is, publications only become final.
LEMMA LedgerAdvances ==
    ASSUME PipelineInv, recorded' = recorded, expired \subseteq expired',
           \A id \in Finalized : Provable(id)' /\ published'[id].block = published[id].block
    PROVE  Ledger!Advance
<1>1. \A id \in Finalized : id \in Finalized' /\ AsPublication(id)' = AsPublication(id)
  BY DEF Finalized, AsPublication, Provable
<1>2. recorded \subseteq Finalized
  BY DEF PipelineInv, ChainsOK, Finalized, Provable
<1>3. {AsPublication(id) : id \in Finalized} \subseteq {AsPublication(id) : id \in Finalized}'
  BY <1>1
<1>4. {AsPublication(id) : id \in recorded}' = {AsPublication(id) : id \in recorded}
  BY <1>1, <1>2
<1>5. {AsPublication(id) : id \in Finalized \cap expired}
          \subseteq {AsPublication(id) : id \in Finalized \cap expired}'
  BY <1>1
<1>6. {AsPublication(id) : id \in Finalized \cap expired}'
          \subseteq {AsPublication(id) : id \in Finalized}'
  OBVIOUS
<1>7. Ledger!OneOfASlot({AsPublication(id) : id \in Finalized}')
  BY DEF Ledger!OneOfASlot, AsPublication
<1> QED BY <1>3, <1>4, <1>5, <1>6, <1>7 DEF Ledger!Advance

\* A publication that is final and neither recorded nor expired is recorded.
LEMMA LedgerRecords ==
    ASSUME NEW id, Provable(id), Recordable(id), recorded' = recorded \cup {id},
           UNCHANGED <<published, final, expired>>
    PROVE  \E p \in {AsPublication(i) : i \in Finalized} : Ledger!Record(p)
<1>1. \A i, j : AsPublication(i) = AsPublication(j) => i = j
  BY DEF AsPublication
<1>2. \A i : AsPublication(i)' = AsPublication(i)
  BY DEF AsPublication
<1>3. Finalized' = Finalized /\ id \in Finalized
  BY DEF Finalized, Provable, Id
<1>4. AsPublication(id) \notin {AsPublication(i) : i \in recorded}
                               \cup {AsPublication(i) : i \in Finalized \cap expired}
  BY <1>1 DEF Recordable
<1>5. {AsPublication(i) : i \in recorded}'
          = {AsPublication(i) : i \in recorded} \cup {AsPublication(id)}
  BY <1>2
<1>6. /\ {AsPublication(i) : i \in Finalized}' = {AsPublication(i) : i \in Finalized}
      /\ {AsPublication(i) : i \in Finalized \cap expired}'
            = {AsPublication(i) : i \in Finalized \cap expired}
  BY <1>2, <1>3
<1>7. Ledger!Record(AsPublication(id))
  BY <1>4, <1>5, <1>6 DEF Ledger!Record
<1> QED BY <1>3, <1>7

\* Whatever the chains do by themselves, the ledger goes on.
LEMMA WorldKeepsLedger ==
    ASSUME PipelineInv, World
    PROVE  Ledger!LedgerNext
<1>1. PipelineTypeOK /\ published \in Seq([nonce: Nat, block: Nat]) /\ final \in Nat
  BY DEF PipelineInv, PipelineTypeOK
<1>2. CASE Remine
  <2>0. PICK id \in Id : /\ ~ Provable(id)
                         /\ \E b \in BlocksFor(id) :
                               published' = [published EXCEPT ![id].block = b]
    BY <1>2 DEF Remine
  <2>1. PICK b \in BlocksFor(id) :
            ~ Provable(id) /\ published' = [published EXCEPT ![id].block = b]
    BY <2>0
  <2>2. UNCHANGED <<recorded, expired, final>>
    BY <1>2 DEF Remine
  <2>3. ASSUME NEW i \in Finalized
        PROVE  Provable(i)' /\ published'[i].block = published[i].block
    <3>1. i # id /\ i \in Id /\ i \in DOMAIN published
      BY <2>1, <1>1 DEF Finalized, Id
    <3>2. published'[i] = published[i] /\ Len(published') = Len(published)
      BY <2>1, <3>1, <1>1
    <3> QED BY <2>2, <2>3, <3>1, <3>2 DEF Finalized, Provable, Id
  <2> QED BY <2>2, <2>3, LedgerAdvances DEF Ledger!LedgerNext
<1>3. CASE Attest
  <2>1. /\ UNCHANGED <<published, recorded, expired>>
        /\ final' = final + 1
    BY <1>3 DEF Attest
  <2>2. \A i \in Finalized : Provable(i)' /\ published'[i].block = published[i].block
    BY <2>1, <1>1, Published DEF Finalized, Provable, Id
  <2> QED BY <2>1, <2>2, LedgerAdvances DEF Ledger!LedgerNext
<1>4. CASE RecordedByOther
  BY <1>4, LedgerRecords DEF RecordedByOther, Ledger!LedgerNext
<1>5. CASE Expire \/ ForeignSend \/ DropExecution
  <2>1. UNCHANGED <<published, final, recorded>> /\ expired \subseteq expired'
    BY <1>5 DEF Expire, ForeignSend, DropExecution
  <2>2. \A i \in Finalized : Provable(i)' /\ published'[i].block = published[i].block
    BY <2>1 DEF Finalized, Provable, Id
  <2> QED BY <2>1, <2>2, LedgerAdvances DEF Ledger!LedgerNext
<1> QED BY <1>2, <1>3, <1>4, <1>5 DEF World

\* No tool touches what is final, and none records what another has, or what has expired.
LEMMA ToolKeepsLedger ==
    ASSUME PipelineInv, NEW r \in Runs, Begin(r) \/ ToolStep(r) \/ Stop(r)
    PROVE  Ledger!LedgerNext
<1>1. PipelineTypeOK /\ published \in Seq([nonce: Nat, block: Nat])
  BY DEF PipelineInv, PipelineTypeOK
<1>2. CASE UNCHANGED <<published, final, recorded, expired>>
  <2>1. \A i \in Finalized : Provable(i)' /\ published'[i].block = published[i].block
    BY <1>2 DEF Finalized, Provable, Id
  <2> QED BY <1>2, <2>1, LedgerAdvances DEF Ledger!LedgerNext
<1>3. CASE PublishMined(r)
  <2>1. PICK b : Publish(ExecutionNonce(local[r].count), b)
    BY <1>3 DEF PublishMined
  <2>2. UNCHANGED <<final, recorded, expired>>
    BY <1>3 DEF PublishMined
  <2>3. ASSUME NEW i \in Finalized
        PROVE  Provable(i)' /\ published'[i].block = published[i].block
    <3>1. i \in 1..Len(published) /\ published[i].block <= final
      BY DEF Finalized, Provable, Id
    <3>2. published' = Append(published, [nonce |-> ExecutionNonce(local[r].count), block |-> b])
      BY <2>1 DEF Publish
    <3>3. published'[i] = published[i] /\ Len(published') = Len(published) + 1
      BY <1>1, <3>1, <3>2
    <3> QED BY <1>1, <2>2, <3>1, <3>3 DEF Provable, Id
  <2> QED BY <2>2, <2>3, LedgerAdvances DEF Ledger!LedgerNext
<1>4. CASE IngestSubmit(r)
  <2>1. LocalsAtLabel(pc[r], local[r]) /\ pc[r] = "submit"
    BY <1>4 DEF PipelineInv, LocalsOK, IngestSubmit, At
  <2>2. Provable(local[r].id)
    BY <2>1 DEF LocalsAtLabel
  <2>3. /\ Recordable(local[r].id) /\ recorded' = recorded \cup {local[r].id}
        /\ UNCHANGED <<published, final, expired>>
    BY <1>4 DEF IngestSubmit
  <2> QED BY <2>2, <2>3, LedgerRecords DEF Ledger!LedgerNext
<1>5. PublishMined(r) \/ IngestSubmit(r) \/ UNCHANGED <<published, final, recorded, expired>>
  BY DEF Begin, Stop, ToolStep, chains, PublishCount, PublishPredict, PublishWrite, IngestRead,
         IngestReceipt, IngestProof, IngestWrite, ApproveRead, ApproveWrite, DemoRead,
         DemoPreflight, DemoSave, DemoEvidence, DemoPending, DemoSend, DemoMined, VerifyRead,
         VerifySource, VerifyIngested, VerifyTransaction, VerifyReceipt, VerifyLatest, VerifyCount,
         Report
<1> QED BY <1>2, <1>3, <1>4, <1>5

\* With any number of tools, killed anywhere, coming late with what they read long ago, the
\* tools and their chains keep the ledger that the contracts keep.
THEOREM PipelineIsLedger == PipelineSpec => PipelineKeepsLedger
<1> DEFINE F == {AsPublication(id) : id \in Finalized}
           R == {AsPublication(id) : id \in recorded}
           X == {AsPublication(id) : id \in Finalized \cap expired}
<1>1. PipelineInit => Ledger!LedgerInit
  BY DEF PipelineInit, Ledger!LedgerInit, Finalized, Id
<1>2. PipelineInv /\ [PipelineNext]_pipelineVars => [Ledger!LedgerNext]_<<F, R, X>>
  <2> SUFFICES ASSUME PipelineInv, [PipelineNext]_pipelineVars
               PROVE  Ledger!LedgerNext \/ UNCHANGED <<F, R, X>>
    OBVIOUS
  <2>1. CASE UNCHANGED pipelineVars
    BY <2>1 DEF pipelineVars, chains, AsPublication, Finalized, Provable, Id
  <2>2. CASE World
    BY <2>2, WorldKeepsLedger
  <2>3. ASSUME NEW r \in Runs, Begin(r) \/ ToolStep(r) \/ Stop(r)
        PROVE  Ledger!LedgerNext
    BY <2>3, ToolKeepsLedger
  <2> QED BY <2>1, <2>2, <2>3 DEF PipelineNext
<1> QED BY <1>1, <1>2, PipelineInvariance, PTL
        DEF PipelineSpec, PipelineKeepsLedger, Ledger!LedgerSpec

-----------------------------------------------------------------------------
(* Runs go forward                                                          *)

\* The stages left at each label.
LEMMA StagesAtLabel ==
    ASSUME NEW l
    PROVE  /\ StagesFrom("start", l) = 11 /\ StagesFrom("preflight", l) = 10
           /\ StagesFrom("save", l) = IF l.file.checked = "signed" THEN 2 ELSE 9
           /\ StagesFrom("evidence", l) = IF l.file.checked = "signed" THEN 1 ELSE 8
           /\ StagesFrom("pending", l) = 7 /\ StagesFrom("guard", l) = 6
           /\ StagesFrom("source", l) = 6
           /\ StagesFrom("execution", l) = 5 /\ StagesFrom("ingested", l) = 5
           /\ StagesFrom("predict", l) = 4 /\ StagesFrom("receipt", l) = 4
           /\ StagesFrom("executed", l) = 4
           /\ StagesFrom("mine", l) = 3 /\ StagesFrom("proof", l) = 3
           /\ StagesFrom("landed", l) = 3
           /\ StagesFrom("compare", l) = 2 /\ StagesFrom("submit", l) = 2
           /\ StagesFrom("latest", l) = 2
           /\ StagesFrom("readback", l) = 1 /\ StagesFrom("signature", l) = 1
           /\ StagesFrom("counted", l) = 1
  BY DEF StagesFrom

WorkLabels == UNION {Labels[t] : t \in Tools}

LEMMA WorkLabelsAre ==
    WorkLabels =
        {"start", "preflight", "save", "evidence", "pending", "guard", "execution", "predict",
         "receipt", "mine", "proof", "source", "compare", "submit", "ingested", "readback",
         "signature", "executed", "landed", "latest", "counted"}
<1> DEFINE Listed ==
        {"start", "preflight", "save", "evidence", "pending", "guard", "execution", "predict",
         "receipt", "mine", "proof", "source", "compare", "submit", "ingested", "readback",
         "signature", "executed", "landed", "latest", "counted"}
<1>1. ASSUME NEW x \in WorkLabels PROVE x \in Listed
  BY DEF WorkLabels, Labels, Tools
<1>2. Listed \subseteq WorkLabels
  BY DEF WorkLabels, Labels, Tools
<1> QED BY <1>1, <1>2

\* A tool at work has a stage left, and no tool has more than eleven.
LEMMA StagesBounded ==
    ASSUME NEW x \in WorkLabels, NEW l
    PROVE  StagesFrom(x, l) \in 1..11
<1>1. CASE x = "save"
  BY <1>1, StagesAtLabel
<1>2. CASE x = "evidence"
  BY <1>2, StagesAtLabel
<1>3. CASE x \notin {"save", "evidence"}
  BY <1>3, StagesAtLabel, WorkLabelsAre
<1> QED BY <1>1, <1>2, <1>3

\* The steps left in each phase of a run.
LEMMA StepsAtWork ==
    ASSUME NEW r \in Runs, NEW s, NEW l, NEW x \in WorkLabels
    PROVE  StepsFrom(r, x, s, l) = 11 * (Len(Script[r]) - s) + StagesFrom(x, l)
<1>1. x # "idle" /\ x \notin {"done", "stopped"}
  BY WorkLabelsAre
<1> HIDE DEF StagesFrom
<1> QED BY <1>1 DEF StepsFrom

LEMMA StepsOutside ==
    ASSUME NEW r \in Runs, NEW s, NEW l
    PROVE  /\ StepsFrom(r, "idle", s, l) = 11 * Len(Script[r]) + 1
           /\ StepsFrom(r, "done", s, l) = 0 /\ StepsFrom(r, "stopped", s, l) = 0
  BY DEF StepsFrom

\* Run r alone goes on, and comes nearer to its end.
Nearer(r) ==
    /\ \A q \in Runs \ {r} : UNCHANGED <<pc[q], step[q], local[q]>>
    /\ StepsLeft(r)' < StepsLeft(r)

\* What the sums of tools and stages compare as.
LEMMA SumsCompare ==
    ASSUME NEW n \in Nat, NEW a \in 1..11
    PROVE  /\ 11 * n + a > 0
           /\ \A b \in 1..11 : b < a => 11 * n + b < 11 * n + a
           /\ \A k \in Nat, j \in Nat : n = k - j /\ j < k => 11 * (k - (j + 1)) + 11 < 11 * n + a
  OBVIOUS

\* A run that has not ended has steps left.
LEMMA StepsOfRunning ==
    ASSUME PipelineTypeOK, NEW r \in Runs, pc[r] \notin {"idle", "done", "stopped"}
    PROVE  /\ pc[r] \in WorkLabels
           /\ Len(Script[r]) - step[r] \in Nat
           /\ StagesFrom(pc[r], local[r]) \in 1..11
           /\ StepsLeft(r) = 11 * (Len(Script[r]) - step[r]) + StagesFrom(pc[r], local[r])
<1>1. pc[r] \in WorkLabels
  BY DEF PipelineTypeOK, WorkLabels
<1>2. step[r] \in 1..Len(Script[r]) /\ Len(Script[r]) \in Nat
  BY ToolIsTool
<1>3. StepsLeft(r) = 11 * (Len(Script[r]) - step[r]) + StagesFrom(pc[r], local[r])
  BY <1>1, StepsAtWork DEF StepsLeft
<1>4. StagesFrom(pc[r], local[r]) \in 1..11
  BY <1>1, StagesBounded
<1>5. Len(Script[r]) - step[r] \in Nat
  BY <1>2
<1> QED BY <1>1, <1>3, <1>4, <1>5

\* A tool that waits for its next answer has a stage less.
LEMMA WaitNearer ==
    ASSUME PipelineTypeOK, NEW r \in Runs, NEW l, NEW x \in WorkLabels, Wait(r, x, l),
           pc[r] \notin {"idle", "done", "stopped"},
           StagesFrom(x, l) < StagesFrom(pc[r], local[r])
    PROVE  Nearer(r)
<1>1. /\ pc'[r] = x /\ local'[r] = l /\ step' = step
      /\ \A q \in Runs \ {r} : pc'[q] = pc[q] /\ local'[q] = local[q]
  BY DEF Wait, PipelineTypeOK
<1>2. StepsLeft(r)' = 11 * (Len(Script[r]) - step[r]) + StagesFrom(x, l)
  BY <1>1, StepsAtWork DEF StepsLeft
<1>3. StagesFrom(x, l) \in 1..11
  BY StagesBounded
<1>4. /\ StepsLeft(r) = 11 * (Len(Script[r]) - step[r]) + StagesFrom(pc[r], local[r])
      /\ StagesFrom(pc[r], local[r]) \in 1..11 /\ Len(Script[r]) - step[r] \in Nat
  BY StepsOfRunning
<1>5. StepsLeft(r)' < StepsLeft(r)
  BY <1>2, <1>3, <1>4, SumsCompare
<1> QED BY <1>1, <1>5 DEF Nearer

\* A tool that ends well leaves eleven stages less, and the next one has no more.
LEMMA FinishNearer ==
    ASSUME PipelineTypeOK, NEW r \in Runs, Finish(r),
           pc[r] \notin {"idle", "done", "stopped"}
    PROVE  Nearer(r)
<1>0. /\ pc \in [Runs -> {"idle", "done", "stopped"} \cup WorkLabels]
      /\ step \in [Runs -> Nat \ {0}] /\ local \in [Runs -> Locals]
  BY DEF PipelineTypeOK, WorkLabels
<1>1. \A q \in Runs \ {r} : UNCHANGED <<pc[q], step[q], local[q]>>
  BY <1>0 DEF Finish
<1>s. /\ StepsLeft(r) = 11 * (Len(Script[r]) - step[r]) + StagesFrom(pc[r], local[r])
      /\ StagesFrom(pc[r], local[r]) \in 1..11 /\ Len(Script[r]) - step[r] \in Nat
      /\ Len(Script[r]) \in Nat /\ step[r] \in Nat
  BY StepsOfRunning, ToolIsTool
<1>2. CASE step[r] < Len(Script[r]) /\ pc'[r] = "start" /\ step'[r] = step[r] + 1
  <2>1. StagesFrom("start", local'[r]) = 11
    BY StagesAtLabel
  <2>2. StepsLeft(r)' = 11 * (Len(Script[r]) - (step[r] + 1)) + 11
    BY <1>2, <2>1, StepsAtWork, WorkLabelsAre DEF StepsLeft
  <2>3. StepsLeft(r)' < StepsLeft(r)
    BY <1>2, <1>s, <2>2, SumsCompare
  <2> QED BY <1>1, <2>3 DEF Nearer
<1>3. CASE pc'[r] = "done"
  <2>1. StepsLeft(r)' = 0
    BY <1>3, StepsOutside DEF StepsLeft
  <2>2. StepsLeft(r)' < StepsLeft(r)
    BY <1>s, <2>1, SumsCompare
  <2> QED BY <1>1, <2>2 DEF Nearer
<1> QED BY <1>0, <1>2, <1>3 DEF Finish

\* Whatever a tool does brings its run nearer to the end.
LEMMA ToolNearer ==
    ASSUME PipelineTypeOK, NEW r \in Runs, ToolStep(r)
    PROVE  Nearer(r)
<1> DEFINE l == local[r]
<1>1. l \in Locals
  BY DEF PipelineTypeOK
<1>2. ASSUME NEW y \in WorkLabels, pc[r] = y, NEW x \in WorkLabels, NEW m, Wait(r, x, m),
             StagesFrom(x, m) < StagesFrom(y, l)
      PROVE  Nearer(r)
  BY <1>2, WaitNearer, WorkLabelsAre
<1>3. ASSUME PublishWrite(r) \/ IngestWrite(r) \/ ApproveWrite(r) \/ VerifyCount(r) \/ Report(r)
      PROVE  Nearer(r)
  BY <1>3, FinishNearer
     DEF PublishWrite, IngestWrite, ApproveWrite, VerifyCount, Report, At
<1>4. ASSUME PublishCount(r) \/ PublishPredict(r) \/ PublishMined(r)
      PROVE  Nearer(r)
  <2>1. CASE PublishCount(r)
    BY <1>2, <2>1, StagesAtLabel, WorkLabelsAre DEF PublishCount, At
  <2>2. CASE PublishPredict(r)
    BY <1>2, <2>2, StagesAtLabel, WorkLabelsAre DEF PublishPredict, At
  <2>3. CASE PublishMined(r)
    <3>1. PICK m : pc[r] = "mine" /\ Wait(r, "compare", m)
      BY <2>3 DEF PublishMined, At
    <3> QED BY <1>2, <3>1, StagesAtLabel, WorkLabelsAre
  <2> QED BY <1>4, <2>1, <2>2, <2>3
<1>5. ASSUME IngestRead(r) \/ IngestReceipt(r) \/ IngestProof(r) \/ IngestSubmit(r)
      PROVE  Nearer(r)
  <2>1. CASE IngestRead(r)
    <3>1. PICK m : pc[r] = "start" /\ Wait(r, "receipt", m)
      BY <2>1 DEF IngestRead, At
    <3> QED BY <1>2, <3>1, StagesAtLabel, WorkLabelsAre
  <2>2. CASE IngestReceipt(r)
    BY <1>2, <2>2, StagesAtLabel, WorkLabelsAre DEF IngestReceipt, At
  <2>3. CASE IngestProof(r)
    BY <1>2, <2>3, StagesAtLabel, WorkLabelsAre DEF IngestProof, At
  <2>4. CASE IngestSubmit(r)
    BY <1>2, <2>4, StagesAtLabel, WorkLabelsAre DEF IngestSubmit, At
  <2> QED BY <1>5, <2>1, <2>2, <2>3, <2>4
<1>6. ASSUME ApproveRead(r)
      PROVE  Nearer(r)
  BY <1>2, <1>6, StagesAtLabel, WorkLabelsAre DEF ApproveRead, At
<1>7. ASSUME DemoRead(r) \/ DemoPreflight(r) \/ DemoSave(r) \/ DemoEvidence(r)
      PROVE  Nearer(r)
  <2>1. CASE DemoRead(r)
    BY <1>2, <2>1, StagesAtLabel, WorkLabelsAre DEF DemoRead, At
  <2>2. CASE DemoPreflight(r)
    <3> DEFINE m == [l EXCEPT !.file = Preflighted(@)]
    <3>1. pc[r] = "preflight" /\ Wait(r, "save", m)
      BY <2>2 DEF DemoPreflight, At
    <3> HIDE DEF m
    <3>2. StagesFrom("save", m) \in {2, 9} /\ StagesFrom("preflight", l) = 10
      BY StagesAtLabel
    <3> QED BY <1>2, <3>1, <3>2, WorkLabelsAre
  <2>3. CASE DemoSave(r)
    <3>1. pc[r] = "save" /\ Wait(r, "evidence", l)
      BY <2>3 DEF DemoSave, At
    <3>2. StagesFrom("evidence", l) < StagesFrom("save", l)
      <4>1. CASE l.file.checked = "signed"
        BY <4>1, StagesAtLabel
      <4>2. CASE l.file.checked # "signed"
        BY <4>2, StagesAtLabel
      <4> QED BY <4>1, <4>2
    <3> QED BY <1>2, <3>1, <3>2, WorkLabelsAre
  <2>4. CASE DemoEvidence(r)
    <3>1. pc[r] = "evidence"
      BY <2>4 DEF DemoEvidence, At
    <3>2. CASE Finish(r)
      BY <3>1, <3>2, FinishNearer
    <3>3. CASE AfterEvidence(Tool(r), l.file) = "pending" /\ Wait(r, "pending", l)
      <4>1. l.file.checked # "signed"
        BY <3>3 DEF AfterEvidence
      <4>2. StagesFrom("pending", l) = 7 /\ StagesFrom("evidence", l) = 8
        BY <4>1, StagesAtLabel
      <4> QED BY <1>2, <3>1, <3>3, <4>2, WorkLabelsAre
    <3> QED BY <2>4, <3>2, <3>3 DEF DemoEvidence
  <2> QED BY <1>7, <2>1, <2>2, <2>3, <2>4
<1>8. ASSUME DemoPending(r) \/ DemoSend(r) \/ DemoMined(r)
      PROVE  Nearer(r)
  <2>1. CASE DemoPending(r)
    BY <1>2, <2>1, StagesAtLabel, WorkLabelsAre DEF DemoPending, At
  <2>2. CASE DemoSend(r)
    BY <1>2, <2>2, StagesAtLabel, WorkLabelsAre DEF DemoSend, At
  <2>3. CASE DemoMined(r)
    <3> DEFINE m == [l EXCEPT !.file = WithExecution(@)]
    <3>1. pc[r] = "execution" /\ Wait(r, "save", m)
      BY <2>3 DEF DemoMined, At
    <3>2. m.file.checked = "signed"
      BY <1>1 DEF WithExecution, Locals, Artifacts
    <3> HIDE DEF m
    <3>3. StagesFrom("save", m) = 2 /\ StagesFrom("execution", l) = 5
      BY <3>2, StagesAtLabel
    <3> QED BY <1>2, <3>1, <3>3, WorkLabelsAre
  <2> QED BY <1>8, <2>1, <2>2, <2>3
<1>9. ASSUME \/ VerifyRead(r) \/ VerifySource(r) \/ VerifyIngested(r)
             \/ VerifyTransaction(r) \/ VerifyReceipt(r) \/ VerifyLatest(r)
      PROVE  Nearer(r)
  <2>1. CASE VerifyRead(r)
    BY <1>2, <2>1, StagesAtLabel, WorkLabelsAre DEF VerifyRead, At
  <2>2. CASE VerifySource(r)
    BY <1>2, <2>2, StagesAtLabel, WorkLabelsAre DEF VerifySource, At
  <2>3. CASE VerifyIngested(r)
    BY <1>2, <2>3, StagesAtLabel, WorkLabelsAre DEF VerifyIngested, At, AfterRecord
  <2>4. CASE VerifyTransaction(r)
    BY <1>2, <2>4, StagesAtLabel, WorkLabelsAre DEF VerifyTransaction, At
  <2>5. CASE VerifyReceipt(r)
    BY <1>2, <2>5, StagesAtLabel, WorkLabelsAre DEF VerifyReceipt, At
  <2>6. CASE VerifyLatest(r)
    BY <1>2, <2>6, StagesAtLabel, WorkLabelsAre DEF VerifyLatest, At
  <2> QED BY <1>9, <2>1, <2>2, <2>3, <2>4, <2>5, <2>6
<1> QED BY <1>3, <1>4, <1>5, <1>6, <1>7, <1>8, <1>9 DEF ToolStep

\* A run begins with all its steps before it, and is stopped with none.
LEMMA BeginStopNearer ==
    ASSUME PipelineTypeOK, NEW r \in Runs, Begin(r) \/ Stop(r),
           pc[r] = "idle" => step[r] = 1
    PROVE  Nearer(r)
<1>0. /\ pc \in [Runs -> {"idle", "done", "stopped"} \cup WorkLabels]
      /\ local \in [Runs -> Locals]
  BY DEF PipelineTypeOK, WorkLabels
<1>1. CASE Begin(r)
  <2>1. /\ pc[r] = "idle" /\ pc'[r] = "start" /\ step' = step /\ local'[r] = local[r]
        /\ \A q \in Runs \ {r} : UNCHANGED <<pc[q], local[q]>>
    BY <1>0, <1>1 DEF Begin, Wait
  <2>2. "start" \in WorkLabels /\ Len(Script[r]) \in Nat
    BY WorkLabelsAre, ToolIsTool
  <2>3. StepsLeft(r) = 11 * Len(Script[r]) + 1
    BY <2>1, StepsOutside DEF StepsLeft
  <2>4. StepsLeft(r)' = 11 * (Len(Script[r]) - 1) + StagesFrom("start", local'[r])
    BY <2>1, <2>2, StepsAtWork DEF StepsLeft
  <2>5. StepsLeft(r)' < StepsLeft(r)
    BY <2>2, <2>3, <2>4, StagesAtLabel
  <2> QED BY <2>1, <2>5 DEF Nearer
<1>2. CASE Stop(r)
  <2>1. /\ pc[r] \notin {"idle", "done", "stopped"} /\ pc'[r] = "stopped" /\ step' = step
        /\ \A q \in Runs \ {r} : UNCHANGED <<pc[q], local[q]>>
    BY <1>0, <1>2 DEF Stop, Wait, Running
  <2>2. StepsLeft(r)' = 0
    BY <2>1, StepsOutside DEF StepsLeft
  <2>3. /\ StepsLeft(r) = 11 * (Len(Script[r]) - step[r]) + StagesFrom(pc[r], local[r])
        /\ StagesFrom(pc[r], local[r]) \in 1..11 /\ Len(Script[r]) - step[r] \in Nat
    BY <2>1, StepsOfRunning
  <2>4. StepsLeft(r) > 0
    BY <2>3, SumsCompare
  <2> QED BY <2>1, <2>2, <2>4 DEF Nearer
<1> QED BY <1>1, <1>2

\* A run that has not begun is at its first step.
IdleAtFirst == \A r \in Runs : pc[r] = "idle" => step[r] = 1

LEMMA IdleStaysAtFirst == PipelineSpec => []IdleAtFirst
<1>1. PipelineInit => IdleAtFirst
  BY DEF PipelineInit, IdleAtFirst
<1>2. ASSUME PipelineTypeOK, IdleAtFirst, [PipelineNext]_pipelineVars
      PROVE  IdleAtFirst'
  <2>0. /\ pc \in [Runs -> {"idle", "done", "stopped"} \cup WorkLabels]
        /\ step \in [Runs -> Nat \ {0}]
    BY <1>2 DEF PipelineTypeOK, WorkLabels
  <2>1. ASSUME NEW r \in Runs, NEW x, NEW l, Wait(r, x, l), x # "idle"
        PROVE  IdleAtFirst'
    BY <1>2, <2>0, <2>1 DEF Wait, IdleAtFirst
  <2>2. ASSUME NEW r \in Runs, Finish(r)
        PROVE  IdleAtFirst'
    BY <1>2, <2>0, <2>2 DEF Finish, IdleAtFirst
  <2>3. ASSUME NEW r \in Runs, Begin(r) \/ Stop(r)
        PROVE  IdleAtFirst'
    BY <2>1, <2>3 DEF Begin, Stop
  <2>4. ASSUME NEW r \in Runs, ToolStep(r)
        PROVE  Finish(r) \/ \E x, l : x # "idle" /\ Wait(r, x, l)
    <3>1. CASE VerifyIngested(r)
      BY <3>1 DEF VerifyIngested, AfterRecord
    <3>2. CASE \/ VerifyRead(r) \/ VerifySource(r) \/ VerifyTransaction(r) \/ VerifyReceipt(r)
               \/ VerifyLatest(r) \/ VerifyCount(r) \/ Report(r)
      BY <3>2, Zenon DEF VerifyRead, VerifySource, VerifyTransaction, VerifyReceipt, VerifyLatest,
                         VerifyCount, Report
    <3> QED
      BY <2>4, <3>1, <3>2, Zenon
         DEF ToolStep, PublishCount, PublishPredict, PublishMined, PublishWrite, IngestRead,
             IngestReceipt, IngestProof, IngestSubmit, IngestWrite, ApproveRead, ApproveWrite,
             DemoRead, DemoPreflight, DemoSave, DemoEvidence, DemoPending, DemoSend, DemoMined
  <2>5. CASE World \/ UNCHANGED pipelineVars
    BY <1>2, <2>5 DEF World, pipelineVars, IdleAtFirst
  <2> QED BY <1>2, <2>1, <2>2, <2>3, <2>4, <2>5 DEF PipelineNext
<1> QED BY <1>1, <1>2, PipelineTypeCorrect, PTL DEF PipelineSpec

\* Every step of a run brings it nearer to its end, and nothing else moves it: a tool sends at
\* most once, and a script of n tools takes at most 11 * n + 1 steps.
THEOREM RunsOnlyGoForward == PipelineSpec => RunsGoForward
<1> DEFINE Forward ==
        \A r \in Runs :
            StepsLeft(r)' < StepsLeft(r) \/ UNCHANGED <<pc[r], step[r], local[r]>>
<1>1. ASSUME PipelineTypeOK, IdleAtFirst, PipelineNext PROVE Forward
  <2>1. ASSUME NEW r \in Runs, Begin(r) \/ ToolStep(r) \/ Stop(r) PROVE Forward
    <3>1. Nearer(r)
      BY <1>1, <2>1, ToolNearer, BeginStopNearer DEF IdleAtFirst
    <3> QED BY <3>1 DEF Nearer
  <2>2. CASE World
    BY <2>2 DEF World
  <2> QED BY <1>1, <2>1, <2>2 DEF PipelineNext
<1>2. ASSUME PipelineTypeOK, IdleAtFirst, [PipelineNext]_pipelineVars
      PROVE  [Forward]_pipelineVars
  BY <1>1, <1>2
<1> QED BY <1>2, PipelineTypeCorrect, IdleStaysAtFirst, PTL DEF PipelineSpec, RunsGoForward

-----------------------------------------------------------------------------
(* Nonces                                                                   *)

\* Steps that neither spend nor move an executed authorization, and do not turn the count back.
LEMMA NoncesStay ==
    ASSUME PipelineTypeOK, NonceSpentOnce, executed' = executed, count' \in Nat, count <= count',
           \A id \in executed : published'[id].nonce = published[id].nonce
    PROVE  NonceSpentOnce'
<1>1. count \in Nat /\ executed \subseteq Id
  BY DEF PipelineTypeOK
<1>2. \A id \in executed : published[id].nonce \in Nat
  BY <1>1, Published
<1> QED BY <1>1, <1>2 DEF NonceSpentOnce

\* A reorganisation takes back the last nonce of the account, and frees no other.
LEMMA DropFreesLast ==
    ASSUME PipelineTypeOK, NonceSpentOnce, DropExecution
    PROVE  NonceSpentOnce'
<1>1. PICK id \in executed : published[id].nonce + 1 = count /\ executed' = executed \ {id}
  BY DEF DropExecution
<1>2. count' = count - 1 /\ published' = published
  BY DEF DropExecution
<1>3. count \in Nat /\ executed \subseteq Id
  BY DEF PipelineTypeOK
<1>4. \A k \in executed : published[k].nonce \in Nat
  BY <1>3, Published
<1>5. ASSUME NEW k \in executed' PROVE published'[k].nonce < count'
  <2>1. k \in executed /\ k # id /\ published[k].nonce < count
    BY <1>1, <1>5 DEF NonceSpentOnce
  <2>2. published[k].nonce # published[id].nonce
    BY <1>1, <2>1 DEF NonceSpentOnce
  <2>3. published[k].nonce \in Nat /\ published[id].nonce \in Nat
    BY <1>1, <1>4, <2>1
  <2>4. published[k].nonce < count - 1
    <3>1. \A m, n, c \in Nat : m + 1 = c /\ n < c /\ n # m => n < c - 1
      OBVIOUS
    <3> QED BY <1>1, <1>3, <2>1, <2>2, <2>3, <3>1
  <2> QED BY <1>2, <2>4
<1>6. ASSUME NEW j \in executed', NEW k \in executed',
             published'[k].nonce = published'[j].nonce
      PROVE  k = j
  BY <1>1, <1>2, <1>6 DEF NonceSpentOnce
<1> QED BY <1>5, <1>6 DEF NonceSpentOnce

\* demo-verified-live sends at the account's count, past all nonces that are spent.
LEMMA SendSpendsNext ==
    ASSUME PipelineInv, NonceSpentOnce, NEW r \in Runs, DemoSend(r)
    PROVE  NonceSpentOnce'
<1> DEFINE id == local[r].file.source
<1>1. /\ published[id].nonce = count /\ count' = count + 1
      /\ executed' = executed \cup {id} /\ published' = published
  BY DEF DemoSend
<1>2. count \in Nat /\ executed \subseteq Id
  BY DEF PipelineInv, PipelineTypeOK
<1>3. \A k \in executed : published[k].nonce \in Nat /\ published[k].nonce < count
  BY <1>2, Published DEF NonceSpentOnce, PipelineInv
<1> HIDE DEF id
<1>4. \A k \in executed : published[k].nonce # published[id].nonce
  BY <1>1, <1>2, <1>3
<1>5. ASSUME NEW k \in executed' PROVE published'[k].nonce < count'
  BY <1>1, <1>2, <1>3, <1>5
<1>6. ASSUME NEW j \in executed', NEW k \in executed',
             published'[k].nonce = published'[j].nonce
      PROVE  k = j
  <2>1. CASE j \in executed /\ k \in executed
    BY <1>1, <1>6, <2>1 DEF NonceSpentOnce
  <2>2. CASE j = id \/ k = id
    BY <1>1, <1>4, <1>6, <2>2
  <2> QED BY <1>1, <2>1, <2>2
<1> QED BY <1>5, <1>6 DEF NonceSpentOnce

\* With any number of terminals and publications for the same nonce, the account never has two
\* of the authorizations executed at one nonce, nor one ahead of its count.
THEOREM NoncesSpentOnce == PipelineSpec => []NonceSpentOnce
<1>1. PipelineInit => NonceSpentOnce
  BY DEF PipelineInit, NonceSpentOnce
<1>2. ASSUME PipelineInv, NonceSpentOnce, [PipelineNext]_pipelineVars PROVE NonceSpentOnce'
  <2>1. PipelineTypeOK /\ published \in Seq([nonce: Nat, block: Nat]) /\ count \in Nat
        /\ executed \subseteq Id
    BY <1>2 DEF PipelineInv, PipelineTypeOK
  <2>2. CASE UNCHANGED <<published, executed, count>>
    BY <1>2, <2>1, <2>2, NoncesStay
  <2>3. CASE Remine
    <3>1. PICK id \in Id : \E b \in BlocksFor(id) : published' = [published EXCEPT ![id].block = b]
      BY <2>3 DEF Remine
    <3>2. PICK b \in BlocksFor(id) : published' = [published EXCEPT ![id].block = b]
      BY <3>1
    <3>3. \A k \in Id : published'[k].nonce = published[k].nonce
      <4> SUFFICES ASSUME NEW k \in Id PROVE published'[k].nonce = published[k].nonce
        OBVIOUS
      <4>1. k \in DOMAIN published /\ published[k] \in [nonce: Nat, block: Nat]
        BY <2>1, Published DEF Id
      <4> QED BY <3>2, <4>1
    <3>4. UNCHANGED <<executed, count>>
      BY <2>3 DEF Remine
    <3> QED BY <1>2, <2>1, <3>3, <3>4, NoncesStay
  <2>4. CASE ForeignSend
    BY <1>2, <2>1, <2>4, NoncesStay DEF ForeignSend
  <2>5. CASE DropExecution
    BY <1>2, <2>1, <2>5, DropFreesLast
  <2>6. ASSUME NEW r \in Runs, PublishMined(r) PROVE NonceSpentOnce'
    <3>1. PICK b : Publish(ExecutionNonce(local[r].count), b)
      BY <2>6 DEF PublishMined
    <3>2. /\ published' = Append(published, [nonce |-> ExecutionNonce(local[r].count), block |-> b])
          /\ count' = count + 1 /\ executed' = executed
      BY <2>6, <3>1 DEF Publish, PublishMined
    <3>3. \A k \in Id : published'[k] = published[k]
      BY <2>1, <3>2 DEF Id
    <3>4. \A k \in executed : published'[k].nonce = published[k].nonce
      BY <2>1, <3>3
    <3>5. count' \in Nat /\ count <= count'
      BY <2>1, <3>2
    <3> QED BY <1>2, <2>1, <3>2, <3>4, <3>5, NoncesStay
  <2>7. ASSUME NEW r \in Runs, DemoSend(r) PROVE NonceSpentOnce'
    BY <1>2, <2>7, SendSpendsNext
  <2>8. \/ UNCHANGED <<published, executed, count>>
        \/ Remine \/ ForeignSend \/ DropExecution
        \/ \E r \in Runs : PublishMined(r) \/ DemoSend(r)
    <3>1. CASE UNCHANGED pipelineVars
      BY <3>1 DEF pipelineVars, chains
    <3>2. CASE World
      BY <3>2 DEF World, Attest, Expire, RecordedByOther
    <3>3. ASSUME NEW r \in Runs, Begin(r) \/ ToolStep(r) \/ Stop(r)
          PROVE  PublishMined(r) \/ DemoSend(r) \/ UNCHANGED <<published, executed, count>>
      <4>1. CASE Begin(r) \/ Stop(r) \/ PublishCount(r) \/ PublishPredict(r) \/ PublishWrite(r)
        BY <4>1 DEF Begin, Stop, chains, PublishCount, PublishPredict, PublishWrite
      <4>2. CASE IngestReceipt(r) \/ IngestProof(r) \/ ApproveRead(r) \/ ApproveWrite(r)
        BY <4>2 DEF chains, IngestReceipt, IngestProof, ApproveRead, ApproveWrite
      <4>3. CASE IngestRead(r) \/ IngestWrite(r)
        <5>1. CASE IngestRead(r)
          BY <5>1 DEF chains, IngestRead
        <5>2. CASE IngestWrite(r)
          BY <5>2 DEF chains, IngestWrite
        <5> QED BY <4>3, <5>1, <5>2
      <4>4. CASE DemoRead(r) \/ DemoPreflight(r) \/ DemoSave(r) \/ DemoEvidence(r)
                 \/ DemoPending(r) \/ DemoMined(r)
        BY <4>4 DEF chains, DemoRead, DemoPreflight, DemoSave, DemoEvidence, DemoPending, DemoMined
      <4>5. CASE VerifyRead(r) \/ VerifySource(r) \/ VerifyIngested(r) \/ VerifyTransaction(r)
                 \/ VerifyReceipt(r) \/ VerifyLatest(r) \/ VerifyCount(r) \/ Report(r)
        BY <4>5 DEF chains, VerifyRead, VerifySource, VerifyIngested, VerifyTransaction,
                    VerifyReceipt, VerifyLatest, VerifyCount, Report
      <4>6. CASE IngestSubmit(r)
        BY <4>6 DEF IngestSubmit
      <4> QED BY <3>3, <4>1, <4>2, <4>3, <4>4, <4>5, <4>6 DEF ToolStep
    <3> QED BY <1>2, <3>1, <3>2, <3>3 DEF PipelineNext
  <2> QED BY <2>2, <2>3, <2>4, <2>5, <2>6, <2>7, <2>8
<1> QED BY <1>1, <1>2, PipelineInvariance, PTL DEF PipelineSpec

=============================================================================
