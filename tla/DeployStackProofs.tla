-------------------------- MODULE DeployStackProofs --------------------------
(***************************************************************************)
(* StackInv is inductive, with any number of runs and compilations at the  *)
(* same time, and what follows from it: the records fit each other, they   *)
(* are true of the chains, and whoever is configured from them accepts the *)
(* registry they name.  AloneInv is inductive with it, and gives what is   *)
(* true as long as runs do not overlap.                                    *)
(***************************************************************************)
EXTENDS DeployStack, TLAPS

USE DeploymentAssumption, BoundsAssumption

\* What any step leaves true of the addresses that are taken.
Moves ==
    /\ \A a \in Addresses : Settled(a) => Settled(a)' /\ sources'[a] \in {sources[a], 0}
    /\ \A a \in Addresses : sources'[a] # 0 => Settled(a)'
    /\ \A q \in Runs : pc[q] = "done" => pc'[q] = "done"
    /\ \A q \in Runs : pc[q] # "registry" => registries'[q] \in {registries[q], NoCode}

\* The outputs by name.
LEMMA FilesByName ==
    /\ Files = {"source.bin", "source.runtime", "registry.bin", "registry.links",
                "registry.runtime", "decoder.bin", "decoder.runtime"}
    /\ Len(Outputs) = 7 /\ \A i \in 1..7 : Outputs[i] \in Files
    /\ \A i, j \in 1..7 : Outputs[i] = Outputs[j] => i = j
<1>1. Len(Outputs) = 7
  BY DEF Outputs
<1>2. /\ Outputs[1] = "source.bin" /\ Outputs[2] = "source.runtime"
      /\ Outputs[3] = "registry.bin" /\ Outputs[4] = "registry.links"
      /\ Outputs[5] = "registry.runtime" /\ Outputs[6] = "decoder.bin"
      /\ Outputs[7] = "decoder.runtime"
  BY DEF Outputs
<1>3. 1..7 = {1, 2, 3, 4, 5, 6, 7}
  OBVIOUS
<1>4. \A i \in 1..7 : Outputs[i] \in Files
  BY DEF Files
<1> QED BY <1>1, <1>2, <1>3, <1>4 DEF Files

\* The blank locals, and the sections that are not there, have their types.
LEMMA BlankTyped ==
    /\ Blank \in Locals /\ Blank.sent = 0 /\ NoCode \in RegistryCodes
    /\ NoSource \in SourceSections /\ NoSource.address = 0
    /\ NoRegistry \in RegistrySections /\ NoRegistry.address = 0
<1>1. NoCode \in RegistryCodes
  BY DEF NoCode, RegistryCodes
<1>2. NoSource \in SourceSections /\ NoSource.address = 0
  BY DEF NoSource, SourceSections
<1>3. NoRegistry \in RegistrySections /\ NoRegistry.address = 0
  BY <1>1 DEF NoRegistry, RegistrySections
<1>4. Blank.env \in Environments
  BY <1>1 DEF Blank, Environments
<1>5. Blank \in Locals /\ Blank.sent = 0
  BY <1>2, <1>4 DEF Blank, Locals
<1> QED BY <1>1, <1>2, <1>3, <1>5

\* A source section stays true.
LEMMA SourceKept ==
    ASSUME StackTypeOK, Moves, NEW s \in SourceSections, SourceTrue(s)
    PROVE  SourceTrue(s)'
<1> SUFFICES ASSUME s.address # 0
             PROVE  pc'[s.address] = "done" /\ sources'[s.address] \in {0, s.hash}
  BY DEF SourceTrue
<1>1. s.address \in Runs /\ s.address \in Addresses
  BY DEF SourceSections, Addresses
<1>2. pc[s.address] = "done" /\ sources[s.address] \in {0, s.hash}
  BY DEF SourceTrue
<1>3. Settled(s.address)
  BY <1>2 DEF Settled
<1> QED BY <1>1, <1>2, <1>3 DEF Moves

\* A registry section stays true.
LEMMA RegistryKept ==
    ASSUME StackTypeOK, Moves, NEW g \in RegistrySections, RegistryTrue(g)
    PROVE  RegistryTrue(g)'
<1> SUFFICES ASSUME g.address # 0
             PROVE  RegistryTrue(g)'
  BY DEF RegistryTrue
<1>1. g.address \in Runs /\ g.trusted \in Addresses
  BY DEF RegistrySections, RegistryTrue
<1>2. pc[g.address] = "done" /\ registries[g.address] \in {NoCode, g.hash}
  BY DEF RegistryTrue
<1>3. pc'[g.address] = "done" /\ registries'[g.address] \in {NoCode, g.hash}
  BY <1>1, <1>2 DEF Moves
<1>4. Settled(g.trusted)' /\ sources'[g.trusted] \in Declaring \cup {0}
  BY <1>1 DEF Moves, RegistryTrue
<1> QED BY <1>3, <1>4 DEF RegistryTrue

\* What a run knows while it does not move.
LEMMA RunKept ==
    ASSUME StackTypeOK, Moves, NEW q \in Runs, SourceRun(q), RegistryRun(q),
           pc'[q] = pc[q], local'[q] = local[q]
    PROVE  SourceRun(q)' /\ RegistryRun(q)'
<1>1. q \in Addresses /\ local[q] \in Locals
  BY DEF StackTypeOK, Addresses
<1>2. local[q].existing \in SourceSections /\ local[q].source \in Addresses \cup {0}
  BY <1>1 DEF Locals
<1>3. Target(q)' = Target(q) /\ Records(q)' = Records(q) /\ Code(q)' = Code(q)
  BY DEF Target, Records, Code, Decoder
<1>4. SourceRun(q)'
  <2>1. pc[q] \in {"sourceCode", "open", "write"} => sources'[q] \in {sources[q], 0}
    BY <1>1 DEF Moves, Settled
  <2> QED BY <1>3, <2>1 DEF SourceRun, Records
<1>5. RegistryRun(q)'
  <2>1. Settled(local[q].source) /\ local[q].source # 0
           => /\ Settled(local[q].source)'
              /\ sources'[local[q].source] \in {sources[local[q].source], 0}
    <3>1. \A a \in Addresses : Settled(a) => Settled(a)' /\ sources'[a] \in {sources[a], 0}
      BY DEF Moves
    <3> QED BY <1>2, <3>1 DEF Settled
  <2>2. pc[q] # "registry" => registries'[q] \in {registries[q], NoCode}
    BY DEF Moves
  <2>3. SourceTrue(local[q].existing) => SourceTrue(local[q].existing)'
    <3>1. \A s \in SourceSections : SourceTrue(s) => SourceTrue(s)'
      BY SourceKept
    <3> QED BY <1>2, <3>1 DEF SourceTrue
  <2> QED BY <1>3, <2>1, <2>2, <2>3 DEF RegistryRun, Records, RegistryLabels
<1> QED BY <1>4, <1>5

\* The file stays true while it is not written.
LEMMA FileKept ==
    ASSUME StackTypeOK, Moves, FileTrue, file' = file
    PROVE  FileTrue'
<1>1. file.source \in SourceSections /\ file.registry \in RegistrySections
  BY DEF StackTypeOK, Deployments
<1>2. SourceTrue(file.source)'
  <2>1. \A s \in SourceSections : SourceTrue(s) => SourceTrue(s)'
    BY SourceKept
  <2> QED BY <1>1, <2>1 DEF FileTrue, SourceTrue
<1>3. RegistryTrue(file.registry)'
  <2>1. \A g \in RegistrySections : RegistryTrue(g) => RegistryTrue(g)'
    BY RegistryKept
  <2> QED BY <1>1, <2>1 DEF FileTrue, RegistryTrue, Settled
<1> QED BY <1>2, <1>3 DEF FileTrue

-----------------------------------------------------------------------------
(* Steps                                                                    *)

\* The types of what is not a run's own.
SharedTypeOK ==
    /\ sources \in [Addresses -> Builds \cup {0}]
    /\ decoders \in [Runs -> Nat]
    /\ registries \in [Runs -> RegistryCodes]
    /\ file \in Deployments
    /\ built \in [Files -> Builds \cup {0}]
    /\ compiler \in {Idle} \cup [build: Builds, next: 1..Len(Outputs)]
    /\ {compilations, drops} \subseteq Nat
    /\ disturbed \in BOOLEAN /\ latest \in Runs \cup {0}

\* A run goes on at label x with locals l.
LEMMA GoTyped ==
    ASSUME StackTypeOK, NEW r \in Runs, NEW x, NEW l, Go(r, x, l)
    PROVE  /\ pc'[r] = x /\ local'[r] = l
           /\ \A q \in Runs : q # r => pc'[q] = pc[q] /\ local'[q] = local[q]
           /\ x \in {"idle"} \cup Waiting \cup Ended => pc' \in [Runs -> {"idle"} \cup Waiting \cup Ended]
           /\ l \in Locals => local' \in [Runs -> Locals]
BY DEF StackTypeOK, Go

\* Run r moves, the others do not, and what r knows then is true.
LEMMA RunStep ==
    ASSUME StackInv, Moves, NEW r \in Runs, NEW x \in {"idle"} \cup Waiting \cup Ended,
           NEW l \in Locals, Go(r, x, l), SharedTypeOK', FileTrue',
           SourceRun(r)', RegistryRun(r)'
    PROVE  StackInv'
<1>1. StackTypeOK
  BY DEF StackInv
<1>2. StackTypeOK'
  BY <1>1, GoTyped DEF SharedTypeOK, StackTypeOK
<1>3. \A a \in Addresses : (sources[a] # 0 => Settled(a))'
  BY DEF Moves
<1>4. ASSUME NEW q \in Runs PROVE SourceRun(q)' /\ RegistryRun(q)'
  <2>1. CASE q = r
    BY <2>1
  <2>2. CASE q # r
    <3>1. pc'[q] = pc[q] /\ local'[q] = local[q]
      BY <1>1, <2>2, GoTyped
    <3> QED BY <1>1, <3>1, RunKept DEF StackInv
  <2> QED BY <2>1, <2>2
<1> QED BY <1>2, <1>3, <1>4 DEF StackInv

\* A run moves on: what it has settled stays settled.
LEMMA RunMoves ==
    ASSUME StackInv, NEW r \in Runs, NEW x, NEW l, Go(r, x, l), pc[r] # "done",
           pc[r] \in {"idle", "network", "source"} \/ x \notin {"idle", "network", "source"},
           sources' = sources, registries' = registries
    PROVE  Moves
<1>1. StackTypeOK /\ \A a \in Addresses : sources[a] # 0 => Settled(a)
  BY DEF StackInv
<1>2. pc'[r] = x /\ \A q \in Runs : q # r => pc'[q] = pc[q]
  BY <1>1, GoTyped
<1>3. ASSUME NEW a \in Addresses, Settled(a) PROVE Settled(a)'
  <2>1. a \in Elsewhere \/ a \in Runs
    BY DEF Addresses
  <2> QED BY <1>2, <1>3, <2>1 DEF Settled
<1> QED BY <1>1, <1>2, <1>3 DEF Moves

\* Run r moves without writing the file or creating a contract with an address that is read.
LEMMA QuietStep ==
    ASSUME StackInv, NEW r \in Runs, NEW x \in Waiting \cup Ended, NEW l \in Locals, Go(r, x, l),
           pc[r] # "done",
           pc[r] \in {"idle", "network", "source"} \/ x \notin {"idle", "network", "source"},
           UNCHANGED <<sources, registries, file, build, bounds, latest>>,
           decoders' \in [Runs -> Nat], disturbed' \in BOOLEAN,
           SourceRun(r)', RegistryRun(r)'
    PROVE  StackInv'
<1>1. Moves
  BY RunMoves
<1>2. SharedTypeOK'
  BY DEF StackInv, StackTypeOK, SharedTypeOK, build, bounds
<1>3. FileTrue'
  BY <1>1, FileKept DEF StackInv
<1> QED BY <1>1, <1>2, <1>3, RunStep

\* A run that has ended, or has only begun, knows nothing.
LEMMA KnowsNothing ==
    ASSUME NEW r \in Runs, pc[r] \notin Waiting \ {"network"}
    PROVE  SourceRun(r) /\ RegistryRun(r)
BY DEF SourceRun, RegistryRun, Records, Waiting, RegistryLabels

\* It begins.
LEMMA BeginStep ==
    ASSUME StackInv, NEW r \in Runs, Begin(r)
    PROVE  StackInv'
<1>1. PICK e \in Envs[r] : Go(r, "network", [local[r] EXCEPT !.env = e])
  BY DEF Begin
<1>2. StackTypeOK /\ e \in Environments
  BY DEF StackInv
<1>3. [local[r] EXCEPT !.env = e] \in Locals
  <2>1. local[r] \in Locals
    BY <1>2 DEF StackTypeOK
  <2> QED BY <1>2, <2>1 DEF Locals
<1>4. pc'[r] = "network"
  BY <1>1, <1>2, GoTyped
<1>5. SourceRun(r)' /\ RegistryRun(r)'
  BY <1>4 DEF SourceRun, RegistryRun, Records, RegistryLabels
<1> QED BY <1>1, <1>2, <1>3, <1>5, QuietStep
      DEF Begin, chains, StackTypeOK, Waiting

\* It sends a source.
LEMMA SendSourceStep ==
    ASSUME StackInv, NEW r \in Runs, SendSource(r)
    PROVE  StackInv'
<1> DEFINE l == [local[r] EXCEPT !.sent = built["source.bin"]]
<1>1. StackTypeOK /\ "source.bin" \in Files
  BY FilesByName DEF StackInv
<1>2. l \in Locals /\ l.sent # 0 /\ l.env = local[r].env
  <2>1. local[r] \in Locals /\ built["source.bin"] \in Builds \cup {0}
    BY <1>1 DEF StackTypeOK
  <2> QED BY <2>1 DEF Locals, SendSource
<1>3. Go(r, "source", l)
  BY DEF SendSource
<1>4. pc'[r] = "source" /\ local'[r] = l
  BY <1>1, <1>3, GoTyped
<1>5. SourceRun(r)' /\ RegistryRun(r)'
  <2>1. Target(r)' = "source"
    BY <1>2, <1>4 DEF SendSource, At, Target
  <2> QED BY <1>2, <1>4, <2>1 DEF SourceRun, RegistryRun, Records, RegistryLabels
<1> QED BY <1>1, <1>2, <1>3, <1>5, QuietStep
      DEF SendSource, At, chains, history, StackTypeOK, Waiting

\* Its source is mined at an address that nothing named.
LEMMA SourceMinedStep ==
    ASSUME StackInv, NEW r \in Runs, SourceMined(r)
    PROVE  StackInv'
<1>1. StackTypeOK /\ SourceRun(r) /\ FileTrue
  BY DEF StackInv
<1>2. r \in Addresses /\ r \notin Elsewhere /\ local[r] \in Locals /\ local[r].sent \in Builds \cup {0}
  BY <1>1 DEF Addresses, StackTypeOK, Locals
<1>3. pc[r] = "source" /\ pc'[r] = "sourceCode" /\ local'[r] = local[r]
      /\ \A q \in Runs : q # r => pc'[q] = pc[q]
  BY <1>1, GoTyped DEF SourceMined
<1>4. sources'[r] = local[r].sent /\ \A a \in Addresses : a # r => sources'[a] = sources[a]
  BY <1>1, <1>2 DEF SourceMined, StackTypeOK
<1>5. Moves
  <2>1. ~ Settled(r) /\ Settled(r)'
    BY <1>2, <1>3 DEF Settled
  <2>2. ASSUME NEW a \in Addresses, a # r PROVE Settled(a)' <=> Settled(a)
    BY <1>3, <2>2 DEF Settled, Addresses
  <2> QED BY <1>3, <1>4, <2>1, <2>2 DEF Moves, StackInv, SourceMined
<1>6. SharedTypeOK'
  BY <1>1, <1>2 DEF SharedTypeOK, StackTypeOK, SourceMined, build, bounds, history
<1>7. FileTrue'
  BY <1>1, <1>5, FileKept DEF SourceMined
<1>8. SourceRun(r)' /\ RegistryRun(r)'
  BY <1>1, <1>3, <1>4 DEF SourceRun, RegistryRun, Records, RegistryLabels, Target
<1> QED BY <1>2, <1>5, <1>6, <1>7, <1>8, RunStep DEF SourceMined, Waiting

\* It has verified its source.
LEMMA RecordSourceStep ==
    ASSUME StackInv, NEW r \in Runs, RecordSource(r)
    PROVE  StackInv'
<1>1. StackTypeOK /\ SourceRun(r) /\ local[r] \in Locals
  BY DEF StackInv, StackTypeOK
<1>2. pc[r] = "sourceCode" /\ pc'[r] = "open" /\ local'[r] = local[r]
  BY <1>1, GoTyped DEF RecordSource
<1>3. SourceRun(r)' /\ RegistryRun(r)'
  BY <1>1, <1>2
     DEF SourceRun, RegistryRun, Records, RegistryLabels, Target, RecordSource, chains
<1> QED BY <1>1, <1>3, QuietStep
      DEF RecordSource, chains, history, StackTypeOK, Waiting

\* It knows its configuration.
LEMMA ResolveStep ==
    ASSUME StackInv, NEW r \in Runs, Resolve(r)
    PROVE  StackInv'
<1> DEFINE e == local[r].env
           l == [local[r] EXCEPT !.source = Resolved(e, file).source]
<1>1. StackTypeOK /\ local[r] \in Locals /\ file \in Deployments
  BY DEF StackInv, StackTypeOK
<1>2. Resolved(e, file).source \in Addresses \cup {0}
  <2>1. e.source \in Addresses \cup {0}
    BY <1>1 DEF Locals, Environments
  <2>2. file.source.address \in Addresses \cup {0} /\ file.registry.trusted \in Addresses \cup {0}
    BY <1>1 DEF Deployments, SourceSections, RegistrySections, Addresses
  <2> QED BY <2>1, <2>2 DEF Resolved, Prefer, RecordedSource
<1>3. l \in Locals /\ l.env = local[r].env /\ l.source = Resolved(e, file).source
  BY <1>1, <1>2 DEF Locals
<1>4. Go(r, "anchors", l) /\ e.key # 0 /\ l.source # 0
  BY <1>3 DEF Resolve
<1>5. pc'[r] = "anchors" /\ local'[r] = l
  BY <1>1, <1>4, GoTyped
<1>6. Target(r) = "registry" /\ pc[r] = "network"
  BY DEF Resolve, At
<1>7. SourceRun(r)' /\ RegistryRun(r)'
  BY <1>3, <1>4, <1>5, <1>6 DEF SourceRun, RegistryRun, Records, RegistryLabels, Target
<1> QED BY <1>1, <1>3, <1>4, <1>6, <1>7, QuietStep
      DEF Resolve, chains, history, StackTypeOK, Waiting

\* A run that deploys a registry goes on, having found the source in place.
LEMMA RegistryGoesOn ==
    ASSUME StackInv, NEW r \in Runs,
           NEW x \in {"decoder", "decoderCode", "registry"}, NEW l \in Locals, Go(r, x, l),
           pc[r] \in RegistryLabels, l.env = local[r].env, l.source = local[r].source, l.sent # 0,
           pc[r] = "anchors" => SourceStands(r),
           UNCHANGED <<sources, registries, file, build, bounds, history>>,
           decoders' \in [Runs -> Nat]
    PROVE  StackInv'
<1>1. StackTypeOK /\ RegistryRun(r) /\ local[r] \in Locals
  BY DEF StackInv, StackTypeOK
<1>2. /\ Target(r) = "registry" /\ local[r].env.key # 0 /\ local[r].source # 0
      /\ local[r].source \in Addresses
  BY <1>1 DEF RegistryRun, Locals
<1>3. Settled(local[r].source) /\ sources[local[r].source] \in Declaring \cup {0}
  <2>1. CASE pc[r] = "anchors"
    <3>1. sources[local[r].source] \in Declaring
      BY <2>1 DEF SourceStands
    <3> QED BY <1>2, <3>1 DEF StackInv
  <2>2. CASE pc[r] # "anchors"
    BY <1>1, <2>2 DEF RegistryRun
  <2> QED BY <2>1, <2>2
<1>4. pc'[r] = x /\ local'[r] = l /\ pc[r] # "done"
  BY <1>1, GoTyped DEF RegistryLabels
<1>5. Moves
  BY <1>4, RunMoves
<1>6. Settled(l.source)'
  <2>1. \A a \in Addresses : Settled(a) => Settled(a)'
    BY <1>5 DEF Moves
  <2> QED BY <1>2, <1>3, <2>1 DEF Settled
<1>7. SourceRun(r)' /\ RegistryRun(r)'
  BY <1>2, <1>3, <1>4, <1>6
     DEF SourceRun, RegistryRun, Records, RegistryLabels, Target, Settled
<1>8. x \in Waiting \cup Ended /\ disturbed' \in BOOLEAN /\ latest' = latest
  BY <1>1 DEF Waiting, history, StackTypeOK
<1> QED BY <1>4, <1>7, <1>8, QuietStep

\* It sends a registry without links, having found the source in place.
LEMMA SendInlinedStep ==
    ASSUME StackInv, NEW r \in Runs, SendInlined(r)
    PROVE  StackInv'
<1> DEFINE l == [local[r] EXCEPT !.sent = built["registry.bin"], !.links = 0]
<1>1. StackTypeOK /\ local[r] \in Locals /\ built["registry.bin"] \in Builds \cup {0}
  BY FilesByName DEF StackInv, StackTypeOK
<1>2. /\ l \in Locals /\ l.env = local[r].env /\ l.source = local[r].source
      /\ l.sent = built["registry.bin"]
  BY <1>1 DEF Locals
<1>3. Go(r, "registry", l) /\ pc[r] = "anchors" /\ SourceStands(r) /\ l.sent # 0
  BY <1>2 DEF SendInlined
<1> QED BY <1>1, <1>2, <1>3, RegistryGoesOn DEF SendInlined, chains, StackTypeOK, RegistryLabels

\* It sends a decoder, having found the source in place.
LEMMA SendDecoderStep ==
    ASSUME StackInv, NEW r \in Runs, SendDecoder(r)
    PROVE  StackInv'
<1> DEFINE l == [local[r] EXCEPT !.sent = built["decoder.bin"],
                                 !.links = Layout[built["registry.links"]]]
<1>1. /\ StackTypeOK /\ local[r] \in Locals
      /\ built["decoder.bin"] \in Builds \cup {0} /\ built["registry.links"] \in Builds \cup {0}
  BY FilesByName DEF StackInv, StackTypeOK
<1>2. Layout[built["registry.links"]] \in Nat
  BY <1>1 DEF SendDecoder
<1>3. /\ l \in Locals /\ l.env = local[r].env /\ l.source = local[r].source
      /\ l.sent = built["decoder.bin"]
  BY <1>1, <1>2 DEF Locals
<1>4. Go(r, "decoder", l) /\ pc[r] = "anchors" /\ SourceStands(r) /\ l.sent # 0
  BY <1>3 DEF SendDecoder
<1> QED BY <1>1, <1>3, <1>4, RegistryGoesOn DEF SendDecoder, chains, StackTypeOK, RegistryLabels

\* Its decoder is mined.
LEMMA DecoderMinedStep ==
    ASSUME StackInv, NEW r \in Runs, DecoderMined(r)
    PROVE  StackInv'
<1>1. StackTypeOK /\ local[r] \in Locals /\ RegistryRun(r)
  BY DEF StackInv, StackTypeOK
<1>2. pc[r] = "decoder" /\ Go(r, "decoderCode", local[r])
  BY DEF DecoderMined
<1>3. local[r].sent # 0 /\ DecoderOf[local[r].sent] \in Nat
  BY <1>1, <1>2 DEF RegistryRun, RegistryLabels, Locals
<1>4. decoders' \in [Runs -> Nat]
  BY <1>1, <1>3 DEF DecoderMined, StackTypeOK
<1> QED BY <1>1, <1>2, <1>3, <1>4, RegistryGoesOn DEF DecoderMined, RegistryLabels

\* It sends a registry that is linked to its decoder.
LEMMA SendLinkedStep ==
    ASSUME StackInv, NEW r \in Runs, SendLinked(r)
    PROVE  StackInv'
<1> DEFINE l == [local[r] EXCEPT !.sent = built["registry.bin"]]
<1>1. StackTypeOK /\ local[r] \in Locals /\ built["registry.bin"] \in Builds \cup {0}
  BY FilesByName DEF StackInv, StackTypeOK
<1>2. /\ l \in Locals /\ l.env = local[r].env /\ l.source = local[r].source
      /\ l.sent = built["registry.bin"]
  BY <1>1 DEF Locals
<1>3. Go(r, "registry", l) /\ pc[r] = "decoderCode" /\ l.sent # 0
  BY <1>2 DEF SendLinked
<1> QED BY <1>1, <1>2, <1>3, RegistryGoesOn DEF SendLinked, chains, StackTypeOK, RegistryLabels

\* Its registry is mined, and is what was sent.
LEMMA RegistryMinedStep ==
    ASSUME StackInv, NEW r \in Runs, RegistryMined(r)
    PROVE  StackInv'
<1>1. StackTypeOK /\ local[r] \in Locals /\ RegistryRun(r) /\ FileTrue
  BY DEF StackInv, StackTypeOK
<1>2. pc[r] = "registry" /\ pc'[r] = "registryCode" /\ local'[r] = local[r]
      /\ \A q \in Runs : q # r => pc'[q] = pc[q]
  BY <1>1, GoTyped DEF RegistryMined
<1>3. Code(r) \in RegistryCodes
  BY <1>1 DEF Code, Decoder, Locals, Environments, RegistryCodes
<1>4. registries'[r] = Code(r) /\ \A q \in Runs : q # r => registries'[q] = registries[q]
  BY <1>1 DEF RegistryMined, StackTypeOK
<1>5. Moves
  <2>1. ASSUME NEW a \in Addresses PROVE Settled(a)' <=> Settled(a)
    BY <1>2 DEF Settled, Addresses
  <2> QED BY <1>2, <1>4, <2>1 DEF Moves, StackInv, RegistryMined
<1>6. SharedTypeOK'
  BY <1>1, <1>3 DEF SharedTypeOK, StackTypeOK, RegistryMined, build, bounds, history
<1>7. FileTrue'
  BY <1>1, <1>5, FileKept DEF RegistryMined
<1>8. SourceRun(r)' /\ RegistryRun(r)'
  <2>1. Settled(local[r].source)'
    <3>1. \A a \in Addresses : Settled(a) => Settled(a)'
      BY <1>5 DEF Moves
    <3> QED BY <1>1, <1>2, <3>1 DEF Settled, RegistryRun, RegistryLabels, Locals
  <2>2. Code(r)' = Code(r) /\ Target(r)' = Target(r)
    BY <1>2 DEF Code, Decoder, Target
  <2>3. Target(r) = "registry" /\ sources' = sources
    BY <1>1, <1>2 DEF RegistryRun, RegistryLabels, RegistryMined
  <2>4. SourceRun(r)'
    BY <1>2, <2>2, <2>3 DEF SourceRun, Records
  <2> QED BY <1>1, <1>2, <1>4, <2>1, <2>2, <2>3, <2>4
       DEF RegistryRun, Records, RegistryLabels
<1> QED BY <1>1, <1>5, <1>6, <1>7, <1>8, RunStep DEF RegistryMined, Waiting

\* It has verified its registry, and read the source that the file records.
LEMMA RecordRegistryStep ==
    ASSUME StackInv, NEW r \in Runs, RecordRegistry(r)
    PROVE  StackInv'
<1> DEFINE l == [local[r] EXCEPT !.existing = file.source]
<1>1. /\ StackTypeOK /\ local[r] \in Locals /\ RegistryRun(r) /\ FileTrue
      /\ file.source \in SourceSections
  BY DEF StackInv, StackTypeOK, Deployments
<1>2. /\ l \in Locals /\ l.env = local[r].env /\ l.source = local[r].source
      /\ l.sent = local[r].sent /\ l.links = local[r].links /\ l.existing = file.source
  BY <1>1 DEF Locals
<1>3. Go(r, "open", l) /\ pc[r] = "registryCode"
  BY DEF RecordRegistry
<1>4. pc'[r] = "open" /\ local'[r] = l
  BY <1>1, <1>3, GoTyped
<1>5. Moves
  BY <1>3, RunMoves DEF RecordRegistry, chains
<1>6. registries[r] = Code(r) /\ Code(r)' = Code(r) /\ registries' = registries
  BY <1>1, <1>2, <1>3, <1>4
     DEF RegistryRun, RegistryLabels, RecordRegistry, Code, Decoder, chains
<1>7. local[r].sent \in Declaring /\ local[r].links = Layout[local[r].sent]
  BY <1>6 DEF RecordRegistry, AnchorsValid, RegistryVerified, AsCompiled, Linked, Code
<1>8. SourceTrue(file.source)'
  BY <1>5, FileKept DEF RecordRegistry, FileTrue, StackInv
<1>9. SourceRun(r)' /\ RegistryRun(r)'
  <2>1. Settled(local[r].source) /\ Target(r) = "registry" /\ local[r].source \in Addresses
    BY <1>1, <1>3 DEF RegistryRun, RegistryLabels, Locals
  <2>3. Target(r)' = "registry" /\ sources' = sources
    BY <1>2, <1>4, <2>1 DEF Target, RecordRegistry, chains
  <2>4. SourceTrue(local[r].existing)'
    BY <1>2, <1>4, <1>8 DEF SourceTrue, RecordRegistry
  <2>5. Settled(local[r].source)'
    <3>1. \A a \in Addresses : Settled(a) => Settled(a)'
      BY <1>5 DEF Moves
    <3> QED BY <1>2, <1>4, <2>1, <3>1 DEF Settled
  <2>6. SourceRun(r)'
    BY <1>4, <2>3 DEF SourceRun, Records
  <2> QED BY <1>1, <1>2, <1>3, <1>4, <1>6, <1>7, <2>3, <2>4, <2>5, <2>6
       DEF RegistryRun, Records, RegistryLabels, RecordRegistry, Admits, FileTrue
<1> QED BY <1>1, <1>2, <1>3, <1>9, QuietStep
      DEF RecordRegistry, chains, history, StackTypeOK, Waiting

\* It ends without a record, and the contracts it leaves are in no record.
LEMMA EndStep ==
    ASSUME StackInv, NEW r \in Runs, Refuse(r) \/ Stop(r)
    PROVE  StackInv'
<1>1. PICK x \in {"refused", "stopped"} : Go(r, x, Blank)
  BY DEF Refuse, Stop
<1>2. StackTypeOK /\ pc[r] # "done"
  BY DEF StackInv, Refuse, SourceUnproven, DecoderUnproven, RegistryUnproven, Stop, Running,
         Waiting
<1>3. pc'[r] = x
  BY <1>1, <1>2, GoTyped
<1>4. SourceRun(r)' /\ RegistryRun(r)'
  BY <1>3 DEF SourceRun, RegistryRun, Records, RegistryLabels
<1>5. UNCHANGED <<chains, file, build, bounds, history>>
  BY DEF Refuse, Stop
<1> QED BY <1>1, <1>2, <1>4, <1>5, BlankTyped, QuietStep
      DEF chains, history, StackTypeOK, Ended

\* It empties the file: nothing is recorded.
LEMMA OpenFileStep ==
    ASSUME StackInv, NEW r \in Runs, OpenFile(r)
    PROVE  StackInv'
<1>1. StackTypeOK /\ local[r] \in Locals /\ SourceRun(r) /\ RegistryRun(r)
  BY DEF StackInv, StackTypeOK
<1>2. Go(r, "write", local[r]) /\ pc[r] = "open" /\ pc'[r] = "write" /\ local'[r] = local[r]
  BY <1>1, GoTyped DEF OpenFile
<1>3. Moves
  BY <1>2, RunMoves DEF OpenFile, chains
<1>4. /\ file'.state = "empty" /\ file'.source = NoSource /\ file'.registry = NoRegistry
      /\ file' \in Deployments
  BY BlankTyped DEF OpenFile, Unreadable, NoDeployment, Deployments
<1>5. SharedTypeOK'
  BY <1>1, <1>4 DEF SharedTypeOK, StackTypeOK, OpenFile, chains, build, bounds, history
<1>6. FileTrue'
  BY <1>4, BlankTyped DEF FileTrue, SourceTrue, RegistryTrue
<1>7. SourceRun(r)' /\ RegistryRun(r)'
  <2>1. /\ Code(r)' = Code(r) /\ Target(r)' = Target(r) /\ sources' = sources
        /\ registries' = registries
    BY <1>2 DEF Code, Decoder, Target, OpenFile, chains
  <2>2. SourceRun(r)'
    BY <1>1, <1>2, <2>1 DEF SourceRun, Records
  <2>3. Target(r) = "registry" => Settled(local[r].source)' /\ SourceTrue(local[r].existing)'
    <3>1. ASSUME Target(r) = "registry"
          PROVE  /\ Settled(local[r].source) /\ local[r].source \in Addresses
                 /\ SourceTrue(local[r].existing) /\ local[r].existing \in SourceSections
      BY <1>1, <1>2, <3>1 DEF RegistryRun, Records, Locals
    <3>2. /\ \A a \in Addresses : Settled(a) => Settled(a)'
          /\ \A s \in SourceSections : SourceTrue(s) => SourceTrue(s)'
      BY <1>1, <1>3, SourceKept DEF Moves
    <3> QED BY <1>2, <3>1, <3>2 DEF Settled, SourceTrue
  <2> QED BY <1>1, <1>2, <2>1, <2>2, <2>3 DEF RegistryRun, Records, RegistryLabels
<1> QED BY <1>1, <1>2, <1>3, <1>5, <1>6, <1>7, RunStep DEF Waiting

\* What a run writes is true.
LEMMA ContentTrue ==
    ASSUME StackInv, NEW r \in Runs, pc[r] = "write", Moves, pc'[r] = "done",
           sources' = sources, registries' = registries, file' = Content(r)
    PROVE  FileTrue' /\ file' \in Deployments /\ file'.state = "json"
<1> DEFINE l == local[r]
<1>1. StackTypeOK /\ l \in Locals /\ SourceRun(r) /\ RegistryRun(r) /\ l.env \in Environments
  BY DEF StackInv, StackTypeOK, Locals
<1>2. CASE Target(r) = "source"
  <2>1. l.sent # 0 /\ sources[r] \in {0, l.sent} /\ l.sent \in Builds
    BY <1>1, <1>2 DEF SourceRun, Records, Locals
  <2>2. /\ file'.state = "json" /\ file'.registry = NoRegistry
        /\ file'.source = [address |-> r, hash |-> l.sent]
        /\ file' = [state |-> "json", source |-> [address |-> r, hash |-> l.sent],
                    registry |-> NoRegistry]
    BY <1>2 DEF Content, SourceRecorded
  <2>3. file' \in Deployments
    BY <2>1, <2>2, BlankTyped DEF Deployments, SourceSections
  <2>4. SourceTrue(file.source)'
    BY <2>1, <2>2 DEF SourceTrue
  <2> QED BY <2>2, <2>3, <2>4, BlankTyped DEF FileTrue, RegistryTrue
<1>3. CASE Target(r) # "source"
  <2>1. Target(r) = "registry"
    BY <1>1, <1>3 DEF Target, Environments
  <2>2. /\ l.env.key # 0 /\ l.source # 0 /\ Settled(l.source)
        /\ sources[l.source] \in Declaring \cup {0} /\ registries[r] \in {NoCode, Code(r)}
        /\ l.sent \in Declaring /\ l.links = Layout[l.sent] /\ SourceTrue(l.existing)
        /\ l.existing.address \in {0, l.source}
        /\ l.existing.address = 0 => l.existing = NoSource
        /\ l.source \in Addresses /\ l.existing \in SourceSections
    BY <1>1, <2>1 DEF RegistryRun, Records, Locals
  <2>3. /\ file'.state = "json" /\ file'.source = l.existing /\ file'.registry = Section(r)
        /\ file' = [state |-> "json", source |-> l.existing, registry |-> Section(r)]
    BY <1>3 DEF Content, RegistryRecorded
  <2>4. Code(r) \in RegistryCodes /\ Decoder(r) \in Runs \cup {0}
    BY <1>1 DEF Code, Decoder, Locals, Environments, RegistryCodes
  <2>5. Section(r) \in RegistrySections
    BY <1>1, <2>4 DEF Section, RegistrySections, Locals, Environments
  <2>6. SourceTrue(file.source)'
    <3>1. \A s \in SourceSections : SourceTrue(s) => SourceTrue(s)'
      BY <1>1, SourceKept
    <3> QED BY <2>2, <2>3, <3>1 DEF SourceTrue
  <2>7. RegistryTrue(file.registry)'
    <3>1. /\ Section(r).address = r /\ Section(r).trusted = l.source
          /\ Section(r).key = l.env.key /\ Section(r).decoder = Decoder(r)
          /\ Section(r).hash = Code(r)
      BY DEF Section
    <3>2. /\ Code(r).build = l.sent /\ Code(r).links = l.links /\ Code(r).decoder = Decoder(r)
          /\ Code(r).key = l.env.key /\ Code(r).source = l.source
      BY DEF Code
    <3>3. /\ pc'[r] = "done" /\ registries'[r] \in {NoCode, Code(r)}
          /\ sources'[l.source] \in Declaring \cup {0}
      BY <2>2
    <3>4. Settled(file.registry.trusted)'
      <4>1. \A a \in Addresses : Settled(a) => Settled(a)'
        BY DEF Moves
      <4> QED BY <2>2, <2>3, <3>1, <4>1 DEF Settled
    <3>5. Decoder(r) = IF l.links = 0 THEN 0 ELSE r
      BY DEF Decoder
    <3> QED BY <2>2, <2>3, <3>1, <3>2, <3>3, <3>4, <3>5 DEF RegistryTrue
  <2>8. Section(r).address = r /\ Section(r).trusted = l.source
    BY DEF Section
  <2> QED BY <2>2, <2>3, <2>5, <2>6, <2>7, <2>8 DEF FileTrue, Deployments
<1> QED BY <1>2, <1>3

\* It writes what is true, or what nobody can read.
LEMMA WriteFileStep ==
    ASSUME StackInv, NEW r \in Runs, WriteFile(r)
    PROVE  StackInv'
<1>1. StackTypeOK /\ Go(r, "done", Blank) /\ pc[r] = "write" /\ pc'[r] = "done"
  BY GoTyped DEF StackInv, WriteFile
<1>2. Moves /\ sources' = sources /\ registries' = registries
  BY <1>1, RunMoves DEF WriteFile, chains
<1>3. FileTrue' /\ file' \in Deployments
  <2>1. CASE file' = Content(r)
    BY <1>1, <1>2, <2>1, ContentTrue
  <2>2. CASE file' = Unreadable("garbage")
    BY <2>2, BlankTyped
       DEF Unreadable, NoDeployment, Deployments, FileTrue, SourceTrue, RegistryTrue
  <2> QED BY <2>1, <2>2 DEF WriteFile
<1>4. SharedTypeOK'
  BY <1>1, <1>3 DEF SharedTypeOK, StackTypeOK, WriteFile, chains, build, bounds
<1>5. SourceRun(r)' /\ RegistryRun(r)'
  BY <1>1 DEF SourceRun, RegistryRun, Records, RegistryLabels
<1> QED BY <1>1, <1>2, <1>3, <1>4, <1>5, BlankTyped, RunStep DEF Ended

\* The compiler or the chains go on and no run does.
LEMMA WorldStep ==
    ASSUME StackInv, Moves, SharedTypeOK', UNCHANGED <<file, pc, local>>
    PROVE  StackInv'
<1>1. StackTypeOK /\ FileTrue
  BY DEF StackInv
<1>2. StackTypeOK'
  BY <1>1 DEF SharedTypeOK, StackTypeOK
<1>3. FileTrue'
  BY <1>1, FileKept
<1>4. ASSUME NEW q \in Runs PROVE SourceRun(q)' /\ RegistryRun(q)'
  BY <1>1, RunKept DEF StackInv
<1> QED BY <1>2, <1>3, <1>4 DEF StackInv, Moves

\* The compiler changes nothing that a record names.
LEMMA CompilerStep ==
    ASSUME StackInv, (\E b \in Builds : CompilerClears(b)) \/ CompilerWrites \/ CompilerStops
    PROVE  StackInv'
<1>1. StackTypeOK /\ UNCHANGED <<chains, file, pc, local>>
  BY DEF StackInv, CompilerClears, CompilerWrites, CompilerStops
<1>2. Moves
  BY <1>1 DEF Moves, StackInv, chains, Settled
<1>3. SharedTypeOK'
  <2>1. ASSUME NEW b \in Builds, CompilerClears(b) PROVE SharedTypeOK'
    <3>1. built' \in [Files -> Builds \cup {0}]
      BY <2>1 DEF CompilerClears, Cleared
    <3>2. compiler' \in [build: Builds, next: 1..Len(Outputs)]
      BY <2>1, FilesByName DEF CompilerClears
    <3>3. compilations' \in Nat /\ drops' = drops /\ latest' = latest /\ disturbed' \in BOOLEAN
      BY <1>1, <2>1 DEF CompilerClears, StackTypeOK
    <3> QED BY <1>1, <3>1, <3>2, <3>3 DEF SharedTypeOK, StackTypeOK, chains
  <2>2. CASE CompilerWrites
    <3>1. compiler \in [build: Builds, next: 1..7]
      BY <1>1, <2>2, FilesByName DEF CompilerWrites, StackTypeOK
    <3>2. built' \in [Files -> Builds \cup {0}]
      BY <1>1, <2>2, <3>1, FilesByName DEF CompilerWrites, StackTypeOK
    <3>3. compiler' \in {Idle} \cup [build: Builds, next: 1..Len(Outputs)]
      <4>1. CASE compiler.next = 7
        BY <2>2, <4>1, FilesByName DEF CompilerWrites, LastOutput
      <4>2. CASE compiler.next # 7
        <5>1. compiler' = [compiler EXCEPT !.next = @ + 1]
          BY <2>2, <4>2, FilesByName DEF CompilerWrites, LastOutput
        <5>2. compiler.next + 1 \in 1..7
          BY <3>1, <4>2
        <5> QED BY <3>1, <5>1, <5>2, FilesByName
      <4> QED BY <4>1, <4>2
    <3> QED BY <1>1, <2>2, <3>2, <3>3
         DEF CompilerWrites, SharedTypeOK, StackTypeOK, chains, bounds, history
  <2>3. CASE CompilerStops
    BY <1>1, <2>3 DEF CompilerStops, SharedTypeOK, StackTypeOK, chains, bounds
  <2> QED BY <2>1, <2>2, <2>3
<1> QED BY <1>1, <1>2, <1>3, WorldStep

\* A contract is dropped: records are true of what is still there.
LEMMA ReorganiseStep ==
    ASSUME StackInv, Reorganise
    PROVE  StackInv'
<1>1. StackTypeOK /\ UNCHANGED <<file, build, compilations, pc, local, history>> /\ drops' \in Nat
  BY DEF StackInv, Reorganise, StackTypeOK
<1>2. /\ sources' \in [Addresses -> Builds \cup {0}]
      /\ \A a \in Addresses : sources'[a] \in {sources[a], 0}
  BY <1>1 DEF Reorganise, StackTypeOK
<1>3. /\ registries' \in [Runs -> RegistryCodes]
      /\ \A q \in Runs : registries'[q] \in {registries[q], NoCode}
  BY <1>1, BlankTyped DEF Reorganise, StackTypeOK
<1>4. decoders' \in [Runs -> Nat]
  BY <1>1 DEF Reorganise, StackTypeOK
<1>5. Moves
  BY <1>1, <1>2, <1>3 DEF Moves, StackInv, Settled
<1>6. SharedTypeOK'
  BY <1>1, <1>2, <1>3, <1>4 DEF SharedTypeOK, StackTypeOK, build, history
<1> QED BY <1>1, <1>5, <1>6, WorldStep

-----------------------------------------------------------------------------
(* Whatever overlaps                                                        *)

\* StackInv holds at the start.
LEMMA StackInitially == StackInit => StackInv
<1> SUFFICES ASSUME StackInit PROVE StackInv
  OBVIOUS
<1>1. StackTypeOK
  <2>1. sources \in [Addresses -> Builds \cup {0}]
    BY DEF StackInit, Addresses
  <2>2. file \in Deployments
    BY BlankTyped DEF StackInit, NoDeployment, Deployments
  <2>3. decoders \in [Runs -> Nat] /\ registries \in [Runs -> RegistryCodes]
    BY BlankTyped DEF StackInit
  <2>4. built \in [Files -> Builds \cup {0}] /\ compiler \in {Idle}
    BY DEF StackInit
  <2>5. pc \in [Runs -> {"idle"} \cup Waiting \cup Ended] /\ local \in [Runs -> Locals]
    BY BlankTyped DEF StackInit
  <2>6. {compilations, drops} \subseteq Nat /\ latest \in Runs \cup {0}
    BY DEF StackInit
  <2>7. disturbed \in BOOLEAN
    BY DEF StackInit
  <2> QED BY <2>1, <2>2, <2>3, <2>4, <2>5, <2>6, <2>7 DEF StackTypeOK
<1>2. FileTrue
  BY BlankTyped DEF StackInit, NoDeployment, FileTrue, SourceTrue, RegistryTrue
<1>3. \A a \in Addresses : sources[a] # 0 => Settled(a)
  BY DEF StackInit, Settled, Addresses
<1>4. \A r \in Runs : SourceRun(r) /\ RegistryRun(r)
  BY DEF StackInit, SourceRun, RegistryRun, Records, RegistryLabels
<1> QED BY <1>1, <1>2, <1>3, <1>4 DEF StackInv

\* Every step keeps StackInv.
LEMMA StackStep == StackInv /\ [StackNext]_stackVars => StackInv'
<1> SUFFICES ASSUME StackInv, [StackNext]_stackVars PROVE StackInv'
  OBVIOUS
<1>1. ASSUME NEW r \in Runs,
             \/ Begin(r) \/ SendSource(r) \/ SourceMined(r) \/ RecordSource(r)
             \/ Resolve(r) \/ SendInlined(r) \/ SendDecoder(r) \/ DecoderMined(r) \/ SendLinked(r)
             \/ RegistryMined(r) \/ RecordRegistry(r)
             \/ OpenFile(r) \/ WriteFile(r) \/ Refuse(r) \/ Stop(r)
      PROVE  StackInv'
  BY <1>1, BeginStep, SendSourceStep, SourceMinedStep, RecordSourceStep, ResolveStep,
     SendInlinedStep, SendDecoderStep, DecoderMinedStep, SendLinkedStep, RegistryMinedStep,
     RecordRegistryStep, OpenFileStep, WriteFileStep, EndStep
<1>2. CASE (\E b \in Builds : CompilerClears(b)) \/ CompilerWrites \/ CompilerStops
  BY <1>2, CompilerStep
<1>3. CASE Reorganise
  BY <1>3, ReorganiseStep
<1>4. CASE UNCHANGED stackVars
  <2>1. UNCHANGED <<chains, file, build, bounds, pc, local, history>>
    BY <1>4 DEF stackVars
  <2>2. Moves
    BY <2>1 DEF Moves, StackInv, chains, Settled
  <2>3. SharedTypeOK'
    BY <2>1 DEF StackInv, StackTypeOK, SharedTypeOK, chains, build, bounds, history
  <2> QED BY <2>1, <2>2, <2>3, WorldStep
<1> QED BY <1>1, <1>2, <1>3, <1>4 DEF StackNext

-----------------------------------------------------------------------------
(* One process at a time                                                    *)

\* Nobody but run r is under way.
Only(r) == compiler = Idle /\ \A q \in Runs : Running(q) => q = r

\* The record of the file's decoder stays true when decoders are dropped, or others come.
LEMMA FileAloneKept ==
    ASSUME StackInv, FileAlone, UNCHANGED <<file, latest>>,
           \A q \in Runs : pc[q] # "decoder" => decoders'[q] \in {decoders[q], 0}
    PROVE  FileAlone'
<1> SUFFICES ASSUME file.registry.decoder # 0
             PROVE  decoders'[file.registry.decoder]
                      \in {0, DecoderOf[file.registry.hash.build]}
  BY DEF FileAlone
<1>1. RegistryTrue(file.registry) /\ file.registry \in RegistrySections
      /\ (file.registry.address = 0 => file.registry = NoRegistry)
  BY DEF StackInv, FileTrue, StackTypeOK, Deployments
<1>2. file.registry.address # 0
  BY <1>1 DEF NoRegistry
<1>3. file.registry.decoder \in Runs /\ pc[file.registry.decoder] = "done"
  BY <1>1, <1>2 DEF RegistryTrue, RegistrySections
<1> QED BY <1>3 DEF FileAlone

\* A run that is alone goes on, or ends.
LEMMA AloneStep ==
    ASSUME StackInv, AloneInv, ~ disturbed, NEW r \in Runs, Only(r),
           NEW x \in Waiting \cup Ended, NEW l, Go(r, x, l), x # "refused",
           UNCHANGED build, AloneRun(r)', FileAlone'
    PROVE  AloneInv'
<1>1. StackTypeOK /\ OneProcess /\ BuildWhole /\ \A q \in Runs : pc[q] # "refused"
  BY DEF StackInv, AloneInv
<1>2. pc'[r] = x /\ \A q \in Runs : q # r => pc'[q] = pc[q] /\ local'[q] = local[q]
  BY <1>1, GoTyped
<1>3. ASSUME NEW q \in Runs, q # r PROVE ~ Running(q)'
  BY <1>2, <1>3 DEF Only, Running
<1>4. ASSUME NEW q \in Runs, q # r PROVE AloneRun(q)'
  BY <1>3, <1>4 DEF AloneRun, Running, Waiting, Records, RegistryLabels
<1>5. OneProcess'
  BY <1>3 DEF OneProcess, Only, build
<1>6. BuildWhole'
  BY <1>1 DEF BuildWhole, build
<1>7. \A q \in Runs : pc'[q] # "refused"
  BY <1>1, <1>2
<1> QED BY <1>4, <1>5, <1>6, <1>7 DEF AloneInv

\* So it does when it changes neither the file nor the decoders.
LEMMA AloneQuiet ==
    ASSUME StackInv, AloneInv, ~ disturbed, NEW r \in Runs, Only(r),
           NEW x \in Waiting \cup Ended, NEW l, Go(r, x, l), x # "refused",
           UNCHANGED <<build, file, latest, decoders>>, AloneRun(r)'
    PROVE  AloneInv'
<1>1. FileAlone'
  BY FileAloneKept DEF AloneInv
<1> QED BY <1>1, AloneStep

\* A run under way is alone as long as nothing was disturbed.
LEMMA AloneOnly ==
    ASSUME AloneInv, ~ disturbed, NEW r \in Runs, Running(r)
    PROVE  Only(r) /\ OneProcess /\ BuildWhole /\ FileAlone /\ AloneRun(r)
BY DEF AloneInv, OneProcess, Only

\* The build that a run, alone, reads first is the build of every file.
LEMMA OneBuild ==
    ASSUME BuildWhole, compiler = Idle, NEW f \in Files
    PROVE  \A g \in Files : built[g] = built[f]
BY DEF BuildWhole

\* Nothing else was under way when it began.
LEMMA BeginAlone ==
    ASSUME StackInv, AloneInv, NEW r \in Runs, Begin(r), ~ disturbed'
    PROVE  AloneInv'
<1>1. PICK e \in Envs[r] : Go(r, "network", [local[r] EXCEPT !.env = e])
  BY DEF Begin
<1>2. StackTypeOK /\ disturbed \in BOOLEAN
  BY DEF StackInv, StackTypeOK
<1>3. ~ disturbed /\ compiler = Idle /\ \A q \in Runs : ~ Running(q)
  BY <1>2 DEF Begin
<1>4. pc'[r] = "network"
  BY <1>1, <1>2, GoTyped
<1>5. AloneRun(r)'
  BY <1>4 DEF AloneRun, Records, RegistryLabels
<1> QED BY <1>1, <1>3, <1>5, AloneQuiet DEF Begin, Only, chains, Waiting

\* What is sent is the build of every file.
LEMMA SendSourceAlone ==
    ASSUME StackInv, AloneInv, ~ disturbed, NEW r \in Runs, SendSource(r)
    PROVE  AloneInv'
<1> DEFINE l == [local[r] EXCEPT !.sent = built["source.bin"]]
<1>1. StackTypeOK /\ "source.bin" \in Files /\ local[r] \in Locals /\ Running(r)
  BY FilesByName DEF StackInv, StackTypeOK, SendSource, At, Running, Waiting
<1>2. Go(r, "source", l) /\ l.sent = built["source.bin"]
  BY <1>1 DEF SendSource, Locals
<1>3. pc'[r] = "source" /\ local'[r] = l /\ built' = built
  BY <1>1, <1>2, GoTyped DEF SendSource, build
<1>4. Only(r) /\ BuildWhole
  BY <1>1, AloneOnly
<1>5. \A f \in Files : built[f] = l.sent
  BY <1>1, <1>2, <1>4, OneBuild DEF Only
<1>6. AloneRun(r)'
  BY <1>3, <1>5 DEF AloneRun, Records, RegistryLabels
<1> QED BY <1>2, <1>4, <1>6, AloneQuiet DEF SendSource, chains, history, Waiting

\* The files stay the build that was sent while the source is mined and verified.
LEMMA SourceAlone ==
    ASSUME StackInv, AloneInv, ~ disturbed, NEW r \in Runs, SourceMined(r) \/ RecordSource(r)
    PROVE  AloneInv'
<1>1. StackTypeOK /\ Running(r) /\ SourceRun(r)
  BY DEF StackInv, SourceMined, RecordSource, Running, Waiting
<1>2. PICK x \in {"sourceCode", "open"} : Go(r, x, local[r])
                                          /\ (x = "sourceCode" <=> pc[r] = "source")
  BY DEF SourceMined, RecordSource
<1>3. /\ pc'[r] = x /\ local'[r] = local[r] /\ built' = built
      /\ pc[r] \in {"source", "sourceCode"}
  BY <1>1, <1>2, GoTyped DEF SourceMined, RecordSource, build
<1>4. Only(r) /\ AloneRun(r)
  BY <1>1, AloneOnly
<1>5. Target(r)' = "source"
  BY <1>1, <1>3 DEF SourceRun, Target
<1>6. AloneRun(r)'
  BY <1>2, <1>3, <1>4, <1>5 DEF AloneRun, Records, RegistryLabels
<1> QED BY <1>2, <1>4, <1>6, AloneQuiet
      DEF SourceMined, RecordSource, chains, history, Waiting, Ended

\* The source that a run resolves is the source recorded, if one is.
LEMMA ResolveAlone ==
    ASSUME StackInv, AloneInv, ~ disturbed, NEW r \in Runs, Resolve(r)
    PROVE  AloneInv'
<1> DEFINE e == local[r].env
           l == [local[r] EXCEPT !.source = Resolved(e, file).source]
<1>1. StackTypeOK /\ local[r] \in Locals /\ Running(r) /\ pc[r] = "network"
  BY DEF StackInv, StackTypeOK, Resolve, At, Running, Waiting
<1>2. Go(r, "anchors", l) /\ l.source = Resolved(e, file).source
  BY <1>1 DEF Resolve, Locals
<1>3. pc'[r] = "anchors" /\ local'[r] = l /\ file' = file
  BY <1>1, <1>2, GoTyped DEF Resolve
<1>4. Readable(file) /\ file.source.address \in {0, l.source}
  <2>1. Readable(file) /\ ~ Conflict(e.source, RecordedSource(file), 0)
    BY DEF Resolve, Resolvable
  <2>2. l.source = Prefer(e.source, "source" \in e.empty, RecordedSource(file), 0)
    BY <1>2 DEF Resolved
  <2>3. l.source # 0
    BY <1>2 DEF Resolve
  <2> QED BY <2>1, <2>2, <2>3 DEF Conflict, Prefer, RecordedSource
<1>5. Only(r)
  BY <1>1, AloneOnly
<1>6. AloneRun(r)'
  BY <1>3, <1>4 DEF AloneRun, Records, RegistryLabels, Readable
<1> QED BY <1>2, <1>5, <1>6, AloneQuiet DEF Resolve, chains, history, Waiting

\* Links and bytecode are read of one build.
LEMMA SendInlinedAlone ==
    ASSUME StackInv, AloneInv, ~ disturbed, NEW r \in Runs, SendInlined(r)
    PROVE  AloneInv'
<1> DEFINE l == [local[r] EXCEPT !.sent = built["registry.bin"], !.links = 0]
<1>1. StackTypeOK /\ local[r] \in Locals /\ Running(r) /\ pc[r] = "anchors"
  BY DEF StackInv, StackTypeOK, SendInlined, Running, Waiting
<1>2. /\ Go(r, "registry", l) /\ l.source = local[r].source
      /\ l.sent = built["registry.bin"] /\ l.links = 0 /\ Layout[l.sent] = 0
  BY <1>1 DEF SendInlined, Locals
<1>3. pc'[r] = "registry" /\ local'[r] = l /\ file' = file /\ built' = built
  BY <1>1, <1>2, GoTyped DEF SendInlined, build
<1>4. Only(r) /\ BuildWhole /\ AloneRun(r)
  BY <1>1, AloneOnly
<1>5. \A f \in Files : built[f] = l.sent
  BY <1>2, <1>4, OneBuild, FilesByName DEF Only
<1>6. Readable(file) /\ file.source.address \in {0, l.source}
  BY <1>1, <1>2, <1>4 DEF AloneRun, RegistryLabels
<1>7. AloneRun(r)'
  BY <1>2, <1>3, <1>5, <1>6 DEF AloneRun, Records, RegistryLabels, Readable, Decoder
<1> QED BY <1>2, <1>4, <1>7, AloneQuiet DEF SendInlined, chains, history, Waiting

\* The decoder is sent of the build that the links are of.
LEMMA SendDecoderAlone ==
    ASSUME StackInv, AloneInv, ~ disturbed, NEW r \in Runs, SendDecoder(r)
    PROVE  AloneInv'
<1> DEFINE l == [local[r] EXCEPT !.sent = built["decoder.bin"],
                                 !.links = Layout[built["registry.links"]]]
<1>1. StackTypeOK /\ local[r] \in Locals /\ Running(r) /\ pc[r] = "anchors"
  BY DEF StackInv, StackTypeOK, SendDecoder, Running, Waiting
<1>2. Only(r) /\ BuildWhole /\ AloneRun(r)
  BY <1>1, AloneOnly
<1>3. \A f \in Files : built[f] = built["decoder.bin"]
  BY <1>2, OneBuild, FilesByName DEF Only
<1>4. /\ Go(r, "decoder", l) /\ l.source = local[r].source
      /\ l.sent = built["decoder.bin"] /\ l.links = Layout[l.sent] /\ l.links # 0
  BY <1>1, <1>3, FilesByName DEF SendDecoder, Locals
<1>5. pc'[r] = "decoder" /\ local'[r] = l /\ file' = file /\ built' = built
  BY <1>1, <1>4, GoTyped DEF SendDecoder, build
<1>6. Readable(file) /\ file.source.address \in {0, l.source}
  BY <1>1, <1>2, <1>4 DEF AloneRun, RegistryLabels
<1>7. AloneRun(r)'
  BY <1>3, <1>4, <1>5, <1>6 DEF AloneRun, Records, RegistryLabels, Readable
<1> QED BY <1>2, <1>4, <1>7, AloneQuiet DEF SendDecoder, chains, history, Waiting

\* The decoder that is mined is that build's.
LEMMA DecoderMinedAlone ==
    ASSUME StackInv, AloneInv, ~ disturbed, NEW r \in Runs, DecoderMined(r)
    PROVE  AloneInv'
<1>1. /\ StackTypeOK /\ Running(r) /\ pc[r] = "decoder" /\ Go(r, "decoderCode", local[r])
      /\ file' = file /\ built' = built
  BY DEF StackInv, DecoderMined, Running, Waiting, build
<1>2. Only(r) /\ FileAlone /\ AloneRun(r)
  BY <1>1, AloneOnly
<1>3. pc'[r] = "decoderCode" /\ local'[r] = local[r]
  BY <1>1, GoTyped
<1>4. /\ decoders'[r] = DecoderOf[local[r].sent]
      /\ \A q \in Runs : q # r => decoders'[q] = decoders[q]
  BY <1>1 DEF DecoderMined, StackTypeOK
<1>5. AloneRun(r)'
  BY <1>1, <1>2, <1>3, <1>4 DEF AloneRun, Records, RegistryLabels, Readable, Decoder
<1>6. FileAlone'
  <2>1. \A q \in Runs : pc[q] # "decoder" => decoders'[q] \in {decoders[q], 0}
    BY <1>1, <1>4
  <2> QED BY <1>2, <2>1, FileAloneKept DEF DecoderMined, history
<1> QED BY <1>1, <1>2, <1>5, <1>6, AloneStep DEF DecoderMined, Waiting

\* So is the registry that is linked to it.
LEMMA SendLinkedAlone ==
    ASSUME StackInv, AloneInv, ~ disturbed, NEW r \in Runs, SendLinked(r)
    PROVE  AloneInv'
<1> DEFINE l == [local[r] EXCEPT !.sent = built["registry.bin"]]
<1>1. StackTypeOK /\ local[r] \in Locals /\ Running(r) /\ pc[r] = "decoderCode"
  BY DEF StackInv, StackTypeOK, SendLinked, Running, Waiting
<1>2. Only(r) /\ AloneRun(r)
  BY <1>1, AloneOnly
<1>3. \A f \in Files : built[f] = local[r].sent
  BY <1>1, <1>2 DEF AloneRun
<1>4. /\ Go(r, "registry", l) /\ l.source = local[r].source
      /\ l.sent = local[r].sent /\ l.links = local[r].links
  BY <1>1, <1>3, FilesByName DEF SendLinked, Locals
<1>5. pc'[r] = "registry" /\ local'[r] = l /\ UNCHANGED <<file, built, decoders>>
  BY <1>1, <1>4, GoTyped DEF SendLinked, build, chains
<1>6. Decoder(r)' = Decoder(r)
  BY <1>4, <1>5 DEF Decoder
<1>7. AloneRun(r)'
  BY <1>1, <1>2, <1>3, <1>4, <1>5, <1>6 DEF AloneRun, Records, RegistryLabels, Readable
<1> QED BY <1>2, <1>4, <1>7, AloneQuiet DEF SendLinked, chains, history, Waiting

\* And still when it is mined.
LEMMA RegistryMinedAlone ==
    ASSUME StackInv, AloneInv, ~ disturbed, NEW r \in Runs, RegistryMined(r)
    PROVE  AloneInv'
<1>1. StackTypeOK /\ Running(r) /\ pc[r] = "registry" /\ Go(r, "registryCode", local[r])
  BY DEF StackInv, RegistryMined, Running, Waiting
<1>2. Only(r) /\ AloneRun(r)
  BY <1>1, AloneOnly
<1>3. pc'[r] = "registryCode" /\ local'[r] = local[r] /\ UNCHANGED <<file, built, decoders>>
  BY <1>1, GoTyped DEF RegistryMined, build
<1>4. AloneRun(r)'
  BY <1>1, <1>2, <1>3 DEF AloneRun, Records, RegistryLabels, Readable, Decoder
<1> QED BY <1>1, <1>2, <1>4, AloneQuiet DEF RegistryMined, history, Waiting

\* The source it will write again is the source recorded last.
LEMMA RecordRegistryAlone ==
    ASSUME StackInv, AloneInv, ~ disturbed, NEW r \in Runs, RecordRegistry(r)
    PROVE  AloneInv'
<1> DEFINE l == [local[r] EXCEPT !.existing = file.source]
<1>1. StackTypeOK /\ local[r] \in Locals /\ Running(r) /\ pc[r] = "registryCode"
  BY DEF StackInv, StackTypeOK, RecordRegistry, Running, Waiting
<1>2. /\ Go(r, "open", l) /\ l.sent = local[r].sent /\ l.links = local[r].links
      /\ l.existing = file.source
  BY <1>1 DEF RecordRegistry, Locals
<1>3. pc'[r] = "open" /\ local'[r] = l /\ UNCHANGED <<decoders, latest>>
  BY <1>1, <1>2, GoTyped DEF RecordRegistry, chains, history
<1>4. Only(r) /\ FileAlone /\ AloneRun(r)
  BY <1>1, AloneOnly
<1>5. latest # 0 => l.existing.address = latest
  BY <1>2, <1>4 DEF FileAlone, RecordRegistry, Admits, Readable
<1>6. Decoder(r)' = Decoder(r)
  BY <1>2, <1>3 DEF Decoder
<1>7. AloneRun(r)'
  BY <1>1, <1>2, <1>3, <1>4, <1>5, <1>6 DEF AloneRun, Records, RegistryLabels
<1> QED BY <1>2, <1>4, <1>7, AloneQuiet DEF RecordRegistry, chains, history, Waiting

\* An empty file names no decoder.
LEMMA OpenFileAlone ==
    ASSUME StackInv, AloneInv, ~ disturbed, NEW r \in Runs, OpenFile(r)
    PROVE  AloneInv'
<1>1. StackTypeOK /\ Running(r) /\ pc[r] = "open" /\ Go(r, "write", local[r])
  BY DEF StackInv, OpenFile, Running, Waiting
<1>2. Only(r) /\ AloneRun(r)
  BY <1>1, AloneOnly
<1>3. pc'[r] = "write" /\ local'[r] = local[r] /\ UNCHANGED <<decoders, latest>>
  BY <1>1, GoTyped DEF OpenFile, chains, history
<1>4. AloneRun(r)'
  BY <1>1, <1>2, <1>3 DEF AloneRun, Records, RegistryLabels, Decoder, Target
<1>5. FileAlone'
  BY DEF OpenFile, Unreadable, NoDeployment, NoRegistry, FileAlone
<1> QED BY <1>1, <1>2, <1>4, <1>5, AloneStep DEF OpenFile, history, Waiting

\* The file records the source recorded last, and the registry's decoder as deployed.
LEMMA WriteFileAlone ==
    ASSUME StackInv, AloneInv, ~ disturbed, NEW r \in Runs, WriteFile(r)
    PROVE  AloneInv'
<1>1. /\ StackTypeOK /\ local[r] \in Locals /\ Running(r) /\ pc[r] = "write"
      /\ Go(r, "done", Blank) /\ RegistryRun(r)
  BY DEF StackInv, StackTypeOK, WriteFile, Running, Waiting
<1>2. Only(r) /\ AloneRun(r)
  BY <1>1, AloneOnly
<1>3. pc'[r] = "done" /\ decoders' = decoders
  BY <1>1, GoTyped DEF WriteFile, chains
<1>4. AloneRun(r)'
  BY <1>3 DEF AloneRun, Records, RegistryLabels
<1>5. FileAlone'
  <2>1. CASE file' = Unreadable("garbage")
    BY <2>1 DEF Unreadable, NoDeployment, NoRegistry, FileAlone
  <2>2. CASE file' = Content(r) /\ Target(r) = "source"
    <3>1. file'.state = "json" /\ file'.source.address = r /\ file'.registry = NoRegistry
      BY <2>2 DEF Content, SourceRecorded
    <3>2. latest' = r
      BY <2>2 DEF WriteFile
    <3> QED BY <3>1, <3>2 DEF FileAlone, NoRegistry
  <2>3. CASE file' = Content(r) /\ Target(r) # "source"
    <3>1. Target(r) = "registry" /\ latest' = latest
      BY <1>1, <2>3 DEF Target, Locals, Environments, WriteFile
    <3>2. /\ file'.state = "json" /\ file'.source = local[r].existing
          /\ file'.registry = Section(r)
      BY <2>3 DEF Content, RegistryRecorded
    <3>3. Section(r).decoder = Decoder(r) /\ Section(r).hash.build = local[r].sent
      BY DEF Section, Code
    <3>4. /\ Decoder(r) = 0 \/ decoders[r] \in {0, DecoderOf[local[r].sent]}
          /\ latest # 0 => local[r].existing.address = latest
      BY <1>1, <1>2, <3>1 DEF AloneRun, Records
    <3>5. Decoder(r) \in {0, r}
      BY DEF Decoder
    <3> QED BY <1>3, <3>1, <3>2, <3>3, <3>4, <3>5 DEF FileAlone
  <2> QED BY <2>1, <2>2, <2>3 DEF WriteFile
<1> QED BY <1>1, <1>2, <1>4, <1>5, AloneStep DEF WriteFile, Ended

\* What a run that is alone compares at its end is what it sent.
LEMMA RefuseAlone ==
    ASSUME StackInv, AloneInv, ~ disturbed, NEW r \in Runs
    PROVE  ~ Refuse(r)
<1> SUFFICES ASSUME Refuse(r) PROVE FALSE
  OBVIOUS
<1>1. StackTypeOK /\ local[r] \in Locals /\ Running(r) /\ SourceRun(r) /\ RegistryRun(r)
  BY DEF StackInv, StackTypeOK, Refuse, SourceUnproven, DecoderUnproven, RegistryUnproven,
         Running, Waiting
<1>2. AloneRun(r)
  BY <1>1, AloneOnly
<1>3. CASE pc[r] = "sourceCode" /\ sources[r] # 0 /\ ~ SourceVerified(r)
  <2>1. built["source.runtime"] = local[r].sent
    BY <1>2, <1>3, FilesByName DEF AloneRun
  <2> QED BY <1>1, <1>3, <2>1 DEF SourceRun, SourceVerified
<1>4. CASE pc[r] = "decoderCode" /\ decoders[r] # 0 /\ ~ (DecoderVerified(r) /\ Linkable(r))
  <2>1. built["decoder.runtime"] = local[r].sent /\ built["registry.bin"] = local[r].sent
    BY <1>2, <1>4, FilesByName DEF AloneRun
  <2>2. local[r].sent # 0 /\ local[r].links = Layout[local[r].sent] /\ Decoder(r) # 0
    BY <1>1, <1>2, <1>4 DEF AloneRun, RegistryRun, RegistryLabels, Decoder
  <2>3. decoders[r] = DecoderOf[local[r].sent]
    BY <1>2, <1>4, <2>2 DEF AloneRun
  <2> QED BY <1>4, <2>1, <2>2, <2>3 DEF DecoderVerified, Linkable
<1>5. CASE pc[r] = "registryCode" /\ registries[r] # NoCode
           /\ ~ (RegistryVerified(r) /\ Admits(r))
  <2>1. /\ built["registry.runtime"] = local[r].sent /\ local[r].sent # 0
        /\ local[r].links = Layout[local[r].sent]
    BY <1>1, <1>2, <1>5, FilesByName DEF AloneRun, RegistryRun, RegistryLabels
  <2>2. registries[r] = Code(r)
    BY <1>1, <1>5 DEF RegistryRun
  <2>3. RegistryVerified(r)
    BY <2>1, <2>2 DEF RegistryVerified, AsCompiled, Linked, Code
  <2>4. Admits(r)
    BY <1>2, <1>5 DEF AloneRun, RegistryLabels, Admits
  <2> QED BY <1>5, <2>3, <2>4
<1> QED BY <1>3, <1>4, <1>5 DEF Refuse, SourceUnproven, DecoderUnproven, RegistryUnproven

\* A run that stops leaves the file as it is.
LEMMA StopAlone ==
    ASSUME StackInv, AloneInv, ~ disturbed, NEW r \in Runs, Stop(r)
    PROVE  AloneInv'
<1>1. StackTypeOK /\ Running(r) /\ Go(r, "stopped", Blank)
  BY DEF StackInv, Stop
<1>2. Only(r)
  BY <1>1, AloneOnly
<1>3. pc'[r] = "stopped"
  BY <1>1, GoTyped
<1>4. AloneRun(r)'
  BY <1>3 DEF AloneRun, Records, RegistryLabels
<1> QED BY <1>1, <1>2, <1>4, AloneQuiet DEF Stop, chains, history, Ended

\* The compiler, alone, leaves one build when it has written the last file.
LEMMA CompilerAlone ==
    ASSUME StackInv, AloneInv, ~ disturbed', ~ disturbed,
           (\E b \in Builds : CompilerClears(b)) \/ CompilerWrites \/ CompilerStops
    PROVE  AloneInv'
<1>1. /\ StackTypeOK /\ FileAlone /\ OneProcess /\ BuildWhole
      /\ \A q \in Runs : pc[q] # "refused"
  BY DEF StackInv, AloneInv
<1>2. UNCHANGED <<file, latest, decoders, pc, local>>
  BY DEF CompilerClears, CompilerWrites, CompilerStops, chains, history
<1>3. ~ CompilerStops
  BY DEF CompilerStops
<1>4. \A q \in Runs : ~ Running(q)
  <2>1. ASSUME NEW b \in Builds, CompilerClears(b) PROVE \A q \in Runs : ~ Running(q)
    BY <1>1, <2>1 DEF CompilerClears, StackTypeOK
  <2>2. CASE CompilerWrites
    BY <1>1, <2>2 DEF CompilerWrites, OneProcess
  <2> QED BY <1>3, <2>1, <2>2
<1>5. \A q \in Runs : ~ Running(q)' /\ pc'[q] # "refused"
  BY <1>1, <1>2, <1>4 DEF Running
<1>6. \A q \in Runs : AloneRun(q)'
  BY <1>5 DEF AloneRun, Running, Waiting, Records, RegistryLabels
<1>7. FileAlone'
  BY <1>1, <1>2 DEF FileAlone
<1>8. BuildWhole'
  <2>1. ASSUME NEW b \in Builds, CompilerClears(b) PROVE BuildWhole'
    <3>1. compiler' = [build |-> b, next |-> 1] /\ compiler' # Idle /\ built' = Cleared
      BY <2>1 DEF CompilerClears, Idle
    <3>2. \A i \in 1..7 : built'[Outputs[i]] = 0 /\ ~ (i < 1)
      BY <3>1, FilesByName DEF Cleared
    <3> QED BY <3>1, <3>2 DEF BuildWhole
  <2>2. CASE CompilerWrites
    <3> DEFINE n == compiler.next
    <3>1. compiler \in [build: Builds, next: 1..7] /\ compiler # Idle
      BY <1>1, <2>2, FilesByName DEF CompilerWrites, StackTypeOK
    <3>2. \A i \in 1..7 : built'[Outputs[i]] = IF i <= n THEN compiler.build ELSE 0
      <4>1. \A i \in 1..7 : built'[Outputs[i]] = IF i = n THEN compiler.build
                                                 ELSE built[Outputs[i]]
        BY <1>1, <2>2, <3>1, FilesByName DEF CompilerWrites, StackTypeOK
      <4>2. \A i \in 1..7 : built[Outputs[i]] = IF i < n THEN compiler.build ELSE 0
        BY <1>1, <3>1 DEF BuildWhole
      <4> QED BY <3>1, <4>1, <4>2
    <3>3. CASE n = 7
      <4>1. compiler' = Idle
        BY <2>2, <3>3, FilesByName DEF CompilerWrites, LastOutput
      <4>2. \A f \in Files : \E i \in 1..7 : f = Outputs[i]
        BY DEF Files
      <4>3. \A f \in Files : built'[f] = compiler.build
        BY <3>2, <3>3, <4>2
      <4> QED BY <3>1, <4>1, <4>3 DEF BuildWhole
    <3>4. CASE n # 7
      <4>1. /\ compiler'.next = n + 1 /\ compiler'.build = compiler.build
            /\ compiler' # Idle
        BY <2>2, <3>1, <3>4, FilesByName DEF CompilerWrites, LastOutput, Idle
      <4>2. \A i \in 1..7 : i < n + 1 <=> i <= n
        BY <3>1
      <4> QED BY <3>2, <4>1, <4>2 DEF BuildWhole
    <3> QED BY <3>3, <3>4
  <2> QED BY <1>3, <2>1, <2>2
<1>9. OneProcess'
  BY <1>5 DEF OneProcess
<1> QED BY <1>5, <1>6, <1>7, <1>8, <1>9 DEF AloneInv

\* Dropping a contract leaves what is compared with it where it was.
LEMMA ReorganiseAlone ==
    ASSUME StackInv, AloneInv, ~ disturbed, Reorganise
    PROVE  AloneInv'
<1>1. /\ StackTypeOK /\ FileAlone /\ OneProcess /\ BuildWhole
      /\ \A q \in Runs : pc[q] # "refused" /\ AloneRun(q)
  BY DEF StackInv, AloneInv
<1>2. UNCHANGED <<file, built, compiler, pc, local, latest>>
  BY DEF Reorganise, build, history
<1>3. \A q \in Runs : decoders'[q] \in {decoders[q], 0}
  BY <1>1 DEF Reorganise, StackTypeOK
<1>4. FileAlone'
  BY <1>1, <1>2, <1>3, FileAloneKept
<1>5. OneProcess' /\ BuildWhole'
  BY <1>1, <1>2 DEF OneProcess, BuildWhole, Running
<1>6. ASSUME NEW q \in Runs PROVE AloneRun(q)'
  <2>1. Decoder(q)' = Decoder(q) /\ Records(q)' = Records(q) /\ Target(q)' = Target(q)
    BY <1>2 DEF Decoder, Records, Target
  <2>2. Readable(file)' = Readable(file)
    BY <1>2 DEF Readable
  <2> QED BY <1>1, <1>2, <1>3, <2>1, <2>2 DEF AloneRun
<1> QED BY <1>1, <1>2, <1>4, <1>5, <1>6 DEF AloneInv

\* AloneInv holds at the start.
LEMMA AloneInitially == StackInit => AloneInv
<1> SUFFICES ASSUME StackInit PROVE AloneInv
  OBVIOUS
<1>1. \A q \in Runs : pc[q] = "idle" /\ ~ Running(q)
  BY DEF StackInit, Running, Waiting
<1>2. BuildWhole
  BY DEF StackInit, BuildWhole
<1>3. FileAlone
  BY DEF StackInit, FileAlone, NoDeployment, NoRegistry
<1>4. \A q \in Runs : AloneRun(q)
  BY <1>1 DEF AloneRun, Records, RegistryLabels
<1> QED BY <1>1, <1>2, <1>3, <1>4 DEF AloneInv, OneProcess

\* Every step keeps AloneInv.
LEMMA AloneNext == StackInv /\ AloneInv /\ [StackNext]_stackVars => AloneInv'
<1> SUFFICES ASSUME StackInv, AloneInv, [StackNext]_stackVars, ~ disturbed' PROVE AloneInv'
  BY DEF AloneInv
<1>1. disturbed \in BOOLEAN
  BY DEF StackInv, StackTypeOK
<1>2. ASSUME NEW r \in Runs, Begin(r) PROVE AloneInv'
  BY <1>2, BeginAlone
<1>3. ASSUME NEW r \in Runs,
             \/ SendSource(r) \/ SourceMined(r) \/ RecordSource(r)
             \/ Resolve(r) \/ SendInlined(r) \/ SendDecoder(r) \/ DecoderMined(r) \/ SendLinked(r)
             \/ RegistryMined(r) \/ RecordRegistry(r)
             \/ OpenFile(r) \/ WriteFile(r) \/ Refuse(r) \/ Stop(r)
      PROVE  AloneInv'
  <2>1. ~ disturbed
    BY <1>3 DEF SendSource, SourceMined, RecordSource, Resolve, SendInlined, SendDecoder,
                DecoderMined, SendLinked, RegistryMined, RecordRegistry, OpenFile, WriteFile,
                Refuse, Stop, history
  <2> QED BY <1>3, <2>1, SendSourceAlone, SourceAlone, ResolveAlone, SendInlinedAlone,
             SendDecoderAlone, DecoderMinedAlone, SendLinkedAlone, RegistryMinedAlone,
             RecordRegistryAlone, OpenFileAlone, WriteFileAlone, RefuseAlone, StopAlone
<1>4. CASE (\E b \in Builds : CompilerClears(b)) \/ CompilerWrites \/ CompilerStops
  <2>1. ~ disturbed
    BY <1>1, <1>4 DEF CompilerClears, CompilerWrites, CompilerStops, history
  <2> QED BY <1>4, <2>1, CompilerAlone
<1>5. CASE Reorganise
  BY <1>5, ReorganiseAlone DEF Reorganise, history
<1>6. CASE UNCHANGED stackVars
  <2>1. UNCHANGED <<file, built, compiler, pc, local, latest, disturbed, decoders>>
    BY <1>6 DEF stackVars, chains, build, history
  <2>2. \A q \in Runs : AloneRun(q) => AloneRun(q)'
    BY <2>1 DEF AloneRun, Records, RegistryLabels, Target, Decoder, Readable
  <2>3. OneProcess' = OneProcess /\ BuildWhole' = BuildWhole /\ FileAlone' = FileAlone
    BY <2>1 DEF OneProcess, BuildWhole, FileAlone, Running
  <2> QED BY <2>1, <2>2, <2>3 DEF AloneInv
<1> QED BY <1>2, <1>3, <1>4, <1>5, <1>6 DEF StackNext

-----------------------------------------------------------------------------
(* Theorems                                                                 *)

\* Whatever overlaps, records are true of the chains and of what will not change there.
THEOREM StackInvariance == StackSpec => []StackInv
BY StackInitially, StackStep, PTL DEF StackSpec

\* Every variable keeps its type.
THEOREM StackTypeCorrect == StackSpec => []StackTypeOK
<1>1. StackInv => StackTypeOK
  BY DEF StackInv
<1> QED BY <1>1, StackInvariance, PTL

\* What the tools wrote can be loaded: the recorded registry trusts the recorded source.
THEOREM RecordsAlwaysReadable == StackSpec => []RecordsReadable
<1>1. StackInv => RecordsReadable
  BY DEF StackInv, FileTrue, RecordsReadable, Readable
<1> QED BY <1>1, StackInvariance, PTL

\* The recorded registry is one build, linked to the recorded decoder.
THEOREM RegistryIsOneBuild == StackSpec => []RegistryOfOneBuild
<1>1. StackInv => RegistryOfOneBuild
  <2> SUFFICES ASSUME StackInv, file.registry.address # 0,
                      registries[file.registry.address] # NoCode
               PROVE  LET g == file.registry
                      IN  /\ AsCompiled(registries[g.address], g.hash.build)
                          /\ registries[g.address].decoder = g.decoder
                          /\ (g.decoder = 0) = (Layout[g.hash.build] = 0)
    BY DEF RegistryOfOneBuild
  <2> DEFINE g == file.registry
  <2>1. RegistryTrue(g)
    BY DEF StackInv, FileTrue
  <2>2. registries[g.address] = g.hash /\ g.hash.build # 0
    BY <2>1 DEF RegistryTrue
  <2> QED BY <2>1, <2>2 DEF RegistryTrue, AsCompiled, Linked
<1> QED BY <1>1, StackInvariance, PTL

\* Whoever is configured from a file that names a registry accepts that registry.
THEOREM ConfiguredAlwaysAccepted == StackSpec => []ConfiguredAreAccepted
<1>1. StackInv => ConfiguredAreAccepted
  <2> SUFFICES ASSUME StackInv, NEW e \in UNION {Envs[r] : r \in Runs},
                      file.registry.address # 0, Resolvable(e, file),
                      registries[file.registry.address] # NoCode
               PROVE  LET c == Resolved(e, file)
                          code == registries[file.registry.address]
                      IN  /\ ReaderAccepts(c, code) <=> e.empty \subseteq {"sourceHash"}
                          /\ c.source # 0 /\ sources[c.source] # 0
                                => (DoctorAccepts(c, sources[c.source], code)
                                       <=> e.empty \subseteq {"sourceHash", "registryHash"})
    BY DEF ConfiguredAreAccepted
  <2> DEFINE g == file.registry
             c == Resolved(e, file)
  <2>1. /\ RegistryTrue(g) /\ registries[g.address] = g.hash
        /\ file.source.address # 0 => file.source.address = g.trusted
    BY DEF StackInv, FileTrue, RegistryTrue
  <2>2. RecordedSource(file) = g.trusted
    BY <2>1 DEF RecordedSource
  <2>3. /\ g.key # 0 /\ g.trusted # 0 /\ g.hash.build # 0
        /\ g.hash.build \in Declaring /\ g.hash.key = g.key /\ g.hash.source = g.trusted
        /\ sources[g.trusted] \in Declaring \cup {0}
    BY <2>1 DEF RegistryTrue
  <2>4. g.hash # NoCode
    BY <2>3 DEF NoCode
  <2>5. EmptyHasNoValue(e) /\ e.empty \subseteq Names
    BY DEF Environments
  <2>6. /\ c.key = IF "key" \in e.empty THEN 0 ELSE g.key
        /\ c.source = IF "source" \in e.empty THEN 0 ELSE g.trusted
        /\ c.registry = IF "registry" \in e.empty THEN 0 ELSE g.address
        /\ c.registryHash = IF "registryHash" \in e.empty THEN NoCode ELSE g.hash
    BY <2>2, <2>3, <2>4, <2>5 DEF Resolvable, Conflict, Resolved, Prefer, EmptyHasNoValue
  <2>7. ReaderAccepts(c, registries[g.address]) <=> e.empty \subseteq {"sourceHash"}
    BY <2>1, <2>3, <2>4, <2>5, <2>6 DEF ReaderAccepts, TrustConfigured, Names
  <2>8. ASSUME c.source # 0, sources[c.source] # 0
        PROVE  DoctorAccepts(c, sources[c.source], registries[g.address])
                  <=> e.empty \subseteq {"sourceHash", "registryHash"}
    BY <2>1, <2>3, <2>5, <2>6, <2>8 DEF DoctorAccepts, Names
  <2> QED BY <2>7, <2>8
<1> QED BY <1>1, StackInvariance, PTL

\* One process at a time finds the files of one build, and the file as it was left.
THEOREM AloneInvariance == StackSpec => []AloneInv
BY StackInvariance, AloneInitially, AloneNext, PTL DEF StackSpec

\* Without overlapping runs, nothing that a run deployed is left unrecorded by a comparison.
THEOREM NothingEverRefused == StackSpec => []NothingRefused
<1>1. AloneInv => NothingRefused
  BY DEF AloneInv, NothingRefused
<1> QED BY <1>1, AloneInvariance, PTL

\* Without overlapping runs, the doctor finds what was recorded last, as compiled.
THEOREM DoctorAlwaysFinds == StackSpec => []DoctorFindsLatest
<1>1. StackInv /\ AloneInv => DoctorFindsLatest
  <2> SUFFICES ASSUME StackInv, AloneInv, ~ disturbed, file.state = "json"
               PROVE  DoctorFindsLatest
    BY DEF DoctorFindsLatest
  <2> DEFINE s == file.source
             g == file.registry
             b == g.hash.build
  <2>1. latest # 0 => s.address = latest
    BY DEF AloneInv, FileAlone
  <2>2. SourceTrue(s) /\ RegistryTrue(g)
    BY DEF StackInv, FileTrue
  <2> SUFFICES ASSUME s.address # 0, sources[s.address] # 0, g.address # 0,
                      registries[g.address] # NoCode, s.hash = b, \A f \in Files : built[f] = b
               PROVE  /\ sources[s.address] = built["source.runtime"]
                      /\ AsCompiled(registries[g.address], built["registry.runtime"])
                      /\ g.decoder # 0
                           => decoders[g.decoder] \in {0, DecoderOf[built["decoder.runtime"]]}
    BY <2>1 DEF DoctorFindsLatest
  <2>3. /\ built["source.runtime"] = b /\ built["registry.runtime"] = b
        /\ built["decoder.runtime"] = b
    BY FilesByName
  <2>4. sources[s.address] = b
    BY <2>2 DEF SourceTrue
  <2>5. registries[g.address] = g.hash /\ b # 0 /\ g.hash.links = Layout[b]
    BY <2>2 DEF RegistryTrue
  <2>6. g.decoder # 0 => decoders[g.decoder] \in {0, DecoderOf[b]}
    BY DEF AloneInv, FileAlone
  <2> QED BY <2>3, <2>4, <2>5, <2>6 DEF AsCompiled, Linked
<1> QED BY <1>1, StackInvariance, AloneInvariance, PTL

=============================================================================
