----------------------------- MODULE DeployStack -----------------------------
(***************************************************************************)
(* deploy-live-stack.ts, run several times, in one directory, next to a    *)
(* compiler (compile-contracts.ts) that rewrites the files the tool reads. *)
(* A run deploys a source, or a registry that trusts the source recorded   *)
(* or configured, and writes down what it deployed.                        *)
(*                                                                         *)
(* pc[r] is what run r is waiting for; an action is the answer and the     *)
(* synchronous code up to the next await, except that the file is loaded,  *)
(* opened (which empties it) and written in separate steps: other          *)
(* processes do not wait for this one.                                     *)
(***************************************************************************)
EXTENDS LiveDeployment, Sequences

CONSTANTS MaxCompilations, MaxDrops  \* bounds of the world

ASSUME BoundsAssumption == {MaxCompilations, MaxDrops} \subseteq Nat

VARIABLES
    sources, decoders, registries,  \* the contracts on the two chains
    file,                           \* build/live-deployment.json
    built, compiler,                \* build/contracts, and the run of the compiler
    compilations, drops,            \* counted for the bounds
    pc, local,
    disturbed,  \* history: two runs overlapped, or a compilation was cut short
    latest      \* history: the source recorded last

chains == <<sources, decoders, registries>>
build == <<built, compiler>>
bounds == <<compilations, drops>>
history == <<disturbed, latest>>
stackVars == <<chains, file, build, bounds, pc, local, history>>

\* In the order compile-contracts writes them; a runtime stands for its three files.
Outputs ==
    <<"source.bin", "source.runtime", "registry.bin", "registry.links", "registry.runtime",
      "decoder.bin", "decoder.runtime">>

Files == {Outputs[i] : i \in 1..7}

\* sent: the build of the bytecode that was sent last.  existing: the source section loaded.
Blank ==
    [env |-> [target |-> "source", key |-> 0, source |-> 0, sourceHash |-> 0, registry |-> 0,
              registryHash |-> NoCode, empty |-> {}],
     source |-> 0, links |-> 0, sent |-> 0, existing |-> NoSource]

Locals ==
    [env: Environments, source: Addresses \cup {0}, links: Nat, sent: Builds \cup {0},
     existing: SourceSections]

Ended == {"done", "stopped", "refused"}

Waiting ==
    {"network", "source", "sourceCode", "anchors", "decoder", "decoderCode", "registry",
     "registryCode", "open", "write"}

Running(r) == pc[r] \in Waiting

Idle == [build |-> 0, next |-> 0]

-----------------------------------------------------------------------------
(* Faults: each is a plausible mistake in the definition it is named for.   *)

OnePastTheEnd(n) == n > Len(Outputs)

NotCleared == built

AnyCode(r) == sources[local[r].source] # 0

DomainsUnread(r) ==
    registries[r].key = local[r].env.key /\ registries[r].source = local[r].source

LinksUnread(r) == built["registry.runtime"] \in {registries[r].build} \ {0}

AnySource(r) == Readable(file)

-----------------------------------------------------------------------------
(* What a run knows                                                         *)

Target(r) == local[r].env.target

At(r, target, label) == pc[r] = label /\ Target(r) = target

\* The decoder's address: it is this run's, unless the decoder is inlined.
Decoder(r) == IF local[r].links = 0 THEN 0 ELSE r

\* The registry that this run sends.
Code(r) ==
    [build |-> local[r].sent, links |-> local[r].links, decoder |-> Decoder(r),
     key |-> local[r].env.key, source |-> local[r].source]

SourceStands(r) == sources[local[r].source] \in Declaring

SourceVerified(r) == built["source.runtime"] = sources[r]

DecoderVerified(r) ==
    built["decoder.runtime"] # 0 /\ DecoderOf[built["decoder.runtime"]] = decoders[r]

\* The links read before the decoder was sent fit the bytecode read after it.
Linkable(r) == built["registry.bin"] # 0 /\ Layout[built["registry.bin"]] = local[r].links

\* validateSemanticRegistryTrustAnchors
AnchorsValid(r) ==
    /\ registries[r].build \in Declaring
    /\ registries[r].key = local[r].env.key
    /\ registries[r].source = local[r].source

RegistryVerified(r) ==
    built["registry.runtime"] # 0 /\ AsCompiled(registries[r], built["registry.runtime"])

\* recordSemanticRegistryDeployment, before it writes.
Admits(r) == Readable(file) /\ file.source.address \in {0, local[r].source}

Section(r) ==
    [address |-> r, trusted |-> local[r].source, key |-> local[r].env.key,
     decoder |-> Decoder(r), hash |-> Code(r)]

Content(r) ==
    IF Target(r) = "source" THEN SourceRecorded(r, local[r].sent)
                            ELSE RegistryRecorded(local[r].existing, Section(r))

-----------------------------------------------------------------------------
(* Steps of a run                                                           *)

Go(r, label, l) ==
    /\ pc' = [pc EXCEPT ![r] = label]
    /\ local' = [local EXCEPT ![r] = l]

Begin(r) ==
    /\ pc[r] = "idle"
    /\ \E e \in Envs[r] : Go(r, "network", [local[r] EXCEPT !.env = e])
    /\ disturbed' = (disturbed \/ compiler # Idle \/ \E q \in Runs : Running(q))
    /\ UNCHANGED <<chains, file, build, bounds, latest>>

SendSource(r) ==
    /\ At(r, "source", "network")
    /\ built["source.bin"] # 0
    /\ Go(r, "source", [local[r] EXCEPT !.sent = built["source.bin"]])
    /\ UNCHANGED <<chains, file, build, bounds, history>>

SourceMined(r) ==
    /\ pc[r] = "source"
    /\ sources' = [sources EXCEPT ![r] = local[r].sent]
    /\ Go(r, "sourceCode", local[r])
    /\ UNCHANGED <<decoders, registries, file, build, bounds, history>>

RecordSource(r) ==
    /\ pc[r] = "sourceCode"
    /\ sources[r] # 0 /\ SourceVerified(r)
    /\ Go(r, "open", local[r])
    /\ UNCHANGED <<chains, file, build, bounds, history>>

Resolve(r) ==
    LET e == local[r].env
        source == Resolved(e, file).source
    IN  /\ At(r, "registry", "network")
        /\ e.key # 0 /\ Resolvable(e, file) /\ source # 0
        /\ Go(r, "anchors", [local[r] EXCEPT !.source = source])
        /\ UNCHANGED <<chains, file, build, bounds, history>>

SendInlined(r) ==
    /\ pc[r] = "anchors" /\ SourceStands(r)
    /\ built["registry.links"] # 0 /\ Layout[built["registry.links"]] = 0
    /\ built["registry.bin"] # 0 /\ Layout[built["registry.bin"]] = 0
    /\ Go(r, "registry", [local[r] EXCEPT !.sent = built["registry.bin"], !.links = 0])
    /\ UNCHANGED <<chains, file, build, bounds, history>>

SendDecoder(r) ==
    /\ pc[r] = "anchors" /\ SourceStands(r)
    /\ built["registry.links"] # 0 /\ Layout[built["registry.links"]] # 0
    /\ built["decoder.bin"] # 0
    /\ Go(r, "decoder", [local[r] EXCEPT !.sent = built["decoder.bin"],
                                         !.links = Layout[built["registry.links"]]])
    /\ UNCHANGED <<chains, file, build, bounds, history>>

DecoderMined(r) ==
    /\ pc[r] = "decoder"
    /\ decoders' = [decoders EXCEPT ![r] = DecoderOf[local[r].sent]]
    /\ Go(r, "decoderCode", local[r])
    /\ UNCHANGED <<sources, registries, file, build, bounds, history>>

\* If the links do not fit, the linker may throw, or overwrite other bytes.
SendLinked(r) ==
    /\ pc[r] = "decoderCode"
    /\ decoders[r] # 0 /\ DecoderVerified(r) /\ built["registry.bin"] # 0
    /\ Go(r, "registry", [local[r] EXCEPT !.sent = built["registry.bin"]])
    /\ UNCHANGED <<chains, file, build, bounds, history>>

RegistryMined(r) ==
    /\ pc[r] = "registry"
    /\ registries' = [registries EXCEPT ![r] = Code(r)]
    /\ Go(r, "registryCode", local[r])
    /\ UNCHANGED <<sources, decoders, file, build, bounds, history>>

RecordRegistry(r) ==
    /\ pc[r] = "registryCode"
    /\ registries[r] # NoCode /\ AnchorsValid(r) /\ RegistryVerified(r) /\ Admits(r)
    /\ Go(r, "open", [local[r] EXCEPT !.existing = file.source])
    /\ UNCHANGED <<chains, file, build, bounds, history>>

OpenFile(r) ==
    /\ pc[r] = "open"
    /\ file' = Unreadable("empty")
    /\ Go(r, "write", local[r])
    /\ UNCHANGED <<chains, build, bounds, history>>

\* Whoever writes second, from the beginning, may leave the end of a longer text.
WriteFile(r) ==
    /\ pc[r] = "write"
    /\ \/ file' = Content(r)
       \/ file.state # "empty" /\ file' = Unreadable("garbage")
    /\ latest' = IF Target(r) = "source" THEN r ELSE latest
    /\ Go(r, "done", Blank)
    /\ UNCHANGED <<chains, build, bounds, disturbed>>

\* What is there after the deployment is not what the local build gives.
SourceUnproven(r) ==
    pc[r] = "sourceCode" /\ sources[r] # 0 /\ ~ SourceVerified(r)

DecoderUnproven(r) ==
    pc[r] = "decoderCode" /\ decoders[r] # 0 /\ ~ (DecoderVerified(r) /\ Linkable(r))

RegistryUnproven(r) ==
    /\ pc[r] = "registryCode" /\ registries[r] # NoCode /\ AnchorsValid(r)
    /\ ~ (RegistryVerified(r) /\ Admits(r))

\* What was deployed is not recorded, although it is still there and is as configured.
Refuse(r) ==
    /\ SourceUnproven(r) \/ DecoderUnproven(r) \/ RegistryUnproven(r)
    /\ Go(r, "refused", Blank)
    /\ UNCHANGED <<chains, file, build, bounds, history>>

\* Another throw, a kill, or the machine goes down.
Stop(r) ==
    /\ Running(r)
    /\ Go(r, "stopped", Blank)
    /\ UNCHANGED <<chains, file, build, bounds, history>>

-----------------------------------------------------------------------------
(* The compiler and the chains                                              *)

Cleared == [f \in Files |-> 0]

LastOutput(n) == n = Len(Outputs)

\* It removes the directory, compiles what the sources are now, and writes file by file.
CompilerClears(b) ==
    /\ compiler = Idle /\ compilations < MaxCompilations
    /\ compilations' = compilations + 1
    /\ built' = Cleared
    /\ compiler' = [build |-> b, next |-> 1]
    /\ disturbed' = (disturbed \/ \E q \in Runs : Running(q))
    /\ UNCHANGED <<chains, file, drops, pc, local, latest>>

CompilerWrites ==
    /\ compiler # Idle
    /\ built' = [built EXCEPT ![Outputs[compiler.next]] = compiler.build]
    /\ compiler' = IF LastOutput(compiler.next) THEN Idle ELSE [compiler EXCEPT !.next = @ + 1]
    /\ UNCHANGED <<chains, file, bounds, pc, local, history>>

CompilerStops ==
    /\ compiler # Idle
    /\ compiler' = Idle
    /\ disturbed' = TRUE
    /\ UNCHANGED <<chains, file, built, bounds, pc, local, latest>>

\* One confirmation is not final: a reorganisation may drop a deployment.
Reorganise ==
    /\ drops < MaxDrops /\ drops' = drops + 1
    /\ \/ \E r \in Runs : /\ sources[r] # 0
                          /\ sources' = [sources EXCEPT ![r] = 0]
                          /\ UNCHANGED <<decoders, registries>>
       \/ \E r \in Runs : /\ decoders[r] # 0
                          /\ decoders' = [decoders EXCEPT ![r] = 0]
                          /\ UNCHANGED <<sources, registries>>
       \/ \E r \in Runs : /\ registries[r] # NoCode
                          /\ registries' = [registries EXCEPT ![r] = NoCode]
                          /\ UNCHANGED <<sources, decoders>>
    /\ UNCHANGED <<file, build, compilations, pc, local, history>>

StackInit ==
    /\ sources = [a \in Addresses |-> IF a \in Elsewhere THEN Others[a] ELSE 0]
    /\ decoders = [r \in Runs |-> 0]
    /\ registries = [r \in Runs |-> NoCode]
    /\ file = NoDeployment
    /\ \E b \in Builds \cup {0} : built = [f \in Files |-> b]
    /\ compiler = Idle /\ compilations = 0 /\ drops = 0
    /\ pc = [r \in Runs |-> "idle"]
    /\ local = [r \in Runs |-> Blank]
    /\ disturbed = FALSE
    /\ latest = 0

StackNext ==
    \/ \E r \in Runs :
          \/ Begin(r) \/ SendSource(r) \/ SourceMined(r) \/ RecordSource(r)
          \/ Resolve(r) \/ SendInlined(r) \/ SendDecoder(r) \/ DecoderMined(r) \/ SendLinked(r)
          \/ RegistryMined(r) \/ RecordRegistry(r)
          \/ OpenFile(r) \/ WriteFile(r) \/ Refuse(r) \/ Stop(r)
    \/ \E b \in Builds : CompilerClears(b)
    \/ CompilerWrites \/ CompilerStops
    \/ Reorganise

StackSpec == StackInit /\ [][StackNext]_stackVars

-----------------------------------------------------------------------------
(* Properties                                                               *)

(* Type correctness.                                                        *)
StackTypeOK ==
    /\ sources \in [Addresses -> Builds \cup {0}]
    /\ decoders \in [Runs -> Nat]
    /\ registries \in [Runs -> RegistryCodes]
    /\ file \in Deployments
    /\ built \in [Files -> Builds \cup {0}]
    /\ compiler \in {Idle} \cup [build: Builds, next: 1..Len(Outputs)]
    /\ {compilations, drops} \subseteq Nat
    /\ pc \in [Runs -> {"idle"} \cup Waiting \cup Ended]
    /\ local \in [Runs -> Locals]
    /\ disturbed \in BOOLEAN /\ latest \in Runs \cup {0}

(* What a run wrote, alone or with others, whatever was redeployed while it *)
(* waited, is never rejected for its content: the recorded registry trusts  *)
(* the recorded source.                                                     *)
RecordsReadable == file.state = "json" => Readable(file)

(* Who configures himself from a file that names a registry gets a registry *)
(* which, if the chain still has it, his own checks accept: the reader of   *)
(* authorizations, and the doctor's as well if the source is still there.   *)
(* They refuse him if a variable they need is set to nothing, which hides   *)
(* what the file has, and for no other reason.                              *)
ConfiguredAreAccepted ==
    \A e \in UNION {Envs[r] : r \in Runs} :
        LET c == Resolved(e, file)
            code == registries[file.registry.address]
        IN  file.registry.address # 0 /\ Resolvable(e, file) /\ code # NoCode
                => /\ ReaderAccepts(c, code) <=> e.empty \subseteq {"sourceHash"}
                   /\ c.source # 0 /\ sources[c.source] # 0
                         => (DoctorAccepts(c, sources[c.source], code)
                                <=> e.empty \subseteq {"sourceHash", "registryHash"})

(* The recorded registry is one build, linked where that build has links to *)
(* the decoder that is recorded with it, although its parts are read before *)
(* and after deploying the decoder.                                         *)
RegistryOfOneBuild ==
    LET g == file.registry
    IN  g.address # 0 /\ registries[g.address] # NoCode
            => /\ AsCompiled(registries[g.address], g.hash.build)
               /\ registries[g.address].decoder = g.decoder
               /\ (g.decoder = 0) = (Layout[g.hash.build] = 0)

(* Without overlapping runs nothing that a run deployed is left unrecorded  *)
(* but for a failure on the way: the checks at the end repeat, with the     *)
(* same result, what was known before anything was sent.                    *)
NothingRefused == ~ disturbed => \A r \in Runs : pc[r] # "refused"

(* Without overlapping runs, the file holds the source recorded last, and   *)
(* if the local files are the build the stack was deployed from the doctor  *)
(* finds the source, the registry and its decoder as compiled.              *)
DoctorFindsLatest ==
    LET s == file.source
        g == file.registry
        b == g.hash.build
    IN  ~ disturbed /\ file.state = "json"
            => /\ latest # 0 => s.address = latest
               /\ /\ s.address # 0 /\ sources[s.address] # 0
                  /\ g.address # 0 /\ registries[g.address] # NoCode
                  /\ s.hash = b /\ \A f \in Files : built[f] = b
                  => /\ sources[s.address] = built["source.runtime"]
                     /\ AsCompiled(registries[g.address], built["registry.runtime"])
                     /\ g.decoder # 0
                           => decoders[g.decoder] \in {0, DecoderOf[built["decoder.runtime"]]}

-----------------------------------------------------------------------------
(* Inductive invariants                                                     *)

\* A source address that no later deployment can come to.
Settled(a) == a \in Elsewhere \/ pc[a] \notin {"idle", "network", "source"}

SourceTrue(s) ==
    s.address # 0 => /\ pc[s.address] = "done"
                     /\ s.hash # 0 /\ sources[s.address] \in {0, s.hash}

RegistryTrue(g) ==
    g.address # 0
        => /\ pc[g.address] = "done"
           /\ g.hash.build \in Declaring /\ g.hash.links = Layout[g.hash.build]
           /\ g.hash.key = g.key /\ g.hash.source = g.trusted /\ g.hash.decoder = g.decoder
           /\ g.key # 0 /\ g.trusted # 0
           /\ g.decoder = (IF g.hash.links = 0 THEN 0 ELSE g.address)
           /\ registries[g.address] \in {NoCode, g.hash}
           /\ Settled(g.trusted) /\ sources[g.trusted] \in Declaring \cup {0}

FileTrue ==
    /\ SourceTrue(file.source) /\ RegistryTrue(file.registry)
    /\ file.source.address # 0 /\ file.registry.address # 0
          => file.source.address = file.registry.trusted
    /\ file.source.address = 0 => file.source = NoSource
    /\ file.registry.address = 0 => file.registry = NoRegistry
    /\ file.state # "json" => file.source.address = 0 /\ file.registry.address = 0

RegistryLabels == {"anchors", "decoder", "decoderCode", "registry", "registryCode"}

Records(r) == pc[r] \in {"open", "write"}

SourceRun(r) ==
    /\ pc[r] \in {"source", "sourceCode"} => Target(r) = "source"
    /\ pc[r] \in {"source", "sourceCode"} \/ (Records(r) /\ Target(r) = "source")
          => local[r].sent # 0
    /\ pc[r] = "sourceCode" \/ (Records(r) /\ Target(r) = "source")
          => sources[r] \in {0, local[r].sent}

RegistryRun(r) ==
    LET recording == Records(r) /\ Target(r) = "registry"
    IN  /\ pc[r] \in RegistryLabels => Target(r) = "registry"
        /\ pc[r] \in RegistryLabels \/ recording => local[r].env.key # 0 /\ local[r].source # 0
        /\ pc[r] \in RegistryLabels \ {"anchors"} \/ recording
              => /\ Settled(local[r].source)
                 /\ sources[local[r].source] \in Declaring \cup {0}
                 /\ local[r].sent # 0
        /\ pc[r] = "registryCode" \/ recording => registries[r] \in {NoCode, Code(r)}
        /\ recording => /\ local[r].sent \in Declaring
                        /\ local[r].links = Layout[local[r].sent]
                        /\ SourceTrue(local[r].existing)
                        /\ local[r].existing.address \in {0, local[r].source}
                        /\ local[r].existing.address = 0 => local[r].existing = NoSource

(* What a record names is settled, and true of the chain as long as the     *)
(* chain has it; what a run will write is already true.                     *)
StackInv ==
    /\ StackTypeOK
    /\ FileTrue
    /\ \A a \in Addresses : sources[a] # 0 => Settled(a)
    /\ \A r \in Runs : SourceRun(r) /\ RegistryRun(r)

\* One build, or as far as the compiler is.
BuildWhole ==
    IF compiler = Idle THEN \E b \in Builds \cup {0} : \A f \in Files : built[f] = b
    ELSE \A i \in 1..7 : built[Outputs[i]] = IF i < compiler.next THEN compiler.build ELSE 0

\* A run that is alone finds at its end what it found at its beginning.
AloneRun(r) ==
    LET l == local[r]
        recording == Records(r) /\ Target(r) = "registry"
    IN  /\ pc[r] \in {"source", "sourceCode", "decoder", "decoderCode", "registry", "registryCode"}
              => \A f \in Files : built[f] = l.sent
        /\ pc[r] \in {"decoder", "decoderCode"} => l.links = Layout[l.sent] /\ l.links # 0
        /\ pc[r] \in {"registry", "registryCode"} => l.links = Layout[l.sent]
        /\ pc[r] \in {"decoderCode", "registry", "registryCode"} \/ recording
              => Decoder(r) = 0 \/ decoders[r] \in {0, DecoderOf[l.sent]}
        /\ pc[r] \in RegistryLabels => Readable(file) /\ file.source.address \in {0, l.source}
        /\ recording /\ latest # 0 => l.existing.address = latest

\* The file is as the last run left it.
FileAlone ==
    /\ file.state = "absent" => latest = 0
    /\ file.state = "json" /\ latest # 0 => file.source.address = latest
    /\ file.registry.decoder # 0
          => decoders[file.registry.decoder] \in {0, DecoderOf[file.registry.hash.build]}

OneProcess ==
    /\ \A q, r \in Runs : Running(q) /\ Running(r) => q = r
    /\ \A r \in Runs : Running(r) => compiler = Idle

(* Without overlapping runs, one process at a time finds the files of one   *)
(* build, and the deployment file as it left it or as the last run did.     *)
AloneInv ==
    ~ disturbed
        => /\ OneProcess /\ BuildWhole /\ FileAlone
           /\ \A r \in Runs : pc[r] # "refused" /\ AloneRun(r)

=============================================================================
