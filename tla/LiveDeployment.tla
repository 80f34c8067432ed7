--------------------------- MODULE LiveDeployment ---------------------------
(***************************************************************************)
(* live-deployment.ts: what build/live-deployment.json holds and how the   *)
(* tools resolve their configuration from it and the environment; and      *)
(* what the readers of that configuration (authorization-registry.ts, the  *)
(* submission doctor) require of the two chains.                           *)
(*                                                                         *)
(* A contract is known by the run of the deployment tool that created it,  *)
(* or is one of Elsewhere.  Runtime code is known by the build it is of,   *)
(* and a code hash by the code.  Zero stands for what is not there.        *)
(***************************************************************************)
EXTENDS Naturals

CONSTANTS
    Runs,       \* runs of deploy-live-stack
    Elsewhere,  \* other sources, and the build
    Others,     \* each is of
    Builds,     \* what the compiler may write
    Declaring,  \* the builds with the domain constants that the tools have
    Layout,     \* where a build's registry has library links; 0: the decoder is inlined
    DecoderOf,  \* a build's decoder, which others may have too
    Envs        \* the environments each is started in

Addresses == Runs \cup Elsewhere

RegistryCodes ==
    [build: Builds \cup {0}, links: Nat, decoder: Runs \cup {0}, key: Nat,
     source: Addresses \cup {0}]

NoCode == [build |-> 0, links |-> 0, decoder |-> 0, key |-> 0, source |-> 0]

Names == {"key", "source", "sourceHash", "registry", "registryHash"}

\* empty: the variables that are set to nothing, or to blanks, and have no value.
Environments ==
    [target: {"source", "registry"}, key: Nat, source: Addresses \cup {0},
     sourceHash: Builds \cup {0}, registry: Runs \cup {0}, registryHash: RegistryCodes,
     empty: SUBSET Names]

EmptyHasNoValue(e) ==
    /\ "key" \in e.empty => e.key = 0
    /\ "source" \in e.empty => e.source = 0
    /\ "sourceHash" \in e.empty => e.sourceHash = 0
    /\ "registry" \in e.empty => e.registry = 0
    /\ "registryHash" \in e.empty => e.registryHash = NoCode

ASSUME DeploymentAssumption ==
    /\ Runs \subseteq Nat \ {0} /\ Elsewhere \subseteq Nat \ {0}
    /\ Runs \cap Elsewhere = {}
    /\ Builds \subseteq Nat \ {0} /\ Declaring \subseteq Builds
    /\ Others \in [Elsewhere -> Builds \cup {0}]
    /\ Layout \in [Builds -> Nat] /\ DecoderOf \in [Builds -> Nat \ {0}]
    /\ Envs \in [Runs -> SUBSET Environments]
    /\ \A r \in Runs : \A e \in Envs[r] : EmptyHasNoValue(e)

-----------------------------------------------------------------------------
(* The file                                                                 *)

NoSource == [address |-> 0, hash |-> 0]

SourceSections == [address: Runs \cup {0}, hash: Builds \cup {0}]

NoRegistry == [address |-> 0, trusted |-> 0, key |-> 0, decoder |-> 0, hash |-> NoCode]

RegistrySections ==
    [address: Runs \cup {0}, trusted: Addresses \cup {0}, key: Nat, decoder: Runs \cup {0},
     hash: RegistryCodes]

\* empty: opened for writing.  garbage: what two writers left.
Deployments ==
    [state: {"absent", "empty", "garbage", "json"},
     source: SourceSections, registry: RegistrySections]

NoDeployment == [state |-> "absent", source |-> NoSource, registry |-> NoRegistry]

Unreadable(s) == [NoDeployment EXCEPT !.state = s]

Readable(f) ==
    /\ f.state \in {"absent", "json"}
    /\ f.source.address # 0 /\ f.registry.address # 0 => f.source.address = f.registry.trusted

\* A new source takes the record of the old one's registry away.
SourceRecorded(address, hash) ==
    [state |-> "json", source |-> [address |-> address, hash |-> hash], registry |-> NoRegistry]

\* Faults of the definitions below.
SourceForgotten(existing, section) ==
    [state |-> "json", source |-> NoSource, registry |-> section]

ConfiguredWins(e, f) == Readable(f)

RegistryRecorded(existing, section) ==
    [state |-> "json", source |-> existing, registry |-> section]

-----------------------------------------------------------------------------
(* The configuration                                                        *)

Conflict(configured, recorded, none) == none \notin {configured, recorded} /\ configured # recorded

\* A variable that is set to nothing is chosen before what is recorded.
Prefer(configured, empty, recorded, none) ==
    CASE configured # none -> configured
      [] configured = none /\ empty -> none
      [] configured = none /\ ~ empty -> recorded

RecordedSource(f) == IF f.source.address # 0 THEN f.source.address ELSE f.registry.trusted

Resolvable(e, f) ==
    /\ Readable(f)
    /\ ~ Conflict(e.key, f.registry.key, 0)
    /\ ~ Conflict(e.source, RecordedSource(f), 0)
    /\ ~ Conflict(e.sourceHash, f.source.hash, 0)
    /\ ~ Conflict(e.registry, f.registry.address, 0)
    /\ ~ Conflict(e.registryHash, f.registry.hash, NoCode)

Resolved(e, f) ==
    [key          |-> Prefer(e.key, "key" \in e.empty, f.registry.key, 0),
     source       |-> Prefer(e.source, "source" \in e.empty, RecordedSource(f), 0),
     sourceHash   |-> Prefer(e.sourceHash, "sourceHash" \in e.empty, f.source.hash, 0),
     registry     |-> Prefer(e.registry, "registry" \in e.empty, f.registry.address, 0),
     registryHash |-> Prefer(e.registryHash, "registryHash" \in e.empty, f.registry.hash, NoCode)]

-----------------------------------------------------------------------------
(* Its readers.  code: of the registry c names; source: of the source.      *)

\* createConfiguredAuthorizationReader
TrustConfigured(c) == c.registry # 0 /\ c.registryHash # NoCode /\ c.key # 0 /\ c.source # 0

\* readAuthorization, up to the record.
ReaderAccepts(c, code) ==
    /\ TrustConfigured(c)
    /\ code = c.registryHash
    /\ code.key = c.key /\ code.source = c.source
    /\ code.build \in Declaring

\* The doctor's comparison of both chains, before it looks at the local build.
DoctorAccepts(c, source, code) ==
    /\ c.registry # 0 /\ c.source # 0 /\ c.key # 0
    /\ {source, code.build} \subseteq Declaring
    /\ code.key = c.key /\ code.source = c.source

\* The decoder's address is put where the local build has its links.
Linked(code, runtime) == code.links = Layout[runtime]

\* The registry's runtime is what the local build gives, linked to its decoder.
AsCompiled(code, runtime) == code.build = runtime /\ code.build # 0 /\ Linked(code, runtime)

=============================================================================
