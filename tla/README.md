# AgentFirewall in TLA+

AgentFirewall lets an agent propose an EVM transaction and signs it only if an authorization that
the account's owner published on one chain has been verified on another, if the transaction is
exactly what was authorized, and if an independent controller approved it. This directory models
the parts of that pipeline whose correctness depends on order, concurrency and failure, checks
them with TLC on small instances, and proves the main results with TLAPS for every instance.

## 1. The system

Data flow: an owner calls **AuthorizationSource** on the source chain; a proof of that transaction
is fetched and submitted to **VerifiedAuthorizationRegistry** on Creditcoin, which records the
authorization; an agent calls the **MCP server** (or the SDK/HTTP check), which hands the proposal
to **GuardedSigner**; the signer inspects the execution chain, reads the record, checks intent,
controller approval and fees, checks the chain again, signs and broadcasts.

| Component | State | Operations | Interacts with | What is hard | What makes it correct |
|---|---|---|---|---|---|
| Guarded signer (`guarded-signer.ts`, `nonce-reservation.ts`, `guarded-signer-transaction.ts`, `guarded-signer-policy.ts`, `signer-observer.ts`) | process-wide set of reserved (chain, sender, nonce) keys; the locals of each call across about a dozen awaits; how often the signer was called | `guardAndSendVerified`, `reserveExecutionNonce`, `release` | wallet, primary and secondary provider, registry reader | concurrent calls, stale counts, reorganisations between reads, failing awaits, crashes, lost or late broadcasts, wallets that answer with something else | what is dispatched is what was authorized, once; facts under a signature are of one block; keys are released |
| Preflight and matching (`verified-preflight.ts`, `verified-authorization.ts`, `intent.ts`, `authorization.ts`, `analyzer.ts`, `semantic-registry.ts`) | none | pure verdicts | chain inspection, registry reader | many conditions, a decoder that tolerates more than the encoder writes, three implementations of the binding | ALLOW only if declared, actual and recorded agree; what was published can be executed |
| Controller approval (`controller-approval.ts`) | none | sign and verify EIP-712 messages | signer, MCP server | which fields the signature covers | an approval fits one authorization, executor, nonce, expiry and ceiling |
| MCP server (`mcp-server.ts`) | none of its own | `agentfirewall_check`, `agentfirewall_execute` | guarded signer, agent | retries, concurrent proposals, what an error means | answers say the truth about the signer |
| Chain inspection (`chain.ts`) | provider cache per network | inspect at a pinned block, failover | RPC endpoints | reads by number while blocks are replaced; a cached provider destroyed under another request | facts of one block; a working endpoint is found |
| Registry reader (`authorization-registry.ts`) | none | look a record up under a block snapshot | Creditcoin | mixed reads | a record is read whole |
| AuthorizationSource (Solidity) | `nextNonce` per owner, its events | `publishAuthorization` | callers, other contracts | reorganisations, several publications per transaction, reverts | an id names one publication |
| VerifiedAuthorizationRegistry (Solidity) | `authorizations`, `processedTransactions` | `submitVerifiedAuthorization` | BlockProver, anyone who submits | replays, look-alike events, batches | a record is a final publication, once; nothing recordable is lost |
| Attestcoin tools (`attestcoin-*.ts`) | a JSON artifact on disk | poll for a proof, submit it, verify, write | Proof Builder, registry | deadline and abort, crash between submit and write, lost updates | a rerun converges; the artifact says what the chain says |
| Live tools (`live-*.ts`, `demo-*.ts`, ...) | the same artifact | publish, run, verify | all of the above | reruns | each step can be repeated or refuses |
| Deployment (`deploy-live-stack.ts`, `live-deployment.ts`, `compile-contracts.ts`) | `build/contracts`, `build/live-deployment.json` | compile, deploy a source or a registry, record it, resolve a configuration | both chains, the registry reader, the submission doctor | parts of one contract read minutes apart, a compiler that rewrites them meanwhile, a file without a lock, reorganisations | what is recorded is one build, its parts fit each other, and its readers accept it |
| Fee rules (`guarded-signer-policy.ts`) | none | `normalizeFeeSafetyPolicy`, `enforceFeeSafety` | signer | legacy and EIP-1559 fields, boundaries | what is signed cannot cost more than the ceilings |
| HTTP server, SDK (`server.ts`, `sdk.ts`) | none | `/api/preflight`, `/api/intent-preflight`, `/api/verified-preflight`; `guard`, `guardIntent`, `guardVerified` | preflight, registry reader | answers that are lost, late or incomplete | only a complete ALLOW is taken for one |
| Build scripts | none | compile, compare | - | - | - |

Every source file belongs to a component of `PROJECT.json`, with its status and the reason where it
is not modelled. `PROJECT.json` also has the hazards, each at its line, with the properties aimed
at it.

## 2. Modules

| Module | Models | Notes |
|---|---|---|
| `GuardedSigner` | `guardAndSendVerified`, the reservations, and the node, network and processes around it | one action per awaited answer |
| `AuthorizedExecution` | the abstract specification: which transactions may be on the wire and at which nonce | refined by `GuardedSigner` |
| `AuthorizationLedger` | the abstract specification of the contracts and their chain: what may become final, recorded and expired | refined by `VerifiedAuthorizationRegistry` and by `LivePipeline` |
| `McpServer` | `agentfirewall_execute` on top of `GuardedSigner` | EXTENDS it; each answer is derived from the end of a call |
| `AuthorizationSource` | the contract and the source chain | transactions, reverts, blocks, reorganisations, attestation |
| `VerifiedAuthorizationRegistry` | the registry on top of `AuthorizationSource` | EXTENDS it; proofs are of attested transactions |
| `RpcFailover` | `inspectOnchain`, `findWorkingProvider` and the provider cache of `chain.ts` | concurrent inspections of one process |
| `LivePipeline` | the live tools and the two files they share | composed with both chains, reduced to what the tools see of them |
| `LiveDeployment` | `live-deployment.ts`, and what its readers require of the chains | operators without state |
| `DeployStack` | runs of `deploy-live-stack.ts` next to `compile-contracts.ts` | EXTENDS `LiveDeployment` |
| `Verdicts` | the pure part of a preflight: baseline score, effects, matching, commitments, proxies, fees | operators without state |
| `VerifiedPreflight` | one authorization and one transaction, from publication to the answer the caller gets | EXTENDS `Verdicts`; server with its client, or signer |
| `AtomicLookup` | the abstract specification of a lookup: one look at one block | refined by `AuthorizationReader` |
| `AuthorizationReader` | `readAuthorization` of `authorization-registry.ts` | EXTENDS `AtomicLookup`; one action per answered request |
| `ProofFetch` | `fetchAttestcoinProof` of `attestcoin-native.ts` | discrete time |
| `MC*` | values of the constants for TLC | `MCGuardedSigner`, `MCMcpServer`, `MCRegistry`, `MCRpcFailover`, `MCLivePipeline`, `MCDeployStack`, `MCVerifiedPreflight`, `MCAuthorizationReader` |
| `*Proofs` | theorems and proofs | `GuardedSignerProofs`, `RefinementProofs`, `RegistryProofs`, `RpcFailoverProofs`, `PipelineProofs`, `DeployStackProofs`, `PreflightProofs`, `ReaderFetchProofs` |

### GuardedSigner

`pc[c]` is the promise that call `c` waits for; an action is the answer to it and the synchronous
code behind it, up to the next await. JavaScript runs that code without interruption, so this is
the granularity at which calls of one process interleave. The first pending count is the one
exception: `CountPending` is the moment the node counts, `Reserve` the moment the answer reaches
the process; the reservation is made in the same turn as the answer is read, but other calls can run
and finish in between. The two requests of the `Promise.all` of the recheck are answered in either
order (`RecheckNonce`, `RecheckBlock`, then `CompareRecheck`).

| Label | Code in `guarded-signer.ts` |
|---|---|
| `identify` | 189-209: `getAddress`, `getNetwork`, the trusted controller may not execute |
| `count`, `reserve` | 211-224: pending count, `reserveExecutionNonce` |
| `populate` | 225-264: `populateTransaction`, the populated transaction is what was asked for, the fee is in the policy |
| `pin`, `code`, `confirm` | 266-: the preflight, `inspectOnchainWithProvider` of `chain.ts` 444-609 |
| `lookup` | -338: the record, verdict, registry identity and controller signature |
| `recheck` | 340-384: second count, latest block, expiry |
| `recode`, `reconfirm` | 386-427: code by number, block by number |
| `secondary` | 429-468 |
| `sign` | 498-541: signature, the raw transaction is compared with the prepared one, broadcast starts |
| `broadcast` | 543-568 |

Every return and every throw is `Settle`: the `finally` block releases the key exactly when the
label is inside the `try` block (`Holding`). `AwaitFails` is any await that rejects.

The world is everything the code does not control: `NodeAccepts`, `NodeDrops` (a broadcast may be
lost, refused, or taken although the caller was told otherwise), `ForeignSend` (another program
uses the account), `Evict`, `NewBlock`, `Reorg`, `Crash` of a process, `RecordVerified`.
`Populate` and `Sign` let the wallet answer any transaction at the call's nonce or the next.

What the data is reduced to: `to`, data and value are one `effect`; the target's runtime code is
one model value per block; a fee is one number; commitments and signatures are records that are
equal when their fields are. Block hashes are indices into the list of all blocks ever produced,
so that a replaced hash does not come back. The risk score, proxy detection, simulation failures,
a changed chain id and a disagreeing secondary all end a call without a signature, and are
`AwaitFails`. The 250 ms for which ethers answers identical requests from its own cache are not
modelled: a count or a block that the code asks for again is taken to be asked of the node again.
`SignsUnderOneBlock` and `NeverSignsSpentNonce`, which rest on a second look, hold of a provider
without that cache, or whose second look comes after it. What is behind a verdict and behind the fee is in `Verdicts`; that the lookup of the
record is one action is justified by `AuthorizationReader`.

### McpServer

`Refuse` and `NotApproved` are the guards of the adapter (sending disabled, not Sepolia, not the
server's wallet, nonces that differ; no approval configured). `Propose` is the adapter's call of
`guardAndSendVerified` with the approval that the server holds; `Continue` is any later step, and the
step that ends the call gives the answer. `agentfirewall_check` changes no state and is left out.

### AuthorizationSource and VerifiedAuthorizationRegistry

A transaction (`tx`) begins, emits any number of logs, from this contract or from others, and
ends or reverts; only then do its logs and nonces belong to the head block. `Reorganise` replaces
the blocks above some unattested height, and their logs and nonces go with them. `Attest` makes a
block final: Creditcoin's attestation and the BlockProver precompile are not in the repository and
are assumed to verify exactly the transactions of attested blocks. `Submit` is
`submitVerifiedAuthorization`: its guards in the order of the code, where the recomputed commitment
and id are compared with the emitted ones, and all of its writes. A `Submit` that is not enabled
is a call that reverts, which in the EVM changes nothing, including the mark in
`processedTransactions` that the code sets before it verifies.

Simplifications: hashes are injective; the shape of an authorization's terms (`_validateShape`,
`computeExecutionBinding`, which read the same in both contracts) is the constant `WellShaped`, and
is modelled in `Verdicts`;
transaction indices start at 1 instead of 0; a transaction that reverted has no logs, so that
the check of the receipt's status coincides with the count of trusted events. Look-alike events
come from other addresses on the source chain (`OtherLogs`) and from the very same address on other
chains (`ForeignLogs`).

`AuthorizationLedger` is what is left of all this for whoever relies on a record: a publication has
a slot, for which there is no other; it becomes final, may be recorded once while it has not
expired, and stays what it is. Under the mapping in `VerifiedAuthorizationRegistry` the slot is the
owner with the contract's nonce, and the publications are the final logs that are alone in their
transaction; a record is mapped by what the registry stores, not by what was published, so the
refinement also says that the two agree. Under the mapping in `LivePipeline` the slot is the number
of the publication.

### RpcFailover

`providerCache` is shared by all inspections of a process; each of them asks the cached provider
whether it still works, tries the candidates in turn if not, inspects through what it got, and on an
error destroys the provider, excludes the endpoint and starts again. An action is one settled
request: `CachedWorks`/`CachedFails`, `CandidateWorks`/`CandidateFails`, `Proceed` (one more answer
of the inspection), `Note` (a failed call that is only a finding), `InspectionFails`. A provider is
known by who created it, in which attempt, for which endpoint: the code deletes from the cache by
url and destroys by object, and the model keeps the two apart.

Assumed of ethers: a request made through a destroyed provider fails; one that is in flight when
it is destroyed may go either way. The cache of identical requests that ethers keeps for 250 ms is
not modelled. In the run, with two endpoints, a call that has excluded one must not find it among its
candidates again (`Remaining`); that it must not take it from the cache either, where another call may
have put it back (`Reusable`), matters from three endpoints on, and `ExcludedForGood` is proved for any
number. A tolerated failure (a revert in a simulation, a missing proxy slot) does not count
against the endpoint. That `inspectOnchain` ends is stated as a variant, `CallsRunOut`, and proved; that
requests are answered is ethers' timeout.

### LivePipeline

Five command-line tools and `live-e2e`, which runs all of them in order, share
`build/live-authorization.json` and `build/live-evidence.json`. A tool reads the artifact once, when
it starts, waits for two chains, and writes the whole file back; `writeFileSync` does not lock. A
run is a script of tools typed into a terminal; `Together` says whether a run may begin while
another one is alive. `Stop` is a throw, a kill or a power cut before any awaited answer; as in the
shell scripts of the repository, the rest of the script is then not run.

| Tool | Actions | Source |
|---|---|---|
| publish | `PublishCount` (pending count), `PublishPredict` (static call), `PublishMined`, `PublishWrite` | `publish-demo-authorization.ts` 163-352 |
| ingest | `IngestRead`, `IngestReceipt`, `IngestProof`, `IngestSubmit`, `IngestWrite` | `attestcoin-semantic.ts` 196-727 |
| approve | `ApproveRead`, `ApproveWrite` | `sign-controller-approval.ts` 51-163 |
| dry, send | `DemoRead`, `DemoPreflight`, `DemoSave` (the artifact), `DemoEvidence` (the evidence), and for send `DemoPending`, `DemoSend`, `DemoMined`, then the two files again | `demo-verified-live.ts` |
| verify | `VerifyRead`, `VerifySource`, `VerifyIngested`, and after a send `VerifyTransaction`, `VerifyReceipt`, `VerifyLatest`, `VerifyCount` | `verify-live-evidence.ts` 109-805 |
| report | `Report`, after the last tool of `live-e2e` | `live-e2e.ts` 115-151 |

A section of a file is the number of the authorization it is about, or zero; the block of the
publication is kept beside it because it can change (`Remine`). An authorization is known by the
number of its publication, as its id is determined by owner and contract nonce. The chains are
reduced to what the tools see: who published where, the height that is attested, which records
exist, what has expired, the account's transaction count. `guardAndSendVerified` is one action
here (its inside is `GuardedSigner`), and so are the fetching of a proof (inside: `ProofFetch`) and the
registry's checks (inside: `VerifiedAuthorizationRegistry`). What the tools see of the contracts is no
more than these promise: both implement `AuthorizationLedger`.

Creditcoin is taken never to reorganise here: a record, once there, stays (`RecordsNeverChange`), for
any number of tools; the tools wait for one confirmation of it and check no more. The source chain,
which is also the execution chain, reorganises: publications move (`Remine`) and an execution may be
dropped (`DropExecution`).

Not modelled: a publication that a reorganisation removes for good (it moves to another block
instead; the removal is in `AuthorizationSource`), environment variables other than
`SOURCE_CHAIN_TXN_HASH` and `AGENTFIREWALL_LIVE_SEND`, and a file truncated by a crash inside
`writeFileSync` (the next tool then fails to parse it).

### LiveDeployment and DeployStack

A run of `deploy-live-stack.ts` deploys a source, or a registry that trusts the source it is
configured with, and writes what it deployed into `build/live-deployment.json`. `LiveDeployment` has
the file, the two ways of recording (`SourceRecorded` takes the old source's registry away,
`RegistryRecorded` keeps the source), the configuration resolved from file and environment
(`Resolvable`, `Resolved`), and what `createConfiguredAuthorizationReader`, the reader it makes
and the submission doctor require of the contracts it names (`TrustConfigured`, `ReaderAccepts`,
`DoctorAccepts`, `AsCompiled`). A variable that is set but empty is a case of its own (`empty` of an
environment): `preferAndCrossCheck` does not compare it with the file and chooses it nevertheless, so
that the value is undefined although the file has one (`Prefer`).

| Label | Answer awaited, and the code behind it in `deploy-live-stack.ts` |
|---|---|
| `network` | the chain's id; a source's bytecode is read and sent (352-384), or the configuration is resolved (443-476) |
| `source`, `sourceCode` | the source is mined; its code is compared with the compiler's output (386-407) |
| `anchors` | code and domain constants of the trusted source (478-528); the registry's links are read, and registry or decoder are sent (533-565) |
| `decoder`, `decoderCode` | the decoder is mined; its code is compared, the registry's bytecode is read, linked and sent (567-622) |
| `registry`, `registryCode` | the registry is mined; trust anchors and code are compared, the file is loaded (624-691; `live-deployment.ts` 149-164) |
| `open`, `write` | `writeFileSync`: the file is emptied, then written |

The compiler removes `build/contracts` and writes it anew (`CompilerClears`, `CompilerWrites`,
`CompilerStops`). `Refuse` is a throw because a comparison failed although the contract is there
and as configured, at one of three places (`SourceUnproven`, `DecoderUnproven`, `RegistryUnproven`);
every other throw, a kill and a power cut are `Stop`. `disturbed` remembers that
two processes overlapped or that the compiler was cut short; properties of runs that are alone are
stated under its negation.

Simplifications: a contract is known by the run that created it; its code by the build it was
compiled from, so that a code hash is the code; two builds differ in source and registry and may
share a decoder; the three files of a runtime (code, links, immutables) are one; the domain constants
are the set `Declaring` of builds that have them. What one turn of JavaScript reads of
`build/contracts` is read at once. One compiler runs at a time. A contract that a reorganisation
drops does not come back, and its address is not used again. Transactions of runs that use one wallet
at the same time may collide; one of them then throws.

### Verdicts and VerifiedPreflight

`Verdicts` translates the pure functions. Calldata is what ABI decoding sees of it: a selector, its
address words, its last word, and whether the bytes end there (`exact`), go on (`long`) or cannot be
decoded (`broken`); a bool is a word, of which 2 and 3 are the non-canonical ones that decode as
true. A hash is the record that is hashed, so two commitments agree exactly when their fields do.

| Operator | Code |
|---|---|
| `LocalScore`, `CallPoints` | `analyzeTransaction` |
| `Score`, `Graded` | `runPreflight` |
| `Known`, `Canonical`, `ActualEffect` | `decodeActualEffect` |
| `Matches` | `matchDeclaredIntent` |
| `Binding`, `DeclaredCommitment`, `ActualCommitment`, `Committable` | `authorization.ts` |
| `Shaped`, `SourceBinding`, `Published` | `AuthorizationSource.sol` |
| `EvidenceBinding`, `EvidenceHolds` | `semantic-registry.ts` |
| `Proxy` | `detectProxyIdentity` |
| `Authorized` | `evaluateVerifiedAuthorization` and what `runVerifiedPreflight` adds |
| `NormalFeePolicy`, `FeeIsSafe`, `Total` | `guarded-signer-policy.ts` |

`VerifiedPreflight` sends one authorization and one transaction along the whole way: `Publish`
(contract), `Ingest` (the check of the event, then the record), `Propose` (the client posts, or the
signer checks the fee), `Inspect`, `LookUp`, `Judge` (the server, or the preflight inside the signer),
`Receive` (the client's schemas, or the signer). Three clocks decide of an expiry: that of the source
chain's block for the first contract (`published`), that of Creditcoin's block for the second
(`ingested`), and that of the snapshot; nothing relates them. The sizes of an answer are one
boolean: `bulky` says that a text of it, or the whole, is longer than the client's schemas and its
transport take (`sdk.ts` 106-204 and 328). It may be so after any inspection, as `chain.ts` passes on
whatever the called contract returns (504-518) and errors have texts, and after a lookup that failed.
`InspectionFails`, `LookUpFails` and `TimeOut` are the
failures on the way; a lookup that fails is a finding, not an error. The intent, the transaction and
the authorization of a request are independent of each other: nothing makes them fit.

Simplifications: a target's code hash is its code, which is never the zero hash that both shape
checks exclude; a registry record is the commitment and the expiry, and always marked verified
(the registry writes no other); time, addresses and numbers are well-formed strings, as the
schemas of `server.ts` require; an authorization id finds the record of the authorization.

Read from the code and kept as it is: undecodable calldata gets 35 points, so that a policy that
does not require known calldata *allows* it at level `preflight`, while the finding's text asks for a
manual review; an authorization for an unlimited approval or for an operator is always blocked by
the baseline (80 and 75 points), whatever was published; the contract accepts a native transfer of
amount zero, which no transaction can execute (`Known` rejects it); the price of a legacy
transaction is compared with the fee ceiling and not with the priority ceiling. `AuthorizedPasses` says
which of these stand between a publication and its execution.

### AtomicLookup and AuthorizationReader

`readAuthorization` reads the latest block, the code of the registry at that block's number, five
trust anchors and the record in one `Promise.all`, and the block again. `AuthorizationReader` has an
action per answered request (`PinLatest`, `ReadCode`, `AnswerCall` in any order, `Confirm`;
`RequestFails` for any of them), over a chain that is extended or replaced between any two
(`Extend`). `AtomicLookup` promises that the result is that of looking at one block of the chain in one
instant, or a failure. Blocks are known by their index among all blocks ever produced.

Assumed: a block that was replaced does not come back. If the chain leaves the pinned block while the
calls are answered and returns to it before the confirmation, the two hashes agree, and the
answers may be of the other chain; comparing hashes cannot tell. What a chain may say in the next
block is the constant `Children`: a record stays as it was written (`RecordsNeverChange`).

### ProofFetch

Time is discrete and passes only while the loop waits, for an answer or for a pause. `Request` is the top
of the loop: the test of the deadline and the request with its abort timer, which also covers the
body; `Retry` is its end; `Wake` the end of the pause and the test again. The answers are
`Fetched`, `NotYet` (transient status, retriable body, or a body that is no proof), `Rejected`, `Broken`,
and `Abort`. A timer fires at most `Lag` late. `sleep` hands its delay to `setTimeout`, which takes one
longer than 2^31-1 ms for 1 ms (`Delay`): a poll interval that long does not slow the loop
down but makes it spin; the properties hold nevertheless.

The builder has the proof from `BecomesReady` on, and tells so to a request sent after that
(`Informed`), unless the answer is lost or takes longer than `AnswerTime` (`lost`).

## 3. Runs

| Run | Instance | Distinct states | Properties |
|---|---|---|---|
| `signer_one_process` | 2 calls, 1 process, 2 rival authorizations for one nonce, 2 codes, 3 blocks, ledger up to 1 foreign transaction | about 404,000 | `TypeOK`, `ReservationsExact`, `SignsUnderOneBlock`, `NeverSignsSpentNonce` |
| `signer_two_processes` | 2 calls in 2 processes, 2 authorizations for successive nonces, secondary provider, requests with a wrong effect or ceiling, 2 blocks | about 198,000 | `DispatchedAsApproved`, `AuthorizationUsedOnce`, `RefinesAuthorizedExecution` |
| `mcp_answers` | 3 calls, 2 servers of which one runs as the controller, 4 proposals of which one passes | about 11,000 | `AnswersCountSigner`, `AllowedAgainOnlyIfLost`, `ReservationsDrain`, `EveryProposalAnswered` |
| `mcp_block_before_signing` | 2 calls, the same proposals, a foreign transaction | - | `BlockNeverReachesSigner`, violated |
| `registry_chain` | 2 owners, 3 blocks, 2 transactions and 2 logs per block, expiries of 1 and 2 seconds in the time 0 to 1 | about 872,000 | `RegistryTypeOK`, `RecordsArePublished`, `NothingLeftOut`, `KeepsLedger` |
| `rpc_failover` | 3 calls, 2 endpoints | about 1,778,000 | `FailoverTypeOK`, `CacheIsAlive`, `FailsOnlyIfEveryEndpointFailed`, `ResultsAreNotCut`, `ExcludedStaysExcluded` |
| `live_e2e` | a script by hand, a rerun of two tools, `live-e2e`, one at a time; 2 authorizations, 3 blocks | about 1,969,000 | `PipelineTypeOK`, `FreshE2E`, `ExecutionKept` |
| `live_together` | 2 terminals at the same time; 2 authorizations, 2 blocks | about 1,218,000 | `SectionsAgree`, `EvidenceIsBacked`, `VerifiedIsTrue` |
| `deploy_stack` | 3 runs (a source, a registry on it or on another source, either again), 3 builds of which one has other domain constants, 1 compilation, 1 dropped contract, environments with a variable that is empty | about 1,890,000 | `StackTypeOK`, `RecordsReadable`, `ConfiguredAreAccepted`, `RegistryOfOneBuild`, `NothingRefused`, `DoctorFindsLatest` |
| `verified_preflight` | 4 addresses, 2 chains, 3 codes, numbers up to 3 (= `MaxUint`); 7 families of requests, 8 snapshots | about 792,000 | `DeclaredIsDone`, `AllowedAsPublished`, `AuthorizedPasses`, `SpendIsBounded` |
| `authorization_reader` | 4 blocks; registry missing, of another source, empty, with either of 2 records | about 146,000 | `LooksAtOneBlock` |
| `proof_fetch` | timeouts 1, 5, 9; polls 1, 2, 7; requests up to 3, timers up to 6, 1 late | about 6,800 | `EndsInTime`, `ReadyIsFetched`, `FetchEnds` |

What they show:

- `ReservationsExact`: the keys reserved in a process are those of the calls inside their `try`
  block, which differ. `releaseNonce` deletes by key and not by owner, and is correct only because
  of this.
- `NeverSignsSpentNonce`: the first count may be stale when the key is reserved; the second count,
  made while the key is held, is what keeps a process from signing for a nonce that one of its own
  calls has used. The mutant without the comparison breaks it.
- `SignsUnderOneBlock`: reads by block number are harmless only because the block is confirmed
  after them, both in the preflight and in the recheck.
- `DispatchedAsApproved`, `AuthorizationUsedOnce`: with wallets that answer anything, two
  processes that do not share reservations, crashes, evictions and lost broadcasts. That two
  processes cannot use one authorization twice rests only on the nonce inside the commitment.
  Mutual exclusion of processes is *not* claimed: they can sign for the same nonce.
- `RefinesAuthorizedExecution`: the same at the level of an owner: the node's book holds only
  transactions of known authorizations at their slots, and foreign ones.
- `AllowedAgainOnlyIfLost`: a second ALLOW for the same authorization means that the first
  transaction is gone from the node.
- `AnswersCountSigner`: ERROR, which the tool reports as never having called the signer, is said of
  no call that has.
- `ReservationsDrain`, `EveryProposalAnswered`: no failure on the way keeps a key reserved for the life
  of the process, or an agent without an answer, unless the process itself dies.
- `BlockNeverReachesSigner` quotes the tool's description (`mcp-server.ts:238`, `README.md:65`) and
  is violated: a failed broadcast is answered BLOCK after the signer signed, and the transaction may
  be in the node's ledger. See `findings`.
- `RecordsArePublished`: what `getAuthorization` calls verified is the only event of a final
  transaction of the trusted contract on the trusted chain.
- `KeepsLedger`: blocks that are replaced, batches, reverted transactions, other chains and other
  contracts are all one to who reads a record. It is of a final publication that had not expired when
  it was recorded, it stays, and a nonce that a reorganisation gave to another authorization is
  recorded for one of them only.
- `NothingLeftOut`: a final authorization that was published alone in its transaction can be
  recorded until it expires, whatever else was submitted. The restriction is needed: a transaction
  that publishes two authorizations is refused (`trustedCount != 1`), and neither of them can ever
  be recorded.
- `CacheIsAlive`, `FailsOnlyIfEveryEndpointFailed`: a call never finds a destroyed provider in the
  cache, and gives up only if every endpoint failed by itself while the call was under way, although
  a call may destroy the provider that another one is using.
- `ResultsAreNotCut`: a failed call is a finding about the transaction, and one that failed because
  another inspection destroyed the provider would be a false one; the confirmation of the block at
  the end is what discards such a result.
- `ExcludedStaysExcluded`: an endpoint that failed a call is not used again by this call, even when
  another call puts it back into the cache.
- `DeclaredIsDone`: the verdict is given on what ethers decodes, which tolerates bytes after the
  last word; the transaction sends the bytes. On everything that is allowed, decoder and encoder
  are inverse of each other. At level `intent` this holds of a flag only because a true flag is
  always blocked by its points: a word 2 decodes as true and would match.
- `AllowedAsPublished`: what guards and signer allow on the word of the registry is the one
  transaction the contract computed on the source chain, for the code it was published for, before
  it expires on any of the three chains.
- `AuthorizedPasses`: the converse. Three implementations encode the call of an authorization; if
  they differed anywhere, something would be published that nobody can use. Nothing stops what was
  published, recorded and proposed in time, declared as it is and clean for the baseline, but a failed
  lookup, the client's timer, or an answer that is too long for the client. The last is possible: the
  client takes 131072 characters of a simulation's result, the server bounds none, so that a target
  that returns more is never allowed through the SDK; through the signer it is.
- `SpendIsBounded`: the fee rules bound what the chain can charge at any base fee and any use of gas,
  with the value on top, by the two ceilings together.
- `LooksAtOneBlock`: ten requests are as good as one look; the confirmation of the block at the end is
  what discards a mixture of two chains.
- `EndsInTime`, `ReadyIsFetched`, `FetchEnds`: the deadline holds up to one late timer; a fetch that
  times out although nothing was lost had no proof a request, a pause and an answer before the
  deadline; and the loop ends, because the abort timer is cleared only after the body.
- `FreshE2E`: with one terminal at a time, when `live-e2e` prints its report, the evidence is of
  the authorization that this very run published, with fresh ingest and fresh execution
  (`VALIDATION.md` 52-64), whatever earlier runs left in `build/` or in the environment. With two
  terminals at once this is false, and it is not claimed: two `live-e2e` runs overwrite each
  other's artifact.
- `SectionsAgree`, `EvidenceIsBacked`: what does survive two terminals. Tools that overwrite each
  other lose work, but leave no artifact whose approval or result is of another authorization, and no
  evidence of one that is not recorded.
- `VerifiedIsTrue`: `live:evidence` compares two files with two chains over many requests. When it
  reads the execution's receipt all of it holds at once, because what it saw first (a recorded
  publication) cannot change any more. Two more requests follow (the latest block, the pending
  count), and then it prints "verified": of this moment publication and record are still so, and
  nothing is claimed of the execution, which a reorganisation may have dropped in between. That the
  count is above the nonce does not help: another transaction may have taken it.
- `ExecutionKept`: with one terminal at a time, the result of an execution, which cannot be
  repeated, is lost only to a new publication. The signer's call counts beside it *are* lost when the
  demo is run again, and the evidence then has no section `guardedSigner`.
- `RecordsReadable`, `ConfiguredAreAccepted`: with runs at the same time, a registry is recorded only
  beside the source it trusts, and whoever is configured from a file that names a registry that
  stands finds that registry acceptable. The exception is exact: the reader refuses if, and only if,
  a variable it needs is set to nothing (all but the source's code hash), and so does the doctor
  (which can do without the registry's hash, too). Records may be lost to each other, and two writers may leave a file that
  nobody can parse; that is refused loudly.
- `RegistryOfOneBuild`: the links are read before the decoder is deployed and the bytecode after;
  the comparison of the runtime at the end is what keeps a mixture of two builds from being recorded.
- `NothingRefused`: a run that is alone records what it deployed unless something fails on the way;
  the comparisons at the end cannot fail. With a compiler beside it they can, and the contracts are
  then deployed and unrecorded.
- `DoctorFindsLatest`: without overlapping runs the file has the source recorded last; and with the
  local files of the build that the stack is of, the doctor finds source, registry and decoder as
  compiled, also after a registry was deployed again.

Bounds, and why they are enough. Interference in the signer is between two calls on one account: each
guard compares a call with the node or with the calls that share its key; a third call only adds
another of the same kind (`mcp_answers` has three). Three blocks allow a block to be pinned,
replaced, and extended. `MaxLedger` bounds foreign transactions only, so the ledger grows past it by
calls. In the registry, three blocks are one that is final, one that can be replaced, and a head;
two transactions per block and two logs per transaction are the least that tell a key per
transaction from a key per block and a batch from a single publication. In the
failover, three calls are one that faults, one that holds the provider that is destroyed, and one
that starts afterwards. In the
pipeline, two authorizations are the one an artifact names and another it may be confused with; three
blocks (two in the larger run) let a publication move before it is attested; the account's
transaction count leaves room for two publications, an execution and a foreign transaction. In the
deployment, three runs are a source, a registry on it and one that takes either away or deploys it
again; a file is of the build before the compilation, of the one after, or missing, and three builds
are one with links, one without and one that the tools do not accept; one dropped contract (`MaxDrops`)
is one whose record outlives it; an empty variable is one that readers do not all need, or one that
they do. A verdict is a conjunction of conditions on single fields, except
where decoding and encoding meet; so the requests vary one thing at a time around transactions
that pass: every publishable effect, every calldata against every intent of its method, every
envelope, every optional field, every policy, every fee around the ceilings, every clock
before, at and after the expiry. The number 3 is
`MaxUint` and leaves 0, 1 and a value that is neither a flag nor the maximum. In the reader, four blocks
ever produced are enough to pin one, replace it while the calls are answered, and build on either. In the fetch, the timeouts are shorter than a
request, longer than one and longer than two; the polls are short, and longer than the time left,
than the longest timer, or than both. The proofs do not use the bounds.

`CHECK_DEADLOCK FALSE` is set everywhere: once all calls are done and the bounds are reached, the
system stops. Symmetry is used over calls of one process where no constant tells them apart, and
never in a run with liveness properties.

Fairness. `McpFairSpec`: weak fairness of every call that was made (`Continue`). A step of a call is the settlement
of a promise. JSON-RPC requests settle because ethers bounds them by its request timeout (300 s by
default), and the code behind them is sequential. The callbacks of a wallet have no timeout in
`guarded-signer.ts`: for a wallet that never answers, the key stays reserved, and `ReservationsDrain`
does not claim otherwise. Nothing is assumed of the world: blocks, acceptance and
records need never happen. A caller need never call. `FetchFairSpec`: the fetch begins, time passes,
and a timer that is due fires; the builder need never answer, and `FetchEnds` rests on the timers
alone. The reader has no time limit of its own in the code, and no liveness is claimed of it.

## 4. Proofs

All proofs assume only the named assumptions on constants (`ConstantsAssumption`, `McpAssumption`,
`SourceAssumption`, `RegistryAssumption`, `FailoverAssumption`, `PipelineAssumption`,
`DeploymentAssumption`, `BoundsAssumption`, `VerdictAssumption`, `CommitmentAssumption`,
`PreflightAssumption`, `LookupAssumption`, `FetchAssumption`), which TLC evaluates in the runs.

**GuardedSignerProofs.** `TypeOK`, `ReservationsExact` and `DispatchedAsApproved` are not inductive:
that a dispatch matches its record depends on what was checked four awaits earlier. `IInv` says, label
by label, what a call's locals are known to satisfy (`LocalsAtLabel`), what it has dispatched
(`DispatchedAtLabel`), that replaced blocks stay replaced (`ChainOK`), that a transaction in the
ledger stands at its own nonce (`LedgerPositions`), and that from the second count on no call of
the process has used the nonce (`NonceUnspent`). There is a lemma per action; those that only move a
call share frame lemmas. `Invariance` is `Spec => []IInv`; `TypeCorrect`, `ReservationsAreExact`,
`DispatchIsApproved`, `AuthorizationIsUsedOnce`, `SignsUnderTheSameBlock` follow from it, and
`SignerNeverSeesSpentNonce` is the action property. `CallsOnlyGoForward` is a variant: a call has at
most 17 steps from its start to its end, each of its steps leaves it fewer, and nothing in the world
gives it more.

**RefinementProofs.** `Refinement` is `Spec => RefinesAuthorizedExecution` under the mapping in
`GuardedSigner`: a call's dispatch is `Issue`, the node's answers are `Land` and `Lose`, the rest
stutters. It needs `IInv`: a landed transaction is at its slot because it was dispatched as approved.
`McpImplementsSigner`: every behaviour of the MCP server is one of the signer, so all the theorems
above hold below it. `AllowedAgain` strengthens `AllowedAgainOnlyIfLost` with the relation between answers
and outcomes. `AnswersCount` needs to know, label by label, how often the signer has been asked
(`CountOK`), and that a call that was refused before it began was never made (`AnswerOK`).
`EndsAnswered` and `AnswersAreFinal` tie the answers to the ends of the calls (`EndOK`): the two agree,
only a call whose process died ends unanswered, and after the answer nothing is signed, sent or
settled for the proposal.

**RegistryProofs.** `RegistryInv` says that nonces grow along the chain (`NoncesGrow`), that a
publication holds a nonce taken in its block and by nobody else (`LogsInPlace`), the same for the
open transaction (`OpenInPlace`), and that the processed transactions are those with a record
(`ProcessedExact`). It is needed because neither property says anything of logs that are
not recorded yet, and a reorganisation can reuse a nonce: that it cannot be reused while
another log still holds it is a fact about blocks. From it follow `PublishedRecords`,
`NonceRecordedOnce` and `NothingIsLeftOut`. `RecordsNeverChange` (no record is ever overwritten or
removed) is what `RecordVerified` in `GuardedSigner` relies on. `RegistryIsLedger` is
`RegistrySpec => KeepsLedger`, step by step: `Submit` is `Record`, an attestation or a second that
passes is `Advance`, and everything that happens in blocks that are not final stutters. It needs
`NoncesGrow` and `LogsInPlace`, as a publication becomes final long after its nonce was taken and
other blocks may have held that nonce in between.

**RpcFailoverProofs.** `FailoverInv` says that a call creates its providers in order, so that the next
one is new (`OwnProviders`), that a call has used as many attempts as it has excluded endpoints
(`Attempts`), that a call whose provider is lost has seen a fault of its endpoint
(`LossExplained`), and that a result with a finding that is only such a loss cannot be confirmed any
more (`CutIsFatal`). `CacheStaysAlive`, `FailureNeedsEveryEndpoint`, `ResultsAreWhole` and
`ExcludedForGood` follow. `CallsAlwaysRunOut` is a variant: with N endpoints an inspection makes at most
N * (N + 7) requests, although other calls destroy the provider it uses and put back into the cache
what it has excluded; it rests on `Attempts`.

**PipelineProofs.** `PipelineInv` holds with any number of terminals. Its core is that the chains only
grow (`ChainsGrow`: what is attested or recorded stays where it is, while the rest may move), so
that whatever an artifact says (`ArtifactOK`), on disk or in the memory of a tool, stays true until
it is written back; per label, `LocalsAtLabel` adds what the tool has just seen. `SectionsAlwaysAgree`,
`EvidenceAlwaysBacked` and `VerifiedMeansTrue` follow; what is not stable, that the execution is still
mined, the last claims of the step that reads the receipt and of none after it. `SequentialInv` is inductive relative to it when
only one terminal is used: the file a tool has in memory is the one on disk (`FileAtLabel`), and each
step of `live-e2e` finds what the one before left (`E2EAtStep`); `E2EIsFresh` and `ResultsAreKept`
follow, for any scripts and any number of runs. `PipelineIsLedger` is
`PipelineSpec => PipelineKeepsLedger`: the chains as the tools see them are an `AuthorizationLedger`, as
the contracts are by `RegistryIsLedger`; what the tools rely on of a record, they may. `NoncesSpentOnce`: several
authorizations may be published, recorded and approved for the same nonce, by terminals that read the
count at the same time, but at most one of them is executed at it. `RunsOnlyGoForward` is a variant of at
most eleven steps for each tool of a script, by which a tool sends only once.

**DeployStackProofs.** `StackInv` holds with any number of runs and compilations. A source address that a
record or a run names is `Settled`: no later deployment comes to it, so that what was read there
stays true or is dropped; `FileTrue` says this of the file, `SourceRun` and `RegistryRun` of what each
run will write. It is needed because the file is written two steps after the comparison, when
another run may have replaced it: the source section written back is still true, but not the latest.
`RecordsAlwaysReadable`, `RegistryIsOneBuild` and `ConfiguredAlwaysAccepted` follow, the last for any
environments, with any of their variables empty. `AloneInv` is inductive
relative to it: while nothing was disturbed, the files are of one build or as far as the compiler is
(`BuildWhole`), a run finds at its end what it sent (`AloneRun`), and the file is as the last run left
it (`FileAlone`). `NothingEverRefused` and `DoctorAlwaysFinds` follow.

**PreflightProofs.** `PreflightInv` says, stage by stage, what event, record, snapshot and response are
functions of (`Evidence`, `Judged`, `Answered`). The rest is about the operators: `CallIsCalldata` and
`BindingsAgree` (the contract, the check of its event and the preflight make the same call of every
publishable effect), `MatchIsDone` (an effect that matches is the call of its binding, once the points
have excluded a true flag, `LowCall`), `EffectIsReadBack` (the effect decoded from a binding is the one
it was made of), `PublishedHolds`. `AllowedIsDeclared`, `AllowedIsPublished`, `PublishedPasses` and
`SpendStaysBounded` (with `ProductGrows`) follow, for any set of requests and snapshots, any widths and any clocks. `PublishedPasses` needs
that both contracts have accepted what was published in time (`Recorded`).
`TighteningIsSafe`: what passes a policy and its ceilings passes every less demanding one. It rests on
`ScoreGrows`, over all policies: the points only grow, through both of their caps. An empty allow-list
counts as the least demanding there, as the code reads it: taking the last target off a list lifts
the restriction. `ServerAlwaysBelieved`: the schemas by which the client checks an ALLOW, which are
other code than the server's comparisons, refuse what this server answers if it is too long, and for
no other reason.

**ReaderFetchProofs.** `ReaderInv` says that replaced blocks stay replaced (`ChainOK`), and that as long as
the pinned block is on the chain, whatever was answered is what that block says (`Said`); a
confirmed lookup has therefore seen one block, and `ReaderImplementsLookup` maps it to `Look` and all
other steps to steps of the chain or stuttering. `FetchInv` bounds a timer by what set it
(`TimersOK`), and says of a fetch nothing was lost of that its request was sent not much later than
the proof was ready (`PromptOK`); `FetchEndsInTime` and `FetchTakesWhatIsReady` follow, for any
settings, lags and answer times. `FetchRunsOut` is its variant: between two requests time passes, by a
millisecond at least, and every step of the fetch and of its clock brings the end nearer.

Only model-checked: `ReservationsDrain`, `EveryProposalAnswered` and `FetchEnds`, as liveness is out of
the prover's reach. What is proved of them, for every value of the constants, is all but the
fairness: the variants `CallsGoForward`, `CallsRunOut`, `RunsGoForward` and `NeverAsksInHaste` say that there
are finitely many steps to wait for and that nobody else adds one; that the awaited step comes is the
fairness of section 3. No result about a recursive function is claimed.

Proved and in no configuration: the variants, `EndsAsAnswered`, `AnswerIsTheEnd`, `NonceSpentOnce`,
`PipelineKeepsLedger`, `TighterNeverAllowsMore`, `ServerIsBelieved`, `OneRecordPerNonce` and `RecordsStand`. To
model-check one, put it into the configuration of its module; all of them hold there. (`TighterNeverAllowsMore`
compares every state with every request, and its second half needs one more fee policy above those of
`MCVerifiedPreflight`.)

## 5. Not modelled

- The contracts and the live tools together: both implement `AuthorizationLedger`, but their
  specifications are not composed into one, and the execution chain of the pipeline is not mapped to
  the ledger of `GuardedSigner`.
- A chain that leaves a block and returns to it between two requests (see `AuthorizationReader`).
- Strings: parsing of numbers, addresses, hex and JSON, sanitizing of errors, the layout of logs and
  reports. The schemas are modelled by which values pass.
- The Merkle path and continuity proof of `attestcoin-proof.ts` and the shape of a proof in
  `attestcoin-native.ts`: checks of a value, without state; the BlockProver precompile decides.
- `submission-doctor.ts` beyond what it requires of contracts and builds: it looks for files, tools
  and balances and prints what it found.
- `judge-runtime.ts`, `demo-submission.ts`, `judge-verify.mjs`: they run other commands in order.
- `/api/health`, `/api/judge-demo`, `/api/inspect`, `/api/analyze` and the demo page: they report.
- HTTP and stdio transport, TLS, the Solidity compiler, cryptography, the supply-chain scripts.
