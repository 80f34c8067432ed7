---------------------------- MODULE GuardedSigner ----------------------------
(***************************************************************************)
(* GuardedSigner.guardAndSendVerified, its nonce reservations and the      *)
(* world it talks to: an execution-chain node, a verified-authorization    *)
(* reader, a wallet that fills in and signs transactions.                  *)
(*                                                                         *)
(* A call is one invocation.  pc[c] names the promise the call is waiting  *)
(* for; an action is the answer to it followed by the synchronous code up  *)
(* to the next await.  The one answer whose continuation touches state     *)
(* shared between calls, the first pending nonce, is an action of its own  *)
(* (CountPending, then Reserve), so that other calls can run between the   *)
(* moment the node counts and the moment the key is reserved.              *)
(***************************************************************************)
EXTENDS Naturals, Sequences, FiniteSets

CONSTANTS
    Calls,              \* invocations of guardAndSendVerified
    Processes,          \* operating-system processes; each has its own reservation set
    Accounts,           \* <chain, sender> pairs
    ControllerAccounts, \* the accounts whose sender is the trusted controller
    Effects,            \* what a transaction does: to, data and value
    CodeHashes,         \* runtime code of the target
    AuthIds,            \* authorization identifiers
    Commitment,         \* AuthIds -> what the verified record of the id commits to
    Requests,           \* the arguments a caller may pass
    Fees,               \* worst-case fees a wallet may fill in
    FeeCeiling,         \* the fee policy of the signer
    HasSecondary,       \* a secondary execution provider is configured
    ProcessOf,          \* Calls -> Processes
    AccountOf,          \* Calls -> Accounts
    MaxLedger,          \* bound: transactions of one account the node holds
    MaxBlocks,          \* bound: blocks ever produced, replaced ones included
    MaxTick,            \* bound: seconds between two blocks
    None,               \* a local that holds nothing yet
    Foreign             \* a transaction of the account sent by someone else

CommitmentType ==
    [account: Accounts, nonce: Nat, validUntil: Nat, effect: Effects, code: CodeHashes]

\* ControllerApprovalMessage with the fee ceilings of the v2 typed data.
ApprovalType ==
    [authId: AuthIds, commitment: CommitmentType, executor: Accounts,
     nonce: Nat, validUntil: Nat, ceiling: Nat]

RequestType ==
    [authId: AuthIds, declared: CommitmentType, effect: Effects, approval: ApprovalType]

Envelope == [account: Accounts, nonce: Nat, effect: Effects, fee: Nat]

\* What is handed to the node, with the request that led to it.
DispatchType == [request: RequestType, tx: Envelope]

ASSUME ConstantsAssumption ==
    /\ ProcessOf \in [Calls -> Processes]
    /\ AccountOf \in [Calls -> Accounts]
    /\ ControllerAccounts \subseteq Accounts
    /\ Commitment \in [AuthIds -> CommitmentType]
    /\ Requests \subseteq RequestType
    /\ Fees \subseteq Nat
    /\ FeeCeiling \in Nat
    /\ HasSecondary \in BOOLEAN
    /\ MaxLedger \in Nat /\ MaxBlocks \in Nat /\ MaxTick \in Nat
    /\ Foreign \notin Calls
    /\ None \notin RequestType \cup Envelope \cup DispatchType \cup CodeHashes \cup Nat
    /\ None # "accepted"

VARIABLES
    pc,           \* what each call is waiting for
    local,        \* the local variables of each call
    signerCalls,  \* how often each call has called signTransaction
    dispatched,   \* what each call handed to broadcastTransaction
    outcome,      \* how each call ended
    reservations, \* per process: the reserved (account, nonce) keys
    blocks,       \* every block ever produced; a block's hash is its index
    canon,        \* the hashes of the node's current chain, by block number
    ledger,       \* per account: the senders of the transactions that count as pending
    inflight,     \* broadcast requests the node has not processed
    reply,        \* the node's answer to each call's broadcast
    recorded      \* the authorizations whose verified record can be read

callVars == <<pc, local, signerCalls, dispatched, outcome, reservations>>
nodeVars == <<blocks, canon, ledger>>
netVars  == <<inflight, reply>>
vars     == <<callVars, nodeVars, netVars, recorded>>

-----------------------------------------------------------------------------
(* The node and the state a call can see                                    *)

Pending(a) == Len(ledger[a])

\* Fault: the block under construction, which has no hash yet, is asked for.
PendingBlock == Len(blocks) + 1

LatestBlock == canon[Len(canon)]

\* The hash of the current block with the number of block h.
SameHeight(h) == canon[blocks[h].number]

\* What a wallet may return for call c: any transaction at the call's nonce or the next one.
Answers(c) ==
    [account: Accounts, nonce: {local[c].nonce, local[c].nonce + 1},
     effect: Effects, fee: Fees]

Blank == [request |-> None, nonce |-> 0, envelope |-> None, pin |-> 0, code |-> None,
          again |-> None, latest |-> 0, recode |-> None]

Awaiting == {"identify", "count", "populate", "pin", "code", "confirm", "lookup",
             "recheck", "recode", "reconfirm", "secondary", "sign", "broadcast"}

\* Inside the try block that ends in releaseNonce().
Holding == Awaiting \ {"identify", "count"}

Labels == Awaiting \cup {"idle", "reserve", "done"}

Key(c) == <<AccountOf[c], local[c].nonce>>

-----------------------------------------------------------------------------
(* Faults: each is a plausible mistake in the definition it is named for.   *)

KeyIsFreeNever(c) == TRUE

KeepKey(c) == reservations

NonceUnchangedIgnored(c) == TRUE

RequestedIgnoringNonce(c, e) ==
    /\ e.account = AccountOf[c]
    /\ e.effect = local[c].request.effect

PreparedIgnored(c, raw) == TRUE

WithinBudgetIgnored(e) == TRUE

SameBlockIgnored(h) == TRUE

UnexpiredIgnored(c) == TRUE

-----------------------------------------------------------------------------
(* Guards                                                                   *)

KeyIsFree(c) == Key(c) \notin reservations[ProcessOf[c]]

KeysAfterRelease(c) ==
    [reservations EXCEPT ![ProcessOf[c]] = @ \ {Key(c)}]

\* immutablePopulatedTransaction
Requested(c, e) ==
    /\ e.account = AccountOf[c]
    /\ e.nonce = local[c].nonce
    /\ e.effect = local[c].request.effect

\* enforceFeeSafety
WithinBudget(e) == e.fee <= FeeCeiling

\* The canonical block of h's number is still h.
SameBlock(h) == SameHeight(h) = h

\* commitmentFromActualEffect: what the transaction under way would commit to.
ActualCommitment(c) ==
    [account |-> AccountOf[c], nonce |-> local[c].nonce,
     validUntil |-> Commitment[local[c].request.authId].validUntil,
     effect |-> local[c].request.effect, code |-> local[c].code]

\* evaluateVerifiedAuthorization, for a record that was found
AuthorizationHolds(c) ==
    LET request == local[c].request
        record  == Commitment[request.authId]
    IN  /\ request.declared.code = local[c].code
        /\ request.declared.validUntil = record.validUntil
        /\ record.validUntil > blocks[local[c].pin].time
        /\ request.declared = record
        /\ ActualCommitment(c) = record

\* matchDeclaredIntent
IntentMatches(c) ==
    LET request == local[c].request
    IN  /\ request.declared.account = AccountOf[c]
        /\ request.declared.nonce = local[c].nonce
        /\ request.declared.effect = request.effect

\* verifyControllerApprovalV2: the signature covers exactly this message.
ControllerApproves(c) ==
    LET request == local[c].request
        record  == Commitment[request.authId]
    IN  request.approval =
            [authId |-> request.authId, commitment |-> record,
             executor |-> AccountOf[c], nonce |-> local[c].nonce,
             validUntil |-> record.validUntil, ceiling |-> FeeCeiling]

NonceUnchanged(c) == local[c].again = local[c].nonce

Unexpired(c) ==
    blocks[local[c].latest].time < Commitment[local[c].request.authId].validUntil

\* The raw transaction is the prepared one, signed by the expected sender.
Prepared(c, raw) == raw = local[c].envelope

-----------------------------------------------------------------------------
(* The end of a call                                                        *)

Goto(c, label) == pc' = [pc EXCEPT ![c] = label]

\* Return or throw: releaseNonce() runs in the finally block, the locals are gone.
Settle(c, result) ==
    /\ Goto(c, "done")
    /\ outcome' = [outcome EXCEPT ![c] = result]
    /\ reservations' = IF pc[c] \in Holding THEN KeysAfterRelease(c) ELSE reservations
    /\ local' = [local EXCEPT ![c] = Blank]
    /\ reply' = [reply EXCEPT ![c] = None]
    /\ UNCHANGED <<signerCalls, dispatched, inflight>>

Reject(c) == Settle(c, "rejected")

\* The rest of a step that only moves call c on.
OnlyLocal == UNCHANGED <<signerCalls, dispatched, outcome, reservations, netVars>>

\* signTransaction is called: the observer counts the call before the signer answers.
CallSigner(c) ==
    /\ Goto(c, "sign")
    /\ signerCalls' = [signerCalls EXCEPT ![c] = @ + 1]
    /\ UNCHANGED <<local, dispatched, outcome, reservations, netVars>>

-----------------------------------------------------------------------------
(* The steps of a call                                                      *)

\* The arguments are parsed and copied before the first await.
Start(c) ==
    /\ pc[c] = "idle"
    /\ \E request \in Requests : local' = [local EXCEPT ![c].request = request]
    /\ Goto(c, "identify")
    /\ OnlyLocal

\* getAddress and getNetwork answer: the controller's own key never executes.
Identify(c) ==
    /\ pc[c] = "identify"
    /\ IF AccountOf[c] \in ControllerAccounts
         THEN Reject(c)
         ELSE Goto(c, "count") /\ OnlyLocal /\ UNCHANGED local

\* The node counts the pending transactions of the sender.
CountPending(c) ==
    /\ pc[c] = "count"
    /\ local' = [local EXCEPT ![c].nonce = Pending(AccountOf[c])]
    /\ Goto(c, "reserve")
    /\ OnlyLocal

\* The count reaches the caller, which reserves the key in the same turn.
Reserve(c) ==
    /\ pc[c] = "reserve"
    /\ IF KeyIsFree(c)
         THEN /\ reservations' = [reservations EXCEPT ![ProcessOf[c]] = @ \cup {Key(c)}]
              /\ Goto(c, "populate")
              /\ UNCHANGED <<local, signerCalls, dispatched, outcome, netVars>>
         ELSE Reject(c)

Populate(c) ==
    /\ pc[c] = "populate"
    /\ \E e \in Answers(c) :
          IF Requested(c, e) /\ WithinBudget(e)
            THEN /\ local' = [local EXCEPT ![c].envelope = e]
                 /\ Goto(c, "pin")
                 /\ OnlyLocal
            ELSE Reject(c)

\* inspectOnchainWithProvider: the latest block is pinned, ...
PinBlock(c) ==
    /\ pc[c] = "pin"
    /\ local' = [local EXCEPT ![c].pin = LatestBlock]
    /\ Goto(c, "code")
    /\ OnlyLocal

\* ... the code is read by block number, ...
ReadCode(c) ==
    /\ pc[c] = "code"
    /\ local' = [local EXCEPT ![c].code = blocks[SameHeight(local[c].pin)].code]
    /\ Goto(c, "confirm")
    /\ OnlyLocal

\* ... and the number still has to name the pinned block.
ConfirmPin(c) ==
    /\ pc[c] = "confirm"
    /\ IF SameBlock(local[c].pin)
         THEN Goto(c, "lookup") /\ OnlyLocal /\ UNCHANGED local
         ELSE Reject(c)

\* The record is read.  The verdict, and the checks of the registry's identity and of the
\* controller's signature, follow without an await.
LookUpRecord(c) ==
    /\ pc[c] = "lookup"
    /\ IF /\ local[c].request.authId \in recorded
          /\ AuthorizationHolds(c) /\ IntentMatches(c) /\ ControllerApproves(c)
         THEN Goto(c, "recheck") /\ OnlyLocal /\ UNCHANGED local
         ELSE Reject(c)

\* The two requests of one Promise.all are answered in either order.
RecheckNonce(c) ==
    /\ pc[c] = "recheck"
    /\ local[c].again = None
    /\ local' = [local EXCEPT ![c].again = Pending(AccountOf[c])]
    /\ OnlyLocal /\ UNCHANGED pc

RecheckBlock(c) ==
    /\ pc[c] = "recheck"
    /\ local[c].latest = 0
    /\ local' = [local EXCEPT ![c].latest = LatestBlock]
    /\ OnlyLocal /\ UNCHANGED pc

CompareRecheck(c) ==
    /\ pc[c] = "recheck"
    /\ local[c].again # None
    /\ local[c].latest # 0
    /\ IF NonceUnchanged(c) /\ Unexpired(c)
         THEN Goto(c, "recode") /\ OnlyLocal /\ UNCHANGED local
         ELSE Reject(c)

RecheckCode(c) ==
    /\ pc[c] = "recode"
    /\ local' = [local EXCEPT ![c].recode = blocks[SameHeight(local[c].latest)].code]
    /\ Goto(c, "reconfirm")
    /\ OnlyLocal

\* The block is confirmed and the codes are compared.
Reconfirm(c) ==
    /\ pc[c] = "reconfirm"
    /\ IF SameBlock(local[c].latest) /\ local[c].recode = local[c].code
         THEN IF HasSecondary
                THEN Goto(c, "secondary") /\ OnlyLocal /\ UNCHANGED local
                ELSE CallSigner(c)
         ELSE Reject(c)

\* The secondary provider agrees; where it does not, AwaitFails ends the call.
Secondary(c) ==
    /\ pc[c] = "secondary"
    /\ CallSigner(c)

\* The signer answers with some signed transaction.  The prepared one is broadcast.
Sign(c) ==
    /\ pc[c] = "sign"
    /\ \E raw \in Answers(c) :
          IF Prepared(c, raw)
            THEN /\ dispatched' = [dispatched EXCEPT
                                     ![c] = [request |-> local[c].request, tx |-> raw]]
                 /\ inflight' = inflight \cup {c}
                 /\ Goto(c, "broadcast")
                 /\ UNCHANGED <<local, signerCalls, outcome, reservations, reply>>
            ELSE Reject(c)

\* The response carries the expected hash, or it does not.
BroadcastAnswered(c) ==
    /\ pc[c] = "broadcast"
    /\ reply[c] = "accepted"
    /\ \E result \in {"sent", "rejected"} : Settle(c, result)

\* The awaited promise rejects: a provider, reader or signer error, an unusable answer, a
\* risk verdict other than ALLOW, a changed chain, a secondary that disagrees.
AwaitFails(c) ==
    /\ pc[c] \in Awaiting
    /\ Reject(c)

Step(c) ==
    /\ \/ Start(c) \/ Identify(c) \/ CountPending(c) \/ Reserve(c) \/ Populate(c)
       \/ PinBlock(c) \/ ReadCode(c) \/ ConfirmPin(c) \/ LookUpRecord(c)
       \/ RecheckNonce(c) \/ RecheckBlock(c) \/ CompareRecheck(c) \/ RecheckCode(c)
       \/ Reconfirm(c) \/ Secondary(c) \/ Sign(c) \/ BroadcastAnswered(c) \/ AwaitFails(c)
    /\ UNCHANGED <<nodeVars, recorded>>

-----------------------------------------------------------------------------
(* The world                                                                *)

\* The process of p ends: its calls and its reservation set are gone, requests on the wire
\* are not.  Calls still idle run in the restarted process.
Crash(p) ==
    LET dead == {c \in Calls : ProcessOf[c] = p /\ pc[c] \notin {"idle", "done"}}
    IN  /\ dead # {}
        /\ pc' = [c \in Calls |-> IF c \in dead THEN "done" ELSE pc[c]]
        /\ outcome' = [c \in Calls |-> IF c \in dead THEN "crashed" ELSE outcome[c]]
        /\ local' = [c \in Calls |-> IF c \in dead THEN Blank ELSE local[c]]
        /\ reply' = [c \in Calls |-> IF c \in dead THEN None ELSE reply[c]]
        /\ reservations' = [reservations EXCEPT ![p] = {}]
        /\ UNCHANGED <<signerCalls, dispatched, nodeVars, inflight, recorded>>

\* The node takes a transaction at the next nonce, or as a replacement at an earlier one.
NodeAccepts(c) ==
    LET a == dispatched[c].tx.account
        i == dispatched[c].tx.nonce + 1
    IN  /\ c \in inflight
        /\ i <= Len(ledger[a]) + 1
        /\ ledger' = [ledger EXCEPT ![a] =
                         IF i <= Len(@) THEN [@ EXCEPT ![i] = c] ELSE Append(@, c)]
        /\ inflight' = inflight \ {c}
        /\ reply' = [reply EXCEPT ![c] = IF pc[c] = "broadcast" THEN "accepted" ELSE None]
        /\ UNCHANGED <<callVars, blocks, canon, recorded>>

\* The node refuses a transaction, or the request never reaches it.
NodeDrops(c) ==
    /\ c \in inflight
    /\ inflight' = inflight \ {c}
    /\ UNCHANGED <<callVars, nodeVars, reply, recorded>>

\* Another wallet or another process spends the account's next nonce.
ForeignSend(a) ==
    /\ Len(ledger[a]) < MaxLedger
    /\ ledger' = [ledger EXCEPT ![a] = Append(@, Foreign)]
    /\ UNCHANGED <<callVars, netVars, blocks, canon, recorded>>

\* The node forgets the last transactions it held for the account.
Evict(a) ==
    /\ \E n \in 0 .. Len(ledger[a]) - 1 :
          ledger' = [ledger EXCEPT ![a] = SubSeq(@, 1, n)]
    /\ UNCHANGED <<callVars, netVars, blocks, canon, recorded>>

Produce(parent, code, tick) ==
    /\ Len(blocks) < MaxBlocks
    /\ blocks' = Append(blocks, [number |-> Len(parent) + 1, code |-> code,
                                 time |-> blocks[parent[Len(parent)]].time + tick])
    /\ canon' = Append(parent, Len(blocks) + 1)
    /\ UNCHANGED <<callVars, netVars, ledger, recorded>>

NewBlock == \E code \in CodeHashes, tick \in 1 .. MaxTick : Produce(canon, code, tick)

\* The latest block is replaced by another one of the same number.
Reorg ==
    /\ Len(canon) > 1
    /\ \E code \in CodeHashes, tick \in 1 .. MaxTick :
          Produce(SubSeq(canon, 1, Len(canon) - 1), code, tick)

\* The verified record of an authorization becomes readable, once and for all.
RecordVerified(a) ==
    /\ a \notin recorded
    /\ recorded' = recorded \cup {a}
    /\ UNCHANGED <<callVars, nodeVars, netVars>>

World ==
    \/ \E p \in Processes : Crash(p)
    \/ \E c \in Calls : NodeAccepts(c) \/ NodeDrops(c)
    \/ \E a \in Accounts : ForeignSend(a) \/ Evict(a)
    \/ NewBlock
    \/ Reorg
    \/ \E a \in AuthIds : RecordVerified(a)

Init ==
    /\ pc = [c \in Calls |-> "idle"]
    /\ local = [c \in Calls |-> Blank]
    /\ signerCalls = [c \in Calls |-> 0]
    /\ dispatched = [c \in Calls |-> None]
    /\ outcome = [c \in Calls |-> "none"]
    /\ reservations = [p \in Processes |-> {}]
    /\ \E code \in CodeHashes : blocks = <<[number |-> 1, time |-> 0, code |-> code]>>
    /\ canon = <<1>>
    /\ ledger = [a \in Accounts |-> <<>>]
    /\ inflight = {}
    /\ reply = [c \in Calls |-> None]
    /\ recorded = {}

Next == (\E c \in Calls : Step(c)) \/ World

Spec == Init /\ [][Next]_vars

-----------------------------------------------------------------------------
(* Properties                                                               *)

LocalType ==
    [request: Requests \cup {None}, nonce: Nat, envelope: Envelope \cup {None},
     pin: 0 .. Len(blocks), code: CodeHashes \cup {None}, again: Nat \cup {None},
     latest: 0 .. Len(blocks), recode: CodeHashes \cup {None}]

BlockType == [number: Nat \ {0}, time: Nat, code: CodeHashes]

\* The types of the variables.
TypeOK ==
    /\ pc \in [Calls -> Labels]
    /\ local \in [Calls -> LocalType]
    /\ signerCalls \in [Calls -> Nat]
    /\ dispatched \in [Calls -> DispatchType \cup {None}]
    /\ outcome \in [Calls -> {"none", "sent", "rejected", "crashed"}]
    /\ reservations \in [Processes -> SUBSET (Accounts \X Nat)]
    /\ blocks \in Seq(BlockType)
    /\ canon \in Seq(1 .. Len(blocks))
    /\ ledger \in [Accounts -> Seq(Calls \cup {Foreign})]
    /\ inflight \subseteq Calls
    /\ reply \in [Calls -> {None, "accepted"}]
    /\ recorded \subseteq AuthIds

Holders(p) == {c \in Calls : ProcessOf[c] = p /\ pc[c] \in Holding}

\* The reservation set of a process is at all times the keys of the calls inside their try
\* block, and no two of those calls have the same key: no path out of a call, a failing
\* await or a crash included, leaks a key or frees one that another call still needs.
ReservationsExact ==
    \A p \in Processes :
        /\ reservations[p] = {Key(c) : c \in Holders(p)}
        /\ \A c, d \in Holders(p) : Key(c) = Key(d) => c = d

\* Whatever the wallet, the signer and the node answer, and whatever other calls do, a
\* transaction handed to the node has a verified record that commits to its sender, nonce
\* and effect, and a fee within the ceiling the controller signed for that record.
DispatchedAsApproved ==
    \A c \in Calls : dispatched[c] # None =>
        LET request == dispatched[c].request
            tx      == dispatched[c].tx
            record  == Commitment[request.authId]
        IN  /\ request.authId \in recorded
            /\ <<tx.account, tx.nonce, tx.effect>> =
                   <<record.account, record.nonce, record.effect>>
            /\ request.approval.commitment = record
            /\ tx.fee <= request.approval.ceiling

\* One authorization never occupies two nonces of an account, though calls of several
\* processes may use it at once, transactions get lost or evicted, and processes restart.
AuthorizationUsedOnce ==
    \A a, b \in Accounts : \A i \in DOMAIN ledger[a], j \in DOMAIN ledger[b] :
        LET c == ledger[a][i]
            d == ledger[b][j]
        IN  (/\ {c, d} \subseteq Calls
             /\ dispatched[c].request.authId = dispatched[d].request.authId)
            => a = b /\ i = j

\* A signer is asked to sign only under facts of one and the same block: its time is before
\* the expiry and its own code, not that of a block that replaced it, is the authorized one.
\* That block is not older than the one the preflight pinned, whose code was the same.
SignsUnderOneBlock ==
    \A c \in Calls : pc[c] \in {"sign", "broadcast"} =>
        LET record == Commitment[local[c].request.authId]
            latest == blocks[local[c].latest]
            pin    == blocks[local[c].pin]
        IN  /\ latest.time < record.validUntil
            /\ latest.code = record.code
            /\ pin.code = record.code
            /\ pin.number <= latest.number

\* The transaction of call d, which returned normally, is the one at its nonce in the ledger.
Landed(d) ==
    /\ outcome[d] = "sent"
    /\ LET tx == dispatched[d].tx
       IN  /\ tx.nonce + 1 \in DOMAIN ledger[tx.account]
           /\ ledger[tx.account][tx.nonce + 1] = d

SpentInProcess(c) ==
    \E d \in Calls \ {c} :
        /\ ProcessOf[d] = ProcessOf[c]
        /\ AccountOf[d] = AccountOf[c]
        /\ Landed(d)
        /\ dispatched[d].tx.nonce = local[c].nonce

\* Within a process the signer is never asked to sign for a nonce on which another call has
\* already sent its transaction and returned.  It takes the reservation, which lives in the
\* process, and the second count, which comes after it: the first count may be stale by the
\* time the key is reserved.
NeverSignsSpentNonce ==
    [][\A c \in Calls : pc'[c] = "sign" /\ pc[c] # "sign" => ~ SpentInProcess(c)]_vars

\* The most steps a call with these locals can still take, one for each answer and for each
\* comparison that is before it.
StepsFrom(label, l) ==
    CASE label = "idle"      -> 17
      [] label = "identify"  -> 16
      [] label = "count"     -> 15
      [] label = "reserve"   -> 14
      [] label = "populate"  -> 13
      [] label = "pin"       -> 12
      [] label = "code"      -> 11
      [] label = "confirm"   -> 10
      [] label = "lookup"    -> 9
      [] label = "recheck"   -> 6 + (IF l.again = None THEN 1 ELSE 0)
                                  + (IF l.latest = 0 THEN 1 ELSE 0)
      [] label = "recode"    -> 5
      [] label = "reconfirm" -> 4
      [] label = "secondary" -> 3
      [] label = "sign"      -> 2
      [] label = "broadcast" -> 1
      [] label = "done"      -> 0

StepsLeft(c) == StepsFrom(pc[c], local[c])

\* No call waits for the same thing twice: each of its steps leaves it fewer, and nothing that
\* other calls, processes, wallets or the node do gives it more.  A call holds its key for a
\* bounded number of answers; that it gives the key back then takes only that they come, which
\* is the fairness ReservationsDrain is checked under.
CallsGoForward ==
    [][\A c \in Calls : /\ StepsLeft(c)' <= StepsLeft(c)
                        /\ Step(c) => StepsLeft(c)' < StepsLeft(c)]_vars

\* The keys the bounds of a run can reach.
Keys == Accounts \X (0 .. MaxLedger + Cardinality(Calls))

\* Every reserved key is given back, whatever fails: nothing a call meets makes a nonce
\* unusable for the rest of the process's life.
ReservationsDrain ==
    \A p \in Processes : \A key \in Keys :
        key \in reservations[p] ~> key \notin reservations[p]

-----------------------------------------------------------------------------
(* Refinement                                                               *)

IssuedBy(c) == [authId |-> dispatched[c].request.authId, fee |-> dispatched[c].tx.fee]

Abstract == INSTANCE AuthorizedExecution WITH
    known <- recorded,
    wire <- {IssuedBy(c) : c \in inflight},
    book <- [a \in Accounts |->
                [i \in DOMAIN ledger[a] |->
                    IF ledger[a][i] = Foreign THEN Foreign ELSE IssuedBy(ledger[a][i])]]

\* All that calls, processes, crashes, wallets and nodes do together is what
\* AuthorizedExecution allows: no transaction is issued that no known authorization stands
\* for, and none takes another account, nonce or fee than it stands for.
RefinesAuthorizedExecution == Abstract!Spec

-----------------------------------------------------------------------------
(* What holds at each label (the inductive strengthening)                   *)

Populated == Holding \ {"populate"}
Pinned    == Populated \ {"pin"}
Matched   == {"recheck", "recode", "reconfirm", "secondary", "sign", "broadcast"}
Rechecked == Matched \ {"recheck"}
Confirmed == Rechecked \ {"recode", "reconfirm"}

\* Every block of the chain stands at its own number; no block ever had a later number.
ChainOK ==
    /\ Len(canon) > 0
    /\ \A i \in DOMAIN canon : blocks[canon[i]].number = i
    /\ \A h \in DOMAIN blocks : blocks[h].number <= Len(canon)

\* A code read by block number is the code of block h, or h has been replaced for good.
ReadFrom(h, read) == read = blocks[h].code \/ ~ SameBlock(h)

LocalsAtLabel(c) ==
    /\ pc[c] \notin {"idle", "done"} => local[c].request \in Requests
    /\ pc[c] \notin Matched => local[c].again = None /\ local[c].latest = 0
    /\ pc[c] \in Populated =>
          /\ local[c].envelope \in Envelope
          /\ Requested(c, local[c].envelope)
          /\ WithinBudget(local[c].envelope)
    /\ pc[c] \in Pinned => local[c].pin \in DOMAIN blocks
    /\ pc[c] = "confirm" => ReadFrom(local[c].pin, local[c].code)
    /\ pc[c] \in Matched \cup {"lookup"} => local[c].code = blocks[local[c].pin].code
    /\ pc[c] \in Matched =>
          /\ local[c].request.authId \in recorded
          /\ AuthorizationHolds(c)
          /\ IntentMatches(c)
          /\ ControllerApproves(c)
          /\ local[c].latest # 0 =>
                blocks[local[c].pin].number <= blocks[local[c].latest].number
    /\ pc[c] \in Rechecked => local[c].latest # 0 /\ Unexpired(c) /\ NonceUnchanged(c)
    /\ pc[c] = "reconfirm" => ReadFrom(local[c].latest, local[c].recode)
    /\ pc[c] \in Confirmed =>
          /\ local[c].recode = local[c].code
          /\ local[c].recode = blocks[local[c].latest].code

\* A transaction in the node's ledger stands at its own nonce and account.
LedgerPositions ==
    \A a \in Accounts : \A i \in DOMAIN ledger[a] :
        LET c == ledger[a][i]
        IN  c # Foreign => /\ dispatched[c] # None
                           /\ dispatched[c].tx.account = a
                           /\ dispatched[c].tx.nonce + 1 = i

\* What a call has handed to the node is what its locals say, and it is handed over once.
DispatchedAtLabel(c) ==
    /\ c \in inflight \/ outcome[c] = "sent" => dispatched[c] # None
    /\ pc[c] = "broadcast" =>
          dispatched[c] = [request |-> local[c].request, tx |-> local[c].envelope]
    /\ pc[c] \notin {"broadcast", "done"} => dispatched[c] = None
    /\ outcome[c] = "none" <=> pc[c] # "done"
    /\ dispatched[c] # None =>
          dispatched[c].tx.account = AccountOf[c] /\ WithinBudget(dispatched[c].tx)
    /\ c \in inflight => reply[c] = None /\ outcome[c] # "sent"
    /\ reply[c] = "accepted" => pc[c] = "broadcast"

\* From the moment the second count has confirmed the nonce of a call, no other call of its
\* process has sent a transaction at that nonce.
NonceUnspent(c) ==
    (pc[c] \in Matched /\ NonceUnchanged(c)) => ~ SpentInProcess(c)

\* The inductive invariant of the proofs.
IInv ==
    /\ TypeOK
    /\ ReservationsExact
    /\ ChainOK
    /\ DispatchedAsApproved
    /\ LedgerPositions
    /\ \A c \in Calls : LocalsAtLabel(c) /\ DispatchedAtLabel(c) /\ NonceUnspent(c)

=============================================================================
