---------------------------- MODULE RpcFailover ----------------------------
(***************************************************************************)
(* inspectOnchain and the provider cache of one network.  Requests to the  *)
(* HTTP server run inspectOnchain concurrently and share the cached        *)
(* provider; a call that finds a provider bad takes it out of the cache    *)
(* and destroys it, whoever else is using it.                              *)
(*                                                                         *)
(* pc[c] names the request call c is waiting for; an action is the answer  *)
(* to it, or its failure, and the synchronous code up to the next request. *)
(* An endpoint is known by its position in rpcCandidates(network).         *)
(*                                                                         *)
(* Of ethers this assumes: a request made through a destroyed provider     *)
(* fails; one under way when its provider is destroyed may go either way.  *)
(***************************************************************************)
EXTENDS Naturals, FiniteSets

CONSTANTS
    Calls,  \* invocations of inspectOnchain for the network
    N,      \* the number of candidates
    None    \* no provider

Endpoints == 1..N

\* A call creates at most one provider of an endpoint in each of its attempts.
Providers == [by: Calls, attempt: Nat, url: Endpoints]

ASSUME FailoverAssumption ==
    /\ N \in Nat \ {0}
    /\ None \notin Providers

VARIABLES
    pc,         \* the request each call is waiting for
    local,      \* its local variables
    cache,      \* the entry of providerCache
    destroyed,  \* the providers that were destroyed
    faulted     \* history: the endpoints that failed by themselves while a call was under way

failoverVars == <<pc, local, cache, destroyed, faulted>>

\* excluded, attempt: excludedUrls and attempt of inspectOnchain.  active: the provider in use.
\* usable: it was not destroyed when the request was made.
\* cut: history, a failure that is part of the result came after the provider was destroyed.
Blank == [excluded |-> {}, attempt |-> 0, active |-> None, usable |-> FALSE, cut |-> FALSE]

LocalType ==
    [excluded: SUBSET Endpoints, attempt: Nat, active: Providers \cup {None},
     usable: BOOLEAN, cut: BOOLEAN]

\* Requests of inspectOnchainWithProvider whose failure becomes part of the result, and the others.
Tolerated  == {"simulate", "estimate", "proxy"}
Inspecting == {"pin", "read", "confirm"} \cup Tolerated
UnderWay   == {"recheck", "identify"} \cup Inspecting

Min(S) == CHOOSE x \in S : \A y \in S : x <= y

-----------------------------------------------------------------------------
(* Faults: each is a plausible mistake in the definition it is named for.   *)

EntryKept(p) == cache

SameUrlDestroyed(p) ==
    {p} \cup (IF cache # None /\ cache.url = p.url THEN {cache} ELSE {})

Unconfirmed ==
    [pin |-> "read", read |-> "simulate", simulate |-> "estimate", estimate |-> "proxy",
     proxy |-> "answered", confirm |-> "answered"]

ReusableAlways(l) == cache' # None

Unfiltered(l, k) == k..N

OneTooMany(l, k) == {u \in k..N + 1 : u \notin l.excluded}

-----------------------------------------------------------------------------
(* Providers                                                                *)

\* The request that follows each request of inspectOnchainWithProvider.
After ==
    [pin |-> "read", read |-> "simulate", simulate |-> "estimate", estimate |-> "proxy",
     proxy |-> "confirm", confirm |-> "answered"]

Request(c, label, l, p) ==
    /\ pc' = [pc EXCEPT ![c] = label]
    /\ local' = [local EXCEPT ![c] = [l EXCEPT !.active = p, !.usable = p \notin destroyed']]

GiveUp(c) ==
    /\ pc' = [pc EXCEPT ![c] = "failed"]
    /\ local' = [local EXCEPT ![c] = Blank]

\* The entry is deleted if it has the url of the provider that failed.
EntryAfter(p) == IF cache # None /\ cache.url = p.url THEN None ELSE cache

DestroyedWith(p) == {p}

InvalidateProvider(p) ==
    /\ cache' = EntryAfter(p)
    /\ destroyed' = destroyed \cup DestroyedWith(p)

Reusable(l) == cache' # None /\ cache'.url \notin l.excluded

Remaining(l, k) == {u \in k..N : u \notin l.excluded}

\* The loop of findWorkingProvider, from candidate k on.
TryCandidates(c, l, k) ==
    \/ /\ Remaining(l, k) # {}
       /\ Request(c, "identify", l,
                  [by |-> c, attempt |-> l.attempt, url |-> Min(Remaining(l, k))])
    \/ /\ Remaining(l, k) = {}
       /\ GiveUp(c)

\* findWorkingProvider up to its first request
FindWorkingProvider(c, l) ==
    \/ Reusable(l) /\ Request(c, "recheck", l, cache')
    \/ ~ Reusable(l) /\ TryCandidates(c, l, 1)

\* The answer to a request of call c, which only a provider that was in order when asked can give.
Answered(c) == local[c].usable

\* A request of call c fails (for eth_chainId, another chain's id is a failure), because of its
\* endpoint unless the provider has been destroyed.
Fails(c) ==
    LET p == local[c].active
    IN  faulted' = IF p \in destroyed THEN faulted
                   ELSE [d \in Calls |->
                            faulted[d] \cup IF pc[d] \in UnderWay THEN {p.url} ELSE {}]

-----------------------------------------------------------------------------
(* inspectOnchain                                                           *)

FailoverInit ==
    /\ pc = [c \in Calls |-> "idle"]
    /\ local = [c \in Calls |-> Blank]
    /\ cache = None
    /\ destroyed = {}
    /\ faulted = [c \in Calls |-> {}]

Start(c) ==
    /\ pc[c] = "idle"
    /\ UNCHANGED <<cache, destroyed, faulted>>
    /\ FindWorkingProvider(c, Blank)

CachedWorks(c) ==
    /\ pc[c] = "recheck"
    /\ Answered(c)
    /\ UNCHANGED <<cache, destroyed, faulted>>
    /\ Request(c, "pin", local[c], local[c].active)

CachedFails(c) ==
    /\ pc[c] = "recheck"
    /\ Fails(c)
    /\ InvalidateProvider(local[c].active)
    /\ TryCandidates(c, local[c], 1)

CandidateWorks(c) ==
    /\ pc[c] = "identify"
    /\ Answered(c)
    /\ cache' = local[c].active
    /\ UNCHANGED <<destroyed, faulted>>
    /\ Request(c, "pin", local[c], local[c].active)

CandidateFails(c) ==
    /\ pc[c] = "identify"
    /\ Fails(c)
    /\ destroyed' = destroyed \cup {local[c].active}
    /\ UNCHANGED cache
    /\ TryCandidates(c, local[c], local[c].active.url + 1)

\* The answer to the last request ends the call.
Proceed(c) ==
    /\ pc[c] \in Inspecting
    /\ Answered(c)
    /\ UNCHANGED <<cache, destroyed, faulted>>
    /\ Request(c, After[pc[c]], local[c], local[c].active)

\* eth_call, the gas estimate or the proxy slots: the failure becomes part of the result.  It may
\* be the transaction's (a revert) and does not count against the endpoint.
Note(c) ==
    /\ pc[c] \in Tolerated
    /\ UNCHANGED <<cache, destroyed, faulted>>
    /\ LET p == local[c].active
       IN  Request(c, After[pc[c]], [local[c] EXCEPT !.cut = @ \/ p \in destroyed], p)

\* The inspection throws: no block, no code, another block in the end, or no code of the
\* implementation of a minimal proxy.
InspectionFails(c) ==
    LET p == local[c].active
        l == [local[c] EXCEPT !.excluded = @ \cup {p.url}, !.attempt = @ + 1, !.cut = FALSE]
    IN  /\ pc[c] \in Inspecting \ {"simulate", "estimate"}
        /\ Fails(c)
        /\ InvalidateProvider(p)
        /\ \/ l.attempt < N /\ FindWorkingProvider(c, l)
           \/ l.attempt = N /\ GiveUp(c)

FailoverNext ==
    \E c \in Calls :
        \/ Start(c)
        \/ CachedWorks(c) \/ CachedFails(c)
        \/ CandidateWorks(c) \/ CandidateFails(c)
        \/ Proceed(c) \/ Note(c) \/ InspectionFails(c)

FailoverSpec == FailoverInit /\ [][FailoverNext]_failoverVars

-----------------------------------------------------------------------------
(* Properties                                                               *)

FailoverTypeOK ==
    /\ pc \in [Calls -> {"idle", "answered", "failed"} \cup UnderWay]
    /\ local \in [Calls -> LocalType]
    /\ \A c \in Calls : pc[c] \in UnderWay => local[c].active \in Providers
    /\ cache \in Providers \cup {None}
    /\ destroyed \subseteq Providers
    /\ faulted \in [Calls -> SUBSET Endpoints]

\* A call that starts never gets a provider somebody has destroyed: invalidateProvider, which
\* compares urls and not providers, always removes the entry it makes useless.
CacheIsAlive == cache \notin destroyed

\* inspectOnchain gives up only when every candidate failed by itself while the call was under
\* way: a call may lose its provider to a fault that hit another call, but never to one that was
\* over before it began, and it asks every endpoint no one has found bad since.
FailsOnlyIfEveryEndpointFailed ==
    \A c \in Calls : pc[c] = "failed" => faulted[c] = Endpoints

\* No result says that the simulation, the gas estimate or the proxy check failed when what
\* failed is that another call destroyed the provider: the confirmation fails then, and the
\* inspection is repeated.
ResultsAreNotCut == \A c \in Calls : pc[c] = "answered" => ~ local[c].cut

\* An endpoint whose inspection failed is not inspected again by the same call, though other
\* calls may put it back into the cache.
ExcludedStaysExcluded ==
    \A c \in Calls : pc[c] \in UnderWay => local[c].active.url \notin local[c].excluded

\* The most requests an attempt can still make, the one under way included: the cached provider
\* is asked first, then every candidate in order, then the six of the inspection.
RequestsFrom(label, l) ==
    CASE label = "recheck"  -> 7 + N
      [] label = "identify" -> 7 + N - l.active.url
      [] label = "pin"      -> 6
      [] label = "read"     -> 5
      [] label = "simulate" -> 4
      [] label = "estimate" -> 3
      [] label = "proxy"    -> 2
      [] label = "confirm"  -> 1

\* The most steps a call can still take: its start, and each request of each of its attempts.
StepsFrom(label, l) ==
    CASE label = "idle"       -> N * (7 + N) + 1
      [] label \in UnderWay  -> (N - 1 - l.attempt) * (7 + N) + RequestsFrom(label, l)
      [] OTHER                -> 0

StepsLeft(c) == StepsFrom(pc[c], local[c])

\* Calls that take each other's providers away, and put back into the cache what another call has
\* excluded, never keep each other trying: every step is one of a call that has fewer left
\* then, and the others have as many as before.  A call makes at most N * (N + 7) requests.
CallsRunOut ==
    [][\E c \in Calls :
          /\ StepsLeft(c)' < StepsLeft(c)
          /\ \A d \in Calls \ {c} : StepsLeft(d)' = StepsLeft(d)]_failoverVars

-----------------------------------------------------------------------------
(* The inductive invariant                                                  *)

\* A provider of call c that somebody can know was created before the one c is trying.
CreatedBefore(c, p) ==
    \/ p.attempt < local[c].attempt
    \/ /\ p.attempt = local[c].attempt
       /\ pc[c] # "recheck"
       /\ pc[c] = "identify" => p.url < local[c].active.url

Known == (destroyed \cup {cache}) \ {None}

OwnProviders(c) ==
    /\ \A p \in Known : p.by = c => pc[c] # "idle" /\ (pc[c] \in UnderWay => CreatedBefore(c, p))
    /\ \A d \in Calls :
          local[d].active # None /\ local[d].active.by = c =>
              /\ pc[c] # "idle"
              /\ pc[c] \in UnderWay =>
                    CreatedBefore(c, local[d].active) \/ (pc[c] = "identify" /\ c = d)
    /\ pc[c] = "identify" => local[c].active.by = c /\ local[c].active.attempt = local[c].attempt

Attempts(c) ==
    LET l == local[c]
    IN  pc[c] \in UnderWay =>
            /\ l.attempt = Cardinality(l.excluded) /\ l.attempt < N
            /\ l.active.url \notin l.excluded

\* All that call c has lost so far was lost to faults it has seen.
LossExplained(c) ==
    LET l == local[c]
    IN  /\ pc[c] \in UnderWay => l.excluded \subseteq faulted[c]
        /\ pc[c] \in UnderWay /\ l.active \in destroyed => l.active.url \in faulted[c]
        /\ pc[c] = "identify" => 1..(l.active.url - 1) \subseteq faulted[c]
        /\ pc[c] = "failed" => faulted[c] = Endpoints

CutIsFatal(c) ==
    /\ pc[c] \in UnderWay /\ local[c].cut => local[c].active \in destroyed /\ ~ local[c].usable
    /\ pc[c] \in {"idle", "recheck", "identify", "answered"} => ~ local[c].cut
    /\ pc[c] = "idle" => local[c] = Blank

FailoverInv ==
    /\ FailoverTypeOK
    /\ CacheIsAlive
    /\ \A c \in Calls : OwnProviders(c) /\ Attempts(c) /\ LossExplained(c) /\ CutIsFatal(c)

=============================================================================
