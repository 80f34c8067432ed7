------------------------- MODULE RpcFailoverProofs -------------------------
(***************************************************************************)
(* FailoverInv is inductive, and what follows from it: a destroyed         *)
(* provider is never in the cache, a call fails only if every endpoint     *)
(* does, no result is cut by the destruction of its provider.              *)
(***************************************************************************)
EXTENDS RpcFailover, FiniteSetTheorems, WellFoundedInduction, TLAPS

USE FailoverAssumption

\* What a step of call c does to the state the calls share: at most the provider of c is
\* destroyed or cached, and a call whose provider is lost has seen a fault of its endpoint.
Shares(c) ==
    /\ cache' \in Providers \cup {None}
    /\ destroyed' \subseteq Providers
    /\ faulted' \in [Calls -> SUBSET Endpoints]
    /\ \A d \in Calls : faulted[d] \subseteq faulted'[d]
    /\ cache' \notin destroyed'
    /\ destroyed \subseteq destroyed'
    /\ \A p \in Known' : p \in Known \/ p = local[c].active
    /\ \A d \in Calls :
          pc[d] \in UnderWay /\ local[d].active \in destroyed' =>
              local[d].active.url \in faulted'[d]

\* The locals with which findWorkingProvider is called, or goes on.
Ready(c, l) ==
    /\ l \in LocalType
    /\ ~ l.cut
    /\ l.excluded \subseteq faulted'[c]
    /\ l.attempt = Cardinality(l.excluded) /\ l.attempt < N

\* The provider call c creates next is new.
Fresh(c, l, k) ==
    \A p \in Known' \cup {local[d].active : d \in Calls \ {c}} :
        p # None /\ p.by = c =>
            p.attempt < l.attempt \/ (p.attempt = l.attempt /\ p.url < k)

\* A step of c leaves the invariant of the other calls, whatever provider c goes on with: a new
\* one of its own, the one it had, the cached one, or none.
LEMMA OthersKeepInv ==
    ASSUME FailoverInv, NEW c \in Calls, Shares(c), NEW x, NEW l \in LocalType,
           pc' = [pc EXCEPT ![c] = x], local' = [local EXCEPT ![c] = l],
           \/ l.active \in {None, cache', local[c].active}
           \/ l.active.by = c
    PROVE  \A d \in Calls \ {c} :
               OwnProviders(d)' /\ Attempts(d)' /\ LossExplained(d)' /\ CutIsFatal(d)'
<1> SUFFICES ASSUME NEW d \in Calls \ {c}
             PROVE  OwnProviders(d)' /\ Attempts(d)' /\ LossExplained(d)' /\ CutIsFatal(d)'
  OBVIOUS
<1>1. pc'[d] = pc[d] /\ local'[d] = local[d] /\ pc'[c] = x /\ local'[c] = l
  BY DEF FailoverInv, FailoverTypeOK
<1>2. \A p : CreatedBefore(d, p)' <=> CreatedBefore(d, p)
  BY <1>1 DEF CreatedBefore
<1>3. local[c].active # None /\ local[c].active.by = d =>
          pc[d] # "idle" /\ (pc[d] \in UnderWay => CreatedBefore(d, local[c].active))
  BY DEF FailoverInv, OwnProviders
<1>4. \A p \in Known' : p.by = d => pc[d] # "idle" /\ (pc[d] \in UnderWay => CreatedBefore(d, p))
  <2> SUFFICES ASSUME NEW p \in Known', p.by = d
               PROVE  pc[d] # "idle" /\ (pc[d] \in UnderWay => CreatedBefore(d, p))
    OBVIOUS
  <2>1. CASE p \in Known
    BY <2>1 DEF FailoverInv, OwnProviders
  <2>2. CASE p = local[c].active
    BY <2>2, <1>3 DEF Known
  <2> QED BY <2>1, <2>2 DEF Shares
<1>5. ASSUME NEW e \in Calls, local'[e].active # None, local'[e].active.by = d
      PROVE  /\ pc[d] # "idle"
             /\ pc[d] \in UnderWay =>
                   CreatedBefore(d, local'[e].active) \/ (pc[d] = "identify" /\ d = e)
  <2>1. CASE e # c
    BY <2>1, <1>5 DEF FailoverInv, FailoverTypeOK, OwnProviders
  <2>2. CASE e = c
    <3>1. l.active = cache' => l.active \in Known'
      BY <2>2, <1>1, <1>5 DEF Known
    <3> QED BY <3>1, <2>2, <1>1, <1>3, <1>4, <1>5
  <2> QED BY <2>1, <2>2
<1>6. OwnProviders(d)'
  BY <1>1, <1>2, <1>4, <1>5 DEF OwnProviders, FailoverInv
<1>7. Attempts(d)'
  BY <1>1 DEF Attempts, FailoverInv
<1>8. LossExplained(d)'
  <2>1. faulted[d] \subseteq faulted'[d] /\ faulted'[d] \subseteq Endpoints
    BY DEF Shares
  <2> QED BY <2>1, <1>1 DEF LossExplained, FailoverInv, Shares
<1>9. CutIsFatal(d)'
  BY <1>1 DEF CutIsFatal, FailoverInv, Shares
<1> QED BY <1>6, <1>7, <1>8, <1>9

\* The type of the state after a step of call c.
LEMMA TypeAfter ==
    ASSUME FailoverInv, NEW c \in Calls, Shares(c), NEW l \in LocalType,
           NEW x \in {"idle", "answered", "failed"} \cup UnderWay,
           x \in UnderWay => l.active \in Providers,
           pc' = [pc EXCEPT ![c] = x], local' = [local EXCEPT ![c] = l]
    PROVE  FailoverTypeOK' /\ CacheIsAlive'
<1>1. ASSUME NEW d \in Calls, pc'[d] \in UnderWay PROVE local'[d].active \in Providers
  BY <1>1 DEF FailoverInv, FailoverTypeOK
<1>2. FailoverTypeOK'
  BY <1>1 DEF FailoverInv, FailoverTypeOK, Shares
<1> QED BY <1>2 DEF CacheIsAlive, Shares

\* A set of endpoints has a least one.
LEMMA LeastRemaining ==
    ASSUME NEW S \in SUBSET Endpoints, S # {}
    PROVE  \E u \in S : \A v \in S : u <= v
<1>1. S \subseteq Nat
  BY DEF Endpoints
<1>2. PICK u \in S : \A v \in S : <<v, u>> \notin OpToRel(<, Nat)
  BY <1>1, NatLessThanWellFounded, WFMin
<1>3. \A v \in S : ~ v < u
  BY <1>1, <1>2 DEF OpToRel
<1> QED BY <1>1, <1>3

\* A call that gives up does so because every endpoint has failed.
LEMMA GiveUpInv ==
    ASSUME FailoverInv, NEW c \in Calls, Shares(c), GiveUp(c), faulted'[c] = Endpoints
    PROVE  FailoverInv'
<1>1. Blank \in LocalType /\ Blank.active = None
  BY DEF Blank, LocalType
<1>2. FailoverTypeOK' /\ CacheIsAlive'
  BY <1>1, TypeAfter DEF GiveUp, UnderWay, Inspecting, Tolerated
<1>3. \A d \in Calls \ {c} :
          OwnProviders(d)' /\ Attempts(d)' /\ LossExplained(d)' /\ CutIsFatal(d)'
  BY <1>1, OthersKeepInv DEF GiveUp
<1>4. pc'[c] = "failed" /\ "failed" \notin UnderWay
  BY DEF GiveUp, FailoverInv, FailoverTypeOK, UnderWay, Inspecting, Tolerated
<1>5. OwnProviders(c)' /\ Attempts(c)' /\ LossExplained(c)' /\ CutIsFatal(c)'
  BY <1>4 DEF OwnProviders, Attempts, LossExplained, CutIsFatal
<1> QED BY <1>2, <1>3, <1>5 DEF FailoverInv

\* A call that goes on with a candidate, from candidate k on.
LEMMA TryCandidatesInv ==
    ASSUME FailoverInv, NEW c \in Calls, Shares(c), NEW l, Ready(c, l), NEW k \in Nat \ {0},
           Fresh(c, l, k), 1..(k - 1) \subseteq faulted'[c],
           TryCandidates(c, l, k)
    PROVE  FailoverInv'
<1>1. Remaining(l, k) \subseteq Endpoints
  BY DEF Remaining, Endpoints
<1>2. faulted'[c] \subseteq Endpoints
  BY DEF Shares
<1>3. CASE Remaining(l, k) = {} /\ GiveUp(c)
  <2>1. ASSUME NEW u \in Endpoints PROVE u \in faulted'[c]
    BY <1>3 DEF Remaining, Endpoints, Ready
  <2>2. faulted'[c] = Endpoints
    BY <2>1, <1>2
  <2> QED BY <2>2, <1>3, GiveUpInv
<1>4. CASE Remaining(l, k) # {} /\ Request(c, "identify", l,
               [by |-> c, attempt |-> l.attempt, url |-> Min(Remaining(l, k))])
  <2> DEFINE u == Min(Remaining(l, k))
             p == [by |-> c, attempt |-> l.attempt, url |-> u]
             m == [l EXCEPT !.active = p, !.usable = p \notin destroyed']
  <2>1. u \in Remaining(l, k) /\ \A v \in Remaining(l, k) : u <= v
    BY <1>1, <1>4, LeastRemaining DEF Min
  <2>2. p \in Providers /\ p.by = c /\ p.attempt = l.attempt /\ p.url = u /\ u >= k
    BY <1>1, <2>1 DEF Providers, Ready, LocalType, Remaining, Endpoints
  <2>3. m \in LocalType /\ m.active = p /\ m.excluded = l.excluded /\ m.attempt = l.attempt
          /\ m.cut = l.cut
    BY <2>2 DEF LocalType, Ready
  <2>4. pc' = [pc EXCEPT ![c] = "identify"] /\ local' = [local EXCEPT ![c] = m]
    BY <1>4 DEF Request
  <2>5. pc'[c] = "identify" /\ local'[c] = m /\ \A d \in Calls \ {c} : local'[d] = local[d]
    BY <2>4 DEF FailoverInv, FailoverTypeOK
  <2> HIDE DEF u, p, m
  <2>6. FailoverTypeOK' /\ CacheIsAlive'
    BY <2>2, <2>3, <2>4, TypeAfter DEF UnderWay
  <2>7. \A d \in Calls \ {c} :
          OwnProviders(d)' /\ Attempts(d)' /\ LossExplained(d)' /\ CutIsFatal(d)'
    BY <2>2, <2>3, <2>4, OthersKeepInv
  <2>8. ASSUME NEW q \in Known' \cup {local[d].active : d \in Calls \ {c}},
               q # None, q.by = c
        PROVE  CreatedBefore(c, q)' /\ q # p
    <3>1. q \in Providers
      BY <2>8 DEF Known, Shares, FailoverInv, FailoverTypeOK, LocalType
    <3>2. q.attempt < l.attempt \/ (q.attempt = l.attempt /\ q.url < k)
      BY <2>8 DEF Fresh
    <3>3. q.attempt \in Nat /\ q.url \in Nat /\ l.attempt \in Nat /\ u \in Nat
      BY <3>1, <1>1, <2>1 DEF Providers, Endpoints, Ready, LocalType
    <3> QED BY <3>2, <3>3, <2>2, <2>3, <2>5 DEF CreatedBefore
  <2>9. OwnProviders(c)'
    <3>1. None \notin Known'
      BY DEF Known
    <3>2. \A q \in Known' : q.by = c => CreatedBefore(c, q)'
      BY <3>1, <2>8
    <3>3. \A d \in Calls \ {c} : local'[d].active # None /\ local'[d].active.by = c =>
              CreatedBefore(c, local[d].active)'
      <4> SUFFICES ASSUME NEW d \in Calls \ {c}, local'[d].active # None, local'[d].active.by = c
                   PROVE  CreatedBefore(c, local[d].active)'
        OBVIOUS
      <4>1. local'[d].active = local[d].active
        BY <2>5
      <4> QED BY <4>1, <2>8 DEF CreatedBefore
    <3> QED BY <3>2, <3>3, <2>2, <2>3, <2>5 DEF OwnProviders
  <2>10. Attempts(c)'
    BY <2>1, <2>2, <2>3, <2>5 DEF Attempts, Ready, Remaining
  <2>11. p \notin destroyed'
    <3>1. p # None /\ None \notin destroyed'
      BY <2>2 DEF Shares
    <3> QED BY <3>1, <2>2, <2>8 DEF Known
  <2>12. LossExplained(c)'
    <3>1. ASSUME NEW v \in 1..(u - 1) PROVE v \in faulted'[c]
      <4>1. v \in Endpoints /\ v < u
        BY <1>1, <2>1 DEF Endpoints
      <4> QED BY <4>1, <2>1 DEF Remaining, Endpoints, Ready
    <3> QED BY <3>1, <2>2, <2>3, <2>5, <2>11 DEF LossExplained, Ready
  <2>13. CutIsFatal(c)'
    BY <2>3, <2>5 DEF CutIsFatal, Ready
  <2> QED BY <2>6, <2>7, <2>9, <2>10, <2>12, <2>13 DEF FailoverInv
<1> QED BY <1>3, <1>4 DEF TryCandidates

\* A call that asks for a working provider.
LEMMA FindWorkingProviderInv ==
    ASSUME FailoverInv, NEW c \in Calls, Shares(c), NEW l, Ready(c, l), Fresh(c, l, 1),
           FindWorkingProvider(c, l)
    PROVE  FailoverInv'
<1>1. CASE TryCandidates(c, l, 1)
  BY <1>1, TryCandidatesInv
<1>2. CASE Reusable(l) /\ Request(c, "recheck", l, cache')
  <2> DEFINE m == [l EXCEPT !.active = cache', !.usable = cache' \notin destroyed']
  <2>1. cache' \in Providers /\ cache' \notin destroyed' /\ cache'.url \notin l.excluded
    BY <1>2 DEF Reusable, Shares
  <2>2. m \in LocalType /\ m.active = cache' /\ m.excluded = l.excluded
          /\ m.attempt = l.attempt /\ m.cut = l.cut
    BY <2>1 DEF LocalType, Ready
  <2>3. pc' = [pc EXCEPT ![c] = "recheck"] /\ local' = [local EXCEPT ![c] = m]
    BY <1>2 DEF Request
  <2>4. pc'[c] = "recheck" /\ local'[c] = m /\ \A d \in Calls \ {c} : local'[d] = local[d]
    BY <2>3 DEF FailoverInv, FailoverTypeOK
  <2> HIDE DEF m
  <2>5. FailoverTypeOK' /\ CacheIsAlive'
    BY <2>1, <2>2, <2>3, TypeAfter DEF UnderWay
  <2>6. \A d \in Calls \ {c} :
          OwnProviders(d)' /\ Attempts(d)' /\ LossExplained(d)' /\ CutIsFatal(d)'
    BY <2>2, <2>3, OthersKeepInv
  <2>7. ASSUME NEW q \in Known' \cup {local[d].active : d \in Calls \ {c}},
               q # None, q.by = c
        PROVE  CreatedBefore(c, q)'
    <3>1. q \in Providers
      BY <2>7 DEF Known, Shares, FailoverInv, FailoverTypeOK, LocalType
    <3>2. q.attempt < l.attempt
      BY <2>7, <3>1 DEF Fresh, Providers, Endpoints
    <3> QED BY <3>2, <2>2, <2>4 DEF CreatedBefore
  <2>8. OwnProviders(c)'
    <3>1. None \notin Known' /\ cache' \in Known'
      BY <2>1 DEF Known
    <3>2. \A q \in Known' : q.by = c => CreatedBefore(c, q)'
      BY <3>1, <2>7
    <3>3. ASSUME NEW d \in Calls, local'[d].active # None, local'[d].active.by = c
          PROVE  CreatedBefore(c, local[d].active)'
      <4>1. CASE d = c
        BY <4>1, <3>1, <3>2, <3>3, <2>2, <2>4 DEF CreatedBefore
      <4>2. CASE d # c
        <5>1. local'[d].active = local[d].active
          BY <4>2, <2>4
        <5> QED BY <4>2, <5>1, <3>3, <2>7 DEF CreatedBefore
      <4> QED BY <4>1, <4>2
    <3> QED BY <3>2, <3>3, <2>4 DEF OwnProviders
  <2>9. Attempts(c)'
    BY <2>1, <2>2, <2>4 DEF Attempts, Ready
  <2>10. LossExplained(c)'
    BY <2>1, <2>2, <2>4 DEF LossExplained, Ready
  <2>11. CutIsFatal(c)'
    BY <2>2, <2>4 DEF CutIsFatal, Ready
  <2> QED BY <2>5, <2>6, <2>8, <2>9, <2>10, <2>11 DEF FailoverInv
<1> QED BY <1>1, <1>2 DEF FindWorkingProvider

\* A call that goes on with the provider it has: the result of a request changes nothing that
\* other calls can see, except that a provider that works becomes the cached one.
LEMMA RequestInv ==
    ASSUME FailoverInv, NEW c \in Calls, Shares(c), pc[c] \in UnderWay,
           NEW x \in Inspecting \cup {"answered"},
           NEW l \in {local[c], [local[c] EXCEPT !.cut = TRUE]},
           l.cut => local[c].active \in destroyed' /\ x # "answered",
           Request(c, x, l, local[c].active)
    PROVE  FailoverInv'
<1> DEFINE p == local[c].active
           m == [l EXCEPT !.active = p, !.usable = p \notin destroyed']
<1>1. local[c] \in LocalType /\ p \in Providers /\ p # None
  BY DEF FailoverInv, FailoverTypeOK
<1>2. m \in LocalType /\ m.active = p /\ m.excluded = local[c].excluded
        /\ m.attempt = local[c].attempt /\ m.cut = l.cut /\ m.usable = (p \notin destroyed')
  BY <1>1 DEF LocalType
<1>3. pc' = [pc EXCEPT ![c] = x] /\ local' = [local EXCEPT ![c] = m]
  BY DEF Request
<1>4. pc'[c] = x /\ local'[c] = m /\ \A d \in Calls \ {c} : local'[d] = local[d]
  BY <1>3 DEF FailoverInv, FailoverTypeOK
<1> HIDE DEF m
<1>5. FailoverTypeOK' /\ CacheIsAlive'
  BY <1>1, <1>2, <1>3, TypeAfter DEF UnderWay, Inspecting, Tolerated
<1>6. \A d \in Calls \ {c} :
          OwnProviders(d)' /\ Attempts(d)' /\ LossExplained(d)' /\ CutIsFatal(d)'
  BY <1>2, <1>3, OthersKeepInv
<1>7. x \notin {"idle", "recheck", "identify", "failed"}
  BY DEF Inspecting, Tolerated
<1>8. ASSUME NEW q \in Known' \cup {local[d].active : d \in Calls}, q # None, q.by = c
      PROVE  CreatedBefore(c, q)'
  <2>1. CreatedBefore(c, q) \/ q = p
    BY <1>8 DEF FailoverInv, OwnProviders, Shares
  <2>2. p.by = c => p.attempt <= local[c].attempt
    BY <1>1 DEF FailoverInv, OwnProviders, CreatedBefore, LocalType, Providers
  <2>3. q \in Providers
    BY <1>8, <1>1 DEF Known, Shares, FailoverInv, FailoverTypeOK, LocalType
  <2>4. q.attempt <= local[c].attempt /\ q.attempt \in Nat /\ local[c].attempt \in Nat
    BY <2>1, <2>2, <2>3, <1>1, <1>8 DEF CreatedBefore, LocalType, Providers
  <2> QED BY <2>4, <1>2, <1>4, <1>7 DEF CreatedBefore
<1>9. OwnProviders(c)'
  <2>1. None \notin Known'
    BY DEF Known
  <2>2. \A q \in Known' : q.by = c => CreatedBefore(c, q)'
    BY <2>1, <1>8
  <2>3. ASSUME NEW d \in Calls, local'[d].active # None, local'[d].active.by = c
        PROVE  CreatedBefore(c, local[d].active)'
    <3>1. local'[d].active = local[d].active
      BY <1>2, <1>4
    <3> QED BY <3>1, <2>3, <1>8 DEF CreatedBefore
  <2> QED BY <2>2, <2>3, <1>4, <1>7 DEF OwnProviders
<1>10. Attempts(c)'
  BY <1>2, <1>4 DEF Attempts, FailoverInv, UnderWay
<1>11. LossExplained(c)'
  <2>1. local[c].excluded \subseteq faulted'[c]
    BY DEF FailoverInv, LossExplained, Shares
  <2> QED BY <2>1, <1>2, <1>4, <1>7 DEF LossExplained, Shares
<1>12. CutIsFatal(c)'
  BY <1>2, <1>4, <1>7 DEF CutIsFatal
<1> QED BY <1>5, <1>6, <1>9, <1>10, <1>11, <1>12 DEF FailoverInv

-----------------------------------------------------------------------------
(* The actions                                                              *)

\* A request fails, and the provider is destroyed or left alone: whoever uses it has seen a
\* fault of its endpoint, now or when it was destroyed.
LEMMA FailureShares ==
    ASSUME FailoverInv, NEW c \in Calls, pc[c] \in UnderWay, Fails(c),
           destroyed' \in {destroyed, destroyed \cup {local[c].active}},
           cache' \in {cache, None}, cache' \notin destroyed'
    PROVE  Shares(c) /\ local[c].active.url \in faulted'[c]
<1> DEFINE p == local[c].active
<1>1. p \in Providers /\ p.url \in Endpoints /\ p # None
  BY DEF FailoverInv, FailoverTypeOK, Providers
<1>2. faulted \in [Calls -> SUBSET Endpoints]
  BY DEF FailoverInv, FailoverTypeOK
<1>3. /\ faulted' \in [Calls -> SUBSET Endpoints]
      /\ \A d \in Calls : faulted[d] \subseteq faulted'[d]
  BY <1>1, <1>2 DEF Fails
<1>4. \A d \in Calls : pc[d] \in UnderWay /\ local[d].active \in destroyed =>
          local[d].active.url \in faulted'[d]
  BY <1>3 DEF FailoverInv, LossExplained
<1>5. ASSUME NEW d \in Calls, pc[d] \in UnderWay, local[d].active = p
      PROVE  p.url \in faulted'[d]
  <2>1. CASE p \in destroyed
    BY <2>1, <1>4, <1>5
  <2>2. CASE p \notin destroyed
    BY <2>2, <1>2, <1>5 DEF Fails
  <2> QED BY <2>1, <2>2
<1>6. destroyed \subseteq destroyed' /\ destroyed' \subseteq Providers
        /\ cache' \in Providers \cup {None}
  BY <1>1 DEF FailoverInv, FailoverTypeOK
<1>7. \A q \in Known' : q \in Known \/ q = p
  BY DEF Known
<1>8. \A d \in Calls : pc[d] \in UnderWay /\ local[d].active \in destroyed' =>
          local[d].active.url \in faulted'[d]
  BY <1>4, <1>5
<1> QED BY <1>3, <1>5, <1>6, <1>7, <1>8 DEF Shares

\* invalidateProvider never leaves the provider in the cache.
LEMMA InvalidateClears ==
    ASSUME FailoverInv, NEW p \in Providers, InvalidateProvider(p)
    PROVE  /\ cache' \in {cache, None} /\ cache' \notin destroyed'
           /\ destroyed' = destroyed \cup {p}
<1>1. cache \notin destroyed /\ None \notin destroyed /\ None # p
  BY DEF FailoverInv, FailoverTypeOK, CacheIsAlive
<1> QED BY <1>1 DEF InvalidateProvider, EntryAfter, DestroyedWith

\* A step that changes nothing the calls share.
LEMMA QuietShares ==
    ASSUME FailoverInv, NEW c \in Calls, UNCHANGED <<cache, destroyed, faulted>>
    PROVE  Shares(c)
BY DEF FailoverInv, FailoverTypeOK, CacheIsAlive, LossExplained, Shares, Known

\* Nothing is known of a call before it starts.
LEMMA StartInv == ASSUME FailoverInv, NEW c \in Calls, Start(c) PROVE FailoverInv'
<1>1. Shares(c)
  BY QuietShares DEF Start
<1>2. Ready(c, Blank)
  BY FS_EmptySet DEF Ready, Blank, LocalType
<1>3. Fresh(c, Blank, 1)
  BY DEF Fresh, Start, FailoverInv, OwnProviders, Shares, Known
<1> QED BY <1>1, <1>2, <1>3, FindWorkingProviderInv DEF Start

\* The cached provider is on the right chain.
LEMMA CachedWorksInv == ASSUME FailoverInv, NEW c \in Calls, CachedWorks(c) PROVE FailoverInv'
<1>1. Shares(c)
  BY QuietShares DEF CachedWorks
<1>2. pc[c] \in UnderWay /\ ~ local[c].cut /\ "pin" \in Inspecting
  BY DEF CachedWorks, FailoverInv, CutIsFatal, Answered, UnderWay, Inspecting
<1> QED BY <1>1, <1>2, RequestInv DEF CachedWorks

\* A call that waits for eth_chainId is ready to go on, and so is one that excludes its endpoint.
LEMMA ReadyAgain ==
    ASSUME FailoverInv, NEW c \in Calls, pc[c] \in {"recheck", "identify"}, Shares(c)
    PROVE  Ready(c, local[c])
<1>1. pc[c] \in UnderWay
  BY DEF UnderWay
<1>2. local[c].excluded \subseteq faulted[c] /\ faulted[c] \subseteq faulted'[c]
  BY <1>1 DEF FailoverInv, LossExplained, Shares
<1> QED BY <1>1, <1>2 DEF FailoverInv, FailoverTypeOK, Attempts, CutIsFatal, Ready

\* The cached provider fails, perhaps because another call has destroyed it.
LEMMA CachedFailsInv ==
    ASSUME FailoverInv, NEW c \in Calls, CachedFails(c) PROVE FailoverInv'
<1>1. pc[c] \in UnderWay /\ pc[c] = "recheck" /\ local[c].active \in Providers
  BY DEF CachedFails, UnderWay, FailoverInv, FailoverTypeOK
<1>2. Shares(c)
  BY <1>1, InvalidateClears, FailureShares DEF CachedFails
<1>3. Ready(c, local[c])
  BY <1>1, <1>2, ReadyAgain
<1>4. Fresh(c, local[c], 1)
  BY <1>1, <1>2 DEF Fresh, Shares, FailoverInv, OwnProviders, CreatedBefore
<1> QED BY <1>2, <1>3, <1>4, TryCandidatesInv DEF CachedFails

\* A new provider is on the right chain and becomes the cached one.
LEMMA CandidateWorksInv ==
    ASSUME FailoverInv, NEW c \in Calls, CandidateWorks(c) PROVE FailoverInv'
<1> DEFINE p == local[c].active
<1>1. pc[c] = "identify" /\ pc[c] \in UnderWay /\ p \in Providers /\ p # None
  BY DEF CandidateWorks, UnderWay, FailoverInv, FailoverTypeOK
<1>2. p \notin destroyed
  <2>1. p.by = c /\ p.attempt = local[c].attempt /\ p.attempt \in Nat /\ p.url \in Nat
    BY <1>1 DEF FailoverInv, OwnProviders, Providers, Endpoints
  <2>2. ~ CreatedBefore(c, p)
    BY <1>1, <2>1 DEF CreatedBefore
  <2> QED BY <1>1, <2>1, <2>2 DEF FailoverInv, OwnProviders, Known
<1>3. Shares(c)
  BY <1>1, <1>2 DEF CandidateWorks, Shares, Known, FailoverInv, FailoverTypeOK, LossExplained
<1>4. ~ local[c].cut /\ "pin" \in Inspecting
  BY <1>1 DEF FailoverInv, CutIsFatal, Inspecting
<1> QED BY <1>1, <1>3, <1>4, RequestInv DEF CandidateWorks

\* A new provider fails, and the loop goes on.
LEMMA CandidateFailsInv ==
    ASSUME FailoverInv, NEW c \in Calls, CandidateFails(c) PROVE FailoverInv'
<1> DEFINE p == local[c].active
<1>1. pc[c] = "identify" /\ pc[c] \in UnderWay /\ p \in Providers /\ p # None
  BY DEF CandidateFails, UnderWay, FailoverInv, FailoverTypeOK
<1>2. p.by = c /\ p.attempt = local[c].attempt /\ p.url \in Nat \ {0}
  BY <1>1 DEF FailoverInv, OwnProviders, Providers, Endpoints
<1>3. cache # p
  BY <1>1, <1>2 DEF FailoverInv, OwnProviders, CreatedBefore, Known, Providers
<1>4. Shares(c) /\ p.url \in faulted'[c]
  BY <1>1, <1>3, FailureShares DEF CandidateFails, FailoverInv, CacheIsAlive
<1>5. Ready(c, local[c])
  BY <1>1, <1>4, ReadyAgain
<1>6. Fresh(c, local[c], p.url + 1)
  <2> SUFFICES ASSUME NEW q \in Known' \cup {local[d].active : d \in Calls \ {c}},
                      q # None, q.by = c
               PROVE  q.attempt < local[c].attempt
                        \/ (q.attempt = local[c].attempt /\ q.url < p.url + 1)
    BY DEF Fresh
  <2>1. q = p \/ CreatedBefore(c, q)
    BY <1>1, <1>4 DEF Shares, FailoverInv, OwnProviders
  <2>2. q \in Providers
    BY <1>4 DEF Known, Shares, FailoverInv, FailoverTypeOK, LocalType
  <2> QED BY <1>1, <1>2, <2>1, <2>2 DEF CreatedBefore, Providers, Endpoints
<1>7. 1..(p.url + 1 - 1) \subseteq faulted'[c]
  <2>1. 1..(p.url - 1) \subseteq faulted'[c]
    BY <1>1, <1>4 DEF FailoverInv, LossExplained, Shares
  <2>2. \A u \in 1..(p.url + 1 - 1) : u = p.url \/ u \in 1..(p.url - 1)
    BY <1>2
  <2> QED BY <2>1, <2>2, <1>4
<1> QED BY <1>2, <1>4, <1>5, <1>6, <1>7, TryCandidatesInv DEF CandidateFails

\* A request of the inspection is answered; after a cut result there is no such answer.
LEMMA ProceedInv == ASSUME FailoverInv, NEW c \in Calls, Proceed(c) PROVE FailoverInv'
<1>1. Shares(c)
  BY QuietShares DEF Proceed
<1>2. pc[c] \in UnderWay /\ ~ local[c].cut
  BY DEF Proceed, FailoverInv, CutIsFatal, Answered, UnderWay
<1>3. After[pc[c]] \in Inspecting \cup {"answered"}
  BY DEF Proceed, After, Inspecting, Tolerated
<1> QED BY <1>1, <1>2, <1>3, RequestInv DEF Proceed

\* A failure that becomes part of the result.
LEMMA NoteInv == ASSUME FailoverInv, NEW c \in Calls, Note(c) PROVE FailoverInv'
<1> DEFINE p == local[c].active
           l == [local[c] EXCEPT !.cut = @ \/ p \in destroyed]
           x == After[pc[c]]
<1>1. pc[c] \in UnderWay /\ local[c] \in LocalType
  BY DEF Note, Inspecting, UnderWay, FailoverInv, FailoverTypeOK
<1>2. Shares(c)
  BY QuietShares DEF Note
<1>3. x \in Inspecting /\ x # "answered"
  BY DEF Note, After, Inspecting, Tolerated
<1>4. l \in {local[c], [local[c] EXCEPT !.cut = TRUE]}
  BY <1>1 DEF LocalType
<1>5. l.cut => p \in destroyed'
  BY <1>1 DEF Note, FailoverInv, CutIsFatal, LocalType
<1>6. Request(c, x, l, p)
  BY DEF Note
<1> HIDE DEF l, x
<1> QED BY <1>1, <1>2, <1>3, <1>4, <1>5, <1>6, RequestInv

\* The inspection throws: the endpoint is excluded, the provider destroyed, and the next
\* attempt begins, if there is one left.
LEMMA InspectionFailsInv ==
    ASSUME FailoverInv, NEW c \in Calls, InspectionFails(c) PROVE FailoverInv'
<1> DEFINE p == local[c].active
           l == [local[c] EXCEPT !.excluded = @ \cup {p.url}, !.attempt = @ + 1, !.cut = FALSE]
<1>1. pc[c] \in UnderWay /\ pc[c] \notin {"idle", "identify", "recheck"}
        /\ local[c] \in LocalType /\ p \in Providers
  BY DEF InspectionFails, Inspecting, Tolerated, UnderWay, FailoverInv, FailoverTypeOK
<1>2. Shares(c) /\ p.url \in faulted'[c]
  BY <1>1, InvalidateClears, FailureShares DEF InspectionFails
<1>3. /\ l \in LocalType /\ ~ l.cut /\ l.attempt = local[c].attempt + 1
      /\ l.excluded = local[c].excluded \cup {p.url}
  <2>1. local[c].excluded \cup {p.url} \in SUBSET Endpoints /\ local[c].attempt + 1 \in Nat
    BY <1>1 DEF LocalType, Providers
  <2> QED BY <1>1, <2>1 DEF LocalType
<1>4. l.excluded \subseteq faulted'[c]
  BY <1>1, <1>2, <1>3 DEF FailoverInv, LossExplained, Shares
<1>5. IsFiniteSet(Endpoints) /\ Cardinality(Endpoints) = N
  BY FS_Interval DEF Endpoints
<1>6. l.attempt = Cardinality(l.excluded)
  <2>1. IsFiniteSet(local[c].excluded) /\ p.url \notin local[c].excluded
          /\ local[c].attempt = Cardinality(local[c].excluded)
    BY <1>1, <1>5, FS_Subset DEF LocalType, FailoverInv, Attempts
  <2> QED BY <2>1, <1>3, FS_AddElement
<1>7. Fresh(c, l, 1)
  <2> SUFFICES ASSUME NEW q \in Known' \cup {local[d].active : d \in Calls \ {c}},
                      q # None, q.by = c
               PROVE  q.attempt < l.attempt
    BY DEF Fresh
  <2>1. CreatedBefore(c, q)
    BY <1>1, <1>2 DEF Shares, FailoverInv, OwnProviders
  <2>2. q \in Providers
    BY <1>2 DEF Known, Shares, FailoverInv, FailoverTypeOK, LocalType
  <2> QED BY <1>1, <1>3, <2>1, <2>2 DEF CreatedBefore, Providers, LocalType
<1>8. CASE l.attempt < N /\ FindWorkingProvider(c, l)
  <2>1. Ready(c, l)
    BY <1>3, <1>4, <1>6, <1>8 DEF Ready
  <2> HIDE DEF l
  <2> QED BY <2>1, <1>2, <1>7, <1>8, FindWorkingProviderInv
<1>9. CASE l.attempt = N /\ GiveUp(c)
  <2> HIDE DEF l
  <2>1. l.excluded = Endpoints
    <3>1. l.excluded \in SUBSET Endpoints /\ Cardinality(l.excluded) = Cardinality(Endpoints)
      BY <1>3, <1>5, <1>6, <1>9 DEF LocalType
    <3> QED BY <3>1, <1>5, FS_Subset
  <2>2. faulted'[c] = Endpoints
    BY <2>1, <1>2, <1>4 DEF Shares
  <2> QED BY <2>2, <1>2, <1>9, GiveUpInv
<1> QED BY <1>8, <1>9 DEF InspectionFails

-----------------------------------------------------------------------------
(* Theorems                                                                 *)

\* FailoverInv holds throughout.
THEOREM FailoverInvariance == FailoverSpec => []FailoverInv
<1>1. FailoverInit => FailoverInv
  <2> SUFFICES ASSUME FailoverInit PROVE FailoverInv
    OBVIOUS
  <2>1. FailoverTypeOK
    BY DEF FailoverInit, FailoverTypeOK, Blank, LocalType, UnderWay, Inspecting, Tolerated
  <2>2. CacheIsAlive
    BY DEF FailoverInit, CacheIsAlive
  <2>3. ASSUME NEW c \in Calls
        PROVE  OwnProviders(c) /\ Attempts(c) /\ LossExplained(c) /\ CutIsFatal(c)
    BY DEF FailoverInit, Blank, OwnProviders, Known, Attempts, LossExplained, CutIsFatal,
           UnderWay, Inspecting, Tolerated
  <2> QED BY <2>1, <2>2, <2>3 DEF FailoverInv
<1>2. FailoverInv /\ [FailoverNext]_failoverVars => FailoverInv'
  <2> SUFFICES ASSUME FailoverInv, [FailoverNext]_failoverVars PROVE FailoverInv'
    OBVIOUS
  <2>1. ASSUME NEW c \in Calls,
               \/ Start(c) \/ CachedWorks(c) \/ CachedFails(c) \/ CandidateWorks(c)
               \/ CandidateFails(c) \/ Proceed(c) \/ Note(c) \/ InspectionFails(c)
        PROVE  FailoverInv'
    BY <2>1, StartInv, CachedWorksInv, CachedFailsInv, CandidateWorksInv, CandidateFailsInv,
       ProceedInv, NoteInv, InspectionFailsInv
  <2>2. CASE UNCHANGED failoverVars
    BY <2>2 DEF failoverVars, FailoverInv, FailoverTypeOK, CacheIsAlive, OwnProviders, Known,
                CreatedBefore, Attempts, LossExplained, CutIsFatal
  <2> QED BY <2>1, <2>2 DEF FailoverNext
<1> QED BY <1>1, <1>2, PTL DEF FailoverSpec

\* Every state is well typed; only a call under way has a provider for certain.
THEOREM FailoverTypeCorrect == FailoverSpec => []FailoverTypeOK
BY FailoverInvariance, PTL DEF FailoverInv

\* For any number of calls and candidates, a call that starts never gets a destroyed provider.
THEOREM CacheStaysAlive == FailoverSpec => []CacheIsAlive
BY FailoverInvariance, PTL DEF FailoverInv

\* A call fails only when every endpoint has failed by itself while the call was under way.
THEOREM FailureNeedsEveryEndpoint == FailoverSpec => []FailsOnlyIfEveryEndpointFailed
<1>1. FailoverInv => FailsOnlyIfEveryEndpointFailed
  BY DEF FailoverInv, LossExplained, FailsOnlyIfEveryEndpointFailed
<1> QED BY <1>1, FailoverInvariance, PTL

\* No result reports, as a finding about the transaction, that the provider was destroyed.
THEOREM ResultsAreWhole == FailoverSpec => []ResultsAreNotCut
<1>1. FailoverInv => ResultsAreNotCut
  BY DEF FailoverInv, CutIsFatal, ResultsAreNotCut
<1> QED BY <1>1, FailoverInvariance, PTL

\* No call inspects twice with one endpoint.
THEOREM ExcludedForGood == FailoverSpec => []ExcludedStaysExcluded
<1>1. FailoverInv => ExcludedStaysExcluded
  BY DEF FailoverInv, Attempts, ExcludedStaysExcluded
<1> QED BY <1>1, FailoverInvariance, PTL

-----------------------------------------------------------------------------
(* A call runs out of requests                                              *)

\* The most requests of one attempt.
Round == 7 + N

\* What an attempt more is worth.
LEMMA RoundMore ==
    ASSUME NEW a \in Nat, NEW b \in Nat, a < b
    PROVE  /\ a * Round \in Nat /\ b * Round \in Nat
           /\ a * Round + Round <= b * Round
<1> Round \in Nat
  BY DEF Round
<1> HIDE DEF Round
<1>1. PICK k \in Nat : b = a + 1 + k
  <2>1. b - a - 1 \in Nat /\ b = a + 1 + (b - a - 1)
    OBVIOUS
  <2> QED BY <2>1
<1>2. b * Round = a * Round + Round + k * Round
  BY <1>1
<1>3. k * Round \in Nat /\ a * Round \in Nat /\ b * Round \in Nat
  OBVIOUS
<1> QED BY <1>2, <1>3

\* The requests left at each label.
LEMMA RequestsAtLabel ==
    ASSUME NEW l
    PROVE  /\ RequestsFrom("recheck", l) = 7 + N
           /\ RequestsFrom("identify", l) = 7 + N - l.active.url
           /\ RequestsFrom("pin", l) = 6 /\ RequestsFrom("read", l) = 5
           /\ RequestsFrom("simulate", l) = 4 /\ RequestsFrom("estimate", l) = 3
           /\ RequestsFrom("proxy", l) = 2 /\ RequestsFrom("confirm", l) = 1
  BY DEF RequestsFrom

\* The steps left, outside of an attempt and in one.
LEMMA StepsAtLabel ==
    ASSUME NEW l
    PROVE  /\ StepsFrom("idle", l) = N * Round + 1
           /\ StepsFrom("answered", l) = 0 /\ StepsFrom("failed", l) = 0
           /\ \A x \in UnderWay :
                 StepsFrom(x, l) = (N - 1 - l.attempt) * Round + RequestsFrom(x, l)
  BY DEF StepsFrom, Round, UnderWay, Inspecting, Tolerated

\* In an attempt there is a request to make, and what is left is of this attempt and the next.
LEMMA AttemptSteps ==
    ASSUME NEW x \in UnderWay, NEW l \in LocalType, l.active \in Providers, l.attempt < N
    PROVE  /\ N - 1 - l.attempt \in Nat /\ N - l.attempt \in Nat
           /\ (N - 1 - l.attempt) * Round \in Nat
           /\ StepsFrom(x, l) \in Nat
           /\ (N - 1 - l.attempt) * Round < StepsFrom(x, l)
<1>1. l.active.url \in 1..N /\ l.attempt \in Nat
  BY DEF Providers, Endpoints, LocalType
<1>2. N - 1 - l.attempt \in Nat /\ N - l.attempt \in Nat
  BY <1>1
<1>3. (N - 1 - l.attempt) * Round \in Nat
  BY <1>2, RoundMore
<1>4. RequestsFrom(x, l) \in Nat /\ RequestsFrom(x, l) > 0
  BY <1>1, RequestsAtLabel DEF UnderWay, Inspecting, Tolerated
<1>5. StepsFrom(x, l) = (N - 1 - l.attempt) * Round + RequestsFrom(x, l)
  BY StepsAtLabel
<1> HIDE DEF StepsFrom, Round
<1> QED BY <1>2, <1>3, <1>4, <1>5

\* Call c alone goes on, with fewer than n steps left.
Below(c, n) ==
    \E x, m : /\ pc' = [pc EXCEPT ![c] = x]
              /\ local' = [local EXCEPT ![c] = m]
              /\ StepsFrom(x, m) < n

\* A call that gives up has none left.
LEMMA GiveUpSteps ==
    ASSUME NEW c \in Calls, GiveUp(c), NEW n \in Nat, n > 0
    PROVE  Below(c, n)
  BY StepsAtLabel DEF GiveUp, Below

\* From candidate k on there are the candidates from k on to ask, and an inspection.
LEMMA TryCandidatesSteps ==
    ASSUME NEW c \in Calls, NEW l \in LocalType, l.attempt < N, NEW k \in Nat \ {0},
           TryCandidates(c, l, k), NEW n \in Nat, n > 0,
           k <= N => (N - 1 - l.attempt) * Round + 7 + N - k < n
    PROVE  Below(c, n)
<1>1. CASE Remaining(l, k) = {} /\ GiveUp(c)
  BY <1>1, GiveUpSteps
<1>2. CASE Remaining(l, k) # {} /\ Request(c, "identify", l,
               [by |-> c, attempt |-> l.attempt, url |-> Min(Remaining(l, k))])
  <2> DEFINE u == Min(Remaining(l, k))
             p == [by |-> c, attempt |-> l.attempt, url |-> u]
             m == [l EXCEPT !.active = p, !.usable = p \notin destroyed']
  <2>1. Remaining(l, k) \in SUBSET Endpoints
    BY DEF Remaining, Endpoints
  <2>2. u \in Remaining(l, k)
    BY <1>2, <2>1, LeastRemaining DEF Min
  <2>3. u \in Nat /\ k <= u /\ u <= N
    BY <2>2 DEF Remaining
  <2>4. m.active.url = u /\ m.attempt = l.attempt
    BY DEF LocalType
  <2>5. StepsFrom("identify", m) = (N - 1 - l.attempt) * Round + (7 + N - u)
    <3> HIDE DEF m, u
    <3> QED BY <2>4, StepsAtLabel, RequestsAtLabel DEF UnderWay
  <2>6. (N - 1 - l.attempt) * Round \in Nat
    BY RoundMore DEF LocalType
  <2>7. StepsFrom("identify", m) < n
    <3> HIDE DEF m, u, Round
    <3> QED BY <2>3, <2>5, <2>6
  <2>8. pc' = [pc EXCEPT ![c] = "identify"] /\ local' = [local EXCEPT ![c] = m]
    BY <1>2 DEF Request
  <2> HIDE DEF m
  <2> QED BY <2>7, <2>8 DEF Below
<1> QED BY <1>1, <1>2 DEF TryCandidates

\* An attempt begins with no more than a whole round.
LEMMA FindWorkingProviderSteps ==
    ASSUME NEW c \in Calls, NEW l \in LocalType, l.attempt < N, FindWorkingProvider(c, l),
           NEW n \in Nat, (N - l.attempt) * Round < n
    PROVE  Below(c, n)
<1>1. l.attempt \in Nat /\ N - 1 - l.attempt \in Nat /\ N - l.attempt \in Nat
  BY DEF LocalType
<1>2. /\ (N - 1 - l.attempt) * Round \in Nat
      /\ (N - 1 - l.attempt) * Round + Round <= (N - l.attempt) * Round
      /\ (N - l.attempt) * Round \in Nat
  BY <1>1, RoundMore
<1>3. (N - 1 - l.attempt) * Round + 7 + N < n
  <2>1. Round = 7 + N
    BY DEF Round
  <2> HIDE DEF Round
  <2> QED BY <1>2, <2>1
<1>4. CASE TryCandidates(c, l, 1)
  BY <1>2, <1>3, <1>4, TryCandidatesSteps
<1>5. CASE Request(c, "recheck", l, cache')
  <2> DEFINE m == [l EXCEPT !.active = cache', !.usable = cache' \notin destroyed']
  <2>1. m.attempt = l.attempt
    BY DEF LocalType
  <2>2. pc' = [pc EXCEPT ![c] = "recheck"] /\ local' = [local EXCEPT ![c] = m]
    BY <1>5 DEF Request
  <2> HIDE DEF m
  <2>3. StepsFrom("recheck", m) = (N - 1 - l.attempt) * Round + (7 + N)
    BY <2>1, StepsAtLabel, RequestsAtLabel DEF UnderWay
  <2>4. StepsFrom("recheck", m) < n
    <3> HIDE DEF Round
    <3> QED BY <1>2, <1>3, <2>3
  <2> QED BY <2>2, <2>4 DEF Below
<1> QED BY <1>4, <1>5 DEF FindWorkingProvider

\* An answered request is one less.
LEMMA RequestSteps ==
    ASSUME NEW c \in Calls, NEW l \in LocalType, NEW p, NEW y \in UnderWay,
           NEW x \in Inspecting \cup {"answered"}, Request(c, x, l, p), l.attempt < N,
           l.active \in Providers,
           \/ y \in {"recheck", "identify"} /\ x = "pin"
           \/ y \in Inspecting /\ x = After[y]
    PROVE  Below(c, StepsFrom(y, l))
<1> DEFINE m == [l EXCEPT !.active = p, !.usable = p \notin destroyed']
<1>1. m.attempt = l.attempt
  BY DEF LocalType
<1>2. pc' = [pc EXCEPT ![c] = x] /\ local' = [local EXCEPT ![c] = m]
  BY DEF Request
<1>3. /\ (N - 1 - l.attempt) * Round \in Nat
      /\ (N - 1 - l.attempt) * Round < StepsFrom(y, l)
      /\ StepsFrom(y, l) \in Nat
  BY AttemptSteps
<1> HIDE DEF m
<1>4. StepsFrom(x, m) < StepsFrom(y, l)
  <2>1. CASE x = "answered"
    BY <2>1, <1>3, StepsAtLabel
  <2>2. CASE x \in Inspecting
    <3>1. /\ StepsFrom(x, m) = (N - 1 - l.attempt) * Round + RequestsFrom(x, m)
          /\ StepsFrom(y, l) = (N - 1 - l.attempt) * Round + RequestsFrom(y, l)
      BY <2>2, <1>1, StepsAtLabel DEF UnderWay
    <3>2. /\ RequestsFrom(x, m) < RequestsFrom(y, l)
          /\ RequestsFrom(x, m) \in Nat /\ RequestsFrom(y, l) \in Nat
      <4>1. l.active.url \in 1..N
        BY DEF Providers, Endpoints
      <4>2. CASE y \in {"recheck", "identify"} /\ x = "pin"
        BY <4>1, <4>2, RequestsAtLabel
      <4>3. CASE y \in Inspecting /\ x = After[y]
        BY <4>3, <2>2, RequestsAtLabel DEF After, Inspecting, Tolerated
      <4> QED BY <4>2, <4>3
    <3> HIDE DEF Round
    <3> QED BY <1>3, <3>1, <3>2
  <2> QED BY <2>1, <2>2
<1> QED BY <1>2, <1>4 DEF Below

\* Whichever step a call takes, it has fewer left.
LEMMA StepSteps ==
    ASSUME FailoverInv, NEW c \in Calls,
           \/ Start(c) \/ CachedWorks(c) \/ CachedFails(c) \/ CandidateWorks(c)
           \/ CandidateFails(c) \/ Proceed(c) \/ Note(c) \/ InspectionFails(c)
    PROVE  Below(c, StepsLeft(c)) /\ StepsLeft(c) \in Nat
<1> DEFINE l == local[c]
<1>1. local \in [Calls -> LocalType] /\ l \in LocalType
  BY DEF FailoverInv, FailoverTypeOK
<1>2. pc[c] \in UnderWay =>
          /\ l.active \in Providers /\ l.active.url \in Nat /\ l.attempt < N
          /\ l.attempt \in Nat
          /\ N - 1 - l.attempt \in Nat /\ N - l.attempt \in Nat
          /\ (N - 1 - l.attempt) * Round \in Nat /\ StepsLeft(c) \in Nat
          /\ (N - 1 - l.attempt) * Round < StepsLeft(c)
          /\ StepsLeft(c) = (N - 1 - l.attempt) * Round + RequestsFrom(pc[c], l)
  BY <1>1, AttemptSteps, StepsAtLabel
     DEF FailoverInv, FailoverTypeOK, Attempts, StepsLeft, Providers, Endpoints, LocalType
<1>3. CASE Start(c)
  <2>1. Blank \in LocalType /\ Blank.attempt = 0
    BY DEF Blank, LocalType
  <2>2. FindWorkingProvider(c, Blank) /\ StepsLeft(c) = N * Round + 1
    BY <1>3, StepsAtLabel DEF Start, StepsLeft
  <2>3. N * Round \in Nat
    BY RoundMore
  <2>4. (N - 0) * Round < StepsLeft(c) /\ StepsLeft(c) \in Nat
    <3>1. N - 0 = N
      OBVIOUS
    <3> HIDE DEF Round
    <3> QED BY <2>2, <2>3, <3>1
  <2> QED BY <2>1, <2>2, <2>4, FindWorkingProviderSteps
<1>4. CASE CachedWorks(c) \/ CandidateWorks(c)
  BY <1>1, <1>2, <1>4, RequestSteps
     DEF CachedWorks, CandidateWorks, StepsLeft, UnderWay, Inspecting
<1>5. CASE CachedFails(c)
  <2>1. pc[c] = "recheck" /\ pc[c] \in UnderWay /\ TryCandidates(c, l, 1)
    BY <1>5 DEF CachedFails, UnderWay
  <2>2. (N - 1 - l.attempt) * Round + 7 + N - 1 < StepsLeft(c) /\ StepsLeft(c) > 0
    <3> HIDE DEF Round, l
    <3> QED BY <1>2, <2>1, RequestsAtLabel
  <2> QED BY <1>1, <1>2, <2>1, <2>2, TryCandidatesSteps
<1>6. CASE CandidateFails(c)
  <2>1. pc[c] = "identify" /\ pc[c] \in UnderWay /\ TryCandidates(c, l, l.active.url + 1)
    BY <1>6 DEF CandidateFails, UnderWay
  <2>2. /\ (N - 1 - l.attempt) * Round + 7 + N - (l.active.url + 1) < StepsLeft(c)
        /\ StepsLeft(c) > 0 /\ l.active.url + 1 \in Nat \ {0}
    <3> HIDE DEF Round, l
    <3> QED BY <1>2, <2>1, RequestsAtLabel
  <2> QED BY <1>1, <1>2, <2>1, <2>2, TryCandidatesSteps
<1>7. CASE Proceed(c)
  <2>1. pc[c] \in Inspecting /\ pc[c] \in UnderWay /\ Request(c, After[pc[c]], l, l.active)
    BY <1>7 DEF Proceed, UnderWay
  <2>2. After[pc[c]] \in Inspecting \cup {"answered"}
    BY <2>1 DEF After, Inspecting, Tolerated
  <2> QED BY <1>1, <1>2, <2>1, <2>2, RequestSteps DEF StepsLeft
<1>8. CASE Note(c)
  <2> DEFINE k == [l EXCEPT !.cut = @ \/ l.active \in destroyed]
  <2>1. /\ pc[c] \in Inspecting /\ pc[c] \in UnderWay /\ pc[c] \notin {"recheck", "identify"}
        /\ Request(c, After[pc[c]], k, l.active)
    BY <1>8 DEF Note, UnderWay, Inspecting, Tolerated
  <2>2. After[pc[c]] \in Inspecting \cup {"answered"}
    BY <2>1 DEF After, Inspecting, Tolerated
  <2>3. k \in LocalType /\ k.active = l.active /\ k.attempt = l.attempt
    BY <1>1 DEF LocalType
  <2> HIDE DEF k
  <2>4. StepsFrom(pc[c], k) = StepsLeft(c)
    BY <2>1, <2>3, StepsAtLabel, RequestsAtLabel
       DEF StepsLeft, UnderWay, Inspecting, Tolerated
  <2>5. Below(c, StepsFrom(pc[c], k))
    BY <1>2, <2>1, <2>2, <2>3, RequestSteps
  <2> QED BY <1>2, <2>1, <2>4, <2>5
<1>9. CASE InspectionFails(c)
  <2> DEFINE k == [l EXCEPT !.excluded = @ \cup {l.active.url}, !.attempt = @ + 1, !.cut = FALSE]
  <2>1. /\ pc[c] \in UnderWay
        /\ \/ k.attempt < N /\ FindWorkingProvider(c, k)
           \/ k.attempt = N /\ GiveUp(c)
    BY <1>9 DEF InspectionFails, UnderWay
  <2>2. k \in LocalType /\ k.attempt = l.attempt + 1
    <3>1. l.excluded \cup {l.active.url} \in SUBSET Endpoints /\ l.attempt + 1 \in Nat
      BY <1>1, <1>2, <2>1 DEF LocalType, Providers
    <3> QED BY <1>1, <3>1 DEF LocalType
  <2> HIDE DEF k
  <2>3. N - k.attempt = N - 1 - l.attempt
    BY <1>2, <2>1, <2>2
  <2>4. (N - k.attempt) * Round < StepsLeft(c) /\ StepsLeft(c) \in Nat /\ StepsLeft(c) > 0
    <3> HIDE DEF Round, l
    <3> QED BY <1>2, <2>1, <2>3
  <2> QED BY <2>1, <2>2, <2>4, FindWorkingProviderSteps, GiveUpSteps
<1> QED BY <1>3, <1>4, <1>5, <1>6, <1>7, <1>8, <1>9

\* Every step is one of a call that then has fewer steps left, and leaves the others as many:
\* whatever inspections do to each other's providers, none goes on for ever, and each makes at
\* most N * (N + 7) requests.
THEOREM CallsAlwaysRunOut == FailoverSpec => CallsRunOut
<1> DEFINE RunsOut ==
        \E c \in Calls : /\ StepsLeft(c)' < StepsLeft(c)
                         /\ \A d \in Calls \ {c} : StepsLeft(d)' = StepsLeft(d)
<1>1. ASSUME FailoverInv, FailoverNext PROVE RunsOut
  <2>1. PICK c \in Calls :
           \/ Start(c) \/ CachedWorks(c) \/ CachedFails(c) \/ CandidateWorks(c)
           \/ CandidateFails(c) \/ Proceed(c) \/ Note(c) \/ InspectionFails(c)
    BY <1>1 DEF FailoverNext
  <2>2. Below(c, StepsLeft(c))
    BY <1>1, <2>1, StepSteps
  <2>3. PICK x, m : /\ pc' = [pc EXCEPT ![c] = x]
                    /\ local' = [local EXCEPT ![c] = m]
                    /\ StepsFrom(x, m) < StepsLeft(c)
    BY <2>2 DEF Below
  <2>4. pc \in [Calls -> {"idle", "answered", "failed"} \cup UnderWay] /\ local \in [Calls -> LocalType]
    BY <1>1 DEF FailoverInv, FailoverTypeOK
  <2>5. pc'[c] = x /\ local'[c] = m
    BY <2>3, <2>4
  <2>6. \A d \in Calls \ {c} : pc'[d] = pc[d] /\ local'[d] = local[d]
    BY <2>3, <2>4
  <2> QED BY <2>3, <2>5, <2>6 DEF StepsLeft
<1>2. ASSUME FailoverInv, [FailoverNext]_failoverVars PROVE [RunsOut]_failoverVars
  BY <1>1, <1>2
<1> QED BY <1>2, FailoverInvariance, PTL DEF FailoverSpec, CallsRunOut

=============================================================================
