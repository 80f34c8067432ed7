-------------------------- MODULE MCVerifiedPreflight --------------------------
(* Requests and snapshots of VerifiedPreflight for TLC: each set of requests     *)
(* varies one thing around a transaction that passes.                            *)
EXTENDS VerifiedPreflight

CONSTANTS u, t, v, x, y  \* sender, target, someone else; a plain contract and a clone

Call(selector, a, b, n, tail) ==
    [selector |-> selector, a |-> a, b |-> b, n |-> n, tail |-> tail]

Effect(action, asset, first, second, amount) ==
    [action |-> action, asset |-> asset, first |-> first, second |-> second,
     amount |-> amount]

Auth(effect) ==
    [chain |-> 1, sender |-> u, nonce |-> 1, validUntil |-> 2, code |-> x, target |-> t,
     effect |-> effect]

Mirror(auth, method) ==
    [chain |-> auth.chain, sender |-> auth.sender, nonce |-> auth.nonce,
     validUntil |-> auth.validUntil, code |-> auth.code, target |-> auth.target,
     method |-> method, effect |-> auth.effect]

Execution(auth) ==
    [chain |-> auth.chain, from |-> auth.sender, to |-> auth.target,
     data |-> SourceBinding(auth.effect).data, value |-> SourceBinding(auth.effect).value,
     nonce |-> auth.nonce]

Approve == Auth(Effect("approve", t, v, Zero, 1))
Pay     == Auth(Effect("native_transfer", Zero, t, Zero, 1))
Pull    == Auth(Effect("transferFrom", t, v, u, 2))

Lenient == [max |-> 2, allowed |-> {}, blocked |-> {}, strict |-> FALSE]

FeePolicies ==
    {[gasLimit |-> 3, unit |-> 4, priority |-> 2, total |-> 6],
     [gasLimit |-> 3, unit |-> 2, priority |-> 3, total |-> 6],
     [gasLimit |-> 3, unit |-> 4, priority |-> 0, total |-> 0]}

SomePolicy == CHOOSE p \in FeePolicies : p.total > 0 /\ p.priority < p.unit

Request(entry, level, auth, declared, tx, policy) ==
    [entry |-> entry, level |-> level, auth |-> auth, declared |-> declared, tx |-> tx,
     policy |-> policy, fee |-> [type |-> 2, gasLimit |-> 1, unit |-> 2, priority |-> 1],
     feePolicy |-> SomePolicy, published |-> 1, ingested |-> 1]

Levels == {"preflight", "intent", "verified"}

\* Every effect an owner can publish, executed as published.
Publications ==
    {Request(entry, "verified", a, Mirror(a, None), Execution(a), Lenient) :
        entry \in {"sdk", "signer"},
        a \in {[Auth(e) EXCEPT !.code = c] : c \in Codes, e \in {Effect(act, asset, first, second, n) :
                 act \in Actions, asset \in {Zero, t}, first \in {Zero, t, v},
                 second \in {Zero, v}, n \in {0, 1, MaxUint}}}}

Publishable == {r \in Publications : Fits(r.declared.effect) /\ r.tx.data \in Calldata}

\* Every calldata against every intent of the same method.
Calls ==
    {Empty, Call("other", v, Zero, 1, "exact")} \cup
    {Call(m, a, IF m = "transferFrom" THEN b ELSE Zero, n, tail) :
        m \in Methods, a \in {t, v}, b \in {u, v}, n \in 0 .. MaxUint,
        tail \in {"exact", "long", "broken"}}

Intents ==
    {e \in {Effect(act, asset, v, second, n) :
        act \in Actions, asset \in {Zero, t}, second \in {Zero, v}, n \in 0 .. MaxUint} : Fits(e)}

Matchings ==
    {Request("sdk", "intent", Approve, [Mirror(Approve, None) EXCEPT !.effect = e],
             [Execution(Approve) EXCEPT !.data = d, !.value = n], Lenient) :
        e \in Intents, d \in Calls, n \in {0, 1}}

SameMethod == {r \in Matchings : r.tx.data.selector \in {r.declared.effect.action, "none", "other"}}

\* Every envelope of a transaction, against an exact and against a loose intent.
Envelopes ==
    {Request("sdk", level, a, d,
             [chain |-> c, from |-> f, to |-> to, data |-> Execution(a).data,
              value |-> n, nonce |-> k], Lenient) :
        level \in {"intent", "verified"}, a \in {Approve, Pay},
        d \in {Mirror(Approve, "approve"), Mirror(Pay, None),
               [Mirror(Pay, None) EXCEPT !.sender = None, !.nonce = None]},
        c \in Chains, f \in {None, u, v}, to \in {t, v}, n \in {0, 1, MaxUint + 1},
        k \in {None, 1, 2}}

\* Every optional field of an intent.
Declarations ==
    {Request("sdk", "verified", a,
             [chain |-> c, sender |-> s, nonce |-> k, validUntil |-> until, code |-> h,
              target |-> t, method |-> m, effect |-> a.effect], Execution(a), Lenient) :
        a \in {Approve, Pay, Pull}, c \in Chains, s \in {None, u, v}, k \in {None, 1, 2},
        until \in {None, 2, MaxUint64 + 1}, h \in {None, x, y}, m \in {None, "approve"}}

\* Every policy.
Policies ==
    {Request("sdk", level, a, Mirror(a, None), [Execution(a) EXCEPT !.data = d],
             [max |-> max, allowed |-> allowed, blocked |-> blocked, strict |-> strict]) :
        level \in Levels, a \in {Approve, Pay},
        d \in {Execution(Approve).data, Empty, Call("other", v, Zero, 1, "exact"),
               Call("approve", v, Zero, MaxUint, "exact"), Call("transfer", v, Zero, 1, "long")},
        max \in {None, 0, 1}, allowed \in {{}, {t}, {v}}, blocked \in {{}, {t}},
        strict \in BOOLEAN}

\* Every fee, at and around the ceilings.
FeesAsked ==
    {[Request("signer", "verified", a, Mirror(a, None), Execution(a), [Lenient EXCEPT !.max = 1])
        EXCEPT !.fee = [type |-> type, gasLimit |-> gas, unit |-> unit, priority |-> tip],
               !.feePolicy = policy] :
        a \in {Approve, Pay}, type \in {0, 1, 2}, gas \in 0 .. 4, unit \in 0 .. 5,
        tip \in 0 .. 3, policy \in FeePolicies}

\* Published and ingested before, at and after the authorization's end.
Clocks ==
    {[Request(entry, "verified", a, Mirror(a, None), Execution(a), Lenient)
        EXCEPT !.published = published, !.ingested = ingested] :
        entry \in {"sdk", "signer"}, a \in {Approve, Pay, Pull},
        published \in 1 .. 3, ingested \in 1 .. 3}

SomeRequests == Publishable \cup SameMethod \cup Envelopes \cup Declarations \cup Policies
                    \cup FeesAsked \cup Clocks

Clean == [code |-> x, slots |-> "empty", simulated |-> TRUE, estimated |-> TRUE, time |-> 1]

\* A clean block, and each way in which a block can be different.
SomeSnapshots ==
    {Clean,
     [Clean EXCEPT !.code = NoCode, !.slots = "set"], [Clean EXCEPT !.code = y],
     [Clean EXCEPT !.slots = "set"], [Clean EXCEPT !.slots = "unreadable"],
     [Clean EXCEPT !.simulated = FALSE], [Clean EXCEPT !.estimated = FALSE],
     [Clean EXCEPT !.time = 2]}

=============================================================================
