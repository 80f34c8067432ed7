------------------------- MODULE GuardedSignerProofs -------------------------
(* Proofs about GuardedSigner, for every value of its constants.            *)
EXTENDS GuardedSigner, SequenceTheorems, TLAPS

USE ConstantsAssumption

\* Before any call, nothing is reserved, dispatched or in the ledger.
LEMMA InitInv == Init => IInv
<1> SUFFICES ASSUME Init PROVE IInv
  OBVIOUS
<1>1. TypeOK
  BY DEF Init, TypeOK, Labels, Awaiting, LocalType, Blank, BlockType
<1>2. ReservationsExact
  BY DEF Init, ReservationsExact, Holders, Holding, Awaiting
<1>3. ChainOK
  BY DEF Init, ChainOK
<1>4. DispatchedAsApproved /\ LedgerPositions
  BY DEF Init, DispatchedAsApproved, LedgerPositions
<1>5. ASSUME NEW c \in Calls
      PROVE  LocalsAtLabel(c) /\ DispatchedAtLabel(c) /\ NonceUnspent(c)
  BY DEF Init, LocalsAtLabel, DispatchedAtLabel, NonceUnspent, Populated, Pinned, Matched,
         Rechecked, Confirmed, Holding, Awaiting, Blank
<1> QED BY <1>1, <1>2, <1>3, <1>4, <1>5 DEF IInv

-----------------------------------------------------------------------------
(* Frames: what a step of one call leaves to the others                     *)

\* What holds at the label of a call depends on that call and on the chain alone.
LEMMA LocalsFrame ==
    ASSUME NEW d \in Calls, LocalsAtLabel(d), pc'[d] = pc[d], local'[d] = local[d],
           blocks' = blocks, canon' = canon, recorded' = recorded
    PROVE  LocalsAtLabel(d)'
  BY DEF LocalsAtLabel, Requested, WithinBudget, ReadFrom, SameBlock, SameHeight,
         AuthorizationHolds, ActualCommitment, IntentMatches, ControllerApproves, Unexpired,
         NonceUnchanged

\* What is said of a dispatch is said of the fields of its call alone.
LEMMA DispatchedFrame ==
    ASSUME NEW d \in Calls, DispatchedAtLabel(d), pc'[d] = pc[d], local'[d] = local[d],
           dispatched'[d] = dispatched[d], outcome'[d] = outcome[d],
           reply'[d] = reply[d], d \in inflight' => d \in inflight
    PROVE  DispatchedAtLabel(d)'
  BY DEF DispatchedAtLabel, WithinBudget

\* A nonce stays unspent for a call as long as no call returns normally and the ledger stands.
LEMMA UnspentFrame ==
    ASSUME NEW d \in Calls, NonceUnspent(d), pc'[d] = pc[d], local'[d] = local[d],
           \A e \in Calls : outcome'[e] = "sent" => outcome[e] = "sent",
           dispatched' = dispatched, ledger' = ledger
    PROVE  NonceUnspent(d)'
  BY DEF NonceUnspent, NonceUnchanged, SpentInProcess, Landed

\* A step that moves one call on, and changes its locals, keeps the invariant if what it
\* establishes for that call is what its new label asks for.
LEMMA AdvanceInv ==
    ASSUME IInv, NEW c \in Calls, NEW label \in Labels, NEW l \in LocalType,
           pc[c] \notin {"done", "broadcast"}, label \notin {"done", "broadcast"},
           label \in Holding <=> pc[c] \in Holding,
           pc[c] \in Holding => l.nonce = local[c].nonce,
           Goto(c, label), local' = [local EXCEPT ![c] = l],
           OnlyLocal, UNCHANGED <<nodeVars, recorded>>,
           LocalsAtLabel(c)', NonceUnspent(c)'
    PROVE  IInv'
<1> USE DEF IInv, OnlyLocal, Goto, nodeVars, netVars
<1>1. TypeOK'
  BY DEF TypeOK, LocalType
<1>2. ReservationsExact'
  <2>1. \A p \in Processes : Holders(p)' = Holders(p)
    BY DEF Holders, TypeOK
  <2>2. \A p \in Processes : \A d \in Holders(p) : Key(d)' = Key(d)
    BY DEF Holders, Key, TypeOK
  <2> QED BY <2>1, <2>2 DEF ReservationsExact
<1>3. ChainOK' /\ DispatchedAsApproved' /\ LedgerPositions'
  <2>1. /\ blocks' = blocks /\ canon' = canon /\ ledger' = ledger
        /\ dispatched' = dispatched /\ recorded' = recorded
    OBVIOUS
  <2>2. ChainOK /\ DispatchedAsApproved /\ LedgerPositions
    OBVIOUS
  <2> HIDE DEF IInv, CallSigner, Goto, nodeVars, netVars
  <2> QED BY <2>1, <2>2 DEF ChainOK, DispatchedAsApproved, LedgerPositions
<1>4. ASSUME NEW d \in Calls
      PROVE  LocalsAtLabel(d)' /\ DispatchedAtLabel(d)' /\ NonceUnspent(d)'
  <2>1. CASE d = c
    BY <2>1 DEF DispatchedAtLabel, TypeOK
  <2>2. CASE d # c
    <3>1. pc'[d] = pc[d] /\ local'[d] = local[d]
      BY <2>2 DEF TypeOK
    <3> QED BY <3>1, LocalsFrame, DispatchedFrame, UnspentFrame
  <2> QED BY <2>1, <2>2
<1> QED BY <1>1, <1>2, <1>3, <1>4

-----------------------------------------------------------------------------
(* The end of a call                                                        *)

\* Releasing the key of a call removes the key of that call and of no other: the keys of
\* calls inside their try blocks differ.
LEMMA ReleaseExact ==
    ASSUME TypeOK, ReservationsExact, NEW c \in Calls, pc[c] \in Labels \ {"idle", "done"},
           Goto(c, "done"), local' = [local EXCEPT ![c] = Blank],
           reservations' = IF pc[c] \in Holding THEN KeysAfterRelease(c) ELSE reservations
    PROVE  ReservationsExact'
<1> SUFFICES ASSUME NEW p \in Processes
             PROVE  /\ reservations'[p] = {Key(d)' : d \in Holders(p)'}
                    /\ \A d, e \in Holders(p)' : Key(d)' = Key(e)' => d = e
  BY DEF ReservationsExact
<1>1. Holders(p)' = Holders(p) \ {c}
  BY DEF Holders, Goto, TypeOK, Holding, Awaiting
<1>2. \A d \in Holders(p)' : Key(d)' = Key(d)
  BY <1>1 DEF Holders, Key, TypeOK
<1>3. \A d, e \in Holders(p) : Key(d) = Key(e) => d = e
  BY DEF ReservationsExact
<1>4. reservations[p] = {Key(d) : d \in Holders(p)}
  BY DEF ReservationsExact
<1>5. CASE c \in Holders(p)
  <2>1. reservations'[p] = reservations[p] \ {Key(c)}
    BY <1>5 DEF Holders, KeysAfterRelease, TypeOK
  <2> QED BY <2>1, <1>1, <1>2, <1>3, <1>4, <1>5
<1>6. CASE c \notin Holders(p)
  <2>1. reservations'[p] = reservations[p]
    BY <1>6, ConstantsAssumption DEF Holders, KeysAfterRelease, TypeOK
  <2>2. Holders(p)' = Holders(p)
    BY <1>1, <1>6
  <2> QED BY <2>1, <2>2, <1>2, <1>3, <1>4
<1> QED BY <1>5, <1>6

\* A call that returns normally held its key, so no other call of its process that holds one
\* has confirmed the same nonce.
LEMMA SettleInv ==
    ASSUME IInv, NEW c \in Calls, NEW result \in {"sent", "rejected"},
           pc[c] \in Labels \ {"idle", "done"}, result = "sent" => reply[c] = "accepted",
           Settle(c, result), UNCHANGED <<nodeVars, recorded>>
    PROVE  IInv'
<1> USE DEF IInv, Settle, Goto, nodeVars
<1>1. TypeOK'
  <2>1. local' \in [Calls -> LocalType]'
    BY DEF TypeOK, LocalType, Blank
  <2>2. reservations' \in [Processes -> SUBSET (Accounts \X Nat)]
    BY ConstantsAssumption DEF TypeOK, KeysAfterRelease
  <2> QED BY <2>1, <2>2 DEF TypeOK, Labels
<1>2. ReservationsExact'
  BY ReleaseExact
<1>3. ChainOK' /\ DispatchedAsApproved' /\ LedgerPositions'
  <2>1. /\ blocks' = blocks /\ canon' = canon /\ ledger' = ledger
        /\ dispatched' = dispatched /\ recorded' = recorded
    OBVIOUS
  <2>2. ChainOK /\ DispatchedAsApproved /\ LedgerPositions
    OBVIOUS
  <2> HIDE DEF IInv, CallSigner, Goto, nodeVars, netVars
  <2> QED BY <2>1, <2>2 DEF ChainOK, DispatchedAsApproved, LedgerPositions
<1>4. ASSUME NEW d \in Calls
      PROVE  LocalsAtLabel(d)' /\ DispatchedAtLabel(d)' /\ NonceUnspent(d)'
  <2>1. CASE d = c
    <3>1. /\ pc'[d] = "done" /\ local'[d] = Blank /\ outcome'[d] = result
          /\ reply'[d] = None
      BY <2>1 DEF TypeOK
    <3>2. LocalsAtLabel(d)'
      BY <3>1 DEF LocalsAtLabel, Blank, Populated, Pinned, Matched, Rechecked, Confirmed,
                  Holding, Awaiting
    <3>3. DispatchedAtLabel(d)'
      <4>1. DispatchedAtLabel(c) /\ dispatched' = dispatched /\ inflight' = inflight
        OBVIOUS
      <4>2. pc[c] = "broadcast" => dispatched[c] # None
        <5> SUFFICES ASSUME pc[c] = "broadcast" PROVE dispatched[c] # None
          OBVIOUS
        <5>1. dispatched[c] = [request |-> local[c].request, tx |-> local[c].envelope]
          BY <4>1 DEF DispatchedAtLabel
        <5>2. local[c].request \in Requests /\ local[c].envelope \in Envelope
          BY DEF LocalsAtLabel, Populated, Holding, Awaiting
        <5>3. dispatched[c] \in DispatchType
          BY <5>1, <5>2, ConstantsAssumption DEF DispatchType
        <5> QED BY <5>3, ConstantsAssumption
      <4>3. c \in inflight => result # "sent"
        BY <4>1, ConstantsAssumption DEF DispatchedAtLabel
      <4>4. result = "sent" => pc[c] = "broadcast"
        BY <4>1 DEF DispatchedAtLabel
      <4> QED
        BY <2>1, <3>1, <4>1, <4>2, <4>3, <4>4, ConstantsAssumption DEF DispatchedAtLabel
    <3>4. NonceUnspent(d)'
      BY <3>1 DEF NonceUnspent, Matched
    <3> QED BY <3>2, <3>3, <3>4
  <2>2. CASE d # c
    <3>1. /\ pc'[d] = pc[d] /\ local'[d] = local[d]
          /\ outcome'[d] = outcome[d] /\ reply'[d] = reply[d]
      BY <2>2 DEF TypeOK
    <3>2. LocalsAtLabel(d)' /\ DispatchedAtLabel(d)'
      BY <3>1, LocalsFrame, DispatchedFrame
    <3>3. NonceUnspent(d)'
      <4>1. CASE result = "rejected"
        BY <3>1, <4>1, UnspentFrame DEF TypeOK
      <4>2. CASE result = "sent"
        <5> SUFFICES ASSUME pc[d] \in Matched, NonceUnchanged(d), SpentInProcess(d)'
                     PROVE  FALSE
          BY <3>1 DEF NonceUnspent, NonceUnchanged
        <5>1. PICK e \in Calls \ {d} :
                 /\ ProcessOf[e] = ProcessOf[d]
                 /\ AccountOf[e] = AccountOf[d]
                 /\ Landed(e)'
                 /\ dispatched[e].tx.nonce = local[d].nonce
          BY <3>1 DEF SpentInProcess
        <5>2. CASE e # c
          <6>1. Landed(e)
            BY <5>1, <5>2 DEF Landed, TypeOK
          <6> QED BY <6>1, <5>1 DEF NonceUnspent, SpentInProcess
        <5>3. CASE e = c
          <6> DispatchedAtLabel(c) /\ LocalsAtLabel(c)
            OBVIOUS
          <6>1. pc[c] = "broadcast" /\ dispatched[c].tx = local[c].envelope
            BY <4>2 DEF DispatchedAtLabel
          <6>2. local[c].envelope.nonce = local[c].nonce
            BY <6>1 DEF LocalsAtLabel, Requested, Populated, Holding, Awaiting
          <6>3. Key(c) = Key(d)
            BY <5>1, <5>3, <6>1, <6>2 DEF Key
          <6>4. c \in Holders(ProcessOf[d]) /\ d \in Holders(ProcessOf[d])
            BY <5>1, <5>3, <6>1 DEF Holders, Holding, Awaiting, Matched
          <6> QED BY <6>3, <6>4, <2>2, ConstantsAssumption DEF ReservationsExact
        <5> QED BY <5>2, <5>3
      <4> QED BY <4>1, <4>2
    <3> QED BY <3>2, <3>3
  <2> QED BY <2>1, <2>2
<1> QED BY <1>1, <1>2, <1>3, <1>4

-----------------------------------------------------------------------------
(* The steps of a call, up to the verdict                                   *)

\* Every current block has an index into blocks, and the last one the highest number.
LEMMA ChainFacts ==
    ASSUME TypeOK, ChainOK
    PROVE  /\ DOMAIN blocks = 1 .. Len(blocks) /\ DOMAIN canon = 1 .. Len(canon)
           /\ LatestBlock \in DOMAIN blocks
           /\ blocks[LatestBlock].number = Len(canon)
           /\ SameBlock(LatestBlock)
           /\ \A h \in DOMAIN blocks : /\ blocks[h] \in BlockType
                                       /\ blocks[h].number \in DOMAIN canon
                                       /\ SameHeight(h) \in DOMAIN blocks
<1>1. blocks \in Seq(BlockType) /\ canon \in Seq(1 .. Len(blocks))
  BY DEF TypeOK
<1>2. DOMAIN blocks = 1 .. Len(blocks) /\ DOMAIN canon = 1 .. Len(canon)
  BY <1>1
<1>3. \A i \in DOMAIN canon : canon[i] \in DOMAIN blocks
  BY <1>1, <1>2
<1>4. Len(canon) \in DOMAIN canon
  BY <1>1, <1>2 DEF ChainOK
<1>5. blocks[LatestBlock].number = Len(canon) /\ LatestBlock \in DOMAIN blocks
  BY <1>3, <1>4 DEF ChainOK, LatestBlock
<1>6. SameBlock(LatestBlock)
  BY <1>5 DEF SameBlock, SameHeight, LatestBlock
<1>7. ASSUME NEW h \in DOMAIN blocks
      PROVE  /\ blocks[h] \in BlockType
             /\ blocks[h].number \in DOMAIN canon
             /\ SameHeight(h) \in DOMAIN blocks
  <2>1. blocks[h] \in BlockType
    BY <1>1
  <2>2. blocks[h].number \in DOMAIN canon
    BY <1>1, <1>2, <2>1 DEF ChainOK, BlockType
  <2> QED BY <2>1, <2>2, <1>3 DEF SameHeight
<1> QED BY <1>2, <1>5, <1>6, <1>7

\* The copied arguments are among the requests a caller may pass.
LEMMA StartInv ==
    ASSUME IInv, NEW c \in Calls, Start(c), UNCHANGED <<nodeVars, recorded>>
    PROVE  IInv'
<1>1. PICK request \in Requests : local' = [local EXCEPT ![c].request = request]
  BY DEF Start
<1> DEFINE l == [local[c] EXCEPT !.request = request]
<1>2. pc[c] = "idle" /\ pc'[c] = "identify" /\ local'[c] = l /\ local[c] \in LocalType
  BY <1>1 DEF Start, IInv, TypeOK, Goto
<1>3. l \in LocalType
  BY <1>2 DEF LocalType
<1>4. LocalsAtLabel(c)
  BY DEF IInv
<1>5. LocalsAtLabel(c)'
  BY <1>2, <1>4 DEF LocalsAtLabel, LocalType, Populated, Pinned, Matched, Rechecked,
                    Confirmed, Holding, Awaiting
<1>6. NonceUnspent(c)'
  BY <1>2 DEF NonceUnspent, Matched
<1> QED
  BY <1>1, <1>2, <1>3, <1>5, <1>6, AdvanceInv
     DEF Start, Goto, OnlyLocal, Labels, Holding, Awaiting

\* Past the separation of executor and controller a call holds no key yet.
LEMMA IdentifyInv ==
    ASSUME IInv, NEW c \in Calls, Identify(c), UNCHANGED <<nodeVars, recorded>>
    PROVE  IInv'
<1>1. CASE Reject(c)
  BY <1>1, SettleInv DEF Reject, Identify, Labels, Awaiting
<1>2. CASE Goto(c, "count") /\ OnlyLocal /\ UNCHANGED local
  <2>1. pc[c] = "identify" /\ pc'[c] = "count" /\ local[c] \in LocalType
    BY <1>2 DEF Identify, IInv, TypeOK, Goto
  <2>2. LocalsAtLabel(c) /\ local' = [local EXCEPT ![c] = local[c]]
    BY <1>2 DEF IInv, TypeOK
  <2>3. LocalsAtLabel(c)' /\ NonceUnspent(c)'
    BY <1>2, <2>1, <2>2 DEF LocalsAtLabel, NonceUnspent, Populated, Pinned, Matched,
                            Rechecked, Confirmed, Holding, Awaiting
  <2> QED BY <1>2, <2>1, <2>2, <2>3, AdvanceInv DEF Labels, Holding, Awaiting
<1> QED BY <1>1, <1>2 DEF Identify

\* The first count fills in the nonce before the call holds a key.
LEMMA CountPendingInv ==
    ASSUME IInv, NEW c \in Calls, CountPending(c), UNCHANGED <<nodeVars, recorded>>
    PROVE  IInv'
<1> DEFINE l == [local[c] EXCEPT !.nonce = Pending(AccountOf[c])]
<1>1. pc[c] = "count" /\ pc'[c] = "reserve" /\ local'[c] = l /\ local[c] \in LocalType
  BY DEF CountPending, IInv, TypeOK, Goto
<1>2. l \in LocalType
  <2>1. Len(ledger[AccountOf[c]]) \in Nat
    BY ConstantsAssumption DEF IInv, TypeOK
  <2> QED BY <1>1, <2>1 DEF LocalType, Pending
<1>3. LocalsAtLabel(c)
  BY DEF IInv
<1>4. LocalsAtLabel(c)' /\ NonceUnspent(c)'
  BY <1>1, <1>3 DEF LocalsAtLabel, NonceUnspent, LocalType, Populated, Pinned, Matched,
                    Rechecked, Confirmed, Holding, Awaiting
<1> QED
  BY <1>1, <1>2, <1>4, AdvanceInv
     DEF CountPending, Goto, OnlyLocal, Labels, Holding, Awaiting

\* Reserving is the one step that adds a key; it adds one that no call of the process holds.
LEMMA ReserveInv ==
    ASSUME IInv, NEW c \in Calls, Reserve(c), UNCHANGED <<nodeVars, recorded>>
    PROVE  IInv'
<1> USE DEF IInv, nodeVars, netVars
<1>1. CASE Reject(c)
  BY <1>1, SettleInv DEF Reject, Reserve, Labels, Awaiting
<1>2. CASE KeyIsFree(c) /\ ~ Reject(c)
  <2>1. /\ pc[c] = "reserve" /\ pc' = [pc EXCEPT ![c] = "populate"]
        /\ reservations' = [reservations EXCEPT ![ProcessOf[c]] = @ \cup {Key(c)}]
        /\ UNCHANGED <<local, signerCalls, dispatched, outcome, netVars>>
    BY <1>2 DEF Reserve, Goto
  <2>2. TypeOK'
    <3>1. Key(c) \in Accounts \X Nat
      BY ConstantsAssumption DEF Key, TypeOK, LocalType
    <3>2. reservations' \in [Processes -> SUBSET (Accounts \X Nat)]
      BY <2>1, <3>1, ConstantsAssumption DEF TypeOK
    <3> QED BY <2>1, <3>2 DEF TypeOK, Labels, Awaiting, LocalType
  <2>3. ReservationsExact'
    <3> SUFFICES ASSUME NEW p \in Processes
                 PROVE  /\ reservations'[p] = {Key(d)' : d \in Holders(p)'}
                        /\ \A d, e \in Holders(p)' : Key(d)' = Key(e)' => d = e
      BY DEF ReservationsExact
    <3>1. \A d \in Calls : Key(d)' = Key(d)
      BY <2>1 DEF Key
    <3>2. /\ reservations[p] = {Key(d) : d \in Holders(p)}
          /\ \A d, e \in Holders(p) : Key(d) = Key(e) => d = e
      BY DEF ReservationsExact
    <3>3. CASE p = ProcessOf[c]
      <4>1. Holders(p)' = Holders(p) \cup {c}
        BY <2>1, <3>3 DEF Holders, TypeOK, Holding, Awaiting
      <4>2. reservations'[p] = reservations[p] \cup {Key(c)}
        BY <2>1, <3>3 DEF TypeOK
      <4>3. Key(c) \notin reservations[p]
        BY <1>2, <3>3 DEF KeyIsFree
      <4>4. Holders(p) \subseteq Calls
        BY DEF Holders
      <4> QED BY <3>1, <3>2, <4>1, <4>2, <4>3, <4>4
    <3>4. CASE p # ProcessOf[c]
      <4>1. Holders(p)' = Holders(p)
        BY <2>1, <3>4 DEF Holders, TypeOK
      <4>2. reservations'[p] = reservations[p]
        BY <2>1, <3>4 DEF TypeOK
      <4>3. Holders(p) \subseteq Calls
        BY DEF Holders
      <4> QED BY <3>1, <3>2, <4>1, <4>2, <4>3
    <3> QED BY <3>3, <3>4
  <2>4. ChainOK' /\ DispatchedAsApproved' /\ LedgerPositions'
    BY <2>1 DEF ChainOK, DispatchedAsApproved, LedgerPositions
  <2>5. ASSUME NEW d \in Calls
        PROVE  LocalsAtLabel(d)' /\ DispatchedAtLabel(d)' /\ NonceUnspent(d)'
    <3>1. CASE d = c
      <4>1. pc'[d] = "populate" /\ pc[d] = "reserve"
        BY <2>1, <3>1 DEF TypeOK
      <4>2. LocalsAtLabel(d) /\ DispatchedAtLabel(d)
        OBVIOUS
      <4> QED
        BY <2>1, <4>1, <4>2
           DEF LocalsAtLabel, DispatchedAtLabel, NonceUnspent, Populated, Pinned, Matched,
               Rechecked, Confirmed, Holding, Awaiting
    <3>2. CASE d # c
      <4>1. pc'[d] = pc[d] /\ local'[d] = local[d]
        BY <2>1, <3>2 DEF TypeOK
      <4> QED BY <2>1, <4>1, LocalsFrame, DispatchedFrame, UnspentFrame
    <3> QED BY <3>1, <3>2
  <2> QED BY <2>2, <2>3, <2>4, <2>5
<1> QED BY <1>1, <1>2 DEF Reserve

\* The wallet's answer is used only if it is the requested transaction within the budget.
LEMMA PopulateInv ==
    ASSUME IInv, NEW c \in Calls, Populate(c), UNCHANGED <<nodeVars, recorded>>
    PROVE  IInv'
<1>0. pc[c] = "populate" /\ local[c] \in LocalType
  BY DEF Populate, IInv, TypeOK
<1>1. CASE Reject(c)
  BY <1>0, <1>1, SettleInv DEF Reject, Labels, Awaiting
<1>2. CASE \E e \in Answers(c) : /\ Requested(c, e) /\ WithinBudget(e)
                                 /\ local' = [local EXCEPT ![c].envelope = e]
                                 /\ Goto(c, "pin") /\ OnlyLocal
  <2>1. PICK e \in Answers(c) : /\ Requested(c, e) /\ WithinBudget(e)
                                /\ local' = [local EXCEPT ![c].envelope = e]
                                /\ Goto(c, "pin") /\ OnlyLocal
    BY <1>2
  <2>2. e \in Envelope
    <3>1. local[c].nonce \in Nat /\ local[c].nonce + 1 \in Nat
      BY <1>0 DEF LocalType
    <3>2. Fees \subseteq Nat
      BY ConstantsAssumption
    <3> QED BY <3>1, <3>2 DEF Answers, Envelope
  <2> DEFINE l == [local[c] EXCEPT !.envelope = e]
  <2>3. pc'[c] = "pin" /\ local'[c] = l /\ l \in LocalType
    BY <1>0, <2>1, <2>2 DEF IInv, TypeOK, Goto, LocalType
  <2>4. LocalsAtLabel(c)
    BY DEF IInv
  <2>5. LocalsAtLabel(c)' /\ NonceUnspent(c)'
    BY <1>0, <2>1, <2>2, <2>3, <2>4
       DEF LocalsAtLabel, NonceUnspent, LocalType, Requested, WithinBudget, Populated, Pinned,
           Matched, Rechecked, Confirmed, Holding, Awaiting
  <2> QED
    BY <1>0, <2>1, <2>3, <2>5, AdvanceInv DEF Goto, Labels, Holding, Awaiting, LocalType
<1> QED BY <1>1, <1>2 DEF Populate

\* The pinned block is one the node has produced.
LEMMA PinBlockInv ==
    ASSUME IInv, NEW c \in Calls, PinBlock(c), UNCHANGED <<nodeVars, recorded>>
    PROVE  IInv'
<1> DEFINE l == [local[c] EXCEPT !.pin = LatestBlock]
<1>1. pc[c] = "pin" /\ pc'[c] = "code" /\ local'[c] = l /\ local[c] \in LocalType
  BY DEF PinBlock, IInv, TypeOK, Goto
<1>2. LatestBlock \in DOMAIN blocks /\ DOMAIN blocks = 1 .. Len(blocks)
  BY ChainFacts DEF IInv
<1>3. l \in LocalType
  BY <1>1, <1>2, SMTT(30) DEF LocalType
<1>4. LocalsAtLabel(c)
  BY DEF IInv
<1>5. LocalsAtLabel(c)' /\ NonceUnspent(c)'
  BY <1>1, <1>2, <1>4
     DEF LocalsAtLabel, NonceUnspent, LocalType, Requested, WithinBudget, Populated, Pinned,
         Matched, Rechecked, Confirmed, Holding, Awaiting, nodeVars
<1> QED
  BY <1>1, <1>3, <1>5, AdvanceInv
     DEF PinBlock, Goto, OnlyLocal, Labels, Holding, Awaiting, LocalType

\* A code read by the number of a block is that block's unless it has been replaced.
LEMMA ReadCodeInv ==
    ASSUME IInv, NEW c \in Calls, ReadCode(c), UNCHANGED <<nodeVars, recorded>>
    PROVE  IInv'
<1> DEFINE read == blocks[SameHeight(local[c].pin)].code
           l == [local[c] EXCEPT !.code = read]
<1>1. pc[c] = "code" /\ pc'[c] = "confirm" /\ local'[c] = l /\ local[c] \in LocalType
  BY DEF ReadCode, IInv, TypeOK, Goto
<1>2. LocalsAtLabel(c)
  BY DEF IInv
<1>3. local[c].pin \in DOMAIN blocks
  BY <1>1, <1>2 DEF LocalsAtLabel, Pinned, Populated, Holding, Awaiting
<1>4. read \in CodeHashes
  BY <1>3, ChainFacts DEF IInv, BlockType
<1>5. l \in LocalType
  BY <1>1, <1>4 DEF LocalType
<1>6. ReadFrom(local[c].pin, read)
  BY DEF ReadFrom, SameBlock
<1>7. LocalsAtLabel(c)' /\ NonceUnspent(c)'
  BY <1>1, <1>2, <1>6
     DEF LocalsAtLabel, NonceUnspent, LocalType, Requested, WithinBudget, Populated, Pinned,
         Matched, Rechecked, Confirmed, Holding, Awaiting, nodeVars, ReadFrom, SameBlock,
         SameHeight
<1> QED
  BY <1>1, <1>5, <1>7, AdvanceInv
     DEF ReadCode, Goto, OnlyLocal, Labels, Holding, Awaiting, LocalType

\* A block that is still canonical lends its code to the preflight.
LEMMA ConfirmPinInv ==
    ASSUME IInv, NEW c \in Calls, ConfirmPin(c), UNCHANGED <<nodeVars, recorded>>
    PROVE  IInv'
<1>1. CASE Reject(c)
  BY <1>1, SettleInv DEF Reject, ConfirmPin, Labels, Awaiting
<1>2. CASE SameBlock(local[c].pin) /\ Goto(c, "lookup") /\ OnlyLocal /\ UNCHANGED local
  <2>1. pc[c] = "confirm" /\ pc'[c] = "lookup" /\ local[c] \in LocalType
    BY <1>2 DEF ConfirmPin, IInv, TypeOK, Goto
  <2>2. LocalsAtLabel(c) /\ local' = [local EXCEPT ![c] = local[c]]
    BY <1>2 DEF IInv, TypeOK
  <2>3. LocalsAtLabel(c)' /\ NonceUnspent(c)'
    BY <1>2, <2>1, <2>2
       DEF LocalsAtLabel, NonceUnspent, Requested, WithinBudget, Populated, Pinned, Matched,
           Rechecked, Confirmed, Holding, Awaiting, ReadFrom, nodeVars
  <2> QED BY <1>2, <2>1, <2>2, <2>3, AdvanceInv DEF Labels, Holding, Awaiting
<1> QED BY <1>1, <1>2 DEF ConfirmPin

\* A call gets past the verdict only with a record that commits to what it is about to do.
LEMMA LookUpRecordInv ==
    ASSUME IInv, NEW c \in Calls, LookUpRecord(c), UNCHANGED <<nodeVars, recorded>>
    PROVE  IInv'
<1>1. CASE Reject(c)
  BY <1>1, SettleInv DEF Reject, LookUpRecord, Labels, Awaiting
<1>2. CASE /\ local[c].request.authId \in recorded
           /\ AuthorizationHolds(c) /\ IntentMatches(c) /\ ControllerApproves(c)
           /\ Goto(c, "recheck") /\ OnlyLocal /\ UNCHANGED local
  <2>1. pc[c] = "lookup" /\ pc'[c] = "recheck" /\ local[c] \in LocalType
    BY <1>2 DEF LookUpRecord, IInv, TypeOK, Goto
  <2>2. LocalsAtLabel(c) /\ local' = [local EXCEPT ![c] = local[c]] /\ local'[c] = local[c]
    BY <1>2 DEF IInv, TypeOK
  <2>3. local[c].again = None /\ local[c].latest = 0
    BY <2>1, <2>2 DEF LocalsAtLabel, Matched
  <2>4. AuthorizationHolds(c)' /\ IntentMatches(c)' /\ ControllerApproves(c)'
    BY <1>2, <2>2
       DEF AuthorizationHolds, IntentMatches, ControllerApproves, ActualCommitment, nodeVars
  <2>5. LocalsAtLabel(c)'
    BY <1>2, <2>1, <2>2, <2>3, <2>4
       DEF LocalsAtLabel, Requested, WithinBudget, Populated, Pinned, Matched, Rechecked,
           Confirmed, Holding, Awaiting, nodeVars
  <2>6. NonceUnspent(c)'
    BY <2>1, <2>2, <2>3, ConstantsAssumption DEF NonceUnspent, NonceUnchanged, LocalType
  <2> QED BY <1>2, <2>1, <2>2, <2>5, <2>6, AdvanceInv DEF Labels, Holding, Awaiting
<1> QED BY <1>1, <1>2 DEF LookUpRecord

-----------------------------------------------------------------------------
(* The steps of a call, from the verdict on                                 *)

\* Moving on between labels after the verdict changes nothing about the nonce.
LEMMA UnspentMoves ==
    ASSUME NEW c \in Calls, NonceUnspent(c), pc[c] \in Matched,
           local'[c].nonce = local[c].nonce, local'[c].again = local[c].again,
           UNCHANGED <<outcome, dispatched, ledger>>
    PROVE  NonceUnspent(c)'
  BY DEF NonceUnspent, NonceUnchanged, SpentInProcess, Landed

\* Nor does reading more of the chain change the verdict.
LEMMA VerdictKept ==
    ASSUME NEW c \in Calls, UNCHANGED blocks,
           local'[c].request = local[c].request, local'[c].nonce = local[c].nonce,
           local'[c].pin = local[c].pin, local'[c].code = local[c].code
    PROVE  /\ AuthorizationHolds(c)' <=> AuthorizationHolds(c)
           /\ IntentMatches(c)' <=> IntentMatches(c)
           /\ ControllerApproves(c)' <=> ControllerApproves(c)
  BY DEF AuthorizationHolds, IntentMatches, ControllerApproves, ActualCommitment

\* If the second count equals the first, no transaction stands at that nonce.
LEMMA RecheckNonceInv ==
    ASSUME IInv, NEW c \in Calls, RecheckNonce(c), UNCHANGED <<nodeVars, recorded>>
    PROVE  IInv'
<1> DEFINE l == [local[c] EXCEPT !.again = Pending(AccountOf[c])]
<1>1. /\ pc[c] = "recheck" /\ pc'[c] = pc[c] /\ Goto(c, "recheck")
      /\ local'[c] = l /\ local[c] \in LocalType
  BY DEF RecheckNonce, IInv, TypeOK, Goto
<1>2. ledger[AccountOf[c]] \in Seq(Calls \cup {Foreign})
  BY ConstantsAssumption DEF IInv, TypeOK
<1>3. l \in LocalType
  <2>1. Pending(AccountOf[c]) \in Nat
    BY <1>2 DEF Pending
  <2> QED BY <1>1, <2>1 DEF LocalType
<1>4. LocalsAtLabel(c)
  BY DEF IInv
<1>5. LocalsAtLabel(c)'
  <2>1. /\ AuthorizationHolds(c)' <=> AuthorizationHolds(c)
        /\ IntentMatches(c)' <=> IntentMatches(c)
        /\ ControllerApproves(c)' <=> ControllerApproves(c)
    BY <1>1, VerdictKept DEF LocalType, nodeVars
  <2> QED
    BY <1>1, <1>4, <2>1
       DEF LocalsAtLabel, LocalType, Requested, WithinBudget, Populated, Pinned, Matched,
           Rechecked, Confirmed, Holding, Awaiting, nodeVars
<1>6. NonceUnspent(c)'
  <2> SUFFICES ASSUME Pending(AccountOf[c]) = local[c].nonce, SpentInProcess(c)'
               PROVE  FALSE
    BY <1>1 DEF NonceUnspent, NonceUnchanged, LocalType
  <2>1. PICK d \in Calls : /\ AccountOf[d] = AccountOf[c]
                           /\ Landed(d)
                           /\ dispatched[d].tx.nonce = local[c].nonce
    BY <1>1 DEF SpentInProcess, Landed, RecheckNonce, OnlyLocal, nodeVars, LocalType
  <2>2. dispatched[d].tx.account = AccountOf[d]
    BY <2>1 DEF IInv, DispatchedAtLabel, Landed
  <2>3. local[c].nonce + 1 \in DOMAIN ledger[AccountOf[c]]
    BY <2>1, <2>2 DEF Landed
  <2> QED BY <2>3, <1>2 DEF Pending
<1> QED
  BY <1>1, <1>3, <1>5, <1>6, AdvanceInv
     DEF RecheckNonce, Goto, OnlyLocal, Labels, Holding, Awaiting, LocalType

\* The second block is no older than the pinned one: the chain never gets shorter.
LEMMA RecheckBlockInv ==
    ASSUME IInv, NEW c \in Calls, RecheckBlock(c), UNCHANGED <<nodeVars, recorded>>
    PROVE  IInv'
<1> DEFINE l == [local[c] EXCEPT !.latest = LatestBlock]
<1>1. /\ pc[c] = "recheck" /\ pc'[c] = pc[c] /\ Goto(c, "recheck")
      /\ local'[c] = l /\ local[c] \in LocalType
  BY DEF RecheckBlock, IInv, TypeOK, Goto
<1>2. /\ LatestBlock \in DOMAIN blocks /\ DOMAIN blocks = 1 .. Len(blocks)
      /\ blocks[LatestBlock].number = Len(canon)
  BY ChainFacts DEF IInv
<1>3. l \in LocalType
  <2>1. LatestBlock \in 0 .. Len(blocks)
    BY <1>2 DEF IInv, TypeOK
  <2> QED BY <1>1, <2>1 DEF LocalType
<1>4. LocalsAtLabel(c)
  BY DEF IInv
<1>5. LocalsAtLabel(c)'
  <2>1. /\ AuthorizationHolds(c)' <=> AuthorizationHolds(c)
        /\ IntentMatches(c)' <=> IntentMatches(c)
        /\ ControllerApproves(c)' <=> ControllerApproves(c)
    BY <1>1, VerdictKept DEF LocalType, nodeVars
  <2>2. local[c].pin \in DOMAIN blocks
    BY <1>1, <1>4 DEF LocalsAtLabel, Pinned, Populated, Holding, Awaiting
  <2>3. blocks[local[c].pin].number <= blocks[LatestBlock].number
    BY <1>2, <2>2 DEF IInv, ChainOK
  <2> QED
    BY <1>1, <1>2, <1>4, <2>1, <2>3
       DEF LocalsAtLabel, LocalType, Requested, WithinBudget, Populated, Pinned, Matched,
           Rechecked, Confirmed, Holding, Awaiting, nodeVars
<1>6. NonceUnspent(c)'
  BY <1>1, UnspentMoves DEF IInv, RecheckBlock, OnlyLocal, nodeVars, Matched, LocalType
<1> QED
  BY <1>1, <1>3, <1>5, <1>6, AdvanceInv
     DEF RecheckBlock, Goto, OnlyLocal, Labels, Holding, Awaiting, LocalType

\* After the comparison the nonce is the counted one and the authorization has not expired.
LEMMA CompareRecheckInv ==
    ASSUME IInv, NEW c \in Calls, CompareRecheck(c), UNCHANGED <<nodeVars, recorded>>
    PROVE  IInv'
<1>1. CASE Reject(c)
  BY <1>1, SettleInv DEF Reject, CompareRecheck, Labels, Awaiting
<1>2. CASE /\ local[c].latest # 0 /\ NonceUnchanged(c) /\ Unexpired(c)
           /\ Goto(c, "recode") /\ OnlyLocal /\ UNCHANGED local
  <2>1. pc[c] = "recheck" /\ pc'[c] = "recode" /\ local[c] \in LocalType
    BY <1>2 DEF CompareRecheck, IInv, TypeOK, Goto
  <2>2. /\ LocalsAtLabel(c) /\ NonceUnspent(c)
        /\ local' = [local EXCEPT ![c] = local[c]] /\ local'[c] = local[c]
    BY <1>2 DEF IInv, TypeOK
  <2>3. /\ AuthorizationHolds(c)' <=> AuthorizationHolds(c)
        /\ IntentMatches(c)' <=> IntentMatches(c)
        /\ ControllerApproves(c)' <=> ControllerApproves(c)
    BY <2>2, VerdictKept DEF nodeVars
  <2>4. LocalsAtLabel(c)'
    BY <1>2, <2>1, <2>2, <2>3
       DEF LocalsAtLabel, Requested, WithinBudget, Populated, Pinned, Matched, Rechecked,
           Confirmed, Holding, Awaiting, nodeVars, Unexpired, NonceUnchanged
  <2>5. NonceUnspent(c)'
    BY <1>2, <2>1, <2>2, UnspentMoves DEF OnlyLocal, nodeVars, Matched
  <2> QED BY <1>2, <2>1, <2>2, <2>4, <2>5, AdvanceInv DEF Labels, Holding, Awaiting
<1> QED BY <1>1, <1>2 DEF CompareRecheck

\* The second read of the code is of the second block, or of one that replaced it.
LEMMA RecheckCodeInv ==
    ASSUME IInv, NEW c \in Calls, RecheckCode(c), UNCHANGED <<nodeVars, recorded>>
    PROVE  IInv'
<1> DEFINE read == blocks[SameHeight(local[c].latest)].code
           l == [local[c] EXCEPT !.recode = read]
<1>1. pc[c] = "recode" /\ pc'[c] = "reconfirm" /\ local'[c] = l /\ local[c] \in LocalType
  BY DEF RecheckCode, IInv, TypeOK, Goto
<1>2. LocalsAtLabel(c)
  BY DEF IInv
<1>3. local[c].latest \in DOMAIN blocks
  BY <1>1, <1>2, ChainFacts DEF LocalsAtLabel, Rechecked, Matched, LocalType, IInv
<1>4. read \in CodeHashes
  BY <1>3, ChainFacts DEF IInv, BlockType
<1>5. l \in LocalType
  BY <1>1, <1>4 DEF LocalType
<1>6. ReadFrom(local[c].latest, read)
  BY DEF ReadFrom, SameBlock
<1>7. /\ AuthorizationHolds(c)' <=> AuthorizationHolds(c)
      /\ IntentMatches(c)' <=> IntentMatches(c)
      /\ ControllerApproves(c)' <=> ControllerApproves(c)
  BY <1>1, VerdictKept DEF LocalType, nodeVars
<1>8. LocalsAtLabel(c)'
  BY <1>1, <1>2, <1>6, <1>7
     DEF LocalsAtLabel, LocalType, Requested, WithinBudget, Populated, Pinned, Matched,
         Rechecked, Confirmed, Holding, Awaiting, nodeVars, ReadFrom, SameBlock, SameHeight,
         Unexpired, NonceUnchanged
<1>9. NonceUnspent(c)'
  BY <1>1, UnspentMoves DEF IInv, RecheckCode, OnlyLocal, nodeVars, Matched, LocalType
<1> QED
  BY <1>1, <1>5, <1>8, <1>9, AdvanceInv
     DEF RecheckCode, Goto, OnlyLocal, Labels, Holding, Awaiting, LocalType

\* A call that has been confirmed keeps the invariant when it goes on to the secondary
\* provider or to the signer.
LEMMA ConfirmedLocals ==
    ASSUME NEW c \in Calls, LocalsAtLabel(c), pc[c] \in {"reconfirm", "secondary"},
           local[c].recode = local[c].code,
           local[c].recode = blocks[local[c].latest].code,
           pc'[c] \in {"secondary", "sign"}, local'[c] = local[c], UNCHANGED <<nodeVars, recorded>>
    PROVE  LocalsAtLabel(c)'
<1>1. /\ AuthorizationHolds(c)' <=> AuthorizationHolds(c)
      /\ IntentMatches(c)' <=> IntentMatches(c)
      /\ ControllerApproves(c)' <=> ControllerApproves(c)
  BY VerdictKept DEF nodeVars
<1> QED
  BY <1>1 DEF LocalsAtLabel, Requested, WithinBudget, Populated, Pinned, Matched, Rechecked,
              Confirmed, Holding, Awaiting, nodeVars, Unexpired, NonceUnchanged

\* Asking the signer changes none of the facts the call has confirmed.
LEMMA CallSignerInv ==
    ASSUME IInv, NEW c \in Calls, pc[c] \in {"reconfirm", "secondary"},
           local[c].recode = local[c].code,
           local[c].recode = blocks[local[c].latest].code,
           CallSigner(c), UNCHANGED <<nodeVars, recorded>>
    PROVE  IInv'
<1> USE DEF IInv, CallSigner, Goto, nodeVars, netVars
<1>1. TypeOK'
  BY DEF TypeOK, LocalType, Labels, Awaiting
<1>2. ReservationsExact'
  <2>1. \A p \in Processes : Holders(p)' = Holders(p)
    BY DEF Holders, TypeOK, Holding, Awaiting
  <2>2. \A d \in Calls : Key(d)' = Key(d)
    BY DEF Key
  <2>3. \A p \in Processes : Holders(p) \subseteq Calls
    BY DEF Holders
  <2> QED BY <2>1, <2>2, <2>3 DEF ReservationsExact
<1>3. ChainOK' /\ DispatchedAsApproved' /\ LedgerPositions'
  <2>1. /\ blocks' = blocks /\ canon' = canon /\ ledger' = ledger
        /\ dispatched' = dispatched /\ recorded' = recorded
    OBVIOUS
  <2>2. ChainOK /\ DispatchedAsApproved /\ LedgerPositions
    OBVIOUS
  <2> HIDE DEF IInv, CallSigner, Goto, nodeVars, netVars
  <2> QED BY <2>1, <2>2 DEF ChainOK, DispatchedAsApproved, LedgerPositions
<1>4. ASSUME NEW d \in Calls
      PROVE  LocalsAtLabel(d)' /\ DispatchedAtLabel(d)' /\ NonceUnspent(d)'
  <2>1. CASE d = c
    <3>1. pc'[d] = "sign" /\ local'[d] = local[d]
      BY <2>1 DEF TypeOK
    <3>2. LocalsAtLabel(d) /\ DispatchedAtLabel(d) /\ NonceUnspent(d)
      OBVIOUS
    <3>3. LocalsAtLabel(d)'
      BY <2>1, <3>1, <3>2, ConfirmedLocals
    <3>4. DispatchedAtLabel(d)'
      BY <2>1, <3>1, <3>2 DEF DispatchedAtLabel
    <3>5. NonceUnspent(d)'
      BY <2>1, <3>1, <3>2, UnspentMoves DEF Matched
    <3> QED BY <3>3, <3>4, <3>5
  <2>2. CASE d # c
    <3>1. pc'[d] = pc[d] /\ local'[d] = local[d]
      BY <2>2 DEF TypeOK
    <3> QED BY <3>1, LocalsFrame, DispatchedFrame, UnspentFrame
  <2> QED BY <2>1, <2>2
<1> QED BY <1>1, <1>2, <1>3, <1>4

\* A second block that is still canonical has the code of the first.
LEMMA ReconfirmInv ==
    ASSUME IInv, NEW c \in Calls, Reconfirm(c), UNCHANGED <<nodeVars, recorded>>
    PROVE  IInv'
<1>0. pc[c] = "reconfirm" /\ LocalsAtLabel(c) /\ NonceUnspent(c) /\ local[c] \in LocalType
  BY DEF Reconfirm, IInv, TypeOK
<1>1. CASE Reject(c)
  BY <1>0, <1>1, SettleInv DEF Reject, Labels, Awaiting
<1>2. CASE SameBlock(local[c].latest) /\ local[c].recode = local[c].code
  <2>1. local[c].recode = blocks[local[c].latest].code
    BY <1>0, <1>2 DEF LocalsAtLabel, ReadFrom
  <2>2. CASE CallSigner(c)
    BY <1>0, <1>2, <2>1, <2>2, CallSignerInv
  <2>3. CASE Goto(c, "secondary") /\ OnlyLocal /\ UNCHANGED local
    <3>1. /\ pc'[c] = "secondary" /\ local'[c] = local[c]
          /\ local' = [local EXCEPT ![c] = local[c]]
      BY <2>3 DEF IInv, TypeOK, Goto
    <3>2. LocalsAtLabel(c)'
      BY <1>0, <1>2, <2>1, <3>1, ConfirmedLocals
    <3>3. NonceUnspent(c)'
      BY <1>0, <2>3, UnspentMoves DEF OnlyLocal, nodeVars, Matched
    <3> QED
      BY <1>0, <2>3, <3>1, <3>2, <3>3, AdvanceInv DEF Labels, Holding, Awaiting
  <2> QED BY <1>2, <2>2, <2>3 DEF Reconfirm
<1> QED BY <1>1, <1>2 DEF Reconfirm

\* The agreement of the secondary provider leads to the signer and changes nothing else.
LEMMA SecondaryInv ==
    ASSUME IInv, NEW c \in Calls, Secondary(c), UNCHANGED <<nodeVars, recorded>>
    PROVE  IInv'
<1>1. pc[c] = "secondary" /\ LocalsAtLabel(c) /\ CallSigner(c)
  BY DEF Secondary, IInv
<1>2. /\ local[c].recode = local[c].code
      /\ local[c].recode = blocks[local[c].latest].code
  BY <1>1 DEF LocalsAtLabel, Confirmed, Rechecked, Matched
<1> QED BY <1>1, <1>2, CallSignerInv

\* What the signer returned is broadcast only if it is the envelope that was prepared, which
\* the verdict covers.
LEMMA SignInv ==
    ASSUME IInv, NEW c \in Calls, Sign(c), UNCHANGED <<nodeVars, recorded>>
    PROVE  IInv'
<1> USE DEF IInv, nodeVars, netVars
<1>0. pc[c] = "sign" /\ LocalsAtLabel(c) /\ local[c] \in LocalType
  BY DEF Sign, TypeOK
<1>1. CASE Reject(c)
  BY <1>0, <1>1, SettleInv DEF Reject, Labels, Awaiting
<1>2. CASE \E raw \in Answers(c) :
              /\ Prepared(c, raw)
              /\ dispatched' = [dispatched EXCEPT
                                  ![c] = [request |-> local[c].request, tx |-> raw]]
              /\ inflight' = inflight \cup {c}
              /\ Goto(c, "broadcast")
              /\ UNCHANGED <<local, signerCalls, outcome, reservations, reply>>
  <2> DEFINE sent == [request |-> local[c].request, tx |-> local[c].envelope]
  <2>1. /\ dispatched' = [dispatched EXCEPT ![c] = sent]
        /\ inflight' = inflight \cup {c}
        /\ pc' = [pc EXCEPT ![c] = "broadcast"]
        /\ UNCHANGED <<local, signerCalls, outcome, reservations, reply>>
    BY <1>2 DEF Prepared, Goto
  <2>2. /\ local[c].request \in Requests /\ local[c].envelope \in Envelope
        /\ Requested(c, local[c].envelope) /\ WithinBudget(local[c].envelope)
        /\ local[c].request.authId \in recorded
        /\ AuthorizationHolds(c) /\ IntentMatches(c) /\ ControllerApproves(c)
    BY <1>0 DEF LocalsAtLabel, Populated, Matched, Holding, Awaiting
  <2>3. sent \in DispatchType /\ sent # None
    BY <2>2, ConstantsAssumption DEF DispatchType
  <2> HIDE DEF sent
  <2>4. TypeOK'
    <3>1. dispatched' \in [Calls -> DispatchType \cup {None}]
      BY <2>1, <2>3 DEF TypeOK
    <3>2. pc' \in [Calls -> Labels]
      BY <2>1 DEF TypeOK, Labels, Awaiting
    <3> QED BY <2>1, <3>1, <3>2 DEF TypeOK, LocalType
  <2>5. ReservationsExact'
    <3>1. \A p \in Processes : Holders(p)' = Holders(p)
      BY <1>0, <2>1 DEF Holders, TypeOK, Holding, Awaiting
    <3>2. \A d \in Calls : Key(d)' = Key(d)
      BY <2>1 DEF Key
    <3>3. \A p \in Processes : Holders(p) \subseteq Calls
      BY DEF Holders
    <3> QED BY <2>1, <3>1, <3>2, <3>3 DEF ReservationsExact
  <2>6. ChainOK'
    BY DEF ChainOK
  <2>7. dispatched[c] = None
    BY <1>0 DEF DispatchedAtLabel
  <2>8. LedgerPositions'
    <3>1. \A d \in Calls : dispatched[d] # None => dispatched'[d] = dispatched[d]
      BY <2>1, <2>7 DEF TypeOK
    <3>2. \A a \in Accounts : \A i \in DOMAIN ledger[a] :
             ledger[a][i] # Foreign => ledger[a][i] \in Calls
      BY DEF TypeOK
    <3> QED BY <3>1, <3>2 DEF LedgerPositions
  <2>9. DispatchedAsApproved'
    <3> SUFFICES ASSUME NEW d \in Calls, dispatched'[d] # None
                 PROVE  LET request == dispatched'[d].request
                            tx      == dispatched'[d].tx
                            record  == Commitment[request.authId]
                        IN  /\ request.authId \in recorded
                            /\ <<tx.account, tx.nonce, tx.effect>> =
                                   <<record.account, record.nonce, record.effect>>
                            /\ request.approval.commitment = record
                            /\ tx.fee <= request.approval.ceiling
      BY DEF DispatchedAsApproved
    <3>1. CASE d # c
      BY <3>1, <2>1 DEF DispatchedAsApproved, TypeOK
    <3>2. CASE d = c
      <4>1. dispatched'[d] = sent
        BY <2>1, <3>2 DEF TypeOK
      <4>2. sent.request = local[c].request /\ sent.tx = local[c].envelope
        BY DEF sent
      <4>3. Commitment[local[c].request.authId] =
              [account |-> AccountOf[c], nonce |-> local[c].nonce,
               validUntil |-> Commitment[local[c].request.authId].validUntil,
               effect |-> local[c].request.effect, code |-> local[c].code]
        BY <2>2 DEF AuthorizationHolds, ActualCommitment
      <4>4. /\ local[c].envelope.account = AccountOf[c]
            /\ local[c].envelope.nonce = local[c].nonce
            /\ local[c].envelope.effect = local[c].request.effect
            /\ local[c].envelope.fee <= FeeCeiling
        BY <2>2 DEF Requested, WithinBudget
      <4>5. /\ local[c].request.approval.commitment = Commitment[local[c].request.authId]
            /\ local[c].request.approval.ceiling = FeeCeiling
        BY <2>2 DEF ControllerApproves
      <4> QED BY <2>2, <4>1, <4>2, <4>3, <4>4, <4>5
    <3> QED BY <3>1, <3>2
  <2>10. ASSUME NEW d \in Calls
         PROVE  LocalsAtLabel(d)' /\ DispatchedAtLabel(d)' /\ NonceUnspent(d)'
    <3>1. NonceUnspent(d)'
      <4>1. \A e \in Calls : Landed(e)' => Landed(e) /\ dispatched'[e] = dispatched[e]
        BY <1>0, <2>1 DEF Landed, TypeOK, DispatchedAtLabel
      <4>2. SpentInProcess(d)' => SpentInProcess(d)
        BY <2>1, <4>1 DEF SpentInProcess
      <4>3. pc'[d] \in Matched => pc[d] \in Matched
        BY <1>0, <2>1 DEF TypeOK, Matched
      <4> QED BY <2>1, <4>2, <4>3 DEF NonceUnspent, NonceUnchanged
    <3>2. CASE d = c
      <4>1. pc'[d] = "broadcast" /\ local'[d] = local[d] /\ dispatched'[d] = sent
        BY <2>1, <3>2 DEF TypeOK
      <4>2. /\ AuthorizationHolds(c)' <=> AuthorizationHolds(c)
            /\ IntentMatches(c)' <=> IntentMatches(c)
            /\ ControllerApproves(c)' <=> ControllerApproves(c)
        BY <2>1, VerdictKept
      <4>3. LocalsAtLabel(d)'
        BY <1>0, <2>1, <3>2, <4>1, <4>2
           DEF LocalsAtLabel, Requested, WithinBudget, Populated, Pinned, Matched, Rechecked,
               Confirmed, Holding, Awaiting, Unexpired, NonceUnchanged
      <4>4. DispatchedAtLabel(d)
        OBVIOUS
      <4>5. sent.tx.account = AccountOf[c] /\ WithinBudget(sent.tx)
        BY <2>2 DEF sent, Requested
      <4>6. DispatchedAtLabel(d)'
        <5>1. reply[d] = None /\ outcome[d] = "none"
          BY <1>0, <3>2, <4>4 DEF DispatchedAtLabel, TypeOK
        <5>2. /\ dispatched'[d] # None /\ dispatched'[d].tx.account = AccountOf[d]
              /\ WithinBudget(dispatched[d].tx)'
          BY <2>3, <3>2, <4>1, <4>5 DEF WithinBudget
        <5>3. dispatched'[d] = [request |-> local'[d].request, tx |-> local'[d].envelope]
          BY <3>2, <4>1 DEF sent
        <5> QED
          BY <2>1, <4>1, <5>1, <5>2, <5>3, ConstantsAssumption DEF DispatchedAtLabel
      <4> QED BY <3>1, <4>3, <4>6
    <3>3. CASE d # c
      <4>1. pc'[d] = pc[d] /\ local'[d] = local[d] /\ dispatched'[d] = dispatched[d]
        BY <2>1, <3>3 DEF TypeOK
      <4> QED BY <2>1, <3>1, <3>3, <4>1, LocalsFrame, DispatchedFrame
    <3> QED BY <3>2, <3>3
  <2> QED BY <2>4, <2>5, <2>6, <2>8, <2>9, <2>10
<1> QED BY <1>1, <1>2 DEF Sign

\* Every step of a call keeps the invariant.
LEMMA StepInv ==
    ASSUME IInv, NEW c \in Calls, Step(c)
    PROVE  IInv'
<1> UNCHANGED <<nodeVars, recorded>>
  BY DEF Step
<1>1. ASSUME BroadcastAnswered(c) PROVE IInv'
  <2>1. PICK result \in {"sent", "rejected"} : Settle(c, result)
    BY <1>1 DEF BroadcastAnswered
  <2> QED BY <1>1, <2>1, SettleInv DEF BroadcastAnswered, Labels, Awaiting
<1>2. ASSUME AwaitFails(c) PROVE IInv'
  BY <1>2, SettleInv DEF AwaitFails, Reject, Labels, Awaiting
<1> QED
  BY <1>1, <1>2, StartInv, IdentifyInv, CountPendingInv, ReserveInv, PopulateInv, PinBlockInv,
     ReadCodeInv, ConfirmPinInv, LookUpRecordInv, RecheckNonceInv, RecheckBlockInv,
     CompareRecheckInv, RecheckCodeInv, ReconfirmInv, SecondaryInv, SignInv
     DEF Step

-----------------------------------------------------------------------------
(* The world                                                                *)

\* A step of the node that leaves calls and chain alone keeps the invariant if it puts no
\* transaction of a finished call back into the ledger.
LEMMA NodeFrame ==
    ASSUME IInv, UNCHANGED <<callVars, blocks, canon, recorded>>,
           ledger' \in [Accounts -> Seq(Calls \cup {Foreign})], LedgerPositions',
           inflight' \subseteq inflight,
           reply' \in [Calls -> {None, "accepted"}],
           \A d \in Calls : reply'[d] = "accepted" => pc[d] = "broadcast",
           \A d \in inflight' : reply'[d] = reply[d],
           \A d \in Calls : Landed(d)' => Landed(d)
    PROVE  IInv'
<1> USE DEF IInv, callVars
<1>1. TypeOK'
  BY DEF TypeOK, LocalType
<1>2. ReservationsExact' /\ ChainOK' /\ DispatchedAsApproved'
  BY DEF ReservationsExact, Holders, Key, ChainOK, DispatchedAsApproved
<1>3. ASSUME NEW d \in Calls
      PROVE  LocalsAtLabel(d)' /\ DispatchedAtLabel(d)' /\ NonceUnspent(d)'
  <2>1. LocalsAtLabel(d)'
    BY LocalsFrame
  <2>2. DispatchedAtLabel(d)'
    BY DEF DispatchedAtLabel
  <2>3. NonceUnspent(d)'
    BY DEF NonceUnspent, NonceUnchanged, SpentInProcess
  <2> QED BY <2>1, <2>2, <2>3
<1> QED BY <1>1, <1>2, <1>3

\* The node takes a transaction: it lands at its own nonce, and its call has not returned.
LEMMA NodeAcceptsInv ==
    ASSUME IInv, NEW c \in Calls, NodeAccepts(c)
    PROVE  IInv'
<1> DEFINE a == dispatched[c].tx.account
           i == dispatched[c].tx.nonce + 1
<1>1. /\ c \in inflight /\ i <= Len(ledger[a]) + 1
      /\ ledger' = [ledger EXCEPT ![a] =
                       IF i <= Len(@) THEN [@ EXCEPT ![i] = c] ELSE Append(@, c)]
      /\ inflight' = inflight \ {c}
      /\ reply' = [reply EXCEPT ![c] = IF pc[c] = "broadcast" THEN "accepted" ELSE None]
      /\ UNCHANGED <<callVars, blocks, canon, recorded>>
  BY DEF NodeAccepts
<1>2. DispatchedAtLabel(c) /\ dispatched[c] \in DispatchType \cup {None}
  BY DEF IInv, TypeOK
<1>3. dispatched[c] # None /\ dispatched[c] \in DispatchType
  BY <1>1, <1>2 DEF DispatchedAtLabel
<1>4. a \in Accounts /\ i \in Nat \ {0}
  BY <1>3 DEF DispatchType, Envelope
<1>5. outcome[c] # "sent" /\ outcome' = outcome /\ dispatched' = dispatched
  BY <1>1, <1>2 DEF DispatchedAtLabel, callVars
<1>6. ledger[a] \in Seq(Calls \cup {Foreign})
  BY <1>4 DEF IInv, TypeOK
<1> HIDE DEF i
<1>7. /\ ledger'[a] \in Seq(Calls \cup {Foreign})
      /\ i \in DOMAIN ledger'[a]
      /\ ledger'[a][i] = c
      /\ \A j \in DOMAIN ledger'[a] : j # i =>
            j \in DOMAIN ledger[a] /\ ledger'[a][j] = ledger[a][j]
  <2>1. CASE i <= Len(ledger[a])
    <3>1. ledger'[a] = [ledger[a] EXCEPT ![i] = c]
      BY <1>1, <1>4, <2>1 DEF IInv, TypeOK
    <3> QED BY <3>1, <2>1, <1>4, <1>6
  <2>2. CASE ~ i <= Len(ledger[a])
    <3>1. ledger'[a] = Append(ledger[a], c) /\ i = Len(ledger[a]) + 1
      BY <1>1, <1>4, <1>6, <2>2 DEF IInv, TypeOK
    <3> QED BY <3>1, <1>6
  <2> QED BY <2>1, <2>2
<1>8. \A b \in Accounts \ {a} : ledger'[b] = ledger[b]
  BY <1>1 DEF IInv, TypeOK
<1>9. ledger' \in [Accounts -> Seq(Calls \cup {Foreign})]
  <2>1. ledger' = [b \in Accounts |-> ledger'[b]]
    BY <1>1 DEF IInv, TypeOK
  <2>2. \A b \in Accounts : ledger'[b] \in Seq(Calls \cup {Foreign})
    BY <1>7, <1>8 DEF IInv, TypeOK
  <2> QED BY <2>1, <2>2
<1>10. LedgerPositions'
  <2> SUFFICES ASSUME NEW b \in Accounts, NEW j \in DOMAIN ledger'[b],
                      ledger'[b][j] # Foreign
               PROVE  /\ dispatched[ledger'[b][j]] # None
                      /\ dispatched[ledger'[b][j]].tx.account = b
                      /\ dispatched[ledger'[b][j]].tx.nonce + 1 = j
    BY <1>5 DEF LedgerPositions
  <2>1. CASE b = a /\ j = i
    BY <2>1, <1>3, <1>7 DEF i
  <2>2. CASE ~ (b = a /\ j = i)
    <3>1. j \in DOMAIN ledger[b] /\ ledger'[b][j] = ledger[b][j]
      BY <2>2, <1>7, <1>8
    <3> QED BY <3>1 DEF IInv, LedgerPositions
  <2> QED BY <2>1, <2>2
<1>11. ASSUME NEW d \in Calls, Landed(d)' PROVE Landed(d)
  <2> DEFINE b == dispatched[d].tx.account
             j == dispatched[d].tx.nonce + 1
  <2>1. outcome[d] = "sent" /\ j \in DOMAIN ledger'[b] /\ ledger'[b][j] = d /\ d # c
    BY <1>5, <1>11 DEF Landed
  <2>2. dispatched[d] \in DispatchType
    <3>1. DispatchedAtLabel(d) /\ dispatched[d] \in DispatchType \cup {None}
      BY DEF IInv, TypeOK
    <3> QED BY <2>1, <3>1 DEF DispatchedAtLabel
  <2>3. b \in Accounts
    BY <2>2 DEF DispatchType, Envelope
  <2>4. j \in DOMAIN ledger[b] /\ ledger[b][j] = d
    BY <2>1, <2>3, <1>7, <1>8
  <2> QED BY <2>1, <2>4 DEF Landed
<1>12. \A d \in Calls : reply'[d] = "accepted" => pc[d] = "broadcast"
  <2>1. \A d \in Calls : reply[d] = "accepted" => pc[d] = "broadcast"
    BY DEF IInv, DispatchedAtLabel
  <2> QED BY <1>1, <2>1, ConstantsAssumption DEF IInv, TypeOK
<1>13. /\ inflight' \subseteq inflight
       /\ reply' \in [Calls -> {None, "accepted"}]
       /\ \A d \in inflight' : reply'[d] = reply[d]
  BY <1>1 DEF IInv, TypeOK
<1> QED BY <1>1, <1>9, <1>10, <1>11, <1>12, <1>13, NodeFrame

\* A lost transaction disturbs nothing.
LEMMA NodeDropsInv ==
    ASSUME IInv, NEW c \in Calls, NodeDrops(c)
    PROVE  IInv'
<1>1. /\ inflight' = inflight \ {c}
      /\ UNCHANGED <<callVars, nodeVars, reply, recorded>>
  BY DEF NodeDrops
<1>2. LedgerPositions' /\ ledger' \in [Accounts -> Seq(Calls \cup {Foreign})]
  BY <1>1 DEF IInv, TypeOK, LedgerPositions, callVars, nodeVars
<1>3. \A d \in Calls : Landed(d)' => Landed(d)
  BY <1>1 DEF Landed, callVars, nodeVars
<1>4. \A d \in Calls : reply'[d] = "accepted" => pc[d] = "broadcast"
  BY <1>1 DEF IInv, DispatchedAtLabel
<1> QED BY <1>1, <1>2, <1>3, <1>4, NodeFrame DEF IInv, TypeOK, nodeVars

\* A ledger that loses its tail, or gains a foreign transaction, holds no call it did not.
LEMMA LedgerShrinks ==
    ASSUME IInv, NEW a \in Accounts, NEW s \in Seq(Calls \cup {Foreign}),
           \A j \in DOMAIN s : s[j] = Foreign \/ (j \in DOMAIN ledger[a] /\ s[j] = ledger[a][j]),
           ledger' = [ledger EXCEPT ![a] = s],
           UNCHANGED <<callVars, netVars, blocks, canon, recorded>>
    PROVE  IInv'
<1>1. dispatched' = dispatched /\ outcome' = outcome
  BY DEF callVars
<1>2. \A b \in Accounts : ledger'[b] = IF b = a THEN s ELSE ledger[b]
  BY DEF IInv, TypeOK
<1>3. ledger' \in [Accounts -> Seq(Calls \cup {Foreign})]
  BY DEF IInv, TypeOK
<1>4. \A b \in Accounts : \A j \in DOMAIN ledger'[b] :
         \/ ledger'[b][j] = Foreign
         \/ j \in DOMAIN ledger[b] /\ ledger'[b][j] = ledger[b][j]
  BY <1>2
<1>5. LedgerPositions'
  BY <1>1, <1>4 DEF IInv, LedgerPositions
<1>6. ASSUME NEW d \in Calls, Landed(d)' PROVE Landed(d)
  <2>1. DispatchedAtLabel(d) /\ dispatched[d] \in DispatchType \cup {None}
    BY DEF IInv, TypeOK
  <2>2. outcome[d] = "sent" /\ dispatched[d] \in DispatchType
    BY <1>1, <1>6, <2>1 DEF Landed, DispatchedAtLabel
  <2>3. dispatched[d].tx.account \in Accounts
    BY <2>2 DEF DispatchType, Envelope
  <2> QED BY <1>1, <1>4, <1>6, <2>3, ConstantsAssumption DEF Landed
<1>7. \A d \in Calls : reply[d] = "accepted" => pc[d] = "broadcast"
  BY DEF IInv, DispatchedAtLabel
<1> QED BY <1>3, <1>5, <1>6, <1>7, NodeFrame DEF IInv, TypeOK, netVars

\* Transactions of others, and evictions, keep the invariant.
LEMMA ForeignSendInv ==
    ASSUME IInv, NEW a \in Accounts, ForeignSend(a)
    PROVE  IInv'
<1>1. ledger[a] \in Seq(Calls \cup {Foreign})
  BY DEF IInv, TypeOK
<1> DEFINE s == Append(ledger[a], Foreign)
<1>2. /\ s \in Seq(Calls \cup {Foreign})
      /\ \A j \in DOMAIN s : s[j] = Foreign \/ (j \in DOMAIN ledger[a] /\ s[j] = ledger[a][j])
  BY <1>1
<1>3. /\ ledger' = [ledger EXCEPT ![a] = s]
      /\ UNCHANGED <<callVars, netVars, blocks, canon, recorded>>
  BY DEF ForeignSend
<1> HIDE DEF s
<1> QED BY <1>2, <1>3, LedgerShrinks

\* Forgetting the tail of a ledger keeps the invariant.
LEMMA EvictInv ==
    ASSUME IInv, NEW a \in Accounts, Evict(a)
    PROVE  IInv'
<1>1. ledger[a] \in Seq(Calls \cup {Foreign})
  BY DEF IInv, TypeOK
<1>2. PICK n \in 0 .. Len(ledger[a]) - 1 : ledger' = [ledger EXCEPT ![a] = SubSeq(@, 1, n)]
  BY DEF Evict
<1> DEFINE s == SubSeq(ledger[a], 1, n)
<1>3. /\ s \in Seq(Calls \cup {Foreign})
      /\ \A j \in DOMAIN s : s[j] = Foreign \/ (j \in DOMAIN ledger[a] /\ s[j] = ledger[a][j])
  BY <1>1, <1>2, SubSeqProperties
<1>4. /\ ledger' = [ledger EXCEPT ![a] = s]
      /\ UNCHANGED <<callVars, netVars, blocks, canon, recorded>>
  BY <1>2 DEF Evict
<1> HIDE DEF s
<1> QED BY <1>3, <1>4, LedgerShrinks

\* A new block at the end of the chain, or in place of its last block, keeps what calls have
\* read of older blocks: a block once replaced does not come back.
LEMMA ProduceInv ==
    ASSUME IInv, NEW k \in {Len(canon), Len(canon) - 1}, k > 0,
           NEW code \in CodeHashes, NEW tick \in Nat,
           Produce(SubSeq(canon, 1, k), code, tick)
    PROVE  IInv'
<1> DEFINE parent == SubSeq(canon, 1, k)
           new    == Len(blocks) + 1
           block  == [number |-> Len(parent) + 1, code |-> code,
                      time |-> blocks[parent[Len(parent)]].time + tick]
<1> USE DEF IInv
<1>1. /\ blocks' = Append(blocks, block) /\ canon' = Append(parent, new)
      /\ UNCHANGED <<callVars, netVars, ledger, recorded>>
  BY DEF Produce
<1>2. /\ blocks \in Seq(BlockType) /\ canon \in Seq(1 .. Len(blocks))
      /\ Len(canon) \in Nat /\ k \in Nat /\ k <= Len(canon) /\ Len(canon) <= k + 1
  BY DEF TypeOK
<1>3. /\ parent \in Seq(1 .. Len(blocks)) /\ Len(parent) = k
      /\ \A i \in 1 .. k : parent[i] = canon[i]
  BY <1>2, SubSeqProperties
<1> HIDE DEF parent
<1>4. block \in BlockType
  <2>1. parent[k] \in 1 .. Len(blocks)
    BY <1>2, <1>3
  <2>2. blocks[parent[k]] \in BlockType
    BY <2>1, <1>2
  <2>3. blocks[parent[k]].time \in Nat
    BY <2>2 DEF BlockType
  <2>4. blocks[parent[k]].time + tick \in Nat /\ k + 1 \in Nat \ {0}
    BY <2>3, <1>2, SMTT(30)
  <2> QED BY <2>4, <1>3 DEF BlockType
<1> HIDE DEF block
<1>5. /\ blocks' \in Seq(BlockType) /\ Len(blocks') = new /\ blocks'[new] = block
      /\ \A h \in 1 .. Len(blocks) : blocks'[h] = blocks[h]
  BY <1>1, <1>2, <1>4
<1>6. /\ canon' \in Seq(1 .. Len(blocks')) /\ Len(canon') = k + 1 /\ canon'[k + 1] = new
      /\ \A i \in 1 .. k : canon'[i] = canon[i]
  <2>1. parent \in Seq(1 .. Len(blocks')) /\ new \in 1 .. Len(blocks')
    BY <1>2, <1>3, <1>5
  <2> QED BY <2>1, <1>1, <1>2, <1>3
<1>7. TypeOK'
  <2>1. LocalType \subseteq LocalType'
    BY <1>2, <1>5 DEF LocalType
  <2> QED BY <1>1, <1>5, <1>6, <2>1 DEF TypeOK, callVars, netVars
<1>8. ReservationsExact' /\ DispatchedAsApproved' /\ LedgerPositions'
  BY <1>1 DEF ReservationsExact, Holders, Key, DispatchedAsApproved, LedgerPositions,
              callVars
<1>9. block.number = k + 1
  BY <1>3 DEF block
<1>10. ChainOK'
  <2>1. \A i \in 1 .. k : canon[i] \in 1 .. Len(blocks) /\ blocks[canon[i]].number = i
    BY <1>2 DEF ChainOK
  <2>2. \A i \in 1 .. k + 1 : blocks'[canon'[i]].number = i
    <3> SUFFICES ASSUME NEW i \in 1 .. k + 1 PROVE blocks'[canon'[i]].number = i
      OBVIOUS
    <3>1. CASE i \in 1 .. k
      BY <3>1, <1>5, <1>6, <2>1
    <3>2. CASE i = k + 1
      BY <3>2, <1>5, <1>6, <1>9
    <3> QED BY <3>1, <3>2, <1>2
  <2>3. \A h \in 1 .. Len(blocks) : blocks[h].number <= Len(canon) /\ blocks[h].number \in Nat
    <3>1. \A h \in 1 .. Len(blocks) : blocks[h] \in BlockType
      BY <1>2
    <3>2. DOMAIN blocks = 1 .. Len(blocks)
      BY <1>2
    <3> QED BY <3>1, <3>2 DEF ChainOK, BlockType
  <2>4. \A h \in 1 .. new : blocks'[h].number <= k + 1
    BY <1>2, <1>5, <1>9, <2>3
  <2>5. DOMAIN canon' = 1 .. k + 1 /\ DOMAIN blocks' = 1 .. new
    BY <1>2, <1>5, <1>6
  <2> QED BY <1>2, <1>6, <2>2, <2>4, <2>5, SMTT(30) DEF ChainOK
<1>11. ASSUME NEW h \in DOMAIN blocks, NEW read, ReadFrom(h, read)
       PROVE  ReadFrom(h, read)'
  <2>1. h \in 1 .. Len(blocks) /\ blocks'[h] = blocks[h]
    BY <1>2, <1>5, SMTT(30)
  <2>2. blocks[h].number \in DOMAIN canon
    BY ChainFacts
  <2>3. CASE blocks[h].number \in 1 .. k
    BY <2>1, <2>3, <1>6, <1>11 DEF ReadFrom, SameBlock, SameHeight
  <2>4. CASE blocks[h].number = k + 1
    BY <2>1, <2>4, <1>2, <1>6 DEF ReadFrom, SameBlock, SameHeight
  <2> QED BY <2>2, <2>3, <2>4, <1>2
<1>12. ASSUME NEW d \in Calls
       PROVE  LocalsAtLabel(d)' /\ DispatchedAtLabel(d)' /\ NonceUnspent(d)'
  <2>1. /\ pc' = pc /\ local' = local /\ dispatched' = dispatched /\ outcome' = outcome
        /\ reply' = reply /\ inflight' = inflight /\ recorded' = recorded
    BY <1>1 DEF callVars, netVars
  <2>2. DispatchedAtLabel(d)' /\ NonceUnspent(d)'
    BY <2>1, <1>1, DispatchedFrame, UnspentFrame
  <2>3. LocalsAtLabel(d)
    OBVIOUS
  <2>4. local[d] \in LocalType /\ DOMAIN blocks = 1 .. Len(blocks)
    BY <1>2 DEF TypeOK
  <2>5. \A h \in DOMAIN blocks : h \in DOMAIN blocks' /\ blocks'[h] = blocks[h]
    BY <1>2, <1>5, SMTT(30)
  <2>6. local[d].latest # 0 => local[d].latest \in DOMAIN blocks
    BY <2>4, <1>2 DEF LocalType
  <2>7. pc[d] \in Pinned =>
           (AuthorizationHolds(d)' <=> AuthorizationHolds(d))
    BY <2>1, <2>3, <2>5 DEF LocalsAtLabel, AuthorizationHolds, ActualCommitment
  <2>8. /\ IntentMatches(d)' <=> IntentMatches(d)
        /\ ControllerApproves(d)' <=> ControllerApproves(d)
        /\ NonceUnchanged(d)' <=> NonceUnchanged(d)
    BY <2>1 DEF IntentMatches, ControllerApproves, NonceUnchanged
  <2>9. local[d].latest # 0 => (Unexpired(d)' <=> Unexpired(d))
    BY <2>1, <2>5, <2>6 DEF Unexpired
  <2>10. pc[d] = "confirm" => ReadFrom(local[d].pin, local[d].code)'
    BY <2>1, <2>3, <1>11
       DEF LocalsAtLabel, Pinned, Populated, Holding, Awaiting
  <2>11. pc[d] = "reconfirm" => ReadFrom(local[d].latest, local[d].recode)'
    BY <2>1, <2>3, <2>6, <1>11 DEF LocalsAtLabel, Rechecked, Matched
  <2>12. /\ Matched \cup {"lookup"} \subseteq Pinned /\ Rechecked \subseteq Matched
         /\ Confirmed \subseteq Rechecked
    BY DEF Matched, Pinned, Rechecked, Confirmed, Populated, Holding, Awaiting
  <2>13. LocalsAtLabel(d)'
    BY <2>1, <2>3, <2>5, <2>6, <2>7, <2>8, <2>9, <2>10, <2>11, <2>12
       DEF LocalsAtLabel, Requested, WithinBudget
  <2> QED BY <2>2, <2>13
<1> QED BY <1>7, <1>8, <1>10, <1>12

\* A crash ends the calls of one process and frees exactly their keys.
LEMMA CrashInv ==
    ASSUME IInv, NEW p \in Processes, Crash(p)
    PROVE  IInv'
<1> DEFINE dead == {c \in Calls : ProcessOf[c] = p /\ pc[c] \notin {"idle", "done"}}
<1> USE DEF IInv
<1>1. /\ pc' = [c \in Calls |-> IF c \in dead THEN "done" ELSE pc[c]]
      /\ outcome' = [c \in Calls |-> IF c \in dead THEN "crashed" ELSE outcome[c]]
      /\ local' = [c \in Calls |-> IF c \in dead THEN Blank ELSE local[c]]
      /\ reply' = [c \in Calls |-> IF c \in dead THEN None ELSE reply[c]]
      /\ reservations' = [reservations EXCEPT ![p] = {}]
      /\ UNCHANGED <<signerCalls, dispatched, nodeVars, inflight, recorded>>
  BY DEF Crash
<1>2. TypeOK'
  <2>1. Blank \in LocalType
    BY DEF Blank, LocalType
  <2>2. local' \in [Calls -> LocalType]'
    BY <1>1, <2>1 DEF TypeOK, LocalType, nodeVars
  <2>3. reservations' \in [Processes -> SUBSET (Accounts \X Nat)]
    BY <1>1 DEF TypeOK
  <2> QED BY <1>1, <2>2, <2>3 DEF TypeOK, Labels, nodeVars
<1>3. ReservationsExact'
  <2> SUFFICES ASSUME NEW q \in Processes
               PROVE  /\ reservations'[q] = {Key(d)' : d \in Holders(q)'}
                      /\ \A d, e \in Holders(q)' : Key(d)' = Key(e)' => d = e
    BY DEF ReservationsExact
  <2>1. CASE q = p
    <3>1. Holders(q)' = {}
      BY <1>1, <2>1 DEF Holders, Holding, Awaiting, TypeOK
    <3>2. reservations'[q] = {}
      BY <1>1, <2>1 DEF TypeOK
    <3> QED BY <3>1, <3>2
  <2>2. CASE q # p
    <3>1. Holders(q)' = Holders(q) /\ \A d \in Holders(q) : Key(d)' = Key(d)
      BY <1>1, <2>2 DEF Holders, Key
    <3>2. reservations'[q] = reservations[q]
      BY <1>1, <2>2 DEF TypeOK
    <3> QED BY <3>1, <3>2 DEF ReservationsExact
  <2> QED BY <2>1, <2>2
<1>4. ChainOK' /\ DispatchedAsApproved' /\ LedgerPositions'
  BY <1>1 DEF ChainOK, DispatchedAsApproved, LedgerPositions, nodeVars
<1>5. ASSUME NEW d \in Calls
      PROVE  LocalsAtLabel(d)' /\ DispatchedAtLabel(d)' /\ NonceUnspent(d)'
  <2>1. CASE d \in dead
    <3>1. /\ pc'[d] = "done" /\ local'[d] = Blank /\ outcome'[d] = "crashed"
          /\ reply'[d] = None /\ dispatched' = dispatched /\ inflight' = inflight
      BY <1>1, <2>1
    <3>2. LocalsAtLabel(d)'
      BY <3>1 DEF LocalsAtLabel, Blank, Populated, Pinned, Matched, Rechecked, Confirmed,
                  Holding, Awaiting
    <3>3. DispatchedAtLabel(d)
      OBVIOUS
    <3>4. DispatchedAtLabel(d)'
      BY <3>1, <3>3, ConstantsAssumption DEF DispatchedAtLabel
    <3>5. NonceUnspent(d)'
      BY <3>1 DEF NonceUnspent, Matched
    <3> QED BY <3>2, <3>4, <3>5
  <2>2. CASE d \notin dead
    <3>1. /\ pc'[d] = pc[d] /\ local'[d] = local[d] /\ outcome'[d] = outcome[d]
          /\ reply'[d] = reply[d] /\ dispatched' = dispatched /\ inflight' = inflight
          /\ blocks' = blocks /\ canon' = canon /\ ledger' = ledger /\ recorded' = recorded
      BY <1>1, <2>2 DEF nodeVars
    <3>2. \A e \in Calls : outcome'[e] = "sent" => outcome[e] = "sent"
      BY <1>1
    <3> QED BY <3>1, <3>2, LocalsFrame, DispatchedFrame, UnspentFrame
  <2> QED BY <2>1, <2>2
<1> QED BY <1>2, <1>3, <1>4, <1>5

\* Records only become readable.
LEMMA RecordVerifiedInv ==
    ASSUME IInv, NEW a \in AuthIds, RecordVerified(a)
    PROVE  IInv'
<1> USE DEF IInv, callVars, nodeVars, netVars
<1>1. recorded' = recorded \cup {a} /\ UNCHANGED <<callVars, nodeVars, netVars>>
  BY DEF RecordVerified
<1>2. TypeOK' /\ ReservationsExact' /\ ChainOK' /\ DispatchedAsApproved' /\ LedgerPositions'
  BY <1>1 DEF TypeOK, LocalType, ReservationsExact, Holders, Key, ChainOK,
              DispatchedAsApproved, LedgerPositions
<1>3. ASSUME NEW d \in Calls
      PROVE  LocalsAtLabel(d)' /\ DispatchedAtLabel(d)' /\ NonceUnspent(d)'
  <2>1. DispatchedAtLabel(d)' /\ NonceUnspent(d)'
    BY <1>1, DispatchedFrame, UnspentFrame
  <2>2. /\ AuthorizationHolds(d)' <=> AuthorizationHolds(d)
        /\ IntentMatches(d)' <=> IntentMatches(d)
        /\ ControllerApproves(d)' <=> ControllerApproves(d)
        /\ Unexpired(d)' <=> Unexpired(d)
        /\ NonceUnchanged(d)' <=> NonceUnchanged(d)
        /\ ReadFrom(local[d].pin, local[d].code)' <=> ReadFrom(local[d].pin, local[d].code)
        /\ ReadFrom(local[d].latest, local[d].recode)'
             <=> ReadFrom(local[d].latest, local[d].recode)
    BY <1>1 DEF AuthorizationHolds, ActualCommitment, IntentMatches, ControllerApproves,
                Unexpired, NonceUnchanged, ReadFrom, SameBlock, SameHeight
  <2>3. LocalsAtLabel(d)
    OBVIOUS
  <2>4. LocalsAtLabel(d)'
    BY <1>1, <2>2, <2>3 DEF LocalsAtLabel, Requested, WithinBudget
  <2> QED BY <2>1, <2>4
<1> QED BY <1>2, <1>3

\* Every step of the world keeps the invariant.
LEMMA WorldInv ==
    ASSUME IInv, World
    PROVE  IInv'
<1>1. ASSUME NewBlock PROVE IInv'
  <2>1. PICK code \in CodeHashes, tick \in 1 .. MaxTick : Produce(canon, code, tick)
    BY <1>1 DEF NewBlock
  <2>2. canon \in Seq(1 .. Len(blocks)) /\ Len(canon) > 0 /\ Len(canon) \in Nat
    BY DEF IInv, TypeOK, ChainOK
  <2>3. SubSeq(canon, 1, Len(canon)) = canon
    BY <2>2, SubSeqFull
  <2>4. Produce(SubSeq(canon, 1, Len(canon)), code, tick)
    BY <2>1, <2>3
  <2>5. \A k \in {Len(canon), Len(canon) - 1} :
           k > 0 /\ Produce(SubSeq(canon, 1, k), code, tick) => IInv'
    BY <2>1, ProduceInv
  <2> QED BY <2>2, <2>4, <2>5
<1>2. ASSUME Reorg PROVE IInv'
  <2>1. PICK code \in CodeHashes, tick \in 1 .. MaxTick :
           Produce(SubSeq(canon, 1, Len(canon) - 1), code, tick)
    BY <1>2 DEF Reorg
  <2>2. Len(canon) \in Nat /\ Len(canon) > 1
    BY <1>2 DEF IInv, TypeOK, Reorg
  <2> QED BY <2>1, <2>2, ProduceInv
<1> QED
  BY <1>1, <1>2, CrashInv, NodeAcceptsInv, NodeDropsInv, ForeignSendInv, EvictInv,
     RecordVerifiedInv
     DEF World

\* A step that changes no variable keeps the invariant.
LEMMA StutterInv ==
    ASSUME IInv, UNCHANGED vars
    PROVE  IInv'
<1> USE DEF IInv, vars, callVars, nodeVars, netVars
<1>1. TypeOK' /\ ReservationsExact' /\ ChainOK' /\ DispatchedAsApproved' /\ LedgerPositions'
  BY DEF TypeOK, LocalType, ReservationsExact, Holders, Key, ChainOK, DispatchedAsApproved,
         LedgerPositions
<1>2. \A d \in Calls : LocalsAtLabel(d)' /\ DispatchedAtLabel(d)' /\ NonceUnspent(d)'
  BY LocalsFrame, DispatchedFrame, UnspentFrame
<1> QED BY <1>1, <1>2

-----------------------------------------------------------------------------
(* Theorems                                                                 *)

\* IInv holds in every reachable state: whatever the calls, the wallets, the signers and the
\* nodes answer, and wherever the processes crash.
THEOREM Invariance == Spec => []IInv
<1>1. ASSUME IInv, [Next]_vars PROVE IInv'
  BY <1>1, StepInv, WorldInv, StutterInv DEF Next
<1> QED BY InitInv, <1>1, PTL DEF Spec

\* The variables keep their types.
THEOREM TypeCorrect == Spec => []TypeOK
<1>1. IInv => TypeOK
  BY DEF IInv
<1> QED BY <1>1, Invariance, PTL

\* The reservation set of a process is exactly the keys of its calls inside their try block,
\* which differ: reserveNonce and releaseNonce neither leak a key nor free another call's.
THEOREM ReservationsAreExact == Spec => []ReservationsExact
<1>1. IInv => ReservationsExact
  BY DEF IInv
<1> QED BY <1>1, Invariance, PTL

\* Everything guardAndSendVerified hands to broadcastTransaction has a verified record that
\* commits to its sender, nonce and effect, and a fee the controller signed for.
THEOREM DispatchIsApproved == Spec => []DispatchedAsApproved
<1>1. IInv => DispatchedAsApproved
  BY DEF IInv
<1> QED BY <1>1, Invariance, PTL

\* One authorization never occupies two nonces in the node's ledger.
THEOREM AuthorizationIsUsedOnce == Spec => []AuthorizationUsedOnce
<1>1. IInv => AuthorizationUsedOnce
  <2> SUFFICES ASSUME IInv, NEW a \in Accounts, NEW b \in Accounts,
                      NEW i \in DOMAIN ledger[a], NEW j \in DOMAIN ledger[b],
                      ledger[a][i] \in Calls, ledger[b][j] \in Calls,
                      dispatched[ledger[a][i]].request.authId
                        = dispatched[ledger[b][j]].request.authId
               PROVE  a = b /\ i = j
    BY DEF AuthorizationUsedOnce
  <2> DEFINE c == ledger[a][i]
             d == ledger[b][j]
  <2>1. /\ dispatched[c] # None /\ dispatched[c].tx.account = a
        /\ dispatched[c].tx.nonce + 1 = i
        /\ dispatched[d] # None /\ dispatched[d].tx.account = b
        /\ dispatched[d].tx.nonce + 1 = j
    BY ConstantsAssumption DEF IInv, LedgerPositions
  <2>2. \A e \in {c, d} :
           /\ dispatched[e].tx.account = Commitment[dispatched[e].request.authId].account
           /\ dispatched[e].tx.nonce = Commitment[dispatched[e].request.authId].nonce
    BY <2>1 DEF IInv, DispatchedAsApproved
  <2> QED BY <2>1, <2>2
<1> QED BY <1>1, Invariance, PTL

\* The checks that guard the signer hold of one and the same block, though its header, its
\* code and its place in the chain are read in three requests with reorganisations between.
THEOREM SignsUnderTheSameBlock == Spec => []SignsUnderOneBlock
<1>1. IInv => SignsUnderOneBlock
  <2> SUFFICES ASSUME IInv, NEW c \in Calls, pc[c] \in {"sign", "broadcast"}
               PROVE  LET record == Commitment[local[c].request.authId]
                          latest == blocks[local[c].latest]
                          pin    == blocks[local[c].pin]
                      IN  /\ latest.time < record.validUntil
                          /\ latest.code = record.code
                          /\ pin.code = record.code
                          /\ pin.number <= latest.number
    BY DEF SignsUnderOneBlock
  <2>1. LocalsAtLabel(c) /\ pc[c] \in Confirmed /\ pc[c] \in Rechecked /\ pc[c] \in Matched
    BY DEF IInv, Confirmed, Rechecked, Matched
  <2>2. /\ Unexpired(c) /\ AuthorizationHolds(c) /\ local[c].latest # 0
        /\ local[c].code = blocks[local[c].pin].code
        /\ local[c].recode = local[c].code
        /\ local[c].recode = blocks[local[c].latest].code
        /\ blocks[local[c].pin].number <= blocks[local[c].latest].number
    BY <2>1 DEF LocalsAtLabel
  <2>3. Commitment[local[c].request.authId].code = local[c].code
    BY <2>2 DEF AuthorizationHolds, ActualCommitment
  <2> QED BY <2>2, <2>3 DEF Unexpired
<1> QED BY <1>1, Invariance, PTL

\* A step that reaches the signer is the end of the rechecks of that very call.
LEMMA ReachingTheSigner ==
    ASSUME TypeOK, [Next]_vars, NEW c \in Calls, pc'[c] = "sign", pc[c] # "sign"
    PROVE  pc[c] \in {"reconfirm", "secondary"}
<1> USE DEF vars, callVars
<1>1. CASE UNCHANGED vars
  BY <1>1
<1>2. ASSUME NEW d \in Calls, Step(d) PROVE pc[c] \in {"reconfirm", "secondary"}
  <2> USE DEF TypeOK, Goto, Reject, Settle, CallSigner
  <2>1. CASE d # c
    BY <1>2, <2>1
       DEF Step, Start, Identify, CountPending, Reserve, Populate, PinBlock, ReadCode,
           ConfirmPin, LookUpRecord, RecheckNonce, RecheckBlock, CompareRecheck,
           RecheckCode, Reconfirm, Secondary, Sign, BroadcastAnswered, AwaitFails
  <2>2. CASE d = c
    BY <1>2, <2>2
       DEF Step, Start, Identify, CountPending, Reserve, Populate, PinBlock, ReadCode,
           ConfirmPin, LookUpRecord, RecheckNonce, RecheckBlock, CompareRecheck,
           RecheckCode, Reconfirm, Secondary, Sign, BroadcastAnswered, AwaitFails
  <2> QED BY <2>1, <2>2
<1>3. CASE World
  <2>1. ASSUME NEW p \in Processes, Crash(p) PROVE FALSE
    BY <2>1 DEF Crash
  <2> QED
    BY <1>3, <2>1 DEF World, NodeAccepts, NodeDrops, ForeignSend, Evict, NewBlock, Reorg,
                      Produce, RecordVerified
<1> QED BY <1>1, <1>2, <1>3 DEF Next

\* Within a process the signer is never asked for a nonce on which another call has already
\* sent its transaction: the reservation and the second count together exclude it.
THEOREM SignerNeverSeesSpentNonce == Spec => NeverSignsSpentNonce
<1>1. ASSUME IInv, [Next]_vars, NEW c \in Calls, pc'[c] = "sign", pc[c] # "sign"
      PROVE  ~ SpentInProcess(c)
  <2>1. pc[c] \in {"reconfirm", "secondary"}
    BY <1>1, ReachingTheSigner DEF IInv
  <2>2. NonceUnchanged(c) /\ pc[c] \in Matched
    BY <1>1, <2>1 DEF IInv, LocalsAtLabel, Matched, Rechecked
  <2> QED BY <1>1, <2>2 DEF IInv, NonceUnspent
<1>2. ASSUME IInv, [Next]_vars
      PROVE  [\A c \in Calls : pc'[c] = "sign" /\ pc[c] # "sign" => ~ SpentInProcess(c)]_vars
  BY <1>1, <1>2
<1> QED BY <1>2, Invariance, PTL DEF Spec, NeverSignsSpentNonce

-----------------------------------------------------------------------------
(* A call goes forward only                                                 *)

\* The steps left at each label.
LEMMA StepsAtLabel ==
    ASSUME NEW l
    PROVE  /\ StepsFrom("idle", l) = 17 /\ StepsFrom("identify", l) = 16
           /\ StepsFrom("count", l) = 15 /\ StepsFrom("reserve", l) = 14
           /\ StepsFrom("populate", l) = 13 /\ StepsFrom("pin", l) = 12
           /\ StepsFrom("code", l) = 11 /\ StepsFrom("confirm", l) = 10
           /\ StepsFrom("lookup", l) = 9 /\ StepsFrom("recode", l) = 5
           /\ StepsFrom("reconfirm", l) = 4 /\ StepsFrom("secondary", l) = 3
           /\ StepsFrom("sign", l) = 2 /\ StepsFrom("broadcast", l) = 1
           /\ StepsFrom("done", l) = 0
           /\ StepsFrom("recheck", l) = 6 + (IF l.again = None THEN 1 ELSE 0)
                                          + (IF l.latest = 0 THEN 1 ELSE 0)
  BY DEF StepsFrom

\* A call that has not ended has steps left.
LEMMA StepsPositive ==
    ASSUME NEW label \in Labels, NEW l
    PROVE  /\ StepsFrom(label, l) \in Nat
           /\ label # "done" => StepsFrom(label, l) > 0
<1>1. CASE label = "recheck"
  <2>1. /\ (IF l.again = None THEN 1 ELSE 0) \in {0, 1}
        /\ (IF l.latest = 0 THEN 1 ELSE 0) \in {0, 1}
    OBVIOUS
  <2>2. \A m, n \in {0, 1} : 6 + m + n \in Nat /\ 6 + m + n > 0
    OBVIOUS
  <2>3. StepsFrom(label, l) = 6 + (IF l.again = None THEN 1 ELSE 0)
                                + (IF l.latest = 0 THEN 1 ELSE 0)
    BY <1>1, StepsAtLabel
  <2> HIDE DEF StepsFrom
  <2> QED BY <2>1, <2>2, <2>3
<1>2. CASE label # "recheck"
  BY <1>2, StepsAtLabel DEF Labels, Awaiting
<1> QED BY <1>1, <1>2

\* A step of a call leaves the locals and the labels of the others alone.
LEMMA StepOfOne ==
    ASSUME TypeOK, NEW c \in Calls, NEW d \in Calls, c # d, Step(c)
    PROVE  pc'[d] = pc[d] /\ local'[d] = local[d]
  BY DEF Step, Start, Identify, CountPending, Reserve, Populate, PinBlock, ReadCode,
         ConfirmPin, LookUpRecord, RecheckNonce, RecheckBlock, CompareRecheck, RecheckCode,
         Reconfirm, Secondary, Sign, BroadcastAnswered, AwaitFails, TypeOK, Goto, Reject,
         Settle, CallSigner

\* A call that ends has no steps left, and had some.
LEMMA SettleGoesForward ==
    ASSUME TypeOK, NEW c \in Calls, pc[c] # "done", pc'[c] = "done"
    PROVE  StepsLeft(c)' < StepsLeft(c)
<1>1. StepsLeft(c)' = 0
  BY StepsAtLabel DEF StepsLeft
<1>2. StepsLeft(c) > 0
  BY StepsPositive DEF StepsLeft, TypeOK
<1> QED BY <1>1, <1>2

\* An answer of the recheck that has come is one answer less to wait for.
LEMMA OneAnswerLess ==
    ASSUME NEW l, NEW m,
           \/ l.again = None /\ m.again # None /\ m.latest = l.latest
           \/ l.latest = 0 /\ m.latest # 0 /\ m.again = l.again
    PROVE  StepsFrom("recheck", m) < StepsFrom("recheck", l)
<1> DEFINE n(k) == IF k.again = None THEN 1 ELSE 0
           b(k) == IF k.latest = 0 THEN 1 ELSE 0
<1>1. \A k : StepsFrom("recheck", k) = 6 + n(k) + b(k)
  BY StepsAtLabel
<1>2. n(l) \in {0, 1} /\ b(l) \in {0, 1} /\ n(m) \in {0, 1} /\ b(m) \in {0, 1}
  OBVIOUS
<1>3. \/ n(l) = 1 /\ n(m) = 0 /\ b(m) = b(l)
      \/ b(l) = 1 /\ b(m) = 0 /\ n(m) = n(l)
  OBVIOUS
<1> HIDE DEF n, b
<1> QED BY <1>1, <1>2, <1>3

\* Whichever step a call takes, it has fewer left.
LEMMA StepGoesForward ==
    ASSUME IInv, NEW c \in Calls, Step(c)
    PROVE  StepsLeft(c)' < StepsLeft(c)
<1> USE DEF Goto
<1>1. TypeOK /\ pc \in [Calls -> Labels] /\ local \in [Calls -> LocalType]
  BY DEF IInv, TypeOK
<1>2. CASE pc'[c] = "done"
  BY <1>1, <1>2, SettleGoesForward
     DEF Step, Start, Identify, CountPending, Reserve, Populate, PinBlock, ReadCode,
         ConfirmPin, LookUpRecord, RecheckNonce, RecheckBlock, CompareRecheck, RecheckCode,
         Reconfirm, Secondary, Sign, BroadcastAnswered, AwaitFails, Awaiting
<1>3. CASE pc'[c] # "done"
  <2> USE <1>1, <1>3, StepsAtLabel DEF StepsLeft, Reject, Settle
  <2>1. CASE Start(c)
    BY <2>1 DEF Start
  <2>2. CASE Identify(c)
    BY <2>2 DEF Identify
  <2>3. CASE CountPending(c)
    BY <2>3 DEF CountPending
  <2>4. CASE Reserve(c)
    BY <2>4 DEF Reserve
  <2>5. CASE Populate(c)
    BY <2>5 DEF Populate
  <2>6. CASE PinBlock(c)
    BY <2>6 DEF PinBlock
  <2>7. CASE ReadCode(c)
    BY <2>7 DEF ReadCode
  <2>8. CASE ConfirmPin(c)
    BY <2>8 DEF ConfirmPin
  <2>9. CASE LookUpRecord(c)
    BY <2>9 DEF LookUpRecord
  <2>10. CASE RecheckNonce(c)
    <3>1. /\ pc'[c] = "recheck" /\ pc[c] = "recheck" /\ local[c].again = None
          /\ local'[c] = [local[c] EXCEPT !.again = Pending(AccountOf[c])]
      BY <2>10 DEF RecheckNonce
    <3>2. Pending(AccountOf[c]) \in Nat
      BY DEF TypeOK, Pending
    <3>3. local'[c].again # None /\ local'[c].latest = local[c].latest
      BY <3>1, <3>2 DEF LocalType
    <3> QED BY <3>1, <3>3, OneAnswerLess
  <2>11. CASE RecheckBlock(c)
    <3>1. /\ pc'[c] = "recheck" /\ pc[c] = "recheck" /\ local[c].latest = 0
          /\ local'[c] = [local[c] EXCEPT !.latest = LatestBlock]
      BY <2>11 DEF RecheckBlock
    <3>2. local'[c].latest = LatestBlock /\ local'[c].again = local[c].again
      BY <3>1 DEF LocalType
    <3>3. LatestBlock # 0
      BY ChainFacts DEF IInv
    <3> QED BY <3>1, <3>2, <3>3, OneAnswerLess
  <2>12. CASE CompareRecheck(c)
    BY <2>12 DEF CompareRecheck
  <2>13. CASE RecheckCode(c)
    BY <2>13 DEF RecheckCode
  <2>14. CASE Reconfirm(c)
    BY <2>14 DEF Reconfirm, CallSigner
  <2>15. CASE Secondary(c)
    BY <2>15 DEF Secondary, CallSigner
  <2>16. CASE Sign(c)
    BY <2>16 DEF Sign
  <2>17. CASE BroadcastAnswered(c) \/ AwaitFails(c)
    BY <2>17 DEF BroadcastAnswered, AwaitFails
  <2> QED
    BY <2>1, <2>2, <2>3, <2>4, <2>5, <2>6, <2>7, <2>8, <2>9, <2>10, <2>11, <2>12, <2>13,
       <2>14, <2>15, <2>16, <2>17 DEF Step
<1> QED BY <1>2, <1>3

\* The world ends calls, when a process crashes, and otherwise leaves them where they are.
LEMMA WorldEndsOrWaits ==
    ASSUME TypeOK, World, NEW c \in Calls
    PROVE  \/ pc'[c] = pc[c] /\ local'[c] = local[c]
           \/ pc[c] # "done" /\ pc'[c] = "done"
<1>1. ASSUME NEW p \in Processes, Crash(p)
      PROVE  \/ pc'[c] = pc[c] /\ local'[c] = local[c]
             \/ pc[c] # "done" /\ pc'[c] = "done"
  BY <1>1 DEF Crash
<1>2. CASE UNCHANGED callVars
  BY <1>2 DEF callVars
<1> QED
  BY <1>1, <1>2 DEF World, NodeAccepts, NodeDrops, ForeignSend, Evict, NewBlock, Reorg,
                    Produce, RecordVerified

\* Each step of guardAndSendVerified leaves it fewer steps, and nothing gives it more: no path
\* through it loops or waits twice for one answer, so that a key is held for a bounded number
\* of answers, whatever these are.
THEOREM CallsOnlyGoForward == Spec => CallsGoForward
<1> DEFINE Forward == \A c \in Calls : /\ StepsLeft(c)' <= StepsLeft(c)
                                       /\ Step(c) => StepsLeft(c)' < StepsLeft(c)
<1>1. ASSUME IInv, TypeOK', Next PROVE Forward
  <2> SUFFICES ASSUME NEW c \in Calls
               PROVE  /\ StepsLeft(c)' <= StepsLeft(c)
                      /\ Step(c) => StepsLeft(c)' < StepsLeft(c)
    OBVIOUS
  <2>1. StepsLeft(c) \in Nat /\ StepsLeft(c)' \in Nat
    BY <1>1, StepsPositive DEF StepsLeft, TypeOK, IInv
  <2>2. pc'[c] = pc[c] /\ local'[c] = local[c] => StepsLeft(c)' = StepsLeft(c)
    BY DEF StepsLeft
  <2>3. Step(c) => StepsLeft(c)' < StepsLeft(c)
    BY <1>1, StepGoesForward
  <2>4. StepsLeft(c)' <= StepsLeft(c) \/ StepsLeft(c)' < StepsLeft(c)
    BY <1>1, <2>1, <2>2, <2>3, StepOfOne, WorldEndsOrWaits, SettleGoesForward DEF Next, IInv
  <2>5. StepsLeft(c)' < StepsLeft(c) => StepsLeft(c)' <= StepsLeft(c)
    BY <2>1
  <2> QED BY <2>3, <2>4, <2>5
<1>2. ASSUME IInv, TypeOK', [Next]_vars PROVE [Forward]_vars
  BY <1>1, <1>2
<1> QED BY <1>2, Invariance, TypeCorrect, PTL DEF Spec, CallsGoForward

=============================================================================
