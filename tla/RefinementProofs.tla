--------------------------- MODULE RefinementProofs ---------------------------
(***************************************************************************)
(* GuardedSigner implements AuthorizedExecution, for every value of the    *)
(* constants: every step of a call, a process or the node is a step of the *)
(* abstract system or leaves it as it is.  The MCP server in turn adds     *)
(* nothing to what the guarded signer can do, so all that is proved of the *)
(* signer holds under it.                                                  *)
(***************************************************************************)
EXTENDS McpServer, GuardedSignerProofs

USE ConstantsAssumption

\* The abstract wire and book, as the refinement mapping defines them.
Wire == {IssuedBy(c) : c \in inflight}

Shown(x) == IF x = Foreign THEN Foreign ELSE IssuedBy(x)

Book == [a \in Accounts |-> [i \in DOMAIN ledger[a] |-> Shown(ledger[a][i])]]

\* What a slot of the abstract book can hold.
Images == {Shown(x) : x \in Calls \cup {Foreign}}

abstractVars == <<recorded, Wire, Book>>

\* The mapping reads only the ledger, the wire and what calls have dispatched.
LEMMA MappingFrame ==
    ASSUME UNCHANGED <<recorded, inflight, ledger, dispatched>>
    PROVE  UNCHANGED abstractVars
  BY DEF abstractVars, Wire, Book, Shown, IssuedBy

\* A dispatched transaction is one the abstract system can issue, at its own slot.
LEMMA DispatchedIsIssued ==
    ASSUME IInv, NEW c \in Calls, dispatched[c] # None
    PROVE  /\ IssuedBy(c) \in Abstract!Issued
           /\ IssuedBy(c).authId \in recorded
           /\ Commitment[IssuedBy(c).authId].account = dispatched[c].tx.account
           /\ Abstract!Slot(IssuedBy(c)) = dispatched[c].tx.nonce + 1
           /\ dispatched[c].tx.account \in Accounts
           /\ dispatched[c].tx.nonce \in Nat
<1>1. dispatched[c] \in DispatchType /\ DispatchedAtLabel(c) /\ WithinBudget(dispatched[c].tx)
  BY DEF IInv, TypeOK, DispatchedAtLabel
<1>2. /\ dispatched[c].request.authId \in AuthIds
      /\ dispatched[c].tx.account \in Accounts
      /\ dispatched[c].tx.nonce \in Nat /\ dispatched[c].tx.fee \in Nat
  BY <1>1 DEF DispatchType, RequestType, Envelope
<1>3. /\ dispatched[c].request.authId \in recorded
      /\ dispatched[c].tx.account = Commitment[dispatched[c].request.authId].account
      /\ dispatched[c].tx.nonce = Commitment[dispatched[c].request.authId].nonce
  BY DEF IInv, DispatchedAsApproved
<1>4. dispatched[c].tx.fee \in 0 .. FeeCeiling
  BY <1>1, <1>2 DEF WithinBudget
<1> QED BY <1>2, <1>3, <1>4 DEF IssuedBy, Abstract!Issued, Abstract!Slot

\* An empty ledger and an empty wire are the abstract initial state.
LEMMA InitRefines == ASSUME Init PROVE Abstract!Init
<1>1. Wire = {} /\ recorded = {}
  BY DEF Init, Wire
<1>2. Book = [a \in Accounts |-> <<>>]
  BY DEF Init, Book
<1> QED BY <1>1, <1>2 DEF Abstract!Init, Wire, Book, Shown

\* The dispatch of a signed transaction is the one step of a call that the owner can see.
LEMMA SignRefines ==
    ASSUME IInv, IInv', NEW c \in Calls, Sign(c), UNCHANGED <<nodeVars, recorded>>
    PROVE  Abstract!Next \/ UNCHANGED abstractVars
<1>1. CASE Reject(c)
  BY <1>1, MappingFrame DEF Reject, Settle, nodeVars
<1>2. CASE ~ Reject(c)
  <2>1. PICK raw \in Answers(c) :
           /\ dispatched' = [dispatched EXCEPT
                               ![c] = [request |-> local[c].request, tx |-> raw]]
           /\ inflight' = inflight \cup {c}
    BY <1>2 DEF Sign
  <2>2. pc[c] = "sign" /\ DispatchedAtLabel(c)
    BY DEF Sign, IInv
  <2>3. dispatched[c] = None /\ c \notin inflight
    BY <2>2 DEF DispatchedAtLabel
  <2>4. DispatchedAtLabel(c)'
    BY DEF IInv
  <2>5. dispatched'[c] # None
    BY <2>1, <2>4 DEF DispatchedAtLabel
  <2>6. /\ dispatched'[c] \in DispatchType
        /\ dispatched'[c].request.authId \in recorded'
        /\ dispatched'[c].tx.fee <= FeeCeiling
    BY <2>4, <2>5 DEF IInv, TypeOK, DispatchedAsApproved, DispatchedAtLabel, WithinBudget
  <2>7. dispatched'[c].request.authId \in AuthIds /\ dispatched'[c].tx.fee \in 0 .. FeeCeiling
    BY <2>6 DEF DispatchType, RequestType, Envelope
  <2>8. IssuedBy(c)' \in Abstract!Issued /\ (IssuedBy(c)').authId \in recorded
    BY <2>6, <2>7 DEF IssuedBy, Abstract!Issued
  <2>9. \A d \in Calls \ {c} : IssuedBy(d)' = IssuedBy(d)
    BY <2>1 DEF IssuedBy, IInv, TypeOK
  <2>10. Wire' = Wire \cup {IssuedBy(c)'}
    BY <2>1, <2>3, <2>9 DEF Wire, IInv, TypeOK
  <2>11. Book' = Book
    <3>1. \A a \in Accounts : \A i \in DOMAIN ledger[a] :
             ledger[a][i] # Foreign => ledger[a][i] \in Calls \ {c}
      BY <2>3 DEF IInv, TypeOK, LedgerPositions
    <3>2. \A a \in Accounts : \A i \in DOMAIN ledger[a] :
             Shown(ledger[a][i])' = Shown(ledger[a][i])
      BY <2>9, <3>1 DEF Shown, nodeVars
    <3> QED BY <3>2 DEF Book, nodeVars
  <2>12. Abstract!Issue(IssuedBy(c)')
    BY <2>8, <2>10, <2>11 DEF Abstract!Issue, Wire, Book, Shown
  <2> QED BY <2>8, <2>12 DEF Abstract!Next
<1> QED BY <1>1, <1>2

\* A sequence that is another one with x behind it is what Append makes of them.
LEMMA AppendedImage ==
    ASSUME NEW T, NEW s \in Seq(T), NEW t \in Seq(T), NEW x \in T,
           Len(t) = Len(s) + 1,
           \A j \in 1 .. Len(s) : t[j] = s[j],
           t[Len(s) + 1] = x
    PROVE  t = Append(s, x)
<1>1. /\ Append(s, x) \in Seq(T)
      /\ Len(Append(s, x)) = Len(s) + 1
      /\ \A j \in 1 .. Len(s) : Append(s, x)[j] = s[j]
      /\ Append(s, x)[Len(s) + 1] = x
  BY AppendProperties
<1>2. \A j \in 1 .. Len(s) + 1 : t[j] = Append(s, x)[j]
  <2> SUFFICES ASSUME NEW j \in 1 .. Len(s) + 1 PROVE t[j] = Append(s, x)[j]
    OBVIOUS
  <2>1. CASE j \in 1 .. Len(s)
    BY <2>1, <1>1
  <2>2. CASE j = Len(s) + 1
    BY <2>2, <1>1
  <2>3. Len(s) \in Nat
    OBVIOUS
  <2> QED BY <2>1, <2>2, <2>3
<1> QED BY <1>1, <1>2, SeqEqual

\* A transaction the node takes lands in the abstract book at the slot of its authorization.
LEMMA NodeAcceptsRefines ==
    ASSUME IInv, NEW c \in Calls, NodeAccepts(c)
    PROVE  Abstract!Next
<1> DEFINE a  == dispatched[c].tx.account
           i  == dispatched[c].tx.nonce + 1
<1>1. /\ c \in inflight /\ i <= Len(ledger[a]) + 1
      /\ ledger' = [ledger EXCEPT ![a] =
                       IF i <= Len(@) THEN [@ EXCEPT ![i] = c] ELSE Append(@, c)]
      /\ inflight' = inflight \ {c}
      /\ dispatched' = dispatched /\ recorded' = recorded
  BY DEF NodeAccepts, callVars
<1>2. dispatched[c] # None
  BY <1>1 DEF IInv, DispatchedAtLabel
<1>0. PICK tx \in Abstract!Issued : tx = IssuedBy(c)
  BY <1>2, DispatchedIsIssued
<1>3. /\ tx \in Abstract!Issued
      /\ Commitment[tx.authId].account = a
      /\ Abstract!Slot(tx) = i
      /\ a \in Accounts /\ i \in Nat \ {0}
  BY <1>0, <1>2, DispatchedIsIssued
<1>4. \A d \in Calls : IssuedBy(d)' = IssuedBy(d)
  BY <1>1 DEF IssuedBy
<1>5. tx \in Wire /\ Wire' \in {Wire, Wire \ {tx}}
  BY <1>0, <1>1, <1>4 DEF Wire, IInv, TypeOK
<1>6. \A x : Shown(x)' = Shown(x)
  BY <1>1 DEF Shown, IssuedBy
<1>7. Shown(c) = tx
  BY <1>0, ConstantsAssumption DEF Shown
<1> HIDE DEF i
<1>8. ledger[a] \in Seq(Calls \cup {Foreign}) /\ Len(Book[a]) = Len(ledger[a])
      /\ Book[a] \in Seq({Shown(x) : x \in Calls \cup {Foreign}})
  <2>1. ledger[a] \in Seq(Calls \cup {Foreign})
    BY <1>3 DEF IInv, TypeOK
  <2>2. DOMAIN ledger[a] = 1 .. Len(ledger[a]) /\ Len(ledger[a]) \in Nat
    BY <2>1
  <2>3. Book[a] = [j \in 1 .. Len(ledger[a]) |-> Shown(ledger[a][j])]
    BY <1>3, <2>2 DEF Book
  <2>4. \A j \in 1 .. Len(ledger[a]) : ledger[a][j] \in Calls \cup {Foreign}
    BY <2>1
  <2> QED BY <2>1, <2>2, <2>3, <2>4
<1>9. Book'[a] = IF i <= Len(Book[a]) THEN [Book[a] EXCEPT ![i] = tx] ELSE Append(Book[a], tx)
  <2>1. Book'[a] = [j \in DOMAIN ledger'[a] |-> Shown(ledger'[a][j])]
    BY <1>3, <1>6 DEF Book
  <2>2. Book[a] = [j \in 1 .. Len(ledger[a]) |-> Shown(ledger[a][j])]
    <3>1. Book[a] = [j \in DOMAIN ledger[a] |-> Shown(ledger[a][j])]
      BY <1>3 DEF Book
    <3>2. DOMAIN ledger[a] = 1 .. Len(ledger[a])
      BY <1>8
    <3> QED BY <3>1, <3>2
  <2>3. CASE i <= Len(ledger[a])
    <3>1. ledger'[a] = [ledger[a] EXCEPT ![i] = c]
      BY <1>1, <1>3, <2>3 DEF IInv, TypeOK
    <3>2. DOMAIN ledger'[a] = 1 .. Len(ledger[a]) /\ i \in 1 .. Len(ledger[a])
      BY <3>1, <1>3, <1>8, <2>3
    <3>3. Book'[a] = [j \in 1 .. Len(ledger[a]) |-> IF j = i THEN tx ELSE Shown(ledger[a][j])]
      BY <2>1, <3>1, <3>2, <1>7
    <3> QED BY <3>2, <3>3, <2>2, <2>3, <1>8
  <2>4. CASE ~ i <= Len(ledger[a])
    <3>1. ledger'[a] = Append(ledger[a], c)
      BY <1>1, <1>3, <2>4 DEF IInv, TypeOK
    <3> DEFINE T == {Shown(x) : x \in Calls \cup {Foreign}} \cup {tx}
               n == Len(ledger[a])
    <3>a. tx \in T /\ \A j \in 1 .. n : Shown(ledger[a][j]) \in T
      BY <1>8
    <3>b. Book[a] \in Seq(T) /\ n \in Nat /\ Len(Book[a]) = n
      BY <1>8, <2>2, <3>a
    <3>2. ledger'[a] \in Seq(Calls \cup {Foreign}) /\ Len(ledger'[a]) = n + 1
      BY <3>1, <1>8
    <3>3. /\ DOMAIN ledger'[a] = 1 .. n + 1
          /\ \A j \in 1 .. n : ledger'[a][j] = ledger[a][j]
          /\ ledger'[a][n + 1] = c
      BY <3>1, <3>2, <1>8
    <3>c. Book[a] = [j \in 1 .. n |-> Shown(ledger[a][j])]
      BY <2>2
    <3>d. Book'[a] = [j \in 1 .. n + 1 |-> Shown(ledger'[a][j])]
      BY <2>1, <3>3
    <3> HIDE DEF T, n
    <3>4. /\ Book'[a] \in Seq(T) /\ Len(Book'[a]) = n + 1
          /\ \A j \in 1 .. n : Book'[a][j] = Book[a][j]
          /\ Book'[a][n + 1] = tx
      <4>1. n + 1 \in Nat /\ n + 1 \in 1 .. n + 1 /\ \A j \in 1 .. n : j \in 1 .. n + 1
        BY <3>b
      <4>2. \A j \in 1 .. n : Book'[a][j] = Shown(ledger[a][j]) /\ Book[a][j] = Shown(ledger[a][j])
        BY <3>c, <3>d, <3>3, <4>1
      <4>3. Book'[a][n + 1] = tx
        BY <3>d, <3>3, <4>1, <1>7
      <4>4. \A j \in 1 .. n + 1 : Book'[a][j] \in T
        BY <4>2, <4>3, <3>a, <3>b
      <4>5. DOMAIN Book'[a] = 1 .. n + 1 /\ Book'[a] = [j \in 1 .. n + 1 |-> Book'[a][j]]
        BY <3>d
      <4>6. Book'[a] \in [1 .. n + 1 -> T]
        BY <4>4, <4>5
      <4>7. Book'[a] \in Seq(T) /\ Len(Book'[a]) = n + 1
        BY <4>1, <4>5, <4>6, SeqDef
      <4> QED BY <4>2, <4>3, <4>7
    <3>5. Len(Book'[a]) = Len(Book[a]) + 1 /\ Book'[a][Len(Book[a]) + 1] = tx
      BY <3>b, <3>4
    <3>6. \A j \in 1 .. Len(Book[a]) : Book'[a][j] = Book[a][j]
      BY <3>b, <3>4
    <3>7. Book'[a] = Append(Book[a], tx)
      <4> DEFINE s == Book[a]
                 t == Book'[a]
      <4>1. s \in Seq(T) /\ t \in Seq(T) /\ tx \in T
        BY <3>a, <3>b, <3>4
      <4>2. /\ Len(t) = Len(s) + 1 /\ t[Len(s) + 1] = tx
            /\ \A j \in 1 .. Len(s) : t[j] = s[j]
        BY <3>5, <3>6
      <4> HIDE DEF s, t
      <4>3. t = Append(s, tx)
        BY <4>1, <4>2, AppendedImage
      <4> QED BY <4>3 DEF s, t
    <3> QED BY <3>7, <2>4, <1>8
  <2> QED BY <2>3, <2>4
<1>10. Book' = [Book EXCEPT ![a] =
                  IF i <= Len(@) THEN [@ EXCEPT ![i] = tx] ELSE Append(@, tx)]
  <2>1. \A b \in Accounts \ {a} : ledger'[b] = ledger[b]
    BY <1>1 DEF IInv, TypeOK
  <2>2. \A b \in Accounts \ {a} : Book'[b] = Book[b]
    BY <2>1, <1>6 DEF Book
  <2>3. DOMAIN Book = Accounts /\ DOMAIN Book' = Accounts
    BY DEF Book
  <2>4. Book = [b \in Accounts |-> Book[b]] /\ Book' = [b \in Accounts |-> Book'[b]]
    BY DEF Book
  <2> QED BY <1>3, <1>9, <2>2, <2>3, <2>4
<1>11. Abstract!Land(tx)
  BY <1>1, <1>3, <1>5, <1>8, <1>10
     DEF Abstract!Land, Abstract!Consume, Wire, Book, Shown
<1>12. \E t \in Abstract!Issued : Abstract!Land(t)
  BY <1>3, <1>11
<1> QED BY <1>12 DEF Abstract!Next

\* A transaction that is lost on the way is lost in the abstract system too.
LEMMA NodeDropsRefines ==
    ASSUME IInv, NEW c \in Calls, NodeDrops(c)
    PROVE  Abstract!Next
<1>1. /\ c \in inflight /\ inflight' = inflight \ {c}
      /\ dispatched' = dispatched /\ recorded' = recorded /\ ledger' = ledger
  BY DEF NodeDrops, callVars, nodeVars
<1>2. dispatched[c] # None
  BY <1>1 DEF IInv, DispatchedAtLabel
<1>3. PICK tx \in Abstract!Issued : tx = IssuedBy(c)
  BY <1>2, DispatchedIsIssued
<1>4. tx \in Wire /\ Wire' \in {Wire, Wire \ {tx}}
  BY <1>1, <1>3 DEF Wire, IssuedBy, IInv, TypeOK
<1>5. Book' = Book
  BY <1>1 DEF Book, Shown, IssuedBy
<1>6. Abstract!Lose(tx)
  BY <1>1, <1>4, <1>5 DEF Abstract!Lose, Abstract!Consume, Wire, Book, Shown
<1>7. \E t \in Abstract!Issued : Abstract!Lose(t)
  BY <1>3, <1>6
<1> QED BY <1>7 DEF Abstract!Next

\* A sequence and its image have the same domain, and only the images of calls are calls.
LEMMA BookOf ==
    ASSUME IInv, NEW a \in Accounts
    PROVE  /\ ledger[a] \in Seq(Calls \cup {Foreign})
           /\ Len(ledger[a]) \in Nat /\ DOMAIN ledger[a] = 1 .. Len(ledger[a])
           /\ Book[a] = [j \in 1 .. Len(ledger[a]) |-> Shown(ledger[a][j])]
           /\ \A j \in 1 .. Len(ledger[a]) : Shown(ledger[a][j]) \in Images
           /\ Book[a] \in Seq(Images) /\ Len(Book[a]) = Len(ledger[a])
<1>1. ledger[a] \in Seq(Calls \cup {Foreign})
  BY DEF IInv, TypeOK
<1>2. DOMAIN ledger[a] = 1 .. Len(ledger[a]) /\ Len(ledger[a]) \in Nat
  BY <1>1
<1>3. Book[a] = [j \in 1 .. Len(ledger[a]) |-> Shown(ledger[a][j])]
  BY <1>2 DEF Book
<1>4. \A j \in 1 .. Len(ledger[a]) : Shown(ledger[a][j]) \in Images
  BY <1>1, <1>2 DEF Images
<1>5. Book[a] \in Seq(Images) /\ Len(Book[a]) = Len(ledger[a])
  BY <1>2, <1>3, <1>4
<1> QED BY <1>1, <1>2, <1>3, <1>4, <1>5

\* A step that gives one account's ledger another content gives it the image of that content.
LEMMA BookMoves ==
    ASSUME IInv, NEW a \in Accounts, NEW s \in Seq(Calls \cup {Foreign}),
           ledger' = [ledger EXCEPT ![a] = s], dispatched' = dispatched
    PROVE  Book' = [Book EXCEPT ![a] = [j \in 1 .. Len(s) |-> Shown(s[j])]]
<1>1. \A x : Shown(x)' = Shown(x)
  BY DEF Shown, IssuedBy
<1>2. ledger'[a] = s /\ \A b \in Accounts \ {a} : ledger'[b] = ledger[b]
  BY DEF IInv, TypeOK
<1>3. DOMAIN s = 1 .. Len(s)
  OBVIOUS
<1>4. Book'[a] = [j \in 1 .. Len(s) |-> Shown(s[j])]
  BY <1>1, <1>2, <1>3 DEF Book
<1>5. \A b \in Accounts \ {a} : Book'[b] = Book[b]
  BY <1>1, <1>2 DEF Book
<1>6. /\ DOMAIN Book = Accounts
      /\ Book = [b \in Accounts |-> Book[b]] /\ Book' = [b \in Accounts |-> Book'[b]]
  BY DEF Book
<1> QED BY <1>4, <1>5, <1>6

\* A foreign transaction is a foreign transaction.
LEMMA ForeignSendRefines ==
    ASSUME IInv, NEW a \in Accounts, ForeignSend(a)
    PROVE  Abstract!Next
<1> DEFINE s == Append(ledger[a], Foreign)
           n == Len(ledger[a])
<1>1. /\ ledger' = [ledger EXCEPT ![a] = s]
      /\ dispatched' = dispatched /\ recorded' = recorded /\ inflight' = inflight
  BY DEF ForeignSend, callVars, netVars
<1>2. /\ s \in Seq(Calls \cup {Foreign}) /\ Len(s) = n + 1 /\ n \in Nat
      /\ \A j \in 1 .. n : s[j] = ledger[a][j]
      /\ s[n + 1] = Foreign
  <2>1. ledger[a] \in Seq(Calls \cup {Foreign})
    BY BookOf
  <2> QED BY <2>1
<1>3. Book' = [Book EXCEPT ![a] = [j \in 1 .. n + 1 |-> Shown(s[j])]]
  BY <1>1, <1>2, BookMoves
<1>4. Shown(Foreign) = Foreign /\ Foreign \in Images
  BY DEF Shown, Images
<1>5. /\ Book[a] = [j \in 1 .. n |-> Shown(ledger[a][j])]
      /\ Book[a] \in Seq(Images) /\ Len(Book[a]) = n
      /\ \A j \in 1 .. n : Shown(ledger[a][j]) \in Images
  BY BookOf
<1> HIDE DEF s, n
<1>6. [j \in 1 .. n + 1 |-> Shown(s[j])] = Append(Book[a], Foreign)
  <2> DEFINE t == [j \in 1 .. n + 1 |-> Shown(s[j])]
             u == Append(Book[a], Foreign)
  <2>1. n + 1 \in Nat /\ n + 1 \in 1 .. n + 1 /\ \A j \in 1 .. n : j \in 1 .. n + 1
    BY <1>2
  <2>2. \A j \in 1 .. n : t[j] = Book[a][j] /\ t[j] \in Images
    BY <1>2, <1>5, <2>1
  <2>3. t[n + 1] = Foreign
    BY <1>2, <1>4, <2>1
  <2>4. \A j \in 1 .. n + 1 : t[j] \in Images
    <3> HIDE DEF t
    <3>1. \A j \in 1 .. n + 1 : j \in 1 .. n \/ j = n + 1
      BY <1>2
    <3> QED BY <1>4, <2>2, <2>3, <3>1
  <2>5. t \in [1 .. n + 1 -> Images]
    BY <2>4
  <2>6. DOMAIN t = 1 .. n + 1
    OBVIOUS
  <2> HIDE DEF t
  <2>7. t \in Seq(Images) /\ Len(t) = n + 1
    BY <2>1, <2>5, <2>6, SeqDef
  <2>8. /\ u \in Seq(Images) /\ Len(u) = n + 1 /\ u[n + 1] = Foreign
        /\ \A j \in 1 .. n : u[j] = Book[a][j]
    <3>1. Book[a] \in Seq(Images) /\ Foreign \in Images /\ Len(Book[a]) = n
      BY <1>4, <1>5
    <3> QED BY <3>1, AppendProperties
  <2> HIDE DEF u
  <2>9. \A j \in 1 .. Len(t) : t[j] = u[j]
    BY <1>2, <2>2, <2>3, <2>7, <2>8
  <2>10. t = u
    BY <2>7, <2>8, <2>9, SeqEqual
  <2> QED BY <2>10 DEF t, u
<1>7. Wire' = Wire
  BY <1>1 DEF Wire, IssuedBy
<1>8. Abstract!Spend(a)
  BY <1>1, <1>3, <1>6, <1>7 DEF Abstract!Spend, Wire, Book, Shown
<1> QED BY <1>8 DEF Abstract!Next

\* What the node forgets, the abstract book forgets.
LEMMA EvictRefines ==
    ASSUME IInv, NEW a \in Accounts, Evict(a)
    PROVE  Abstract!Next
<1>1. PICK n \in 0 .. Len(ledger[a]) - 1 : ledger' = [ledger EXCEPT ![a] = SubSeq(@, 1, n)]
  BY DEF Evict
<1> DEFINE s == SubSeq(ledger[a], 1, n)
<1>2. dispatched' = dispatched /\ recorded' = recorded /\ inflight' = inflight
  BY DEF Evict, callVars, netVars
<1>3. n \in Nat /\ n \in 0 .. Len(ledger[a]) /\ n <= Len(ledger[a])
  BY <1>1, BookOf
<1>4. /\ s \in Seq(Calls \cup {Foreign}) /\ Len(s) = n
      /\ \A j \in 1 .. n : s[j] = ledger[a][j]
  <2>1. \A j \in 1 .. n : ledger[a][j] \in Calls \cup {Foreign}
    <3>1. ledger[a] \in Seq(Calls \cup {Foreign}) /\ Len(ledger[a]) \in Nat
      BY BookOf
    <3> QED BY <1>3, <3>1
  <2>2. 1 \in Int /\ n \in Int
    BY <1>3
  <2> QED BY <1>3, <2>1, <2>2, SubSeqProperties
<1>5. ledger' = [ledger EXCEPT ![a] = s]
  BY <1>1
<1> HIDE DEF s
<1>6. Book' = [Book EXCEPT ![a] = [j \in 1 .. n |-> Shown(s[j])]]
  BY <1>2, <1>4, <1>5, BookMoves
<1>7. [j \in 1 .. n |-> Shown(s[j])] = SubSeq(Book[a], 1, n)
  <2> DEFINE t == [j \in 1 .. n |-> Shown(s[j])]
             u == SubSeq(Book[a], 1, n)
  <2>1. /\ Book[a] = [j \in 1 .. Len(ledger[a]) |-> Shown(ledger[a][j])]
        /\ \A j \in 1 .. Len(ledger[a]) : Shown(ledger[a][j]) \in Images
        /\ Len(ledger[a]) \in Nat
    BY BookOf
  <2>2. \A j \in 1 .. n : j \in 1 .. Len(ledger[a])
    BY <1>3, <2>1
  <2>3. \A j \in 1 .. n : t[j] = Book[a][j] /\ t[j] \in Images
    BY <1>4, <2>1, <2>2
  <2>4. t \in [1 .. n -> Images] /\ DOMAIN t = 1 .. n
    BY <2>3
  <2>5. \A j \in 1 .. n : Book[a][j] \in Images
    BY <2>3
  <2> HIDE DEF t
  <2>6. t \in Seq(Images) /\ Len(t) = n
    BY <1>3, <2>4, SeqDef
  <2>7. u \in Seq(Images) /\ Len(u) = n /\ \A j \in 1 .. n : u[j] = Book[a][j]
    BY <1>3, <2>5, SubSeqProperties
  <2> HIDE DEF u
  <2>8. \A j \in 1 .. Len(t) : t[j] = u[j]
    BY <2>3, <2>6, <2>7
  <2>9. t = u
    BY <2>6, <2>7, <2>8, SeqEqual
  <2> QED BY <2>9 DEF t, u
<1>8. Wire' = Wire
  BY <1>2 DEF Wire, IssuedBy
<1>9. n \in 0 .. Len(Book[a])
  BY <1>3, BookOf
<1>10. Book' = [Book EXCEPT ![a] = SubSeq(@, 1, n)]
  BY <1>6, <1>7
<1>11. Abstract!Forget(a)
  BY <1>2, <1>8, <1>9, <1>10 DEF Abstract!Forget, Wire, Book, Shown
<1> QED BY <1>11 DEF Abstract!Next

\* A record that becomes readable is an authorization that becomes known.
LEMMA RecordVerifiedRefines ==
    ASSUME NEW a \in AuthIds, RecordVerified(a)
    PROVE  Abstract!Next
<1>1. recorded' = recorded \cup {a} /\ Wire' = Wire /\ Book' = Book
  BY DEF RecordVerified, callVars, nodeVars, netVars, Wire, Book, Shown, IssuedBy
<1>2. Abstract!Learn(a)
  BY <1>1 DEF Abstract!Learn, Wire, Book, Shown
<1> QED BY <1>2 DEF Abstract!Next

\* Every step is one of the abstract system or leaves it as it is.
LEMMA StepRefines ==
    ASSUME IInv, IInv', [Next]_vars
    PROVE  Abstract!Next \/ UNCHANGED abstractVars
<1>1. ASSUME NEW c \in Calls, Step(c)
      PROVE  Abstract!Next \/ UNCHANGED abstractVars
  <2>1. UNCHANGED <<nodeVars, recorded>>
    BY <1>1 DEF Step
  <2>2. ASSUME Sign(c) PROVE Abstract!Next \/ UNCHANGED abstractVars
    BY <2>1, <2>2, SignRefines
  <2>3. ASSUME ~ Sign(c) PROVE UNCHANGED <<recorded, inflight, ledger, dispatched>>
    BY <1>1, <2>1, <2>3
       DEF Step, Start, Identify, CountPending, Reserve, Populate, PinBlock, ReadCode,
           ConfirmPin, LookUpRecord, RecheckNonce, RecheckBlock, CompareRecheck,
           RecheckCode, Reconfirm, Secondary, BroadcastAnswered, AwaitFails, Reject,
           Settle, OnlyLocal, CallSigner, nodeVars, netVars
  <2> QED BY <2>2, <2>3, MappingFrame
<1>2. ASSUME World PROVE Abstract!Next \/ UNCHANGED abstractVars
  <2>1. ASSUME NEW p \in Processes, Crash(p)
        PROVE  UNCHANGED <<recorded, inflight, ledger, dispatched>>
    BY <2>1 DEF Crash, nodeVars
  <2>2. ASSUME NewBlock \/ Reorg
        PROVE  UNCHANGED <<recorded, inflight, ledger, dispatched>>
    BY <2>2 DEF NewBlock, Reorg, Produce, callVars, netVars
  <2> QED
    BY <1>2, <2>1, <2>2, MappingFrame, NodeAcceptsRefines, NodeDropsRefines,
       ForeignSendRefines, EvictRefines, RecordVerifiedRefines DEF World
<1>3. CASE UNCHANGED vars
  BY <1>3, MappingFrame DEF vars, callVars, nodeVars, netVars
<1> QED BY <1>1, <1>2, <1>3 DEF Next

\* The guarded signer implements AuthorizedExecution: with any number of calls, processes,
\* restarts, wallets and signers, only transactions that a known authorization stands for,
\* at its account, nonce and fee, are put on the wire.
THEOREM Refinement == Spec => RefinesAuthorizedExecution
<1>1. Init => Abstract!Init
  BY InitRefines
<1>2. ASSUME IInv, IInv', [Next]_vars
      PROVE  [Abstract!Next]_abstractVars
  BY <1>2, StepRefines
<1>3. ASSUME IInv, IInv', [Next]_vars
      PROVE  Abstract!Next \/ UNCHANGED <<recorded, {IssuedBy(c) : c \in inflight},
               [a \in Accounts |->
                [i \in DOMAIN ledger[a] |->
                    IF ledger[a][i] = Foreign THEN Foreign ELSE IssuedBy(ledger[a][i])]]>>
  BY <1>3, StepRefines DEF abstractVars, Wire, Book, Shown
<1> QED
  BY <1>1, <1>3, Invariance, PTL DEF Spec, RefinesAuthorizedExecution, Abstract!Spec

-----------------------------------------------------------------------------
(* The MCP server                                                           *)

USE McpAssumption

\* Every step of the server is a step of the signer and its world, or changes none of it.
LEMMA McpStep == [McpNext]_mcpVars => [Next]_vars
<1> SUFFICES ASSUME [McpNext]_mcpVars PROVE [Next]_vars
  OBVIOUS
<1>1. ASSUME NEW c \in Calls, Refuse(c) \/ NotApproved(c) \/ Propose(c) \/ Continue(c)
      PROVE  [Next]_vars
  BY <1>1 DEF Refuse, NotApproved, Propose, Continue, Next
<1>2. CASE World /\ UNCHANGED answer
  BY <1>2 DEF Next
<1>3. CASE UNCHANGED mcpVars
  BY <1>3 DEF mcpVars
<1> QED BY <1>1, <1>2, <1>3 DEF McpNext

\* Behaviours of the server are behaviours of the signer.
THEOREM McpImplementsSigner == McpSpec => Spec
<1>1. McpInit => Init
  BY DEF McpInit
<1> QED BY <1>1, McpStep, PTL DEF McpSpec, Spec

\* The answers are given per call.
LEMMA AnswersPerCall == McpSpec => [](DOMAIN answer = Calls)
<1>1. McpInit => DOMAIN answer = Calls
  BY DEF McpInit
<1>2. ASSUME DOMAIN answer = Calls, [McpNext]_mcpVars PROVE (DOMAIN answer = Calls)'
  BY <1>2 DEF McpNext, Refuse, NotApproved, Propose, Continue, Tell, mcpVars
<1> QED BY <1>1, <1>2, PTL DEF McpSpec

\* Only a transaction handed to the node, that of the call itself, is ever answered ALLOW.
LEMMA AllowedFromBroadcast ==
    ASSUME IInv, DOMAIN answer = Calls, McpNext, NEW c \in Calls, answer[c] # "ALLOW", answer'[c] = "ALLOW"
    PROVE  pc[c] = "broadcast"
<1>1. PICK d \in Calls : Continue(d) /\ Tell(d, Reported(d))
  <2>1. ASSUME NEW d \in Calls, Refuse(d) \/ NotApproved(d) PROVE FALSE
    <3>1. answer' = [answer EXCEPT ![d] = "BLOCK"] \/ answer' = [answer EXCEPT ![d] = "ERROR"]
      BY <2>1 DEF Refuse, NotApproved, Tell
    <3> QED BY <3>1
  <2>2. ASSUME NEW d \in Calls, Propose(d) PROVE FALSE
    BY <2>2 DEF Propose
  <2>3. ASSUME NEW d \in Calls, Continue(d), ~ Tell(d, Reported(d)) PROVE FALSE
    BY <2>3 DEF Continue
  <2> QED BY <2>1, <2>2, <2>3 DEF McpNext
<1>2. d = c /\ outcome'[c] = "sent" /\ Step(c)
  BY <1>1 DEF Tell, Reported, Continue
<1>3. outcome[c] # "sent"
  <2>1. pc[c] # "done"
    BY <1>2 DEF Step, Start, Identify, CountPending, Reserve, Populate, PinBlock, ReadCode,
           ConfirmPin, LookUpRecord, RecheckNonce, RecheckBlock, CompareRecheck,
           RecheckCode, Reconfirm, Secondary, Sign, BroadcastAnswered, AwaitFails, Awaiting
  <2> QED BY <2>1 DEF IInv, DispatchedAtLabel
<1> QED
  BY <1>2, <1>3
     DEF IInv, TypeOK, Step, Start, Identify, CountPending, Reserve, Populate, PinBlock,
         ReadCode, ConfirmPin, LookUpRecord, RecheckNonce, RecheckBlock, CompareRecheck,
         RecheckCode, Reconfirm, Secondary, Sign, BroadcastAnswered, AwaitFails, Reject,
         Settle, OnlyLocal, CallSigner

\* An agent is told ALLOW a second time for one authorization only when the node has lost the
\* first transaction: both stand for the same nonce, which the signer takes once.
THEOREM AllowedAgain == McpSpec => AllowedAgainOnlyIfLost
<1>1. ASSUME IInv, DOMAIN answer = Calls, McpNext, NEW c \in Calls, NEW d \in Calls,
             c # d, ProcessOf[c] = ProcessOf[d], AccountOf[c] = AccountOf[d],
             answer[c] # "ALLOW", answer'[c] = "ALLOW",
             dispatched[c].request.authId = dispatched[d].request.authId
      PROVE  ~ Landed(d)
  <2> SUFFICES ASSUME Landed(d) PROVE FALSE
    OBVIOUS
  <2>1. pc[c] = "broadcast" /\ pc[c] \in Matched /\ pc[c] \in Rechecked /\ pc[c] \in Populated
    BY <1>1, AllowedFromBroadcast DEF Matched, Rechecked, Populated, Holding, Awaiting
  <2>2. LocalsAtLabel(c) /\ DispatchedAtLabel(c) /\ DispatchedAtLabel(d) /\ NonceUnspent(c)
    BY <1>1 DEF IInv
  <2>3. /\ NonceUnchanged(c) /\ local[c].envelope.nonce = local[c].nonce
        /\ dispatched[c] = [request |-> local[c].request, tx |-> local[c].envelope]
        /\ local[c].request \in Requests /\ local[c].envelope \in Envelope
    BY <2>1, <2>2 DEF LocalsAtLabel, DispatchedAtLabel, Requested
  <2>4. dispatched[c] \in DispatchType
    BY <2>3, ConstantsAssumption DEF DispatchType
  <2>5. dispatched[c] # None /\ dispatched[d] # None
    BY <2>2, <2>4, ConstantsAssumption DEF Landed, DispatchedAtLabel
  <2>6. dispatched[d].tx.nonce = dispatched[c].tx.nonce
    BY <1>1, <2>5 DEF IInv, DispatchedAsApproved
  <2>7. SpentInProcess(c)
    BY <1>1, <2>3, <2>6 DEF SpentInProcess
  <2> QED BY <2>1, <2>2, <2>3, <2>7 DEF NonceUnspent
<1>2. ASSUME IInv, DOMAIN answer = Calls, [McpNext]_mcpVars
      PROVE  [\A c, d \in Calls :
                (/\ c # d /\ ProcessOf[c] = ProcessOf[d] /\ AccountOf[c] = AccountOf[d]
                 /\ answer[d] = "ALLOW"
                 /\ answer[c] # "ALLOW" /\ answer'[c] = "ALLOW"
                 /\ dispatched[c].request.authId = dispatched[d].request.authId)
                => ~ Landed(d)]_mcpVars
  BY <1>1, <1>2
<1>3. McpSpec => []IInv
  BY McpImplementsSigner, Invariance, PTL
<1> QED BY <1>2, <1>3, AnswersPerCall, PTL DEF McpSpec, AllowedAgainOnlyIfLost

\* A call asks the signer once, between its last check and the signature, and a call that
\* returns normally has asked.
CountOK(c) ==
    /\ pc[c] \notin {"sign", "broadcast", "done"} => signerCalls[c] = 0
    /\ pc[c] \in {"sign", "broadcast"} => signerCalls[c] = 1
    /\ outcome[c] = "sent" => signerCalls[c] = 1 /\ pc[c] = "done"

\* An error is reported of a call that was never made, and stays one.
AnswerOK(c) ==
    /\ answer[c] = "ERROR" => pc[c] = "idle"
    /\ answer[c] = "ALLOW" => outcome[c] = "sent"

\* A step of a call changes the count, the label and the end of that call alone.
LEMMA StepIsOwn ==
    ASSUME IInv, NEW c \in Calls, Step(c), NEW d \in Calls \ {c}
    PROVE  UNCHANGED <<pc[d], signerCalls[d], outcome[d]>>
  BY DEF IInv, TypeOK, Step, Start, Identify, CountPending, Reserve, Populate, PinBlock,
         ReadCode, ConfirmPin, LookUpRecord, RecheckNonce, RecheckBlock, CompareRecheck,
         RecheckCode, Reconfirm, Secondary, Sign, BroadcastAnswered, AwaitFails, Reject,
         Settle, OnlyLocal, CallSigner, Goto

\* A step of a call moves it before its signature, asks the signer, dispatches or settles.
LEMMA StepCounts ==
    ASSUME IInv, NEW c \in Calls, Step(c), CountOK(c)
    PROVE  CountOK(c)' /\ pc[c] # "done"
<1> USE DEF IInv, TypeOK, CountOK, Goto
<1>1. CASE Start(c) \/ Identify(c) \/ CountPending(c) \/ Reserve(c) \/ Populate(c)
  BY <1>1 DEF Start, Identify, CountPending, Reserve, Populate, OnlyLocal, Reject, Settle
<1>2. CASE PinBlock(c) \/ ReadCode(c) \/ ConfirmPin(c) \/ LookUpRecord(c)
  BY <1>2 DEF PinBlock, ReadCode, ConfirmPin, LookUpRecord, OnlyLocal, Reject, Settle
<1>3. CASE RecheckNonce(c) \/ RecheckBlock(c) \/ CompareRecheck(c) \/ RecheckCode(c)
  BY <1>3 DEF RecheckNonce, RecheckBlock, CompareRecheck, RecheckCode, OnlyLocal, Reject, Settle
<1>4. CASE Reconfirm(c) \/ Secondary(c)
  BY <1>4 DEF Reconfirm, Secondary, CallSigner, OnlyLocal, Reject, Settle
<1>5. CASE Sign(c) \/ BroadcastAnswered(c)
  BY <1>5 DEF Sign, BroadcastAnswered, Reject, Settle
<1>6. CASE AwaitFails(c)
  BY <1>6 DEF AwaitFails, Awaiting, Reject, Settle
<1> QED BY <1>1, <1>2, <1>3, <1>4, <1>5, <1>6 DEF Step

\* The world asks no signer, answers no agent, and ends only calls that are under way.
LEMMA WorldCounts ==
    ASSUME IInv, World, NEW c \in Calls, CountOK(c)
    PROVE  /\ CountOK(c)'
           /\ pc[c] = "idle" => pc'[c] = "idle"
           /\ outcome[c] = "sent" => outcome'[c] = "sent"
<1>1. ASSUME NEW p \in Processes, Crash(p)
      PROVE  /\ UNCHANGED signerCalls
             /\ \/ UNCHANGED <<pc[c], outcome[c]>>
                \/ pc[c] \notin {"idle", "done"} /\ pc'[c] = "done" /\ outcome'[c] = "crashed"
  BY <1>1 DEF Crash
<1>2. ASSUME ~ \E p \in Processes : Crash(p)
      PROVE  UNCHANGED <<pc, signerCalls, outcome>>
  BY <1>2 DEF World, NodeAccepts, NodeDrops, ForeignSend, Evict, NewBlock, Reorg, Produce,
              RecordVerified, callVars
<1> QED BY <1>1, <1>2 DEF CountOK

\* Every step of the server keeps the counts and the answers in line.
LEMMA McpStepCounts ==
    ASSUME IInv, DOMAIN answer = Calls, [McpNext]_mcpVars,
           \A d \in Calls : CountOK(d) /\ AnswerOK(d), NEW c \in Calls
    PROVE  CountOK(c)' /\ AnswerOK(c)'
<1>1. ASSUME NEW d \in Calls, Refuse(d) \/ NotApproved(d)
      PROVE  CountOK(c)' /\ AnswerOK(c)'
  <2>1. UNCHANGED <<pc, signerCalls, outcome>> /\ Unproposed(d)
    BY <1>1 DEF Refuse, NotApproved, vars, callVars
  <2>2. answer' = [answer EXCEPT ![d] = "BLOCK"] \/ answer' = [answer EXCEPT ![d] = "ERROR"]
    BY <1>1 DEF Refuse, NotApproved, Tell
  <2> QED BY <2>1, <2>2 DEF CountOK, AnswerOK, Unproposed
<1>2. ASSUME NEW d \in Calls, Propose(d) \/ Continue(d)
      PROVE  CountOK(c)' /\ AnswerOK(c)'
  <2>1. Step(d)
    BY <1>2 DEF Propose, Continue
  <2>2. CASE d # c
    <3>1. UNCHANGED <<pc[c], signerCalls[c], outcome[c]>>
      BY <2>1, <2>2, StepIsOwn
    <3>2. answer'[c] = answer[c]
      BY <1>2, <2>2 DEF Propose, Continue, Tell
    <3> QED BY <3>1, <3>2 DEF CountOK, AnswerOK
  <2>3. CASE d = c
    <3>1. CountOK(c)' /\ pc[c] # "done"
      BY <2>1, <2>3, StepCounts
    <3>2. answer'[c] = answer[c] \/ answer'[c] = Reported(c)
      BY <1>2, <2>3 DEF Propose, Continue, Tell
    <3>3. answer[c] # "ALLOW" /\ answer[c] # "ERROR"
      <4>1. answer[c] # "ALLOW"
        BY <3>1 DEF AnswerOK, CountOK
      <4>2. CASE Propose(c)
        BY <4>2 DEF Propose, Unproposed
      <4>3. CASE Continue(c)
        <5>1. pc[c] # "idle"
          BY <4>3 DEF Continue
        <5>2. AnswerOK(c)
          OBVIOUS
        <5> QED BY <4>1, <5>1, <5>2 DEF AnswerOK
      <4> QED BY <1>2, <2>3, <4>1, <4>2, <4>3
    <3> QED BY <3>1, <3>2, <3>3 DEF AnswerOK, Reported
  <2> QED BY <2>2, <2>3
<1>3. CASE World /\ UNCHANGED answer
  BY <1>3, WorldCounts DEF AnswerOK
<1>4. CASE UNCHANGED mcpVars
  BY <1>4 DEF mcpVars, vars, callVars, CountOK, AnswerOK
<1> QED BY <1>1, <1>2, <1>3, <1>4 DEF McpNext

\* ERROR is never said of a call that has asked the signer, and ALLOW of none that has not
\* asked it once and handed over its transaction.
THEOREM AnswersCount == McpSpec => []AnswersCountSigner
<1> DEFINE Inv == \A c \in Calls : CountOK(c) /\ AnswerOK(c)
<1>1. McpInit => Inv
  BY DEF McpInit, Init, CountOK, AnswerOK
<1>2. IInv /\ DOMAIN answer = Calls /\ Inv /\ [McpNext]_mcpVars => Inv'
  BY McpStepCounts
<1>3. IInv /\ Inv => AnswersCountSigner
  <2> SUFFICES ASSUME IInv, Inv, NEW c \in Calls
               PROVE  /\ answer[c] = "ERROR" => signerCalls[c] = 0
                      /\ answer[c] = "ALLOW" => signerCalls[c] = 1 /\ dispatched[c] # None
    BY DEF AnswersCountSigner
  <2>1. outcome[c] = "sent" => dispatched[c] # None
    BY DEF IInv, DispatchedAtLabel
  <2> QED BY <2>1 DEF CountOK, AnswerOK
<1>4. McpSpec => []IInv
  BY McpImplementsSigner, Invariance, PTL
<1> QED BY <1>1, <1>2, <1>3, <1>4, AnswersPerCall, PTL DEF McpSpec

\* What the agent of a call knows: nothing while it runs, then how it ended.
EndOK(c) ==
    /\ answer[c] # "none" => pc[c] \in {"idle", "done"}
    /\ outcome[c] = "sent" <=> answer[c] = "ALLOW"
    /\ outcome[c] = "rejected" <=> answer[c] = "BLOCK" /\ pc[c] = "done"
    /\ outcome[c] = "crashed" <=> answer[c] = "none" /\ pc[c] = "done"

\* A step of a call leads on or to an end of its own, never back to the start.
LEMMA StepEnds ==
    ASSUME IInv, NEW c \in Calls, Step(c)
    PROVE  pc[c] # "done" /\ pc'[c] # "idle" /\ outcome'[c] # "crashed"
<1> USE DEF IInv, TypeOK, DispatchedAtLabel, Goto
<1>1. CASE Start(c) \/ Identify(c) \/ CountPending(c) \/ Reserve(c) \/ Populate(c)
  BY <1>1 DEF Start, Identify, CountPending, Reserve, Populate, OnlyLocal, Reject, Settle
<1>2. CASE PinBlock(c) \/ ReadCode(c) \/ ConfirmPin(c) \/ LookUpRecord(c)
  BY <1>2 DEF PinBlock, ReadCode, ConfirmPin, LookUpRecord, OnlyLocal, Reject, Settle
<1>3. CASE RecheckNonce(c) \/ RecheckBlock(c) \/ CompareRecheck(c) \/ RecheckCode(c)
  BY <1>3 DEF RecheckNonce, RecheckBlock, CompareRecheck, RecheckCode, OnlyLocal, Reject, Settle
<1>4. CASE Reconfirm(c) \/ Secondary(c)
  BY <1>4 DEF Reconfirm, Secondary, CallSigner, OnlyLocal, Reject, Settle
<1>5. CASE Sign(c) \/ BroadcastAnswered(c)
  BY <1>5 DEF Sign, BroadcastAnswered, Reject, Settle
<1>6. CASE AwaitFails(c)
  BY <1>6 DEF AwaitFails, Awaiting, Reject, Settle
<1> QED BY <1>1, <1>2, <1>3, <1>4, <1>5, <1>6 DEF Step

\* The world ends calls that are under way, by a crash, and asks or sends nothing for any call.
LEMMA WorldEnds ==
    ASSUME World, NEW c \in Calls
    PROVE  /\ UNCHANGED <<signerCalls[c], dispatched[c]>>
           /\ \/ UNCHANGED <<pc[c], outcome[c]>>
              \/ pc[c] \notin {"idle", "done"} /\ pc'[c] = "done" /\ outcome'[c] = "crashed"
<1>1. ASSUME NEW p \in Processes, Crash(p)
      PROVE  /\ UNCHANGED <<signerCalls, dispatched>>
             /\ \/ UNCHANGED <<pc[c], outcome[c]>>
                \/ pc[c] \notin {"idle", "done"} /\ pc'[c] = "done" /\ outcome'[c] = "crashed"
  BY <1>1 DEF Crash
<1>2. ASSUME ~ \E p \in Processes : Crash(p)
      PROVE  UNCHANGED <<pc, signerCalls, dispatched, outcome>>
  BY <1>2 DEF World, NodeAccepts, NodeDrops, ForeignSend, Evict, NewBlock, Reorg, Produce,
              RecordVerified, callVars
<1> QED BY <1>1, <1>2

\* A step of the server keeps what agents know in line, and does nothing for an agent that
\* has been answered.
LEMMA McpStepEnds ==
    ASSUME IInv, IInv', DOMAIN answer = Calls, [McpNext]_mcpVars, NEW c \in Calls, EndOK(c)
    PROVE  /\ EndOK(c)'
           /\ answer[c] # "none" =>
                UNCHANGED <<answer[c], pc[c], signerCalls[c], dispatched[c], outcome[c]>>
<1> DEFINE Over == UNCHANGED <<answer[c], pc[c], signerCalls[c], dispatched[c], outcome[c]>>
<1>1. ASSUME NEW d \in Calls, Refuse(d) \/ NotApproved(d)
      PROVE  EndOK(c)' /\ (answer[c] # "none" => Over)
  <2>1. UNCHANGED <<pc, signerCalls, dispatched, outcome>> /\ Unproposed(d)
    BY <1>1 DEF Refuse, NotApproved, vars, callVars
  <2>2. answer' = [answer EXCEPT ![d] = "BLOCK"] \/ answer' = [answer EXCEPT ![d] = "ERROR"]
    BY <1>1 DEF Refuse, NotApproved, Tell
  <2> QED BY <2>1, <2>2 DEF EndOK, Unproposed
<1>2. ASSUME NEW d \in Calls \ {c}, Propose(d) \/ Continue(d)
      PROVE  EndOK(c)' /\ (answer[c] # "none" => Over)
  <2>1. Step(d)
    BY <1>2 DEF Propose, Continue
  <2>2. UNCHANGED <<pc[c], signerCalls[c], dispatched[c], outcome[c]>>
    <3>1. UNCHANGED <<pc[c], signerCalls[c], outcome[c]>>
      BY <2>1, StepIsOwn
    <3>2. CASE Sign(d)
      BY <3>1, <3>2 DEF Sign, Reject, Settle, IInv, TypeOK
    <3>3. CASE ~ Sign(d)
      <4>1. UNCHANGED dispatched
        BY <2>1, <3>3
           DEF Step, Start, Identify, CountPending, Reserve, Populate, PinBlock, ReadCode,
               ConfirmPin, LookUpRecord, RecheckNonce, RecheckBlock, CompareRecheck,
               RecheckCode, Reconfirm, Secondary, BroadcastAnswered, AwaitFails, Reject,
               Settle, OnlyLocal, CallSigner
      <4> QED BY <3>1, <4>1
    <3> QED BY <3>2, <3>3
  <2>3. answer'[c] = answer[c]
    BY <1>2 DEF Propose, Continue, Tell
  <2> QED BY <2>2, <2>3 DEF EndOK
<1>3. ASSUME Propose(c) \/ Continue(c)
      PROVE  EndOK(c)' /\ (answer[c] # "none" => Over)
  <2>1. pc[c] # "done" /\ pc'[c] # "idle" /\ outcome'[c] # "crashed"
    BY <1>3, StepEnds DEF Propose, Continue
  <2>2. outcome'[c] = "none" <=> pc'[c] # "done"
    BY DEF IInv, DispatchedAtLabel
  <2>3. outcome'[c] \in {"none", "sent", "rejected", "crashed"}
    BY DEF IInv, TypeOK
  <2>4. answer[c] = "none"
    BY <1>3, <2>1 DEF Propose, Continue, Unproposed, EndOK
  <2>5. answer'[c] = IF pc'[c] = "done" THEN Reported(c) ELSE "none"
    <3>1. CASE Propose(c)
      <4>1. pc[c] = "idle" /\ Step(c)
        BY <3>1 DEF Propose, Unproposed
      <4>2. Start(c)
        BY <4>1 DEF Step, Identify, CountPending, Reserve, Populate, PinBlock, ReadCode,
               ConfirmPin, LookUpRecord, RecheckNonce, RecheckBlock, CompareRecheck,
               RecheckCode, Reconfirm, Secondary, Sign, BroadcastAnswered, AwaitFails, Awaiting
      <4>3. pc'[c] = "identify"
        BY <4>2 DEF Start, Goto, IInv, TypeOK
      <4> QED BY <2>4, <3>1, <4>3 DEF Propose
    <3>2. CASE Continue(c)
      BY <2>4, <3>2 DEF Continue, Tell
    <3> QED BY <1>3, <3>1, <3>2
  <2> QED BY <2>1, <2>2, <2>3, <2>4, <2>5 DEF Reported, EndOK
<1>4. CASE World /\ UNCHANGED answer
  <2>1. outcome[c] = "none" <=> pc[c] # "done"
    BY DEF IInv, DispatchedAtLabel
  <2> QED BY <1>4, <2>1, WorldEnds DEF EndOK
<1>5. CASE UNCHANGED mcpVars
  BY <1>5 DEF mcpVars, vars, callVars, EndOK
<1> QED BY <1>1, <1>2, <1>3, <1>4, <1>5 DEF McpNext

LEMMA EndsInLine == McpSpec => [](\A c \in Calls : EndOK(c))
<1>1. McpInit => \A c \in Calls : EndOK(c)
  BY DEF McpInit, Init, EndOK
<1>2. IInv /\ IInv' /\ DOMAIN answer = Calls /\ (\A c \in Calls : EndOK(c)) /\ [McpNext]_mcpVars
      => (\A c \in Calls : EndOK(c))'
  BY McpStepEnds
<1>3. McpSpec => []IInv
  BY McpImplementsSigner, Invariance, PTL
<1> QED BY <1>1, <1>2, <1>3, AnswersPerCall, PTL DEF McpSpec

\* Whatever fails on the way, the end of a call and the answer to its agent are the same, and
\* only the death of the process leaves a call that has ended without an answer.
THEOREM EndsAnswered == McpSpec => []EndsAsAnswered
<1>1. (\A c \in Calls : EndOK(c)) => EndsAsAnswered
  BY DEF EndOK, EndsAsAnswered
<1> QED BY <1>1, EndsInLine, PTL

\* Once an agent has been answered nothing is signed, sent or settled for its proposal: an
\* answer cannot be overtaken by a late reply of the wallet or the node.
THEOREM AnswersAreFinal == McpSpec => AnswerIsTheEnd
<1>1. ASSUME IInv, IInv', DOMAIN answer = Calls, [McpNext]_mcpVars,
             \A c \in Calls : EndOK(c)
      PROVE  [\A c \in Calls : answer[c] # "none" =>
                UNCHANGED <<answer[c], pc[c], signerCalls[c], dispatched[c], outcome[c]>>]_mcpVars
  BY <1>1, McpStepEnds
<1>2. McpSpec => []IInv
  BY McpImplementsSigner, Invariance, PTL
<1> QED BY <1>1, <1>2, EndsInLine, AnswersPerCall, PTL DEF McpSpec, AnswerIsTheEnd

=============================================================================
