------------------------ MODULE RhizomeEscrowProofs ------------------------
(***************************************************************************)
(* Proofs about RhizomeEscrow, for every set of sessions, accounts, tokens,*)
(* amounts and windows.                                                    *)
(***************************************************************************)
EXTENDS RhizomeEscrow, FiniteSetTheorems, TLAPS

\* A session that exists names real parties and a real token.
PartiesKnown ==
    \A id \in SessionIDs :
        sessions[id].status # "None" =>
            /\ sessions[id].buyer \in Accounts
            /\ sessions[id].seller \in Accounts \ {sessions[id].buyer}
            /\ sessions[id].token \in Tokens

\* The inductive invariant: neither part is inductive without the others.
EscrowInv == EscrowTypeOK /\ PartiesKnown /\ PaidExactly

\* What Next can do, one action at a time, with typed parameters.
LEMMA EscrowStepCases ==
    ASSUME EscrowNext
    PROVE  \/ \E id \in SessionIDs, b, s, a \in Accounts, t \in Tokens,
                 m \in Amounts, w \in Windows, d \in BOOLEAN :
                 Open(id, b, s, a, t, m, w, d)
           \/ \E id \in SessionIDs, a \in Accounts, m \in Amounts : Release(id, a, m)
           \/ \E id \in SessionIDs, a \in Accounts : Dispute(id, a)
           \/ \E id \in SessionIDs, a \in Accounts : Claim(id, a)
           \/ \E id \in SessionIDs, a \in Accounts : Withdraw(id, a)
           \/ \E id \in SessionIDs, a \in Accounts :
                 \E x \in 0..Remaining(sessions[id]) :
                     Resolve(id, a, x, Remaining(sessions[id]) - x)
           \/ Tick
<1>1. CASE PartyStep(Accounts)
  BY <1>1 DEF PartyStep
<1>2. CASE ArbiterStep(Accounts)
  BY <1>2 DEF ArbiterStep
<1>3. CASE Tick
  BY <1>3
<1> QED
  BY <1>1, <1>2, <1>3 DEF EscrowNext

\* A transfer between two different addresses keeps every balance natural.
LEMMA TransferType ==
    ASSUME NEW t \in Tokens, NEW from \in Accounts \cup {Escrow},
           NEW to \in Accounts \cup {Escrow}, NEW n \in Nat,
           balance \in [Tokens -> [Accounts \cup {Escrow} -> Nat]],
           from # to, Transfer(t, from, to, n)
    PROVE  balance' \in [Tokens -> [Accounts \cup {Escrow} -> Nat]]
<1> DEFINE holders == Accounts \cup {Escrow}
<1>1. balance[t] \in [holders -> Nat]
  OBVIOUS
<1>2. balance[t][from] - n \in Nat /\ balance[t][to] + n \in Nat
  BY <1>1 DEF Transfer
<1>3. balance' = [balance EXCEPT ![t] =
                    [balance[t] EXCEPT ![from] = balance[t][from] - n,
                                       ![to] = balance[t][to] + n]]
  BY <1>1 DEF Transfer
<1>4. [balance[t] EXCEPT ![from] = balance[t][from] - n,
                         ![to] = balance[t][to] + n] \in [holders -> Nat]
  BY <1>1, <1>2
<1> QED
  BY <1>3, <1>4

LEMMA TransferBothType ==
    ASSUME NEW t \in Tokens, NEW to1 \in Accounts, NEW to2 \in Accounts,
           NEW n1 \in Nat, NEW n2 \in Nat,
           balance \in [Tokens -> [Accounts \cup {Escrow} -> Nat]],
           to1 # to2, TransferBoth(t, Escrow, to1, n1, to2, n2)
    PROVE  balance' \in [Tokens -> [Accounts \cup {Escrow} -> Nat]]
<1> DEFINE holders == Accounts \cup {Escrow}
           b == [balance[t] EXCEPT ![Escrow] = balance[t][Escrow] - n1 - n2,
                                   ![to1] = balance[t][to1] + n1,
                                   ![to2] = balance[t][to2] + n2]
<1>1. balance[t] \in [holders -> Nat]
  OBVIOUS
<1>2. balance[t][Escrow] - n1 - n2 \in Nat
  BY <1>1 DEF TransferBoth
<1>3. b \in [holders -> Nat]
  BY <1>1, <1>2
<1>4. balance' = [balance EXCEPT ![t] = b]
  BY <1>1, ConstantsAssumption DEF TransferBoth
<1> QED
  BY <1>3, <1>4

-----------------------------------------------------------------------------
LEMMA EscrowInvInit == EscrowInit => EscrowInv
<1> SUFFICES ASSUME EscrowInit PROVE EscrowInv
  OBVIOUS
<1>1. EscrowTypeOK
  BY ConstantsAssumption DEF EscrowInit, EscrowTypeOK, Session, NoSession, Status
<1>2. PartiesKnown /\ PaidExactly
  BY DEF EscrowInit, PartiesKnown, PaidExactly, NoSession, LiveSession, EndedSession
<1> QED
  BY <1>1, <1>2 DEF EscrowInv

LEMMA EscrowInvStep == EscrowInv /\ [EscrowNext]_escrowVars => EscrowInv'
<1> SUFFICES ASSUME EscrowInv, [EscrowNext]_escrowVars PROVE EscrowInv'
  OBVIOUS
<1> USE DEF EscrowInv
<1>1. ASSUME NEW id \in SessionIDs, NEW buyer \in Accounts, NEW seller \in Accounts,
             NEW a \in Accounts, NEW t \in Tokens, NEW m \in Amounts,
             NEW w \in Windows, NEW d \in BOOLEAN,
             Open(id, buyer, seller, a, t, m, w, d)
      PROVE  EscrowInv'
  <2>1. m \in Nat /\ w \in Nat /\ now \in Nat /\ now + w \in Nat
    BY ConstantsAssumption DEF EscrowTypeOK
  <2> DEFINE new == [buyer |-> buyer, seller |-> seller, arbiter |-> a, token |-> t,
                     amount |-> m, released |-> 0, deadline |-> now + w,
                     status |-> "Open", drawdown |-> d]
  <2>2. new \in Session
    BY <2>1 DEF Session, Status
  <2>3. sessions' = [sessions EXCEPT ![id] = new] /\ now' = now /\ paid' = paid
    BY <1>1 DEF Open, Fund
  <2>4. EscrowTypeOK'
    BY <1>1, <2>1, <2>2, <2>3, TransferType, ConstantsAssumption
       DEF EscrowTypeOK, Open, Fund
  <2>5. PartiesKnown' /\ PaidExactly'
    BY <1>1, <2>1, <2>3 DEF EscrowTypeOK, PartiesKnown, PaidExactly, Open, Fund,
       LiveSession, EndedSession
  <2> QED
    BY <2>4, <2>5
<1>2. ASSUME NEW id \in SessionIDs, NEW a \in Accounts, NEW m \in Amounts,
             Release(id, a, m)
      PROVE  EscrowInv'
  <2> DEFINE s == sessions[id]
  <2>1. m \in Nat /\ s \in Session /\ paid[id] \in [buyer : Nat, seller : Nat]
    BY ConstantsAssumption DEF EscrowTypeOK
  <2>2. [s EXCEPT !.released = s.released + m] \in Session
    BY <2>1 DEF Session
  <2>3. [paid[id] EXCEPT !.seller = paid[id].seller + m] \in [buyer : Nat, seller : Nat]
    BY <2>1
  <2>4. /\ sessions' = [sessions EXCEPT ![id] = [s EXCEPT !.released = s.released + m]]
        /\ paid' = [paid EXCEPT ![id] = [paid[id] EXCEPT !.seller = paid[id].seller + m]]
        /\ now' = now
    BY <1>2 DEF Release, PayRelease
  <2>5. s.token \in Tokens /\ s.seller \in Accounts /\ s.seller # Escrow
    BY <1>2, ConstantsAssumption DEF PartiesKnown, Release
  <2>a. balance' \in [Tokens -> [Accounts \cup {Escrow} -> Nat]]
    BY <1>2, <2>1, <2>5, TransferType DEF EscrowTypeOK, Release, PayRelease
  <2>6. EscrowTypeOK'
    BY <2>2, <2>3, <2>4, <2>a DEF EscrowTypeOK
  <2>7. PartiesKnown'
    BY <2>1, <2>4 DEF EscrowTypeOK, PartiesKnown, Session
  <2>8. PaidExactly'
    BY <1>2, <2>1, <2>4 DEF EscrowTypeOK, PaidExactly, Session, Release, LiveSession, EndedSession
  <2> QED
    BY <2>6, <2>7, <2>8
<1>3. ASSUME NEW id \in SessionIDs, NEW a \in Accounts, Dispute(id, a)
      PROVE  EscrowInv'
  <2>1. sessions[id] \in Session
    BY DEF EscrowTypeOK
  <2>2. [sessions[id] EXCEPT !.status = "Locked"] \in Session
    BY <2>1 DEF Session, Status
  <2>3. /\ sessions' = [sessions EXCEPT ![id] = [sessions[id] EXCEPT !.status = "Locked"]]
        /\ sessions[id].status = "Open"
        /\ UNCHANGED <<balance, now, paid>>
    BY <1>3 DEF Dispute
  <2>4. EscrowTypeOK'
    BY <2>2, <2>3 DEF EscrowTypeOK
  <2>5. PartiesKnown' /\ PaidExactly'
    BY <2>1, <2>3 DEF EscrowTypeOK, PartiesKnown, PaidExactly, Session, LiveSession, EndedSession
  <2> QED
    BY <2>4, <2>5
<1>4. ASSUME NEW id \in SessionIDs, NEW a \in Accounts, Claim(id, a)
      PROVE  EscrowInv'
  <2> DEFINE s == sessions[id]
             r == Remaining(s)
  <2>1. /\ s \in Session /\ s.status = "Open"
        /\ paid[id] \in [buyer : Nat, seller : Nat]
    BY <1>4 DEF EscrowTypeOK, Claim
  <2>2. r \in Nat
    BY <2>1 DEF PaidExactly, Remaining, Session
  <2>3. [s EXCEPT !.status = "Closed"] \in Session
    BY <2>1 DEF Session, Status
  <2>4. [paid[id] EXCEPT !.seller = paid[id].seller + r] \in [buyer : Nat, seller : Nat]
    BY <2>1, <2>2
  <2>5. /\ sessions' = [sessions EXCEPT ![id] = [s EXCEPT !.status = "Closed"]]
        /\ paid' = [paid EXCEPT ![id] = [paid[id] EXCEPT !.seller = paid[id].seller + r]]
        /\ now' = now
    BY <1>4 DEF Claim
  <2>6. s.token \in Tokens /\ s.seller \in Accounts /\ s.seller # Escrow
    BY <2>1, ConstantsAssumption DEF PartiesKnown
  <2>7. balance' \in [Tokens -> [Accounts \cup {Escrow} -> Nat]]
    BY <1>4, <2>2, <2>6, TransferType DEF EscrowTypeOK, Claim
  <2>8. EscrowTypeOK'
    BY <2>3, <2>4, <2>5, <2>7 DEF EscrowTypeOK
  <2>9. PartiesKnown'
    BY <2>1, <2>5 DEF EscrowTypeOK, PartiesKnown, Session
  <2>10. PaidExactly'
    BY <2>1, <2>5 DEF EscrowTypeOK, PaidExactly, Session, LiveSession, EndedSession, Remaining
  <2> QED
    BY <2>8, <2>9, <2>10
<1>5. ASSUME NEW id \in SessionIDs, NEW a \in Accounts, Withdraw(id, a)
      PROVE  EscrowInv'
  <2> DEFINE s == sessions[id]
             r == Remaining(s)
  <2>1. /\ s \in Session /\ s.status = "Open"
        /\ paid[id] \in [buyer : Nat, seller : Nat]
    BY <1>5 DEF EscrowTypeOK, Withdraw
  <2>2. r \in Nat
    BY <2>1 DEF PaidExactly, Remaining, Session
  <2>3. [s EXCEPT !.status = "Closed"] \in Session
    BY <2>1 DEF Session, Status
  <2>4. [paid[id] EXCEPT !.buyer = paid[id].buyer + r] \in [buyer : Nat, seller : Nat]
    BY <2>1, <2>2
  <2>5. /\ sessions' = [sessions EXCEPT ![id] = [s EXCEPT !.status = "Closed"]]
        /\ paid' = [paid EXCEPT ![id] = [paid[id] EXCEPT !.buyer = paid[id].buyer + r]]
        /\ now' = now
    BY <1>5 DEF Withdraw, CloseForBuyer
  <2>6. s.token \in Tokens /\ s.buyer \in Accounts /\ s.buyer # Escrow
    BY <2>1, ConstantsAssumption DEF PartiesKnown
  <2>7. balance' \in [Tokens -> [Accounts \cup {Escrow} -> Nat]]
    BY <1>5, <2>2, <2>6, TransferType DEF EscrowTypeOK, Withdraw, CloseForBuyer
  <2>8. EscrowTypeOK'
    BY <2>3, <2>4, <2>5, <2>7 DEF EscrowTypeOK
  <2>9. PartiesKnown'
    BY <2>1, <2>5 DEF EscrowTypeOK, PartiesKnown, Session
  <2>10. PaidExactly'
    BY <2>1, <2>5 DEF EscrowTypeOK, PaidExactly, Session, LiveSession, EndedSession, Remaining
  <2> QED
    BY <2>8, <2>9, <2>10
<1>6. ASSUME NEW id \in SessionIDs, NEW a \in Accounts,
             NEW x \in 0..Remaining(sessions[id]),
             Resolve(id, a, x, Remaining(sessions[id]) - x)
      PROVE  EscrowInv'
  <2> DEFINE s == sessions[id]
             y == Remaining(s) - x
             p == [paid[id] EXCEPT !.buyer = paid[id].buyer + x,
                                   !.seller = paid[id].seller + y]
  <2>1. /\ s \in Session /\ s.status = "Locked"
        /\ paid[id] \in [buyer : Nat, seller : Nat]
    BY <1>6 DEF EscrowTypeOK, Resolve
  <2>2. Remaining(s) \in Nat /\ x \in Nat /\ y \in Nat
    BY <2>1 DEF PaidExactly, Remaining, Session
  <2>3. [s EXCEPT !.status = "Resolved"] \in Session
    BY <2>1 DEF Session, Status
  <2>a. paid[id].buyer + x \in Nat /\ paid[id].seller + y \in Nat
    BY <2>1, <2>2
  <2>4. p \in [buyer : Nat, seller : Nat]
    BY <2>1, <2>a
  <2>5. /\ sessions' = [sessions EXCEPT ![id] = [s EXCEPT !.status = "Resolved"]]
        /\ paid' = [paid EXCEPT ![id] = p]
        /\ now' = now
    BY <1>6 DEF Resolve, PayAwards
  <2>6. /\ s.token \in Tokens /\ s.buyer \in Accounts /\ s.seller \in Accounts
        /\ s.buyer # s.seller
    BY <2>1 DEF PartiesKnown
  <2>7. balance' \in [Tokens -> [Accounts \cup {Escrow} -> Nat]]
    BY <1>6, <2>2, <2>6, TransferBothType DEF EscrowTypeOK, Resolve, PayAwards
  <2>8. EscrowTypeOK'
    BY <2>3, <2>4, <2>5, <2>7 DEF EscrowTypeOK
  <2>9. PartiesKnown'
    BY <2>1, <2>5 DEF EscrowTypeOK, PartiesKnown, Session
  <2>10. PaidExactly'
    BY <2>1, <2>2, <2>5 DEF EscrowTypeOK, PaidExactly, Session, LiveSession, EndedSession, Remaining
  <2> QED
    BY <2>8, <2>9, <2>10
<1>7. CASE Tick
  <2>a. now' \in 0..MaxTime
    BY <1>7, ConstantsAssumption DEF EscrowTypeOK, Tick
  <2>1. EscrowTypeOK'
    BY <1>7, <2>a DEF EscrowTypeOK, Tick
  <2>2. PartiesKnown' /\ PaidExactly'
    BY <1>7 DEF PartiesKnown, PaidExactly, Tick
  <2> QED
    BY <2>1, <2>2
<1>8. CASE UNCHANGED escrowVars
  BY <1>8 DEF EscrowTypeOK, PartiesKnown, PaidExactly, escrowVars
<1> QED
  BY <1>1, <1>2, <1>3, <1>4, <1>5, <1>6, <1>7, <1>8, EscrowStepCases

(* The inductive invariant holds in every reachable state of the contract. *)
THEOREM EscrowInvariant == EscrowSpec => []EscrowInv
<1>1. EscrowInit => EscrowInv
  BY EscrowInvInit
<1>2. EscrowInv /\ [EscrowNext]_escrowVars => EscrowInv'
  BY EscrowInvStep
<1> QED
  BY <1>1, <1>2, PTL DEF EscrowSpec

(* open, release, dispute, resolve, claim and withdraw keep the contract's *)
(* state, the tokens' ledgers and the payment history well typed; no       *)
(* balance ever goes below zero.                                           *)
THEOREM EscrowTypeCorrect == EscrowSpec => []EscrowTypeOK
<1>1. EscrowInv => EscrowTypeOK
  BY DEF EscrowInv
<1> QED
  BY <1>1, EscrowInvariant, PTL

(* Every deposit is paid out exactly once, however many sessions share the *)
(* contract.                                                               *)
THEOREM EscrowPaysExactly == EscrowSpec => []PaidExactly
<1>1. EscrowInv => PaidExactly
  BY DEF EscrowInv
<1> QED
  BY <1>1, EscrowInvariant, PTL

(* withdraw cannot overtake the seller's claim period: a buyer is paid only *)
(* by a ruling or after the deadline, with its grace unless the session is *)
(* a drawdown.                                                             *)
THEOREM EscrowRefunds == EscrowSpec => RefundNeedsRulingOrLapse
<1> DEFINE Refund == \A id \in SessionIDs :
                paid'[id].buyer > paid[id].buyer =>
                    \/ sessions[id].status = "Locked"
                    \/ sessions[id].drawdown /\ now > sessions[id].deadline
                    \/ now > sessions[id].deadline + CLAIM_GRACE
<1>1. EscrowInv /\ [EscrowNext]_escrowVars => [Refund]_escrowVars
  <2> SUFFICES ASSUME EscrowInv, EscrowNext PROVE Refund
    OBVIOUS
  <2> SUFFICES ASSUME NEW i \in SessionIDs, paid'[i].buyer > paid[i].buyer
               PROVE  \/ sessions[i].status = "Locked"
                      \/ sessions[i].drawdown /\ now > sessions[i].deadline
                      \/ now > sessions[i].deadline + CLAIM_GRACE
    OBVIOUS
  <2>1. /\ paid \in [SessionIDs -> [buyer : Nat, seller : Nat]]
        /\ sessions \in [SessionIDs -> Session]
    BY DEF EscrowInv, EscrowTypeOK
  <2>2. ~(paid[i].buyer > paid[i].buyer)
    BY <2>1
  <2>3. ASSUME NEW id \in SessionIDs, NEW b \in Accounts, NEW s \in Accounts,
               NEW a \in Accounts, NEW t \in Tokens, NEW m \in Amounts,
               NEW w \in Windows, NEW d \in BOOLEAN,
               Open(id, b, s, a, t, m, w, d)
        PROVE  FALSE
    BY <2>2, <2>3 DEF Open, Fund
  <2>4. ASSUME NEW id \in SessionIDs, NEW a \in Accounts, NEW m \in Amounts,
               Release(id, a, m)
        PROVE  FALSE
    BY <2>1, <2>2, <2>4 DEF Release, PayRelease
  <2>5. ASSUME NEW id \in SessionIDs, NEW a \in Accounts, Dispute(id, a)
        PROVE  FALSE
    BY <2>2, <2>5 DEF Dispute
  <2>6. ASSUME NEW id \in SessionIDs, NEW a \in Accounts, Claim(id, a)
        PROVE  FALSE
    BY <2>1, <2>2, <2>6 DEF Claim
  <2>7. ASSUME NEW id \in SessionIDs, NEW a \in Accounts, Withdraw(id, a)
        PROVE  \/ sessions[i].drawdown /\ now > sessions[i].deadline
               \/ now > sessions[i].deadline + CLAIM_GRACE
    <3>1. i = id
      BY <2>1, <2>2, <2>7 DEF Withdraw, CloseForBuyer
    <3> QED
      BY <2>7, <3>1 DEF Withdraw, RefundAt
  <2>8. ASSUME NEW id \in SessionIDs, NEW a \in Accounts,
               NEW x \in 0..Remaining(sessions[id]),
               Resolve(id, a, x, Remaining(sessions[id]) - x)
        PROVE  sessions[i].status = "Locked"
    <3>1. i = id
      BY <2>1, <2>2, <2>8 DEF Resolve, PayAwards
    <3> QED
      BY <2>8, <3>1 DEF Resolve
  <2>9. CASE Tick
    BY <2>2, <2>9 DEF Tick
  <2> QED
    BY <2>3, <2>4, <2>5, <2>6, <2>7, <2>8, <2>9, EscrowStepCases
<1> QED
  BY <1>1, EscrowInvariant, PTL DEF EscrowSpec, RefundNeedsRulingOrLapse

(* The terms both sides saw at open never change, and an ended session stays*)
(* ended: open accepts only an id nobody has used.                         *)
THEOREM EscrowTermsFixed == EscrowSpec => TermsAreFixed
<1> DEFINE Kept(id) ==
             LET s == sessions[id]  t == sessions'[id] IN
             s.status # "None" =>
                 /\ <<t.buyer, t.seller, t.arbiter, t.token, t.amount,
                      t.deadline, t.drawdown>> =
                    <<s.buyer, s.seller, s.arbiter, s.token, s.amount,
                      s.deadline, s.drawdown>>
                 /\ EndedSession(s) => t = s /\ paid'[id] = paid[id]
<1>1. EscrowInv /\ [EscrowNext]_escrowVars => [\A id \in SessionIDs : Kept(id)]_escrowVars
  <2> SUFFICES ASSUME EscrowInv, EscrowNext, NEW i \in SessionIDs PROVE Kept(i)
    OBVIOUS
  <2>1. /\ paid \in [SessionIDs -> [buyer : Nat, seller : Nat]]
        /\ sessions \in [SessionIDs -> Session]
    BY DEF EscrowInv, EscrowTypeOK
  <2>2. ASSUME sessions'[i] = sessions[i], paid'[i] = paid[i]
        PROVE  Kept(i)
    BY <2>2
  <2>4. ASSUME NEW id \in SessionIDs, NEW b \in Accounts, NEW s \in Accounts,
               NEW a \in Accounts, NEW t \in Tokens, NEW m \in Amounts,
               NEW w \in Windows, NEW d \in BOOLEAN,
               Open(id, b, s, a, t, m, w, d)
        PROVE  Kept(i)
    <3>1. CASE i = id
      BY <2>4, <3>1 DEF Open
    <3>2. CASE i # id
      BY <2>1, <2>2, <2>4, <3>2 DEF Open, Fund
    <3> QED
      BY <3>1, <3>2
  <2>5. ASSUME NEW id \in SessionIDs, NEW a \in Accounts, NEW m \in Amounts,
               Release(id, a, m)
        PROVE  Kept(i)
    <3>1. CASE i = id
      BY <2>1, <2>5, <3>1 DEF Release, PayRelease, EndedSession, Session
    <3>2. CASE i # id
      BY <2>1, <2>2, <2>5, <3>2 DEF Release, PayRelease
    <3> QED
      BY <3>1, <3>2
  <2>6. ASSUME NEW id \in SessionIDs, NEW st, NEW p,
               ~EndedSession(sessions[id]),
               sessions' = [sessions EXCEPT ![id].status = st],
               paid' = [paid EXCEPT ![id] = p]
        PROVE  Kept(i)
    <3>1. CASE i = id
      BY <2>1, <2>6, <3>1 DEF Session
    <3>2. CASE i # id
      BY <2>1, <2>2, <2>6, <3>2
    <3> QED
      BY <3>1, <3>2
  <2>7. ASSUME NEW id \in SessionIDs, NEW a \in Accounts, Dispute(id, a)
        PROVE  Kept(i)
    <3>1. paid' = [paid EXCEPT ![id] = paid[id]]
      BY <2>1, <2>7 DEF Dispute
    <3> QED
      BY <2>6, <2>7, <3>1 DEF Dispute, EndedSession
  <2>8. ASSUME NEW id \in SessionIDs, NEW a \in Accounts, Claim(id, a)
        PROVE  Kept(i)
    <3>1. paid' = [paid EXCEPT ![id] = paid'[id]]
      BY <2>1, <2>8 DEF Claim
    <3> QED
      BY <2>6, <2>8, <3>1 DEF Claim, EndedSession
  <2>9. ASSUME NEW id \in SessionIDs, NEW a \in Accounts, Withdraw(id, a)
        PROVE  Kept(i)
    <3>1. paid' = [paid EXCEPT ![id] = paid'[id]]
      BY <2>1, <2>9 DEF Withdraw, CloseForBuyer
    <3> QED
      BY <2>6, <2>9, <3>1 DEF Withdraw, CloseForBuyer, EndedSession
  <2>10. ASSUME NEW id \in SessionIDs, NEW a \in Accounts,
                NEW x \in 0..Remaining(sessions[id]),
                Resolve(id, a, x, Remaining(sessions[id]) - x)
         PROVE  Kept(i)
    <3>1. paid' = [paid EXCEPT ![id] = paid'[id]]
      BY <2>1, <2>10 DEF Resolve, PayAwards
    <3> QED
      BY <2>6, <2>10, <3>1 DEF Resolve, PayAwards, EndedSession
  <2>11. CASE Tick
    BY <2>2, <2>11 DEF Tick
  <2> QED
    BY <2>4, <2>5, <2>7, <2>8, <2>9, <2>10, <2>11, EscrowStepCases
<1> QED
  BY <1>1, EscrowInvariant, PTL DEF EscrowSpec, TermsAreFixed

(* The unspent budget of a drawdown session is the buyer's: claim refuses  *)
(* such a session and withdraw pays nothing to the seller.                 *)
THEOREM EscrowDrawdown == EscrowSpec => []DrawdownRemainderIsBuyers
<1>1. EscrowInit => DrawdownRemainderIsBuyers
  BY DEF EscrowInit, NoSession, DrawdownRemainderIsBuyers
<1>2. EscrowInv /\ DrawdownRemainderIsBuyers /\ [EscrowNext]_escrowVars
        => DrawdownRemainderIsBuyers'
  <2> SUFFICES ASSUME EscrowInv, DrawdownRemainderIsBuyers, [EscrowNext]_escrowVars,
                      NEW i \in SessionIDs,
                      sessions'[i].drawdown, sessions'[i].status # "Resolved"
               PROVE  paid'[i].seller = sessions'[i].released
    BY DEF DrawdownRemainderIsBuyers
  <2> DEFINE Goal == paid'[i].seller = sessions'[i].released
  <2>1. /\ paid \in [SessionIDs -> [buyer : Nat, seller : Nat]]
        /\ sessions \in [SessionIDs -> Session]
    BY DEF EscrowInv, EscrowTypeOK
  <2>2. ASSUME sessions'[i] = sessions[i], paid'[i] = paid[i]
        PROVE  Goal
    BY <2>2 DEF DrawdownRemainderIsBuyers
  <2>3. ASSUME NEW id \in SessionIDs, NEW b \in Accounts, NEW s \in Accounts,
               NEW a \in Accounts, NEW t \in Tokens, NEW m \in Amounts,
               NEW w \in Windows, NEW d \in BOOLEAN,
               Open(id, b, s, a, t, m, w, d)
        PROVE  Goal
    <3>1. CASE i = id
      <4>1. paid[i].seller = 0
        BY <2>3, <3>1 DEF EscrowInv, PaidExactly, Open
      <4> QED
        BY <2>1, <2>3, <3>1, <4>1 DEF Open, Fund
    <3>2. CASE i # id
      BY <2>1, <2>2, <2>3, <3>2 DEF Open, Fund
    <3> QED
      BY <3>1, <3>2
  <2>4. ASSUME NEW id \in SessionIDs, NEW a \in Accounts, NEW m \in Amounts,
               Release(id, a, m)
        PROVE  Goal
    <3>1. CASE i = id
      <4>1. paid[i].seller = sessions[i].released
        BY <2>4, <3>1 DEF EscrowInv, PaidExactly, LiveSession, Release
      <4> QED
        BY <2>1, <2>4, <3>1, <4>1 DEF Release, PayRelease, Session
    <3>2. CASE i # id
      BY <2>1, <2>2, <2>4, <3>2 DEF Release, PayRelease
    <3> QED
      BY <3>1, <3>2
  <2>5. ASSUME NEW id \in SessionIDs, NEW a \in Accounts, Dispute(id, a)
        PROVE  Goal
    <3>1. CASE i = id
      <4>1. paid[i].seller = sessions[i].released
        BY <2>5, <3>1 DEF EscrowInv, PaidExactly, LiveSession, Dispute
      <4> QED
        BY <2>1, <2>5, <3>1, <4>1 DEF Dispute, Session
    <3>2. CASE i # id
      BY <2>1, <2>2, <2>5, <3>2 DEF Dispute
    <3> QED
      BY <3>1, <3>2
  <2>6. ASSUME NEW id \in SessionIDs, NEW a \in Accounts, Claim(id, a)
        PROVE  Goal
    <3>1. i # id
      BY <2>1, <2>6 DEF Claim, Session
    <3> QED
      BY <2>1, <2>2, <2>6, <3>1 DEF Claim
  <2>7. ASSUME NEW id \in SessionIDs, NEW a \in Accounts, Withdraw(id, a)
        PROVE  Goal
    <3>1. CASE i = id
      <4>1. paid[i].seller = sessions[i].released
        BY <2>7, <3>1 DEF EscrowInv, PaidExactly, LiveSession, Withdraw
      <4> QED
        BY <2>1, <2>7, <3>1, <4>1 DEF Withdraw, CloseForBuyer, Session
    <3>2. CASE i # id
      BY <2>1, <2>2, <2>7, <3>2 DEF Withdraw, CloseForBuyer
    <3> QED
      BY <3>1, <3>2
  <2>8. ASSUME NEW id \in SessionIDs, NEW a \in Accounts,
               NEW x \in 0..Remaining(sessions[id]),
               Resolve(id, a, x, Remaining(sessions[id]) - x)
        PROVE  Goal
    <3>1. i # id
      BY <2>1, <2>8 DEF Resolve, PayAwards, Session
    <3> QED
      BY <2>1, <2>2, <2>8, <3>1 DEF Resolve, PayAwards
  <2>9. CASE Tick
    BY <2>2, <2>9 DEF Tick
  <2>10. CASE UNCHANGED escrowVars
    BY <2>2, <2>10 DEF escrowVars
  <2> QED
    BY <2>3, <2>4, <2>5, <2>6, <2>7, <2>8, <2>9, <2>10, EscrowStepCases
<1> QED
  BY <1>1, <1>2, EscrowInvariant, PTL DEF EscrowSpec

-----------------------------------------------------------------------------
(* Solvency.  Owed(t) is a union over sessions, so a step that changes one *)
(* session exchanges that session's units and keeps all others: its size   *)
(* changes by what the session holds after the step less what it held.     *)
LEMMA DueIsNat ==
    ASSUME EscrowInv, NEW id \in SessionIDs, NEW t
    PROVE  DueIn(id, t) \in Nat
<1>1. /\ sessions[id].amount \in Nat /\ sessions[id].released \in Nat
      /\ sessions[id].released <= sessions[id].amount
  BY DEF EscrowInv, EscrowTypeOK, Session, PaidExactly
<1> QED
  BY <1>1 DEF DueIn, Held, Remaining

LEMMA UnitsCardinality ==
    ASSUME NEW id, NEW n \in Nat
    PROVE  IsFiniteSet({id} \X (1..n)) /\ Cardinality({id} \X (1..n)) = n
<1>1. IsFiniteSet({id}) /\ Cardinality({id}) = 1
  BY FS_Singleton
<1>2. IsFiniteSet(1..n) /\ Cardinality(1..n) = n
  BY FS_Interval
<1>3. /\ IsFiniteSet({id} \X (1..n))
      /\ Cardinality({id} \X (1..n)) = Cardinality({id}) * Cardinality(1..n)
  BY <1>1, <1>2, FS_Product
<1> QED
  BY <1>1, <1>2, <1>3

\* Exchanging a part of a finite set for something disjoint from the rest.
LEMMA ExchangeCardinality ==
    ASSUME NEW S, IsFiniteSet(S), NEW A \in SUBSET S, NEW B, IsFiniteSet(B),
           (S \ A) \cap B = {}
    PROVE  /\ IsFiniteSet((S \ A) \cup B)
           /\ Cardinality((S \ A) \cup B) = Cardinality(S) - Cardinality(A) + Cardinality(B)
<1>1. /\ IsFiniteSet(S \ A)
      /\ Cardinality(S \ A) = Cardinality(S) - Cardinality(S \cap A)
  BY FS_Difference
<1>2. S \cap A = A
  OBVIOUS
<1>3. /\ IsFiniteSet((S \ A) \cup B)
      /\ Cardinality((S \ A) \cup B) =
            Cardinality(S \ A) + Cardinality(B) - Cardinality((S \ A) \cap B)
  BY <1>1, FS_Union
<1>4. Cardinality((S \ A) \cap B) = 0
  BY FS_EmptySet
<1>5. IsFiniteSet(A)
  BY FS_Subset
<1>6. /\ Cardinality(S) \in Nat /\ Cardinality(A) \in Nat /\ Cardinality(B) \in Nat
  BY <1>5, FS_CardinalityType
<1> QED
  BY <1>1, <1>2, <1>3, <1>4, <1>6

LEMMA OneSessionChanges ==
    ASSUME EscrowInv, EscrowInv', NEW id \in SessionIDs, NEW t \in Tokens,
           \A i \in SessionIDs \ {id} : sessions'[i] = sessions[i],
           IsFiniteSet(Owed(t))
    PROVE  /\ IsFiniteSet(Owed(t)')
           /\ Cardinality(Owed(t)') =
                 Cardinality(Owed(t)) - DueIn(id, t) + DueIn(id, t)'
<1> DEFINE A == {id} \X (1..DueIn(id, t))
           B == {id} \X (1..DueIn(id, t)')
<1>1. DueIn(id, t) \in Nat /\ DueIn(id, t)' \in Nat
  <2>1. DueIn(id, t) \in Nat
    BY DueIsNat
  <2>2. /\ sessions'[id].amount \in Nat /\ sessions'[id].released \in Nat
        /\ sessions'[id].released <= sessions'[id].amount
    BY DEF EscrowInv, EscrowTypeOK, Session, PaidExactly
  <2>3. DueIn(id, t)' \in Nat
    BY <2>2 DEF DueIn, Held, Remaining
  <2> QED
    BY <2>1, <2>3
<1>2. /\ IsFiniteSet(A) /\ Cardinality(A) = DueIn(id, t)
      /\ IsFiniteSet(B) /\ Cardinality(B) = DueIn(id, t)'
  BY <1>1, UnitsCardinality
<1>3. \A i \in SessionIDs \ {id} : DueIn(i, t)' = DueIn(i, t)
  BY DEF DueIn
<1>4. A \in SUBSET Owed(t)
  BY DEF Owed
<1>5. (Owed(t) \ A) \cap B = {}
  <2> SUFFICES ASSUME NEW u \in Owed(t) \ A, u \in B PROVE FALSE
    OBVIOUS
  <2>1. PICK i \in SessionIDs : u \in {i} \X (1..DueIn(i, t))
    BY DEF Owed
  <2>2. i = id
    BY <2>1
  <2> QED
    BY <2>1, <2>2
<1>6. Owed(t)' = (Owed(t) \ A) \cup B
  <2>1. ASSUME NEW u \in Owed(t)' PROVE u \in (Owed(t) \ A) \cup B
    <3>1. PICK i \in SessionIDs : u \in {i} \X (1..DueIn(i, t)')
      BY <2>1 DEF Owed
    <3>2. CASE i = id
      BY <3>1, <3>2
    <3>3. CASE i # id
      <4>1. u \in {i} \X (1..DueIn(i, t))
        BY <1>3, <3>1, <3>3
      <4>2. u \in Owed(t)
        BY <4>1 DEF Owed
      <4>3. u \notin A
        BY <3>3, <4>1
      <4> QED
        BY <4>2, <4>3
    <3> QED
      BY <3>2, <3>3
  <2>2. ASSUME NEW u \in Owed(t) \ A PROVE u \in Owed(t)'
    <3>1. PICK i \in SessionIDs : u \in {i} \X (1..DueIn(i, t))
      BY <2>2 DEF Owed
    <3>2. i # id
      BY <2>2, <3>1
    <3>3. u \in {i} \X (1..DueIn(i, t)')
      BY <1>3, <3>1, <3>2
    <3> QED
      BY <3>3 DEF Owed
  <2>3. ASSUME NEW u \in B PROVE u \in Owed(t)'
    BY <2>3 DEF Owed
  <2> QED
    BY <2>1, <2>2, <2>3
<1> HIDE DEF A, B
<1> QED
  BY <1>2, <1>4, <1>5, <1>6, ExchangeCardinality

\* The inductive invariant: the sum of Solvent is that of a finite set.
SolventInv ==
    \A t \in Tokens : IsFiniteSet(Owed(t)) /\ balance[t][Escrow] = Cardinality(Owed(t))

\* A step that changes session id keeps the contract solvent when its
\* balance changes, in every token, by as much as what the session holds.
LEMMA SolventIfBalanced ==
    ASSUME EscrowInv, EscrowInv', SolventInv, NEW id \in SessionIDs,
           \A i \in SessionIDs \ {id} : sessions'[i] = sessions[i],
           \A t \in Tokens :
               balance'[t][Escrow] = balance[t][Escrow] - DueIn(id, t) + DueIn(id, t)'
    PROVE  SolventInv'
<1> SUFFICES ASSUME NEW t \in Tokens
             PROVE  IsFiniteSet(Owed(t)') /\ balance'[t][Escrow] = Cardinality(Owed(t)')
  BY DEF SolventInv
<1>1. IsFiniteSet(Owed(t)) /\ balance[t][Escrow] = Cardinality(Owed(t))
  BY DEF SolventInv
<1>2. /\ IsFiniteSet(Owed(t)')
      /\ Cardinality(Owed(t)') = Cardinality(Owed(t)) - DueIn(id, t) + DueIn(id, t)'
  BY <1>1, OneSessionChanges
<1> QED
  BY <1>1, <1>2

\* What a transfer does to the contract's own balance.
LEMMA TransferIn ==
    ASSUME balance \in [Tokens -> [Accounts \cup {Escrow} -> Nat]],
           NEW token \in Tokens, NEW a \in Accounts, NEW n \in Nat,
           Transfer(token, a, Escrow, n)
    PROVE  \A t \in Tokens :
               balance'[t][Escrow] = balance[t][Escrow] + (IF t = token THEN n ELSE 0)
<1>1. a # Escrow /\ \A t \in Tokens : balance[t] \in [Accounts \cup {Escrow} -> Nat]
      /\ balance[t][Escrow] \in Nat
  BY ConstantsAssumption
<1> QED
  BY <1>1 DEF Transfer

LEMMA TransferOut ==
    ASSUME balance \in [Tokens -> [Accounts \cup {Escrow} -> Nat]],
           NEW token \in Tokens, NEW a \in Accounts, NEW n \in Nat,
           Transfer(token, Escrow, a, n)
    PROVE  \A t \in Tokens :
               balance'[t][Escrow] = balance[t][Escrow] - (IF t = token THEN n ELSE 0)
<1>1. a # Escrow /\ \A t \in Tokens : balance[t] \in [Accounts \cup {Escrow} -> Nat]
      /\ balance[t][Escrow] \in Nat
  BY ConstantsAssumption
<1> QED
  BY <1>1 DEF Transfer

LEMMA TransferBothOut ==
    ASSUME balance \in [Tokens -> [Accounts \cup {Escrow} -> Nat]],
           NEW token \in Tokens, NEW a1 \in Accounts, NEW a2 \in Accounts,
           NEW n1 \in Nat, NEW n2 \in Nat,
           TransferBoth(token, Escrow, a1, n1, a2, n2)
    PROVE  \A t \in Tokens : balance'[t][Escrow] =
               balance[t][Escrow] - (IF t = token THEN n1 + n2 ELSE 0)
<1>1. a1 # Escrow /\ a2 # Escrow
      /\ \A t \in Tokens : balance[t] \in [Accounts \cup {Escrow} -> Nat]
                           /\ balance[t][Escrow] \in Nat
  BY ConstantsAssumption
<1> QED
  BY <1>1 DEF TransferBoth

LEMMA SolventStep ==
    EscrowInv /\ EscrowInv' /\ SolventInv /\ [EscrowNext]_escrowVars => SolventInv'
<1> SUFFICES ASSUME EscrowInv, EscrowInv', SolventInv, [EscrowNext]_escrowVars
             PROVE  SolventInv'
  OBVIOUS
<1>0. /\ balance \in [Tokens -> [Accounts \cup {Escrow} -> Nat]]
      /\ sessions \in [SessionIDs -> Session]
      /\ \A t \in Tokens : balance[t][Escrow] \in Nat
  BY DEF EscrowInv, EscrowTypeOK
<1>1. ASSUME NEW id \in SessionIDs, NEW buyer \in Accounts, NEW seller \in Accounts,
             NEW a \in Accounts, NEW token \in Tokens, NEW m \in Amounts,
             NEW w \in Windows, NEW d \in BOOLEAN,
             Open(id, buyer, seller, a, token, m, w, d)
      PROVE  SolventInv'
  <2>1. m \in Nat /\ Transfer(token, buyer, Escrow, m)
    BY <1>1, ConstantsAssumption DEF Open, Fund
  <2>2. /\ \A i \in SessionIDs \ {id} : sessions'[i] = sessions[i]
        /\ sessions[id].status = "None"
        /\ sessions'[id].status = "Open" /\ sessions'[id].token = token
        /\ sessions'[id].amount = m /\ sessions'[id].released = 0
    BY <1>0, <1>1 DEF Open, Fund
  <2>3. ASSUME NEW t \in Tokens
        PROVE  balance'[t][Escrow] = balance[t][Escrow] - DueIn(id, t) + DueIn(id, t)'
    <3>1. DueIn(id, t) = 0 /\ DueIn(id, t)' = IF t = token THEN m ELSE 0
      BY <2>1, <2>2 DEF DueIn, Held, LiveSession, Remaining
    <3>2. balance'[t][Escrow] = balance[t][Escrow] + (IF t = token THEN m ELSE 0)
      BY <1>0, <2>1, TransferIn
    <3> QED
      BY <1>0, <2>1, <3>1, <3>2
  <2> QED
    BY <2>2, <2>3, SolventIfBalanced
<1>2. ASSUME NEW id \in SessionIDs, NEW a \in Accounts, NEW m \in Amounts,
             Release(id, a, m)
      PROVE  SolventInv'
  <2> DEFINE s == sessions[id]
  <2>1. /\ m \in Nat /\ s.status = "Open" /\ s.token \in Tokens /\ s.seller \in Accounts
        /\ s.amount \in Nat /\ s.released \in Nat
    BY <1>0, <1>2, ConstantsAssumption DEF Release, EscrowInv, PartiesKnown, Session
  <2>2. Transfer(s.token, Escrow, s.seller, m)
    BY <1>2 DEF Release, PayRelease
  <2>3. /\ \A i \in SessionIDs \ {id} : sessions'[i] = sessions[i]
        /\ sessions'[id] = [s EXCEPT !.released = @ + m]
    BY <1>0, <1>2 DEF Release, PayRelease
  <2>4. /\ sessions'[id].status = "Open" /\ sessions'[id].token = s.token
        /\ sessions'[id].amount = s.amount /\ sessions'[id].released = s.released + m
    BY <1>0, <2>1, <2>3 DEF Session
  <2>5. ASSUME NEW t \in Tokens
        PROVE  balance'[t][Escrow] = balance[t][Escrow] - DueIn(id, t) + DueIn(id, t)'
    <3>1. /\ DueIn(id, t) = IF t = s.token THEN s.amount - s.released ELSE 0
          /\ DueIn(id, t)' = IF t = s.token THEN s.amount - (s.released + m) ELSE 0
      BY <2>1, <2>4 DEF DueIn, Held, LiveSession, Remaining
    <3>2. balance'[t][Escrow] = balance[t][Escrow] - (IF t = s.token THEN m ELSE 0)
      BY <1>0, <2>1, <2>2, TransferOut
    <3> HIDE DEF s
    <3> QED
      BY <1>0, <2>1, <3>1, <3>2
  <2> QED
    BY <2>3, <2>5, SolventIfBalanced
<1>3. ASSUME NEW id \in SessionIDs, NEW a \in Accounts, Dispute(id, a)
      PROVE  SolventInv'
  <2>1. /\ \A i \in SessionIDs \ {id} : sessions'[i] = sessions[i]
        /\ sessions[id].status = "Open" /\ balance' = balance
        /\ sessions'[id] = [sessions[id] EXCEPT !.status = "Locked"]
    BY <1>0, <1>3 DEF Dispute
  <2>2. /\ sessions'[id].status = "Locked"
        /\ sessions'[id].token = sessions[id].token
        /\ sessions'[id].amount = sessions[id].amount
        /\ sessions'[id].released = sessions[id].released
    BY <1>0, <2>1 DEF Session
  <2>3. \A t \in Tokens : DueIn(id, t)' = DueIn(id, t) /\ DueIn(id, t) \in Nat
    BY <2>1, <2>2, DueIsNat DEF DueIn, Held, LiveSession, Remaining
  <2>4. \A t \in Tokens :
            balance'[t][Escrow] = balance[t][Escrow] - DueIn(id, t) + DueIn(id, t)'
    BY <1>0, <2>1, <2>3
  <2> QED
    BY <2>1, <2>4, SolventIfBalanced
<1>4. ASSUME NEW id \in SessionIDs, sessions[id].status \in {"Open", "Locked"},
             NEW end \in {"Closed", "Resolved"},
             sessions' = [sessions EXCEPT ![id].status = end],
             \A t \in Tokens : balance'[t][Escrow] = balance[t][Escrow] -
                 (IF t = sessions[id].token THEN Remaining(sessions[id]) ELSE 0)
      PROVE  SolventInv'
  <2>1. /\ \A i \in SessionIDs \ {id} : sessions'[i] = sessions[i]
        /\ sessions'[id].status = end
    BY <1>0, <1>4 DEF Session
  <2>2. \A t \in Tokens :
            /\ DueIn(id, t) \in Nat /\ DueIn(id, t)' = 0
            /\ DueIn(id, t) = IF t = sessions[id].token THEN Remaining(sessions[id]) ELSE 0
    BY <1>4, <2>1, DueIsNat DEF DueIn, Held, LiveSession
  <2>3. \A t \in Tokens :
            balance'[t][Escrow] = balance[t][Escrow] - DueIn(id, t) + DueIn(id, t)'
    BY <1>0, <1>4, <2>2
  <2> QED
    BY <2>1, <2>3, SolventIfBalanced
<1>a. ASSUME NEW id \in SessionIDs, sessions[id].status # "None"
      PROVE  /\ sessions[id].token \in Tokens /\ sessions[id].seller \in Accounts
             /\ sessions[id].buyer \in Accounts /\ Remaining(sessions[id]) \in Nat
  <2>1. /\ sessions[id].amount \in Nat /\ sessions[id].released \in Nat
        /\ sessions[id].released <= sessions[id].amount
    BY <1>0 DEF EscrowInv, Session, PaidExactly
  <2> QED
    BY <1>a, <2>1 DEF EscrowInv, PartiesKnown, Remaining
<1>5. ASSUME NEW id \in SessionIDs, NEW a \in Accounts, Claim(id, a)
      PROVE  SolventInv'
  <2>1. /\ sessions[id].status = "Open"
        /\ sessions' = [sessions EXCEPT ![id].status = "Closed"]
        /\ Transfer(sessions[id].token, Escrow, sessions[id].seller, Remaining(sessions[id]))
    BY <1>5 DEF Claim
  <2>2. \A t \in Tokens : balance'[t][Escrow] = balance[t][Escrow] -
            (IF t = sessions[id].token THEN Remaining(sessions[id]) ELSE 0)
    BY <1>0, <1>a, <2>1, TransferOut
  <2> QED
    BY <1>4, <2>1, <2>2
<1>6. ASSUME NEW id \in SessionIDs, NEW a \in Accounts, Withdraw(id, a)
      PROVE  SolventInv'
  <2>1. /\ sessions[id].status = "Open"
        /\ sessions' = [sessions EXCEPT ![id].status = "Closed"]
        /\ Transfer(sessions[id].token, Escrow, sessions[id].buyer, Remaining(sessions[id]))
    BY <1>6 DEF Withdraw, CloseForBuyer
  <2>2. \A t \in Tokens : balance'[t][Escrow] = balance[t][Escrow] -
            (IF t = sessions[id].token THEN Remaining(sessions[id]) ELSE 0)
    BY <1>0, <1>a, <2>1, TransferOut
  <2> QED
    BY <1>4, <2>1, <2>2
<1>7. ASSUME NEW id \in SessionIDs, NEW a \in Accounts,
             NEW x \in 0..Remaining(sessions[id]),
             Resolve(id, a, x, Remaining(sessions[id]) - x)
      PROVE  SolventInv'
  <2> DEFINE r == Remaining(sessions[id])
  <2>1. /\ sessions[id].status = "Locked"
        /\ sessions' = [sessions EXCEPT ![id].status = "Resolved"]
        /\ TransferBoth(sessions[id].token, Escrow, sessions[id].buyer, x,
                        sessions[id].seller, r - x)
    BY <1>7 DEF Resolve, PayAwards
  <2>2. r \in Nat
    BY <1>a, <2>1
  <2> HIDE DEF r
  <2>3. x \in Nat /\ r - x \in Nat /\ x + (r - x) = r
    BY <1>7, <2>2 DEF r
  <2>4. \A t \in Tokens : balance'[t][Escrow] = balance[t][Escrow] -
            (IF t = sessions[id].token THEN x + (r - x) ELSE 0)
    BY <1>0, <1>a, <2>1, <2>3, TransferBothOut
  <2>5. \A t \in Tokens : balance'[t][Escrow] = balance[t][Escrow] -
            (IF t = sessions[id].token THEN Remaining(sessions[id]) ELSE 0)
    BY <2>3, <2>4 DEF r
  <2> QED
    BY <1>4, <2>1, <2>5
<1>8. CASE Tick \/ UNCHANGED escrowVars
  <2>1. sessions' = sessions /\ balance' = balance
    BY <1>8 DEF Tick, escrowVars
  <2> QED
    BY <2>1 DEF SolventInv, Owed, DueIn
<1> QED
  BY <1>1, <1>2, <1>3, <1>5, <1>6, <1>7, <1>8, EscrowStepCases

LEMMA SolventInit == EscrowInit => SolventInv
<1> SUFFICES ASSUME EscrowInit, NEW t \in Tokens
             PROVE  IsFiniteSet(Owed(t)) /\ balance[t][Escrow] = Cardinality(Owed(t))
  BY DEF SolventInv
<1>1. \A id \in SessionIDs : DueIn(id, t) = 0
  BY DEF EscrowInit, NoSession, DueIn, Held, LiveSession
<1>2. Owed(t) = {}
  BY <1>1 DEF Owed
<1>3. balance[t][Escrow] = 0
  BY DEF EscrowInit
<1> QED
  BY <1>2, <1>3, FS_EmptySet

LEMMA SolventInvariant == EscrowSpec => []SolventInv
<1>1. EscrowInit => EscrowInv /\ SolventInv
  BY EscrowInvInit, SolventInit
<1>2. EscrowInv /\ SolventInv /\ [EscrowNext]_escrowVars => EscrowInv' /\ SolventInv'
  BY EscrowInvStep, SolventStep
<1> QED
  BY <1>1, <1>2, PTL DEF EscrowSpec

(* For any number of sessions, tokens and accounts, the contract's balance *)
(* of every token is what its live sessions have not paid out, to the unit *)
(* and after every call.                                                   *)
THEOREM EscrowStaysSolvent == EscrowSpec => []Solvent
<1>1. SolventInv => Solvent
  BY DEF SolventInv, Solvent
<1> QED
  BY <1>1, SolventInvariant, PTL

(* What a live session has not paid out is there, whatever the other       *)
(* sessions in its token have drawn: release, resolve, claim and withdraw  *)
(* never revert because the contract's own balance is too small.           *)
LiveIsCovered ==
    \A id \in SessionIDs :
        LiveSession(sessions[id]) =>
            Remaining(sessions[id]) <= balance[sessions[id].token][Escrow]

(* Every live session is covered, for any number of sessions that share    *)
(* the contract's balance: the balance check of the token never makes a    *)
(* payout revert that the contract's own requires let through.             *)
THEOREM EscrowCoversLive == EscrowSpec => []LiveIsCovered
<1>1. EscrowInv /\ SolventInv => LiveIsCovered
  <2> SUFFICES ASSUME EscrowInv, SolventInv, NEW id \in SessionIDs,
                      LiveSession(sessions[id])
               PROVE  Remaining(sessions[id]) <= balance[sessions[id].token][Escrow]
    BY DEF LiveIsCovered
  <2> DEFINE t == sessions[id].token
             units == {id} \X (1..DueIn(id, t))
  <2>1. t \in Tokens
    BY DEF EscrowInv, PartiesKnown, LiveSession
  <2>2. DueIn(id, t) \in Nat /\ DueIn(id, t) = Remaining(sessions[id])
    BY DueIsNat DEF DueIn, Held
  <2>3. IsFiniteSet(Owed(t)) /\ balance[t][Escrow] = Cardinality(Owed(t))
    BY <2>1 DEF SolventInv
  <2>4. units \in SUBSET Owed(t)
    BY DEF Owed
  <2> HIDE DEF t
  <2>5. Cardinality(units) = DueIn(id, t)
    BY <2>2, UnitsCardinality
  <2> HIDE DEF units
  <2>6. Cardinality(units) <= Cardinality(Owed(t))
    BY <2>3, <2>4, FS_Subset
  <2> QED
    BY <2>2, <2>3, <2>5, <2>6 DEF t
<1> QED
  BY <1>1, EscrowInvariant, SolventInvariant, PTL
=============================================================================
