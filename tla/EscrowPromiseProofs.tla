------------------------- MODULE EscrowPromiseProofs -------------------------
(***************************************************************************)
(* RhizomeEscrow implements EscrowPromise, for every set of sessions,      *)
(* accounts, tokens, amounts and windows: a step of the contract is a step *)
(* of the boxes, or leaves them alone.                                     *)
(***************************************************************************)
EXTENDS RhizomeEscrowProofs

\* A call that writes one session writes one box.
LEMMA BoxWritten ==
    ASSUME sessions \in [SessionIDs -> Session], NEW id \in SessionIDs, NEW s,
           sessions' = [sessions EXCEPT ![id] = s]
    PROVE  /\ BoxStates' = [BoxStates EXCEPT ![id] = BoxState(s)]
           /\ BoxTerms' = [BoxTerms EXCEPT ![id] = Terms(s)]
           /\ BoxHeld' = [BoxHeld EXCEPT ![id] = Held(s)]
<1>1. \A i \in SessionIDs : sessions'[i] = IF i = id THEN s ELSE sessions[i]
  OBVIOUS
<1> QED
  BY <1>1 DEF BoxStates, BoxTerms, BoxHeld

\* A call that moves one token changes that token's purses.
LEMMA PursesOfToken ==
    ASSUME NEW t \in Tokens, NEW f,
           \A u \in Tokens \ {t}, c \in Accounts : balance'[u][c] = balance[u][c],
           Purse'[t] = f
    PROVE  Purse' = [Purse EXCEPT ![t] = f]
<1>1. Purse = [u \in Tokens |-> Purse[u]] /\ Purse' = [u \in Tokens |-> Purse'[u]]
  BY DEF Purse
<1>2. ASSUME NEW u \in Tokens \ {t} PROVE Purse'[u] = Purse[u]
  BY <1>2 DEF Purse
<1> QED
  BY <1>1, <1>2, Zenon

\* A transfer into the contract, and one out of it, changes one purse.
LEMMA PurseCharged ==
    ASSUME balance \in [Tokens -> [Accounts \cup {Escrow} -> Nat]],
           NEW t \in Tokens, NEW a \in Accounts, NEW n \in Nat,
           Transfer(t, a, Escrow, n)
    PROVE  Purse' = [Purse EXCEPT ![t][a] = @ - n] /\ n <= Purse[t][a]
<1>1. a # Escrow
  BY ConstantsAssumption
<1>2. \A u \in Tokens, c \in Accounts :
         balance'[u][c] = IF u = t /\ c = a THEN balance[u][c] - n ELSE balance[u][c]
  BY <1>1, ConstantsAssumption DEF Transfer
<1>3. n <= balance[t][a]
  BY DEF Transfer
<1>4. /\ Purse \in [Tokens -> [Accounts -> Nat]] /\ Purse[t][a] = balance[t][a]
      /\ Purse'[t] = [Purse[t] EXCEPT ![a] = Purse[t][a] - n]
  BY <1>2 DEF Purse
<1>5. Purse' = [Purse EXCEPT ![t] = [Purse[t] EXCEPT ![a] = Purse[t][a] - n]]
  BY <1>2, <1>4, PursesOfToken
<1> QED
  BY <1>3, <1>4, <1>5

\* The purses after a payment to one account, and to two.
Paid(t, a, n)         == [Purse EXCEPT ![t][a] = @ + n]
Shared(t, a, n, b, m) == [Purse EXCEPT ![t][a] = @ + n, ![t][b] = @ + m]

LEMMA PursePaid ==
    ASSUME balance \in [Tokens -> [Accounts \cup {Escrow} -> Nat]],
           NEW t \in Tokens, NEW a \in Accounts, NEW n \in Nat,
           Transfer(t, Escrow, a, n)
    PROVE  Purse' = Paid(t, a, n)
<1>1. a # Escrow
  BY ConstantsAssumption
<1>2. \A u \in Tokens, c \in Accounts :
         balance'[u][c] = IF u = t /\ c = a THEN balance[u][c] + n ELSE balance[u][c]
  BY <1>1, ConstantsAssumption DEF Transfer
<1>4. /\ Purse \in [Tokens -> [Accounts -> Nat]]
      /\ Purse'[t] = [Purse[t] EXCEPT ![a] = Purse[t][a] + n]
  BY <1>2 DEF Purse
<1>5. Purse' = [Purse EXCEPT ![t] = [Purse[t] EXCEPT ![a] = Purse[t][a] + n]]
  BY <1>2, <1>4, PursesOfToken
<1> QED
  BY <1>4, <1>5 DEF Paid

LEMMA PursesShared ==
    ASSUME balance \in [Tokens -> [Accounts \cup {Escrow} -> Nat]],
           NEW t \in Tokens, NEW a \in Accounts, NEW b \in Accounts, a # b,
           NEW n \in Nat, NEW m \in Nat,
           TransferBoth(t, Escrow, a, n, b, m)
    PROVE  Purse' = Shared(t, a, n, b, m)
<1>1. a # Escrow /\ b # Escrow
  BY ConstantsAssumption
<1>2. \A u \in Tokens, c \in Accounts :
         balance'[u][c] = IF u = t /\ c = a THEN balance[u][c] + n
                          ELSE IF u = t /\ c = b THEN balance[u][c] + m
                          ELSE balance[u][c]
  BY <1>1, ConstantsAssumption DEF TransferBoth
<1>4. /\ Purse \in [Tokens -> [Accounts -> Nat]]
      /\ Purse'[t] = [Purse[t] EXCEPT ![a] = Purse[t][a] + n, ![b] = Purse[t][b] + m]
  BY <1>2 DEF Purse
<1>5. Purse' = [Purse EXCEPT ![t] = [Purse[t] EXCEPT ![a] = Purse[t][a] + n,
                                                    ![b] = Purse[t][b] + m]]
  BY <1>2, <1>4, PursesOfToken
<1> QED
  BY <1>4, <1>5 DEF Shared

\* All of the rest for one side is a share of nothing for the other.
LEMMA OneSided ==
    ASSUME balance \in [Tokens -> [Accounts \cup {Escrow} -> Nat]],
           NEW t \in Tokens, NEW a \in Accounts, NEW b \in Accounts, a # b, NEW n \in Nat
    PROVE  /\ Paid(t, b, n) = Shared(t, a, 0, b, n - 0)
           /\ Paid(t, a, n) = Shared(t, a, n, b, n - n)
<1>1. Purse \in [Tokens -> [Accounts -> Nat]]
  BY DEF Purse
<1>2. n - 0 = n /\ n - n = 0 /\ Purse[t][a] + 0 = Purse[t][a] /\ Purse[t][b] + 0 = Purse[t][b]
  BY <1>1
<1>3. [Purse[t] EXCEPT ![a] = Purse[t][a]] = Purse[t]
  BY <1>1
<1>4. [[Purse[t] EXCEPT ![a] = Purse[t][a] + n] EXCEPT ![b] = Purse[t][b]]
        = [Purse[t] EXCEPT ![a] = Purse[t][a] + n]
  BY <1>1
<1> QED
  BY <1>1, <1>2, <1>3, <1>4 DEF Paid, Shared

-----------------------------------------------------------------------------
\* What a box is, while its session is live and not.
LEMMA BoxFacts ==
    ASSUME EscrowInv, NEW id \in SessionIDs
    PROVE  /\ sessions[id].status = "None" => id \in Promise!Boxes("unused")
           /\ LiveSession(sessions[id]) =>
                 /\ id \in Promise!Boxes("held")
                 /\ BoxHeld[id] = Remaining(sessions[id])
                 /\ Remaining(sessions[id]) \in Nat
                 /\ BoxTerms[id] = Terms(sessions[id])
                 /\ sessions[id].token \in Tokens
                 /\ sessions[id].buyer \in Accounts
                 /\ sessions[id].seller \in Accounts
                 /\ sessions[id].buyer # sessions[id].seller
<1>1. BoxStates[id] = BoxState(sessions[id]) /\ BoxHeld[id] = Held(sessions[id])
      /\ BoxTerms[id] = Terms(sessions[id])
  BY DEF BoxStates, BoxHeld, BoxTerms
<1>2. sessions[id].status = "None" => id \in Promise!Boxes("unused")
  BY <1>1 DEF BoxState, LiveSession, Promise!Boxes
<1>3. LiveSession(sessions[id]) => id \in Promise!Boxes("held")
  BY <1>1 DEF BoxState, LiveSession, Promise!Boxes
<1>4. Remaining(sessions[id]) \in Nat
  BY DEF EscrowInv, EscrowTypeOK, PaidExactly, Remaining, Session
<1>5. LiveSession(sessions[id]) => sessions[id].status # "None"
  BY DEF LiveSession
<1> QED
  BY <1>1, <1>2, <1>3, <1>4, <1>5 DEF EscrowInv, PartiesKnown, Held

\* Ending a session whose rest goes to its two sides.
LEMMA EndShares ==
    ASSUME EscrowInv, NEW id \in SessionIDs, LiveSession(sessions[id]),
           NEW st \in {"Resolved", "Closed"},
           sessions' = [sessions EXCEPT ![id].status = st],
           NEW share \in 0..Remaining(sessions[id]),
           Purse' = Shared(sessions[id].token, sessions[id].buyer, share,
                           sessions[id].seller, Remaining(sessions[id]) - share)
    PROVE  Promise!Next
<1> DEFINE s == sessions[id]
           e == [s EXCEPT !.status = st]
<1>1. sessions \in [SessionIDs -> Session] /\ s \in Session
  BY DEF EscrowInv, EscrowTypeOK
<1>2. BoxState(e) = "ended" /\ Held(e) = 0 /\ Terms(e) = Terms(s)
  BY <1>1 DEF BoxState, Held, Terms, LiveSession, Session
<1>3. sessions' = [sessions EXCEPT ![id] = e]
  BY <1>1
<1> HIDE DEF e
<1>4. /\ BoxStates' = [BoxStates EXCEPT ![id] = "ended"]
      /\ BoxTerms' = [BoxTerms EXCEPT ![id] = Terms(s)]
      /\ BoxHeld' = [BoxHeld EXCEPT ![id] = 0]
  <2>1. /\ BoxStates' = [BoxStates EXCEPT ![id] = BoxState(e)]
        /\ BoxTerms' = [BoxTerms EXCEPT ![id] = Terms(e)]
        /\ BoxHeld' = [BoxHeld EXCEPT ![id] = Held(e)]
    BY <1>1, <1>3, BoxWritten
  <2> QED
    BY <1>2, <2>1, Zenon
<1>5. BoxTerms' = BoxTerms
  BY <1>4 DEF BoxTerms
<1>6. BoxTerms[id].token = s.token /\ BoxTerms[id].buyer = s.buyer
      /\ BoxTerms[id].seller = s.seller
  <2>1. BoxTerms[id] = Terms(s)
    BY BoxFacts
  <2> QED
    BY <2>1 DEF Terms
<1>7. Promise!ShareRest(id, share) /\ share \in 0..BoxHeld[id]
  BY <1>4, <1>5, <1>6, BoxFacts DEF Promise!ShareRest, Shared
<1> QED
  BY <1>7, BoxFacts DEF Promise!Next

-----------------------------------------------------------------------------
LEMMA OpenDeposits ==
    ASSUME EscrowInv, NEW id \in SessionIDs, NEW buyer \in Accounts, NEW seller \in Accounts,
           NEW a \in Accounts, NEW t \in Tokens, NEW m \in Amounts, NEW w \in Windows,
           NEW d \in BOOLEAN, Open(id, buyer, seller, a, t, m, w, d)
    PROVE  Promise!Next
<1> DEFINE new == [buyer |-> buyer, seller |-> seller, arbiter |-> a, token |-> t,
                   amount |-> m, released |-> 0, deadline |-> now + w,
                   status |-> "Open", drawdown |-> d]
<1>1. /\ sessions \in [SessionIDs -> Session] /\ m \in Nat
      /\ balance \in [Tokens -> [Accounts \cup {Escrow} -> Nat]]
  BY ConstantsAssumption DEF EscrowInv, EscrowTypeOK
<1>2. /\ sessions' = [sessions EXCEPT ![id] = new] /\ sessions[id].status = "None"
      /\ buyer # seller /\ m > 0 /\ Transfer(t, buyer, Escrow, m)
  BY DEF Open, Fund
<1>3. /\ BoxState(new) = "held" /\ Held(new) = m
      /\ Terms(new) = [buyer |-> buyer, seller |-> seller, token |-> t]
  BY <1>1 DEF BoxState, Held, Terms, LiveSession, Remaining
<1> HIDE DEF new
<1>4. /\ BoxStates' = [BoxStates EXCEPT ![id] = BoxState(new)]
      /\ BoxTerms' = [BoxTerms EXCEPT ![id] = Terms(new)]
      /\ BoxHeld' = [BoxHeld EXCEPT ![id] = Held(new)]
  BY <1>1, <1>2, BoxWritten
<1>5. Purse' = [Purse EXCEPT ![t][buyer] = @ - m] /\ m <= Purse[t][buyer]
  BY <1>1, <1>2, PurseCharged
<1>6. Promise!Deposit(id, buyer, seller, t, m)
  BY <1>2, <1>3, <1>4, <1>5, Zenon DEF Promise!Deposit
<1>7. Purse[t][buyer] \in Nat
  BY <1>1 DEF Purse
<1>8. m \in 1..Purse[t][buyer] /\ id \in Promise!Boxes("unused")
  BY <1>1, <1>2, <1>5, <1>7, BoxFacts
<1> QED
  BY <1>6, <1>8, Zenon DEF Promise!Next

LEMMA ReleasePays ==
    ASSUME EscrowInv, NEW id \in SessionIDs, NEW a \in Accounts, NEW m \in Amounts,
           Release(id, a, m)
    PROVE  Promise!Next
<1> DEFINE s == sessions[id]
           e == [s EXCEPT !.released = s.released + m]
<1>1. /\ sessions \in [SessionIDs -> Session] /\ s \in Session /\ m \in Nat
      /\ balance \in [Tokens -> [Accounts \cup {Escrow} -> Nat]]
  BY ConstantsAssumption DEF EscrowInv, EscrowTypeOK
<1>2. /\ sessions' = [sessions EXCEPT ![id] = e] /\ s.status = "Open"
      /\ m > 0 /\ s.released + m <= s.amount /\ Transfer(s.token, Escrow, s.seller, m)
  BY DEF Release, PayRelease
<1>3. LiveSession(s)
  BY <1>2 DEF LiveSession
<1>4. /\ id \in Promise!Boxes("held") /\ BoxHeld[id] = Remaining(s)
      /\ BoxTerms[id] = Terms(s) /\ s.token \in Tokens /\ s.seller \in Accounts
  BY <1>3, BoxFacts
<1>5. /\ BoxState(e) = BoxState(s) /\ Held(e) = Remaining(s) - m /\ Terms(e) = Terms(s)
      /\ m \in 1..Remaining(s)
  BY <1>1, <1>2 DEF BoxState, Held, Terms, LiveSession, Remaining, Session
<1> HIDE DEF e
<1>6. /\ BoxStates' = [BoxStates EXCEPT ![id] = BoxState(e)]
      /\ BoxTerms' = [BoxTerms EXCEPT ![id] = Terms(e)]
      /\ BoxHeld' = [BoxHeld EXCEPT ![id] = Held(e)]
  BY <1>1, <1>2, BoxWritten
<1>7. BoxStates' = BoxStates /\ BoxTerms' = BoxTerms
  BY <1>5, <1>6 DEF BoxStates, BoxTerms
<1>8. Purse' = Paid(s.token, s.seller, m)
  BY <1>1, <1>2, <1>4, PursePaid
<1>9. BoxTerms[id].token = s.token /\ BoxTerms[id].seller = s.seller
  BY <1>4 DEF Terms
<1>10. BoxHeld' = [BoxHeld EXCEPT ![id] = @ - m]
  BY <1>4, <1>5, <1>6
<1>11. Promise!PayPart(id, m)
  BY <1>7, <1>8, <1>9, <1>10 DEF Promise!PayPart, Paid
<1> QED
  BY <1>4, <1>5, <1>11, Zenon DEF Promise!Next

LEMMA DisputeStutters ==
    ASSUME EscrowInv, NEW id \in SessionIDs, NEW a \in Accounts, Dispute(id, a)
    PROVE  UNCHANGED Promise!vars
<1> DEFINE s == sessions[id]
           e == [s EXCEPT !.status = "Locked"]
<1>1. sessions \in [SessionIDs -> Session] /\ s \in Session
  BY DEF EscrowInv, EscrowTypeOK
<1>2. sessions' = [sessions EXCEPT ![id] = e] /\ s.status = "Open" /\ balance' = balance
  BY DEF Dispute
<1>3. BoxState(e) = BoxState(s) /\ Held(e) = Held(s) /\ Terms(e) = Terms(s)
  BY <1>1, <1>2 DEF BoxState, Held, Terms, LiveSession, Remaining, Session
<1> HIDE DEF e
<1>4. /\ BoxStates' = [BoxStates EXCEPT ![id] = BoxState(e)]
      /\ BoxTerms' = [BoxTerms EXCEPT ![id] = Terms(e)]
      /\ BoxHeld' = [BoxHeld EXCEPT ![id] = Held(e)]
  BY <1>1, <1>2, BoxWritten
<1>5. BoxStates' = BoxStates /\ BoxTerms' = BoxTerms /\ BoxHeld' = BoxHeld
  BY <1>3, <1>4 DEF BoxStates, BoxTerms, BoxHeld
<1>6. Purse' = Purse
  BY <1>2 DEF Purse
<1> QED
  BY <1>5, <1>6 DEF Promise!vars

LEMMA EndingShares ==
    ASSUME EscrowInv, NEW id \in SessionIDs, NEW a \in Accounts,
           \/ Claim(id, a)
           \/ Withdraw(id, a)
           \/ \E x \in 0..Remaining(sessions[id]) :
                 Resolve(id, a, x, Remaining(sessions[id]) - x)
    PROVE  Promise!Next
<1> DEFINE s == sessions[id]
           r == Remaining(s)
<1>1. LiveSession(s)
  BY DEF LiveSession, Claim, Withdraw, Resolve
<1>2. /\ balance \in [Tokens -> [Accounts \cup {Escrow} -> Nat]] /\ r \in Nat
      /\ s.token \in Tokens /\ s.buyer \in Accounts /\ s.seller \in Accounts
      /\ s.buyer # s.seller
  BY <1>1, BoxFacts DEF EscrowInv, EscrowTypeOK
<1>3. 0 \in 0..r /\ r \in 0..r /\ "Closed" \in {"Resolved", "Closed"}
      /\ "Resolved" \in {"Resolved", "Closed"}
  BY <1>2
<1>4. ASSUME Claim(id, a) PROVE Promise!Next
  <2>1. /\ Transfer(s.token, Escrow, s.seller, r)
        /\ sessions' = [sessions EXCEPT ![id].status = "Closed"]
    BY <1>4 DEF Claim
  <2> HIDE DEF s, r
  <2>2. Purse' = Paid(s.token, s.seller, r)
    BY <1>2, <2>1, PursePaid
  <2>3. Purse' = Shared(s.token, s.buyer, 0, s.seller, r - 0)
    BY <1>2, <2>2, OneSided
  <2> QED
    BY <1>1, <1>3, <2>1, <2>3, EndShares, Zenon DEF s, r
<1>5. ASSUME Withdraw(id, a) PROVE Promise!Next
  <2>1. /\ Transfer(s.token, Escrow, s.buyer, r)
        /\ sessions' = [sessions EXCEPT ![id].status = "Closed"]
    BY <1>5 DEF Withdraw, CloseForBuyer
  <2> HIDE DEF s, r
  <2>2. Purse' = Paid(s.token, s.buyer, r)
    BY <1>2, <2>1, PursePaid
  <2>3. Purse' = Shared(s.token, s.buyer, r, s.seller, r - r)
    BY <1>2, <2>2, OneSided
  <2> QED
    BY <1>1, <1>3, <2>1, <2>3, EndShares, Zenon DEF s, r
<1>6. ASSUME NEW x \in 0..r, Resolve(id, a, x, r - x) PROVE Promise!Next
  <2>1. /\ TransferBoth(s.token, Escrow, s.buyer, x, s.seller, r - x)
        /\ sessions' = [sessions EXCEPT ![id].status = "Resolved"]
    BY <1>6 DEF Resolve, PayAwards
  <2> HIDE DEF s, r
  <2>2. x \in Nat /\ r - x \in Nat
    BY <1>2
  <2>3. Purse' = Shared(s.token, s.buyer, x, s.seller, r - x)
    BY <1>2, <2>1, <2>2, PursesShared
  <2> QED
    BY <1>1, <1>3, <2>1, <2>3, EndShares, Zenon DEF s, r
<1> QED
  BY <1>4, <1>5, <1>6

(* The contract implements the promise: whatever the number of sessions,   *)
(* every call is a deposit into an unused box, a part payment or a sharing *)
(* of the rest of a held one, or leaves the boxes alone.                   *)
THEOREM EscrowKeepsPromise == EscrowSpec => PromiseKept
<1>1. EscrowInit => Promise!Init
  BY ConstantsAssumption DEF EscrowInit, Promise!Init, BoxStates, BoxTerms, BoxHeld, Purse,
     BoxState, Held, LiveSession, NoSession, Terms
<1>2. EscrowInv /\ [EscrowNext]_escrowVars => [Promise!Next]_(Promise!vars)
  <2> SUFFICES ASSUME EscrowInv, [EscrowNext]_escrowVars
               PROVE  Promise!Next \/ UNCHANGED Promise!vars
    OBVIOUS
  <2>1. CASE EscrowNext
    <3>1. CASE Tick
      BY <3>1 DEF Tick, Promise!vars, BoxStates, BoxTerms, BoxHeld, Purse
    <3> QED
      BY <2>1, <3>1, EscrowStepCases, OpenDeposits, ReleasePays, DisputeStutters, EndingShares
  <2>2. CASE UNCHANGED escrowVars
    BY <2>2 DEF escrowVars, Promise!vars, BoxStates, BoxTerms, BoxHeld, Purse
  <2> QED
    BY <2>1, <2>2
<1> QED
  BY <1>1, <1>2, EscrowInvariant, PTL DEF EscrowSpec, PromiseKept, Promise!Spec
=============================================================================
