--------------------------- MODULE RhizomeEscrow ---------------------------
(***************************************************************************)
(* The native market escrow, contracts/RhizomeEscrow.sol: one session per  *)
(* purchase, funded by the buyer at open, drawn down by release, frozen by *)
(* dispute, ended by resolve (arbiter), claim (seller) or withdraw         *)
(* (buyer).  A call that reverts changes nothing, so a require is a guard. *)
(* nonReentrant makes every call one atomic step.  Addresses are members   *)
(* of Accounts; the contract itself is the address Escrow.                 *)
(***************************************************************************)
EXTENDS Integers, FiniteSets

CONSTANTS SessionIDs,          \* bytes32 session ids that callers derive
          Accounts,            \* addresses that can call the contract
          Escrow,              \* address(this)
          ZeroAddress,         \* address(0)
          Tokens,              \* ERC-20 contracts
          Amounts,             \* amounts that open and release are called with
          Windows,             \* dispute windows that open is called with
          CLAIM_GRACE,
          MIN_DISPUTE_WINDOW,
          MAX_DISPUTE_WINDOW,
          Funds,               \* what every account holds of every token at first
          MaxTime              \* bound on block.timestamp

ASSUME ConstantsAssumption ==
    /\ Escrow \notin Accounts
    /\ ZeroAddress \notin Accounts
    /\ ZeroAddress \notin Tokens
    /\ Amounts \subseteq Nat
    /\ Windows \subseteq Nat
    /\ CLAIM_GRACE \in Nat
    /\ MIN_DISPUTE_WINDOW \in Nat
    /\ MAX_DISPUTE_WINDOW \in Nat
    /\ Funds \in Nat
    /\ MaxTime \in Nat

VARIABLES sessions,   \* the contract's mapping of sessions
          balance,    \* the tokens' own ledgers: balance[token][address]
          now,        \* block.timestamp
          paid        \* history: what each session has paid to each side

escrowVars == <<sessions, balance, now, paid>>

Status == {"None", "Open", "Locked", "Resolved", "Closed"}

Session == [buyer    : Accounts \cup {ZeroAddress},
            seller   : Accounts \cup {ZeroAddress},
            arbiter  : Accounts \cup {ZeroAddress},
            token    : Tokens \cup {ZeroAddress},
            amount   : Nat,
            released : Nat,
            deadline : Nat,
            status   : Status,
            drawdown : BOOLEAN]

\* A mapping entry nobody has written reads as zeros.
NoSession == [buyer |-> ZeroAddress, seller |-> ZeroAddress,
              arbiter |-> ZeroAddress, token |-> ZeroAddress,
              amount |-> 0, released |-> 0, deadline |-> 0,
              status |-> "None", drawdown |-> FALSE]

EscrowTypeOK ==
    /\ sessions \in [SessionIDs -> Session]
    /\ balance \in [Tokens -> [Accounts \cup {Escrow} -> Nat]]
    /\ now \in 0..MaxTime
    /\ paid \in [SessionIDs -> [buyer : Nat, seller : Nat]]

Remaining(s) == s.amount - s.released

-----------------------------------------------------------------------------
(* The ERC-20 token, external: a transfer either moves the amount or        *)
(* returns false or reverts, which makes the whole call revert.             *)
TransferOverdrawn(token, from, to, amount) ==   \* faulty: no balance check
    balance' = [balance EXCEPT ![token][from] = @ - amount,
                               ![token][to]   = @ + amount]

Transfer(token, from, to, amount) ==
    /\ balance[token][from] >= amount
    /\ balance' = [balance EXCEPT ![token][from] = @ - amount,
                                  ![token][to]   = @ + amount]

\* resolve makes two transfers in one call; the second sees the first.
TransferBoth(token, from, to1, amount1, to2, amount2) ==
    /\ balance[token][from] >= amount1 + amount2
    /\ balance' = [balance EXCEPT ![token][from] = @ - amount1 - amount2,
                                  ![token][to1]  = @ + amount1,
                                  ![token][to2]  = @ + amount2]

EscrowInit ==
    /\ sessions = [id \in SessionIDs |-> NoSession]
    /\ balance = [t \in Tokens |->
                    [a \in Accounts \cup {Escrow} |->
                        IF a = Escrow THEN 0 ELSE Funds]]
    /\ now = 0
    /\ paid = [id \in SessionIDs |-> [buyer |-> 0, seller |-> 0]]

\* The model keeps every deadline, with its grace, below MaxTime.
WithinHorizon(window) == now + window + CLAIM_GRACE < MaxTime

Fund(id, buyer, seller, arbiter, token, amount, window, drawdown) ==
    /\ seller # buyer
    /\ amount > 0
    /\ window >= MIN_DISPUTE_WINDOW /\ window <= MAX_DISPUTE_WINDOW
    /\ WithinHorizon(window)
    /\ sessions' = [sessions EXCEPT ![id] =
                      [buyer |-> buyer, seller |-> seller,
                       arbiter |-> arbiter, token |-> token,
                       amount |-> amount, released |-> 0,
                       deadline |-> now + window,
                       status |-> "Open", drawdown |-> drawdown]]
    /\ Transfer(token, buyer, Escrow, amount)
    /\ UNCHANGED <<now, paid>>

\* Faulty variant: an ended session's id may be opened again.
OpenReusingID(id, buyer, seller, arbiter, token, amount, window, drawdown) ==
    /\ sessions[id].status \notin {"Open", "Locked"}
    /\ Fund(id, buyer, seller, arbiter, token, amount, window, drawdown)

Open(id, buyer, seller, arbiter, token, amount, window, drawdown) ==
    /\ sessions[id].status = "None"
    /\ Fund(id, buyer, seller, arbiter, token, amount, window, drawdown)

\* Faulty variant: the release is not counted.
PayReleaseUncounted(id, s, amount) ==
    /\ Transfer(s.token, Escrow, s.seller, amount)
    /\ paid' = [paid EXCEPT ![id].seller = @ + amount]
    /\ UNCHANGED <<sessions, now>>

PayRelease(id, s, amount) ==
    /\ sessions' = [sessions EXCEPT ![id].released = @ + amount]
    /\ Transfer(s.token, Escrow, s.seller, amount)
    /\ paid' = [paid EXCEPT ![id].seller = @ + amount]
    /\ UNCHANGED now

\* Faulty variant: the sum is not compared with the deposit.
ReleaseUnbounded(id, caller, amount) ==
    LET s == sessions[id] IN
    /\ s.status = "Open" /\ caller = s.buyer /\ now <= s.deadline
    /\ amount > 0
    /\ PayRelease(id, s, amount)

Release(id, caller, amount) ==
    LET s == sessions[id] IN
    /\ s.status = "Open"
    /\ caller = s.buyer
    /\ now <= s.deadline
    /\ amount > 0 /\ s.released + amount <= s.amount
    /\ PayRelease(id, s, amount)

Dispute(id, caller) ==
    LET s == sessions[id] IN
    /\ s.status = "Open"
    /\ caller \in {s.buyer, s.seller}
    /\ now <= s.deadline
    /\ sessions' = [sessions EXCEPT ![id].status = "Locked"]
    /\ UNCHANGED <<balance, now, paid>>

PayAwards(id, s, buyerAward, sellerAward) ==
    /\ buyerAward + sellerAward = Remaining(s)
    /\ sessions' = [sessions EXCEPT ![id].status = "Resolved"]
    /\ TransferBoth(s.token, Escrow, s.buyer, buyerAward, s.seller, sellerAward)
    /\ paid' = [paid EXCEPT ![id].buyer = @ + buyerAward,
                            ![id].seller = @ + sellerAward]
    /\ UNCHANGED now

Resolve(id, caller, buyerAward, sellerAward) ==
    LET s == sessions[id] IN
    /\ s.status = "Locked"
    /\ caller = s.arbiter
    /\ PayAwards(id, s, buyerAward, sellerAward)

\* Faulty variant: the seller also claims the rest of a drawdown budget.
ClaimDrawdown(id, caller) ==
    LET s == sessions[id] IN
    /\ s.status = "Open" /\ caller = s.seller /\ now > s.deadline
    /\ sessions' = [sessions EXCEPT ![id].status = "Closed"]
    /\ Transfer(s.token, Escrow, s.seller, Remaining(s))
    /\ paid' = [paid EXCEPT ![id].seller = @ + Remaining(s)]
    /\ UNCHANGED now

Claim(id, caller) ==
    LET s == sessions[id] IN
    /\ s.status = "Open"
    /\ caller = s.seller
    /\ now > s.deadline
    /\ ~s.drawdown
    /\ sessions' = [sessions EXCEPT ![id].status = "Closed"]
    /\ Transfer(s.token, Escrow, s.seller, Remaining(s))
    /\ paid' = [paid EXCEPT ![id].seller = @ + Remaining(s)]
    /\ UNCHANGED now

RefundAtDeadline(s) == s.deadline   \* faulty: no grace for the seller

RefundAt(s) == IF s.drawdown THEN s.deadline ELSE s.deadline + CLAIM_GRACE

CloseForBuyer(id, s, amount) ==
    /\ sessions' = [sessions EXCEPT ![id].status = "Closed"]
    /\ Transfer(s.token, Escrow, s.buyer, amount)
    /\ paid' = [paid EXCEPT ![id].buyer = @ + amount]
    /\ UNCHANGED now

\* Faulty variants: the whole deposit comes back, releases included; a
\* drawdown session is refused like in claim.
WithdrawDeposit(id, caller) ==
    LET s == sessions[id] IN
    /\ s.status = "Open" /\ caller = s.buyer /\ now > RefundAt(s)
    /\ CloseForBuyer(id, s, s.amount)

WithdrawNotDrawdown(id, caller) ==
    LET s == sessions[id] IN
    /\ s.status = "Open" /\ caller = s.buyer /\ now > RefundAt(s)
    /\ ~s.drawdown
    /\ CloseForBuyer(id, s, Remaining(s))

Withdraw(id, caller) ==
    LET s == sessions[id] IN
    /\ s.status = "Open"
    /\ caller = s.buyer
    /\ now > RefundAt(s)
    /\ CloseForBuyer(id, s, Remaining(s))

\* Blocks are mined; block.timestamp grows.
Tick ==
    /\ now < MaxTime
    /\ now' = now + 1
    /\ UNCHANGED <<sessions, balance, paid>>

-----------------------------------------------------------------------------
(* What the parties of a session can call, for a set of callers, and what  *)
(* only its arbiter can.                                                   *)
PartyStep(callers) ==
    \E id \in SessionIDs, a \in callers :
        \/ \E seller \in callers, arbiter \in Accounts, token \in Tokens,
              amount \in Amounts, w \in Windows, d \in BOOLEAN :
              Open(id, a, seller, arbiter, token, amount, w, d)
        \/ \E amount \in Amounts : Release(id, a, amount)
        \/ Dispute(id, a)
        \/ Claim(id, a)
        \/ Withdraw(id, a)

ArbiterStep(callers) ==
    \E id \in SessionIDs, a \in callers :
        \E buyerAward \in 0..Remaining(sessions[id]) :
            Resolve(id, a, buyerAward, Remaining(sessions[id]) - buyerAward)

EscrowNext == PartyStep(Accounts) \/ ArbiterStep(Accounts) \/ Tick

EscrowSpec == EscrowInit /\ [][EscrowNext]_escrowVars
-----------------------------------------------------------------------------
(* The parties are alive: time passes and a party that may pull its money  *)
(* out does.  Nothing is assumed of the arbiter.                           *)
PartyFairness ==
    /\ WF_escrowVars(Tick)
    /\ \A id \in SessionIDs :
          /\ WF_escrowVars(\E a \in Accounts : Withdraw(id, a))
          /\ WF_escrowVars(\E a \in Accounts : Claim(id, a))

\* An arbiter that rules on every session locked under it.
ArbiterFairness ==
    \A id \in SessionIDs :
        WF_escrowVars(\E a \in Accounts, buyerAward \in Amounts \cup {0} :
            Resolve(id, a, buyerAward, Remaining(sessions[id]) - buyerAward))

EscrowPartySpec == EscrowSpec /\ PartyFairness

-----------------------------------------------------------------------------
LiveSession(s) == s.status \in {"Open", "Locked"}
EndedSession(s) == s.status \in {"Resolved", "Closed"}

\* What a session still holds, and the part of it that is in token t.
Held(s) == IF LiveSession(s) THEN Remaining(s) ELSE 0

DueIn(id, t) == IF sessions[id].token = t THEN Held(sessions[id]) ELSE 0

\* The units of token t that the sessions have not paid out, one by one.
Owed(t) == UNION {{id} \X (1..DueIn(id, t)) : id \in SessionIDs}

(* The contract holds exactly what its live sessions have not paid out:    *)
(* open, release, resolve, claim and withdraw of different sessions never  *)
(* spend each other's deposits, and nothing stays behind when a session    *)
(* ends.                                                                   *)
Solvent ==
    \A t \in Tokens : balance[t][Escrow] = Cardinality(Owed(t))

(* Every session pays out its deposit exactly once: while it is live the   *)
(* seller has had what release counted and the buyer nothing; when it has  *)
(* ended the two sides together have had the whole amount.                 *)
PaidExactly ==
    \A id \in SessionIDs :
        LET s == sessions[id] IN
        /\ s.released <= s.amount
        /\ s.status = "None" => paid[id].seller = 0 /\ paid[id].buyer = 0
        /\ LiveSession(s) => paid[id].seller = s.released /\ paid[id].buyer = 0
        /\ EndedSession(s) => paid[id].seller + paid[id].buyer = s.amount

(* A drawdown session's unspent budget is the buyer's: unless an arbiter   *)
(* ruled, the seller of one has had the releases and nothing more.         *)
DrawdownRemainderIsBuyers ==
    \A id \in SessionIDs :
        sessions[id].drawdown /\ sessions[id].status # "Resolved"
            => paid[id].seller = sessions[id].released

(* The buyer gets money back from a session only by a ruling, or once the  *)
(* seller's exclusive claim period is over: withdraw cannot overtake the   *)
(* claim of a seller that acts within CLAIM_GRACE.                         *)
RefundNeedsRulingOrLapse ==
    [][\A id \in SessionIDs :
          paid'[id].buyer > paid[id].buyer =>
              \/ sessions[id].status = "Locked"
              \/ sessions[id].drawdown /\ now > sessions[id].deadline
              \/ now > sessions[id].deadline + CLAIM_GRACE]_escrowVars

(* The terms both sides saw at open never change, and an ended session     *)
(* stays ended: its id cannot be opened again and nothing more is paid.    *)
TermsAreFixed ==
    [][\A id \in SessionIDs :
          LET s == sessions[id]  t == sessions'[id] IN
          s.status # "None" =>
              /\ <<t.buyer, t.seller, t.arbiter, t.token, t.amount,
                   t.deadline, t.drawdown>> =
                 <<s.buyer, s.seller, s.arbiter, s.token, s.amount,
                   s.deadline, s.drawdown>>
              /\ EndedSession(s) => t = s /\ paid'[id] = paid[id]]_escrowVars

(* A session that nobody disputes leaves Open although nobody but its own  *)
(* parties acts: the seller's claim or the buyer's withdraw frees the      *)
(* remainder.  With an arbiter that rules, every session ends, also one    *)
(* that was locked when nothing was left to award.                         *)
SessionsEnd ==
    /\ \A id \in SessionIDs :
          (sessions[id].status = "Open") ~> (sessions[id].status # "Open")
    /\ ArbiterFairness =>
          \A id \in SessionIDs :
              LiveSession(sessions[id]) ~> EndedSession(sessions[id])

-----------------------------------------------------------------------------
(* The refinement.  A session is a box that holds what the session has not *)
(* paid out; a purse is an account's own balance.  The contract's balance, *)
(* the clock, the deadline, the arbiter and the lock of a dispute have no  *)
(* counterpart.                                                            *)
BoxState(s) ==
    CASE s.status = "None" -> "unused" [] LiveSession(s) -> "held" [] OTHER -> "ended"

Terms(s) == [buyer |-> s.buyer, seller |-> s.seller, token |-> s.token]

BoxStates == [id \in SessionIDs |-> BoxState(sessions[id])]
BoxTerms  == [id \in SessionIDs |-> Terms(sessions[id])]
BoxHeld   == [id \in SessionIDs |-> Held(sessions[id])]
Purse     == [t \in Tokens |-> [a \in Accounts |-> balance[t][a]]]

Promise == INSTANCE EscrowPromise WITH
    NoTerms <- Terms(NoSession),
    state <- BoxStates, terms <- BoxTerms, held <- BoxHeld, purse <- Purse

(* The sessions, which share one balance of the contract, are as good as   *)
(* separate boxes: open, release, dispute, resolve, claim and withdraw in  *)
(* any order move money between a session's own box and its own parties,   *)
(* and the last payment empties the box.                                   *)
PromiseKept == Promise!Spec
=============================================================================
