---------------------------- MODULE EscrowPromise ----------------------------
(***************************************************************************)
(* What the market escrow promises its users: every session is a box of    *)
(* its own.  A buyer puts a deposit into an unused box; while it is held   *)
(* the seller may be paid out of it in parts; then what is left is shared  *)
(* between the two and the box is never used again.  There is no pooled    *)
(* balance, no clock, no arbiter and no dispute here: they decide when and *)
(* how a deposit is paid, never how much of it there is or to whom.        *)
(***************************************************************************)
EXTENDS Integers

CONSTANTS SessionIDs, Accounts, Tokens,
          NoTerms      \* the terms of a box nobody has used

VARIABLES state,   \* of each box: "unused", "held" or "ended"
          terms,   \* of each box: [buyer, seller, token]
          held,    \* what is in each box
          purse    \* what each account has of each token

vars == <<state, terms, held, purse>>

Init ==
    /\ state = [id \in SessionIDs |-> "unused"]
    /\ terms = [id \in SessionIDs |-> NoTerms]
    /\ held = [id \in SessionIDs |-> 0]
    /\ purse \in [Tokens -> [Accounts -> Nat]]

Boxes(st) == { id \in SessionIDs : state[id] = st }

\* Of an unused box, an amount the buyer has.
Deposit(id, buyer, seller, token, amount) ==
    /\ buyer # seller
    /\ state' = [state EXCEPT ![id] = "held"]
    /\ terms' = [terms EXCEPT ![id] = [buyer |-> buyer, seller |-> seller, token |-> token]]
    /\ held' = [held EXCEPT ![id] = amount]
    /\ purse' = [purse EXCEPT ![token][buyer] = @ - amount]

\* Of a held box, at most what is in it.
PayPart(id, amount) ==
    /\ held' = [held EXCEPT ![id] = @ - amount]
    /\ purse' = [purse EXCEPT ![terms[id].token][terms[id].seller] = @ + amount]
    /\ UNCHANGED <<state, terms>>

ShareRest(id, buyerShare) ==
    /\ state' = [state EXCEPT ![id] = "ended"]
    /\ held' = [held EXCEPT ![id] = 0]
    /\ purse' = [purse EXCEPT
                    ![terms[id].token][terms[id].buyer] = @ + buyerShare,
                    ![terms[id].token][terms[id].seller] = @ + (held[id] - buyerShare)]
    /\ UNCHANGED terms

Next ==
    \/ \E id \in Boxes("unused") :
          \E buyer, seller \in Accounts, token \in Tokens :
              \E amount \in 1..purse[token][buyer] : Deposit(id, buyer, seller, token, amount)
    \/ \E id \in Boxes("held") :
          \/ \E amount \in 1..held[id] : PayPart(id, amount)
          \/ \E buyerShare \in 0..held[id] : ShareRest(id, buyerShare)

Spec == Init /\ [][Next]_vars
=============================================================================
