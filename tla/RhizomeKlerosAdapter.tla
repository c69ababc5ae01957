------------------------ MODULE RhizomeKlerosAdapter ------------------------
(***************************************************************************)
(* contracts/RhizomeKlerosAdapter.sol composed with the escrow it arbitrates*)
(* for: the adapter is the arbiter of some sessions, createDispute mints a *)
(* dispute with an ERC-792 arbitrator (external), and the arbitrator's     *)
(* rule callback calls escrow.resolve.                                     *)
(***************************************************************************)
EXTENDS RhizomeEscrow

CONSTANTS Adapter,         \* the adapter contract's address
          FirstDisputeID,  \* the id the arbitrator gives its first dispute
          MaxDisputes      \* bound on the disputes the arbitrator mints

ASSUME AdapterAssumption ==
    /\ Adapter \in Accounts
    /\ FirstDisputeID \in Nat
    /\ MaxDisputes \in Nat

VARIABLES sessionOfDispute,  \* adapter: dispute id -> session id
          disputeOfSession,  \* adapter: session id -> dispute id, 0 when unset
          verdict,           \* arbitrator: what its jurors will rule, by id
          ruled              \* arbitrator: ids whose ruling was executed

adapterVars == <<sessionOfDispute, disputeOfSession, verdict, ruled>>
vars == <<sessions, balance, now, paid,
          sessionOfDispute, disputeOfSession, verdict, ruled>>

DisputeIDs == FirstDisputeID .. (FirstDisputeID + MaxDisputes - 1)

\* The ids the arbitrator has minted; each is registered as it is minted.
Minted == DOMAIN sessionOfDispute

Init ==
    /\ EscrowInit
    /\ sessionOfDispute = << >>
    /\ disputeOfSession = [id \in SessionIDs |-> 0]
    /\ verdict = << >>
    /\ ruled = {}

\* The arbitrator numbers its disputes consecutively.
NextDisputeID == FirstDisputeID + Cardinality(Minted)

\* What createDispute does once its require lines let it pass: the arbitrator
\* mints d, and the adapter records the pair both ways.
Escalate(id, ruling, d) ==
    /\ d \in DisputeIDs
    /\ sessionOfDispute' = [e \in Minted \cup {d} |->
                              IF e = d THEN id ELSE sessionOfDispute[e]]
    /\ disputeOfSession' = [disputeOfSession EXCEPT ![id] = d]
    /\ verdict' = [e \in Minted \cup {d} |->
                     IF e = d THEN ruling ELSE verdict[e]]
    /\ UNCHANGED <<sessions, balance, now, paid, ruled>>

\* Faulty variant of createDispute: no check of an earlier escalation.
CreateDisputeTwice(id, ruling) ==
    LET s == sessions[id] IN
    /\ s.arbiter = Adapter /\ s.amount > s.released /\ s.status = "Locked"
    /\ Escalate(id, ruling, NextDisputeID)

CreateDispute(id, ruling) ==
    LET s == sessions[id] IN
    /\ disputeOfSession[id] = 0
    /\ s.arbiter = Adapter
    /\ s.amount > s.released
    /\ s.status = "Locked"
    /\ Escalate(id, ruling, NextDisputeID)

\* Ruling 1 is the buyer's, 2 the seller's; anything else splits evenly and
\* leaves the odd unit with the buyer.
SellerAward(ruling, remaining) ==
    CASE ruling = 1 -> 0
      [] ruling = 2 -> remaining
      [] OTHER      -> remaining \div 2

\* Faulty variant: an even split that forgets the odd unit.
BuyerAwardEven(ruling, remaining) ==
    CASE ruling = 1 -> remaining
      [] ruling = 2 -> 0
      [] OTHER      -> remaining \div 2

BuyerAward(ruling, remaining) == remaining - SellerAward(ruling, remaining)

\* The arbitrator executes a ruling once; a callback that reverts undoes it.
Rule(d) ==
    LET id == sessionOfDispute[d]
        remaining == Remaining(sessions[id])
    IN  /\ d \in Minted \ ruled
        /\ Resolve(id, Adapter, BuyerAward(verdict[d], remaining),
                   SellerAward(verdict[d], remaining))
        /\ ruled' = ruled \cup {d}
        /\ UNCHANGED <<sessionOfDispute, disputeOfSession, verdict>>

\* The adapter is a contract: it acts only when it is called.
External == Accounts \ {Adapter}

EscrowStep ==
    /\ PartyStep(External) \/ ArbiterStep(External) \/ Tick
    /\ UNCHANGED adapterVars

Next ==
    \/ EscrowStep
    \/ \E id \in SessionIDs, ruling \in 0..2 : CreateDispute(id, ruling)
    \/ \E d \in Minted : Rule(d)

Spec == Init /\ [][Next]_vars

\* The arbitrator rules on every dispute it accepted.
FairSpec ==
    /\ Spec
    /\ \A d \in DisputeIDs :
          WF_vars(d \in Minted /\ Rule(d))

-----------------------------------------------------------------------------
(* A dispute whose fee has been paid can be ruled: its session is still     *)
(* Locked, this adapter is its arbiter and something is left to award, so  *)
(* the arbitrator's callback never reverts for ever.  Nobody but the       *)
(* arbitrator ends an escalated session, and a session is escalated once:  *)
(* of two disputes the second would be stuck after the first ruling.       *)
PendingRulingApplies ==
    \A d \in Minted \ ruled :
        LET s == sessions[sessionOfDispute[d]] IN
        /\ s.status = "Locked"
        /\ s.arbiter = Adapter
        /\ Remaining(s) > 0

(* An escalated session gets its ruling.                                   *)
EscalationEnds ==
    \A id \in SessionIDs :
        (\E d \in Minted : sessionOfDispute[d] = id)
            ~> (sessions[id].status = "Resolved")
=============================================================================
