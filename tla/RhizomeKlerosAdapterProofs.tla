--------------------- MODULE RhizomeKlerosAdapterProofs ---------------------
(***************************************************************************)
(* Proofs about the adapter composed with the escrow, for every set of     *)
(* sessions, accounts, tokens, amounts and windows and any number of       *)
(* disputes.  The composition is an escrow whose arbiter the arbitrator's  *)
(* callback plays, so that it keeps the escrow's promise; and a dispute    *)
(* that was paid for can be ruled if the arbitrator counts from 1 on.      *)
(***************************************************************************)
EXTENDS RhizomeKlerosAdapter, EscrowPromiseProofs, FiniteSetTheorems

(* The adapter's and the arbitrator's tables.                              *)
AdapterTypeOK ==
    /\ IsFiniteSet(Minted)
    /\ sessionOfDispute \in [Minted -> SessionIDs]
    /\ verdict \in [Minted -> 0..2]
    /\ disputeOfSession \in [SessionIDs -> Int]
    /\ ruled \subseteq Minted

\* Ids are given out in order.
IDsInOrder == \A d \in Minted : d \in FirstDisputeID .. (NextDisputeID - 1)

TypeInv == EscrowInv /\ AdapterTypeOK /\ IDsInOrder

LEMMA InitTypeInv == Init => TypeInv
<1> SUFFICES ASSUME Init PROVE TypeInv
  OBVIOUS
<1>1. EscrowInv
  BY EscrowInvInit DEF Init
<1>2. Minted = {}
  BY DEF Init, Minted
<1>3. AdapterTypeOK /\ IDsInOrder
  BY <1>2, FS_EmptySet DEF Init, AdapterTypeOK, IDsInOrder, Minted
<1> QED
  BY <1>1, <1>3 DEF TypeInv

\* The awards of a ruling share what is left between the two sides.
LEMMA AwardsShare ==
    ASSUME NEW ruling \in 0..2, NEW remaining \in Nat
    PROVE  /\ BuyerAward(ruling, remaining) \in 0..remaining
           /\ SellerAward(ruling, remaining) = remaining - BuyerAward(ruling, remaining)
BY DEF BuyerAward, SellerAward

\* The callback is one of the escrow's own calls.
LEMMA RuleResolves ==
    ASSUME TypeInv, NEW d \in Minted, Rule(d)
    PROVE  /\ sessionOfDispute[d] \in SessionIDs
           /\ \E x \in 0..Remaining(sessions[sessionOfDispute[d]]) :
                 Resolve(sessionOfDispute[d], Adapter, x,
                         Remaining(sessions[sessionOfDispute[d]]) - x)
<1> DEFINE id == sessionOfDispute[d]
           remaining == Remaining(sessions[id])
<1>1. id \in SessionIDs /\ verdict[d] \in 0..2
  BY DEF TypeInv, AdapterTypeOK
<1>2. remaining \in Nat
  <2>1. sessions[id] \in Session /\ sessions[id].released <= sessions[id].amount
    BY <1>1 DEF TypeInv, EscrowInv, EscrowTypeOK, PaidExactly
  <2> QED
    BY <2>1 DEF Remaining, Session
<1> HIDE DEF remaining
<1>3. /\ BuyerAward(verdict[d], remaining) \in 0..remaining
      /\ SellerAward(verdict[d], remaining) = remaining - BuyerAward(verdict[d], remaining)
  BY <1>1, <1>2, AwardsShare
<1>4. Resolve(id, Adapter, BuyerAward(verdict[d], remaining),
              SellerAward(verdict[d], remaining))
  BY DEF Rule, remaining
<1> QED
  BY <1>1, <1>3, <1>4 DEF remaining

\* Every step of the composition is a step of the escrow, or leaves it alone.
LEMMA StepIsEscrowStep == TypeInv /\ [Next]_vars => [EscrowNext]_escrowVars
<1> SUFFICES ASSUME TypeInv, [Next]_vars PROVE [EscrowNext]_escrowVars
  OBVIOUS
<1>1. CASE EscrowStep
  <2>1. PartyStep(External) => PartyStep(Accounts)
    BY DEF PartyStep, External
  <2>2. ArbiterStep(External) => ArbiterStep(Accounts)
    BY DEF ArbiterStep, External
  <2> QED
    BY <1>1, <2>1, <2>2 DEF EscrowStep, EscrowNext
<1>2. ASSUME NEW id \in SessionIDs, NEW ruling \in 0..2, CreateDispute(id, ruling)
      PROVE  UNCHANGED escrowVars
  BY <1>2 DEF CreateDispute, Escalate, escrowVars
<1>3. ASSUME NEW d \in Minted, Rule(d) PROVE EscrowNext
  BY <1>3, RuleResolves, AdapterAssumption DEF EscrowNext, ArbiterStep
<1>4. CASE UNCHANGED vars
  BY <1>4 DEF vars, escrowVars
<1> QED
  BY <1>1, <1>2, <1>3, <1>4 DEF Next

\* What an escalation makes of the tables.
LEMMA Escalated ==
    ASSUME TypeInv, NEW id \in SessionIDs, NEW ruling \in 0..2,
           Escalate(id, ruling, NextDisputeID)
    PROVE  /\ NextDisputeID \notin Minted /\ NextDisputeID \in Int
           /\ NextDisputeID >= FirstDisputeID
           /\ Minted' = Minted \cup {NextDisputeID}
           /\ IsFiniteSet(Minted') /\ NextDisputeID' = NextDisputeID + 1
           /\ sessionOfDispute'[NextDisputeID] = id
           /\ \A e \in Minted : sessionOfDispute'[e] = sessionOfDispute[e]
<1>1. IsFiniteSet(Minted) /\ Cardinality(Minted) \in Nat
  BY FS_CardinalityType DEF TypeInv, AdapterTypeOK
<1>2. NextDisputeID \in Int /\ NextDisputeID >= FirstDisputeID
  BY <1>1, AdapterAssumption DEF NextDisputeID
<1>3. NextDisputeID \notin Minted
  BY <1>2, AdapterAssumption DEF TypeInv, IDsInOrder
<1>4. Minted' = Minted \cup {NextDisputeID}
  BY DEF Escalate, Minted
<1>5. IsFiniteSet(Minted') /\ Cardinality(Minted') = Cardinality(Minted) + 1
  BY <1>1, <1>3, <1>4, FS_AddElement
<1>6. NextDisputeID' = NextDisputeID + 1
  BY <1>1, <1>5, AdapterAssumption DEF NextDisputeID
<1> QED
  BY <1>2, <1>3, <1>4, <1>5, <1>6 DEF Escalate

LEMMA NextTypeInv == TypeInv /\ [Next]_vars => TypeInv'
<1> SUFFICES ASSUME TypeInv, [Next]_vars PROVE TypeInv'
  OBVIOUS
<1>1. EscrowInv'
  BY StepIsEscrowStep, EscrowInvStep DEF TypeInv
<1>2. AdapterTypeOK' /\ IDsInOrder'
  <2>1. ASSUME NEW id \in SessionIDs, NEW ruling \in 0..2, CreateDispute(id, ruling)
        PROVE  AdapterTypeOK' /\ IDsInOrder'
    <3> DEFINE n == NextDisputeID
    <3>0. Escalate(id, ruling, n)
      BY <2>1 DEF CreateDispute
    <3>1. /\ n \in Int /\ n >= FirstDisputeID
          /\ Minted' = Minted \cup {n} /\ IsFiniteSet(Minted') /\ NextDisputeID' = n + 1
      BY <3>0, Escalated
    <3> HIDE DEF n
    <3>2. IDsInOrder'
      BY <3>1, AdapterAssumption DEF TypeInv, IDsInOrder, n
    <3>3. /\ sessionOfDispute' \in [Minted' -> SessionIDs]
          /\ verdict' \in [Minted' -> 0..2]
      BY <3>0, <3>1 DEF Escalate, TypeInv, AdapterTypeOK
    <3>4. disputeOfSession' \in [SessionIDs -> Int] /\ ruled' \subseteq Minted'
      BY <3>0, <3>1 DEF Escalate, TypeInv, AdapterTypeOK
    <3> QED
      BY <3>1, <3>2, <3>3, <3>4 DEF AdapterTypeOK
  <2>2. ASSUME NEW d \in Minted, Rule(d) PROVE AdapterTypeOK' /\ IDsInOrder'
    BY <2>2 DEF Rule, TypeInv, AdapterTypeOK, IDsInOrder, Minted, NextDisputeID
  <2>3. CASE UNCHANGED adapterVars
    BY <2>3 DEF adapterVars, TypeInv, AdapterTypeOK, IDsInOrder, Minted, NextDisputeID
  <2> QED
    BY <2>1, <2>2, <2>3 DEF Next, EscrowStep, vars, adapterVars
<1> QED
  BY <1>1, <1>2 DEF TypeInv

THEOREM AdapterInvariant == Spec => []TypeInv
  BY InitTypeInv, NextTypeInv, PTL DEF Spec

(* The adapter adds nothing to the escrow: escrow and adapter together,    *)
(* with the arbitrator's callback as the arbiter of its sessions, behave   *)
(* like the escrow alone, so every property of the escrow holds of them.   *)
THEOREM AdapterIsEscrow == Spec => EscrowSpec
<1>1. Init => EscrowInit
  BY DEF Init
<1> QED
  BY <1>1, StepIsEscrowStep, AdapterInvariant, PTL DEF Spec, EscrowSpec

(* The two contracts together keep the promise: a ruling, like any call,   *)
(* moves money between one session's box and that session's parties.       *)
THEOREM AdapterKeepsPromise == Spec => PromiseKept
  BY AdapterIsEscrow, EscrowKeepsPromise

(* A ruling through the adapter spends only what the ruled session holds:  *)
(* the escrow holds what its live sessions have not paid out, disputes and *)
(* rulings included.                                                       *)
THEOREM AdapterStaysSolvent == Spec => []Solvent
  BY AdapterIsEscrow, EscrowStaysSolvent

-----------------------------------------------------------------------------
(* Every dispute is the registered one of its session: a session that has  *)
(* one is told from a session that has none, whose entry is 0.             *)
Registered == \A d \in Minted : disputeOfSession[sessionOfDispute[d]] = d

RulingInv == TypeInv /\ Registered /\ PendingRulingApplies

\* Only a call of the adapter gets past the lock of its sessions.
LEMMA LockedIsLeftAlone ==
    ASSUME TypeInv, EscrowStep, NEW id \in SessionIDs,
           sessions[id].status = "Locked", sessions[id].arbiter = Adapter
    PROVE  sessions'[id] = sessions[id]
<1>1. sessions \in [SessionIDs -> Session]
  BY DEF TypeInv, EscrowInv, EscrowTypeOK
<1>2. CASE Tick
  BY <1>2 DEF Tick
<1>3. CASE PartyStep(External)
  <2>1. PICK i \in SessionIDs, a \in External :
            \/ \E seller \in External, arbiter \in Accounts, token \in Tokens,
                  amount \in Amounts, w \in Windows, d \in BOOLEAN :
                  Open(i, a, seller, arbiter, token, amount, w, d)
            \/ \E amount \in Amounts : Release(i, a, amount)
            \/ Dispute(i, a)
            \/ Claim(i, a)
            \/ Withdraw(i, a)
    BY <1>3 DEF PartyStep
  <2>2. sessions[i].status # "Locked"
    BY <2>1 DEF Open, Release, Dispute, Claim, Withdraw
  <2>3. \A j \in SessionIDs \ {i} : sessions'[j] = sessions[j]
    BY <1>1, <2>1 DEF Open, Fund, Release, PayRelease, Dispute, Claim, Withdraw, CloseForBuyer
  <2> QED
    BY <2>2, <2>3
<1>4. CASE ArbiterStep(External)
  <2>1. PICK i \in SessionIDs, a \in External :
            \E x \in 0..Remaining(sessions[i]) :
                Resolve(i, a, x, Remaining(sessions[i]) - x)
    BY <1>4 DEF ArbiterStep
  <2>2. sessions[i].arbiter # Adapter
    BY <2>1 DEF Resolve, External
  <2>3. \A j \in SessionIDs \ {i} : sessions'[j] = sessions[j]
    BY <1>1, <2>1 DEF Resolve, PayAwards
  <2> QED
    BY <2>2, <2>3
<1> QED
  BY <1>2, <1>3, <1>4 DEF EscrowStep

LEMMA RulingInvStep ==
    ASSUME FirstDisputeID # 0, RulingInv, [Next]_vars
    PROVE  RulingInv'
<1>. USE DEF RulingInv
<1>1. SUFFICES Registered' /\ PendingRulingApplies'
  BY NextTypeInv
<1>2. /\ \A d \in Minted : sessionOfDispute[d] \in SessionIDs /\ d # 0
      /\ sessions \in [SessionIDs -> Session]
      /\ disputeOfSession \in [SessionIDs -> Int]
  BY AdapterAssumption
     DEF TypeInv, AdapterTypeOK, IDsInOrder, EscrowInv, EscrowTypeOK
<1>3. ASSUME NEW id \in SessionIDs, NEW ruling \in 0..2, CreateDispute(id, ruling)
      PROVE  Registered' /\ PendingRulingApplies'
  <2> DEFINE n == NextDisputeID
  <2>0. Escalate(id, ruling, n) /\ disputeOfSession[id] = 0
    BY <1>3 DEF CreateDispute
  <2>1. /\ Minted' = Minted \cup {n} /\ sessionOfDispute'[n] = id
        /\ \A e \in Minted : sessionOfDispute'[e] = sessionOfDispute[e]
    BY <2>0, Escalated
  <2>2. \A e \in Minted : sessionOfDispute[e] # id
    BY <1>2, <2>0 DEF Registered
  <2>3. disputeOfSession' = [disputeOfSession EXCEPT ![id] = n]
        /\ sessions' = sessions /\ ruled' = ruled
    BY <2>0 DEF Escalate
  <2> HIDE DEF n
  <2>4. Registered'
    BY <1>2, <2>1, <2>2, <2>3 DEF Registered
  <2>5. /\ sessions[id].status = "Locked" /\ sessions[id].arbiter = Adapter
        /\ Remaining(sessions[id]) > 0
    <3>1. sessions[id].amount \in Nat /\ sessions[id].released \in Nat
      BY <1>2 DEF Session
    <3> QED
      BY <1>3, <3>1 DEF CreateDispute, Remaining
  <2>6. PendingRulingApplies'
    BY <2>1, <2>3, <2>5 DEF PendingRulingApplies, Remaining
  <2> QED
    BY <2>4, <2>6
<1>4. ASSUME NEW d \in Minted, Rule(d) PROVE Registered' /\ PendingRulingApplies'
  <2>1. Registered' /\ Minted' = Minted
    BY <1>4 DEF Rule, Registered, Minted
  <2>2. \A e \in Minted' \ ruled' : e \in Minted \ ruled
                                   /\ sessionOfDispute[e] # sessionOfDispute[d]
    BY <1>4, <2>1 DEF Rule, Registered
  <2>3. \A i \in SessionIDs \ {sessionOfDispute[d]} : sessions'[i] = sessions[i]
    BY <1>2, <1>4 DEF Rule, Resolve, PayAwards
  <2>4. sessionOfDispute' = sessionOfDispute
    BY <1>4 DEF Rule
  <2> QED
    BY <1>2, <2>1, <2>2, <2>3, <2>4 DEF PendingRulingApplies, Remaining
<1>5. CASE EscrowStep
  <2>1. UNCHANGED adapterVars
    BY <1>5 DEF EscrowStep
  <2>2. Registered'
    BY <2>1 DEF adapterVars, Registered, Minted
  <2>3. \A d \in Minted \ ruled :
            sessions'[sessionOfDispute[d]] = sessions[sessionOfDispute[d]]
    BY <1>2, <1>5, LockedIsLeftAlone DEF PendingRulingApplies
  <2> QED
    BY <2>1, <2>2, <2>3 DEF adapterVars, PendingRulingApplies, Minted, Remaining
<1>6. CASE UNCHANGED vars
  BY <1>6 DEF vars, Registered, PendingRulingApplies, Minted, Remaining
<1> QED
  BY <1>3, <1>4, <1>5, <1>6 DEF Next

(* A dispute whose fee has been paid can be ruled, for any number of       *)
(* sessions and disputes and whatever the parties do before the ruling, if *)
(* the arbitrator does not give out 0, which createDispute takes for "no   *)
(* dispute yet".                                                           *)
THEOREM PaidDisputesCanBeRuled ==
    ASSUME FirstDisputeID # 0
    PROVE  Spec => []PendingRulingApplies
<1>1. Init => RulingInv
  BY InitTypeInv DEF Init, RulingInv, Registered, PendingRulingApplies, Minted
<1>2. RulingInv /\ [Next]_vars => RulingInv'
  BY RulingInvStep
<1>3. RulingInv => PendingRulingApplies
  BY DEF RulingInv
<1> QED
  BY <1>1, <1>2, <1>3, PTL DEF Spec

(* A pending ruling is funded: the escrow holds at least what rule will    *)
(* have it award, however much the other sessions draw in the meantime.    *)
PendingRulingFunded ==
    \A d \in Minted \ ruled :
        LET s == sessions[sessionOfDispute[d]] IN
        Remaining(s) <= balance[s.token][Escrow]

(* A ruling that is due meets no require of resolve and no lack of funds   *)
(* that would make it revert, so the fee of the dispute is not lost.       *)
THEOREM PaidRulingsAreFunded ==
    ASSUME FirstDisputeID # 0
    PROVE  Spec => []PendingRulingFunded
<1>1. RulingInv => \A d \in Minted \ ruled :
                      /\ sessionOfDispute[d] \in SessionIDs
                      /\ LiveSession(sessions[sessionOfDispute[d]])
  BY DEF RulingInv, TypeInv, AdapterTypeOK, PendingRulingApplies, LiveSession, Minted
<1>2. RulingInv /\ LiveIsCovered => PendingRulingFunded
  BY <1>1 DEF LiveIsCovered, PendingRulingFunded
<1>3. Init => RulingInv
  BY InitTypeInv DEF Init, RulingInv, Registered, PendingRulingApplies, Minted
<1>4. RulingInv /\ [Next]_vars => RulingInv'
  BY RulingInvStep
<1> QED
  BY <1>2, <1>3, <1>4, AdapterIsEscrow, EscrowCoversLive, PTL DEF Spec
=============================================================================
