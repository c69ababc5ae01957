-------------------------- MODULE SwarmQueueProofs --------------------------
(***************************************************************************)
(* Proofs about the work queue, for every set of offers and members, every *)
(* max_offers and max_retries and any number of restarts: its types, that  *)
(* claims are current, that the submitter's calls are bounded, that a      *)
(* cancel admits one of them, that a re-offer is fresh, and that the file  *)
(* keeps what is in flight.                                                *)
(***************************************************************************)
EXTENDS SwarmQueue, TLAPS, FiniteSetTheorems

USE DEF history

Untracked == {"new", "absent"}

OfferMsg(o, k) == [kind |-> "offer", offer |-> o, attempt |-> k]

(* The attempt of an offer counts its retries and the starts of the daemon *)
(* it has been through, in memory, in the file and among the records that  *)
(* redriveOffers has still to process, which are one start behind.         *)
Counting ==
    /\ \A o \in Offers : attempt[o] <= retries[o] + restarts
    /\ \A o \in DOMAIN stored : stored[o].attempt <= stored[o].retries + restarts
    /\ \A o \in DOMAIN todo : todo[o].attempt < todo[o].retries + restarts
    /\ phase # "up" => restarts < MaxRestarts

(* What the daemon does not have in memory.                                *)
Absent ==
    /\ \A o \in Offers : status[o] \in Untracked => pc[o] = "none" /\ cpc[o] = "idle"
    /\ \A o \in DOMAIN todo :
          status[o] = "absent" /\ claims[o] = {} /\ late[o] = 0 /\ ~cancelCh[o]
    /\ \A o \in Offers : status[o] = "new" =>
          /\ o \notin DOMAIN stored
          /\ late[o] = 0
          /\ claims[o] = {}
          /\ ~cancelCh[o]
          /\ \A k \in Attempts : OfferMsg(o, k) \notin msgs
    /\ phase = "down" =>
          /\ DOMAIN todo = {}
          /\ \A o \in Offers : /\ status[o] \in Untracked
                               /\ claims[o] = {} /\ late[o] = 0 /\ ~cancelCh[o]

(* The file holds the offers in flight, except for the records that        *)
(* redriveOffers has not reached.                                          *)
FileIsCurrent ==
    phase # "down" =>
        \A o \in Offers \ DOMAIN todo :
            /\ o \in DOMAIN stored <=> status[o] \in Active
            /\ o \in DOMAIN stored =>
                  /\ stored[o].attempt = attempt[o]
                  /\ stored[o].retries = retries[o]

(* No broadcast is ahead of the attempt it belongs to, and what is about   *)
(* to be broadcast is ahead of all that was.                               *)
Broadcasts ==
    \A o \in Offers, k \in Attempts :
        OfferMsg(o, k) \in msgs =>
            /\ status[o] \notin Untracked => k <= attempt[o]
            /\ pc[o] \in {"publish", "republish", "redrive"} => k < attempt[o]
            /\ o \in DOMAIN stored => k <= stored[o].attempt
            /\ o \in DOMAIN todo => k <= todo[o].attempt

\* Where the resolver has its call of the submitter still ahead of it.
BeforeCall == {"publish", "collect", "pick", "republish", "redrive"}

(* The submitter has been called at most once for each attempt up to the   *)
(* current one, and not yet for the current one while the call is ahead;   *)
(* the file and the records to re-drive know of every call.                *)
CallsCounted ==
    \A o \in Offers :
        /\ calls[o] <= MaxRetries + restarts + 1
        /\ status[o] = "new" => calls[o] = 0
        /\ status[o] \notin Untracked => calls[o] <= attempt[o] + 1
        /\ pc[o] \in BeforeCall => calls[o] <= attempt[o]
        /\ o \in DOMAIN stored => calls[o] <= stored[o].attempt + 1
        /\ o \in DOMAIN todo => calls[o] <= todo[o].attempt + 1

(* A submitter call after the cancel is the resolver's last.               *)
CancelHolds ==
    \A o \in Offers :
        late[o] = 0 \/ /\ late[o] = 1
                       /\ cancelCh[o]
                       /\ pc[o] \in {"none", "submitted", "watch", "done", "failed", "dead"}

\* The channel's buffer is a finite set, so that its size means something.
ChannelsFinite == \A o \in Offers : IsFiniteSet(claimsCh[o])

IInv ==
    /\ QueueTypeOK
    /\ ChannelsFinite
    /\ Counting
    /\ Absent
    /\ FileIsCurrent
    /\ Broadcasts
    /\ CallsCounted
    /\ ClaimsAreCurrent
    /\ CancelHolds

-----------------------------------------------------------------------------
(* The steps of Next, sorted by what they touch.                           *)

\* An offer ends: the resolver saves it and is gone.
Ends(o) ==
    \/ CollectStopped(o) \/ Expire(o) \/ RejectPick(o) \/ FinishDone(o) \/ DeadLetter(o)

LEMMA EndsOffer ==
    ASSUME NEW o \in Offers, Ends(o)
    PROVE  pc[o] # "none" /\ \E st \in Ended : EndOffer(o, st)
BY DEF Ends, CollectStopped, Expire, RejectPick, FinishDone, DeadLetter, Ended

\* The resolver goes on to another place, and nothing else happens.
Moves(o) ==
    \/ CollectCancelled(o) \/ WatchStops(o) \/ WatchPollFails(o) \/ WatchEnds(o)
    \/ CheckCancelled(o) \/ OutOfRetries(o)

LEMMA MovesOn ==
    ASSUME NEW o \in Offers, Moves(o)
    PROVE  /\ pc[o] # "none"
           /\ \E label \in {"none", "done", "failed", "dead", "reopen"} :
                 Goto(o, label) /\ (label = "reopen" => ~cancelCh[o])
           /\ UNCHANGED <<info, queues, channels, cpc, doomed, stored, daemon, remote, history>>
BY DEF Moves, CollectCancelled, WatchStops, WatchPollFails, WatchEnds, CheckCancelled,
       OutOfRetries, RetryTarget

\* A remote task is submitted, given up on or comes to its end.
TaskStep(o) ==
    Submit(o) \/ SubmitFails(o) \/ WatchStalls(o) \/ \E k \in Attempts : TaskEnds(o, k)

\* Claims arrive and are collected.
ClaimStep(o) ==
    \/ \E c \in Claim : onClaim(o, c) \/ PushClaim(o, c) \/ CollectClaim(o, c)
    \/ WindowCloses(o)

\* The offerer broadcasts an attempt, and the resolver goes on.
PublishStep(o) == PublishOffer(o) \/ Republish(o) \/ RedrivePublish(o)

\* The daemon's memory of an offer is written, and the file after it.
SaveStep(o) ==
    \/ Offer(o) \/ PublishOfferFails(o) \/ Ends(o) \/ Assign(o) \/ Reopen(o)
    \/ CancelBegin(o) \/ RedriveExpired(o) \/ RedriveOpen(o)

CancelStep(o) == CancelSignal(o) \/ CancelFinish(o)

DaemonStep == Stop \/ StopReturns \/ Crash \/ Start

LEMMA NextKinds ==
    ASSUME [Next]_vars
    PROVE  \/ \E o \in Offers :
                \/ SaveStep(o) \/ Moves(o) \/ TaskStep(o) \/ ClaimStep(o)
                \/ PublishStep(o) \/ CancelStep(o) \/ Reap(o)
                \/ \E m \in Members : MemberStep(m, o)
           \/ DaemonStep
           \/ UNCHANGED vars
<1>1. ASSUME NEW o \in Offers, Resolver(o)
      PROVE  SaveStep(o) \/ Moves(o) \/ TaskStep(o) \/ ClaimStep(o) \/ PublishStep(o)
  BY <1>1 DEF Resolver, ResolverRuns, SaveStep, Ends, Moves, TaskStep, ClaimStep, PublishStep
<1>2. ASSUME NEW o \in Offers, Redrive(o) PROVE SaveStep(o) \/ PublishStep(o)
  BY <1>2 DEF Redrive, SaveStep, PublishStep
<1> QED
  BY <1>1, <1>2 DEF Next, Canceller, SaveStep, ClaimStep, TaskStep, CancelStep, DaemonStep

\* A loaded record leaves room for the attempt that re-drives it.
LEMMA RecordFits ==
    ASSUME IInv, NEW o \in DOMAIN todo
    PROVE  /\ o \in Offers
           /\ todo[o].attempt \in Attempts /\ todo[o].attempt \in Nat
           /\ todo[o].attempt + 1 \in Attempts
           /\ todo[o].retries \in 0..MaxRetries
           /\ todo[o].attempt + 1 <= todo[o].retries + restarts
<1>1. o \in Offers /\ todo[o] \in Record /\ restarts \in 0..MaxRestarts
  BY DEF IInv, QueueTypeOK, DaemonTypeOK
<1>2. todo[o].attempt \in Nat /\ todo[o].attempt \in Attempts /\ todo[o].retries \in 0..MaxRetries
  BY <1>1 DEF Record, Attempts
<1>3. todo[o].attempt + 1 <= todo[o].retries + restarts
  BY <1>1, <1>2, QueueAssumption DEF IInv, Counting
<1> QED
  BY <1>1, <1>2, <1>3, QueueAssumption DEF Attempts, MaxAttempt

\* The daemon goes down only while a restart is left.
LEMMA Exits ==
    ASSUME IInv, StopReturns \/ Crash
    PROVE  Exit /\ phase # "down" /\ restarts < MaxRestarts
BY DEF IInv, Counting, StopReturns, Crash

-----------------------------------------------------------------------------
(* The types.                                                              *)
LEMMA InfoTypeStep == IInv /\ [Next]_vars => InfoTypeOK'
<1> SUFFICES ASSUME IInv, [Next]_vars PROVE InfoTypeOK'
  OBVIOUS
<1>. USE DEF InfoTypeOK, info
<1>0. InfoTypeOK /\ DaemonTypeOK /\ Counting
  BY DEF IInv, QueueTypeOK
<1>1. ASSUME NEW o \in Offers, SaveStep(o) PROVE InfoTypeOK'
  <2>1. CASE Offer(o) \/ PublishOfferFails(o) \/ CancelBegin(o)
    BY <1>0, <2>1 DEF Offer, PublishOfferFails, CancelBegin, SetStatus, Active, Ended
  <2>2. CASE Ends(o)
    BY <1>0, <2>2, EndsOffer DEF EndOffer, SetStatus
  <2>3. CASE Assign(o)
    BY <1>0, <2>3 DEF Assign, SetStatus, Active
  <2>4. CASE Reopen(o)
    BY <1>0, <2>4, QueueAssumption
       DEF Reopen, RetriesLeft, SetStatus, Active, Counting, DaemonTypeOK, Attempts, MaxAttempt
  <2>5. CASE RedriveExpired(o) \/ RedriveOpen(o)
    <3>1. o \in DOMAIN todo
      BY <2>5 DEF RedriveExpired, RedriveOpen, TakeRecord
    <3> QED
      BY <1>0, <2>5, <3>1, RecordFits
         DEF RedriveExpired, RedriveOpen, RedriveAttempt, TakeRecord, SetStatus, Active, Ended
  <2> QED
    BY <1>1, <2>1, <2>2, <2>3, <2>4, <2>5 DEF SaveStep
<1>2. ASSUME NEW o \in Offers, Moves(o) \/ TaskStep(o) \/ ClaimStep(o)
      PROVE  InfoTypeOK'
  BY <1>0, <1>2, MovesOn
     DEF TaskStep, Submit, SubmitFails, WatchStalls, TaskEnds, ClaimStep, onClaim, PushClaim,
         CollectClaim, WindowCloses
<1>3. ASSUME NEW o \in Offers, PublishStep(o) \/ CancelStep(o) \/ Reap(o)
      PROVE  InfoTypeOK'
  BY <1>0, <1>3
     DEF PublishStep, PublishOffer, Republish, RedrivePublish, CancelStep, CancelSignal,
         CancelFinish, Reap, SetStatus
<1>4. ASSUME NEW o \in Offers, NEW m \in Members, MemberStep(m, o) PROVE InfoTypeOK'
  BY <1>0, <1>4 DEF MemberStep, onOffer, onAssign, onCancel, ReapIncoming
<1>5. CASE DaemonStep
  <2>1. CASE Stop \/ Start
    BY <1>0, <2>1 DEF Stop, Start
  <2>2. CASE StopReturns \/ Crash
    BY <1>0, <2>2, Exits, QueueAssumption DEF Exit, Attempts, MaxAttempt, NoTask
  <2> QED
    BY <1>5, <2>1, <2>2 DEF DaemonStep
<1>6. CASE UNCHANGED vars
  BY <1>0, <1>6 DEF vars
<1> QED
  BY <1>1, <1>2, <1>3, <1>4, <1>5, <1>6, NextKinds

LEMMA ClaimsTypeStep == IInv /\ [Next]_vars => ClaimsTypeOK' /\ ChannelsFinite'
<1> SUFFICES ASSUME IInv, [Next]_vars PROVE ClaimsTypeOK' /\ ChannelsFinite'
  OBVIOUS
<1>. USE DEF ClaimsTypeOK, ChannelsFinite, queues
<1>0. ClaimsTypeOK /\ ChannelsFinite /\ Cardinality({}) = 0 /\ IsFiniteSet({}) /\ MaxOffers \in Nat
  BY FS_EmptySet, QueueAssumption DEF IInv, QueueTypeOK
<1>1. ASSUME NEW o \in Offers, NEW S \in SUBSET Claim, IsFiniteSet(S), Cardinality(S) <= MaxOffers,
             claimsCh' = [claimsCh EXCEPT ![o] = S]
      PROVE  /\ claimsCh' \in [Offers -> SUBSET Claim] /\ ChannelsFinite'
             /\ \A p \in Offers : Cardinality(claimsCh'[p]) <= MaxOffers
  BY <1>0, <1>1
<1>2. ASSUME NEW o \in Offers, ClaimStep(o) PROVE ClaimsTypeOK' /\ ChannelsFinite'
  <2>1. ASSUME NEW c \in Claim, onClaim(o, c) PROVE ClaimsTypeOK' /\ ChannelsFinite'
    BY <1>0, <2>1 DEF onClaim
  <2>2. ASSUME NEW c \in Claim, PushClaim(o, c) PROVE ClaimsTypeOK' /\ ChannelsFinite'
    <3> DEFINE S == IF Cardinality(claimsCh[o]) < MaxOffers THEN claimsCh[o] \cup {c}
                                                            ELSE claimsCh[o]
    <3>1. /\ IsFiniteSet(claimsCh[o] \cup {c})
          /\ Cardinality(claimsCh[o] \cup {c}) \in {Cardinality(claimsCh[o]), Cardinality(claimsCh[o]) + 1}
      BY <1>0, FS_AddElement
    <3>2. Cardinality(claimsCh[o]) \in Nat
      BY <1>0, FS_CardinalityType
    <3>3. S \in SUBSET Claim /\ IsFiniteSet(S) /\ Cardinality(S) <= MaxOffers
      BY <1>0, <3>1, <3>2
    <3>4. claimsCh' = [claimsCh EXCEPT ![o] = S]
      BY <2>2 DEF PushClaim
    <3>5. vetted' \in [Offers -> SUBSET Claim] /\ claims' \in [Offers -> SUBSET Claim]
      BY <1>0, <2>2 DEF PushClaim
    <3> HIDE DEF S
    <3> QED
      BY <1>1, <3>3, <3>4, <3>5
  <2>3. ASSUME NEW c \in Claim, CollectClaim(o, c) PROVE ClaimsTypeOK' /\ ChannelsFinite'
    <3> DEFINE S == claimsCh[o] \ {c}
    <3>1. c \in claimsCh[o] /\ Cardinality(claimsCh[o]) \in Nat
      BY <1>0, <2>3, FS_CardinalityType DEF CollectClaim
    <3>2. IsFiniteSet(S) /\ Cardinality(S) = Cardinality(claimsCh[o]) - 1
      BY <1>0, <3>1, FS_RemoveElement
    <3>3. S \in SUBSET Claim /\ Cardinality(S) <= MaxOffers
      BY <1>0, <3>1, <3>2
    <3>4. claimsCh' = [claimsCh EXCEPT ![o] = S]
      BY <2>3 DEF CollectClaim
    <3>5. vetted' \in [Offers -> SUBSET Claim] /\ claims' \in [Offers -> SUBSET Claim]
      BY <1>0, <2>3 DEF CollectClaim, Keep
    <3> HIDE DEF S
    <3> QED
      BY <1>1, <3>2, <3>3, <3>4, <3>5
  <2>4. CASE WindowCloses(o)
    <3>1. vetted' \in [Offers -> SUBSET Claim] /\ claims' \in [Offers -> SUBSET Claim]
      BY <1>0, <2>4 DEF WindowCloses, Keep
    <3>2. claimsCh' = [claimsCh EXCEPT ![o] = {}]
      BY <2>4 DEF WindowCloses
    <3> QED
      BY <1>0, <1>1, <3>1, <3>2
  <2> QED
    BY <1>2, <2>1, <2>2, <2>3, <2>4 DEF ClaimStep
<1>3. ASSUME NEW o \in Offers, SaveStep(o) PROVE ClaimsTypeOK' /\ ChannelsFinite'
  <2>1. CASE Reopen(o)
    BY <1>0, <2>1 DEF Reopen
  <2>2. CASE Ends(o)
    BY <1>0, <2>2, EndsOffer DEF EndOffer
  <2>3. CASE \/ Offer(o) \/ PublishOfferFails(o) \/ Assign(o)
             \/ CancelBegin(o) \/ RedriveExpired(o) \/ RedriveOpen(o)
    BY <1>0, <2>3
       DEF Offer, PublishOfferFails, Assign, CancelBegin, RedriveExpired, RedriveOpen, TakeRecord
  <2> QED
    BY <1>3, <2>1, <2>2, <2>3 DEF SaveStep
<1>4. ASSUME NEW o \in Offers, PublishStep(o) PROVE ClaimsTypeOK' /\ ChannelsFinite'
  <2>1. CASE PublishOffer(o) \/ RedrivePublish(o)
    BY <1>0, <2>1 DEF PublishOffer, RedrivePublish
  <2>2. CASE Republish(o)
    BY <1>0, <1>1, <2>2 DEF Republish
  <2> QED
    BY <1>4, <2>1, <2>2 DEF PublishStep
<1>5. ASSUME NEW o \in Offers, Moves(o) \/ TaskStep(o) \/ CancelStep(o) \/ Reap(o)
      PROVE  ClaimsTypeOK' /\ ChannelsFinite'
  BY <1>0, <1>5, MovesOn
     DEF TaskStep, Submit, SubmitFails, WatchStalls, TaskEnds, CancelStep, CancelSignal,
         CancelFinish, Reap
<1>6. ASSUME NEW o \in Offers, NEW m \in Members, MemberStep(m, o)
      PROVE  ClaimsTypeOK' /\ ChannelsFinite'
  BY <1>0, <1>6 DEF MemberStep, onOffer, onAssign, onCancel, ReapIncoming
<1>7. CASE DaemonStep
  <2>1. CASE Stop \/ Start
    BY <1>0, <2>1 DEF Stop, Start
  <2>2. CASE StopReturns \/ Crash
    <3>1. /\ vetted' = [o \in Offers |-> {}] /\ claimsCh' = [o \in Offers |-> {}]
          /\ claims' = [o \in Offers |-> {}]
      BY <2>2, Exits DEF Exit
    <3>2. \A o \in Offers : claimsCh'[o] = {}
      BY <3>1
    <3> QED
      BY <1>0, <3>1, <3>2
  <2> QED
    BY <1>7, <2>1, <2>2 DEF DaemonStep
<1>8. CASE UNCHANGED vars
  BY <1>0, <1>8 DEF vars
<1> QED
  BY <1>2, <1>3, <1>4, <1>5, <1>6, <1>7, <1>8, NextKinds

LEMMA ResolverTypeStep == IInv /\ [Next]_vars => ResolverTypeOK'
<1> SUFFICES ASSUME IInv, [Next]_vars PROVE ResolverTypeOK'
  OBVIOUS
<1>. USE DEF ResolverTypeOK, channels, Goto, Close
<1>0. ResolverTypeOK /\ InfoTypeOK
  BY DEF IInv, QueueTypeOK
<1>1. ASSUME NEW o \in Offers, SaveStep(o) PROVE ResolverTypeOK'
  <2>1. CASE Ends(o)
    BY <1>0, <2>1, EndsOffer DEF EndOffer
  <2>2. CASE Offer(o) \/ PublishOfferFails(o) \/ Assign(o) \/ Reopen(o)
    BY <1>0, <2>2 DEF Offer, PublishOfferFails, Assign, AfterAssign, Reopen
  <2>3. CASE CancelBegin(o)
    BY <1>0, <2>3 DEF CancelBegin, InfoTypeOK
  <2>4. CASE RedriveExpired(o) \/ RedriveOpen(o)
    BY <1>0, <2>4 DEF RedriveExpired, RedriveOpen, TakeRecord
  <2> QED
    BY <1>1, <2>1, <2>2, <2>3, <2>4 DEF SaveStep
<1>2. ASSUME NEW o \in Offers, Moves(o) \/ ClaimStep(o) PROVE ResolverTypeOK'
  BY <1>0, <1>2, MovesOn DEF ClaimStep, onClaim, PushClaim, CollectClaim, WindowCloses
<1>3. ASSUME NEW o \in Offers, TaskStep(o) PROVE ResolverTypeOK'
  <2>1. CASE Submit(o) \/ SubmitFails(o)
    BY <1>0, <2>1 DEF Submit, SubmitFails, CallSubmitter, InfoTypeOK
  <2>2. CASE WatchStalls(o) \/ \E k \in Attempts : TaskEnds(o, k)
    BY <1>0, <2>2 DEF WatchStalls, TaskEnds
  <2> QED
    BY <1>3, <2>1, <2>2 DEF TaskStep
<1>4. ASSUME NEW o \in Offers, PublishStep(o) PROVE ResolverTypeOK'
  BY <1>0, <1>4
     DEF PublishStep, PublishOffer, Republish, RepublishFailed, RedrivePublish, RedriveResolver
<1>5. ASSUME NEW o \in Offers, CancelStep(o) \/ Reap(o) PROVE ResolverTypeOK'
  BY <1>0, <1>5 DEF CancelStep, CancelSignal, CancelFinish, Reap
<1>6. ASSUME NEW o \in Offers, NEW m \in Members, MemberStep(m, o) PROVE ResolverTypeOK'
  BY <1>0, <1>6 DEF MemberStep, onOffer, onAssign, onCancel, ReapIncoming
<1>7. CASE DaemonStep
  <2>1. CASE Stop \/ Start
    BY <1>0, <2>1 DEF Stop, Start
  <2>2. CASE StopReturns \/ Crash
    <3>1. /\ resolved' = [o \in Offers |-> FALSE] /\ finished' = [o \in Offers |-> FALSE]
          /\ cancelCh' = [o \in Offers |-> FALSE]
          /\ pc' = [o \in Offers |-> "none"] /\ cpc' = [o \in Offers |-> "idle"]
          /\ doomed' = [o \in Offers |-> NoTask] /\ late' = [o \in Offers |-> 0]
          /\ UNCHANGED <<calls, strays>>
      BY <2>2, Exits DEF Exit
    <3>2. /\ resolved' \in [Offers -> BOOLEAN] /\ finished' \in [Offers -> BOOLEAN]
          /\ cancelCh' \in [Offers -> BOOLEAN]
      BY <3>1, Zenon
    <3> QED
      BY <1>0, <3>1, <3>2
  <2> QED
    BY <1>7, <2>1, <2>2 DEF DaemonStep
<1>8. CASE UNCHANGED vars
  BY <1>0, <1>8 DEF vars
<1> QED
  BY <1>1, <1>2, <1>3, <1>4, <1>5, <1>6, <1>7, <1>8, NextKinds

-----------------------------------------------------------------------------
(* The file.                                                               *)
LEMMA Persisted ==
    ASSUME PersistLocked
    PROVE  /\ DOMAIN stored' = {o \in Offers : status'[o] \in Active}
           /\ \A o \in DOMAIN stored' :
                 stored'[o] = [attempt |-> attempt'[o], retries |-> retries'[o]]
BY DEF PersistLocked, Snapshot

\* What every step that saves does to the daemon's own state.
LEMMA Saves ==
    ASSUME NEW o \in Offers, SaveStep(o)
    PROVE  /\ PersistLocked /\ UNCHANGED <<phase, restarts, incoming, task, history>>
           /\ \/ UNCHANGED todo
              \/ o \in DOMAIN todo /\ todo' = [p \in DOMAIN todo \ {o} |-> todo[p]]
<1>. USE DEF daemon, remote
<1>1. CASE Ends(o)
  BY <1>1, EndsOffer DEF EndOffer
<1>2. CASE \/ Offer(o) \/ PublishOfferFails(o) \/ Assign(o) \/ Reopen(o) \/ CancelBegin(o)
  BY <1>2 DEF Offer, PublishOfferFails, Assign, Reopen, CancelBegin
<1>3. CASE RedriveExpired(o) \/ RedriveOpen(o)
  BY <1>3 DEF RedriveExpired, RedriveOpen, TakeRecord
<1> QED
  BY <1>1, <1>2, <1>3 DEF SaveStep

\* Every other step leaves the file and the daemon alone.
LEMMA LeavesFile ==
    ASSUME NEW o \in Offers,
           \/ Moves(o) \/ TaskStep(o) \/ ClaimStep(o) \/ PublishStep(o) \/ CancelStep(o)
           \/ Reap(o) \/ \E m \in Members : MemberStep(m, o)
    PROVE  UNCHANGED <<stored, todo, phase, restarts>>
<1>. USE DEF daemon
<1>1. CASE Moves(o) \/ TaskStep(o)
  BY <1>1, MovesOn DEF TaskStep, Submit, SubmitFails, WatchStalls, TaskEnds
<1>2. CASE ClaimStep(o) \/ PublishStep(o)
  BY <1>2 DEF ClaimStep, onClaim, PushClaim, CollectClaim, WindowCloses,
              PublishStep, PublishOffer, Republish, RedrivePublish
<1>3. CASE CancelStep(o) \/ Reap(o)
  BY <1>3 DEF CancelStep, CancelSignal, CancelFinish, Reap
<1>4. CASE \E m \in Members : MemberStep(m, o)
  BY <1>4 DEF MemberStep, onOffer, onAssign, onCancel, ReapIncoming
<1> QED
  BY <1>1, <1>2, <1>3, <1>4

LEMMA DaemonTypeStep == IInv /\ [Next]_vars => DaemonTypeOK'
<1> SUFFICES ASSUME IInv, [Next]_vars PROVE DaemonTypeOK'
  OBVIOUS
<1>. USE DEF DaemonTypeOK
<1>0. DaemonTypeOK /\ InfoTypeOK'
  BY InfoTypeStep DEF IInv, QueueTypeOK
<1>1. ASSUME NEW o \in Offers, SaveStep(o) PROVE DaemonTypeOK'
  <2>1. DOMAIN stored' \subseteq Offers /\ \A p \in DOMAIN stored' : stored'[p] \in Record
    <3>1. \A p \in Offers : attempt'[p] \in Attempts /\ retries'[p] \in 0..MaxRetries
      BY <1>0 DEF InfoTypeOK
    <3>2. PersistLocked
      BY <1>1, Saves
    <3> QED
      BY <3>1, <3>2, Persisted DEF Record
  <2>2. DOMAIN todo' \subseteq Offers /\ \A p \in DOMAIN todo' : todo'[p] \in Record
    BY <1>0, <1>1, Saves
  <2> QED
    BY <1>0, <1>1, <2>1, <2>2, Saves
<1>2. ASSUME NEW o \in Offers,
             \/ Moves(o) \/ TaskStep(o) \/ ClaimStep(o) \/ PublishStep(o) \/ CancelStep(o)
             \/ Reap(o) \/ \E m \in Members : MemberStep(m, o)
      PROVE  DaemonTypeOK'
  BY <1>0, <1>2, LeavesFile
<1>3. CASE Stop
  BY <1>0, <1>3 DEF Stop
<1>4. CASE StopReturns \/ Crash
  BY <1>0, <1>4, Exits DEF Exit
<1>5. CASE Start
  BY <1>0, <1>5, QueueAssumption DEF Start, Load, IInv, Counting
<1>6. CASE UNCHANGED vars
  BY <1>0, <1>6 DEF vars, daemon
<1> QED
  BY <1>1, <1>2, <1>3, <1>4, <1>5, <1>6, NextKinds DEF DaemonStep

LEMMA RemoteTypeStep == IInv /\ [Next]_vars => RemoteTypeOK'
<1> SUFFICES ASSUME IInv, [Next]_vars PROVE RemoteTypeOK'
  OBVIOUS
<1>. USE DEF RemoteTypeOK, remote
<1>0. RemoteTypeOK /\ attempt \in [Offers -> Attempts] /\ doomed \in [Offers -> Attempts \cup {NoTask}]
  BY DEF IInv, QueueTypeOK, InfoTypeOK, ResolverTypeOK
<1>a. ASSUME NEW o \in Offers, NEW k \in Attempts, NEW v \in TaskState,
             task' = [task EXCEPT ![o][k] = v]
      PROVE  task' \in [Offers -> [Attempts -> TaskState]]
  BY <1>0, <1>a
<1>b. ASSUME NEW o \in Offers, NEW k \in Attempts, CancelTask(o, k)
      PROVE  task' \in [Offers -> [Attempts -> TaskState]]
  <2>1. task[o][k] \in TaskState
    BY <1>0
  <2> QED
    BY <1>0, <1>a, <1>b, <2>1 DEF CancelTask, TaskState
<1>1. ASSUME NEW o \in Offers, SaveStep(o) PROVE RemoteTypeOK'
  <2>1. CASE Ends(o)
    BY <1>0, <2>1, EndsOffer DEF EndOffer
  <2>2. CASE Assign(o)
    BY <1>0, <2>2 DEF Assign, Broadcast, Msg
  <2>3. CASE \/ Offer(o) \/ PublishOfferFails(o) \/ Reopen(o) \/ CancelBegin(o)
             \/ RedriveExpired(o) \/ RedriveOpen(o)
    BY <1>0, <2>3
       DEF Offer, PublishOfferFails, Reopen, CancelBegin, RedriveExpired, RedriveOpen, TakeRecord
  <2> QED
    BY <1>1, <2>1, <2>2, <2>3 DEF SaveStep
<1>2. ASSUME NEW o \in Offers, Moves(o) \/ ClaimStep(o) \/ Reap(o) PROVE RemoteTypeOK'
  BY <1>0, <1>2, MovesOn DEF ClaimStep, onClaim, PushClaim, CollectClaim, WindowCloses, Reap
<1>3. ASSUME NEW o \in Offers, TaskStep(o) PROVE RemoteTypeOK'
  <2>1. CASE Submit(o) \/ SubmitFails(o)
    BY <1>0, <1>a, <2>1 DEF Submit, SubmitFails, TaskState
  <2>2. CASE WatchStalls(o)
    BY <1>0, <1>b, <2>2 DEF WatchStalls
  <2>3. ASSUME NEW k \in Attempts, TaskEnds(o, k) PROVE RemoteTypeOK'
    BY <1>0, <1>a, <2>3 DEF TaskEnds, TaskState
  <2> QED
    BY <1>3, <2>1, <2>2, <2>3 DEF TaskStep
<1>4. ASSUME NEW o \in Offers, PublishStep(o) PROVE RemoteTypeOK'
  BY <1>0, <1>4
     DEF PublishStep, PublishOffer, Republish, RedrivePublish, BroadcastOffer, Msg
<1>5. ASSUME NEW o \in Offers, CancelStep(o) PROVE RemoteTypeOK'
  <2>1. CASE CancelSignal(o)
    BY <1>0, <2>1 DEF CancelSignal
  <2>2. CASE CancelFinish(o)
    <3>1. task' \in [Offers -> [Attempts -> TaskState]]
      BY <1>0, <1>b, <2>2 DEF CancelFinish
    <3>2. msgs' \subseteq Msg /\ UNCHANGED incoming
      BY <1>0, <2>2 DEF CancelFinish, Broadcast, Msg
    <3> QED
      BY <1>0, <3>1, <3>2
  <2> QED
    BY <1>5, <2>1, <2>2 DEF CancelStep
<1>6. ASSUME NEW o \in Offers, NEW m \in Members, MemberStep(m, o) PROVE RemoteTypeOK'
  <2>1. ASSUME NEW k \in Attempts, onOffer(m, o, k) PROVE RemoteTypeOK'
    BY <1>0, <2>1 DEF onOffer, Msg, Claim
  <2>2. CASE onAssign(m, o) \/ onCancel(m, o) \/ ReapIncoming(m, o)
    <3> DEFINE Entry == [status : {"none", "observed", "assigned", "cancelled"},
                         attempt : Attempts \cup {NoTask}]
    <3>1. incoming[m][o] \in Entry
      BY <1>0
    <3>2. PICK r \in Entry : incoming' = [incoming EXCEPT ![m][o] = r]
      <4>1. CASE ReapIncoming(m, o)
        BY <4>1 DEF ReapIncoming, NotSeen
      <4>2. CASE onAssign(m, o)
        BY <3>1, <4>2 DEF onAssign
      <4>3. CASE onCancel(m, o)
        BY <3>1, <4>3 DEF onCancel
      <4> QED
        BY <2>2, <4>1, <4>2, <4>3
    <3>3. UNCHANGED <<msgs, task>>
      BY <2>2 DEF onAssign, onCancel, ReapIncoming
    <3> QED
      BY <1>0, <3>2, <3>3
  <2> QED
    BY <1>6, <2>1, <2>2 DEF MemberStep
<1>7. CASE DaemonStep
  BY <1>0, <1>7, Exits DEF DaemonStep, Stop, Start, Exit
<1>8. CASE UNCHANGED vars
  BY <1>0, <1>8 DEF vars
<1> QED
  BY <1>1, <1>2, <1>3, <1>4, <1>5, <1>6, <1>7, <1>8, NextKinds

-----------------------------------------------------------------------------
(* The counters.                                                           *)

\* A save touches no offer but its own.
LEMMA SaveFrame ==
    ASSUME IInv, NEW o \in Offers, SaveStep(o), NEW p \in Offers, p # o
    PROVE  /\ status'[p] = status[p] /\ attempt'[p] = attempt[p]
           /\ retries'[p] = retries[p] /\ claims'[p] = claims[p]
           /\ pc'[p] = pc[p] /\ cpc'[p] = cpc[p]
<1>. USE DEF SetStatus, Goto, queues
<1>0. InfoTypeOK /\ ClaimsTypeOK /\ ResolverTypeOK
  BY DEF IInv, QueueTypeOK
<1>1. CASE Ends(o)
  BY <1>0, <1>1, EndsOffer DEF EndOffer, InfoTypeOK, ClaimsTypeOK, ResolverTypeOK
<1>2. CASE Offer(o) \/ PublishOfferFails(o) \/ CancelBegin(o)
  BY <1>0, <1>2 DEF Offer, PublishOfferFails, CancelBegin, InfoTypeOK, ClaimsTypeOK, ResolverTypeOK
<1>3. CASE Assign(o) \/ Reopen(o)
  BY <1>0, <1>3 DEF Assign, AfterAssign, Reopen, InfoTypeOK, ClaimsTypeOK, ResolverTypeOK
<1>4. CASE RedriveExpired(o) \/ RedriveOpen(o)
  BY <1>0, <1>4
     DEF RedriveExpired, RedriveOpen, TakeRecord, InfoTypeOK, ClaimsTypeOK, ResolverTypeOK
<1> QED
  BY <1>1, <1>2, <1>3, <1>4 DEF SaveStep

\* What a save makes of the counters of its offer.
LEMMA SaveCounts ==
    ASSUME IInv, NEW o \in Offers, SaveStep(o)
    PROVE  \/ attempt'[o] = attempt[o] /\ retries'[o] = retries[o]
           \/ /\ Reopen(o)
              /\ attempt'[o] = attempt[o] + 1 /\ retries'[o] = retries[o] + 1
           \/ /\ o \in DOMAIN todo /\ retries'[o] = todo[o].retries
              /\ \/ RedriveExpired(o) /\ attempt'[o] = todo[o].attempt
                 \/ RedriveOpen(o) /\ attempt'[o] = todo[o].attempt + 1
<1>0. InfoTypeOK
  BY DEF IInv, QueueTypeOK
<1>1. CASE Ends(o)
  BY <1>0, <1>1, EndsOffer DEF EndOffer
<1>2. CASE Offer(o) \/ PublishOfferFails(o) \/ CancelBegin(o) \/ Assign(o)
  BY <1>0, <1>2 DEF Offer, PublishOfferFails, CancelBegin, Assign
<1>3. CASE Reopen(o)
  BY <1>0, <1>3 DEF Reopen, InfoTypeOK
<1>4. CASE RedriveExpired(o) \/ RedriveOpen(o)
  BY <1>0, <1>4 DEF RedriveExpired, RedriveOpen, RedriveAttempt, TakeRecord, InfoTypeOK
<1> QED
  BY <1>1, <1>2, <1>3, <1>4 DEF SaveStep

\* The steps that do not save leave attempts and retries alone.
LEMMA LeavesCounts ==
    ASSUME NEW o \in Offers,
           \/ Moves(o) \/ TaskStep(o) \/ ClaimStep(o) \/ PublishStep(o) \/ CancelStep(o)
           \/ Reap(o) \/ \E m \in Members : MemberStep(m, o)
    PROVE  UNCHANGED <<attempt, retries>>
<1>. USE DEF info
<1>1. CASE Moves(o) \/ TaskStep(o)
  BY <1>1, MovesOn DEF TaskStep, Submit, SubmitFails, WatchStalls, TaskEnds
<1>2. CASE ClaimStep(o) \/ PublishStep(o)
  BY <1>2 DEF ClaimStep, onClaim, PushClaim, CollectClaim, WindowCloses,
              PublishStep, PublishOffer, Republish, RedrivePublish
<1>3. CASE CancelStep(o) \/ Reap(o)
  BY <1>3 DEF CancelStep, CancelSignal, CancelFinish, Reap
<1>4. CASE \E m \in Members : MemberStep(m, o)
  BY <1>4 DEF MemberStep, onOffer, onAssign, onCancel, ReapIncoming
<1> QED
  BY <1>1, <1>2, <1>3, <1>4

LEMMA CountingStep == IInv /\ [Next]_vars => Counting'
<1> SUFFICES ASSUME IInv, [Next]_vars PROVE Counting'
  OBVIOUS
<1>0. /\ Counting /\ InfoTypeOK /\ DaemonTypeOK /\ InfoTypeOK' /\ DaemonTypeOK'
  BY InfoTypeStep, DaemonTypeStep DEF IInv, QueueTypeOK
<1>n. /\ restarts \in Nat /\ restarts' \in Nat
      /\ \A p \in Offers : attempt[p] \in Nat /\ retries[p] \in Nat /\ retries[p] <= MaxRetries
      /\ \A p \in DOMAIN stored : stored[p].attempt \in Nat /\ stored[p].retries \in Nat
      /\ \A p \in DOMAIN todo : todo[p].attempt \in Nat /\ todo[p].retries \in Nat
  BY <1>0, QueueAssumption DEF InfoTypeOK, DaemonTypeOK, Attempts, Record
<1>1. ASSUME NEW o \in Offers, SaveStep(o) PROVE Counting'
  <2>1. restarts' = restarts /\ phase' = phase
    BY <1>1, Saves
  <2>2. \A p \in Offers : attempt'[p] <= retries'[p] + restarts'
    <3>1. attempt'[o] <= retries'[o] + restarts'
      BY <1>0, <1>1, <1>n, <2>1, SaveCounts, RecordFits DEF Counting
    <3> QED
      BY <1>0, <1>1, <2>1, <3>1, SaveFrame DEF Counting
  <2>3. \A p \in DOMAIN stored' : stored'[p].attempt <= stored'[p].retries + restarts'
    <3>1. PersistLocked
      BY <1>1, Saves
    <3> QED
      BY <2>2, <3>1, Persisted
  <2>4. \A p \in DOMAIN todo' : todo'[p].attempt < todo'[p].retries + restarts'
    BY <1>0, <1>1, <2>1, Saves DEF Counting
  <2> QED
    BY <1>0, <1>n, <2>1, <2>2, <2>3, <2>4 DEF Counting
<1>2. ASSUME NEW o \in Offers,
             \/ Moves(o) \/ TaskStep(o) \/ ClaimStep(o) \/ PublishStep(o) \/ CancelStep(o)
             \/ Reap(o) \/ \E m \in Members : MemberStep(m, o)
      PROVE  Counting'
  <2>1. UNCHANGED <<stored, todo, phase, restarts, attempt, retries>>
    BY <1>2, LeavesFile, LeavesCounts
  <2> QED
    BY <1>0, <1>n, <2>1 DEF Counting
<1>3. CASE Stop
  BY <1>0, <1>n, <1>3 DEF Stop, Counting, info
<1>4. CASE StopReturns \/ Crash
  <2>1. Exit /\ restarts < MaxRestarts
    BY <1>4, Exits
  <2> QED
    BY <1>0, <1>n, <2>1 DEF Exit, Counting
<1>5. CASE Start
  BY <1>0, <1>n, <1>5 DEF Start, Load, Counting, info
<1>6. CASE UNCHANGED vars
  BY <1>0, <1>6 DEF vars, Counting, daemon, remote, info
<1> QED
  BY <1>1, <1>2, <1>3, <1>4, <1>5, <1>6, NextKinds DEF DaemonStep

-----------------------------------------------------------------------------
(* What is in memory, in the file and on the network.                      *)
Announcing == {"publish", "republish", "redrive"}

\* A step that does not save touches its own offer only, and that one only
\* where the resolver or CancelOffer is at work on it.
LEMMA LightFrame ==
    ASSUME IInv, NEW o \in Offers,
           Moves(o) \/ TaskStep(o) \/ ClaimStep(o) \/ PublishStep(o) \/ CancelStep(o)
    PROVE  /\ status' = status
           /\ \A p \in Offers :
                 /\ p # o \/ pc[p] = "none" => pc'[p] = pc[p] /\ claims'[p] = claims[p]
                                               /\ late'[p] = late[p]
                 /\ p # o \/ cpc[p] = "idle" => cpc'[p] = cpc[p] /\ cancelCh'[p] = cancelCh[p]
                 /\ pc'[p] \in Announcing => pc'[p] = pc[p]
                 /\ pc'[p] \in BeforeCall => pc[p] \in BeforeCall
<1>. USE DEF Goto, info, queues, channels, Announcing, BeforeCall
<1>0. InfoTypeOK /\ ClaimsTypeOK /\ ResolverTypeOK
  BY DEF IInv, QueueTypeOK
<1>1. CASE Moves(o)
  BY <1>0, <1>1, MovesOn DEF ResolverTypeOK, ClaimsTypeOK
<1>2. CASE TaskStep(o)
  <2>1. CASE Submit(o) \/ SubmitFails(o)
    BY <1>0, <2>1 DEF Submit, SubmitFails, CallSubmitter, ResolverTypeOK
  <2>2. CASE WatchStalls(o) \/ \E k \in Attempts : TaskEnds(o, k)
    BY <1>0, <2>2 DEF WatchStalls, Stalled, TaskEnds, ResolverTypeOK
  <2> QED
    BY <1>2, <2>1, <2>2 DEF TaskStep
<1>3. CASE ClaimStep(o)
  BY <1>0, <1>3
     DEF ClaimStep, onClaim, PushClaim, CollectClaim, WindowCloses, ResolverTypeOK, ClaimsTypeOK
<1>4. CASE PublishStep(o)
  BY <1>0, <1>4
     DEF PublishStep, PublishOffer, Republish, RepublishFailed, RedrivePublish, RedriveResolver,
         ResolverTypeOK
<1>5. CASE CancelStep(o)
  BY <1>0, <1>5 DEF CancelStep, CancelSignal, CancelFinish, Close, ResolverTypeOK
<1> QED
  BY <1>1, <1>2, <1>3, <1>4, <1>5

\* The members and the reaper.
LEMMA ReapFrame ==
    ASSUME IInv, NEW o \in Offers, Reap(o)
    PROVE  /\ UNCHANGED <<pc, cpc, claims, history, cancelCh, msgs>>
           /\ status[o] \in Ended /\ pc[o] = "none" /\ cpc[o] = "idle" /\ status'[o] = "absent"
           /\ \A p \in Offers : p # o => status'[p] = status[p]
BY DEF IInv, QueueTypeOK, InfoTypeOK, Reap, SetStatus, queues, channels, remote

LEMMA MemberFrame ==
    ASSUME NEW o \in Offers, NEW m \in Members, MemberStep(m, o)
    PROVE  UNCHANGED <<status, pc, cpc, claims, history, cancelCh>>
BY DEF MemberStep, onOffer, onAssign, onCancel, ReapIncoming, info, queues, channels

\* Only a broadcast of the offerer sends an offer, under the current attempt.
LEMMA OfferSent ==
    ASSUME IInv, [Next]_vars, NEW p \in Offers, NEW k \in Attempts, OfferMsg(p, k) \in msgs'
    PROVE  \/ OfferMsg(p, k) \in msgs
           \/ /\ PublishStep(p) /\ k = attempt[p]
              /\ pc[p] \in Announcing /\ pc'[p] = "collect"
<1>. USE DEF remote, OfferMsg
<1>0. ResolverTypeOK
  BY DEF IInv, QueueTypeOK
<1>1. ASSUME NEW o \in Offers, SaveStep(o) PROVE OfferMsg(p, k) \in msgs
  <2>1. CASE Ends(o)
    BY <2>1, EndsOffer DEF EndOffer
  <2>2. CASE Assign(o)
    BY <2>2 DEF Assign, Broadcast
  <2>3. CASE \/ Offer(o) \/ PublishOfferFails(o) \/ Reopen(o) \/ CancelBegin(o)
             \/ RedriveExpired(o) \/ RedriveOpen(o)
    BY <2>3
       DEF Offer, PublishOfferFails, Reopen, CancelBegin, RedriveExpired, RedriveOpen, TakeRecord
  <2> QED
    BY <1>1, <2>1, <2>2, <2>3 DEF SaveStep
<1>2. ASSUME NEW o \in Offers, Moves(o) \/ TaskStep(o) \/ ClaimStep(o) \/ Reap(o)
      PROVE  OfferMsg(p, k) \in msgs
  BY <1>2, MovesOn
     DEF TaskStep, Submit, SubmitFails, WatchStalls, TaskEnds, ClaimStep, onClaim, PushClaim,
         CollectClaim, WindowCloses, Reap
<1>3. ASSUME NEW o \in Offers, PublishStep(o)
      PROVE  \/ OfferMsg(p, k) \in msgs
             \/ /\ PublishStep(p) /\ k = attempt[p]
                /\ pc[p] \in Announcing /\ pc'[p] = "collect"
  <2>1. \/ msgs' = msgs
        \/ BroadcastOffer(o) /\ pc[o] \in Announcing /\ Goto(o, "collect")
    BY <1>3 DEF PublishStep, PublishOffer, Republish, RedrivePublish, RedriveResolver, Announcing
  <2>2. CASE BroadcastOffer(o) /\ pc[o] \in Announcing /\ Goto(o, "collect")
    <3>1. pc'[o] = "collect"
      BY <1>0, <2>2 DEF ResolverTypeOK, Goto
    <3>2. OfferMsg(p, k) \in msgs \/ (p = o /\ k = attempt[o])
      BY <2>2 DEF BroadcastOffer
    <3> QED
      BY <1>3, <2>2, <3>1, <3>2
  <2> QED
    BY <2>1, <2>2
<1>4. ASSUME NEW o \in Offers, CancelStep(o) PROVE OfferMsg(p, k) \in msgs
  BY <1>4 DEF CancelStep, CancelSignal, CancelFinish, Broadcast
<1>5. ASSUME NEW o \in Offers, NEW m \in Members, MemberStep(m, o) PROVE OfferMsg(p, k) \in msgs
  <2>1. \/ msgs' = msgs
        \/ \E c \in Claim : msgs' = msgs \cup {[kind |-> "claim", offer |-> o, claim |-> c]}
    BY <1>5 DEF MemberStep, onOffer, onAssign, onCancel, ReapIncoming, Claim
  <2> QED
    BY <2>1
<1>6. CASE DaemonStep
  BY <1>6, Exits DEF DaemonStep, Stop, Start, Exit
<1>7. CASE UNCHANGED vars
  BY <1>7 DEF vars
<1> QED
  BY <1>1, <1>2, <1>3, <1>4, <1>5, <1>6, <1>7, NextKinds

\* Where an offer is when the daemon saves it, and where it is afterwards.
LEMMA SavedOffer ==
    ASSUME IInv, NEW o \in Offers, SaveStep(o)
    PROVE  /\ phase # "down" /\ o \notin DOMAIN todo' /\ status'[o] \in Active \cup Ended
           /\ UNCHANGED cancelCh
           /\ \/ /\ Offer(o) /\ status[o] = "new"
                 /\ UNCHANGED <<attempt, claims>> /\ pc'[o] = "publish"
              \/ /\ status[o] \notin Untracked
                 /\ UNCHANGED <<attempt, claims>>
                 /\ pc'[o] \in {"none", "watch", pc[o]}
              \/ /\ status[o] \notin Untracked /\ pc[o] = "reopen"
                 /\ attempt'[o] = attempt[o] + 1 /\ claims'[o] = {} /\ pc'[o] = "republish"
              \/ /\ o \in DOMAIN todo /\ UNCHANGED claims
                 /\ \/ attempt'[o] = todo[o].attempt /\ pc'[o] = pc[o]
                    \/ attempt'[o] = todo[o].attempt + 1 /\ pc'[o] = "redrive"
<1>. USE DEF SetStatus, Goto, queues, channels, daemon
<1>0. InfoTypeOK /\ ClaimsTypeOK /\ ResolverTypeOK /\ Absent
  BY DEF IInv, QueueTypeOK
<1>a. /\ pc[o] # "none" => status[o] \notin Untracked
      /\ status[o] \in {"new"} \cup Active => o \notin DOMAIN todo
      /\ status[o] \notin Untracked => o \notin DOMAIN todo /\ phase # "down"
      /\ o \in DOMAIN todo => phase # "down"
  BY <1>0 DEF Absent, Untracked, Active
<1>1. CASE Ends(o)
  <2>1. PICK st \in Ended : EndOffer(o, st)
    BY <1>1, EndsOffer
  <2> QED
    BY <1>0, <1>1, <1>a, <2>1, EndsOffer DEF EndOffer, InfoTypeOK, ResolverTypeOK
<1>2. CASE Offer(o)
  BY <1>0, <1>2, <1>a DEF Offer, InfoTypeOK, ResolverTypeOK, Active
<1>3. CASE PublishOfferFails(o) \/ Assign(o)
  BY <1>0, <1>3, <1>a
     DEF PublishOfferFails, Assign, AfterAssign, InfoTypeOK, ResolverTypeOK, Active, Ended
<1>4. CASE Reopen(o)
  BY <1>0, <1>4, <1>a DEF Reopen, InfoTypeOK, ClaimsTypeOK, ResolverTypeOK, Active
<1>5. CASE CancelBegin(o)
  BY <1>0, <1>5, <1>a DEF CancelBegin, InfoTypeOK, Active, Ended, Untracked
<1>6. CASE RedriveExpired(o) \/ RedriveOpen(o)
  BY <1>0, <1>6, <1>a
     DEF RedriveExpired, RedriveOpen, RedriveAttempt, TakeRecord, InfoTypeOK, ResolverTypeOK,
         Active, Ended
<1> QED
  BY <1>1, <1>2, <1>3, <1>4, <1>5, <1>6 DEF SaveStep

LEMMA AbsentStep == IInv /\ [Next]_vars => Absent'
<1> SUFFICES ASSUME IInv, [Next]_vars PROVE Absent'
  OBVIOUS
<1>0. Absent /\ DaemonTypeOK /\ InfoTypeOK
  BY DEF IInv, QueueTypeOK
<1>n. ASSUME NEW p \in Offers, status[p] = "new", ~PublishStep(p)
      PROVE  \A k \in Attempts : OfferMsg(p, k) \notin msgs'
  BY <1>0, <1>n, OfferSent DEF Absent
<1>1. ASSUME NEW o \in Offers, SaveStep(o) PROVE Absent'
  <2>1. /\ phase' = phase /\ phase # "down" /\ late' = late /\ cancelCh' = cancelCh
        /\ DOMAIN todo' \subseteq DOMAIN todo /\ o \notin DOMAIN todo'
        /\ status'[o] \in Active \cup Ended
    BY <1>1, Saves, SavedOffer
  <2>2. \A p \in Offers : p # o => /\ status'[p] = status[p] /\ claims'[p] = claims[p]
                                   /\ pc'[p] = pc[p] /\ cpc'[p] = cpc[p]
    BY <1>1, SaveFrame
  <2>3. DOMAIN stored' = {p \in Offers : status'[p] \in Active}
    BY <1>1, Saves, Persisted
  <2>4. \A p \in Offers : p # o /\ status[p] = "new" =>
            \A k \in Attempts : OfferMsg(p, k) \notin msgs'
    <3>1. ASSUME NEW p \in Offers, p # o, PublishStep(p) PROVE status[p] # "new"
      BY <1>0, <3>1 DEF Absent, Untracked, PublishStep, PublishOffer, Republish, RedrivePublish
    <3> QED
      BY <1>n, <3>1
  <2>5. status'[o] \notin Untracked
    BY <2>1 DEF Active, Ended, Untracked
  <2> QED
    BY <1>0, <2>1, <2>2, <2>3, <2>4, <2>5 DEF Absent, Untracked, Active, DaemonTypeOK
<1>2. ASSUME NEW o \in Offers,
             Moves(o) \/ TaskStep(o) \/ ClaimStep(o) \/ PublishStep(o) \/ CancelStep(o)
      PROVE  Absent'
  <2>1. UNCHANGED <<stored, todo, phase, status>>
    BY <1>2, LeavesFile, LightFrame
  <2>2. \A p \in Offers : status[p] \in Untracked =>
            /\ pc'[p] = pc[p] /\ claims'[p] = claims[p] /\ late'[p] = late[p]
            /\ cpc'[p] = cpc[p] /\ cancelCh'[p] = cancelCh[p]
    BY <1>0, <1>2, LightFrame DEF Absent
  <2>3. \A p \in Offers : status[p] = "new" => \A k \in Attempts : OfferMsg(p, k) \notin msgs'
    <3>1. ASSUME NEW p \in Offers, PublishStep(p) PROVE status[p] # "new"
      BY <1>0, <3>1 DEF Absent, Untracked, PublishStep, PublishOffer, Republish, RedrivePublish
    <3> QED
      BY <1>n, <3>1
  <2> QED
    BY <1>0, <2>1, <2>2, <2>3 DEF Absent, Untracked, DaemonTypeOK
<1>3. ASSUME NEW o \in Offers, Reap(o) PROVE Absent'
  <2>1. UNCHANGED <<stored, todo, phase, pc, cpc, claims, late, cancelCh, msgs>>
    BY <1>3, LeavesFile, ReapFrame
  <2>2. o \notin DOMAIN todo /\ phase # "down"
    BY <1>0, <1>3, ReapFrame DEF Absent, Untracked, Ended
  <2>3. /\ pc[o] = "none" /\ cpc[o] = "idle" /\ status'[o] = "absent"
        /\ \A p \in Offers : p # o => status'[p] = status[p]
    BY <1>3, ReapFrame
  <2> QED
    BY <1>0, <2>1, <2>2, <2>3 DEF Absent, Untracked, DaemonTypeOK
<1>4. ASSUME NEW o \in Offers, NEW m \in Members, MemberStep(m, o) PROVE Absent'
  <2>1. UNCHANGED <<stored, todo, phase, status, pc, cpc, claims, late, cancelCh>>
    BY <1>4, LeavesFile, MemberFrame
  <2>2. \A p \in Offers : status[p] = "new" => \A k \in Attempts : OfferMsg(p, k) \notin msgs'
    <3>1. ASSUME NEW p \in Offers, PublishStep(p) PROVE status[p] # "new"
      BY <1>0, <3>1 DEF Absent, Untracked, PublishStep, PublishOffer, Republish, RedrivePublish
    <3> QED
      BY <1>n, <3>1
  <2> QED
    BY <1>0, <2>1, <2>2 DEF Absent
<1>5. CASE Stop
  BY <1>0, <1>5 DEF Stop, Absent, info, queues, channels, remote
<1>6. CASE StopReturns \/ Crash
  <2>1. Exit
    BY <1>6, Exits
  <2> QED
    BY <1>0, <2>1 DEF Exit, Absent, Untracked, remote
<1>7. CASE Start
  BY <1>0, <1>7 DEF Start, Load, Absent, Untracked, DaemonTypeOK, info, queues, channels, remote
<1>8. CASE UNCHANGED vars
  BY <1>0, <1>8 DEF vars, Absent, info, queues, channels, daemon, remote
<1> QED
  BY <1>1, <1>2, <1>3, <1>4, <1>5, <1>6, <1>7, <1>8, NextKinds DEF DaemonStep

LEMMA FileStep == IInv /\ [Next]_vars => FileIsCurrent'
<1> SUFFICES ASSUME IInv, [Next]_vars PROVE FileIsCurrent'
  OBVIOUS
<1>0. FileIsCurrent /\ Absent
  BY DEF IInv
<1>1. ASSUME NEW o \in Offers, SaveStep(o) PROVE FileIsCurrent'
  <2>1. PersistLocked
    BY <1>1, Saves
  <2> QED
    BY <2>1, Persisted DEF FileIsCurrent
<1>2. ASSUME NEW o \in Offers,
             Moves(o) \/ TaskStep(o) \/ ClaimStep(o) \/ PublishStep(o) \/ CancelStep(o)
      PROVE  FileIsCurrent'
  <2>1. UNCHANGED <<stored, todo, phase, status, attempt, retries>>
    BY <1>2, LeavesFile, LeavesCounts, LightFrame
  <2> QED
    BY <1>0, <2>1 DEF FileIsCurrent
<1>3. ASSUME NEW o \in Offers, Reap(o) PROVE FileIsCurrent'
  <2>1. UNCHANGED <<stored, todo, phase, attempt, retries>>
    BY <1>3, LeavesFile, LeavesCounts
  <2> QED
    BY <1>0, <1>3, <2>1, ReapFrame DEF FileIsCurrent, Active, Ended
<1>4. ASSUME NEW o \in Offers, NEW m \in Members, MemberStep(m, o) PROVE FileIsCurrent'
  <2>1. UNCHANGED <<stored, todo, phase, status, attempt, retries>>
    BY <1>4, LeavesFile, LeavesCounts, MemberFrame
  <2> QED
    BY <1>0, <2>1 DEF FileIsCurrent
<1>5. CASE Stop
  BY <1>0, <1>5 DEF Stop, FileIsCurrent, info
<1>6. CASE StopReturns \/ Crash
  BY <1>6, Exits DEF Exit, FileIsCurrent
<1>7. CASE Start
  BY <1>0, <1>7 DEF Start, Load, FileIsCurrent, Absent, Untracked, Active, info
<1>8. CASE UNCHANGED vars
  BY <1>0, <1>8 DEF vars, FileIsCurrent, info, daemon
<1> QED
  BY <1>1, <1>2, <1>3, <1>4, <1>5, <1>6, <1>7, <1>8, NextKinds DEF DaemonStep

LEMMA BroadcastsStep == IInv /\ [Next]_vars => Broadcasts'
<1> SUFFICES ASSUME IInv, [Next]_vars, NEW p \in Offers, NEW k \in Attempts,
                    OfferMsg(p, k) \in msgs'
             PROVE  /\ status'[p] \notin Untracked => k <= attempt'[p]
                    /\ pc'[p] \in Announcing => k < attempt'[p]
                    /\ p \in DOMAIN stored' => k <= stored'[p].attempt
                    /\ p \in DOMAIN todo' => k <= todo'[p].attempt
  BY DEF Broadcasts, Announcing
<1> DEFINE Behind == /\ status'[p] \notin Untracked => k <= attempt'[p]
                     /\ pc'[p] \in Announcing => k < attempt'[p]
                     /\ p \in DOMAIN stored' => k <= stored'[p].attempt
                     /\ p \in DOMAIN todo' => k <= todo'[p].attempt
<1>0. /\ Absent /\ FileIsCurrent /\ k \in Int
      /\ attempt[p] \in Int /\ attempt'[p] \in Int
  BY InfoTypeStep, QueueAssumption DEF IInv, QueueTypeOK, InfoTypeOK, Attempts, MaxAttempt
<1>1. OfferMsg(p, k) \in msgs =>
        /\ status[p] \notin Untracked => k <= attempt[p]
        /\ pc[p] \in Announcing => k < attempt[p]
        /\ p \in DOMAIN stored => k <= stored[p].attempt
        /\ p \in DOMAIN todo => k <= todo[p].attempt
  BY DEF IInv, Broadcasts, Announcing
<1>2. ASSUME OfferMsg(p, k) \notin msgs PROVE Behind
  <2>1. PublishStep(p) /\ k = attempt[p] /\ pc[p] \in Announcing /\ pc'[p] = "collect"
    BY <1>2, OfferSent
  <2>2. UNCHANGED <<stored, todo, attempt>>
    BY <2>1, LeavesFile, LeavesCounts
  <2>3. p \notin DOMAIN todo /\ (p \in DOMAIN stored => stored[p].attempt = attempt[p])
    BY <1>0, <2>1 DEF Absent, FileIsCurrent, Announcing, Untracked
  <2> QED
    BY <1>0, <2>1, <2>2, <2>3 DEF Announcing
<1>3. ASSUME OfferMsg(p, k) \in msgs, NEW o \in Offers, SaveStep(o) PROVE Behind
  <2>0. PersistLocked
    BY <1>3, Saves
  <2>1. p \in DOMAIN todo' => k <= todo'[p].attempt
    BY <1>1, <1>3, Saves
  <2>2. CASE p = o
    <3>1. /\ status'[p] \in Active \cup Ended
          /\ k <= attempt'[p] /\ (pc'[p] \in Announcing => k < attempt'[p])
      <4>1. CASE Offer(p) /\ status[p] = "new"
        BY <1>0, <1>3, <4>1 DEF Absent
      <4>2. CASE ~(Offer(p) /\ status[p] = "new")
        <5>1. o \in DOMAIN todo => pc[o] = "none" /\ todo[o].attempt \in Int
          BY <1>0, RecordFits DEF Absent, Untracked
        <5> QED
          BY <1>0, <1>1, <1>3, <2>2, <4>2, <5>1, SavedOffer DEF Announcing
      <4> QED
        BY <1>3, <2>2, <4>1, <4>2, SavedOffer
    <3>2. p \in DOMAIN stored' => stored'[p].attempt = attempt'[p]
      BY <2>0, Persisted
    <3> QED
      BY <2>1, <3>1, <3>2
  <2>3. CASE p # o
    <3>1. status'[p] = status[p] /\ attempt'[p] = attempt[p] /\ pc'[p] = pc[p]
      BY <1>3, <2>3, SaveFrame
    <3>2. p \in DOMAIN stored' => stored'[p].attempt = attempt'[p] /\ status'[p] \in Active
      BY <2>0, Persisted
    <3> QED
      BY <1>1, <1>3, <2>1, <3>1, <3>2 DEF Active, Untracked
  <2> QED
    BY <2>2, <2>3
<1>4. ASSUME OfferMsg(p, k) \in msgs, NEW o \in Offers,
             Moves(o) \/ TaskStep(o) \/ ClaimStep(o) \/ PublishStep(o) \/ CancelStep(o)
      PROVE  Behind
  <2>1. UNCHANGED <<stored, todo, status, attempt>> /\ (pc'[p] \in Announcing => pc'[p] = pc[p])
    BY <1>4, LeavesFile, LeavesCounts, LightFrame
  <2> QED
    BY <1>1, <1>4, <2>1
<1>5. ASSUME OfferMsg(p, k) \in msgs, NEW o \in Offers, Reap(o) PROVE Behind
  <2>1. UNCHANGED <<stored, todo, attempt, pc>> /\ (status'[p] = "absent" \/ status'[p] = status[p])
    BY <1>5, LeavesFile, LeavesCounts, ReapFrame
  <2> QED
    BY <1>1, <1>5, <2>1 DEF Untracked
<1>6. ASSUME OfferMsg(p, k) \in msgs, NEW o \in Offers, NEW m \in Members, MemberStep(m, o)
      PROVE  Behind
  <2>1. UNCHANGED <<stored, todo, attempt, pc, status>>
    BY <1>6, LeavesFile, LeavesCounts, MemberFrame
  <2> QED
    BY <1>1, <1>6, <2>1
<1>7. ASSUME OfferMsg(p, k) \in msgs, DaemonStep PROVE Behind
  <2>1. CASE Stop
    BY <1>1, <1>7, <2>1 DEF Stop, info
  <2>2. CASE StopReturns \/ Crash
    BY <1>1, <1>7, <2>2, Exits DEF Exit, Untracked, Announcing
  <2>3. CASE Start
    BY <1>1, <1>7, <2>3 DEF Start, Load, info
  <2> QED
    BY <1>7, <2>1, <2>2, <2>3 DEF DaemonStep
<1>8. ASSUME OfferMsg(p, k) \in msgs, UNCHANGED vars PROVE Behind
  BY <1>1, <1>8 DEF vars, info, daemon
<1> QED
  BY <1>2, <1>3, <1>4, <1>5, <1>6, <1>7, <1>8, NextKinds

\* The submitter is called by the resolver at its pick, and nowhere else.
LEMMA CallMade ==
    ASSUME IInv, NEW o \in Offers,
           Moves(o) \/ TaskStep(o) \/ ClaimStep(o) \/ PublishStep(o) \/ CancelStep(o)
    PROVE  \/ UNCHANGED calls
           \/ /\ calls' = [calls EXCEPT ![o] = calls[o] + 1]
              /\ pc[o] = "pick" /\ pc'[o] \notin BeforeCall
<1>. USE DEF Goto, BeforeCall
<1>0. ResolverTypeOK
  BY DEF IInv, QueueTypeOK
<1>1. CASE Moves(o)
  BY <1>1, MovesOn
<1>2. CASE TaskStep(o)
  BY <1>0, <1>2
     DEF TaskStep, Submit, SubmitFails, CallSubmitter, WatchStalls, TaskEnds, ResolverTypeOK
<1>3. CASE ClaimStep(o) \/ PublishStep(o) \/ CancelStep(o)
  BY <1>3
     DEF ClaimStep, onClaim, PushClaim, CollectClaim, WindowCloses, PublishStep, PublishOffer,
         Republish, RedrivePublish, CancelStep, CancelSignal, CancelFinish
<1> QED
  BY <1>1, <1>2, <1>3

LEMMA CallsStep == IInv /\ [Next]_vars => CallsCounted'
<1> SUFFICES ASSUME IInv, [Next]_vars, NEW p \in Offers
             PROVE  /\ calls'[p] <= MaxRetries + restarts' + 1
                    /\ status'[p] = "new" => calls'[p] = 0
                    /\ status'[p] \notin Untracked => calls'[p] <= attempt'[p] + 1
                    /\ pc'[p] \in BeforeCall => calls'[p] <= attempt'[p]
                    /\ p \in DOMAIN stored' => calls'[p] <= stored'[p].attempt + 1
                    /\ p \in DOMAIN todo' => calls'[p] <= todo'[p].attempt + 1
  BY DEF CallsCounted
<1> DEFINE Counted == /\ calls'[p] <= MaxRetries + restarts' + 1
                      /\ status'[p] = "new" => calls'[p] = 0
                      /\ status'[p] \notin Untracked => calls'[p] <= attempt'[p] + 1
                      /\ pc'[p] \in BeforeCall => calls'[p] <= attempt'[p]
                      /\ p \in DOMAIN stored' => calls'[p] <= stored'[p].attempt + 1
                      /\ p \in DOMAIN todo' => calls'[p] <= todo'[p].attempt + 1
<1>0. /\ Absent /\ FileIsCurrent /\ Counting
      /\ attempt[p] \in Nat /\ attempt'[p] \in Nat /\ retries[p] \in 0..MaxRetries
      /\ calls \in [Offers -> Nat] /\ restarts \in Nat /\ MaxRetries \in Nat
  BY InfoTypeStep, QueueAssumption
     DEF IInv, QueueTypeOK, InfoTypeOK, ResolverTypeOK, DaemonTypeOK, Attempts, MaxAttempt
<1>1. /\ calls[p] <= MaxRetries + restarts + 1
      /\ status[p] = "new" => calls[p] = 0
      /\ status[p] \notin Untracked => calls[p] <= attempt[p] + 1
      /\ pc[p] \in BeforeCall => calls[p] <= attempt[p]
      /\ p \in DOMAIN stored => calls[p] <= stored[p].attempt + 1
      /\ p \in DOMAIN todo => calls[p] <= todo[p].attempt + 1
  BY DEF IInv, CallsCounted
<1>2. ASSUME NEW o \in Offers, SaveStep(o) PROVE Counted
  <2>0. PersistLocked /\ calls' = calls /\ restarts' = restarts
    BY <1>2, Saves
  <2>1. p \in DOMAIN todo' => calls'[p] <= todo'[p].attempt + 1
    BY <1>1, <1>2, <2>0, Saves
  <2>2. /\ status'[p] = "new" => calls'[p] = 0
        /\ status'[p] \notin Untracked => calls'[p] <= attempt'[p] + 1
        /\ pc'[p] \in BeforeCall => calls'[p] <= attempt'[p]
    <3>1. CASE p = o
      <4>1. o \in DOMAIN todo => pc[o] = "none" /\ todo[o].attempt \in Nat
        BY <1>0, RecordFits DEF Absent, Untracked
      <4>2. pc[o] = "none" \/ status[o] \notin Untracked
        BY <1>0 DEF Absent
      <4>3. status'[o] # "new"
        BY <1>2, SavedOffer DEF Active, Ended
      <4> QED
        BY <1>0, <1>1, <1>2, <2>0, <3>1, <4>1, <4>2, <4>3, SavedOffer DEF BeforeCall
    <3>2. CASE p # o
      BY <1>1, <1>2, <2>0, <3>2, SaveFrame
    <3> QED
      BY <3>1, <3>2
  <2>3. p \in DOMAIN stored' => status'[p] \notin Untracked /\ stored'[p].attempt = attempt'[p]
    BY <2>0, Persisted DEF Active, Untracked
  <2> QED
    BY <1>1, <2>0, <2>1, <2>2, <2>3
<1>3. ASSUME NEW o \in Offers,
             Moves(o) \/ TaskStep(o) \/ ClaimStep(o) \/ PublishStep(o) \/ CancelStep(o)
      PROVE  Counted
  <2>1. /\ UNCHANGED <<stored, todo, status, attempt, restarts>>
        /\ pc'[p] \in BeforeCall => pc[p] \in BeforeCall
    BY <1>3, LeavesFile, LeavesCounts, LightFrame
  <2>2. CASE calls'[p] = calls[p]
    BY <1>1, <2>1, <2>2
  <2>3. CASE calls'[p] = calls[p] + 1 /\ pc[p] = "pick" /\ pc'[p] \notin BeforeCall
    <3>1. calls[p] <= attempt[p] /\ calls[p] \in Nat
      BY <1>0, <1>1, <2>3 DEF BeforeCall
    <3>2. status[p] \notin Untracked
      BY <1>0, <2>3 DEF Absent
    <3>3. p \notin DOMAIN todo /\ phase # "down"
      BY <1>0, <3>2 DEF Absent, Untracked
    <3>4. p \in DOMAIN stored => stored[p].attempt = attempt[p]
      BY <1>0, <3>3 DEF FileIsCurrent
    <3>5. attempt[p] <= MaxRetries + restarts
      BY <1>0 DEF Counting
    <3> QED
      BY <1>0, <2>1, <2>3, <3>1, <3>2, <3>3, <3>4, <3>5 DEF Untracked
  <2> QED
    BY <1>0, <1>3, <2>2, <2>3, CallMade
<1>4. ASSUME NEW o \in Offers, Reap(o) PROVE Counted
  <2>1. /\ UNCHANGED <<stored, todo, attempt, pc, restarts, calls>>
        /\ status'[p] = "absent" \/ status'[p] = status[p]
    BY <1>4, LeavesFile, LeavesCounts, ReapFrame
  <2> QED
    BY <1>1, <2>1 DEF Untracked
<1>5. ASSUME NEW o \in Offers, NEW m \in Members, MemberStep(m, o) PROVE Counted
  <2>1. UNCHANGED <<stored, todo, attempt, pc, status, restarts, calls>>
    BY <1>5, LeavesFile, LeavesCounts, MemberFrame
  <2> QED
    BY <1>1, <2>1
<1>6. CASE DaemonStep
  <2>1. CASE Stop
    BY <1>1, <2>1 DEF Stop, info
  <2>2. CASE StopReturns \/ Crash
    BY <1>1, <2>2, Exits DEF Exit, Untracked, BeforeCall
  <2>3. CASE Start
    BY <1>0, <1>1, <2>3 DEF Start, Load, info
  <2> QED
    BY <1>6, <2>1, <2>2, <2>3 DEF DaemonStep
<1>7. CASE UNCHANGED vars
  BY <1>1, <1>7 DEF vars, info, daemon
<1> QED
  BY <1>2, <1>3, <1>4, <1>5, <1>6, <1>7, NextKinds

LEMMA ClaimsStep == IInv /\ [Next]_vars => ClaimsAreCurrent'
<1> SUFFICES ASSUME IInv, [Next]_vars, NEW p \in Offers, NEW c \in claims'[p]
             PROVE  c.attempt = attempt'[p]
  BY DEF ClaimsAreCurrent
<1>0. /\ \A d \in claims[p] : d.attempt = attempt[p]
      /\ ClaimsTypeOK /\ Absent
  BY DEF IInv, QueueTypeOK, ClaimsAreCurrent
<1>1. ASSUME NEW o \in Offers, SaveStep(o) PROVE c.attempt = attempt'[p]
  <2>1. CASE p = o
    BY <1>0, <1>1, <2>1, SavedOffer DEF Absent
  <2>2. CASE p # o
    BY <1>0, <1>1, <2>2, SaveFrame
  <2> QED
    BY <2>1, <2>2
<1>2. ASSUME NEW o \in Offers, ClaimStep(o) PROVE c.attempt = attempt'[p]
  <2>1. attempt' = attempt
    BY <1>2, LeavesCounts
  <2>2. c \in claims[p] \/ c.attempt = attempt[p]
    <3>1. ASSUME NEW d \in Claim, onClaim(o, d) \/ PushClaim(o, d) PROVE c \in claims[p]
      BY <3>1 DEF onClaim, PushClaim
    <3>2. ASSUME NEW d \in Claim, CollectClaim(o, d)
          PROVE  c \in claims[p] \/ c.attempt = attempt[p]
      BY <1>0, <3>2 DEF CollectClaim, Keep, ClaimsTypeOK
    <3>3. CASE WindowCloses(o)
      BY <1>0, <3>3 DEF WindowCloses, Keep, ClaimsTypeOK
    <3> QED
      BY <1>2, <3>1, <3>2, <3>3 DEF ClaimStep
  <2> QED
    BY <1>0, <2>1, <2>2
<1>3. ASSUME NEW o \in Offers,
             \/ Moves(o) \/ TaskStep(o) \/ PublishStep(o) \/ CancelStep(o)
             \/ Reap(o) \/ \E m \in Members : MemberStep(m, o)
      PROVE  c.attempt = attempt'[p]
  <2>1. UNCHANGED <<attempt, claims>>
    <3>1. CASE Moves(o) \/ TaskStep(o)
      BY <3>1, MovesOn, LeavesCounts DEF TaskStep, Submit, SubmitFails, WatchStalls, TaskEnds, queues
    <3>2. CASE PublishStep(o) \/ CancelStep(o)
      BY <3>2, LeavesCounts
         DEF PublishStep, PublishOffer, Republish, RedrivePublish, CancelStep, CancelSignal,
             CancelFinish, queues
    <3>3. CASE Reap(o) \/ \E m \in Members : MemberStep(m, o)
      BY <3>3, LeavesCounts, ReapFrame, MemberFrame
    <3> QED
      BY <1>3, <3>1, <3>2, <3>3
  <2> QED
    BY <1>0, <2>1
<1>4. CASE DaemonStep
  BY <1>0, <1>4, Exits DEF DaemonStep, Stop, Start, Exit, info, queues
<1>5. CASE UNCHANGED vars
  BY <1>0, <1>5 DEF vars, info, queues
<1> QED
  BY <1>1, <1>2, <1>3, <1>4, <1>5, NextKinds

LEMMA CancelStepHolds == IInv /\ [Next]_vars => CancelHolds'
<1> SUFFICES ASSUME IInv, [Next]_vars PROVE CancelHolds'
  OBVIOUS
<1>0. CancelHolds /\ Absent /\ ResolverTypeOK
  BY DEF IInv, QueueTypeOK
<1>. USE DEF Goto
<1>1. ASSUME NEW o \in Offers, SaveStep(o) PROVE CancelHolds'
  <2>1. late' = late /\ cancelCh' = cancelCh
    BY <1>1, Saves, SavedOffer
  <2>2. \A p \in Offers : p # o => pc'[p] = pc[p]
    BY <1>1, SaveFrame
  <2>3. late[o] = 0 \/ pc'[o] \in {"none", "watch", pc[o]}
    BY <1>0, <1>1, SavedOffer DEF Absent, CancelHolds
  <2> QED
    BY <1>0, <2>1, <2>2, <2>3 DEF CancelHolds
<1>2. ASSUME NEW o \in Offers, Moves(o) PROVE CancelHolds'
  BY <1>0, <1>2, MovesOn DEF CancelHolds, ResolverTypeOK, channels
<1>3. ASSUME NEW o \in Offers, TaskStep(o) PROVE CancelHolds'
  <2>1. CASE Submit(o) \/ SubmitFails(o)
    BY <1>0, <2>1 DEF Submit, SubmitFails, CallSubmitter, CancelHolds, ResolverTypeOK, channels
  <2>2. CASE WatchStalls(o) \/ \E k \in Attempts : TaskEnds(o, k)
    BY <1>0, <2>2 DEF WatchStalls, TaskEnds, CancelHolds, ResolverTypeOK, channels
  <2> QED
    BY <1>3, <2>1, <2>2 DEF TaskStep
<1>4. ASSUME NEW o \in Offers, ClaimStep(o) PROVE CancelHolds'
  BY <1>0, <1>4
     DEF ClaimStep, onClaim, PushClaim, CollectClaim, WindowCloses, CancelHolds, ResolverTypeOK,
         channels
<1>5. ASSUME NEW o \in Offers, PublishStep(o) PROVE CancelHolds'
  BY <1>0, <1>5
     DEF PublishStep, PublishOffer, Republish, RepublishFailed, RedrivePublish, RedriveResolver,
         CancelHolds, ResolverTypeOK, channels
<1>6. ASSUME NEW o \in Offers, CancelStep(o) PROVE CancelHolds'
  BY <1>0, <1>6 DEF CancelStep, CancelSignal, CancelFinish, Close, CancelHolds, ResolverTypeOK
<1>7. ASSUME NEW o \in Offers, Reap(o) \/ \E m \in Members : MemberStep(m, o) PROVE CancelHolds'
  <2>1. UNCHANGED <<late, cancelCh, pc>>
    BY <1>7, ReapFrame, MemberFrame
  <2> QED
    BY <1>0, <2>1 DEF CancelHolds
<1>8. CASE DaemonStep
  <2>1. CASE Stop \/ Start
    BY <1>0, <2>1 DEF Stop, Start, CancelHolds, channels
  <2>2. CASE StopReturns \/ Crash
    BY <2>2, Exits DEF Exit, CancelHolds
  <2> QED
    BY <1>8, <2>1, <2>2 DEF DaemonStep
<1>9. CASE UNCHANGED vars
  BY <1>0, <1>9 DEF vars, CancelHolds, channels
<1> QED
  BY <1>1, <1>2, <1>3, <1>4, <1>5, <1>6, <1>7, <1>8, <1>9, NextKinds

-----------------------------------------------------------------------------
(* The theorems.                                                           *)
LEMMA InitIInv == Init => IInv
<1> SUFFICES ASSUME Init PROVE IInv
  OBVIOUS
<1>. USE DEF Init
<1>1. InfoTypeOK
  BY QueueAssumption DEF InfoTypeOK, Attempts, MaxAttempt
<1>2. ClaimsTypeOK /\ ChannelsFinite
  <2>1. \A o \in Offers : claimsCh[o] = {}
    OBVIOUS
  <2> QED
    BY <2>1, FS_EmptySet, QueueAssumption DEF ClaimsTypeOK, ChannelsFinite
<1>3. ResolverTypeOK
  <2>1. /\ resolved \in [Offers -> BOOLEAN] /\ finished \in [Offers -> BOOLEAN]
        /\ cancelCh \in [Offers -> BOOLEAN]
    BY Zenon
  <2> QED
    BY <2>1 DEF ResolverTypeOK
<1>4. DaemonTypeOK
  BY QueueAssumption DEF DaemonTypeOK
<1>5. RemoteTypeOK
  BY DEF RemoteTypeOK, NotSeen, TaskState
<1>6. Counting /\ Absent /\ FileIsCurrent
  BY DEF Counting, Absent, FileIsCurrent, Untracked, Active
<1>7. Broadcasts /\ ClaimsAreCurrent /\ CancelHolds
  BY DEF Broadcasts, ClaimsAreCurrent, CancelHolds
<1>8. CallsCounted
  BY QueueAssumption DEF CallsCounted, Untracked, BeforeCall
<1> QED
  BY <1>1, <1>2, <1>3, <1>4, <1>5, <1>6, <1>7, <1>8 DEF IInv, QueueTypeOK

LEMMA IInvStep == IInv /\ [Next]_vars => IInv'
BY InfoTypeStep, ClaimsTypeStep, ResolverTypeStep, DaemonTypeStep, RemoteTypeStep, CountingStep,
   AbsentStep, FileStep, BroadcastsStep, CallsStep, ClaimsStep, CancelStepHolds
   DEF IInv, QueueTypeOK

THEOREM QueueInvariant == Spec => []IInv
  BY InitIInv, IInvStep, PTL DEF Spec

(* The variables keep their types: no attempt is ever beyond the retries   *)
(* and restarts there can be, and the channel of claims never holds more   *)
(* than max_offers, whatever the members send.                             *)
THEOREM QueueTypes == Spec => []QueueTypeOK
<1>1. IInv => QueueTypeOK
  BY DEF IInv
<1> QED
  BY <1>1, QueueInvariant, PTL

(* The resolver picks among claims for the current attempt only.           *)
THEOREM ClaimsStayCurrent == Spec => []ClaimsAreCurrent
<1>1. IInv => ClaimsAreCurrent
  BY DEF IInv
<1> QED
  BY <1>1, QueueInvariant, PTL

(* For any max_retries and any number of restarts, the submitter is called *)
(* at most 1 + max_retries times for an offer, and once more for each      *)
(* restart, wherever a crash falls between a call, its answer and a save.  *)
THEOREM SubmissionsStayBounded == Spec => []SubmissionsBounded
<1>1. ASSUME IInv, NEW o \in Offers PROVE calls[o] <= MaxRetries + 1 + restarts
  <2>1. MaxRetries \in Nat /\ restarts \in Nat /\ calls[o] \in Nat
    BY <1>1, QueueAssumption DEF IInv, QueueTypeOK, DaemonTypeOK, ResolverTypeOK
  <2> QED
    BY <1>1, <2>1 DEF IInv, CallsCounted
<1>2. IInv => SubmissionsBounded
  BY <1>1 DEF SubmissionsBounded
<1> QED
  BY <1>2, QueueInvariant, PTL

(* However CancelOffer and the resolver interleave, a closed cancel        *)
(* channel admits one call of the submitter at most.                       *)
THEOREM CancelAdmitsOne == Spec => []CancelAdmitsOneSubmit
<1>1. IInv => CancelAdmitsOneSubmit
  BY DEF IInv, CancelHolds, CancelAdmitsOneSubmit
<1> QED
  BY <1>1, QueueInvariant, PTL

(* Over any number of retries and restarts, an offer never goes out under  *)
(* an attempt that was broadcast before.                                   *)
THEOREM ReoffersAreFresh == Spec => ReofferIsFresh
<1>1. ASSUME IInv, [Next]_vars, NEW o \in Offers, pc[o] # "collect", pc'[o] = "collect"
      PROVE  [kind |-> "offer", offer |-> o, attempt |-> attempt[o]] \notin msgs
  <2>1. ASSUME NEW p \in Offers, SaveStep(p) PROVE FALSE
    <3>1. CASE p = o
      BY <1>1, <2>1, <3>1, SavedOffer
    <3>2. CASE p # o
      BY <1>1, <2>1, <3>2, SaveFrame
    <3> QED
      BY <3>1, <3>2
  <2>2. ASSUME NEW p \in Offers,
               \/ Moves(p) \/ TaskStep(p) \/ ClaimStep(p) \/ CancelStep(p)
               \/ Reap(p) \/ \E m \in Members : MemberStep(m, p)
        PROVE  FALSE
    <3>0. ResolverTypeOK
      BY <1>1 DEF IInv, QueueTypeOK
    <3>1. CASE Moves(p)
      BY <1>1, <3>0, <3>1, MovesOn DEF ResolverTypeOK, Goto
    <3>2. CASE TaskStep(p) \/ ClaimStep(p)
      BY <1>1, <3>0, <3>2
         DEF TaskStep, Submit, SubmitFails, WatchStalls, TaskEnds, ClaimStep, onClaim, PushClaim,
             CollectClaim, WindowCloses, ResolverTypeOK, Goto
    <3>3. CASE CancelStep(p) \/ Reap(p) \/ \E m \in Members : MemberStep(m, p)
      BY <1>1, <3>3, ReapFrame, MemberFrame DEF CancelStep, CancelSignal, CancelFinish
    <3> QED
      BY <2>2, <3>1, <3>2, <3>3
  <2>3. ASSUME NEW p \in Offers, PublishStep(p) PROVE p = o /\ pc[o] \in Announcing
    BY <1>1, <2>3, LightFrame
       DEF PublishStep, PublishOffer, Republish, RedrivePublish, Announcing
  <2>4. ASSUME DaemonStep PROVE FALSE
    BY <1>1, <2>4, Exits DEF DaemonStep, Stop, Start, Exit
  <2>5. ASSUME UNCHANGED vars PROVE FALSE
    BY <1>1, <2>5 DEF vars
  <2>6. pc[o] \in Announcing
    BY <1>1, <2>1, <2>2, <2>3, <2>4, <2>5, NextKinds
  <2>7. attempt[o] \in Attempts /\ ~(attempt[o] < attempt[o])
    BY <1>1, QueueAssumption DEF IInv, QueueTypeOK, InfoTypeOK, Attempts
  <2> QED
    BY <1>1, <2>6, <2>7 DEF IInv, Broadcasts, OfferMsg, Announcing
<1>2. IInv /\ [Next]_vars =>
        [\A o \in Offers :
            pc[o] # "collect" /\ pc'[o] = "collect" =>
                [kind |-> "offer", offer |-> o, attempt |-> attempt[o]] \notin msgs]_vars
  BY <1>1
<1> QED
  BY <1>2, QueueInvariant, PTL DEF Spec, ReofferIsFresh

(* A record that redriveOffers has taken in leaves the file only with the  *)
(* end of its offer, through any sequence of saves, stops and crashes.     *)
THEOREM FileKeepsInFlight == Spec => StoreKeepsInFlight
<1>1. ASSUME IInv, [Next]_vars, NEW o \in DOMAIN stored \ DOMAIN todo
      PROVE  o \in DOMAIN stored' \/ status'[o] \in Ended
  <2>1. ASSUME NEW p \in Offers, SaveStep(p) PROVE o \in DOMAIN stored' \/ status'[o] \in Ended
    <3>1. PersistLocked /\ phase # "down" /\ status'[p] \in Active \cup Ended
      BY <1>1, <2>1, Saves, SavedOffer
    <3>2. o \in Offers /\ status[o] \in Active
      BY <1>1, <3>1 DEF IInv, QueueTypeOK, DaemonTypeOK, FileIsCurrent
    <3>3. o # p => status'[o] = status[o]
      BY <1>1, <2>1, <3>2, SaveFrame
    <3> QED
      BY <3>1, <3>2, <3>3, Persisted
  <2>2. ASSUME NEW p \in Offers,
               \/ Moves(p) \/ TaskStep(p) \/ ClaimStep(p) \/ PublishStep(p) \/ CancelStep(p)
               \/ Reap(p) \/ \E m \in Members : MemberStep(m, p)
        PROVE  stored' = stored
    BY <2>2, LeavesFile
  <2>3. CASE DaemonStep
    BY <1>1, <2>3, Exits DEF DaemonStep, Stop, Start, Exit
  <2>4. CASE UNCHANGED vars
    BY <1>1, <2>4 DEF vars
  <2> QED
    BY <1>1, <2>1, <2>2, <2>3, <2>4, NextKinds
<1>2. IInv /\ [Next]_vars =>
        [\A o \in DOMAIN stored \ DOMAIN todo :
            o \in DOMAIN stored' \/ status'[o] \in Ended]_vars
  BY <1>1
<1> QED
  BY <1>2, QueueInvariant, PTL DEF Spec, StoreKeepsInFlight
=============================================================================
