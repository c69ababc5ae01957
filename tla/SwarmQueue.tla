----------------------------- MODULE SwarmQueue -----------------------------
(***************************************************************************)
(* The offer/claim work queue of pkg/rhizome/swarm/queue.go with its store *)
(* (offerstore.go): one offerer and the members of its swarm.              *)
(*                                                                         *)
(* Offer publishes a task; a goroutine per offer (resolveOffer) collects   *)
(* claims for a window, submits the task to the best claimant, watches it, *)
(* and re-offers it after a failure.  CancelOffer runs concurrently.  Every*)
(* section under q.mu is one action; between two sections, and during a    *)
(* call to another peer, the other actors run.                             *)
(*                                                                         *)
(* Broadcasts and claims are a set of messages ever sent: each may be lost,*)
(* delayed or delivered again.  The claim that ranks best is any eligible  *)
(* one, because scores and loads are arbitrary.                            *)
(***************************************************************************)
EXTENDS Integers, FiniteSets

CONSTANTS Offers,         \* ids of the offers that get published
          Members,        \* peers that observe offers and claim them
          Matching,       \* offers whose requirements the members meet
          MaxOffers,      \* swarm.queue.max_offers
          MaxRetries,     \* swarm.queue.max_retries
          Cancellable,    \* offers that the user may cancel
          MaxRestarts,    \* bound on daemon restarts
          PublishMayFail, \* whether PublishBroadcast may return an error
          CallsMayFail,   \* whether a call to a peer may be lost
          TaskFailover    \* mesh task_failover: one submitter call tries several peers

ASSUME QueueAssumption ==
    /\ IsFiniteSet(Offers)
    /\ Cancellable \subseteq Offers /\ Matching \subseteq Offers
    /\ MaxOffers \in Nat /\ MaxRetries \in Nat /\ MaxRestarts \in Nat
    /\ PublishMayFail \in BOOLEAN /\ CallsMayFail \in BOOLEAN /\ TaskFailover \in BOOLEAN

Active == {"open", "assigned"}
Ended == {"expired", "failed", "cancelled", "done", "dead_letter"}

\* One more attempt than the code should ever make, so that one too many shows.
MaxAttempt == MaxRetries + MaxRestarts + 1
Attempts == 0..MaxAttempt
NoTask == -1

VARIABLES
    status,     \* info.Status; "new" before Offer, "absent" when not in q.offers
    attempt,    \* info.Attempt
    retries,    \* to.retries
    taskID,     \* info.TaskID: the attempt whose task is assigned, or NoTask
    vetted,     \* claims onClaim has checked and not yet pushed
    claimsCh,   \* the buffered channel of claims
    claims,     \* to.claims
    resolved,   \* whether to.resolved is closed
    finished,   \* whether to.finished is closed
    cancelCh,   \* whether to.cancelCh is closed
    pc,         \* where the resolveOffer goroutine is
    cpc,        \* where CancelOffer is
    doomed,     \* the task CancelOffer read under the lock, or NoTask
    stored,     \* the offer file
    todo,       \* the loaded records redriveOffers has still to process
    phase,      \* of the daemon
    restarts,
    msgs,       \* broadcasts and claims ever sent
    incoming,   \* what each member has observed of each offer
    task,       \* the remote task of each attempt, at the last peer its call tried
    calls,      \* history: calls of the submitter, over all lives of the daemon
    strays,     \* history: attempts whose call left tasks at peers it moved on from
    late        \* history: submitter calls after cancelCh was closed, in this life

info == <<status, attempt, retries, taskID>>
channels == <<resolved, finished, cancelCh>>
queues == <<vetted, claimsCh, claims>>
daemon == <<todo, phase, restarts>>
remote == <<msgs, incoming, task>>
history == <<calls, strays, late>>
vars == <<info, queues, channels, pc, cpc, doomed, stored, daemon, remote, history>>

\* A claim's quote, load and score decide its rank only, so they are left out.
Claim == [from : Members, attempt : Attempts]
Record == [attempt : Attempts, retries : 0..MaxRetries]
TaskState == {"none", "running", "done", "failed", "cancelled"}
Msg == [kind : {"offer"}, offer : Offers, attempt : Attempts]
       \cup [kind : {"assign", "cancel"}, offer : Offers]
       \cup [kind : {"claim"}, offer : Offers, claim : Claim]

InfoTypeOK ==
    /\ status \in [Offers -> {"new", "absent"} \cup Active \cup Ended]
    /\ attempt \in [Offers -> Attempts]
    /\ retries \in [Offers -> 0..MaxRetries]
    /\ taskID \in [Offers -> Attempts \cup {NoTask}]

ClaimsTypeOK ==
    /\ vetted \in [Offers -> SUBSET Claim]
    /\ claimsCh \in [Offers -> SUBSET Claim]
    /\ \A o \in Offers : Cardinality(claimsCh[o]) <= MaxOffers
    /\ claims \in [Offers -> SUBSET Claim]

ResolverTypeOK ==
    /\ resolved \in [Offers -> BOOLEAN]
    /\ finished \in [Offers -> BOOLEAN]
    /\ cancelCh \in [Offers -> BOOLEAN]
    /\ pc \in [Offers -> {"none", "publish", "collect", "pick", "submitted",
                          "watch", "done", "failed", "reopen", "republish",
                          "dead", "redrive"}]
    /\ cpc \in [Offers -> {"idle", "signal", "finish"}]
    /\ doomed \in [Offers -> Attempts \cup {NoTask}]
    /\ calls \in [Offers -> Nat] /\ strays \in [Offers -> SUBSET Attempts]
    /\ late \in [Offers -> Nat]

DaemonTypeOK ==
    /\ DOMAIN stored \subseteq Offers
    /\ \A o \in DOMAIN stored : stored[o] \in Record
    /\ DOMAIN todo \subseteq Offers
    /\ \A o \in DOMAIN todo : todo[o] \in Record
    /\ phase \in {"up", "stopping", "down"}
    /\ restarts \in 0..MaxRestarts

RemoteTypeOK ==
    /\ msgs \subseteq Msg
    /\ incoming \in [Members -> [Offers -> [status : {"none", "observed", "assigned", "cancelled"},
                                            attempt : Attempts \cup {NoTask}]]]
    /\ task \in [Offers -> [Attempts -> TaskState]]

QueueTypeOK ==
    InfoTypeOK /\ ClaimsTypeOK /\ ResolverTypeOK /\ DaemonTypeOK /\ RemoteTypeOK

NotSeen == [status |-> "none", attempt |-> NoTask]

Init ==
    /\ status = [o \in Offers |-> "new"]
    /\ attempt = [o \in Offers |-> 0]
    /\ retries = [o \in Offers |-> 0]
    /\ taskID = [o \in Offers |-> NoTask]
    /\ vetted = [o \in Offers |-> {}]
    /\ claimsCh = [o \in Offers |-> {}]
    /\ claims = [o \in Offers |-> {}]
    /\ resolved = [o \in Offers |-> FALSE]
    /\ finished = [o \in Offers |-> FALSE]
    /\ cancelCh = [o \in Offers |-> FALSE]
    /\ pc = [o \in Offers |-> "none"]
    /\ cpc = [o \in Offers |-> "idle"]
    /\ doomed = [o \in Offers |-> NoTask]
    /\ stored = << >>
    /\ todo = << >>
    /\ phase = "up"
    /\ restarts = 0
    /\ msgs = {}
    /\ incoming = [m \in Members |-> [o \in Offers |-> NotSeen]]
    /\ task = [o \in Offers |-> [k \in Attempts |-> "none"]]
    /\ calls = [o \in Offers |-> 0]
    /\ strays = [o \in Offers |-> {}]
    /\ late = [o \in Offers |-> 0]

-----------------------------------------------------------------------------
\* Start has not returned: redriveOffers is still at work.
Starting == DOMAIN todo # {} \/ \E o \in Offers : pc[o] = "redrive"

Goto(o, label) == pc' = [pc EXCEPT ![o] = label]
SetStatus(o, st) == status' = [status EXCEPT ![o] = st]
Close(ch, o) == [ch EXCEPT ![o] = TRUE]
BroadcastOffer(o) ==
    msgs' = msgs \cup {[kind |-> "offer", offer |-> o, attempt |-> attempt[o]]}
Broadcast(kind, o) == msgs' = msgs \cup {[kind |-> kind, offer |-> o]}

\* Faulty variant: only offers without an assignee are saved.
SnapshotOpen(st, att, ret) ==
    [o \in {p \in Offers : st[p] = "open"} |->
        [attempt |-> att[o], retries |-> ret[o]]]

\* Every tracked offer that has not ended, as the file holds it.
Snapshot(st, att, ret) ==
    [o \in {p \in Offers : st[p] \in Active} |->
        [attempt |-> att[o], retries |-> ret[o]]]

\* persistLocked: the whole file is rewritten, under q.mu.
PersistLocked == stored' = Snapshot(status', attempt', retries')

\* The state is written, saved, and both channels closed: failOffer,
\* deadLetterOffer and the two expired branches.
EndOffer(o, st) ==
    /\ SetStatus(o, st)
    /\ UNCHANGED <<attempt, retries, taskID>>
    /\ PersistLocked
    /\ resolved' = Close(resolved, o)
    /\ finished' = Close(finished, o)
    /\ Goto(o, "none")
    /\ UNCHANGED <<queues, cancelCh, cpc, doomed, daemon, remote, history>>

activeOffers == Cardinality({o \in Offers : status[o] \in Active})

Room == activeOffers < MaxOffers

Offer(o) ==
    /\ phase = "up" /\ ~Starting
    /\ status[o] = "new"
    /\ Room
    /\ SetStatus(o, "open")
    /\ UNCHANGED <<attempt, retries, taskID>>
    /\ PersistLocked
    /\ Goto(o, "publish")
    /\ UNCHANGED <<queues, channels, cpc, doomed, daemon, remote, history>>

PublishOffer(o) ==
    /\ pc[o] = "publish"
    /\ BroadcastOffer(o)
    /\ Goto(o, "collect")
    /\ UNCHANGED <<info, queues, channels, cpc, doomed, stored, daemon,
                   incoming, task, history>>

PublishOfferFails(o) ==
    /\ PublishMayFail
    /\ pc[o] = "publish"
    /\ SetStatus(o, "failed")
    /\ UNCHANGED <<attempt, retries, taskID>>
    /\ PersistLocked
    /\ finished' = Close(finished, o)
    /\ Goto(o, "none")
    /\ UNCHANGED <<queues, resolved, cancelCh, cpc, doomed, daemon, remote, history>>

-----------------------------------------------------------------------------
(* The members.                                                            *)
onOffer(m, o, k) ==
    /\ [kind |-> "offer", offer |-> o, attempt |-> k] \in msgs
    /\ k > incoming[m][o].attempt
    /\ incoming' = [incoming EXCEPT ![m][o] =
                      [status |-> "observed", attempt |-> k]]
    /\ \/ /\ o \in Matching
          /\ msgs' = msgs \cup {[kind |-> "claim", offer |-> o,
                                 claim |-> [from |-> m, attempt |-> k]]}
       \/ UNCHANGED msgs          \* the evaluator or the matcher declines
    /\ UNCHANGED <<info, queues, channels, pc, cpc, doomed, stored, daemon,
                   task, history>>

onAssign(m, o) ==
    /\ [kind |-> "assign", offer |-> o] \in msgs
    /\ incoming[m][o].status # "none"
    /\ incoming' = [incoming EXCEPT ![m][o].status = "assigned"]
    /\ UNCHANGED <<info, queues, channels, pc, cpc, doomed, stored, daemon,
                   msgs, task, history>>

onCancel(m, o) ==
    /\ [kind |-> "cancel", offer |-> o] \in msgs
    /\ incoming[m][o].status \in {"observed", "assigned"}
    /\ incoming' = [incoming EXCEPT ![m][o].status = "cancelled"]
    /\ UNCHANGED <<info, queues, channels, pc, cpc, doomed, stored, daemon,
                   msgs, task, history>>

\* reapLocked on a member.  An entry that goes by age is older than its TTL, so
\* a later copy of the offer is dropped like a lost one; the cap on entries
\* (64 or more) is not reached here.
ReapIncoming(m, o) ==
    /\ incoming[m][o].status = "cancelled"
    /\ incoming' = [incoming EXCEPT ![m][o] = NotSeen]
    /\ UNCHANGED <<info, queues, channels, pc, cpc, doomed, stored, daemon,
                   msgs, task, history>>

-----------------------------------------------------------------------------
(* Claims reach the offerer.  onClaim checks under the lock and pushes     *)
(* after it.                                                               *)
onClaim(o, c) ==
    /\ phase # "down"
    /\ [kind |-> "claim", offer |-> o, claim |-> c] \in msgs
    /\ status[o] = "open"
    /\ c.attempt = attempt[o]
    /\ vetted' = [vetted EXCEPT ![o] = @ \cup {c}]
    /\ UNCHANGED <<info, claimsCh, claims, channels, pc, cpc, doomed, stored,
                   daemon, remote, history>>

PushClaim(o, c) ==
    /\ c \in vetted[o]
    /\ vetted' = [vetted EXCEPT ![o] = @ \ {c}]
    /\ claimsCh' = [claimsCh EXCEPT ![o] =
                      IF Cardinality(@) < MaxOffers THEN @ \cup {c} ELSE @]
    /\ UNCHANGED <<info, claims, channels, pc, cpc, doomed, stored,
                   daemon, remote, history>>

-----------------------------------------------------------------------------
(* resolveOffer.                                                           *)
\* Faulty variant: whatever is in the channel is taken.
KeepAny(o, cs) == cs

\* Claims for a superseded attempt are ignored.
Keep(o, cs) == {c \in cs : c.attempt = attempt[o]}

CollectClaim(o, c) ==
    /\ pc[o] = "collect"
    /\ c \in claimsCh[o]
    /\ claimsCh' = [claimsCh EXCEPT ![o] = @ \ {c}]
    /\ claims' = [claims EXCEPT ![o] = @ \cup Keep(o, {c})]
    /\ UNCHANGED <<info, vetted, channels, pc, cpc, doomed, stored, daemon,
                   remote, history>>

CollectStopped(o) ==
    /\ pc[o] = "collect"
    /\ phase = "stopping"
    /\ EndOffer(o, "failed")

CollectCancelled(o) ==
    /\ pc[o] = "collect"
    /\ cancelCh[o]
    /\ Goto(o, "none")
    /\ UNCHANGED <<info, queues, channels, cpc, doomed, stored, daemon, remote, history>>

\* The window timer wins the select; claims buffered so far are drained.
WindowCloses(o) ==
    /\ pc[o] = "collect"
    /\ claims' = [claims EXCEPT ![o] = @ \cup Keep(o, claimsCh[o])]
    /\ claimsCh' = [claimsCh EXCEPT ![o] = {}]
    /\ Goto(o, "pick")
    /\ UNCHANGED <<info, vetted, channels, cpc, doomed, stored, daemon, remote, history>>

\* What filterClaimsByPrice may leave: any quote may exceed max_price.
Eligible(o) == SUBSET claims[o]

Expire(o) ==
    /\ pc[o] = "pick"
    /\ {} \in Eligible(o)
    /\ EndOffer(o, "expired")

\* The best claim names no valid peer, or no submitter is wired.
RejectPick(o) ==
    /\ pc[o] = "pick"
    /\ \E left \in Eligible(o) : left # {}
    /\ EndOffer(o, "failed")

\* One call of the submitter, mesh.SubmitRemoteTaskWithPeer.  With task_failover
\* it goes on to further peers after a lost answer, and what the earlier ones
\* accepted runs there: nobody on this side knows those tasks or cancels them.
CallSubmitter(o) ==
    /\ pc[o] = "pick"
    /\ \E left \in Eligible(o) : left # {}
    /\ calls' = [calls EXCEPT ![o] = @ + 1]
    /\ late' = [late EXCEPT ![o] = IF cancelCh[o] THEN @ + 1 ELSE @]
    /\ \/ UNCHANGED strays
       \/ /\ TaskFailover /\ CallsMayFail
          /\ strays' = [strays EXCEPT ![o] = @ \cup {attempt[o]}]

Submit(o) ==
    /\ CallSubmitter(o)
    /\ task' = [task EXCEPT ![o][attempt[o]] = "running"]
    /\ Goto(o, "submitted")
    /\ UNCHANGED <<info, queues, channels, cpc, doomed, stored, daemon, msgs, incoming>>

\* The call fails at every peer it tries; the last may have accepted all the same.
SubmitFails(o) ==
    /\ CallsMayFail \/ phase = "stopping"
    /\ CallSubmitter(o)
    /\ \/ UNCHANGED task
       \/ task' = [task EXCEPT ![o][attempt[o]] = "running"]
    /\ Goto(o, "failed")
    /\ UNCHANGED <<info, queues, channels, cpc, doomed, stored, daemon, msgs, incoming>>

\* The daemon always wires a result fetcher, so the task is watched.
AfterAssign(o) == Goto(o, "watch") /\ UNCHANGED finished

Assign(o) ==
    /\ pc[o] = "submitted"
    /\ SetStatus(o, "assigned")
    /\ taskID' = [taskID EXCEPT ![o] = attempt[o]]
    /\ UNCHANGED <<attempt, retries>>
    /\ PersistLocked
    /\ resolved' = Close(resolved, o)
    /\ Broadcast("assign", o)
    /\ AfterAssign(o)
    /\ UNCHANGED <<queues, cancelCh, cpc, doomed, daemon, incoming, task, history>>

-----------------------------------------------------------------------------
(* watchAssignedOffer.                                                     *)
WatchStops(o) ==
    /\ pc[o] = "watch"
    /\ phase = "stopping" \/ cancelCh[o]
    /\ Goto(o, "none")
    /\ UNCHANGED <<info, queues, channels, cpc, doomed, stored, daemon, remote, history>>

\* A cancel request reaches the peer or is lost; a finished task ignores it.
CancelTask(o, k) ==
    \/ task' = [task EXCEPT ![o][k] = IF @ = "running" THEN "cancelled" ELSE @]
    \/ CallsMayFail /\ UNCHANGED task

\* Faulty variant: the deadline is looked at only once the task has ended.
StalledWhenEnded(o) == pc[o] = "watch" /\ task[o][attempt[o]] # "running"

\* The deadline may pass at any moment of the watch.
Stalled(o) == pc[o] = "watch"

WatchStalls(o) ==
    /\ Stalled(o)
    /\ CancelTask(o, attempt[o])
    /\ Goto(o, "failed")
    /\ UNCHANGED <<info, queues, channels, cpc, doomed, stored, daemon,
                   msgs, incoming, history>>

WatchPollFails(o) ==
    /\ CallsMayFail
    /\ pc[o] = "watch"
    /\ Goto(o, IF phase = "stopping" \/ cancelCh[o] THEN "none" ELSE "failed")
    /\ UNCHANGED <<info, queues, channels, cpc, doomed, stored, daemon, remote, history>>

WatchEnds(o) ==
    /\ pc[o] = "watch"
    /\ task[o][attempt[o]] \in {"done", "failed", "cancelled"}
    /\ Goto(o, IF task[o][attempt[o]] = "done" THEN "done" ELSE "failed")
    /\ UNCHANGED <<info, queues, channels, cpc, doomed, stored, daemon, remote, history>>

FinishDone(o) ==
    /\ pc[o] = "done"
    /\ EndOffer(o, "done")

-----------------------------------------------------------------------------
(* retryOffer: the cancel channel is read before the lock is taken.        *)
\* Faulty variant: the channel is not read.
RetryTargetUnchecked(o) == "reopen"

RetryTarget(o) == IF cancelCh[o] THEN "dead" ELSE "reopen"

CheckCancelled(o) ==
    /\ pc[o] = "failed"
    /\ Goto(o, RetryTarget(o))
    /\ UNCHANGED <<info, queues, channels, cpc, doomed, stored, daemon, remote, history>>

\* Faulty variant: the limit is off by one.
RetriesLeftLoose(o) == retries[o] <= MaxRetries

RetriesLeft(o) == retries[o] < MaxRetries

Reopen(o) ==
    /\ pc[o] = "reopen"
    /\ RetriesLeft(o)
    /\ retries' = [retries EXCEPT ![o] = @ + 1]
    /\ attempt' = [attempt EXCEPT ![o] = @ + 1]
    /\ SetStatus(o, "open")
    /\ taskID' = [taskID EXCEPT ![o] = NoTask]
    /\ claims' = [claims EXCEPT ![o] = {}]
    /\ PersistLocked
    /\ Goto(o, "republish")
    /\ UNCHANGED <<vetted, claimsCh, channels, cpc, doomed, daemon, remote, history>>

OutOfRetries(o) ==
    /\ pc[o] = "reopen"
    /\ ~RetriesLeft(o)
    /\ Goto(o, "dead")
    /\ UNCHANGED <<info, queues, channels, cpc, doomed, stored, daemon, remote, history>>

RepublishFailed(o) == Goto(o, "dead")

Republish(o) ==
    /\ pc[o] = "republish"
    /\ claimsCh' = [claimsCh EXCEPT ![o] = {}]
    /\ \/ BroadcastOffer(o) /\ Goto(o, "collect")
       \/ /\ PublishMayFail \/ phase = "stopping"
          /\ UNCHANGED msgs
          /\ RepublishFailed(o)
    /\ UNCHANGED <<info, vetted, claims, channels, cpc, doomed, stored, daemon,
                   incoming, task, history>>

DeadLetter(o) ==
    /\ pc[o] = "dead"
    /\ EndOffer(o, "dead_letter")

-----------------------------------------------------------------------------
(* CancelOffer, on a thread of its own.                                    *)
CancelBegin(o) ==
    /\ phase # "down" /\ o \in Cancellable
    /\ cpc[o] = "idle" /\ ~cancelCh[o]
    /\ status[o] \in Active
    /\ doomed' = [doomed EXCEPT ![o] =
                    IF status[o] = "assigned" THEN taskID[o] ELSE NoTask]
    /\ SetStatus(o, "cancelled")
    /\ UNCHANGED <<attempt, retries, taskID>>
    /\ PersistLocked
    /\ cpc' = [cpc EXCEPT ![o] = "signal"]
    /\ UNCHANGED <<queues, channels, pc, daemon, remote, history>>

CancelSignal(o) ==
    /\ cpc[o] = "signal"
    /\ cancelCh' = Close(cancelCh, o)
    /\ cpc' = [cpc EXCEPT ![o] = "finish"]
    /\ UNCHANGED <<info, queues, resolved, finished, pc, doomed, stored, daemon,
                   remote, history>>

CancelFinish(o) ==
    /\ cpc[o] = "finish"
    /\ IF doomed[o] = NoTask THEN UNCHANGED task ELSE CancelTask(o, doomed[o])
    /\ Broadcast("cancel", o)
    /\ resolved' = Close(resolved, o)
    /\ finished' = Close(finished, o)
    /\ cpc' = [cpc EXCEPT ![o] = "idle"]
    /\ doomed' = [doomed EXCEPT ![o] = NoTask]
    /\ UNCHANGED <<info, queues, cancelCh, pc, stored, daemon, incoming, history>>

\* reapLocked on the offerer: ended offers go after the retention period, which
\* is longer than the resolver or CancelOffer can still be at work.
Reap(o) ==
    /\ phase = "up"
    /\ status[o] \in Ended /\ finished[o]
    /\ pc[o] = "none" /\ cpc[o] = "idle"
    /\ SetStatus(o, "absent")
    /\ UNCHANGED <<attempt, retries, taskID, queues, channels, pc, cpc, doomed,
                   stored, daemon, remote, history>>

\* The remote peer runs the task to an end of its own.
TaskEnds(o, k) ==
    /\ task[o][k] = "running"
    /\ \E outcome \in {"done", "failed"} : task' = [task EXCEPT ![o][k] = outcome]
    /\ UNCHANGED <<info, queues, channels, pc, cpc, doomed, stored, daemon,
                   msgs, incoming, history>>

-----------------------------------------------------------------------------
(* The daemon stops, crashes and starts again.                             *)
Stop ==
    /\ phase = "up" /\ ~Starting /\ restarts < MaxRestarts
    /\ phase' = "stopping"
    /\ UNCHANGED <<info, queues, channels, pc, cpc, doomed, stored, todo,
                   restarts, remote, history>>

\* Nothing but the file and the other peers outlives the process.
Exit ==
    /\ phase' = "down"
    /\ status' = [o \in Offers |-> IF status[o] = "new" THEN "new" ELSE "absent"]
    /\ attempt' = [o \in Offers |-> 0]
    /\ retries' = [o \in Offers |-> 0]
    /\ taskID' = [o \in Offers |-> NoTask]
    /\ vetted' = [o \in Offers |-> {}]
    /\ claimsCh' = [o \in Offers |-> {}]
    /\ claims' = [o \in Offers |-> {}]
    /\ resolved' = [o \in Offers |-> FALSE]
    /\ finished' = [o \in Offers |-> FALSE]
    /\ cancelCh' = [o \in Offers |-> FALSE]
    /\ pc' = [o \in Offers |-> "none"]
    /\ cpc' = [o \in Offers |-> "idle"]
    /\ doomed' = [o \in Offers |-> NoTask]
    /\ todo' = << >>
    /\ late' = [o \in Offers |-> 0]
    /\ UNCHANGED <<stored, restarts, remote, calls, strays>>

StopReturns ==
    /\ phase = "stopping"
    /\ \A o \in Offers : pc[o] = "none"
    /\ Exit

Crash ==
    /\ phase # "down" /\ restarts < MaxRestarts
    /\ Exit

\* Save leaves out ended offers, so every record in the file is loaded.
Load == stored

Start ==
    /\ phase = "down"
    /\ phase' = "up"
    /\ restarts' = restarts + 1
    /\ todo' = Load
    /\ UNCHANGED <<info, queues, channels, pc, cpc, doomed, stored, remote, history>>

\* redriveOffers takes the loaded records one at a time.
TakeRecord(o) ==
    /\ o \in DOMAIN todo
    /\ \A p \in Offers : pc[p] # "redrive"
    /\ todo' = [p \in DOMAIN todo \ {o} |-> todo[p]]
    /\ retries' = [retries EXCEPT ![o] = todo[o].retries]
    /\ taskID' = [taskID EXCEPT ![o] = NoTask]
    /\ UNCHANGED <<phase, restarts, queues, cancelCh, cpc, doomed, remote, history>>

RedriveExpired(o) ==
    /\ TakeRecord(o)
    /\ SetStatus(o, "expired")
    /\ attempt' = [attempt EXCEPT ![o] = todo[o].attempt]
    /\ PersistLocked
    /\ resolved' = Close(resolved, o)
    /\ finished' = Close(finished, o)
    /\ UNCHANGED pc

\* Faulty variant: the attempt is not bumped, so members drop the re-offer.
RedriveAttemptSame(o) == todo[o].attempt

RedriveAttempt(o) == todo[o].attempt + 1

RedriveOpen(o) ==
    /\ TakeRecord(o)
    /\ SetStatus(o, "open")
    /\ attempt' = [attempt EXCEPT ![o] = RedriveAttempt(o)]
    /\ PersistLocked
    /\ Goto(o, "redrive")
    /\ UNCHANGED <<resolved, finished>>

RedriveNoResolver(o) == Goto(o, "none")   \* faulty: no goroutine is started

RedriveResolver(o) == Goto(o, "collect")

RedrivePublish(o) ==
    /\ pc[o] = "redrive"
    /\ \/ BroadcastOffer(o) /\ RedriveResolver(o)
       \/ PublishMayFail /\ UNCHANGED msgs /\ Goto(o, "none")
    /\ UNCHANGED <<info, queues, channels, cpc, doomed, stored, daemon,
                   incoming, task, history>>

-----------------------------------------------------------------------------
ResolverRuns(o) ==
    \/ PublishOffer(o) \/ PublishOfferFails(o)
    \/ \E c \in Claim : CollectClaim(o, c)
    \/ CollectStopped(o) \/ CollectCancelled(o) \/ WindowCloses(o)
    \/ Expire(o) \/ RejectPick(o) \/ Submit(o) \/ SubmitFails(o) \/ Assign(o)
    \/ WatchStops(o) \/ WatchStalls(o) \/ WatchEnds(o)
    \/ FinishDone(o)
    \/ CheckCancelled(o) \/ Reopen(o) \/ OutOfRetries(o) \/ Republish(o)
    \/ DeadLetter(o)

Resolver(o) == ResolverRuns(o) \/ WatchPollFails(o)

Canceller(o) == CancelSignal(o) \/ CancelFinish(o)

MemberStep(m, o) ==
    \/ \E k \in Attempts : onOffer(m, o, k)
    \/ onAssign(m, o) \/ onCancel(m, o) \/ ReapIncoming(m, o)

Redrive(o) == RedriveExpired(o) \/ RedriveOpen(o) \/ RedrivePublish(o)

Next ==
    \/ \E o \in Offers :
          \/ Offer(o) \/ Resolver(o) \/ CancelBegin(o) \/ Canceller(o) \/ Reap(o)
          \/ \E c \in Claim : onClaim(o, c) \/ PushClaim(o, c)
          \/ \E k \in Attempts : TaskEnds(o, k)
          \/ \E m \in Members : MemberStep(m, o)
          \/ Redrive(o)
    \/ Stop \/ StopReturns \/ Crash \/ Start

Spec == Init /\ [][Next]_vars

(* Goroutines that can run do: the window and the stall timer fire, calls  *)
(* return, redriveOffers goes through its list.  Nothing is assumed of the *)
(* network, the members, the remote task or the user; a poll need not fail.*)
Fairness ==
    /\ WF_vars(StopReturns)
    /\ \A o \in Offers :
          /\ WF_vars(ResolverRuns(o)) /\ WF_vars(Canceller(o)) /\ WF_vars(Redrive(o))
          /\ WF_vars(WindowCloses(o)) /\ WF_vars(WatchStalls(o))

FairSpec == Spec /\ Fairness

\* A daemon that went down is started again.
RestartSpec == FairSpec /\ WF_vars(Start)

-----------------------------------------------------------------------------
(* A claim that answered an earlier attempt never competes for a later one,*)
(* although onClaim pushes it after it has let the lock go.                *)
ClaimsAreCurrent ==
    \A o \in Offers : \A c \in claims[o] : c.attempt = attempt[o]

(* The submitter is called once per attempt and the offer dead-lettered in *)
(* the end: retries, lost answers, crashes and restarts together never make*)
(* more than 1 + max_retries calls, and one more for each restart.  How    *)
(* many peers one call leaves a task at is the mesh's affair.              *)
SubmissionsBounded ==
    \A o \in Offers : calls[o] <= MaxRetries + 1 + restarts

(* Every offer and re-offer goes out under an attempt that was never       *)
(* broadcast before, over retries and restarts: members that saw the       *)
(* earlier one take it for new.                                            *)
ReofferIsFresh ==
    [][\A o \in Offers :
          pc[o] # "collect" /\ pc'[o] = "collect" =>
              [kind |-> "offer", offer |-> o, attempt |-> attempt[o]] \notin msgs]_vars

(* When CancelOffer has returned and the resolver is gone, no task of the  *)
(* offer is left running.                                                  *)
CancelledWorkStops ==
    \A o \in Offers :
        cancelCh[o] /\ cpc[o] = "idle" /\ pc[o] = "none"
            => \A k \in Attempts : task[o][k] # "running"

(* However CancelOffer and the resolver interleave, the submitter is called*)
(* at most once after the cancel channel has been closed, in one life of   *)
(* the daemon: the channel does not outlive it.                            *)
CancelAdmitsOneSubmit == \A o \in Offers : late[o] <= 1

(* A record leaves the offer file only when its offer has ended, in a save *)
(* at work, at a stop, in a crash or at a start.  (While redriveOffers has *)
(* records left, a save drops those it has not reached.)                   *)
StoreKeepsInFlight ==
    [][\A o \in DOMAIN stored \ DOMAIN todo :
          o \in DOMAIN stored' \/ status'[o] \in Ended]_vars

(* Every offer the daemon drives is finished in the end, unless the daemon *)
(* goes down first: "offer --wait" and RunGoal, which wait on finished, go *)
(* on and find an ended offer, or one that a cancel has overtaken.         *)
OffersFinish ==
    \A o \in Offers :
        (status[o] \in Active)
            ~> \/ finished[o] /\ (status[o] \in Ended \cup {"absent"} \/ cancelCh[o])
               \/ phase = "down"

(* What was in flight when the daemon went down is brought to an end once  *)
(* it is up again.                                                         *)
RedrivenOffersFinish ==
    \A o \in Offers :
        (phase = "down" /\ o \in DOMAIN stored) ~> finished[o]
=============================================================================
