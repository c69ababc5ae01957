------------------------------- MODULE MeshTasks -------------------------------
(***************************************************************************)
(* Remote tasks of the mesh: a caller submits a task to a serving peer,    *)
(* retries, fails over, polls for the result and books what it owes; the   *)
(* peer admits, runs, stores and bills it.                                 *)
(*   serving side  pkg/rhizome/mesh/task.go over the TaskStore of          *)
(*                 pkg/rhizome/mesh/taskstore.go                           *)
(*   calling side  SubmitRemoteTaskWithPeer and pollRemoteTask of task.go  *)
(* A call stands for its correlation id, a task id is its index in tasks,  *)
(* which is also its age.  All calls are billed; a charge is the fact that *)
(* there is one.  What a node keeps in memory is lost when it restarts,    *)
(* the ledgers and the task file are not.                                  *)
(***************************************************************************)
EXTENDS Integers, Sequences, FiniteSets, SequencesExt

CONSTANTS
    Peers,          \* peers that advertise the agent
    Calls,          \* logical calls, each with its correlation id
    Nobody,         \* no peer
    MaxStored,      \* maxStoredTasks
    MaxActive,      \* mesh.max_concurrent_tasks
    MaxAttempts,    \* mesh.task_retries
    MaxFailures,    \* maxConsecutiveFailures of pollRemoteTask
    MaxTasks,       \* bound: tasks created
    MaxRestarts,    \* bound: restarts of serving nodes
    Persistent,     \* peers whose task store has a path
    WritesMayFail   \* may a ledger write fail?

ASSUME TasksAssumptions ==
    /\ IsFiniteSet(Peers) /\ IsFiniteSet(Calls) /\ Nobody \notin Peers
    /\ MaxStored \in Nat \ {0} /\ MaxActive \in Nat \ {0}
    /\ MaxAttempts \in Nat \ {0} /\ MaxFailures \in Nat \ {0}
    /\ MaxTasks \in Nat /\ MaxRestarts \in Nat
    /\ Persistent \subseteq Peers /\ WritesMayFail \in BOOLEAN

VARIABLES
    tasks,        \* every task created, with its store record and goroutine
    stopped,      \* serving nodes that are shutting down
    dirty,        \* nodes whose save timer is set
    writing,      \* node -> snapshots that a save has taken and not renamed yet
    disk,         \* node -> the task file: task id -> [status, charge]
    receivable,   \* ledger rows of the serving nodes, oldest first
    payable,      \* ledger rows of the caller, oldest first
    byHand,       \* history: tasks that a fetch by task id has booked
    calls,        \* what each call of the caller is doing
    requests,     \* submit requests at the peers
    cancels,      \* cancel requests under way: the tasks they name
    restarts

vars == <<tasks, stopped, dirty, writing, disk, receivable, payable, byHand,
          calls, requests, cancels, restarts>>

file    == <<writing, disk>>
ledgers == <<receivable, payable, byHand>>

(***************************************************************************)
(* The task store of a node.                                               *)
(***************************************************************************)
Status == {"accepted", "running", "done", "error", "cancelled"}

Terminal(status) == status \in {"done", "error", "cancelled"}

TaskIds     == DOMAIN tasks
StoredAt(p) == { t \in TaskIds : tasks[t].at = p /\ tasks[t].stored }
ActiveAt(p) == { t \in StoredAt(p) : ~Terminal(tasks[t].status) }
EndedAt(p)  == StoredAt(p) \ ActiveAt(p)

\* getByCorr: the stored task of a call.
ByCorr(p, c) == { t \in StoredAt(p) : tasks[t].call = c }

\* done is the channel that waiters block on, run is where runMeshTask is.
NewTask(p, c) ==
    [at |-> p, call |-> c, status |-> "accepted", stored |-> TRUE,
     charge |-> FALSE, done |-> "open", run |-> "spawned"]

\* A task turned terminal from outside its goroutine: its waiters are woken,
\* its run is told to stop if Start has registered its cancelFunc.
Aborted(t, status) == [tasks[t] EXCEPT !.status = status, !.done = "closed"]

\* evictLocked, once for every Submit: terminal tasks past their TTL go, then
\* terminal ones (which of them is a matter of their times) until there is
\* room, and the oldest task if none is terminal.
Evictions(p) ==
    IF EndedAt(p) = {} /\ Cardinality(StoredAt(p)) >= MaxStored
    THEN { {CHOOSE t \in StoredAt(p) : \A u \in StoredAt(p) : t <= u} }
    ELSE { gone \in SUBSET EndedAt(p) : Cardinality(StoredAt(p) \ gone) < MaxStored }

Dropped(t) == [(IF Terminal(tasks[t].status) THEN tasks[t] ELSE Aborted(t, "error"))
                  EXCEPT !.stored = FALSE]

\* scheduleSave (re)arms the save timer of a store that has a path.
ScheduleSave(p) == dirty' = IF p \in Persistent THEN dirty \cup {p} ELSE dirty

Snapshot(p) == [t \in StoredAt(p) |->
                   [status |-> tasks[t].status, charge |-> tasks[t].charge]]

\* The save timer fires: save takes its snapshot under the lock ...
SaveTimer(p) ==
    /\ p \in dirty
    /\ dirty' = dirty \ {p}
    /\ writing' = [writing EXCEPT ![p] = @ \cup {Snapshot(p)}]
    /\ UNCHANGED <<tasks, stopped, disk, ledgers, calls, requests, cancels, restarts>>

\* ... and renames the file it wrote over the task file, outside of it.
SaveRename(p, snap) ==
    /\ writing' = [writing EXCEPT ![p] = @ \ {snap}]
    /\ \/ disk' = [disk EXCEPT ![p] = snap]
       \/ UNCHANGED disk              \* saveErr
    /\ UNCHANGED <<tasks, stopped, dirty, ledgers, calls, requests, cancels, restarts>>

Init ==
    /\ tasks = <<>> /\ receivable = <<>> /\ payable = <<>> /\ byHand = {}
    /\ stopped = {} /\ dirty = {}
    /\ writing = [p \in Peers |-> {}]
    /\ disk = [p \in Peers |-> <<>>]
    /\ calls = [c \in Calls |-> [pc |-> "idle", peer |-> Nobody, tried |-> {},
                                 attempt |-> 0, task |-> 0, failures |-> 0]]
    /\ requests = {} /\ cancels = {} /\ restarts = 0

(***************************************************************************)
(* The caller.  pc is "submit" while a request is out, "next" between two  *)
(* attempts, "poll" once a peer has accepted, "ended" when the call has    *)
(* returned.                                                               *)
(***************************************************************************)
Ended(c) == calls[c].pc = "ended"

\* SubmitRemoteTaskWithPeer takes the next candidate: the preferred peer or,
\* with failover, the next-best one.
NextCandidate(c, p) ==
    /\ \/ calls[c].pc = "idle"
       \/ calls[c].pc = "next" /\ calls[c].attempt = MaxAttempts
    /\ p \notin calls[c].tried
    /\ calls' = [calls EXCEPT ![c].pc = "next", ![c].peer = p, ![c].attempt = 0,
                              ![c].tried = @ \cup {p}]
    /\ UNCHANGED <<tasks, stopped, dirty, file, ledgers, requests, cancels, restarts>>

\* All capable peers failed, or failover is off.
NoCandidateLeft(c) ==
    /\ calls[c].pc = "next" /\ calls[c].attempt = MaxAttempts
    /\ calls' = [calls EXCEPT ![c].pc = "ended"]
    /\ UNCHANGED <<tasks, stopped, dirty, file, ledgers, requests, cancels, restarts>>

\* submitRemoteTask: every attempt carries the call's correlation id.
SubmitRemoteTask(c) ==
    /\ calls[c].pc = "next" /\ calls[c].attempt < MaxAttempts
    /\ calls' = [calls EXCEPT ![c].pc = "submit", ![c].attempt = @ + 1]
    /\ requests' = requests \cup
           {[call |-> c, peer |-> calls[c].peer, attempt |-> calls[c].attempt + 1,
             pc |-> "received", waits |-> TRUE]}
    /\ UNCHANGED <<tasks, stopped, dirty, file, ledgers, cancels, restarts>>

\* Transport error, timeout or a rejection worth retrying (rate limit, closed
\* store): the peer never saw the request, or it still works on it, or its
\* answer is lost.
SubmitFails(c) ==
    /\ calls[c].pc = "submit"
    /\ calls' = [calls EXCEPT ![c].pc = "next"]
    /\ LET mine == { r \in requests : r.call = c /\ r.waits }
       IN  \/ requests' = requests \ mine
           \/ requests' = (requests \ mine) \cup { [r EXCEPT !.waits = FALSE] : r \in mine }
    /\ UNCHANGED <<tasks, stopped, dirty, file, ledgers, cancels, restarts>>

\* The answer to a submit, if somebody still waits for it: a task id, or a
\* rejection, after which the peer is not tried again.
Answer(r, task) ==
    calls' = IF ~r.waits THEN calls
             ELSE IF task # 0
             THEN [calls EXCEPT ![r.call].pc = "poll", ![r.call].task = task]
             ELSE [calls EXCEPT ![r.call].pc = "next", ![r.call].attempt = MaxAttempts]

\* Variant: every fetch of a result accrues a row.
RecordAgain(rows, t) == Append(rows, t)

\* Ledger.Record: the row of a task is written once.
Record(rows, t) == IF Contains(rows, t) THEN rows ELSE Append(rows, t)

\* What RemoteTaskResult books: the charge of a finished task, if it verifies
\* against the cached advert.
Books(t) ==
    \/ payable' = IF tasks[t].status = "done" /\ tasks[t].charge
                  THEN Record(payable, t) ELSE payable
    \/ WritesMayFail /\ UNCHANGED payable

\* pollRemoteTask gets an answer: a running task is polled again, any other
\* status ends the call.
PollAnswered(c) ==
    /\ calls[c].pc = "poll"
    /\ LET t == calls[c].task
           found == tasks[t].stored
       IN  /\ calls[c].peer \notin stopped
           /\ IF found /\ ~Terminal(tasks[t].status)
              THEN /\ calls' = [calls EXCEPT ![c].failures = 0]
                   /\ UNCHANGED payable
              ELSE /\ calls' = [calls EXCEPT ![c].pc = "ended"]
                   /\ IF found THEN Books(t) ELSE UNCHANGED payable
    /\ UNCHANGED <<tasks, stopped, dirty, file, receivable, byHand, requests, cancels,
                   restarts>>

\* Variant: one failure too many.
PollFailsOnceMore(c) ==
    /\ calls[c].pc = "poll"
    /\ calls' = [calls EXCEPT ![c].failures = @ + 1,
                     ![c].pc = IF calls[c].failures >= MaxFailures THEN "ended" ELSE @]
    /\ UNCHANGED <<tasks, stopped, dirty, file, ledgers, requests, cancels, restarts>>

\* Variant: failures are not counted.
PollFailsUncounted(c) == calls[c].pc = "poll" /\ UNCHANGED vars

\* A poll fails; after maxConsecutiveFailures the call gives up.
PollFails(c) ==
    /\ calls[c].pc = "poll"
    /\ calls' = [calls EXCEPT ![c].failures = @ + 1,
                     ![c].pc = IF calls[c].failures + 1 >= MaxFailures THEN "ended" ELSE @]
    /\ UNCHANGED <<tasks, stopped, dirty, file, ledgers, requests, cancels, restarts>>

\* The caller's context ends: a submit is given up, a polled task is
\* cancelled on a best-effort basis.
CallerCancelled(c) ==
    /\ calls[c].pc \in {"submit", "next", "poll"}
    /\ calls' = [calls EXCEPT ![c].pc = "ended"]
    /\ requests' = { [r EXCEPT !.waits = @ /\ r.call # c] : r \in requests }
    /\ cancels' = IF calls[c].pc = "poll" THEN cancels \cup {calls[c].task} ELSE cancels
    /\ UNCHANGED <<tasks, stopped, dirty, file, ledgers, restarts>>

\* RemoteTaskResult by task id (gateway API, `network task result`), at any
\* moment and for any task of the owner, one that no call polls included.
Refetch(t) ==
    /\ tasks[t].stored /\ tasks[t].at \notin stopped
    /\ Books(t)
    /\ byHand' = byHand \cup (ToSet(payable') \ ToSet(payable))
    /\ UNCHANGED <<tasks, stopped, dirty, file, receivable, calls, requests, cancels, restarts>>

(***************************************************************************)
(* handleTaskSubmit.  The look-up by correlation id, the capacity check    *)
(* and the store's Submit each take the store's lock on their own.         *)
(***************************************************************************)
AdmitSubmit(r) ==
    /\ r.pc = "received"
    /\ ByCorr(r.peer, r.call) # {} \/ Cardinality(ActiveAt(r.peer)) < MaxActive
    /\ requests' = (requests \ {r}) \cup {[r EXCEPT !.pc = "admitted"]}
    /\ UNCHANGED <<tasks, stopped, dirty, file, ledgers, calls, cancels, restarts>>

\* At capacity, forbidden, or on other terms than the peer's price sheet.
RejectSubmit(r) ==
    /\ r.pc = "received"
    /\ requests' = requests \ {r}
    /\ Answer(r, 0)
    /\ UNCHANGED <<tasks, stopped, dirty, file, ledgers, cancels, restarts>>

\* TaskStore.Submit: an idempotent resubmit reports the task that is there.
SubmitAgain(r) ==
    /\ r.pc = "admitted" /\ ByCorr(r.peer, r.call) # {}
    /\ requests' = requests \ {r}
    /\ \E t \in ByCorr(r.peer, r.call) : Answer(r, t)
    /\ UNCHANGED <<tasks, stopped, dirty, file, ledgers, cancels, restarts>>

\* A new task: eviction, registration, and the goroutine that will run it.
CreateTask(r) ==
    /\ Len(tasks) < MaxTasks
    /\ \E gone \in Evictions(r.peer) :
           tasks' = Append([t \in TaskIds |-> IF t \in gone THEN Dropped(t) ELSE tasks[t]],
                           NewTask(r.peer, r.call))
    /\ ScheduleSave(r.peer)
    /\ requests' = requests \ {r}
    /\ Answer(r, Len(tasks) + 1)
    /\ UNCHANGED <<stopped, file, ledgers, cancels, restarts>>

\* Variant: Submit trusts the handler's look-up.
SubmitNewUnchecked(r) == r.pc = "admitted" /\ CreateTask(r)

SubmitNew(r) ==
    /\ r.pc = "admitted" /\ ByCorr(r.peer, r.call) = {}
    /\ CreateTask(r)

(***************************************************************************)
(* runMeshTask, and what can happen to a task from outside.                *)
(***************************************************************************)
Set(t, task) == tasks' = [tasks EXCEPT ![t] = task]

\* Start: an accepted task is running.  A task that was cancelled or evicted
\* before is run all the same.
Start(t) ==
    /\ tasks[t].run = "spawned"
    /\ IF tasks[t].stored /\ tasks[t].status = "accepted"
       THEN /\ Set(t, [tasks[t] EXCEPT !.run = "running", !.status = "running"])
            /\ ScheduleSave(tasks[t].at)
       ELSE Set(t, [tasks[t] EXCEPT !.run = "running"]) /\ UNCHANGED dirty
    /\ UNCHANGED <<stopped, file, ledgers, calls, requests, cancels, restarts>>

\* Variant: the last writer wins.
FinishAnyway(t, ok) ==
    /\ tasks[t].run = "running"
    /\ Set(t, [tasks[t] EXCEPT !.run = IF ok THEN "charging" ELSE "over",
                               !.status = IF ok THEN "done" ELSE "error",
                               !.charge = ok, !.done = "closed"])
    /\ ScheduleSave(tasks[t].at)
    /\ UNCHANGED <<stopped, file, ledgers, calls, requests, cancels, restarts>>

\* The agent's run returns: it may fail, and it may succeed even after Cancel
\* or Stop told it to stop.  Finish: the first terminal status stays; the
\* charge goes with a success.
Finish(t, ok) ==
    /\ tasks[t].run = "running"
    /\ LET past == [tasks[t] EXCEPT !.run = IF ok THEN "charging" ELSE "over"]
       IN  IF tasks[t].stored /\ ~Terminal(tasks[t].status)
           THEN /\ Set(t, [past EXCEPT !.status = IF ok THEN "done" ELSE "error",
                                       !.charge = ok, !.done = "closed"])
                /\ ScheduleSave(tasks[t].at)
           ELSE Set(t, past) /\ UNCHANGED dirty
    /\ UNCHANGED <<stopped, file, ledgers, calls, requests, cancels, restarts>>

\* Variant: only what the store shows as done is billed, and only if it is
\* still there.
BookStored(t) ==
    /\ tasks[t].run = "charging"
    /\ receivable' = IF tasks[t].stored THEN Record(receivable, t) ELSE receivable
    /\ Set(t, [tasks[t] EXCEPT !.run = "over"])
    /\ UNCHANGED <<stopped, dirty, file, payable, byHand, calls, requests, cancels,
                   restarts>>

\* recordEconCharge for the serving node: after Finish, whatever Finish did.
BookReceivable(t) ==
    /\ tasks[t].run = "charging"
    /\ \/ receivable' = Record(receivable, t)
       \/ WritesMayFail /\ UNCHANGED receivable
    /\ Set(t, [tasks[t] EXCEPT !.run = "over"])
    /\ UNCHANGED <<stopped, dirty, file, payable, byHand, calls, requests, cancels,
                   restarts>>

\* handleTaskCancel for a request of the owner.
Cancel(t) ==
    /\ cancels' = cancels \ {t}
    /\ IF tasks[t].stored /\ ~Terminal(tasks[t].status) /\ tasks[t].at \notin stopped
       THEN Set(t, Aborted(t, "cancelled")) /\ ScheduleSave(tasks[t].at)
       ELSE UNCHANGED <<tasks, dirty>>
    /\ UNCHANGED <<stopped, file, ledgers, calls, requests, restarts>>

(***************************************************************************)
(* Mesh.Stop and restarts.                                                 *)
(***************************************************************************)
\* Stop cancels the context of every run, turns new requests away, and Close
\* cancels the tasks and flushes the store; then it waits for the runs.
Stop(p) ==
    /\ p \notin stopped /\ restarts < MaxRestarts
    /\ stopped' = stopped \cup {p}
    /\ tasks' = [t \in TaskIds |->
           IF t \in ActiveAt(p) THEN Aborted(t, "cancelled") ELSE tasks[t]]
    /\ dirty' = dirty \ {p}
    /\ disk' = IF p \notin Persistent THEN disk
               ELSE [disk EXCEPT ![p] = [t \in StoredAt(p) |->
                        [status |-> tasks'[t].status, charge |-> tasks[t].charge]]]
    /\ requests' = { r \in requests : r.peer # p }
    /\ UNCHANGED <<writing, ledgers, calls, cancels, restarts>>

\* Variant: nothing that ran before the restart counts as finished.
LoadedAsFailed(t, rec) ==
    [tasks[t] EXCEPT !.status = "error", !.charge = rec.charge,
                     !.stored = TRUE, !.done = "closed", !.run = "over"]

\* Load reads the task file; a task that was not finished is marked failed.
Loaded(t, rec) ==
    [tasks[t] EXCEPT !.status = IF Terminal(rec.status) THEN rec.status ELSE "error",
                     !.charge = rec.charge, !.stored = TRUE,
                     !.done = "closed", !.run = "over"]

\* The process is gone, after a Stop or in a crash, and comes back.
Restart(p) ==
    /\ restarts < MaxRestarts
    /\ restarts' = restarts + 1
    /\ tasks' = [t \in TaskIds |->
           IF tasks[t].at # p THEN tasks[t]
           ELSE IF t \in DOMAIN disk[p] THEN Loaded(t, disk[p][t])
           ELSE [tasks[t] EXCEPT !.stored = FALSE, !.run = "over"]]
    /\ stopped' = stopped \ {p} /\ dirty' = dirty \ {p}
    /\ writing' = [writing EXCEPT ![p] = {}]
    /\ requests' = { r \in requests : r.peer # p }
    /\ UNCHANGED <<disk, ledgers, calls, cancels>>

(***************************************************************************)
(* The specification                                                       *)
(***************************************************************************)
CallStep(c) ==
    \/ \E p \in Peers : NextCandidate(c, p)
    \/ NoCandidateLeft(c) \/ SubmitRemoteTask(c) \/ SubmitFails(c)
    \/ PollAnswered(c) \/ PollFails(c) \/ CallerCancelled(c)

HandlerStep(r) == AdmitSubmit(r) \/ RejectSubmit(r) \/ SubmitAgain(r) \/ SubmitNew(r)

RunStep(t) ==
    Start(t) \/ BookReceivable(t) \/ \E ok \in BOOLEAN : Finish(t, ok)

Next ==
    \/ \E c \in Calls : CallStep(c)
    \/ \E r \in requests : HandlerStep(r)
    \/ \E t \in TaskIds : RunStep(t) \/ Refetch(t)
    \/ \E t \in cancels : Cancel(t)
    \/ \E p \in Peers : Stop(p) \/ Restart(p) \/ SaveTimer(p)
    \/ \E p \in Peers : \E snap \in writing[p] : SaveRename(p, snap)

\* Calls have timeouts, so a submit and a poll are answered or fail; the
\* caller's loops go on by themselves; a run ends by its own timeout.  Nothing
\* is assumed of handlers, cancel requests, saves and restarts.
Fairness ==
    /\ \A c \in Calls :
           /\ WF_vars(\E p \in Peers : NextCandidate(c, p))
           /\ WF_vars(NoCandidateLeft(c) \/ SubmitRemoteTask(c) \/ SubmitFails(c))
           /\ WF_vars(PollAnswered(c) \/ PollFails(c))
    /\ \A t \in 1..MaxTasks : WF_vars(t \in TaskIds /\ RunStep(t))

Spec == Init /\ [][Next]_vars

FairSpec == Spec /\ Fairness

(***************************************************************************)
(* Properties                                                              *)
(***************************************************************************)
TaskType ==
    [at : Peers, call : Calls, status : Status, stored : BOOLEAN,
     charge : BOOLEAN, done : {"open", "closed"},
     run : {"spawned", "running", "charging", "over"}]

TasksTypeOK ==
    /\ tasks \in Seq(TaskType) /\ Len(tasks) <= MaxTasks
    /\ \A p \in Peers : Cardinality(StoredAt(p)) <= MaxStored
    /\ stopped \subseteq Peers /\ dirty \subseteq Peers
    /\ \A p \in Peers : \A snap \in writing[p] \cup {disk[p]} :
           /\ DOMAIN snap \subseteq TaskIds
           /\ \A t \in DOMAIN snap : snap[t] \in [status : Status, charge : BOOLEAN]
    /\ receivable \in Seq(TaskIds) /\ payable \in Seq(TaskIds) /\ byHand \subseteq TaskIds
    /\ calls \in [Calls -> [pc : {"idle", "next", "submit", "poll", "ended"},
                             peer : Peers \cup {Nobody}, tried : SUBSET Peers,
                             attempt : 0..MaxAttempts, task : 0..Len(tasks),
                             failures : 0..MaxFailures]]
    /\ requests \subseteq [call : Calls, peer : Peers, attempt : 1..MaxAttempts,
                           pc : {"received", "admitted"}, waits : BOOLEAN]
    /\ cancels \subseteq TaskIds /\ restarts \in 0..MaxRestarts

\* Submit is idempotent: however often a call is retried and however its
\* handlers interleave, a peer stores one task for it, and an accepted call
\* polls a task of its own.
OneTaskPerCall ==
    /\ \A p \in Peers, c \in Calls : Cardinality(ByCorr(p, c)) <= 1
    /\ \A c \in Calls : calls[c].pc = "poll" =>
           tasks[calls[c].task].call = c /\ tasks[calls[c].task].at = calls[c].peer

\* A charge is booked once on either side, however often its result is polled
\* or fetched by id, and a call by itself books one task at most, however many
\* peers ran it and although a peer that lost its store may have run it twice.
\* The further tasks of a call are booked only by a fetch that names them.
BookedOnce ==
    /\ IsInjective(payable) /\ IsInjective(receivable)
    /\ \A c \in Calls :
           Cardinality({ t \in ToSet(payable) \ byHand : tasks[t].call = c }) <= 1

\* No file contradicts what an owner has been told: a task that the task file,
\* or a file that a save is still writing, calls finished has that status and
\* that charge, whichever of the saves under way renames last and across
\* restarts.  It does not say that a saved result survives: an older file
\* renamed over a newer one forgets what it does not have.
SavedResultsHold ==
    \A p \in Peers : \A snap \in writing[p] \cup {disk[p]} : \A t \in DOMAIN snap :
        Terminal(snap[t].status) /\ tasks[t].stored =>
            /\ tasks[t].status = snap[t].status
            /\ tasks[t].charge = snap[t].charge

\* Both sides book the same charge: a row of the caller has its row at the
\* peer, or the peer is about to write it.
BothSidesBook ==
    \A t \in ToSet(payable) :
        tasks[t].run = "charging" \/ Contains(receivable, t)

\* The status an owner can read is final once it is terminal, until the node
\* restarts; what was refused, cancelled or evicted is never reported done.
\* Finish closes the done channel without a test, and a second close is a
\* panic: a task that Finish would still finish has its channel open.
TerminalIsFinal ==
    [][ \A t \in TaskIds :
            /\ Terminal(tasks[t].status) /\ restarts' = restarts =>
                   tasks'[t].status = tasks[t].status
            /\ tasks[t].stored /\ ~Terminal(tasks[t].status) =>
                   tasks[t].done = "open" ]_vars

\* Every call returns, whatever the peers, the network and the runs do, and
\* every task a peer accepted gets a terminal status or is gone.
CallsEnd ==
    /\ \A c \in Calls : (calls[c].pc # "idle") ~> Ended(c)
    /\ \A t \in 1..MaxTasks :
           (t \in TaskIds) ~>
               (t \in TaskIds /\ (Terminal(tasks[t].status) \/ ~tasks[t].stored))
===============================================================================
