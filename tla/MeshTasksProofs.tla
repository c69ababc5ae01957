---------------------------- MODULE MeshTasksProofs ----------------------------
(***************************************************************************)
(* Proofs about remote tasks, for every set of peers and calls, any store  *)
(* size, any number of retries, tasks and restarts, with and without task  *)
(* files and failing ledger writes.                                        *)
(***************************************************************************)
EXTENDS MeshTasks, TLAPS, FiniteSetTheorems, SequenceTheorems

Entry == [status : Status, charge : BOOLEAN]

CallType ==
    [pc : {"idle", "next", "submit", "poll", "ended"},
     peer : Peers \cup {Nobody}, tried : SUBSET Peers,
     attempt : 0..MaxAttempts, task : 0..MaxTasks, failures : 0..MaxFailures]

RequestType ==
    [call : Calls, peer : Peers, attempt : 1..MaxAttempts,
     pc : {"received", "admitted"}, waits : BOOLEAN]

(* A store holds at most maxStoredTasks, one for each call, and the done   *)
(* channel of a task that has not ended is open.                           *)
TasksOK ==
    /\ tasks \in Seq(TaskType) /\ Len(tasks) <= MaxTasks
    /\ \A p \in Peers : Cardinality(StoredAt(p)) <= MaxStored
    /\ \A t, u \in TaskIds :
          /\ tasks[t].stored /\ tasks[u].stored
          /\ tasks[t].at = tasks[u].at /\ tasks[t].call = tasks[u].call
          => t = u
    /\ \A t \in TaskIds :
          tasks[t].stored /\ ~Terminal(tasks[t].status) => tasks[t].done = "open"

(* What a snapshot of a store holds, in the file or on its way there: few  *)
(* enough tasks of that store to be loaded again, one for each call, and   *)
(* the results that are still in memory.                                   *)
SnapshotOK(p, snap) ==
    /\ \A t \in DOMAIN snap : t \in TaskIds /\ tasks[t].at = p /\ snap[t] \in Entry
    /\ IsFiniteSet(DOMAIN snap) /\ Cardinality(DOMAIN snap) <= MaxStored
    /\ \A t, u \in DOMAIN snap : tasks[t].call = tasks[u].call => t = u
    /\ \A t \in DOMAIN snap :
          Terminal(snap[t].status) /\ tasks[t].stored =>
              tasks[t].status = snap[t].status /\ tasks[t].charge = snap[t].charge

FilesOK ==
    /\ DOMAIN writing = Peers /\ DOMAIN disk = Peers
    /\ \A p \in Peers : \A snap \in writing[p] \cup {disk[p]} : SnapshotOK(p, snap)

(* A call has a task of its own at its peer once it was accepted, and none *)
(* before.                                                                 *)
CallOK(c) ==
    /\ calls[c].pc \in {"next", "submit", "poll"} => calls[c].peer \in Peers
    /\ calls[c].pc \in {"idle", "next", "submit"} => calls[c].task = 0 /\ calls[c].failures = 0
    /\ calls[c].pc = "poll" => calls[c].task # 0 /\ calls[c].failures < MaxFailures
    /\ calls[c].task # 0 => /\ calls[c].task \in TaskIds
                            /\ tasks[calls[c].task].call = c
                            /\ tasks[calls[c].task].at = calls[c].peer

CallsOK ==
    /\ calls \in [Calls -> CallType]
    /\ \A c \in Calls : CallOK(c)

(* Of the requests of a call at most one is still waited for.              *)
RequestsOK ==
    /\ requests \subseteq RequestType
    /\ \A r \in requests : r.waits =>
          calls[r.call].pc = "submit" /\ calls[r.call].peer = r.peer
    /\ \A r, s \in requests : r.waits /\ s.waits /\ r.call = s.call => r = s

(* A row of the caller that was not fetched by id is about the task its    *)
(* call has accepted.                                                      *)
LedgersOK ==
    /\ receivable \in Seq(Nat) /\ payable \in Seq(Nat)
    /\ ToSet(receivable) \subseteq TaskIds /\ ToSet(payable) \subseteq TaskIds
    /\ byHand \subseteq TaskIds
    /\ IsInjective(receivable) /\ IsInjective(payable)
    /\ \A t \in ToSet(payable) \ byHand : calls[tasks[t].call].task = t

RestOK ==
    /\ stopped \subseteq Peers /\ dirty \subseteq Peers
    /\ cancels \subseteq TaskIds /\ restarts \in 0..MaxRestarts

IInv == TasksOK /\ FilesOK /\ CallsOK /\ RequestsOK /\ LedgersOK /\ RestOK

(* Without restarts and failing writes a charge is on its way to the       *)
(* peer's ledger or in it.                                                 *)
ChargesBooked ==
    \A t \in TaskIds : tasks[t].charge => tasks[t].run = "charging" \/ Contains(receivable, t)

-----------------------------------------------------------------------------
(* Facts about naturals, stores and ledgers.                               *)
LEMMA Oldest ==
    ASSUME NEW S \in SUBSET Nat, S # {}
    PROVE  \E x \in S : \A y \in S : x <= y
<1> DEFINE Below == {ss \in Nat \X Nat : ss[1] < ss[2]}
<1>1. IsWellFoundedOn(Below, Nat)
  BY NatLessThanWellFounded DEF OpToRel
<1>2. \A x, y \in Nat : <<y, x>> \in Below <=> y < x
  OBVIOUS
<1> HIDE DEF Below
<1>3. PICK x \in S : \A y \in S : ~(<<y, x>> \in Below)
  BY <1>1, WFMin
<1>4. \A y \in S : ~(y < x)
  BY <1>2, <1>3
<1> QED
  BY <1>4

LEMMA TaskSeq ==
    ASSUME TasksOK
    PROVE  /\ Len(tasks) \in Nat /\ TaskIds = 1..Len(tasks)
           /\ \A t \in TaskIds : tasks[t] \in TaskType
BY ElementOfSeq, LenProperties DEF TasksOK, TaskIds

LEMMA StoresFinite ==
    ASSUME TasksOK, NEW p
    PROVE  /\ IsFiniteSet(StoredAt(p)) /\ Cardinality(StoredAt(p)) \in Nat
           /\ StoredAt(p) \in SUBSET Nat
<1>1. IsFiniteSet(TaskIds) /\ TaskIds \subseteq Nat
  BY TaskSeq, FS_Interval
<1>2. StoredAt(p) \subseteq TaskIds
  BY DEF StoredAt
<1> QED
  BY <1>1, <1>2, FS_Subset, FS_CardinalityType

(* Ledger.Record writes a row once and keeps the others.                   *)
LEMMA RecordOnce ==
    ASSUME NEW rows \in Seq(Nat), IsInjective(rows), NEW t \in Nat
    PROVE  /\ Record(rows, t) \in Seq(Nat)
           /\ IsInjective(Record(rows, t))
           /\ ToSet(Record(rows, t)) = ToSet(rows) \cup {t}
           /\ \A u : Contains(Record(rows, t), u) <=> Contains(rows, u) \/ u = t
<1>1. Len(rows) \in Nat /\ DOMAIN rows = 1..Len(rows)
  BY LenProperties
<1>2. CASE Contains(rows, t)
  BY <1>1, <1>2 DEF Record, Contains, ToSet
<1>3. CASE ~Contains(rows, t)
  <2>1. Record(rows, t) = Append(rows, t)
    BY <1>3 DEF Record
  <2>2. /\ Append(rows, t) \in Seq(Nat) /\ Len(Append(rows, t)) = Len(rows) + 1
        /\ \A i \in 1..Len(rows) : Append(rows, t)[i] = rows[i]
        /\ Append(rows, t)[Len(rows) + 1] = t
    BY AppendProperties
  <2> DEFINE new == Append(rows, t)
  <2>3. DOMAIN new = 1..(Len(rows) + 1)
    BY <2>2, LenProperties
  <2> HIDE DEF new
  <2>4. /\ new \in Seq(Nat) /\ Len(new) = Len(rows) + 1
        /\ \A i \in 1..Len(rows) : new[i] = rows[i]
        /\ new[Len(rows) + 1] = t
        /\ Record(rows, t) = new
    BY <2>1, <2>2 DEF new
  <2>5. \A i \in 1..Len(rows) : rows[i] # t
    BY <1>3 DEF Contains
  <2>6. IsInjective(new)
    BY <1>1, <2>3, <2>4, <2>5 DEF IsInjective
  <2>7. ToSet(new) = ToSet(rows) \cup {t}
    BY <1>1, <2>3, <2>4 DEF ToSet
  <2>8. \A u : Contains(new, u) <=> Contains(rows, u) \/ u = t
    BY <1>1, <2>4 DEF Contains
  <2> QED
    BY <2>4, <2>6, <2>7, <2>8
<1> QED
  BY <1>2, <1>3

-----------------------------------------------------------------------------
(* Kinds of steps.  A task keeps its peer and its call for ever; but for a *)
(* restart, a task that is not stored is never stored again, and one that  *)
(* is stored and has ended keeps its status and its charge.                *)
Grows ==
    \A t \in TaskIds :
        t \in TaskIds' /\ tasks'[t].at = tasks[t].at /\ tasks'[t].call = tasks[t].call

ResultsKept ==
    \A t \in TaskIds : tasks'[t].stored =>
        /\ tasks[t].stored
        /\ Terminal(tasks[t].status) =>
               tasks'[t].status = tasks[t].status /\ tasks'[t].charge = tasks[t].charge

LEMMA SnapshotKept ==
    ASSUME Grows, ResultsKept, NEW p, NEW snap, SnapshotOK(p, snap)
    PROVE  SnapshotOK(p, snap)'
BY DEF Grows, ResultsKept, SnapshotOK, TaskIds

LEMMA FilesKept ==
    ASSUME FilesOK, Grows, ResultsKept, UNCHANGED file
    PROVE  FilesOK'
<1>1. writing' = writing /\ disk' = disk
  BY DEF file
<1>2. ASSUME NEW p \in Peers, NEW snap \in writing[p] \cup {disk[p]}
      PROVE  SnapshotOK(p, snap)'
  BY <1>2, SnapshotKept DEF FilesOK
<1> QED
  BY <1>1, <1>2 DEF FilesOK

LEMMA CallsKept ==
    ASSUME CallsOK, Grows, UNCHANGED calls
    PROVE  CallsOK'
BY DEF CallsOK, CallOK, Grows, TaskIds

(* A call whose task is its first keeps the caller's rows right.           *)
TasksOfCallsKept ==
    \A c \in Calls : calls[c].task # 0 => calls'[c].task = calls[c].task

LEMMA LedgersKept ==
    ASSUME TasksOK, LedgersOK, Grows, TasksOfCallsKept, UNCHANGED ledgers
    PROVE  LedgersOK'
<1>1. receivable' = receivable /\ payable' = payable /\ byHand' = byHand
  BY DEF ledgers
<1>2. TaskIds \subseteq TaskIds'
  BY DEF Grows
<1>3. ASSUME NEW t \in ToSet(payable) \ byHand
      PROVE  calls'[tasks'[t].call].task = t
  <2>1. t \in TaskIds /\ calls[tasks[t].call].task = t
    BY <1>3 DEF LedgersOK
  <2>2. t # 0 /\ tasks[t].call \in Calls
    BY <2>1, TaskSeq DEF TaskType
  <2>3. tasks'[t].call = tasks[t].call
    BY <2>1 DEF Grows
  <2> QED
    BY <2>1, <2>2, <2>3 DEF TasksOfCallsKept
<1> QED
  BY <1>1, <1>2, <1>3 DEF LedgersOK

LEMMA RestKept ==
    ASSUME RestOK, Grows, UNCHANGED <<stopped, cancels, restarts>>,
           dirty' \subseteq Peers
    PROVE  RestOK'
BY DEF RestOK, Grows

(* A step that keeps what is stored where.                                 *)
LEMMA StoresKept ==
    ASSUME TasksOK, tasks' \in Seq(TaskType), Len(tasks') = Len(tasks),
           \A t \in TaskIds :
               /\ tasks'[t].at = tasks[t].at /\ tasks'[t].call = tasks[t].call
               /\ tasks'[t].stored = tasks[t].stored
               /\ tasks[t].stored /\ Terminal(tasks[t].status) =>
                      tasks'[t].status = tasks[t].status /\ tasks'[t].charge = tasks[t].charge
               /\ tasks[t].stored /\ ~Terminal(tasks'[t].status) =>
                      tasks'[t].done = "open"
    PROVE  TasksOK' /\ Grows /\ ResultsKept
<1>1. TaskIds' = TaskIds
  BY TaskSeq, LenProperties DEF TaskIds
<1>2. \A p \in Peers : StoredAt(p)' = StoredAt(p)
  BY <1>1 DEF StoredAt
<1>3. Grows /\ ResultsKept
  BY <1>1 DEF Grows, ResultsKept
<1>4. TasksOK'
  BY <1>1, <1>2 DEF TasksOK
<1> QED
  BY <1>3, <1>4

(* A step that writes one task, without storing or dropping it.            *)
LEMMA SetKeeps ==
    ASSUME TasksOK, NEW t \in TaskIds, NEW new \in TaskType, Set(t, new),
           new.at = tasks[t].at, new.call = tasks[t].call, new.stored = tasks[t].stored,
           tasks[t].stored /\ Terminal(tasks[t].status) =>
               new.status = tasks[t].status /\ new.charge = tasks[t].charge,
           tasks[t].stored /\ ~Terminal(new.status) => new.done = "open"
    PROVE  TasksOK' /\ Grows /\ ResultsKept
<1>1. tasks' = [tasks EXCEPT ![t] = new] /\ tasks \in Seq(TaskType) /\ t \in 1..Len(tasks)
  BY TaskSeq DEF Set, TasksOK
<1>2. /\ tasks' \in Seq(TaskType) /\ Len(tasks') = Len(tasks)
      /\ \A u \in 1..Len(tasks) : tasks'[u] = IF u = t THEN new ELSE tasks[u]
  BY <1>1, ExceptSeq
<1>3. \A u \in TaskIds : u # t => tasks'[u] = tasks[u]
  BY <1>2, TaskSeq
<1>4. tasks'[t] = new
  BY <1>1, <1>2
<1>5. \A u \in TaskIds : tasks[u].stored /\ ~Terminal(tasks[u].status) => tasks[u].done = "open"
  BY DEF TasksOK
<1> QED
  BY <1>2, <1>3, <1>4, <1>5, StoresKept

-----------------------------------------------------------------------------
(* The caller.                                                             *)
LEMMA TasksUnchanged ==
    ASSUME TasksOK, UNCHANGED tasks
    PROVE  TasksOK' /\ Grows /\ ResultsKept
BY DEF TasksOK, Grows, ResultsKept, TaskIds, StoredAt

OnlyCall(c) ==
    /\ calls' \in [Calls -> CallType]
    /\ \A d \in Calls : d # c => calls'[d] = calls[d]

LEMMA OneCallMoves ==
    ASSUME CallsOK, Grows, NEW c \in Calls, OnlyCall(c), CallOK(c)'
    PROVE  CallsOK'
<1>1. ASSUME NEW d \in Calls, d # c PROVE CallOK(d)'
  BY <1>1 DEF CallsOK, CallOK, Grows, OnlyCall
<1> QED
  BY <1>1 DEF CallsOK, OnlyCall

LEMMA RequestsKept ==
    ASSUME RequestsOK, NEW c \in Calls, OnlyCall(c), calls[c].pc # "submit",
           requests' \subseteq requests
    PROVE  RequestsOK'
<1>1. ASSUME NEW r \in requests', r.waits
      PROVE  calls'[r.call].pc = "submit" /\ calls'[r.call].peer = r.peer
  <2>1. r \in requests /\ r.call \in Calls
    BY <1>1 DEF RequestsOK, RequestType
  <2>2. calls[r.call].pc = "submit" /\ calls[r.call].peer = r.peer
    BY <1>1, <2>1 DEF RequestsOK
  <2> QED
    BY <2>1, <2>2 DEF OnlyCall
<1> QED
  BY <1>1 DEF RequestsOK

(* A call of the caller that touches nothing but the calls and requests.   *)
LEMMA CallerMoves ==
    ASSUME IInv, NEW c \in Calls, OnlyCall(c), CallOK(c)', RequestsOK',
           calls[c].task # 0 => calls'[c].task = calls[c].task,
           UNCHANGED <<tasks, stopped, dirty, file, ledgers, cancels, restarts>>
    PROVE  IInv'
<1>1. TasksOK' /\ Grows /\ ResultsKept
  BY TasksUnchanged DEF IInv
<1>2. FilesOK'
  BY <1>1, FilesKept DEF IInv
<1>3. CallsOK'
  BY <1>1, OneCallMoves DEF IInv
<1>4. TasksOfCallsKept
  BY DEF TasksOfCallsKept, OnlyCall
<1>5. LedgersOK'
  BY <1>1, <1>4, LedgersKept DEF IInv
<1>6. RestOK'
  BY <1>1, RestKept DEF IInv, RestOK
<1> QED
  BY <1>1, <1>2, <1>3, <1>5, <1>6 DEF IInv

LEMMA NextCandidateKeeps ==
    ASSUME IInv, NEW c \in Calls, NEW p \in Peers, NextCandidate(c, p)
    PROVE  IInv'
<1>1. calls \in [Calls -> CallType] /\ CallOK(c) /\ RequestsOK /\ calls[c] \in CallType
  BY DEF IInv, CallsOK
<1>2. /\ calls' = [calls EXCEPT ![c].pc = "next", ![c].peer = p, ![c].attempt = 0,
                               ![c].tried = @ \cup {p}]
      /\ calls[c].pc \in {"idle", "next"} /\ UNCHANGED requests
  BY DEF NextCandidate
<1>3. 0 \in 0..MaxAttempts
  BY TasksAssumptions
<1>4. /\ OnlyCall(c) /\ calls'[c].pc = "next" /\ calls'[c].peer = p
      /\ calls'[c].task = calls[c].task /\ calls'[c].failures = calls[c].failures
  BY <1>1, <1>2, <1>3 DEF OnlyCall, CallType
<1>5. CallOK(c)'
  BY <1>1, <1>2, <1>4 DEF CallOK
<1>6. RequestsOK'
  BY <1>1, <1>2, <1>4, RequestsKept
<1> QED
  BY <1>4, <1>5, <1>6, CallerMoves DEF NextCandidate

LEMMA NoCandidateLeftKeeps ==
    ASSUME IInv, NEW c \in Calls, NoCandidateLeft(c)
    PROVE  IInv'
<1>1. calls \in [Calls -> CallType] /\ CallOK(c) /\ RequestsOK /\ calls[c] \in CallType
  BY DEF IInv, CallsOK
<1>2. calls' = [calls EXCEPT ![c].pc = "ended"] /\ calls[c].pc = "next" /\ UNCHANGED requests
  BY DEF NoCandidateLeft
<1>3. OnlyCall(c) /\ calls'[c].pc = "ended" /\ calls'[c].task = calls[c].task
  BY <1>1, <1>2 DEF OnlyCall, CallType
<1>4. CallOK(c)'
  BY <1>1, <1>2, <1>3 DEF CallOK
<1>5. RequestsOK'
  BY <1>1, <1>2, <1>3, RequestsKept
<1> QED
  BY <1>3, <1>4, <1>5, CallerMoves DEF NoCandidateLeft

(* No request of a call between two attempts is waited for.                *)
LEMMA SubmitRemoteTaskKeeps ==
    ASSUME IInv, NEW c \in Calls, SubmitRemoteTask(c)
    PROVE  IInv'
<1> DEFINE new == [call |-> c, peer |-> calls[c].peer, attempt |-> calls[c].attempt + 1,
                   pc |-> "received", waits |-> TRUE]
<1>1. calls \in [Calls -> CallType] /\ CallOK(c) /\ RequestsOK /\ calls[c] \in CallType
  BY DEF IInv, CallsOK
<1>2. /\ calls' = [calls EXCEPT ![c].pc = "submit", ![c].attempt = @ + 1]
      /\ calls[c].pc = "next" /\ calls[c].attempt < MaxAttempts
      /\ requests' = requests \cup {new}
  BY DEF SubmitRemoteTask
<1>3. calls[c].attempt \in Nat /\ calls[c].attempt + 1 \in 1..MaxAttempts
  BY <1>1, <1>2, TasksAssumptions DEF CallType
<1>4. /\ OnlyCall(c) /\ calls'[c].pc = "submit" /\ calls'[c].peer = calls[c].peer
      /\ calls'[c].task = calls[c].task /\ calls'[c].failures = calls[c].failures
  BY <1>1, <1>2, <1>3 DEF OnlyCall, CallType
<1>5. CallOK(c)'
  BY <1>1, <1>2, <1>4 DEF CallOK
<1>6. calls[c].peer \in Peers
  BY <1>1, <1>2 DEF CallOK
<1>7. new \in RequestType /\ new.call = c /\ new.peer = calls[c].peer
  BY <1>3, <1>6 DEF RequestType
<1>8. RequestsOK'
  <2> HIDE DEF new
  <2>1. \A r \in requests : r.waits => r.call # c /\ r.call \in Calls
    BY <1>1, <1>2 DEF RequestsOK, RequestType
  <2>2. requests' \subseteq RequestType
    BY <1>1, <1>2, <1>7 DEF RequestsOK
  <2>3. ASSUME NEW r \in requests', r.waits
        PROVE  calls'[r.call].pc = "submit" /\ calls'[r.call].peer = r.peer
    <3>1. CASE r = new
      BY <3>1, <1>4, <1>7
    <3>2. CASE r \in requests
      BY <3>2, <2>1, <2>3, <1>1, <1>4 DEF RequestsOK, OnlyCall
    <3> QED
      BY <1>2, <3>1, <3>2
  <2>4. ASSUME NEW r \in requests', NEW s \in requests', r.waits, s.waits, r.call = s.call
        PROVE  r = s
    BY <1>1, <1>2, <1>7, <2>1, <2>4 DEF RequestsOK
  <2> QED
    BY <2>2, <2>3, <2>4 DEF RequestsOK
<1> QED
  BY <1>4, <1>5, <1>8, CallerMoves DEF SubmitRemoteTask

LEMMA RequestsLetGo ==
    ASSUME RequestsOK, NEW c \in Calls, OnlyCall(c), requests' \subseteq RequestType,
           \A r \in requests' : r.waits => r \in requests /\ r.call # c
    PROVE  RequestsOK'
<1>1. ASSUME NEW r \in requests', r.waits
      PROVE  calls'[r.call].pc = "submit" /\ calls'[r.call].peer = r.peer
  <2>1. r \in requests /\ r.call \in Calls /\ r.call # c
    BY <1>1 DEF RequestType
  <2>2. calls[r.call].pc = "submit" /\ calls[r.call].peer = r.peer
    BY <1>1, <2>1 DEF RequestsOK
  <2> QED
    BY <2>1, <2>2 DEF OnlyCall
<1>2. \A r, s \in requests' : r.waits /\ s.waits /\ r.call = s.call => r = s
  BY DEF RequestsOK
<1> QED
  BY <1>1, <1>2 DEF RequestsOK

LEMMA Unwaited ==
    ASSUME NEW r \in RequestType, NEW b \in BOOLEAN
    PROVE  /\ [r EXCEPT !.waits = b] \in RequestType
           /\ [r EXCEPT !.waits = b].call = r.call
           /\ [r EXCEPT !.waits = b].waits = b
           /\ b = r.waits => [r EXCEPT !.waits = b] = r
BY DEF RequestType

LEMMA SubmitFailsKeeps ==
    ASSUME IInv, NEW c \in Calls, SubmitFails(c)
    PROVE  IInv'
<1> DEFINE mine == { r \in requests : r.call = c /\ r.waits }
<1>1. calls \in [Calls -> CallType] /\ CallOK(c) /\ RequestsOK /\ calls[c] \in CallType
  BY DEF IInv, CallsOK
<1>2. /\ calls' = [calls EXCEPT ![c].pc = "next"] /\ calls[c].pc = "submit"
      /\ \/ requests' = requests \ mine
         \/ requests' = (requests \ mine) \cup { [r EXCEPT !.waits = FALSE] : r \in mine }
  BY DEF SubmitFails
<1>3. /\ OnlyCall(c) /\ calls'[c].pc = "next" /\ calls'[c].peer = calls[c].peer
      /\ calls'[c].task = calls[c].task /\ calls'[c].failures = calls[c].failures
  BY <1>1, <1>2 DEF OnlyCall, CallType
<1>4. CallOK(c)'
  BY <1>1, <1>2, <1>3 DEF CallOK
<1>5. ASSUME NEW s \in requests'
      PROVE  s \in RequestType /\ (s.waits => s \in requests /\ s.call # c)
  <2>1. CASE s \in requests \ mine
    BY <2>1, <1>1 DEF RequestsOK
  <2>2. CASE \E r \in mine : s = [r EXCEPT !.waits = FALSE]
    <3>1. PICK r \in mine : s = [r EXCEPT !.waits = FALSE]
      BY <2>2
    <3>2. r \in RequestType
      BY <1>1 DEF RequestsOK
    <3>3. s \in RequestType /\ s.waits = FALSE
      BY <3>1, <3>2, Unwaited
    <3> QED
      BY <3>3
  <2> QED
    BY <1>2, <1>5, <2>1, <2>2
<1>6. RequestsOK'
  BY <1>1, <1>3, <1>5, RequestsLetGo
<1> QED
  BY <1>3, <1>4, <1>6, CallerMoves DEF SubmitFails

LEMMA PollFailsKeeps ==
    ASSUME IInv, NEW c \in Calls, PollFails(c)
    PROVE  IInv'
<1>1. calls \in [Calls -> CallType] /\ CallOK(c) /\ RequestsOK /\ calls[c] \in CallType
  BY DEF IInv, CallsOK
<1>2. PICK to \in {"poll", "ended"} :
          /\ calls' = [calls EXCEPT ![c].failures = @ + 1, ![c].pc = to]
          /\ to = "poll" => ~(calls[c].failures + 1 >= MaxFailures)
  <2>1. calls[c].pc = "poll"
    BY DEF PollFails
  <2>2. CASE calls[c].failures + 1 >= MaxFailures
    BY <2>2 DEF PollFails
  <2>3. CASE ~(calls[c].failures + 1 >= MaxFailures)
    BY <2>1, <2>3 DEF PollFails
  <2> QED
    BY <2>2, <2>3
<1>3. calls[c].pc = "poll" /\ UNCHANGED requests
  BY DEF PollFails
<1>4. /\ calls[c].failures \in Nat /\ calls[c].failures < MaxFailures
      /\ calls[c].failures + 1 \in 0..MaxFailures
  BY <1>1, <1>3, TasksAssumptions DEF CallType, CallOK
<1>5. /\ OnlyCall(c) /\ calls'[c].pc = to /\ calls'[c].peer = calls[c].peer
      /\ calls'[c].task = calls[c].task /\ calls'[c].failures = calls[c].failures + 1
  BY <1>1, <1>2, <1>4 DEF OnlyCall, CallType
<1>6. CallOK(c)'
  <2>1. to = "poll" => calls[c].failures + 1 < MaxFailures
    BY <1>2, <1>4, TasksAssumptions
  <2> QED
    BY <1>1, <1>3, <1>5, <2>1 DEF CallOK, PollFails, TaskIds
<1>7. RequestsOK'
  BY <1>1, <1>3, <1>5, RequestsKept
<1> QED
  BY <1>5, <1>6, <1>7, CallerMoves DEF PollFails

LEMMA CallerCancelledKeeps ==
    ASSUME IInv, NEW c \in Calls, CallerCancelled(c)
    PROVE  IInv'
<1>1. calls \in [Calls -> CallType] /\ CallOK(c) /\ RequestsOK /\ calls[c] \in CallType
  BY DEF IInv, CallsOK
<1>2. /\ calls' = [calls EXCEPT ![c].pc = "ended"]
      /\ requests' = { [r EXCEPT !.waits = @ /\ r.call # c] : r \in requests }
      /\ cancels' = IF calls[c].pc = "poll" THEN cancels \cup {calls[c].task} ELSE cancels
      /\ UNCHANGED <<tasks, stopped, dirty, file, ledgers, restarts>>
  BY DEF CallerCancelled
<1>3. /\ OnlyCall(c) /\ calls'[c].pc = "ended" /\ calls'[c].peer = calls[c].peer
      /\ calls'[c].task = calls[c].task
  BY <1>1, <1>2 DEF OnlyCall, CallType
<1>4. TasksOK' /\ Grows /\ ResultsKept
  BY <1>2, TasksUnchanged DEF IInv
<1>5. CallOK(c)'
  BY <1>1, <1>2, <1>3 DEF CallOK, TaskIds
<1>6. ASSUME NEW s \in requests'
      PROVE  s \in RequestType /\ (s.waits => s \in requests /\ s.call # c)
  <2>1. PICK r \in requests : s = [r EXCEPT !.waits = r.waits /\ r.call # c]
    BY <1>2, <1>6
  <2>2. r \in RequestType /\ r.waits \in BOOLEAN
    BY <1>1 DEF RequestsOK, RequestType
  <2>3. PICK b \in BOOLEAN : b = (r.waits /\ r.call # c)
    OBVIOUS
  <2>4. s = [r EXCEPT !.waits = b]
    BY <2>1, <2>3
  <2>5. s \in RequestType /\ s.call = r.call /\ s.waits = b /\ (b = r.waits => s = r)
    BY <2>2, <2>4, Unwaited
  <2>6. CASE b
    <3>1. r.waits = b
      BY <2>2, <2>3, <2>6
    <3> QED
      BY <2>3, <2>5, <2>6, <3>1
  <2>7. CASE ~b
    BY <2>5, <2>7
  <2> QED
    BY <2>6, <2>7
<1>7. RequestsOK'
  BY <1>1, <1>3, <1>6, RequestsLetGo
<1>8. FilesOK'
  BY <1>2, <1>4, FilesKept DEF IInv
<1>9. CallsOK'
  BY <1>3, <1>4, <1>5, OneCallMoves DEF IInv
<1>10. LedgersOK'
  <2>1. TasksOfCallsKept
    BY <1>3 DEF TasksOfCallsKept, OnlyCall
  <2> QED
    BY <1>2, <1>4, <2>1, LedgersKept DEF IInv
<1>11. RestOK'
  <2>1. calls[c].pc = "poll" => calls[c].task \in TaskIds
    BY <1>1 DEF CallOK
  <2>2. cancels' \subseteq TaskIds
    BY <1>2, <2>1 DEF IInv, RestOK
  <2> QED
    BY <1>2, <2>2 DEF IInv, RestOK, TaskIds
<1> QED
  BY <1>4, <1>7, <1>8, <1>9, <1>10, <1>11 DEF IInv

(* RemoteTaskResult books the row of the task it fetches, once.            *)
LEMMA BooksOneRow ==
    ASSUME TasksOK, LedgersOK, NEW t \in TaskIds, Books(t)
    PROVE  /\ payable' \in Seq(Nat) /\ IsInjective(payable')
           /\ ToSet(payable) \subseteq ToSet(payable')
           /\ ToSet(payable') \subseteq ToSet(payable) \cup {t}
<1>1. t \in Nat
  BY TaskSeq
<1>2. payable' = payable \/ payable' = Record(payable, t)
  BY DEF Books
<1> QED
  BY <1>1, <1>2, RecordOnce DEF LedgersOK

(* The poll of a call books the row of the call's own task ...             *)
LEMMA BooksOnce ==
    ASSUME TasksOK, CallsOK, LedgersOK, NEW c \in Calls, calls[c].task # 0,
           Books(calls[c].task), UNCHANGED <<tasks, receivable, byHand>>, TasksOfCallsKept
    PROVE  LedgersOK'
<1>1. PICK t \in TaskIds : t = calls[c].task
  BY DEF CallsOK, CallOK
<1>2. t \in Nat /\ tasks[t].call = c /\ t # 0
  BY <1>1, TaskSeq DEF CallsOK, CallOK
<1>3. /\ payable' \in Seq(Nat) /\ IsInjective(payable')
      /\ ToSet(payable') \subseteq ToSet(payable) \cup {t}
  BY <1>1, BooksOneRow
<1>4. ASSUME NEW u \in ToSet(payable) \ byHand PROVE calls'[tasks[u].call].task = u
  <2>1. u \in TaskIds /\ calls[tasks[u].call].task = u
    BY <1>4 DEF LedgersOK
  <2>2. u # 0 /\ tasks[u].call \in Calls
    BY <2>1, TaskSeq DEF TaskType
  <2> QED
    BY <2>1, <2>2 DEF TasksOfCallsKept
<1>5. calls'[tasks[t].call].task = t
  BY <1>1, <1>2 DEF TasksOfCallsKept
<1>6. \A u \in ToSet(payable') \ byHand : calls'[tasks[u].call].task = u
  BY <1>3, <1>4, <1>5
<1>7. ToSet(payable') \subseteq TaskIds
  BY <1>1, <1>3 DEF LedgersOK
<1> QED
  BY <1>3, <1>6, <1>7 DEF LedgersOK, TaskIds

LEMMA PollAnsweredKeeps ==
    ASSUME IInv, NEW c \in Calls, PollAnswered(c)
    PROVE  IInv'
<1>1. calls \in [Calls -> CallType] /\ CallOK(c) /\ RequestsOK /\ calls[c] \in CallType
  BY DEF IInv, CallsOK
<1>2. /\ calls[c].pc = "poll"
      /\ UNCHANGED <<tasks, stopped, dirty, file, receivable, byHand, requests, cancels,
                     restarts>>
  BY DEF PollAnswered
<1>3. \/ calls' = [calls EXCEPT ![c].failures = 0]
      \/ calls' = [calls EXCEPT ![c].pc = "ended"]
  BY DEF PollAnswered
<1>4. 0 \in 0..MaxFailures /\ 0 < MaxFailures
  BY TasksAssumptions
<1>5. /\ OnlyCall(c) /\ calls'[c].peer = calls[c].peer /\ calls'[c].task = calls[c].task
      /\ \/ calls'[c].pc = "poll" /\ calls'[c].failures = 0
         \/ calls'[c].pc = "ended"
  <2>1. CASE calls' = [calls EXCEPT ![c].failures = 0]
    BY <1>1, <1>2, <1>4, <2>1 DEF OnlyCall, CallType
  <2>2. CASE calls' = [calls EXCEPT ![c].pc = "ended"]
    BY <1>1, <2>2 DEF OnlyCall, CallType
  <2> QED
    BY <1>3, <2>1, <2>2
<1>6. CallOK(c)'
  BY <1>1, <1>2, <1>4, <1>5 DEF CallOK, TaskIds
<1>7. TasksOK' /\ Grows /\ ResultsKept
  BY <1>2, TasksUnchanged DEF IInv
<1>8. FilesOK'
  BY <1>2, <1>7, FilesKept DEF IInv
<1>9. CallsOK'
  BY <1>5, <1>6, <1>7, OneCallMoves DEF IInv
<1>10. RequestsOK'
  BY <1>1, <1>2, <1>5, RequestsKept
<1>11. LedgersOK'
  <2>1. TasksOfCallsKept
    BY <1>5 DEF TasksOfCallsKept, OnlyCall
  <2>2. payable' = payable \/ Books(calls[c].task)
    BY DEF PollAnswered
  <2>3. CASE payable' = payable
    BY <1>2, <1>7, <2>1, <2>3, LedgersKept DEF IInv, ledgers
  <2>4. CASE Books(calls[c].task)
    <3>1. calls[c].task # 0
      BY <1>1, <1>2 DEF CallOK
    <3> QED
      BY <1>2, <2>1, <2>4, <3>1, BooksOnce DEF IInv
  <2> QED
    BY <2>2, <2>3, <2>4
<1>12. RestOK'
  BY <1>2, <1>7, RestKept DEF IInv, RestOK
<1> QED
  BY <1>7, <1>8, <1>9, <1>10, <1>11, <1>12 DEF IInv

(* ... and a fetch by id that of any task, which is then booked by hand.   *)
LEMMA RefetchKeeps ==
    ASSUME IInv, NEW t \in TaskIds, Refetch(t)
    PROVE  IInv'
<1>1. /\ Books(t) /\ byHand' = byHand \cup (ToSet(payable') \ ToSet(payable))
      /\ UNCHANGED <<tasks, stopped, dirty, file, receivable, calls, requests, cancels, restarts>>
  BY DEF Refetch
<1>2. TasksOK' /\ Grows /\ ResultsKept
  BY <1>1, TasksUnchanged DEF IInv
<1>3. FilesOK'
  BY <1>1, <1>2, FilesKept DEF IInv
<1>4. CallsOK'
  BY <1>1, <1>2, CallsKept DEF IInv
<1>5. RequestsOK'
  BY <1>1 DEF IInv, RequestsOK
<1>6. LedgersOK'
  <2>1. /\ payable' \in Seq(Nat) /\ IsInjective(payable')
        /\ ToSet(payable') \subseteq TaskIds
    BY <1>1, BooksOneRow DEF IInv, LedgersOK
  <2>2. ToSet(payable') \ byHand' \subseteq ToSet(payable) \ byHand
    BY <1>1
  <2>3. byHand' \subseteq TaskIds
    BY <1>1, <2>1 DEF IInv, LedgersOK
  <2>4. \A u \in ToSet(payable') \ byHand' : calls[tasks[u].call].task = u
    BY <2>2 DEF IInv, LedgersOK
  <2>5. receivable' = receivable /\ tasks' = tasks /\ calls' = calls
    BY <1>1
  <2> QED
    BY <2>1, <2>3, <2>4, <2>5 DEF IInv, LedgersOK, TaskIds
<1>7. RestOK'
  BY <1>1, <1>2, RestKept DEF IInv, RestOK
<1> QED
  BY <1>2, <1>3, <1>4, <1>5, <1>6, <1>7 DEF IInv

LEMMA CallerKeeps ==
    ASSUME IInv, NEW c \in Calls, CallStep(c)
    PROVE  IInv'
BY NextCandidateKeeps, NoCandidateLeftKeeps, SubmitRemoteTaskKeeps, SubmitFailsKeeps,
   PollAnsweredKeeps, PollFailsKeeps, CallerCancelledKeeps DEF CallStep

-----------------------------------------------------------------------------
(* The handlers of submit requests.                                        *)
LEMMA AnswerKeeps ==
    ASSUME TasksOK, CallsOK, RequestsOK, TasksOK', Grows, NEW r \in requests,
           requests' = requests \ {r}, NEW t \in Nat, Answer(r, t),
           t # 0 => t \in TaskIds' /\ tasks'[t].call = r.call /\ tasks'[t].at = r.peer
    PROVE  CallsOK' /\ RequestsOK' /\ TasksOfCallsKept
<1>1. CASE ~r.waits
  <2>1. calls' = calls
    BY <1>1 DEF Answer
  <2> QED
    BY <2>1, CallsKept DEF RequestsOK, TasksOfCallsKept
<1>2. CASE r.waits
  <2>1. PICK c \in Calls : c = r.call
    BY DEF RequestsOK, RequestType
  <2>2. /\ calls \in [Calls -> CallType] /\ CallOK(c) /\ calls[c] \in CallType
        /\ calls[c].pc = "submit" /\ calls[c].peer = r.peer
        /\ calls[c].task = 0 /\ calls[c].failures = 0
    BY <1>2, <2>1 DEF CallsOK, RequestsOK, CallOK
  <2>3. /\ t \in 0..MaxTasks
        /\ MaxAttempts \in 0..MaxAttempts /\ 0 < MaxFailures
    <3>1. Len(tasks') \in Nat /\ DOMAIN tasks' = 1..Len(tasks') /\ Len(tasks') <= MaxTasks
      BY LenProperties DEF TasksOK
    <3>2. t # 0 => t \in DOMAIN tasks'
      BY DEF TaskIds
    <3> QED
      BY <3>1, <3>2, TasksAssumptions
  <2>4. ASSUME t # 0 PROVE OnlyCall(c) /\ CallOK(c)'
    <3>1. calls' = [calls EXCEPT ![c].pc = "poll", ![c].task = t]
      BY <1>2, <2>1, <2>4 DEF Answer
    <3>2. /\ OnlyCall(c) /\ calls'[c].pc = "poll" /\ calls'[c].task = t
          /\ calls'[c].peer = r.peer /\ calls'[c].failures = 0
      BY <2>2, <2>3, <3>1 DEF OnlyCall, CallType
    <3>3. CallOK(c)'
      BY <2>1, <2>2, <2>3, <2>4, <3>2 DEF CallOK, RequestsOK, RequestType
    <3> QED
      BY <3>2, <3>3
  <2>5. ASSUME t = 0 PROVE OnlyCall(c) /\ CallOK(c)'
    <3>1. calls' = [calls EXCEPT ![c].pc = "next", ![c].attempt = MaxAttempts]
      BY <1>2, <2>1, <2>5 DEF Answer
    <3>2. /\ OnlyCall(c) /\ calls'[c].pc = "next" /\ calls'[c].task = 0
          /\ calls'[c].peer = r.peer /\ calls'[c].failures = 0
      BY <2>2, <2>3, <3>1 DEF OnlyCall, CallType
    <3>3. CallOK(c)'
      BY <3>2 DEF CallOK, RequestsOK, RequestType
    <3> QED
      BY <3>2, <3>3
  <2>6. OnlyCall(c) /\ CallOK(c)'
    BY <2>4, <2>5
  <2>7. CallsOK'
    BY <2>6, OneCallMoves
  <2>8. \A s \in requests' : s.waits => s \in requests /\ s.call # c
    BY <1>2, <2>1 DEF RequestsOK
  <2>9. requests' \subseteq RequestType
    BY DEF RequestsOK
  <2>10. RequestsOK'
    BY <2>6, <2>8, <2>9, RequestsLetGo
  <2>11. TasksOfCallsKept
    BY <2>2, <2>6 DEF OnlyCall, TasksOfCallsKept
  <2> QED
    BY <2>7, <2>10, <2>11
<1> QED
  BY <1>1, <1>2

LEMMA Admitted ==
    ASSUME NEW r \in RequestType, NEW new, new = [r EXCEPT !.pc = "admitted"]
    PROVE  /\ new \in RequestType
           /\ new.call = r.call /\ new.peer = r.peer /\ new.waits = r.waits
BY DEF RequestType

LEMMA AdmitSubmitKeeps ==
    ASSUME IInv, NEW r \in requests, AdmitSubmit(r)
    PROVE  IInv'
<1>1. /\ UNCHANGED <<tasks, stopped, dirty, file, ledgers, calls, cancels, restarts>>
      /\ requests' = (requests \ {r}) \cup {[r EXCEPT !.pc = "admitted"]}
  BY DEF AdmitSubmit
<1>2. TasksOK' /\ Grows /\ ResultsKept
  BY <1>1, TasksUnchanged DEF IInv
<1>3. FilesOK'
  BY <1>1, <1>2, FilesKept DEF IInv
<1>4. CallsOK'
  BY <1>1, <1>2, CallsKept DEF IInv
<1>5. LedgersOK'
  BY <1>1, <1>2, LedgersKept DEF IInv, TasksOfCallsKept
<1>6. RestOK'
  BY <1>1, <1>2, RestKept DEF IInv, RestOK
<1>7. RequestsOK'
  <2>1. RequestsOK /\ r \in RequestType
    BY DEF IInv, RequestsOK
  <2>2. PICK new \in RequestType :
            /\ requests' = (requests \ {r}) \cup {new}
            /\ new.call = r.call /\ new.peer = r.peer /\ new.waits = r.waits
    BY <1>1, <2>1, Admitted
  <2>3. calls' = calls
    BY <1>1
  <2>4. \A s \in requests' : s.waits =>
            calls'[s.call].pc = "submit" /\ calls'[s.call].peer = s.peer
    BY <2>1, <2>2, <2>3 DEF RequestsOK
  <2>5. \A s, u \in requests' : s.waits /\ u.waits /\ s.call = u.call => s = u
    BY <2>1, <2>2, <2>3 DEF RequestsOK
  <2> QED
    BY <2>1, <2>2, <2>3, <2>4, <2>5 DEF RequestsOK
<1> QED
  BY <1>2, <1>3, <1>4, <1>5, <1>6, <1>7 DEF IInv

(* A request that is answered without a new task.                          *)
LEMMA AnsweredKeeps ==
    ASSUME IInv, NEW r \in requests, requests' = requests \ {r},
           NEW t \in Nat, Answer(r, t), t # 0 => t \in ByCorr(r.peer, r.call),
           UNCHANGED <<tasks, stopped, dirty, file, ledgers, cancels, restarts>>
    PROVE  IInv'
<1>1. TasksOK' /\ Grows /\ ResultsKept
  BY TasksUnchanged DEF IInv
<1>2. FilesOK'
  BY <1>1, FilesKept DEF IInv
<1>3. t # 0 => t \in TaskIds' /\ tasks'[t].call = r.call /\ tasks'[t].at = r.peer
  BY DEF ByCorr, StoredAt, TaskIds
<1>4. CallsOK' /\ RequestsOK' /\ TasksOfCallsKept
  BY <1>1, <1>3, AnswerKeeps DEF IInv
<1>5. LedgersOK'
  BY <1>1, <1>4, LedgersKept DEF IInv
<1>6. RestOK'
  BY <1>1, RestKept DEF IInv, RestOK
<1> QED
  BY <1>1, <1>2, <1>4, <1>5, <1>6 DEF IInv

LEMMA RejectSubmitKeeps ==
    ASSUME IInv, NEW r \in requests, RejectSubmit(r)
    PROVE  IInv'
BY AnsweredKeeps DEF RejectSubmit

LEMMA SubmitAgainKeeps ==
    ASSUME IInv, NEW r \in requests, SubmitAgain(r)
    PROVE  IInv'
<1>1. PICK t \in ByCorr(r.peer, r.call) : Answer(r, t)
  BY DEF SubmitAgain
<1>2. t \in Nat
  BY TaskSeq DEF IInv, ByCorr, StoredAt
<1> QED
  BY <1>1, <1>2, AnsweredKeeps DEF SubmitAgain

(* evictLocked makes room for one more task and drops stored tasks only.   *)
LEMMA EvictionMakesRoom ==
    ASSUME TasksOK, NEW p \in Peers, NEW gone \in Evictions(p)
    PROVE  /\ gone \subseteq StoredAt(p)
           /\ IsFiniteSet(StoredAt(p) \ gone)
           /\ Cardinality(StoredAt(p) \ gone) \in Nat
           /\ Cardinality(StoredAt(p) \ gone) < MaxStored
<1> DEFINE S == StoredAt(p)
<1>1. IsFiniteSet(S) /\ Cardinality(S) \in Nat /\ S \in SUBSET Nat /\ Cardinality(S) <= MaxStored
  BY StoresFinite DEF TasksOK
<1>2. MaxStored \in Nat \ {0}
  BY TasksAssumptions
<1>3. CASE EndedAt(p) = {} /\ Cardinality(S) >= MaxStored
  <2>1. gone = {CHOOSE t \in S : \A u \in S : t <= u}
    BY <1>3 DEF Evictions
  <2>2. S # {}
    BY <1>1, <1>2, <1>3, FS_EmptySet
  <2> HIDE DEF S
  <2>3. \E t \in S : \A u \in S : t <= u
    BY <1>1, <2>2, Oldest
  <2>4. PICK t \in S : gone = {t}
    BY <2>1, <2>3
  <2>5. IsFiniteSet(S \ {t}) /\ Cardinality(S \ {t}) = Cardinality(S) - 1
    BY <1>1, FS_RemoveElement
  <2> QED
    BY <1>1, <1>2, <2>4, <2>5, FS_CardinalityType DEF S
<1>4. CASE ~(EndedAt(p) = {} /\ Cardinality(S) >= MaxStored)
  <2>1. gone \subseteq EndedAt(p) /\ Cardinality(S \ gone) < MaxStored
    BY <1>4 DEF Evictions
  <2>2. gone \subseteq S
    BY <2>1 DEF EndedAt
  <2>3. IsFiniteSet(S \ gone)
    BY <1>1, FS_Subset
  <2> QED
    BY <2>1, <2>2, <2>3, FS_CardinalityType
<1> QED
  BY <1>3, <1>4

LEMMA DroppedTask ==
    ASSUME TasksOK, NEW t \in TaskIds
    PROVE  /\ Dropped(t) \in TaskType
           /\ Dropped(t).at = tasks[t].at /\ Dropped(t).call = tasks[t].call
           /\ Dropped(t).charge = tasks[t].charge /\ Dropped(t).run = tasks[t].run
           /\ Dropped(t).stored = FALSE
           /\ Terminal(tasks[t].status) => Dropped(t).status = tasks[t].status
<1>1. tasks[t] \in TaskType
  BY TaskSeq
<1>2. CASE Terminal(tasks[t].status)
  <2>1. Dropped(t) = [tasks[t] EXCEPT !.stored = FALSE]
    BY <1>2 DEF Dropped
  <2> QED
    BY <1>1, <2>1 DEF TaskType
<1>3. CASE ~Terminal(tasks[t].status)
  <2>1. Dropped(t) = [tasks[t] EXCEPT !.status = "error", !.done = "closed", !.stored = FALSE]
    BY <1>1, <1>3 DEF Dropped, Aborted, TaskType
  <2> QED
    BY <1>1, <1>3, <2>1 DEF TaskType, Status
<1> QED
  BY <1>2, <1>3

LEMMA NewTaskType ==
    ASSUME NEW p \in Peers, NEW c \in Calls
    PROVE  /\ NewTask(p, c) \in TaskType
           /\ NewTask(p, c).at = p /\ NewTask(p, c).call = c
           /\ NewTask(p, c).stored /\ NewTask(p, c).done = "open"
           /\ NewTask(p, c).charge = FALSE
BY DEF NewTask, TaskType, Status

LEMMA AppendedTasks ==
    ASSUME NEW kept \in Seq(TaskType), NEW new \in TaskType, tasks' = Append(kept, new)
    PROVE  /\ tasks' \in Seq(TaskType) /\ Len(tasks') = Len(kept) + 1
           /\ \A t \in 1..Len(kept) : tasks'[t] = kept[t]
           /\ tasks'[Len(kept) + 1] = new
BY AppendProperties

LEMMA CreatedTasks ==
    ASSUME TasksOK, Len(tasks) < MaxTasks, NEW p \in Peers, NEW c \in Calls,
           NEW gone \in Evictions(p),
           tasks' = Append([t \in TaskIds |-> IF t \in gone THEN Dropped(t) ELSE tasks[t]],
                           NewTask(p, c))
    PROVE  /\ tasks' \in Seq(TaskType) /\ Len(tasks') = Len(tasks) + 1
           /\ TaskIds' = 1..(Len(tasks) + 1)
           /\ tasks'[Len(tasks) + 1] = NewTask(p, c)
           /\ \A t \in TaskIds : tasks'[t] = IF t \in gone THEN Dropped(t) ELSE tasks[t]
<1> DEFINE n == Len(tasks)
           kept == [t \in TaskIds |-> IF t \in gone THEN Dropped(t) ELSE tasks[t]]
<1>1. n \in Nat /\ TaskIds = 1..n /\ \A t \in TaskIds : tasks[t] \in TaskType
  BY TaskSeq
<1>2. kept \in [1..n -> TaskType]
  BY <1>1, DroppedTask
<1>3. kept \in Seq(TaskType)
  <2> HIDE DEF kept
  <2> QED
    BY <1>1, <1>2, SeqDef
<1>4. Len(kept) = n
  <2> HIDE DEF kept
  <2>1. Len(kept) \in Nat /\ DOMAIN kept = 1..Len(kept) /\ DOMAIN kept = 1..n
    BY <1>2, <1>3, LenProperties
  <2> QED
    BY <1>1, <2>1
<1>5. NewTask(p, c) \in TaskType
  BY NewTaskType
<1>6. /\ tasks' \in Seq(TaskType) /\ Len(tasks') = n + 1
      /\ \A t \in 1..n : tasks'[t] = kept[t]
      /\ tasks'[n + 1] = NewTask(p, c)
  <2>1. tasks' = Append(kept, NewTask(p, c))
    OBVIOUS
  <2> HIDE DEF kept
  <2> QED
    BY <1>3, <1>4, <1>5, <2>1, AppendedTasks
<1>7. TaskIds' = 1..(n + 1)
  BY <1>6, LenProperties DEF TaskIds
<1> QED
  BY <1>1, <1>6, <1>7

LEMMA CreateKeepsTasks ==
    ASSUME TasksOK, Len(tasks) < MaxTasks, NEW p \in Peers, NEW c \in Calls,
           ByCorr(p, c) = {}, NEW gone \in Evictions(p),
           tasks' = Append([t \in TaskIds |-> IF t \in gone THEN Dropped(t) ELSE tasks[t]],
                           NewTask(p, c))
    PROVE  TasksOK' /\ Grows /\ ResultsKept
<1>1. PICK n \in Nat : n = Len(tasks)
  BY TaskSeq
<1>2. /\ tasks' \in Seq(TaskType) /\ Len(tasks') = n + 1
      /\ TaskIds' = 1..(n + 1) /\ TaskIds = 1..n
      /\ tasks'[n + 1] = NewTask(p, c)
  BY <1>1, CreatedTasks, TaskSeq
<1>3. \A t \in TaskIds : tasks'[t] = IF t \in gone THEN Dropped(t) ELSE tasks[t]
  BY CreatedTasks
<1>4. /\ gone \subseteq StoredAt(p) /\ IsFiniteSet(StoredAt(p) \ gone)
      /\ Cardinality(StoredAt(p) \ gone) \in Nat /\ Cardinality(StoredAt(p) \ gone) < MaxStored
  BY EvictionMakesRoom
<1>5. /\ NewTask(p, c).at = p /\ NewTask(p, c).call = c
      /\ NewTask(p, c).stored /\ NewTask(p, c).done = "open"
  BY NewTaskType
<1>6. \A t \in TaskIds :
          /\ tasks'[t].at = tasks[t].at /\ tasks'[t].call = tasks[t].call
          /\ tasks'[t].stored => t \notin gone /\ tasks'[t] = tasks[t]
          /\ t \notin gone => tasks'[t] = tasks[t]
  <2> SUFFICES ASSUME NEW t \in TaskIds
               PROVE  /\ tasks'[t].at = tasks[t].at /\ tasks'[t].call = tasks[t].call
                      /\ tasks'[t].stored => t \notin gone /\ tasks'[t] = tasks[t]
                      /\ t \notin gone => tasks'[t] = tasks[t]
    OBVIOUS
  <2>1. CASE t \in gone
    BY <2>1, <1>3, DroppedTask
  <2>2. CASE t \notin gone
    BY <2>2, <1>3
  <2> QED
    BY <2>1, <2>2
<1>7. Grows
  BY <1>2, <1>6 DEF Grows
<1>8. ResultsKept
  BY <1>6 DEF ResultsKept
<1>9. ASSUME NEW q \in Peers PROVE Cardinality(StoredAt(q)') <= MaxStored
  <2>1. CASE q = p
    <3>1. StoredAt(p)' = (StoredAt(p) \ gone) \cup {n + 1}
      BY <1>2, <1>5, <1>6 DEF StoredAt
    <3>2. n + 1 \notin StoredAt(p) \ gone
      BY <1>2 DEF StoredAt
    <3>3. Cardinality((StoredAt(p) \ gone) \cup {n + 1}) = Cardinality(StoredAt(p) \ gone) + 1
      BY <1>4, <3>2, FS_AddElement
    <3> QED
      BY <1>4, <2>1, <3>1, <3>3, TasksAssumptions
  <2>2. CASE q # p
    <3>1. StoredAt(q)' = StoredAt(q)
      BY <1>2, <1>4, <1>5, <1>6, <2>2 DEF StoredAt
    <3> QED
      BY <3>1 DEF TasksOK
  <2> QED
    BY <2>1, <2>2
<1>10. ASSUME NEW t \in TaskIds', NEW u \in TaskIds', tasks'[t].stored, tasks'[u].stored,
              tasks'[t].at = tasks'[u].at, tasks'[t].call = tasks'[u].call
       PROVE  t = u
  <2>1. ASSUME NEW v \in TaskIds, tasks'[v].stored, tasks'[v].at = p, tasks'[v].call = c
        PROVE  FALSE
    BY <1>6, <2>1 DEF ByCorr, StoredAt
  <2>2. CASE t = n + 1 \/ u = n + 1
    BY <1>2, <1>5, <1>10, <2>1, <2>2
  <2>3. CASE t # n + 1 /\ u # n + 1
    <3>1. t \in TaskIds /\ u \in TaskIds
      BY <1>2, <2>3
    <3> QED
      BY <1>6, <1>10, <3>1 DEF TasksOK
  <2> QED
    BY <2>2, <2>3
<1>11. ASSUME NEW t \in TaskIds', tasks'[t].stored, ~Terminal(tasks'[t].status)
       PROVE  tasks'[t].done = "open"
  <2>1. CASE t = n + 1
    BY <1>2, <1>5, <2>1
  <2>2. CASE t \in TaskIds
    BY <1>6, <1>11, <2>2 DEF TasksOK
  <2> QED
    BY <1>2, <2>1, <2>2
<1>12. Len(tasks') <= MaxTasks
  BY <1>1, <1>2, TasksAssumptions
<1>13. TasksOK'
  BY <1>2, <1>9, <1>10, <1>11, <1>12 DEF TasksOK
<1> QED
  BY <1>7, <1>8, <1>13

LEMMA SaveScheduled ==
    ASSUME RestOK, NEW p \in Peers, ScheduleSave(p)
    PROVE  dirty' \subseteq Peers
BY DEF RestOK, ScheduleSave

LEMMA SubmitNewKeeps ==
    ASSUME IInv, NEW r \in requests, SubmitNew(r)
    PROVE  IInv'
<1>1. /\ ByCorr(r.peer, r.call) = {} /\ Len(tasks) < MaxTasks
      /\ ScheduleSave(r.peer) /\ requests' = requests \ {r}
      /\ UNCHANGED <<stopped, file, ledgers, cancels, restarts>>
  BY DEF SubmitNew, CreateTask
<1>2. r.peer \in Peers /\ r.call \in Calls
  BY DEF IInv, RequestsOK, RequestType
<1>3. PICK gone \in Evictions(r.peer) :
          tasks' = Append([t \in TaskIds |-> IF t \in gone THEN Dropped(t) ELSE tasks[t]],
                          NewTask(r.peer, r.call))
  BY DEF SubmitNew, CreateTask
<1>4. TasksOK' /\ Grows /\ ResultsKept
  BY <1>1, <1>2, <1>3, CreateKeepsTasks DEF IInv
<1>5. PICK n \in Nat : n = Len(tasks) + 1
  BY TaskSeq DEF IInv
<1>6. n \in TaskIds' /\ tasks'[n] = NewTask(r.peer, r.call)
  <2>1. Len(tasks) \in Nat
    BY TaskSeq DEF IInv
  <2> QED
    BY <1>1, <1>2, <1>3, <1>5, <2>1, CreatedTasks DEF IInv
<1>7. tasks'[n].call = r.call /\ tasks'[n].at = r.peer
  <2>1. NewTask(r.peer, r.call).call = r.call /\ NewTask(r.peer, r.call).at = r.peer
    BY <1>2, NewTaskType
  <2> QED
    BY <1>6, <2>1
<1>8. Answer(r, n)
  BY <1>5 DEF SubmitNew, CreateTask
<1>9. CallsOK' /\ RequestsOK' /\ TasksOfCallsKept
  BY <1>1, <1>4, <1>6, <1>7, <1>8, AnswerKeeps DEF IInv
<1>10. FilesOK'
  BY <1>1, <1>4, FilesKept DEF IInv
<1>11. LedgersOK'
  BY <1>1, <1>4, <1>9, LedgersKept DEF IInv
<1>12. RestOK'
  BY <1>1, <1>2, <1>4, SaveScheduled, RestKept DEF IInv
<1> QED
  BY <1>4, <1>9, <1>10, <1>11, <1>12 DEF IInv

LEMMA HandlerKeeps ==
    ASSUME IInv, NEW r \in requests, HandlerStep(r)
    PROVE  IInv'
BY AdmitSubmitKeeps, RejectSubmitKeeps, SubmitAgainKeeps, SubmitNewKeeps DEF HandlerStep

-----------------------------------------------------------------------------
(* A task's goroutine, and what happens to tasks from outside.             *)
LEMMA TaskMoves ==
    ASSUME IInv, TasksOK', Grows, ResultsKept, LedgersOK', dirty' \subseteq Peers,
           cancels' \subseteq cancels, UNCHANGED <<stopped, file, calls, requests, restarts>>
    PROVE  IInv'
<1>1. FilesOK'
  BY FilesKept DEF IInv
<1>2. CallsOK'
  BY CallsKept DEF IInv
<1>3. RequestsOK'
  BY DEF IInv, RequestsOK
<1>4. RestOK'
  BY DEF IInv, RestOK, Grows
<1> QED
  BY <1>1, <1>2, <1>3, <1>4 DEF IInv

LEMMA StartKeeps ==
    ASSUME IInv, NEW t \in TaskIds, Start(t)
    PROVE  IInv'
<1>1. TasksOK /\ RestOK /\ tasks[t] \in TaskType
  BY TaskSeq DEF IInv
<1>2. UNCHANGED <<stopped, file, ledgers, calls, requests, cancels, restarts>>
  BY DEF Start
<1>3. tasks[t].at \in Peers
  BY <1>1 DEF TaskType
<1>4. CASE tasks[t].stored /\ tasks[t].status = "accepted"
  <2> DEFINE new == [tasks[t] EXCEPT !.run = "running", !.status = "running"]
  <2>1. Set(t, new) /\ ScheduleSave(tasks[t].at)
    BY <1>4 DEF Start
  <2>2. /\ new \in TaskType /\ new.at = tasks[t].at /\ new.call = tasks[t].call
        /\ new.stored = tasks[t].stored /\ new.done = tasks[t].done
    BY <1>1 DEF TaskType, Status
  <2>3. ~Terminal(tasks[t].status) /\ tasks[t].done = "open"
    BY <1>1, <1>4 DEF Terminal, TasksOK
  <2> HIDE DEF new
  <2>4. TasksOK' /\ Grows /\ ResultsKept
    BY <1>1, <2>1, <2>2, <2>3, SetKeeps
  <2>5. LedgersOK'
    BY <1>2, <2>4, LedgersKept DEF IInv, TasksOfCallsKept
  <2> QED
    BY <1>1, <1>2, <1>3, <2>1, <2>4, <2>5, SaveScheduled, TaskMoves
<1>5. CASE ~(tasks[t].stored /\ tasks[t].status = "accepted")
  <2> DEFINE new == [tasks[t] EXCEPT !.run = "running"]
  <2>1. Set(t, new) /\ UNCHANGED dirty
    BY <1>5 DEF Start
  <2>2. /\ new \in TaskType /\ new.at = tasks[t].at /\ new.call = tasks[t].call
        /\ new.stored = tasks[t].stored /\ new.done = tasks[t].done
        /\ new.status = tasks[t].status /\ new.charge = tasks[t].charge
    BY <1>1 DEF TaskType
  <2>3. tasks[t].stored /\ ~Terminal(tasks[t].status) => tasks[t].done = "open"
    BY <1>1 DEF TasksOK
  <2> HIDE DEF new
  <2>4. TasksOK' /\ Grows /\ ResultsKept
    BY <1>1, <2>1, <2>2, <2>3, SetKeeps
  <2>5. LedgersOK'
    BY <1>2, <2>4, LedgersKept DEF IInv, TasksOfCallsKept
  <2> QED
    BY <1>1, <1>2, <2>1, <2>4, <2>5, TaskMoves DEF RestOK
<1> QED
  BY <1>4, <1>5

(* Finish: the status and the charge of a task that has not ended.         *)
LEMMA FinishKeeps ==
    ASSUME IInv, NEW t \in TaskIds, NEW ok \in BOOLEAN, Finish(t, ok)
    PROVE  IInv'
<1>1. TasksOK /\ RestOK /\ tasks[t] \in TaskType
  BY TaskSeq DEF IInv
<1>2. UNCHANGED <<stopped, file, ledgers, calls, requests, cancels, restarts>>
  BY DEF Finish
<1>3. tasks[t].at \in Peers
  BY <1>1 DEF TaskType
<1>4. PICK to \in {"charging", "over"} : to = IF ok THEN "charging" ELSE "over"
  OBVIOUS
<1>5. PICK end \in {"done", "error"} : end = IF ok THEN "done" ELSE "error"
  OBVIOUS
<1>6. CASE tasks[t].stored /\ ~Terminal(tasks[t].status)
  <2> DEFINE new == [[tasks[t] EXCEPT !.run = to]
                        EXCEPT !.status = end, !.charge = ok, !.done = "closed"]
  <2>1. Set(t, new) /\ ScheduleSave(tasks[t].at)
    BY <1>4, <1>5, <1>6 DEF Finish
  <2>2. /\ new \in TaskType /\ new.at = tasks[t].at /\ new.call = tasks[t].call
        /\ new.stored = tasks[t].stored /\ new.status = end
    BY <1>1 DEF TaskType, Status
  <2>3. Terminal(end)
    BY DEF Terminal
  <2> HIDE DEF new
  <2>4. TasksOK' /\ Grows /\ ResultsKept
    BY <1>1, <1>6, <2>1, <2>2, <2>3, SetKeeps
  <2>5. LedgersOK'
    BY <1>2, <2>4, LedgersKept DEF IInv, TasksOfCallsKept
  <2> QED
    BY <1>1, <1>2, <1>3, <2>1, <2>4, <2>5, SaveScheduled, TaskMoves
<1>7. CASE ~(tasks[t].stored /\ ~Terminal(tasks[t].status))
  <2> DEFINE new == [tasks[t] EXCEPT !.run = to]
  <2>1. Set(t, new) /\ UNCHANGED dirty
    BY <1>4, <1>7 DEF Finish
  <2>2. /\ new \in TaskType /\ new.at = tasks[t].at /\ new.call = tasks[t].call
        /\ new.stored = tasks[t].stored /\ new.done = tasks[t].done
        /\ new.status = tasks[t].status /\ new.charge = tasks[t].charge
    BY <1>1 DEF TaskType
  <2> HIDE DEF new
  <2>3. TasksOK' /\ Grows /\ ResultsKept
    BY <1>1, <1>7, <2>1, <2>2, SetKeeps
  <2>4. LedgersOK'
    BY <1>2, <2>3, LedgersKept DEF IInv, TasksOfCallsKept
  <2> QED
    BY <1>1, <1>2, <2>1, <2>3, <2>4, TaskMoves DEF RestOK
<1> QED
  BY <1>6, <1>7

LEMMA BookReceivableKeeps ==
    ASSUME IInv, NEW t \in TaskIds, BookReceivable(t)
    PROVE  IInv'
<1> DEFINE new == [tasks[t] EXCEPT !.run = "over"]
<1>1. TasksOK /\ RestOK /\ LedgersOK /\ tasks[t] \in TaskType /\ t \in Nat
  BY TaskSeq DEF IInv
<1>2. /\ Set(t, new)
      /\ UNCHANGED <<stopped, dirty, file, payable, byHand, calls, requests, cancels,
                     restarts>>
      /\ receivable' = Record(receivable, t) \/ receivable' = receivable
  BY DEF BookReceivable
<1>3. /\ new \in TaskType /\ new.at = tasks[t].at /\ new.call = tasks[t].call
      /\ new.stored = tasks[t].stored /\ new.done = tasks[t].done
      /\ new.status = tasks[t].status /\ new.charge = tasks[t].charge
  BY <1>1 DEF TaskType
<1>4. tasks[t].stored /\ ~Terminal(tasks[t].status) => tasks[t].done = "open"
  BY <1>1 DEF TasksOK
<1> HIDE DEF new
<1>5. TasksOK' /\ Grows /\ ResultsKept
  BY <1>1, <1>2, <1>3, <1>4, SetKeeps
<1>6. LedgersOK'
  <2>1. CASE receivable' = receivable
    BY <1>1, <1>2, <1>5, <2>1, LedgersKept DEF TasksOfCallsKept, ledgers
  <2>2. CASE receivable' = Record(receivable, t)
    <3>1. /\ receivable' \in Seq(Nat) /\ IsInjective(receivable')
          /\ ToSet(receivable') = ToSet(receivable) \cup {t}
      BY <1>1, <2>2, RecordOnce DEF LedgersOK
    <3>2. TaskIds \subseteq TaskIds'
      BY <1>5 DEF Grows
    <3>3. \A u \in ToSet(payable) \ byHand : calls'[tasks'[u].call].task = u
      BY <1>1, <1>2, <1>5 DEF LedgersOK, Grows
    <3> QED
      BY <1>1, <1>2, <3>1, <3>2, <3>3 DEF LedgersOK
  <2> QED
    BY <1>2, <2>1, <2>2
<1> QED
  BY <1>1, <1>2, <1>5, <1>6, TaskMoves DEF RestOK

LEMMA AbortedTask ==
    ASSUME TasksOK, NEW t \in TaskIds, NEW new, new = Aborted(t, "cancelled")
    PROVE  /\ new \in TaskType /\ new.at = tasks[t].at /\ new.call = tasks[t].call
           /\ new.stored = tasks[t].stored /\ new.status = "cancelled"
           /\ new.charge = tasks[t].charge /\ new.run = tasks[t].run
BY TaskSeq DEF Aborted, TaskType, Status

LEMMA CancelKeeps ==
    ASSUME IInv, NEW t \in cancels, Cancel(t)
    PROVE  IInv'
<1>1. TasksOK /\ RestOK /\ t \in TaskIds /\ tasks[t] \in TaskType
  BY TaskSeq DEF IInv, RestOK
<1>2. cancels' \subseteq cancels /\ UNCHANGED <<stopped, file, ledgers, calls, requests, restarts>>
  BY DEF Cancel
<1>3. tasks[t].at \in Peers
  BY <1>1 DEF TaskType
<1>4. CASE tasks[t].stored /\ ~Terminal(tasks[t].status) /\ tasks[t].at \notin stopped
  <2>1. PICK new : new = Aborted(t, "cancelled")
    OBVIOUS
  <2>2. Set(t, new) /\ ScheduleSave(tasks[t].at)
    BY <1>4, <2>1 DEF Cancel
  <2>3. /\ new \in TaskType /\ new.at = tasks[t].at /\ new.call = tasks[t].call
        /\ new.stored = tasks[t].stored /\ new.status = "cancelled"
    BY <1>1, <2>1, AbortedTask
  <2>4. Terminal("cancelled")
    BY DEF Terminal
  <2>5. TasksOK' /\ Grows /\ ResultsKept
    BY <1>1, <1>4, <2>2, <2>3, <2>4, SetKeeps
  <2>6. LedgersOK'
    BY <1>2, <2>5, LedgersKept DEF IInv, TasksOfCallsKept
  <2> QED
    BY <1>1, <1>2, <1>3, <2>2, <2>5, <2>6, SaveScheduled, TaskMoves
<1>5. CASE ~(tasks[t].stored /\ ~Terminal(tasks[t].status) /\ tasks[t].at \notin stopped)
  <2>1. UNCHANGED <<tasks, dirty>>
    BY <1>5 DEF Cancel
  <2>2. TasksOK' /\ Grows /\ ResultsKept
    BY <1>1, <2>1, TasksUnchanged
  <2>3. LedgersOK'
    BY <1>2, <2>2, LedgersKept DEF IInv, TasksOfCallsKept
  <2> QED
    BY <1>1, <1>2, <2>1, <2>2, <2>3, TaskMoves DEF RestOK
<1> QED
  BY <1>4, <1>5

LEMMA RunKeeps ==
    ASSUME IInv, NEW t \in TaskIds, RunStep(t)
    PROVE  IInv'
BY StartKeeps, FinishKeeps, BookReceivableKeeps DEF RunStep

-----------------------------------------------------------------------------
(* Saves, stops and restarts.                                              *)
LEMMA SnapshotTaken ==
    ASSUME TasksOK, NEW p \in Peers, NEW snap, snap = Snapshot(p)
    PROVE  SnapshotOK(p, snap)
<1>1. DOMAIN snap = StoredAt(p) /\ StoredAt(p) \subseteq TaskIds
  BY DEF Snapshot, StoredAt
<1>2. \A t \in StoredAt(p) : tasks[t] \in TaskType /\ tasks[t].at = p /\ tasks[t].stored
  BY TaskSeq DEF StoredAt
<1>3. \A t \in StoredAt(p) :
          /\ snap[t] \in Entry
          /\ snap[t].status = tasks[t].status /\ snap[t].charge = tasks[t].charge
  BY <1>2 DEF Snapshot, Entry, TaskType
<1>4. IsFiniteSet(StoredAt(p)) /\ Cardinality(StoredAt(p)) <= MaxStored
  BY StoresFinite DEF TasksOK
<1>5. \A t, u \in StoredAt(p) : tasks[t].call = tasks[u].call => t = u
  BY <1>1, <1>2 DEF TasksOK
<1> QED
  BY <1>1, <1>2, <1>3, <1>4, <1>5 DEF SnapshotOK

LEMMA SaveTimerKeeps ==
    ASSUME IInv, NEW p \in Peers, SaveTimer(p)
    PROVE  IInv'
<1>1. /\ UNCHANGED <<tasks, stopped, disk, ledgers, calls, requests, cancels, restarts>>
      /\ dirty' \subseteq dirty
      /\ writing' = [writing EXCEPT ![p] = @ \cup {Snapshot(p)}]
  BY DEF SaveTimer
<1>2. TasksOK' /\ Grows /\ ResultsKept
  BY <1>1, TasksUnchanged DEF IInv
<1>3. CallsOK'
  BY <1>1, <1>2, CallsKept DEF IInv
<1>4. RequestsOK'
  BY <1>1 DEF IInv, RequestsOK
<1>5. LedgersOK'
  BY <1>1, <1>2, LedgersKept DEF IInv, TasksOfCallsKept
<1>6. RestOK'
  BY <1>1, <1>2, RestKept DEF IInv, RestOK
<1>7. FilesOK'
  <2>1. DOMAIN writing = Peers /\ DOMAIN disk = Peers
    BY DEF IInv, FilesOK
  <2>2. /\ DOMAIN writing' = Peers /\ DOMAIN disk' = Peers
        /\ \A q \in Peers : writing'[q] \subseteq writing[q] \cup {Snapshot(q)}
    BY <1>1, <2>1
  <2>3. ASSUME NEW q \in Peers, NEW snap \in writing'[q] \cup {disk'[q]}
        PROVE  SnapshotOK(q, snap)'
    <3>1. CASE snap \in writing[q] \cup {disk[q]}
      BY <1>2, <3>1, SnapshotKept DEF IInv, FilesOK
    <3>2. CASE snap = Snapshot(q)
      BY <1>2, <3>2, SnapshotTaken, SnapshotKept DEF IInv
    <3> QED
      BY <1>1, <2>2, <2>3, <3>1, <3>2
  <2> QED
    BY <2>2, <2>3 DEF FilesOK
<1> QED
  BY <1>2, <1>3, <1>4, <1>5, <1>6, <1>7 DEF IInv

LEMMA SaveRenameKeeps ==
    ASSUME IInv, NEW p \in Peers, NEW new \in writing[p], SaveRename(p, new)
    PROVE  IInv'
<1>1. /\ UNCHANGED <<tasks, stopped, dirty, ledgers, calls, requests, cancels, restarts>>
      /\ writing' = [writing EXCEPT ![p] = @ \ {new}]
      /\ disk' = [disk EXCEPT ![p] = new] \/ disk' = disk
  BY DEF SaveRename
<1>2. TasksOK' /\ Grows /\ ResultsKept
  BY <1>1, TasksUnchanged DEF IInv
<1>3. CallsOK'
  BY <1>1, <1>2, CallsKept DEF IInv
<1>4. RequestsOK'
  BY <1>1 DEF IInv, RequestsOK
<1>5. LedgersOK'
  BY <1>1, <1>2, LedgersKept DEF IInv, TasksOfCallsKept
<1>6. RestOK'
  BY <1>1, <1>2, RestKept DEF IInv, RestOK
<1>7. FilesOK'
  <2>1. DOMAIN writing = Peers /\ DOMAIN disk = Peers
    BY DEF IInv, FilesOK
  <2>2. /\ DOMAIN writing' = Peers /\ DOMAIN disk' = Peers
        /\ \A q \in Peers : writing'[q] \subseteq writing[q]
        /\ \A q \in Peers : disk'[q] \in writing[q] \cup {disk[q]}
    BY <1>1, <2>1
  <2>3. ASSUME NEW q \in Peers, NEW snap \in writing'[q] \cup {disk'[q]}
        PROVE  SnapshotOK(q, snap)'
    <3>1. snap \in writing[q] \cup {disk[q]}
      BY <2>2, <2>3
    <3> QED
      BY <1>2, <3>1, SnapshotKept DEF IInv, FilesOK
  <2> QED
    BY <2>2, <2>3 DEF FilesOK
<1> QED
  BY <1>2, <1>3, <1>4, <1>5, <1>6, <1>7 DEF IInv

LEMMA RewrittenTasks ==
    ASSUME TasksOK, tasks' \in [TaskIds -> TaskType]
    PROVE  tasks' \in Seq(TaskType) /\ Len(tasks') = Len(tasks) /\ TaskIds' = TaskIds
<1>1. PICK n \in Nat : n = Len(tasks) /\ TaskIds = 1..n
  BY TaskSeq
<1>2. tasks' \in Seq(TaskType)
  BY <1>1, SeqDef
<1>3. Len(tasks') \in Nat /\ DOMAIN tasks' = 1..Len(tasks') /\ DOMAIN tasks' = 1..n
  BY <1>1, <1>2, LenProperties
<1>4. Len(tasks') = n
  BY <1>1, <1>3
<1> QED
  BY <1>1, <1>2, <1>3, <1>4 DEF TaskIds

(* Close cancels what is active and flushes the store.                     *)
LEMMA StopKeeps ==
    ASSUME IInv, NEW p \in Peers, Stop(p)
    PROVE  IInv'
<1>1. /\ UNCHANGED <<writing, ledgers, calls, cancels, restarts>>
      /\ dirty' \subseteq dirty /\ requests' \subseteq requests /\ stopped' = stopped \cup {p}
      /\ tasks' = [t \in TaskIds |->
             IF t \in ActiveAt(p) THEN Aborted(t, "cancelled") ELSE tasks[t]]
      /\ disk' = IF p \notin Persistent THEN disk
                 ELSE [disk EXCEPT ![p] = [t \in StoredAt(p) |->
                          [status |-> tasks'[t].status, charge |-> tasks[t].charge]]]
  BY DEF Stop
<1>2. TasksOK /\ FilesOK /\ \A t \in TaskIds : tasks[t] \in TaskType
  BY TaskSeq DEF IInv
<1>3. \A t \in TaskIds :
          /\ tasks'[t] \in TaskType
          /\ tasks'[t].at = tasks[t].at /\ tasks'[t].call = tasks[t].call
          /\ tasks'[t].stored = tasks[t].stored /\ tasks'[t].charge = tasks[t].charge
          /\ tasks[t].stored /\ Terminal(tasks[t].status) => tasks'[t].status = tasks[t].status
          /\ tasks[t].stored /\ ~Terminal(tasks'[t].status) => tasks'[t].done = "open"
  <2> SUFFICES ASSUME NEW t \in TaskIds
               PROVE  /\ tasks'[t] \in TaskType
                      /\ tasks'[t].at = tasks[t].at /\ tasks'[t].call = tasks[t].call
                      /\ tasks'[t].stored = tasks[t].stored /\ tasks'[t].charge = tasks[t].charge
                      /\ tasks[t].stored /\ Terminal(tasks[t].status) =>
                             tasks'[t].status = tasks[t].status
                      /\ tasks[t].stored /\ ~Terminal(tasks'[t].status) =>
                             tasks'[t].done = "open"
    OBVIOUS
  <2>1. CASE t \in ActiveAt(p)
    <3>1. tasks'[t] = Aborted(t, "cancelled") /\ ~Terminal(tasks[t].status)
      BY <1>1, <2>1 DEF ActiveAt
    <3>2. Terminal("cancelled")
      BY DEF Terminal
    <3> QED
      BY <1>2, <3>1, <3>2, AbortedTask
  <2>2. CASE t \notin ActiveAt(p)
    <3>1. tasks'[t] = tasks[t]
      BY <1>1, <2>2
    <3> QED
      BY <1>2, <3>1 DEF TasksOK
  <2> QED
    BY <2>1, <2>2
<1>4. tasks' \in [TaskIds -> TaskType]
  BY <1>1, <1>3
<1>5. tasks' \in Seq(TaskType) /\ Len(tasks') = Len(tasks) /\ TaskIds' = TaskIds
  BY <1>2, <1>4, RewrittenTasks
<1>6. TasksOK' /\ Grows /\ ResultsKept
  BY <1>2, <1>3, <1>5, StoresKept
<1>7. CallsOK'
  BY <1>1, <1>6, CallsKept DEF IInv
<1>8. RequestsOK'
  BY <1>1 DEF IInv, RequestsOK
<1>9. LedgersOK'
  BY <1>1, <1>6, LedgersKept DEF IInv, TasksOfCallsKept
<1>10. RestOK'
  BY <1>1, <1>5 DEF IInv, RestOK
<1>11. FilesOK'
  <2>1. PICK flush :
            /\ flush = [t \in StoredAt(p) |->
                          [status |-> tasks'[t].status, charge |-> tasks[t].charge]]
    OBVIOUS
  <2>2. SnapshotOK(p, flush)'
    <3>1. DOMAIN flush = StoredAt(p) /\ StoredAt(p) \subseteq TaskIds
      BY <2>1 DEF StoredAt
    <3>2. \A t \in StoredAt(p) :
              /\ flush[t] \in Entry
              /\ flush[t].status = tasks'[t].status /\ flush[t].charge = tasks'[t].charge
      BY <1>3, <2>1, <3>1 DEF Entry, TaskType
    <3>3. IsFiniteSet(StoredAt(p)) /\ Cardinality(StoredAt(p)) <= MaxStored
      BY <1>2, StoresFinite DEF TasksOK
    <3>4. \A t, u \in StoredAt(p) : tasks'[t].call = tasks'[u].call => t = u
      BY <1>2, <1>3, <3>1 DEF TasksOK, StoredAt
    <3>5. \A t \in StoredAt(p) : tasks'[t].at = p
      BY <1>3, <3>1 DEF StoredAt
    <3> QED
      BY <1>5, <3>1, <3>2, <3>3, <3>4, <3>5 DEF SnapshotOK
  <2>3. /\ DOMAIN writing' = Peers /\ DOMAIN disk' = Peers
        /\ \A q \in Peers : writing'[q] = writing[q]
        /\ \A q \in Peers : disk'[q] = disk[q] \/ (q = p /\ disk'[q] = flush)
    BY <1>1, <1>2, <2>1 DEF FilesOK
  <2>4. ASSUME NEW q \in Peers, NEW snap \in writing'[q] \cup {disk'[q]}
        PROVE  SnapshotOK(q, snap)'
    <3>1. CASE snap \in writing[q] \cup {disk[q]}
      BY <1>2, <1>6, <3>1, SnapshotKept DEF FilesOK
    <3>2. CASE q = p /\ snap = flush
      BY <2>2, <3>2
    <3> QED
      BY <2>3, <2>4, <3>1, <3>2
  <2> QED
    BY <2>3, <2>4 DEF FilesOK
<1> QED
  BY <1>6, <1>7, <1>8, <1>9, <1>10, <1>11 DEF IInv

LEMMA LoadedTask ==
    ASSUME TasksOK, NEW t \in TaskIds, NEW rec \in Entry, NEW new, new = Loaded(t, rec)
    PROVE  /\ new \in TaskType /\ new.at = tasks[t].at /\ new.call = tasks[t].call
           /\ new.stored /\ Terminal(new.status) /\ new.charge = rec.charge
           /\ Terminal(rec.status) => new.status = rec.status
<1>1. PICK s \in Status : s = IF Terminal(rec.status) THEN rec.status ELSE "error"
  BY DEF Entry, Status
<1>2. Terminal(s)
  BY <1>1 DEF Terminal
<1>3. PICK b \in BOOLEAN : b = rec.charge
  BY DEF Entry
<1>4. new = [tasks[t] EXCEPT !.status = s, !.charge = b, !.stored = TRUE,
                             !.done = "closed", !.run = "over"]
  BY <1>1, <1>3 DEF Loaded
<1>5. /\ new \in TaskType /\ new.at = tasks[t].at /\ new.call = tasks[t].call
      /\ new.stored = TRUE /\ new.status = s /\ new.charge = b
  BY <1>4, TaskSeq DEF TaskType
<1> QED
  BY <1>1, <1>2, <1>3, <1>5

(* What a restart makes of the tasks of its node is what its file says.    *)
LEMMA RestartedTasks ==
    ASSUME IInv, NEW p \in Peers, Restart(p)
    PROVE  /\ tasks' \in [TaskIds -> TaskType]
           /\ \A t \in TaskIds :
                 /\ tasks'[t].at = tasks[t].at /\ tasks'[t].call = tasks[t].call
                 /\ tasks[t].at # p => tasks'[t] = tasks[t]
                 /\ tasks[t].at = p /\ tasks'[t].stored => t \in DOMAIN disk[p]
           /\ \A t \in DOMAIN disk[p] :
                 /\ t \in TaskIds /\ tasks'[t].stored /\ Terminal(tasks'[t].status)
                 /\ Terminal(disk[p][t].status) =>
                        /\ tasks'[t].status = disk[p][t].status
                        /\ tasks'[t].charge = disk[p][t].charge
<1>1. TasksOK /\ SnapshotOK(p, disk[p]) /\ \A t \in TaskIds : tasks[t] \in TaskType
  BY TaskSeq DEF IInv, FilesOK
<1>2. tasks' = [t \in TaskIds |->
           IF tasks[t].at # p THEN tasks[t]
           ELSE IF t \in DOMAIN disk[p] THEN Loaded(t, disk[p][t])
           ELSE [tasks[t] EXCEPT !.stored = FALSE, !.run = "over"]]
  BY DEF Restart
<1>3. ASSUME NEW t \in DOMAIN disk[p]
      PROVE  /\ t \in TaskIds /\ tasks[t].at = p /\ tasks'[t] \in TaskType
             /\ tasks'[t].at = tasks[t].at /\ tasks'[t].call = tasks[t].call
             /\ tasks'[t].stored /\ Terminal(tasks'[t].status)
             /\ Terminal(disk[p][t].status) =>
                    /\ tasks'[t].status = disk[p][t].status
                    /\ tasks'[t].charge = disk[p][t].charge
  <2>1. t \in TaskIds /\ tasks[t].at = p /\ disk[p][t] \in Entry
    BY <1>1, <1>3 DEF SnapshotOK
  <2>2. tasks'[t] = Loaded(t, disk[p][t])
    BY <1>2, <1>3, <2>1
  <2> QED
    BY <1>1, <2>1, <2>2, LoadedTask
<1>4. ASSUME NEW t \in TaskIds, t \notin DOMAIN disk[p], tasks[t].at = p
      PROVE  /\ tasks'[t] \in TaskType /\ ~tasks'[t].stored
             /\ tasks'[t].at = tasks[t].at /\ tasks'[t].call = tasks[t].call
  <2>1. tasks'[t] = [tasks[t] EXCEPT !.stored = FALSE, !.run = "over"]
    BY <1>2, <1>4
  <2> QED
    BY <1>1, <2>1 DEF TaskType
<1>5. \A t \in TaskIds : tasks[t].at # p => tasks'[t] = tasks[t]
  BY <1>2
<1>6. \A t \in TaskIds : tasks'[t] \in TaskType
  BY <1>1, <1>3, <1>4, <1>5
<1>7. tasks' \in [TaskIds -> TaskType]
  BY <1>2, <1>6
<1> QED
  BY <1>3, <1>4, <1>5, <1>7

LEMMA RestartKeeps ==
    ASSUME IInv, NEW p \in Peers, Restart(p)
    PROVE  IInv'
<1>1. TasksOK /\ FilesOK /\ SnapshotOK(p, disk[p])
  BY DEF IInv, FilesOK
<1>2. /\ restarts < MaxRestarts /\ restarts' = restarts + 1
      /\ stopped' \subseteq stopped /\ dirty' \subseteq dirty /\ requests' \subseteq requests
      /\ writing' = [writing EXCEPT ![p] = {}]
      /\ UNCHANGED <<disk, ledgers, calls, cancels>>
  BY DEF Restart
<1>3. tasks' \in Seq(TaskType) /\ Len(tasks') = Len(tasks) /\ TaskIds' = TaskIds
  BY <1>1, RestartedTasks, RewrittenTasks
<1>4. Grows
  BY <1>3, RestartedTasks DEF Grows
<1>5. TasksOK'
  <2>1. StoredAt(p)' = DOMAIN disk[p]
    BY <1>1, <1>3, RestartedTasks DEF StoredAt, SnapshotOK
  <2>2. \A q \in Peers : q # p => StoredAt(q)' = StoredAt(q)
    BY <1>3, RestartedTasks DEF StoredAt
  <2>3. \A q \in Peers : Cardinality(StoredAt(q)') <= MaxStored
    BY <1>1, <2>1, <2>2 DEF TasksOK, SnapshotOK
  <2>4. ASSUME NEW t \in TaskIds, NEW u \in TaskIds, tasks'[t].stored, tasks'[u].stored,
               tasks'[t].at = tasks'[u].at, tasks'[t].call = tasks'[u].call
        PROVE  t = u
    <3>1. tasks[t].at = tasks[u].at /\ tasks[t].call = tasks[u].call
      BY <2>4, RestartedTasks
    <3>2. CASE tasks[t].at = p
      <4>1. t \in DOMAIN disk[p] /\ u \in DOMAIN disk[p]
        BY <2>4, <3>1, <3>2, RestartedTasks
      <4> QED
        BY <1>1, <3>1, <4>1 DEF SnapshotOK
    <3>3. CASE tasks[t].at # p
      <4>1. tasks'[t] = tasks[t] /\ tasks'[u] = tasks[u]
        BY <3>1, <3>3, RestartedTasks
      <4> QED
        BY <1>1, <2>4, <4>1 DEF TasksOK
    <3> QED
      BY <3>2, <3>3
  <2>5. ASSUME NEW t \in TaskIds, tasks'[t].stored, ~Terminal(tasks'[t].status)
        PROVE  tasks'[t].done = "open"
    <3>1. tasks[t].at # p
      BY <2>5, RestartedTasks
    <3>2. tasks'[t] = tasks[t]
      BY <3>1, RestartedTasks
    <3> QED
      BY <1>1, <2>5, <3>2 DEF TasksOK
  <2> QED
    BY <1>1, <1>3, <2>3, <2>4, <2>5 DEF TasksOK
<1>6. CallsOK'
  BY <1>2, <1>4, CallsKept DEF IInv
<1>7. RequestsOK'
  BY <1>2 DEF IInv, RequestsOK
<1>8. LedgersOK'
  BY <1>2, <1>4, LedgersKept DEF IInv, TasksOfCallsKept
<1>9. RestOK'
  BY <1>2, <1>3, TasksAssumptions DEF IInv, RestOK
<1>10. FilesOK'
  <2>1. /\ DOMAIN writing' = Peers /\ DOMAIN disk' = Peers
        /\ writing'[p] = {} /\ \A q \in Peers : q # p => writing'[q] = writing[q]
    BY <1>1, <1>2 DEF FilesOK
  <2>2. ASSUME NEW q \in Peers, q # p, NEW snap \in writing[q] \cup {disk[q]}
        PROVE  SnapshotOK(q, snap)'
    <3>1. SnapshotOK(q, snap)
      BY <1>1, <2>2 DEF FilesOK
    <3>2. \A t \in DOMAIN snap : t \in TaskIds /\ tasks'[t] = tasks[t]
      BY <2>2, <3>1, RestartedTasks DEF SnapshotOK
    <3> QED
      BY <1>3, <3>1, <3>2 DEF SnapshotOK
  <2>3. PICK snap : snap = disk[p]
    OBVIOUS
  <2>4. SnapshotOK(p, snap)'
    <3>1. SnapshotOK(p, snap)
      BY <1>1, <2>3
    <3>2. \A t \in DOMAIN snap :
              /\ tasks'[t].at = tasks[t].at /\ tasks'[t].call = tasks[t].call
              /\ Terminal(snap[t].status) =>
                     tasks'[t].status = snap[t].status /\ tasks'[t].charge = snap[t].charge
      BY <2>3, RestartedTasks
    <3> QED
      BY <1>3, <3>1, <3>2 DEF SnapshotOK
  <2>5. ASSUME NEW q \in Peers, NEW s \in writing'[q] \cup {disk'[q]}
        PROVE  SnapshotOK(q, s)'
    <3>1. CASE q = p
      BY <1>2, <2>1, <2>3, <2>4, <2>5, <3>1
    <3>2. CASE q # p
      BY <1>2, <2>1, <2>2, <2>5, <3>2
    <3> QED
      BY <3>1, <3>2
  <2> QED
    BY <2>1, <2>5 DEF FilesOK
<1> QED
  BY <1>5, <1>6, <1>7, <1>8, <1>9, <1>10 DEF IInv

-----------------------------------------------------------------------------
LEMMA InitIInv == Init => IInv
<1> SUFFICES ASSUME Init PROVE IInv
  OBVIOUS
<1>1. TaskIds = {} /\ tasks \in Seq(TaskType) /\ Len(tasks) = 0
  BY EmptySeq DEF Init, TaskIds
<1>2. TasksOK
  <2>1. \A p \in Peers : StoredAt(p) = {}
    BY <1>1 DEF StoredAt
  <2>2. \A p \in Peers : Cardinality(StoredAt(p)) <= MaxStored
    BY <2>1, FS_EmptySet, TasksAssumptions
  <2>3. Len(tasks) <= MaxTasks
    BY <1>1, TasksAssumptions
  <2> QED
    BY <1>1, <2>2, <2>3 DEF TasksOK
<1>3. FilesOK
  <2>1. PICK empty : empty = << >>
    OBVIOUS
  <2>2. DOMAIN empty = {}
    BY <2>1
  <2>3. \A p \in Peers : SnapshotOK(p, empty)
    BY <2>2, FS_EmptySet, TasksAssumptions DEF SnapshotOK
  <2>4. /\ DOMAIN writing = Peers /\ DOMAIN disk = Peers
        /\ \A p \in Peers : writing[p] = {} /\ disk[p] = empty
    BY <2>1 DEF Init
  <2> QED
    BY <2>3, <2>4 DEF FilesOK
<1>4. CallsOK
  BY TasksAssumptions DEF Init, CallsOK, CallType, CallOK
<1>5. RequestsOK
  BY DEF Init, RequestsOK
<1>6. LedgersOK
  BY EmptySeq DEF Init, LedgersOK, ToSet, IsInjective
<1>7. RestOK
  BY TasksAssumptions DEF Init, RestOK
<1> QED
  BY <1>2, <1>3, <1>4, <1>5, <1>6, <1>7 DEF IInv

LEMMA NextIInv == IInv /\ [Next]_vars => IInv'
<1>1. ASSUME IInv, UNCHANGED vars PROVE IInv'
  <2>1. /\ UNCHANGED <<tasks, stopped, dirty, writing, disk, receivable, payable, byHand>>
        /\ UNCHANGED <<calls, requests, cancels, restarts>>
    BY <1>1 DEF vars
  <2>2. TasksOK' /\ Grows /\ ResultsKept
    BY <1>1, <2>1, TasksUnchanged DEF IInv
  <2>3. LedgersOK'
    BY <1>1, <2>1, <2>2, LedgersKept DEF IInv, TasksOfCallsKept, ledgers
  <2> QED
    BY <1>1, <2>1, <2>2, <2>3, TaskMoves DEF IInv, RestOK, file
<1> QED
  BY <1>1, CallerKeeps, HandlerKeeps, RunKeeps, CancelKeeps, StopKeeps, RestartKeeps,
     RefetchKeeps, SaveTimerKeeps, SaveRenameKeeps DEF Next

(* The inductive invariant holds of every behaviour.                       *)
THEOREM TasksInvariant == Spec => []IInv
  BY InitIInv, NextIInv, PTL DEF Spec

(* The variables keep their types; whatever the retries, handlers and      *)
(* restarts, no store holds more than maxStoredTasks, although submits     *)
(* that were admitted together find it full.                               *)
THEOREM TasksTypes == Spec => []TasksTypeOK
<1>1. ASSUME IInv PROVE TasksTypeOK
  <2>1. TasksOK /\ FilesOK /\ CallsOK /\ RequestsOK /\ LedgersOK /\ RestOK
    BY <1>1 DEF IInv
  <2>2. PICK n \in Nat : n = Len(tasks) /\ TaskIds = 1..n
    BY <2>1, TaskSeq
  <2>3. receivable \in Seq(TaskIds)
    <3>1. PICK m \in Nat : receivable \in [1..m -> TaskIds]
      BY <2>1, LenProperties DEF LedgersOK, ToSet
    <3> QED
      BY <3>1, SeqDef
  <2>4. payable \in Seq(TaskIds)
    <3>1. PICK m \in Nat : payable \in [1..m -> TaskIds]
      BY <2>1, LenProperties DEF LedgersOK, ToSet
    <3> QED
      BY <3>1, SeqDef
  <2>5. calls \in [Calls -> [pc : {"idle", "next", "submit", "poll", "ended"},
                             peer : Peers \cup {Nobody}, tried : SUBSET Peers,
                             attempt : 0..MaxAttempts, task : 0..Len(tasks),
                             failures : 0..MaxFailures]]
    <3>1. \A c \in Calls : calls[c] \in CallType /\ calls[c].task \in 0..n
      BY <2>1, <2>2 DEF CallsOK, CallOK, CallType
    <3>2. calls = [c \in Calls |-> calls[c]]
      BY <2>1 DEF CallsOK
    <3> QED
      BY <2>2, <3>1, <3>2 DEF CallType
  <2>6. \A p \in Peers : \A snap \in writing[p] \cup {disk[p]} :
           /\ DOMAIN snap \subseteq TaskIds
           /\ \A t \in DOMAIN snap : snap[t] \in [status : Status, charge : BOOLEAN]
    BY <2>1 DEF FilesOK, SnapshotOK, Entry
  <2>7. requests \subseteq [call : Calls, peer : Peers, attempt : 1..MaxAttempts,
                            pc : {"received", "admitted"}, waits : BOOLEAN]
    BY <2>1 DEF RequestsOK, RequestType
  <2>8. byHand \subseteq TaskIds
    BY <2>1 DEF LedgersOK
  <2> QED
    BY <2>1, <2>3, <2>4, <2>5, <2>6, <2>7, <2>8 DEF TasksTypeOK, TasksOK, RestOK
<1> QED
  BY <1>1, TasksInvariant, PTL

LEMMA AtMostOne ==
    ASSUME NEW S, \A x, y \in S : x = y
    PROVE  Cardinality(S) <= 1
<1>1. CASE S = {}
  BY <1>1, FS_EmptySet
<1>2. CASE S # {}
  <2>1. PICK x : S = {x}
    BY <1>2
  <2> QED
    BY <2>1, FS_Singleton
<1> QED
  BY <1>1, <1>2

(* For any number of retries, handlers, evictions and restarts a peer      *)
(* stores one task for a call, and an accepted call polls its own.         *)
THEOREM OneTaskEach == Spec => []OneTaskPerCall
<1>1. ASSUME IInv PROVE OneTaskPerCall
  <2>1. ASSUME NEW p \in Peers, NEW c \in Calls PROVE Cardinality(ByCorr(p, c)) <= 1
    <3>1. \A t, u \in ByCorr(p, c) : t = u
      BY <1>1 DEF ByCorr, StoredAt, IInv, TasksOK
    <3> QED
      BY <3>1, AtMostOne
  <2>2. \A c \in Calls : calls[c].pc = "poll" =>
            tasks[calls[c].task].call = c /\ tasks[calls[c].task].at = calls[c].peer
    BY <1>1 DEF IInv, CallsOK, CallOK
  <2> QED
    BY <2>1, <2>2 DEF OneTaskPerCall
<1> QED
  BY <1>1, TasksInvariant, PTL

(* A charge is booked once on either side, with ledger writes that fail or *)
(* not, and a call by itself books one task; the other tasks it left at    *)
(* peers are booked only by a fetch that names their id.                   *)
THEOREM ChargesBookedOnce == Spec => []BookedOnce
<1>1. ASSUME IInv PROVE BookedOnce
  <2>1. LedgersOK
    BY <1>1 DEF IInv
  <2>2. ASSUME NEW c \in Calls
        PROVE  Cardinality({ t \in ToSet(payable) \ byHand : tasks[t].call = c }) <= 1
    <3> DEFINE S == { t \in ToSet(payable) \ byHand : tasks[t].call = c }
    <3>1. \A t, u \in S : t = u
      BY <2>1 DEF LedgersOK
    <3> HIDE DEF S
    <3>2. Cardinality(S) <= 1
      BY <3>1, AtMostOne
    <3> QED
      BY <3>2 DEF S
  <2> QED
    BY <2>1, <2>2 DEF BookedOnce, LedgersOK
<1> QED
  BY <1>1, TasksInvariant, PTL

(* No task file, and no file that a save is writing, contradicts what the  *)
(* owner has been told of a finished task, whichever save is overtaken and *)
(* whenever the node stops or crashes.                                     *)
THEOREM SavedResultsStay == Spec => []SavedResultsHold
<1>1. IInv => SavedResultsHold
  BY DEF IInv, FilesOK, SnapshotOK, SavedResultsHold
<1> QED
  BY <1>1, TasksInvariant, PTL

-----------------------------------------------------------------------------
(* How a step changes the status, the charge and the goroutine of tasks.   *)
StatusKept == \A t \in TaskIds : Terminal(tasks[t].status) => tasks'[t].status = tasks[t].status

LEMMA CallerLeavesTasks ==
    ASSUME NEW c, CallStep(c)
    PROVE  UNCHANGED <<tasks, receivable, restarts>>
BY DEF CallStep, NextCandidate, NoCandidateLeft, SubmitRemoteTask, SubmitFails,
       PollAnswered, PollFails, CallerCancelled, ledgers

LEMMA HandlerTasks ==
    ASSUME IInv, NEW r \in requests, HandlerStep(r)
    PROVE  /\ UNCHANGED <<receivable, payable, restarts>>
           /\ \/ tasks' = tasks
              \/ /\ TaskIds' = 1..(Len(tasks) + 1)
                 /\ tasks'[Len(tasks) + 1].charge = FALSE
                 /\ \A t \in TaskIds :
                       /\ Terminal(tasks[t].status) => tasks'[t].status = tasks[t].status
                       /\ tasks'[t].charge = tasks[t].charge /\ tasks'[t].run = tasks[t].run
<1>1. CASE AdmitSubmit(r) \/ RejectSubmit(r) \/ SubmitAgain(r)
  BY <1>1 DEF AdmitSubmit, RejectSubmit, SubmitAgain, ledgers
<1>2. CASE SubmitNew(r)
  <2>1. Len(tasks) < MaxTasks /\ UNCHANGED <<receivable, payable, restarts>>
    BY <1>2 DEF SubmitNew, CreateTask, ledgers
  <2>2. r.peer \in Peers /\ r.call \in Calls /\ TasksOK
    BY DEF IInv, RequestsOK, RequestType
  <2>3. PICK gone \in Evictions(r.peer) :
            tasks' = Append([t \in TaskIds |-> IF t \in gone THEN Dropped(t) ELSE tasks[t]],
                            NewTask(r.peer, r.call))
    BY <1>2 DEF SubmitNew, CreateTask
  <2>4. /\ TaskIds' = 1..(Len(tasks) + 1)
        /\ tasks'[Len(tasks) + 1] = NewTask(r.peer, r.call)
        /\ \A t \in TaskIds : tasks'[t] = IF t \in gone THEN Dropped(t) ELSE tasks[t]
    BY <2>1, <2>2, <2>3, CreatedTasks
  <2>5. NewTask(r.peer, r.call).charge = FALSE
    BY <2>2, NewTaskType
  <2>6. ASSUME NEW t \in TaskIds
        PROVE  /\ Terminal(tasks[t].status) => tasks'[t].status = tasks[t].status
               /\ tasks'[t].charge = tasks[t].charge /\ tasks'[t].run = tasks[t].run
    <3>1. CASE t \in gone
      <4>1. tasks'[t] = Dropped(t)
        BY <2>4, <3>1
      <4> QED
        BY <2>2, <4>1, DroppedTask
    <3>2. CASE t \notin gone
      BY <2>4, <3>2
    <3> QED
      BY <3>1, <3>2
  <2> QED
    BY <2>1, <2>4, <2>5, <2>6
<1> QED
  BY <1>1, <1>2 DEF HandlerStep

LEMMA SetTask ==
    ASSUME TasksOK, NEW t \in TaskIds, NEW new, Set(t, new)
    PROVE  /\ TaskIds' = TaskIds /\ tasks'[t] = new
           /\ \A u \in TaskIds : u # t => tasks'[u] = tasks[u]
<1>1. tasks \in Seq(TaskType)
  BY DEF TasksOK
<1>2. tasks' = [tasks EXCEPT ![t] = new] /\ DOMAIN tasks = TaskIds
  BY DEF Set, TaskIds
<1>3. tasks = [u \in TaskIds |-> tasks[u]]
  BY <1>1, <1>2, LenProperties
<1> QED
  BY <1>2, <1>3 DEF TaskIds

LEMMA RunTasks ==
    ASSUME IInv, NEW t \in TaskIds, RunStep(t)
    PROVE  /\ TaskIds' = TaskIds
           /\ \A u \in TaskIds : u # t => tasks'[u] = tasks[u]
           /\ Terminal(tasks[t].status) => tasks'[t].status = tasks[t].status
<1>1. TasksOK /\ tasks[t] \in TaskType
  BY TaskSeq DEF IInv
<1>2. ASSUME NEW new, Set(t, new), Terminal(tasks[t].status) => new.status = tasks[t].status
      PROVE  /\ TaskIds' = TaskIds
             /\ \A u \in TaskIds : u # t => tasks'[u] = tasks[u]
             /\ Terminal(tasks[t].status) => tasks'[t].status = tasks[t].status
  BY <1>1, <1>2, SetTask
<1>3. CASE Start(t)
  <2>1. CASE tasks[t].stored /\ tasks[t].status = "accepted"
    <3>1. ~Terminal(tasks[t].status)
      BY <2>1 DEF Terminal
    <3> QED
      BY <1>2, <1>3, <2>1, <3>1 DEF Start
  <2>2. CASE ~(tasks[t].stored /\ tasks[t].status = "accepted")
    <3>1. Set(t, [tasks[t] EXCEPT !.run = "running"])
      BY <1>3, <2>2 DEF Start
    <3>2. [tasks[t] EXCEPT !.run = "running"].status = tasks[t].status
      BY <1>1 DEF TaskType
    <3> QED
      BY <1>2, <3>1, <3>2
  <2> QED
    BY <2>1, <2>2
<1>4. CASE BookReceivable(t)
  <2>1. Set(t, [tasks[t] EXCEPT !.run = "over"])
    BY <1>4 DEF BookReceivable
  <2>2. [tasks[t] EXCEPT !.run = "over"].status = tasks[t].status
    BY <1>1 DEF TaskType
  <2> QED
    BY <1>2, <2>1, <2>2
<1>5. ASSUME NEW ok \in BOOLEAN, Finish(t, ok)
      PROVE  /\ TaskIds' = TaskIds
             /\ \A u \in TaskIds : u # t => tasks'[u] = tasks[u]
             /\ Terminal(tasks[t].status) => tasks'[t].status = tasks[t].status
  <2>1. PICK to : to = IF ok THEN "charging" ELSE "over"
    OBVIOUS
  <2>2. CASE tasks[t].stored /\ ~Terminal(tasks[t].status)
    <3>1. \E new : Set(t, new)
      BY <1>5, <2>2 DEF Finish
    <3> QED
      BY <1>2, <2>2, <3>1
  <2>3. CASE ~(tasks[t].stored /\ ~Terminal(tasks[t].status))
    <3>1. Set(t, [tasks[t] EXCEPT !.run = to])
      BY <1>5, <2>1, <2>3 DEF Finish
    <3>2. [tasks[t] EXCEPT !.run = to].status = tasks[t].status
      BY <1>1 DEF TaskType
    <3> QED
      BY <1>2, <3>1, <3>2
  <2> QED
    BY <2>2, <2>3
<1> QED
  BY <1>3, <1>4, <1>5 DEF RunStep

LEMMA StatusStep ==
    ASSUME IInv, [Next]_vars, restarts' = restarts
    PROVE  StatusKept
<1>1. TasksOK /\ restarts \in Nat /\ cancels \subseteq TaskIds
  BY TasksAssumptions DEF IInv, RestOK
<1>2. CASE UNCHANGED tasks
  BY <1>2 DEF StatusKept
<1>3. ASSUME NEW r \in requests, HandlerStep(r) PROVE StatusKept
  BY <1>2, <1>3, HandlerTasks DEF StatusKept
<1>4. ASSUME NEW t \in TaskIds, RunStep(t) PROVE StatusKept
  BY <1>4, RunTasks DEF StatusKept
<1>5. ASSUME NEW t \in cancels, Cancel(t) PROVE StatusKept
  <2>1. CASE Terminal(tasks[t].status)
    BY <1>2, <1>5, <2>1 DEF Cancel
  <2>2. CASE ~Terminal(tasks[t].status)
    <3>1. tasks' = tasks \/ Set(t, Aborted(t, "cancelled"))
      BY <1>5 DEF Cancel
    <3>2. ASSUME Set(t, Aborted(t, "cancelled")) PROVE StatusKept
      BY <1>1, <2>2, <3>2, SetTask DEF StatusKept
    <3> QED
      BY <1>2, <3>1, <3>2
  <2> QED
    BY <2>1, <2>2
<1>6. ASSUME NEW p \in Peers, Stop(p) PROVE StatusKept
  <2>1. \A t \in TaskIds : t \notin ActiveAt(p) => tasks'[t] = tasks[t]
    BY <1>6 DEF Stop
  <2> QED
    BY <2>1 DEF StatusKept, ActiveAt
<1>7. ASSUME NEW p \in Peers, Restart(p) PROVE FALSE
  <2>1. restarts' = restarts + 1
    BY <1>7 DEF Restart
  <2> QED
    BY <1>1, <2>1
<1>8. ASSUME NEW p \in Peers, SaveTimer(p) PROVE StatusKept
  BY <1>2, <1>8 DEF SaveTimer
<1>9. ASSUME NEW p \in Peers, NEW snap \in writing[p], SaveRename(p, snap) PROVE StatusKept
  BY <1>2, <1>9 DEF SaveRename
<1>10. ASSUME NEW c \in Calls, CallStep(c) PROVE StatusKept
  BY <1>2, <1>10, CallerLeavesTasks
<1>11. ASSUME UNCHANGED vars PROVE StatusKept
  BY <1>2, <1>11 DEF vars
<1>12. ASSUME NEW t \in TaskIds, Refetch(t) PROVE StatusKept
  BY <1>2, <1>12 DEF Refetch
<1> QED
  BY <1>3, <1>4, <1>5, <1>6, <1>7, <1>8, <1>9, <1>10, <1>11, <1>12 DEF Next

(* Between two restarts a terminal status never changes, whoever writes it *)
(* first, and Finish never closes a done channel a second time.            *)
THEOREM TerminalStays == Spec => TerminalIsFinal
<1>1. ASSUME IInv, [Next]_vars
      PROVE  \A t \in TaskIds :
                 /\ Terminal(tasks[t].status) /\ restarts' = restarts =>
                        tasks'[t].status = tasks[t].status
                 /\ tasks[t].stored /\ ~Terminal(tasks[t].status) => tasks[t].done = "open"
  <2>1. restarts' = restarts => StatusKept
    BY <1>1, StatusStep
  <2>2. \A t \in TaskIds :
            tasks[t].stored /\ ~Terminal(tasks[t].status) => tasks[t].done = "open"
    BY <1>1 DEF IInv, TasksOK
  <2> QED
    BY <2>1, <2>2 DEF StatusKept
<1> QED
  BY <1>1, TasksInvariant, PTL DEF Spec, TerminalIsFinal

-----------------------------------------------------------------------------
(* The two ledgers, as long as no node is restarted and no write fails.    *)
BooksInv == IInv /\ ChargesBooked /\ BothSidesBook

LEMMA ChargesKept ==
    ASSUME IInv, ChargesBooked, receivable' = receivable,
           \A t \in TaskIds' : tasks'[t].charge =>
               t \in TaskIds /\ tasks[t].charge /\ tasks'[t].run = tasks[t].run
    PROVE  ChargesBooked'
BY DEF ChargesBooked

LEMMA RowsKept ==
    ASSUME IInv, BothSidesBook, UNCHANGED <<receivable, payable>>,
           \A t \in TaskIds : tasks[t].run = "charging" => tasks'[t].run = "charging"
    PROVE  BothSidesBook'
BY DEF BothSidesBook, IInv, LedgersOK

(* What Refetch and pollRemoteTask book is a charge that the task has.     *)
LEMMA FetchBooks ==
    ASSUME BooksInv, NEW t \in TaskIds, Books(t), UNCHANGED <<tasks, receivable>>
    PROVE  ChargesBooked' /\ BothSidesBook'
<1>1. ChargesBooked'
  BY DEF BooksInv, ChargesBooked, TaskIds
<1>2. /\ LedgersOK /\ TasksOK /\ t \in Nat
      /\ payable \in Seq(Nat) /\ IsInjective(payable)
  BY TaskSeq DEF BooksInv, IInv, LedgersOK
<1>3. ASSUME payable' = payable PROVE BothSidesBook'
  BY <1>3 DEF BooksInv, BothSidesBook
<1>4. ASSUME payable' # payable PROVE BothSidesBook'
  <2>1. tasks[t].charge /\ payable' = Record(payable, t)
    BY <1>4 DEF Books
  <2>2. ToSet(payable') = ToSet(payable) \cup {t}
    BY <1>2, <2>1, RecordOnce
  <2>3. tasks[t].run = "charging" \/ Contains(receivable, t)
    BY <2>1 DEF BooksInv, ChargesBooked
  <2> QED
    BY <2>2, <2>3 DEF BooksInv, BothSidesBook
<1> QED
  BY <1>1, <1>3, <1>4

LEMMA CallerBooks ==
    ASSUME BooksInv, NEW c \in Calls, CallStep(c)
    PROVE  ChargesBooked' /\ BothSidesBook'
<1>1. UNCHANGED <<tasks, receivable>>
  BY CallerLeavesTasks
<1>2. ChargesBooked'
  BY <1>1 DEF BooksInv, ChargesBooked, TaskIds
<1>3. /\ CallsOK /\ LedgersOK /\ TasksOK /\ CallOK(c)
  BY DEF BooksInv, IInv, CallsOK
<1>4. \/ payable' = payable
      \/ calls[c].task # 0 /\ Books(calls[c].task)
  BY <1>3 DEF CallStep, NextCandidate, NoCandidateLeft, SubmitRemoteTask, SubmitFails,
              PollAnswered, PollFails, CallerCancelled, ledgers, CallOK
<1>5. ASSUME payable' = payable PROVE BothSidesBook'
  BY <1>1, <1>5 DEF BooksInv, BothSidesBook
<1>6. ASSUME payable' # payable PROVE BothSidesBook'
  <2>1. PICK t \in TaskIds : t = calls[c].task
    BY <1>3, <1>4, <1>6 DEF CallOK
  <2>2. Books(t)
    BY <1>4, <1>6, <2>1
  <2> QED
    BY <1>1, <2>1, <2>2, FetchBooks
<1> QED
  BY <1>2, <1>5, <1>6

LEMMA HandlerBooks ==
    ASSUME BooksInv, NEW r \in requests, HandlerStep(r)
    PROVE  ChargesBooked' /\ BothSidesBook'
<1>1. IInv /\ ChargesBooked /\ BothSidesBook
  BY DEF BooksInv
<1>2. UNCHANGED <<receivable, payable>>
  BY <1>1, HandlerTasks
<1>3. CASE tasks' = tasks
  BY <1>1, <1>2, <1>3 DEF ChargesBooked, BothSidesBook, TaskIds
<1>4. CASE tasks' # tasks
  <2>1. PICK n \in Nat : n = Len(tasks) /\ TaskIds = 1..n
    BY <1>1, TaskSeq DEF IInv
  <2>2. /\ TaskIds' = 1..(n + 1) /\ tasks'[n + 1].charge = FALSE
        /\ \A t \in TaskIds : tasks'[t].charge = tasks[t].charge /\ tasks'[t].run = tasks[t].run
    BY <1>1, <1>4, <2>1, HandlerTasks
  <2>3. \A t \in TaskIds' : tasks'[t].charge =>
            t \in TaskIds /\ tasks[t].charge /\ tasks'[t].run = tasks[t].run
    BY <2>1, <2>2
  <2> QED
    BY <1>1, <1>2, <2>2, <2>3, ChargesKept, RowsKept
<1> QED
  BY <1>3, <1>4

(* Finish hands the charge to the goroutine that books it.                 *)
LEMMA RunBooks ==
    ASSUME WritesMayFail = FALSE, BooksInv, NEW t \in TaskIds, RunStep(t)
    PROVE  ChargesBooked' /\ BothSidesBook'
<1>1. IInv /\ ChargesBooked /\ BothSidesBook /\ TasksOK /\ tasks[t] \in TaskType /\ t \in Nat
  BY TaskSeq DEF BooksInv, IInv
<1>2. TaskIds' = TaskIds /\ \A u \in TaskIds : u # t => tasks'[u] = tasks[u]
  BY <1>1, RunTasks
<1>3. CASE Start(t)
  <2>1. /\ UNCHANGED <<receivable, payable>> /\ tasks[t].run = "spawned"
        /\ \E s \in Status : tasks' = [tasks EXCEPT ![t] =
                                          [tasks[t] EXCEPT !.run = "running", !.status = s]]
    <3>1. [tasks[t] EXCEPT !.run = "running"]
              = [tasks[t] EXCEPT !.run = "running", !.status = tasks[t].status]
      BY <1>1 DEF TaskType
    <3>2. tasks[t].status \in Status /\ "running" \in Status
      BY <1>1 DEF TaskType, Status
    <3> QED
      BY <1>3, <3>1, <3>2 DEF Start, Set, ledgers
  <2>2. PICK new : Set(t, new) /\ new.charge = tasks[t].charge
    BY <1>1, <2>1 DEF Set, TaskType
  <2>3. tasks'[t].charge = tasks[t].charge
    BY <1>1, <2>2, SetTask
  <2>4. tasks[t].charge => Contains(receivable, t)
    BY <1>1, <2>1 DEF ChargesBooked
  <2>5. ChargesBooked'
    BY <1>1, <1>2, <2>1, <2>3, <2>4 DEF ChargesBooked
  <2>6. \A u \in TaskIds : tasks[u].run = "charging" => tasks'[u].run = "charging"
    BY <1>2, <2>1
  <2> QED
    BY <1>1, <2>1, <2>5, <2>6, RowsKept
<1>4. CASE BookReceivable(t)
  <2>1. receivable' = Record(receivable, t) /\ payable' = payable
    BY <1>4 DEF BookReceivable
  <2>2. \A u : Contains(receivable', u) <=> Contains(receivable, u) \/ u = t
    BY <1>1, <2>1, RecordOnce DEF IInv, LedgersOK
  <2>3. ChargesBooked'
    BY <1>1, <1>2, <2>2 DEF ChargesBooked
  <2>4. BothSidesBook'
    BY <1>1, <1>2, <2>1, <2>2 DEF BothSidesBook, IInv, LedgersOK
  <2> QED
    BY <2>3, <2>4
<1>5. ASSUME NEW ok \in BOOLEAN, Finish(t, ok) PROVE ChargesBooked' /\ BothSidesBook'
  <2>1. UNCHANGED <<receivable, payable>> /\ tasks[t].run = "running"
    BY <1>5 DEF Finish, ledgers
  <2>2. PICK to \in {"charging", "over"} : to = IF ok THEN "charging" ELSE "over"
    OBVIOUS
  <2>3. tasks'[t].charge => tasks'[t].run = "charging" \/ tasks[t].charge
    <3>1. CASE tasks[t].stored /\ ~Terminal(tasks[t].status)
      <4>1. PICK end \in Status : end = IF ok THEN "done" ELSE "error"
        BY DEF Status
      <4>2. PICK new : /\ new = [[tasks[t] EXCEPT !.run = to]
                                    EXCEPT !.status = end, !.charge = ok, !.done = "closed"]
                       /\ Set(t, new)
        BY <1>5, <2>2, <3>1, <4>1 DEF Finish
      <4>3. new.run = to /\ new.charge = ok
        BY <1>1, <4>2 DEF TaskType
      <4>4. tasks'[t] = new
        BY <1>1, <4>2, SetTask
      <4> QED
        BY <2>2, <4>3, <4>4
    <3>2. CASE ~(tasks[t].stored /\ ~Terminal(tasks[t].status))
      <4>1. PICK new : new = [tasks[t] EXCEPT !.run = to] /\ Set(t, new)
        BY <1>5, <2>2, <3>2 DEF Finish
      <4>2. new.charge = tasks[t].charge
        BY <1>1, <4>1 DEF TaskType
      <4>3. tasks'[t] = new
        BY <1>1, <4>1, SetTask
      <4> QED
        BY <4>2, <4>3
    <3> QED
      BY <3>1, <3>2
  <2>4. tasks[t].charge => Contains(receivable, t)
    BY <1>1, <2>1 DEF ChargesBooked
  <2>5. ChargesBooked'
    BY <1>1, <1>2, <2>1, <2>3, <2>4 DEF ChargesBooked
  <2>6. \A u \in TaskIds : tasks[u].run = "charging" => tasks'[u].run = "charging"
    BY <1>2, <2>1
  <2> QED
    BY <1>1, <2>1, <2>5, <2>6, RowsKept
<1> QED
  BY <1>3, <1>4, <1>5 DEF RunStep

LEMMA BooksStep ==
    ASSUME WritesMayFail = FALSE, BooksInv, [Next]_vars, restarts' = restarts
    PROVE  BooksInv'
<1>1. IInv /\ ChargesBooked /\ BothSidesBook
  BY DEF BooksInv
<1>2. IInv'
  BY <1>1, NextIInv
<1>3. restarts \in Nat
  BY <1>1, TasksAssumptions DEF IInv, RestOK
<1>4. ASSUME UNCHANGED <<tasks, receivable, payable>> PROVE ChargesBooked' /\ BothSidesBook'
  BY <1>1, <1>4 DEF ChargesBooked, BothSidesBook, TaskIds
<1>5. ASSUME NEW t \in cancels, Cancel(t) PROVE ChargesBooked' /\ BothSidesBook'
  <2>1. UNCHANGED <<receivable, payable>> /\ t \in TaskIds /\ TasksOK
    BY <1>1, <1>5 DEF Cancel, ledgers, IInv, RestOK
  <2>2. tasks' = tasks \/ Set(t, Aborted(t, "cancelled"))
    BY <1>5 DEF Cancel
  <2>3. ASSUME Set(t, Aborted(t, "cancelled")) PROVE ChargesBooked' /\ BothSidesBook'
    <3>1. /\ Aborted(t, "cancelled").charge = tasks[t].charge
          /\ Aborted(t, "cancelled").run = tasks[t].run
      BY <2>1, AbortedTask
    <3>2. /\ TaskIds' = TaskIds
          /\ \A u \in TaskIds : tasks'[u].charge = tasks[u].charge /\ tasks'[u].run = tasks[u].run
      BY <2>1, <2>3, <3>1, SetTask
    <3> QED
      BY <1>1, <2>1, <3>2, ChargesKept, RowsKept
  <2> QED
    BY <1>4, <2>1, <2>2, <2>3
<1>6. ASSUME NEW p \in Peers, Restart(p) PROVE FALSE
  <2>1. restarts' = restarts + 1
    BY <1>6 DEF Restart
  <2> QED
    BY <1>3, <2>1
<1>11. ASSUME NEW p \in Peers, Stop(p) PROVE ChargesBooked' /\ BothSidesBook'
  <2>1. /\ UNCHANGED <<receivable, payable>>
        /\ tasks' = [t \in TaskIds |->
               IF t \in ActiveAt(p) THEN Aborted(t, "cancelled") ELSE tasks[t]]
    BY <1>11 DEF Stop, ledgers
  <2>2. \A t \in TaskIds :
            tasks'[t].charge = tasks[t].charge /\ tasks'[t].run = tasks[t].run
    <3>1. ASSUME NEW t \in TaskIds, t \in ActiveAt(p)
          PROVE  tasks'[t].charge = tasks[t].charge /\ tasks'[t].run = tasks[t].run
      <4>1. tasks'[t] = Aborted(t, "cancelled")
        BY <2>1, <3>1
      <4> QED
        BY <1>1, <4>1, AbortedTask DEF IInv
    <3>2. \A t \in TaskIds : t \notin ActiveAt(p) => tasks'[t] = tasks[t]
      BY <2>1
    <3> QED
      BY <3>1, <3>2
  <2>3. TaskIds' = TaskIds
    BY <2>1 DEF TaskIds
  <2> QED
    BY <1>1, <2>1, <2>2, <2>3, ChargesKept, RowsKept
<1>7. ASSUME NEW p \in Peers, SaveTimer(p) PROVE ChargesBooked' /\ BothSidesBook'
  BY <1>4, <1>7 DEF SaveTimer, ledgers
<1>8. ASSUME NEW p \in Peers, NEW snap \in writing[p], SaveRename(p, snap)
      PROVE  ChargesBooked' /\ BothSidesBook'
  BY <1>4, <1>8 DEF SaveRename, ledgers
<1>9. ASSUME UNCHANGED vars PROVE ChargesBooked' /\ BothSidesBook'
  BY <1>4, <1>9 DEF vars
<1>12. ASSUME NEW t \in TaskIds, Refetch(t) PROVE ChargesBooked' /\ BothSidesBook'
  BY <1>1, <1>12, FetchBooks DEF Refetch, BooksInv
<1>10. ChargesBooked' /\ BothSidesBook'
  BY <1>5, <1>6, <1>7, <1>8, <1>9, <1>11, <1>12, CallerBooks, HandlerBooks, RunBooks DEF Next
<1> QED
  BY <1>2, <1>10 DEF BooksInv

LEMMA BooksInit == Init => BooksInv
<1> SUFFICES ASSUME Init PROVE BooksInv
  OBVIOUS
<1>1. IInv
  BY InitIInv
<1>2. TaskIds = {} /\ ToSet(payable) = {}
  BY DEF Init, TaskIds, ToSet
<1> QED
  BY <1>1, <1>2 DEF BooksInv, ChargesBooked, BothSidesBook

(* Restarts are counted, so before the first there was none.               *)
LEMMA RestartsCount ==
    ASSUME IInv, [Next]_vars
    PROVE  restarts' = restarts \/ restarts' # 0
<1>1. restarts \in Nat
  BY TasksAssumptions DEF IInv, RestOK
<1>2. ASSUME NEW p \in Peers, Restart(p) PROVE restarts' # 0
  <2>1. restarts' = restarts + 1
    BY <1>2 DEF Restart
  <2> QED
    BY <1>1, <2>1
<1>3. ASSUME NEW r \in requests, HandlerStep(r) PROVE restarts' = restarts
  BY <1>3, HandlerTasks
<1>4. ASSUME NEW t \in TaskIds, RunStep(t) PROVE restarts' = restarts
  BY <1>4 DEF RunStep, Start, Finish, BookReceivable
<1>5. ASSUME NEW p \in Peers, Stop(p) \/ SaveTimer(p) PROVE restarts' = restarts
  BY <1>5 DEF Stop, SaveTimer
<1>6. ASSUME NEW p \in Peers, NEW snap \in writing[p], SaveRename(p, snap)
      PROVE  restarts' = restarts
  BY <1>6 DEF SaveRename
<1>7. ASSUME NEW t \in cancels, Cancel(t) PROVE restarts' = restarts
  BY <1>7 DEF Cancel
<1>8. CASE UNCHANGED vars
  BY <1>8 DEF vars
<1>9. ASSUME NEW t \in TaskIds, Refetch(t) PROVE restarts' = restarts
  BY <1>9 DEF Refetch
<1> QED
  BY <1>2, <1>3, <1>4, <1>5, <1>6, <1>7, <1>8, <1>9, CallerLeavesTasks DEF Next

(* Until a serving node is restarted, and if ledger writes succeed, a row  *)
(* of the caller has its row at the peer, or the peer is about to write    *)
(* it: Finish shows the charge before recordEconCharge books it.  A node   *)
(* that is shutting down still books what its runs return.                 *)
THEOREM BothSidesUntilRestart ==
    ASSUME WritesMayFail = FALSE
    PROVE  Spec => [](restarts = 0 => BothSidesBook)
<1> DEFINE Books0 == IInv /\ (restarts = 0 => BooksInv)
<1>1. Init => Books0
  BY BooksInit, InitIInv
<1>2. Books0 /\ [Next]_vars => Books0'
  <2> SUFFICES ASSUME Books0, [Next]_vars, restarts' = 0 PROVE BooksInv'
    BY NextIInv
  <2>1. restarts' = restarts /\ BooksInv
    BY RestartsCount
  <2> QED
    BY <2>1, BooksStep
<1>3. Books0 => (restarts = 0 => BothSidesBook)
  BY DEF BooksInv
<1> QED
  BY <1>1, <1>2, <1>3, PTL DEF Spec

(* Where no serving node is restarted, a row of the caller has its row at  *)
(* the peer, or the peer is about to write it.                             *)
THEOREM BothSidesStay ==
    ASSUME WritesMayFail = FALSE, MaxRestarts = 0
    PROVE  Spec => []BothSidesBook
<1>1. IInv => restarts = 0
  BY DEF IInv, RestOK
<1> QED
  BY <1>1, TasksInvariant, BothSidesUntilRestart, PTL

-----------------------------------------------------------------------------
(* Success-only billing: a charge goes with a result.  It holds in memory, *)
(* in the task file and in what a save is about to write, so also for what *)
(* Load takes from any of them: a task that was cancelled, evicted, failed *)
(* or cut off by a restart has no charge that its owner could book.        *)
ChargeNeedsResult ==
    /\ \A t \in TaskIds : tasks[t].charge => tasks[t].status = "done"
    /\ \A p \in Peers : \A snap \in writing[p] \cup {disk[p]} :
           \A t \in DOMAIN snap : snap[t].charge => snap[t].status = "done"

LEMMA TaskChargeKept ==
    ASSUME IInv, ChargeNeedsResult, UNCHANGED <<writing, disk>>,
           \A t \in TaskIds' : tasks'[t].charge => tasks'[t].status = "done"
    PROVE  ChargeNeedsResult'
BY DEF ChargeNeedsResult

LEMMA HandlerCharges ==
    ASSUME IInv, ChargeNeedsResult, NEW r \in requests, HandlerStep(r)
    PROVE  ChargeNeedsResult'
<1>1. UNCHANGED <<writing, disk>>
  BY DEF HandlerStep, AdmitSubmit, RejectSubmit, SubmitAgain, SubmitNew, CreateTask, file
<1>2. CASE tasks' = tasks
  BY <1>1, <1>2 DEF ChargeNeedsResult, TaskIds
<1>3. CASE tasks' # tasks
  <2>1. PICK n \in Nat : n = Len(tasks) /\ TaskIds = 1..n
    BY TaskSeq DEF IInv
  <2>2. /\ TaskIds' = 1..(n + 1) /\ tasks'[n + 1].charge = FALSE
        /\ \A t \in TaskIds :
              /\ Terminal(tasks[t].status) => tasks'[t].status = tasks[t].status
              /\ tasks'[t].charge = tasks[t].charge
    BY <1>3, <2>1, HandlerTasks
  <2>3. \A t \in TaskIds : tasks[t].charge => tasks[t].status = "done" /\ Terminal(tasks[t].status)
    BY DEF ChargeNeedsResult, Terminal
  <2>4. \A t \in TaskIds' : tasks'[t].charge => tasks'[t].status = "done"
    BY <2>1, <2>2, <2>3
  <2> QED
    BY <1>1, <2>4, TaskChargeKept
<1> QED
  BY <1>2, <1>3

LEMMA RunCharges ==
    ASSUME IInv, ChargeNeedsResult, NEW t \in TaskIds, RunStep(t)
    PROVE  ChargeNeedsResult'
<1>1. TasksOK /\ tasks[t] \in TaskType
  BY TaskSeq DEF IInv
<1>2. TaskIds' = TaskIds /\ \A u \in TaskIds : u # t => tasks'[u] = tasks[u]
  BY <1>1, RunTasks
<1>3. UNCHANGED <<writing, disk>>
  BY DEF RunStep, Start, Finish, BookReceivable, file
<1>4. \A u \in TaskIds : tasks[u].charge => tasks[u].status = "done"
  BY DEF ChargeNeedsResult
<1>5. ASSUME tasks'[t].charge => tasks'[t].status = "done" PROVE ChargeNeedsResult'
  BY <1>2, <1>3, <1>4, <1>5, TaskChargeKept
<1>6. ASSUME NEW run, NEW new, new = [tasks[t] EXCEPT !.run = run], Set(t, new)
      PROVE  ChargeNeedsResult'
  <2>1. new = [tasks[t] EXCEPT !.run = run] /\ Set(t, new)
    BY <1>6
  <2>2. new.charge = tasks[t].charge /\ new.status = tasks[t].status
    BY <1>1, <2>1 DEF TaskType
  <2>3. tasks'[t] = new
    BY <1>1, <2>1, SetTask
  <2> QED
    BY <1>4, <1>5, <2>2, <2>3
<1>7. CASE Start(t)
  <2>1. CASE tasks[t].stored /\ tasks[t].status = "accepted"
    <3>1. PICK new : /\ new = [tasks[t] EXCEPT !.run = "running", !.status = "running"]
                     /\ Set(t, new)
      BY <1>7, <2>1 DEF Start
    <3>2. new.charge = tasks[t].charge
      BY <1>1, <3>1 DEF TaskType
    <3>3. ~tasks[t].charge
      BY <1>4, <2>1
    <3>4. tasks'[t] = new
      BY <1>1, <3>1, SetTask
    <3> QED
      BY <1>5, <3>2, <3>3, <3>4
  <2>2. CASE ~(tasks[t].stored /\ tasks[t].status = "accepted")
    <3>1. PICK new : new = [tasks[t] EXCEPT !.run = "running"] /\ Set(t, new)
      BY <1>7, <2>2 DEF Start
    <3> QED
      BY <1>6, <3>1
  <2> QED
    BY <2>1, <2>2
<1>8. CASE BookReceivable(t)
  <2>1. PICK new : new = [tasks[t] EXCEPT !.run = "over"] /\ Set(t, new)
    BY <1>8 DEF BookReceivable
  <2> QED
    BY <1>6, <2>1
<1>9. ASSUME NEW ok \in BOOLEAN, Finish(t, ok) PROVE ChargeNeedsResult'
  <2>1. PICK to \in {"charging", "over"} : to = IF ok THEN "charging" ELSE "over"
    OBVIOUS
  <2>2. CASE tasks[t].stored /\ ~Terminal(tasks[t].status)
    <3>1. PICK end \in Status : end = IF ok THEN "done" ELSE "error"
      BY DEF Status
    <3>2. PICK new : /\ new = [[tasks[t] EXCEPT !.run = to]
                                  EXCEPT !.status = end, !.charge = ok, !.done = "closed"]
                     /\ Set(t, new)
      BY <1>9, <2>1, <2>2, <3>1 DEF Finish
    <3>3. new.status = end /\ new.charge = ok
      BY <1>1, <3>2 DEF TaskType
    <3>4. tasks'[t] = new
      BY <1>1, <3>2, SetTask
    <3> QED
      BY <1>5, <3>1, <3>3, <3>4
  <2>3. CASE ~(tasks[t].stored /\ ~Terminal(tasks[t].status))
    <3>1. PICK new : new = [tasks[t] EXCEPT !.run = to] /\ Set(t, new)
      BY <1>9, <2>1, <2>3 DEF Finish
    <3> QED
      BY <1>6, <3>1
  <2> QED
    BY <2>2, <2>3
<1> QED
  BY <1>7, <1>8, <1>9 DEF RunStep

(* A task that is aborted from outside had not ended, so it has no charge. *)
LEMMA AbortedCharge ==
    ASSUME IInv, ChargeNeedsResult, NEW t \in TaskIds, ~Terminal(tasks[t].status)
    PROVE  ~Aborted(t, "cancelled").charge
<1>1. Aborted(t, "cancelled").charge = tasks[t].charge
  BY AbortedTask DEF IInv
<1> QED
  BY <1>1 DEF ChargeNeedsResult, Terminal

LEMMA CancelCharges ==
    ASSUME IInv, ChargeNeedsResult, NEW t \in cancels, Cancel(t)
    PROVE  ChargeNeedsResult'
<1>1. UNCHANGED <<writing, disk>> /\ t \in TaskIds /\ TasksOK
  BY DEF Cancel, file, IInv, RestOK
<1>2. CASE tasks' = tasks
  BY <1>1, <1>2 DEF ChargeNeedsResult, TaskIds
<1>3. CASE ~Terminal(tasks[t].status) /\ Set(t, Aborted(t, "cancelled"))
  <2>1. /\ TaskIds' = TaskIds /\ ~tasks'[t].charge
        /\ \A u \in TaskIds : u # t => tasks'[u] = tasks[u]
    BY <1>1, <1>3, AbortedCharge, SetTask
  <2>2. \A u \in TaskIds' : tasks'[u].charge => tasks'[u].status = "done"
    BY <2>1 DEF ChargeNeedsResult
  <2> QED
    BY <1>1, <2>2, TaskChargeKept
<1> QED
  BY <1>2, <1>3 DEF Cancel

LEMMA SaveCharges ==
    ASSUME IInv, ChargeNeedsResult, NEW p \in Peers,
           SaveTimer(p) \/ \E snap \in writing[p] : SaveRename(p, snap)
    PROVE  ChargeNeedsResult'
<1>1. TaskIds' = TaskIds /\ tasks' = tasks /\ DOMAIN writing = Peers /\ DOMAIN disk = Peers
  BY DEF SaveTimer, SaveRename, TaskIds, IInv, FilesOK
<1>2. \A t \in DOMAIN Snapshot(p) :
          Snapshot(p)[t].charge => Snapshot(p)[t].status = "done"
  BY DEF Snapshot, StoredAt, ChargeNeedsResult
<1>3. \A q \in Peers : writing'[q] \cup {disk'[q]} \subseteq
                          writing[q] \cup {disk[q]} \cup {Snapshot(p)}
  BY <1>1 DEF SaveTimer, SaveRename
<1> QED
  BY <1>1, <1>2, <1>3 DEF ChargeNeedsResult

LEMMA StopCharges ==
    ASSUME IInv, ChargeNeedsResult, NEW p \in Peers, Stop(p)
    PROVE  ChargeNeedsResult'
<1>1. /\ writing' = writing
      /\ tasks' = [t \in TaskIds |->
             IF t \in ActiveAt(p) THEN Aborted(t, "cancelled") ELSE tasks[t]]
      /\ disk' = IF p \notin Persistent THEN disk
                 ELSE [disk EXCEPT ![p] = [t \in StoredAt(p) |->
                          [status |-> tasks'[t].status, charge |-> tasks[t].charge]]]
  BY DEF Stop
<1>2. ASSUME NEW t \in TaskIds
      PROVE  /\ tasks'[t].charge => tasks'[t].status = "done"
             /\ tasks[t].charge => tasks'[t].status = "done"
  <2>1. CASE t \in ActiveAt(p)
    <3>1. ~Terminal(tasks[t].status) /\ tasks'[t] = Aborted(t, "cancelled")
      BY <1>1, <2>1 DEF ActiveAt
    <3>2. ~tasks'[t].charge /\ ~tasks[t].charge
      BY <3>1, AbortedCharge DEF ChargeNeedsResult, Terminal
    <3> QED
      BY <3>2
  <2>2. CASE t \notin ActiveAt(p)
    BY <1>1, <2>2 DEF ChargeNeedsResult
  <2> QED
    BY <2>1, <2>2
<1>3. TaskIds' = TaskIds /\ DOMAIN disk = Peers
  BY <1>1 DEF TaskIds, IInv, FilesOK
<1>4. PICK new : new = [t \in StoredAt(p) |->
                          [status |-> tasks'[t].status, charge |-> tasks[t].charge]]
  OBVIOUS
<1>5. \A t \in DOMAIN new : new[t].charge => new[t].status = "done"
  BY <1>2, <1>4 DEF StoredAt
<1>6. \A q \in Peers : writing'[q] \cup {disk'[q]} \subseteq writing[q] \cup {disk[q], new}
  BY <1>1, <1>3, <1>4
<1> QED
  BY <1>2, <1>3, <1>5, <1>6 DEF ChargeNeedsResult

LEMMA RestartCharges ==
    ASSUME IInv, ChargeNeedsResult, NEW p \in Peers, Restart(p)
    PROVE  ChargeNeedsResult'
<1>1. /\ disk' = disk /\ writing' = [writing EXCEPT ![p] = {}]
      /\ tasks' = [t \in TaskIds |->
             IF tasks[t].at # p THEN tasks[t]
             ELSE IF t \in DOMAIN disk[p] THEN Loaded(t, disk[p][t])
             ELSE [tasks[t] EXCEPT !.stored = FALSE, !.run = "over"]]
  BY DEF Restart
<1>2. SnapshotOK(p, disk[p]) /\ TasksOK /\ DOMAIN writing = Peers
  BY DEF IInv, FilesOK
<1>3. ASSUME NEW t \in TaskIds, tasks'[t].charge PROVE tasks'[t].status = "done"
  <2>1. CASE tasks[t].at # p
    BY <1>1, <1>3, <2>1 DEF ChargeNeedsResult
  <2>2. CASE tasks[t].at = p /\ t \in DOMAIN disk[p]
    <3>1. tasks'[t] = Loaded(t, disk[p][t]) /\ disk[p][t] \in Entry
      BY <1>1, <1>2, <2>2 DEF SnapshotOK
    <3>2. /\ tasks'[t].charge = disk[p][t].charge
          /\ Terminal(disk[p][t].status) => tasks'[t].status = disk[p][t].status
      BY <1>2, <3>1, LoadedTask
    <3>3. disk[p][t].status = "done"
      BY <1>3, <2>2, <3>2 DEF ChargeNeedsResult
    <3> QED
      BY <3>2, <3>3 DEF Terminal
  <2>3. CASE tasks[t].at = p /\ t \notin DOMAIN disk[p]
    <3>1. tasks[t] \in TaskType
      BY <1>2, TaskSeq
    <3>2. tasks'[t] = [tasks[t] EXCEPT !.stored = FALSE, !.run = "over"]
      BY <1>1, <2>3
    <3>3. tasks'[t].charge = tasks[t].charge /\ tasks'[t].status = tasks[t].status
      BY <3>1, <3>2 DEF TaskType
    <3> QED
      BY <1>3, <3>3 DEF ChargeNeedsResult
  <2> QED
    BY <2>1, <2>2, <2>3
<1>4. TaskIds' = TaskIds
  BY <1>1 DEF TaskIds
<1>5. \A q \in Peers : writing'[q] \cup {disk'[q]} \subseteq writing[q] \cup {disk[q]}
  BY <1>1, <1>2
<1> QED
  BY <1>3, <1>4, <1>5 DEF ChargeNeedsResult

(* Only a result is charged, whatever is cancelled, evicted or restarted   *)
(* and whichever of two saves wins: what RemoteTaskResult can fetch and    *)
(* book is the charge of a task that Finish marked done.                   *)
THEOREM OnlyResultsAreCharged == Spec => []ChargeNeedsResult
<1>1. Init => ChargeNeedsResult
  BY DEF Init, ChargeNeedsResult, TaskIds
<1>2. ASSUME IInv, ChargeNeedsResult, [Next]_vars PROVE ChargeNeedsResult'
  <2>1. ASSUME NEW c \in Calls, CallStep(c) PROVE ChargeNeedsResult'
    <3>1. UNCHANGED <<tasks, writing, disk>>
      BY <2>1, CallerLeavesTasks
         DEF CallStep, NextCandidate, NoCandidateLeft, SubmitRemoteTask, SubmitFails,
             PollAnswered, PollFails, CallerCancelled, file
    <3> QED
      BY <1>2, <3>1 DEF ChargeNeedsResult, TaskIds
  <2>2. CASE UNCHANGED vars
    BY <1>2, <2>2 DEF vars, ChargeNeedsResult, TaskIds
  <2>3. ASSUME NEW t \in TaskIds, Refetch(t) PROVE ChargeNeedsResult'
    BY <1>2, <2>3 DEF Refetch, file, ChargeNeedsResult, TaskIds
  <2> QED
    BY <1>2, <2>1, <2>2, <2>3, HandlerCharges, RunCharges, CancelCharges, SaveCharges,
       StopCharges, RestartCharges DEF Next
<1> QED
  BY <1>1, <1>2, TasksInvariant, PTL DEF Spec

================================================================================
