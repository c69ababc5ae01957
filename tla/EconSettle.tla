------------------------------ MODULE EconSettle ------------------------------
(***************************************************************************)
(* The web3 close-out of the mesh economy: a payer that owes a peer for    *)
(* finished work pays it on a chain and both nodes mark their ledgers.     *)
(*   payer   pkg/rhizome/mesh/econweb3.go over the in-flight journal of    *)
(*           pkg/rhizome/econ/inflight.go                                  *)
(*   payee   handleSettleOfferWeb3 over pkg/rhizome/econ/settle.go         *)
(* One (peer, unit) pair is modelled, that is one journal key.  The two    *)
(* ledgers, the journal and the chain are durable; what a drive holds in   *)
(* memory is lost in a crash.  Every charge costs one unit, so an amount   *)
(* is the number of charges it covers.  TS and cutoff are readings of one  *)
(* clock that ticks when an offer takes its cutoff.                        *)
(***************************************************************************)
EXTENDS Integers, Sequences, FiniteSets

CONSTANTS
    Entries,        \* work refs billed between the two nodes
    Initial,        \* those that both ledgers hold accrued from the start
    Drivers,        \* concurrent goroutines, each an operator's call of
                    \* EconomySettleWeb3 or a tick of the watcher
    Modes,          \* signer modes to consider: "wallet", "approval"
    MaxAttempts,    \* settlePhase2MaxAttempts
    MaxRecords,     \* bound: close-outs started
    MaxTransfers,   \* bound: payments minted or signed
    MaxCrashes,     \* bound: payer restarts
    MaxDisputes,    \* bound: dispute commands of the two operators
    Nobody          \* the caller of a request nobody waits for

ASSUME SettleAssumptions ==
    /\ Initial \subseteq Entries /\ IsFiniteSet(Entries)
    /\ Nobody \notin Drivers
    /\ Modes \subseteq {"wallet", "approval"}
    /\ MaxAttempts \in Nat \ {0}
    /\ MaxRecords \in Nat /\ MaxTransfers \in Nat
    /\ MaxCrashes \in Nat /\ MaxDisputes \in Nat

VARIABLES
    mode,        \* SignerMode of the configured settler
    payable,     \* payer ledger: entry -> [st, ts, tx]
    receivable,  \* payee ledger: entry -> [st, tx]
    journal,     \* economy-settle-inflight.json, oldest record first
    transfers,   \* payments by pending id / tx hash (their index), each with its
                 \* entry in the approval queue
    driver,      \* what each driving goroutine holds
    requests,    \* settle_offer requests at the payee
    clock,       \* the time accruals and cutoffs read
    crashes, disputes,
    staled       \* history: has a drive started from a record the journal had
                 \* left behind?

vars == <<mode, payable, receivable, journal, transfers, driver, requests,
          clock, crashes, disputes, staled>>

ledgers == <<payable, receivable>>
history == <<crashes, disputes, staled>>

(***************************************************************************)
(* Ledger entries: the states and legal moves of Ledger.Transition.        *)
(***************************************************************************)
EntryState == {"none", "accrued", "settled", "disputed", "written_off"}

ValidMove(from, to) ==
    <<from, to>> \in { <<"accrued", "settled">>, <<"accrued", "disputed">>,
                       <<"disputed", "accrued">>, <<"disputed", "written_off">> }

\* Ledger.Transition on the payer's row; the row's TS is refreshed.
Payable(e, to, tx) ==
    IF ValidMove(payable[e].st, to)
    THEN [st |-> to, ts |-> clock, tx |-> tx] ELSE payable[e]

\* Ledger.Transition on the payee's row.
Receivable(e, to, tx) ==
    IF ValidMove(receivable[e].st, to)
    THEN [st |-> to, tx |-> tx] ELSE receivable[e]

Accrued(rows) == { e \in Entries : rows[e].st = "accrued" }

(***************************************************************************)
(* The in-flight journal.                                                  *)
(***************************************************************************)
JournalState == {"offered", "paying", "awaiting_approval", "broadcast",
                 "settled", "rejected", "failed", "stalled"}

\* Variant: broadcast counted among the terminal states.
TerminalOnceBroadcast(r) ==
    r.state \in {"broadcast", "settled", "rejected", "failed", "stalled"}

Terminal(r) == r.state \in {"settled", "rejected", "failed", "stalled"}

\* Live: the records Acquire, Update and the watcher work on.
LiveAt  == { i \in DOMAIN journal : ~Terminal(journal[i]) }
LiveRec == journal[CHOOSE i \in LiveAt : TRUE]

\* UpdateByKey: patch the live record; with none it reports an error and
\* writes nothing.
Update(patched) ==
    journal' = [i \in DOMAIN journal |->
                    IF i \in LiveAt THEN patched ELSE journal[i]]

\* read is history: when the rows that the offer covers were read.
NewRecord(covers, read) ==
    [state |-> "offered", covers |-> covers, read |-> read, cutoff |-> clock,
     pending |-> 0, tx |-> 0, raw |-> FALSE, attempts |-> 0]

NoRec == [NewRecord({}, 0) EXCEPT !.cutoff = 0]

(***************************************************************************)
(* A driving goroutine.  From "drive" on it holds lockSettleDrive; rec is  *)
(* the record value it read, which the journal may have left behind.       *)
(***************************************************************************)
Idle == [pc |-> "idle", rec |-> NoRec, view |-> {}, read |-> 0, tx |-> 0,
         resp |-> "none"]

Stale(rec) == LiveAt = {} \/ rec # LiveRec

Unlocked == {"idle", "building", "holding"}

\* Variant: the drive lock excludes nobody.
NeverHeld == FALSE

Held == \E d \in Drivers : driver[d].pc \notin Unlocked

Goto(d, pc, rec) ==
    driver' = [driver EXCEPT ![d] = [Idle EXCEPT !.pc = pc, !.rec = rec]]

Return(d) == driver' = [driver EXCEPT ![d] = Idle]

\* A step that moved the record: driveInflight reloads it and goes on.
Advance(d, patched) ==
    /\ Update(patched)
    /\ IF LiveAt = {} THEN Return(d) ELSE Goto(d, "drive", patched)

\* A step that ends the record, and the drive: the fail helper of
\* stepInflight, or the settled mark.
Close(d, state) ==
    Update([LiveRec EXCEPT !.state = state]) /\ Return(d)

\* Variant: one attempt too many.
RetryOnceMore(d) ==
    /\ Update([LiveRec EXCEPT !.attempts = @ + 1,
                              !.state = IF driver[d].rec.attempts >= MaxAttempts
                                        THEN "stalled" ELSE @])
    /\ Return(d)

\* Variant: the attempt is not counted.
RetryUncounted(d) == UNCHANGED journal /\ Return(d)

\* Attempts++ on the journal; the bound is compared with the held record.
Retry(d) ==
    /\ Update([LiveRec EXCEPT !.attempts = @ + 1,
                              !.state = IF driver[d].rec.attempts + 1 >= MaxAttempts
                                        THEN "stalled" ELSE @])
    /\ Return(d)

At(d, pc) == driver[d].pc = pc
InState(d, state) == At(d, "drive") /\ driver[d].rec.state = state

Init ==
    /\ mode \in Modes
    /\ payable = [e \in Entries |->
           [st |-> IF e \in Initial THEN "accrued" ELSE "none", ts |-> 0, tx |-> 0]]
    /\ receivable = [e \in Entries |->
           [st |-> IF e \in Initial THEN "accrued" ELSE "none", tx |-> 0]]
    /\ journal = <<>> /\ transfers = <<>> /\ requests = {}
    /\ clock = 1
    /\ driver = [d \in Drivers |-> Idle]
    /\ crashes = 0 /\ disputes = 0 /\ staled = FALSE

(***************************************************************************)
(* Accrual and disputes (recordEconCharge, DisputeTask, ResolveTask).  The *)
(* serving node bills when the work is done, the payer when it has the     *)
(* result.                                                                 *)
(***************************************************************************)
AccrueReceivable(e) ==
    /\ receivable[e].st = "none"
    /\ receivable' = [receivable EXCEPT ![e] = [st |-> "accrued", tx |-> 0]]
    /\ UNCHANGED <<mode, payable, journal, transfers, driver, requests, clock, history>>

AccruePayable(e) ==
    /\ payable[e].st = "none" /\ receivable[e].st # "none"
    /\ payable' = [payable EXCEPT ![e] = [st |-> "accrued", ts |-> clock, tx |-> 0]]
    /\ UNCHANGED <<mode, receivable, journal, transfers, driver, requests, clock, history>>

PayerDisputes(e) ==
    /\ disputes < MaxDisputes /\ payable[e].st = "accrued"
    /\ payable' = [payable EXCEPT ![e] = Payable(e, "disputed", 0)]
    /\ disputes' = disputes + 1
    /\ UNCHANGED <<mode, receivable, journal, transfers, driver, requests, clock, crashes,
                   staled>>

PayerResolves(e, to) ==
    /\ payable[e].st = "disputed" /\ to \in {"accrued", "written_off"}
    /\ payable' = [payable EXCEPT ![e] = Payable(e, to, 0)]
    /\ UNCHANGED <<mode, receivable, journal, transfers, driver, requests, clock, history>>

PayeeDisputes(e) ==
    /\ disputes < MaxDisputes /\ receivable[e].st = "accrued"
    /\ receivable' = [receivable EXCEPT ![e] = Receivable(e, "disputed", 0)]
    /\ disputes' = disputes + 1
    /\ UNCHANGED <<mode, payable, journal, transfers, driver, requests, clock, crashes,
                   staled>>

PayeeResolves(e, to) ==
    /\ receivable[e].st = "disputed" /\ to \in {"accrued", "written_off"}
    /\ receivable' = [receivable EXCEPT ![e] = Receivable(e, to, 0)]
    /\ UNCHANGED <<mode, payable, journal, transfers, driver, requests, clock, history>>

(***************************************************************************)
(* EconomySettleWeb3 and the watcher: who drives what.                     *)
(***************************************************************************)
\* A live record is resumed; otherwise the accrued rows are read, before
\* the cutoff is.
SettleCall(d) ==
    /\ At(d, "idle")
    /\ \/ /\ LiveAt # {}
          /\ Goto(d, "holding", LiveRec)
       \/ /\ LiveAt = {} /\ Accrued(payable) # {} /\ Len(journal) < MaxRecords
          /\ driver' = [driver EXCEPT ![d] = [Idle EXCEPT !.pc = "building", !.read = clock,
                                                         !.view = Accrued(payable)]]
    /\ UNCHANGED <<mode, ledgers, journal, transfers, requests, clock, history>>

\* time.Now, BuildOffer, Sign and Acquire.
Acquire(d) ==
    /\ At(d, "building")
    /\ \/ /\ LiveAt # {}
          /\ Goto(d, "holding", LiveRec)
          /\ UNCHANGED <<journal, clock>>
       \/ /\ LiveAt = {} /\ Len(journal) < MaxRecords
          /\ LET new == NewRecord(driver[d].view, driver[d].read)
             IN  journal' = Append(journal, new) /\ Goto(d, "holding", new)
          /\ clock' = clock + 1
    /\ UNCHANGED <<mode, ledgers, transfers, requests, history>>

\* settleDriveStep reads the live records once and then drives them in turn.
WatchTick(d) ==
    /\ At(d, "idle") /\ LiveAt # {}
    /\ Goto(d, "holding", LiveRec)
    /\ UNCHANGED <<mode, ledgers, journal, transfers, requests, clock, history>>

\* lockSettleDrive: a busy key is somebody else's.  The record was read
\* before the lock is taken, and it is driven as it was read.
LockDrive(d) ==
    /\ At(d, "holding")
    /\ IF Held
       THEN Return(d) /\ UNCHANGED staled
       ELSE /\ Goto(d, "drive", driver[d].rec)
            /\ staled' = (staled \/ Stale(driver[d].rec))
    /\ UNCHANGED <<mode, ledgers, journal, transfers, requests, clock, crashes, disputes>>

(***************************************************************************)
(* stepInflight, one group of actions per journal state.                   *)
(***************************************************************************)
\* econCall: the request goes out and the driver waits for the reply.
Call(d, phase, tx) ==
    /\ requests' = requests \cup
           {[caller |-> d, phase |-> phase, covers |-> driver[d].rec.covers,
             tx |-> tx, pc |-> "received"]}
    /\ driver' = [driver EXCEPT ![d].pc = "calling"]

SendPhase1(d) ==
    /\ InState(d, "offered")
    /\ Call(d, 1, 0)
    /\ UNCHANGED <<mode, ledgers, journal, transfers, clock, history>>

\* Nobody waits for the answers to these any more.  The payee may still serve
\* the requests; of the stateless phase 1 nothing would be seen.
Abandon(qs) ==
    requests' = (requests \ qs) \cup
                { [q EXCEPT !.caller = Nobody] : q \in {r \in qs : r.phase = 2} }

\* Stream error, read timeout or lost answer.
CallFails(d) ==
    /\ At(d, "calling")
    /\ Abandon({q \in requests : q.caller = d})
    /\ Retry(d)
    /\ UNCHANGED <<mode, ledgers, transfers, clock, history>>

Phase1Answered(d) ==
    /\ At(d, "answered") /\ driver[d].rec.state = "offered"
    /\ IF driver[d].resp = "awaiting_tx"
       THEN Advance(d, [LiveRec EXCEPT !.state = "paying"])
       ELSE Close(d, "rejected")
    /\ UNCHANGED <<mode, ledgers, transfers, requests, clock, history>>

\* state is what the chain has of the payment, entry its status in the approval
\* queue, executor the goroutine that carries out an approval.
NewTransfer(d) ==
    [offer |-> driver[d].rec.cutoff, covers |-> driver[d].rec.covers,
     state |-> "made", entry |-> "none", executor |-> "none"]

\* Variant: the payment is broadcast before it is journaled.
SignRawAndSend(d) ==
    /\ InState(d, "paying") /\ mode = "wallet"
    /\ Len(transfers) < MaxTransfers
    /\ transfers' = Append(transfers, [NewTransfer(d) EXCEPT !.state = "sent"])
    /\ driver' = [driver EXCEPT ![d].pc = "signed", ![d].tx = Len(transfers) + 1]
    /\ UNCHANGED <<mode, ledgers, journal, requests, clock, history>>

\* Wallet mode: SignRaw, which may fail; the signed payment is only in memory.
SignRaw(d) ==
    /\ InState(d, "paying") /\ mode = "wallet"
    /\ \/ /\ Len(transfers) < MaxTransfers
          /\ transfers' = Append(transfers, NewTransfer(d))
          /\ driver' = [driver EXCEPT ![d].pc = "signed", ![d].tx = Len(transfers) + 1]
          /\ UNCHANGED journal
       \/ /\ Close(d, "failed")
          /\ UNCHANGED transfers
    /\ UNCHANGED <<mode, ledgers, requests, clock, history>>

JournalSigned(d) ==
    /\ At(d, "signed")
    /\ Advance(d, [LiveRec EXCEPT !.state = "broadcast", !.tx = driver[d].tx, !.raw = TRUE])
    /\ UNCHANGED <<mode, ledgers, transfers, requests, clock, history>>

\* Approval mode: the pending id is minted into the journal before the
\* submit; a journaled one is used again.
MintPendingID(d) ==
    /\ InState(d, "paying") /\ mode = "approval"
    /\ \/ /\ driver[d].rec.pending # 0
          /\ driver' = [driver EXCEPT ![d].pc = "queue", ![d].tx = driver[d].rec.pending]
          /\ UNCHANGED <<journal, transfers>>
       \/ /\ driver[d].rec.pending = 0 /\ LiveAt # {} /\ Len(transfers) < MaxTransfers
          /\ transfers' = Append(transfers, NewTransfer(d))
          /\ Update([LiveRec EXCEPT !.pending = Len(transfers) + 1])
          /\ driver' = [driver EXCEPT ![d].pc = "queue", ![d].tx = Len(transfers) + 1]
       \/ /\ driver[d].rec.pending = 0 /\ LiveAt = {}
          /\ Return(d)
          /\ UNCHANGED <<journal, transfers>>
    /\ UNCHANGED <<mode, ledgers, requests, clock, history>>

\* Queue submits the entry; an id the queue already holds is adopted.
Queue(d) ==
    /\ At(d, "queue")
    /\ \/ /\ transfers' = [transfers EXCEPT ![driver[d].tx].entry =
                               IF @ = "none" THEN "pending" ELSE @]
          /\ driver' = [driver EXCEPT ![d].pc = "queued"]
          /\ UNCHANGED journal
       \/ /\ transfers[driver[d].tx].entry = "none"
          /\ Close(d, "failed")
          /\ UNCHANGED transfers
    /\ UNCHANGED <<mode, ledgers, requests, clock, history>>

JournalQueued(d) ==
    /\ At(d, "queued")
    /\ Advance(d, [LiveRec EXCEPT !.state = "awaiting_approval"])
    /\ UNCHANGED <<mode, ledgers, transfers, requests, clock, history>>

OnChain == {"sent", "mined", "reverted"}

\* QueuedTx: undecided or not carried out yet, sent, refused, or unreadable; a
\* stale drive may have left the record without an id, which the queue does not
\* know.
PollQueue(d) ==
    /\ InState(d, "awaiting_approval")
    /\ LET tx == driver[d].rec.pending
       IN  \/ /\ tx # 0
             /\ \/ /\ transfers[tx].entry \in {"pending", "approved"}
                   /\ Return(d) /\ UNCHANGED journal
                \/ /\ transfers[tx].entry = "sent"
                   /\ Advance(d, [LiveRec EXCEPT !.state = "broadcast", !.tx = tx])
                \/ /\ transfers[tx].entry \in {"refused", "failed"}
                   /\ Close(d, "failed")
          \/ Retry(d)
    /\ UNCHANGED <<mode, ledgers, transfers, requests, clock, history>>

\* Broadcast of the journaled raw (a no-op when the chain has it), then the
\* phase-2 offer carrying the hash.  A send that reports an error may still
\* have landed.
SendPhase2(d) ==
    /\ InState(d, "broadcast")
    /\ \/ /\ transfers' = [transfers EXCEPT ![driver[d].rec.tx].state =
                               IF @ = "made" /\ driver[d].rec.raw THEN "sent" ELSE @]
          /\ Call(d, 2, driver[d].rec.tx)
          /\ UNCHANGED journal
       \/ /\ driver[d].rec.raw
          /\ \E landed \in BOOLEAN :
                 transfers' = [transfers EXCEPT ![driver[d].rec.tx].state =
                                   IF @ = "made" /\ landed THEN "sent" ELSE @]
          /\ Retry(d)
          /\ UNCHANGED requests
    /\ UNCHANGED <<mode, ledgers, clock, history>>

Phase2Answered(d) ==
    /\ At(d, "answered") /\ driver[d].rec.state = "broadcast"
    /\ CASE driver[d].resp = "ack"    -> /\ driver' = [driver EXCEPT ![d].pc = "acked"]
                                         /\ UNCHANGED journal
         [] driver[d].resp = "reject" -> Close(d, "rejected")
         [] OTHER                     -> Retry(d)
    /\ UNCHANGED <<mode, ledgers, transfers, requests, clock, history>>

\* Variant: every accrued row is due.
DueWhenever(rec) == Accrued(payable)

\* settlePayables goes over the ledger by cutoff.
Due(rec) == { e \in Accrued(payable) : payable[e].ts <= rec.cutoff }

MarkPayables(d, done) ==
    /\ At(d, "acked")
    /\ payable' = [e \in Entries |->
           IF e \in done THEN Payable(e, "settled", driver[d].rec.tx) ELSE payable[e]]
    /\ UNCHANGED <<mode, receivable, journal, transfers, requests, clock, history>>

SettlePayables(d) ==
    /\ MarkPayables(d, Due(driver[d].rec))
    /\ driver' = [driver EXCEPT ![d].pc = "settling"]

\* A Transition that fails ends the drive with part of the rows settled.
SettlePayablesFails(d) ==
    /\ \E done \in SUBSET Due(driver[d].rec) :
           done # Due(driver[d].rec) /\ MarkPayables(d, done)
    /\ Return(d)

JournalSettled(d) ==
    /\ At(d, "settling")
    /\ Close(d, "settled")
    /\ UNCHANGED <<mode, ledgers, transfers, requests, clock, history>>

\* The payer restarts: what its goroutines held is gone.
Crash ==
    /\ crashes < MaxCrashes
    /\ crashes' = crashes + 1
    /\ driver' = [d \in Drivers |-> Idle]
    /\ Abandon(requests)
    /\ UNCHANGED <<mode, ledgers, journal, transfers, clock, disputes, staled>>

(***************************************************************************)
(* The payee: handleSettleOfferWeb3.                                       *)
(***************************************************************************)
Answer(q, resp) ==
    driver' = [d \in Drivers |->
                  IF d = q.caller
                  THEN [driver[d] EXCEPT !.pc = "answered", !.resp = resp]
                  ELSE driver[d]]

\* MatchReceivables.
Matches(q) == \A e \in q.covers : receivable[e].st = "accrued"

\* Variant: one row settled under the payment is enough.
AlreadySettledPartly(q) ==
    \E e \in q.covers : receivable[e].st = "settled" /\ receivable[e].tx = q.tx

\* MatchSettledReceivables.
AlreadySettled(q) ==
    \A e \in q.covers : receivable[e].st = "settled" /\ receivable[e].tx = q.tx

\* SettleTXConsumed.
Consumed(tx) == \E e \in Entries : receivable[e].st = "settled" /\ receivable[e].tx = tx

\* Phase 1 keeps nothing.  The signed offer ages: outside the replay window
\* it is refused.
PayeePhase1(q) ==
    /\ q.phase = 1
    /\ \E resp \in (IF Matches(q) THEN {"awaiting_tx", "reject"} ELSE {"reject"}) :
           Answer(q, resp)
    /\ requests' = requests \ {q}
    /\ UNCHANGED <<mode, ledgers, journal, transfers, clock, history>>

\* Phase 2 until verification: match, or recognise a redelivery, or refuse.  It
\* may refuse whatever the rows say, as when the payout address or another part
\* of the configuration has changed or the clocks differ.
PayeePhase2(q) ==
    /\ q.phase = 2 /\ q.pc = "received"
    /\ \/ /\ Matches(q) /\ ~Consumed(q.tx)
          /\ requests' = (requests \ {q}) \cup {[q EXCEPT !.pc = "matched"]}
          /\ UNCHANGED driver
       \/ /\ requests' = requests \ {q}
          /\ \/ ~Matches(q) /\ AlreadySettled(q) /\ Answer(q, "ack")
             \/ Answer(q, "reject")
    /\ UNCHANGED <<mode, ledgers, journal, transfers, clock, history>>

\* Verify's verdict on the chain: the amount is what is compared.
Verified(q) == /\ transfers[q.tx].state = "mined"
               /\ Cardinality(transfers[q.tx].covers) = Cardinality(q.covers)

VerifyRefuses(q) ==
    \/ transfers[q.tx].state = "reverted"
    \/ /\ transfers[q.tx].state \in OnChain
       /\ Cardinality(transfers[q.tx].covers) # Cardinality(q.covers)

PayeeVerifyFails(q) ==
    /\ q.pc = "matched"
    /\ requests' = requests \ {q}
    /\ \/ Answer(q, "pending")
       \/ VerifyRefuses(q) /\ Answer(q, "reject")
    /\ UNCHANGED <<mode, ledgers, journal, transfers, clock, history>>

\* The transitions after a successful Verify; the rows are those matched
\* earlier, and the first Transition that fails ends the handler.
PayeeSettles(q) ==
    /\ q.pc = "matched" /\ Verified(q)
    /\ \E done \in SUBSET { e \in q.covers : receivable[e].st = "accrued" } :
           /\ receivable' = [e \in Entries |->
                  IF e \in done THEN Receivable(e, "settled", q.tx) ELSE receivable[e]]
           /\ Answer(q, IF done = q.covers THEN "ack" ELSE "pending")
    /\ requests' = requests \ {q}
    /\ UNCHANGED <<mode, payable, journal, transfers, clock, history>>

\* The payee goes down with the request.
PayeeLoses(q) ==
    /\ requests' = requests \ {q}
    /\ UNCHANGED <<mode, ledgers, journal, transfers, driver, clock, history>>

(***************************************************************************)
(* The approval queue and the chain.  The human's command writes the       *)
(* approval, carries it out and writes the result, in three steps; an      *)
(* entry that reads approved is not carried out a second time.             *)
(***************************************************************************)
\* Approved, rejected, or expired before anybody decided.
Resolve(t) ==
    /\ transfers[t].entry = "pending"
    /\ \/ transfers' = [transfers EXCEPT ![t].entry = "approved", ![t].executor = "signing"]
       \/ transfers' = [transfers EXCEPT ![t].entry = "refused"]
    /\ UNCHANGED <<mode, ledgers, journal, driver, requests, clock, history>>

\* Sign and broadcast.  What reports an error may still have landed.
ExecuteApproved(t) ==
    /\ transfers[t].executor = "signing"
    /\ \E result \in {"sent", "failed"}, landed \in BOOLEAN :
           /\ result = "sent" => landed
           /\ transfers' = [transfers EXCEPT ![t].executor = result,
                                 ![t].state = IF @ = "made" /\ landed THEN "sent" ELSE @]
    /\ UNCHANGED <<mode, ledgers, journal, driver, requests, clock, history>>

Complete(t) ==
    /\ transfers[t].executor \in {"sent", "failed"}
    /\ transfers' = [transfers EXCEPT ![t].entry = transfers[t].executor,
                                      ![t].executor = "none"]
    /\ UNCHANGED <<mode, ledgers, journal, driver, requests, clock, history>>

\* The process that carries out the approval dies, or Complete's write fails:
\* the entry reads approved for good.
ExecutorDies(t) ==
    /\ transfers[t].executor # "none"
    /\ transfers' = [transfers EXCEPT ![t].executor = "none"]
    /\ UNCHANGED <<mode, ledgers, journal, driver, requests, clock, history>>

Chain(t) ==
    /\ transfers[t].state = "sent"
    /\ \E state \in {"mined", "reverted"} :
           transfers' = [transfers EXCEPT ![t].state = state]
    /\ UNCHANGED <<mode, ledgers, journal, driver, requests, clock, history>>

(***************************************************************************)
(* The specification                                                       *)
(***************************************************************************)
DriveStep(d) ==
    \/ LockDrive(d) \/ SendPhase1(d) \/ CallFails(d) \/ Phase1Answered(d)
    \/ SignRaw(d) \/ JournalSigned(d) \/ MintPendingID(d) \/ Queue(d)
    \/ JournalQueued(d) \/ PollQueue(d) \/ SendPhase2(d) \/ Phase2Answered(d)
    \/ SettlePayables(d) \/ SettlePayablesFails(d) \/ JournalSettled(d)

PayeeStep(q) == \/ PayeePhase1(q) \/ PayeePhase2(q) \/ PayeeVerifyFails(q)
                \/ PayeeSettles(q) \/ PayeeLoses(q)

QueueStep(t) == Resolve(t) \/ ExecuteApproved(t) \/ Complete(t) \/ ExecutorDies(t)

OperatorStep(e) ==
    \/ AccrueReceivable(e) \/ AccruePayable(e)
    \/ PayerDisputes(e) \/ PayeeDisputes(e)
    \/ \E to \in {"accrued", "written_off"} : PayerResolves(e, to) \/ PayeeResolves(e, to)

Next ==
    \/ \E e \in Entries : OperatorStep(e)
    \/ \E d \in Drivers : SettleCall(d) \/ Acquire(d) \/ WatchTick(d) \/ DriveStep(d)
    \/ \E q \in requests : PayeeStep(q)
    \/ \E t \in DOMAIN transfers : QueueStep(t) \/ Chain(t)
    \/ Crash

\* The watcher ticks every two seconds and a call ends by its timeouts; a
\* queued payment is decided by its approver or expires, and who carries it out
\* comes to an end or dies; the payer's ledger does not refuse every write.
Fairness ==
    /\ \A d \in Drivers : /\ WF_vars(WatchTick(d) \/ Acquire(d) \/ DriveStep(d))
                          /\ SF_vars(SettlePayables(d))
    /\ WF_vars(\E t \in DOMAIN transfers : QueueStep(t))

Spec == Init /\ [][Next]_vars

FairSpec == Spec /\ Fairness

(***************************************************************************)
(* Properties                                                              *)
(***************************************************************************)
RecordType ==
    [state : JournalState, covers : SUBSET Entries, read : Nat, cutoff : Nat,
     pending : Nat, tx : Nat, raw : BOOLEAN, attempts : Nat]

Payment ==
    [offer : Nat, covers : SUBSET Entries, state : {"made"} \cup OnChain,
     entry : {"none", "pending", "approved", "sent", "refused", "failed"},
     executor : {"none", "signing", "sent", "failed"}]

Goroutine ==
    [pc : Unlocked \cup {"drive", "calling", "answered", "signed", "queue",
                         "queued", "acked", "settling"},
     rec : RecordType, view : SUBSET Entries, read : Nat, tx : Nat,
     resp : {"none", "awaiting_tx", "ack", "reject", "pending"}]

Request ==
    [caller : Drivers \cup {Nobody}, phase : {1, 2}, covers : SUBSET Entries,
     tx : Nat, pc : {"received", "matched"}]

LedgersTypeOK ==
    /\ payable \in [Entries -> [st : EntryState, ts : Nat, tx : Nat]]
    /\ receivable \in [Entries -> [st : EntryState, tx : Nat]]

\* Every variable has its type and keeps its bound; at most one record is live
\* (Acquire), and until a stale record is driven none is retried more than
\* settlePhase2MaxAttempts times.
SettleTypeOK ==
    /\ mode \in Modes /\ LedgersTypeOK
    /\ journal \in Seq(RecordType) /\ Len(journal) <= MaxRecords
    /\ transfers \in Seq(Payment) /\ Len(transfers) <= MaxTransfers
    /\ driver \in [Drivers -> Goroutine]
    /\ requests \subseteq Request
    /\ clock \in Nat /\ crashes \in 0..MaxCrashes /\ disputes \in 0..MaxDisputes
    /\ Cardinality(LiveAt) <= 1
    /\ staled \/ \A i \in DOMAIN journal : journal[i].attempts <= MaxAttempts

\* The payments that have reached the chain, or that a word of the approver or
\* the one who carries it out can still bring there.
Submitted(t) ==
    transfers[t].state \in OnChain \/ transfers[t].entry \in {"pending", "approved"}

\* A close-out pays once, however often it is interrupted and resumed: no
\* two payments made for the same signed offer both leave the node.
OneTransferPerRecord ==
    \A t, u \in DOMAIN transfers :
        Submitted(t) /\ Submitted(u) /\ transfers[t].offer = transfers[u].offer => t = u

\* It pays twice only if a goroutine drove a record that the journal had left
\* behind since it was read: as long as every drive starts from what the journal
\* has, the drive lock, the minted id and the journaled raw are enough.
PaidTwiceOnlyByStaleDrive == staled \/ OneTransferPerRecord

\* The journal is written ahead of every submission: whatever payment left
\* the node is named by the record of its offer, so a restart finds it.
SubmittedIsJournaled ==
    \A t \in DOMAIN transfers : Submitted(t) =>
        \E i \in DOMAIN journal :
            /\ journal[i].cutoff = transfers[t].offer
            /\ t \in {journal[i].pending, journal[i].tx}

\* A charge is covered by a second payment only after the close-out that
\* made the first one was given up: rejected by the payee, stalled, or
\* failed on the approver's word.
PaidAgainOnlyAfterGivingUp ==
    \A t, u \in DOMAIN transfers :
        /\ Submitted(t) /\ Submitted(u) /\ t < u
        /\ transfers[t].covers \cap transfers[u].covers # {}
        => \E i \in DOMAIN journal :
               /\ journal[i].cutoff = transfers[t].offer
               /\ journal[i].state \in {"rejected", "stalled", "failed"}

\* No row is closed without a payment: the payee marks a receivable paid only
\* under a payment that is mined, and the payer marks a payable paid only under
\* one that the payee has accepted.
ClosedIsPaid ==
    /\ \A e \in Entries : receivable[e].st = "settled" =>
           /\ receivable[e].tx \in DOMAIN transfers
           /\ transfers[receivable[e].tx].state = "mined"
    /\ \A e \in Entries : payable[e].st = "settled" => Consumed(payable[e].tx)

\* Until a stale record is driven a payment closes no more charges at the payee
\* than it paid for, and the payer closes its books only behind the payee: a
\* settled record, and a covered row settled under a payment, are settled under
\* it at the payee.  (A row accrued between the read of the rows and that of the
\* cutoff is settled by settlePayables although no payment covers it.)  With or
\* without stale drives no row is closed without a payment.
BooksAgree ==
    LET PayeeClosed(e, t) == receivable[e].st = "settled" /\ receivable[e].tx = t
        ClosedUnder(t) == { e \in Entries : PayeeClosed(e, t) }
    IN  /\ ClosedIsPaid
        /\ staled \/
              /\ \A t \in DOMAIN transfers :
                    Cardinality(ClosedUnder(t)) <= Cardinality(transfers[t].covers)
              /\ \A i \in DOMAIN journal : journal[i].state = "settled" =>
                    \A e \in journal[i].covers : PayeeClosed(e, journal[i].tx)
              /\ \A e \in Entries : payable[e].st = "settled" =>
                    (e \in transfers[payable[e].tx].covers => PayeeClosed(e, payable[e].tx))

\* The cutoff keeps later charges out: the payer settles, behind the payee's
\* acknowledgement, a row that the acknowledged offer lists, or one that
\* (re-)accrued while that offer was being built, after the rows were read and
\* before the cutoff was.  A charge that accrues after the cutoff, or is still in
\* dispute then, stays open, also when a stale record is driven.
SettlesOfferedOrRacing ==
    [][ \A e \in Entries :
            payable[e].st = "accrued" /\ payable'[e].st = "settled" =>
                \E d \in Drivers :
                    LET rec == driver[d].rec
                    IN  /\ At(d, "acked") /\ payable'[e].tx = rec.tx
                        /\ \/ e \in rec.covers
                           \/ payable[e].ts \in rec.read .. rec.cutoff ]_vars

\* The live record waits for an approval that was given and that nobody carries
\* out any more: it is not swept, decided again or executed again.
Stuck == LiveAt # {} /\ \E t \in DOMAIN transfers :
             /\ t = LiveRec.pending
             /\ transfers[t].entry = "approved" /\ transfers[t].executor = "none"

\* Every close-out ends (while a record is live there is no other), retries being
\* bounded and the approval queue deciding, except where the process that carried
\* out an approval died, or could not write, before the result was written.
CloseOutEnds == (LiveAt # {}) ~> (LiveAt = {} \/ Stuck)

===============================================================================
