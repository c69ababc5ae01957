# Rhizome: a TLA+ verification project

Rhizome is an agent runtime whose nodes form a peer-to-peer mesh: they lend
each other work, keep books about it, settle what they owe on a chain, and buy
and sell work through an on-chain escrow.  This directory models the parts of
it where money, work or events can be lost, duplicated or left hanging: the
escrow contract and its arbitration adapter, the swarm work queue, remote mesh
tasks, the web3 close-out between two nodes, and the in-process event bus.  TLC
checks the models on small instances; TLAPS proves, for every instance, the
safety properties of escrow, adapter, work queue, close-out, tasks and event
bus, and that the escrow (with and without the adapter) implements an abstract
promise.

Paths below are relative to the repository root.

## 1. Inventory

### Modelled

**Market escrow contract** (`contracts/RhizomeEscrow.sol`).
State: a mapping of sessions (parties, arbiter, token, amount, released,
deadline, status, drawdown flag) and one token balance that all sessions share.
Operations: `open`, `release`, `dispute`, `resolve`, `claim`, `withdraw`.
Hard: the seller's claim and the buyer's withdraw race around the deadline,
a dispute takes both time-based exits away, sessions share one balance, and
an id comes back if its correlation id does.
Correct means: no session spends another one's deposit, each deposit leaves
exactly once, nobody is paid before time or outside the terms, and money does
not stay locked while the people who can free it act.

**Kleros adapter** (`contracts/RhizomeKlerosAdapter.sol`).
State: two mappings between session ids and arbitrator dispute ids.
Operations: `createDispute`, `rule` (a callback of the arbitrator).  It is the
`arbiter` of the sessions it serves, and calls `escrow.resolve`.
Hard: 0 is both "no dispute" and a dispute id; a ruling that reverts is stuck.
Correct means: a dispute that was paid for can be ruled, once per session, and
an escalated session ends by that ruling only.

**Swarm work queue** (`pkg/rhizome/swarm/queue.go`, `offerstore.go`).
State: per offer its info, claims, three channels used as flags, and the
resolver goroutine; the offer file; what each member has observed.
Operations: `Offer`, `onClaim`, `resolveOffer` (collect, assign, watch, retry),
`CancelOffer`, the reaper, `Start`/`redriveOffers`, `Stop`; on the members
`onOffer`, `onAssign`, `onCancel` and their reaper.
Hard: a resolver and a canceller that each act on what they read under the
lock some time ago; claims and submits that are lost, late or repeated; a
restart between any two steps.
Correct means: work goes only to claims of the current attempt, retries
are bounded, every offer is finished, cancel stops the work,
and a restart neither loses nor duplicates what was in flight.

**Web3 close-out** (`pkg/rhizome/mesh/econweb3.go`, `pkg/rhizome/econ/inflight.go`,
`econ/settle.go`, `pkg/rhizome/econweb3/`).
State: the payer's payables, the payee's receivables, the payer's in-flight
journal (a write-ahead file), the pending-approval queue, the chain, and what
each driving goroutine holds.
Operations: `EconomySettleWeb3` and the watcher's `settleDriveStep`, both of
which drive a record offered → paying / awaiting_approval → broadcast →
settled; `handleSettleOfferWeb3` phases 1 and 2; dispute and resolve commands;
the approval queue's `Resolve`, `ExecuteApproved` and `Complete`; the chain.
Hard: a crash between signing and journaling, or between an approval and its
result; two goroutines on one record; a phase-2 call that times out while the
payee is still verifying; terminal states whose payment may still be mined.
Correct means: a charge is paid once, nothing leaves the node unjournaled, the
payee marks paid only what was paid, and the payer closes only behind it.

**Mesh tasks** (`pkg/rhizome/mesh/task.go`, `taskstore.go`,
`pkg/rhizome/agenttask/agenttask.go`).
State: a serving node's task store with its task file and save timer, one
goroutine per task, the receivables; the caller's position in its retry and
poll loops, and its payables.
Operations: `handleTaskSubmit`, `runMeshTask` with `Start`, `Finish` and the
booking, `handleTaskCancel`, eviction, `save`, `Load`, `Close`; on the caller
`SubmitRemoteTaskWithPeer`, `submitRemoteTask`, `pollRemoteTask`,
`RemoteTaskResult`.
Hard: a submit that is retried while its first handler is still at work; a
run that ends after its task was cancelled, evicted or closed; a save that is
overtaken by a later one; a peer that forgets what it was asked.
Correct means: one task per call and peer, a terminal status that stays, one
row per charge on either side and none of the caller's without the peer's, no
task file that contradicts a result that was told, and calls and tasks that end.

**Runtime event bus** (`pkg/events/bus.go`, `subscription.go`, `channel.go`).
State: a subscription's bounded channel, its `closing`/`closed` flags and
`blockWG`, the run goroutine, spawned handlers or one worker per scope key, and
three counters.
Operations: `publish` (blocking or not), the three back-pressure policies,
`run`, `dispatch` in three modes, handler timeouts, `SubscribeOnce`,
`closeInput` from a caller, a context, the bus or the run goroutine itself.
Hard: closing a channel that publishers may be about to send on, without a
deadlock with publishers that wait for room, and without losing count.
Correct means: no send on a closed channel, every received event accounted
for, order within a scope, a once-handler called once, `Done` only when nothing
more happens, and a close that always gets there.

### Partly modelled

| Component | In the model | Left out so far |
|---|---|---|
| Bilateral ledger (`econ/ledger.go`, `mesh/econ.go`, `econproto.go`) | entry states and transitions, dispute/resolve, close-out marking (EconSettle) | append-only file, mark-only handshake, balances and exports |
| Swarm membership (`swarm/coordinator.go`, `presence.go`, `guard.go`, ...) | delivery of offers, claims, assignments and cancels, `Start` and `Stop` (SwarmQueue) | roster, presence, join/leave, replay guard |
| Mesh node (`mesh/mesh.go`, ...) | the settle_offer exchange and the recording of charges (EconSettle); the task protocol is MeshTasks | blobs, skills, fan-out, signing, peer scores |
| Web3 wallet and pending queue (`pkg/web3`) | minting, queueing, refusal and expiry of a payment; approval, execution and its result as three writes (EconSettle) | the queue's cap (`boundLocked`), spending policy, keys, RPC |

### Not modelled

Swarm goal runs and blackboard, settlement rails and fake chains, market
server: planned, section 7.  Transports and access control, price sheets, peer
sync and merge, pairing and libp2p, the message bus (`pkg/bus`, three channels
with the closing discipline of the event bus), cron: possible, but with less at
stake or mostly I/O.  The agent loop, tools,
providers, channels, configuration, skills, memory, updater, command line and
web interface are I/O, parsing and presentation around external services, with
little state of their own to check.

## 2. Modules

| Module | Models | Uses |
|---|---|---|
| `RhizomeEscrow` | the escrow contract | |
| `MCRhizomeEscrow` | its TLC instance: symmetry of sessions and accounts | `RhizomeEscrow` |
| `RhizomeEscrowProofs` | its theorems | `RhizomeEscrow`, TLAPS |
| `EscrowPromise` | what the contract promises: one separate box per session | |
| `EscrowPromiseProofs` | that the contract implements it | `RhizomeEscrowProofs` |
| `RhizomeKlerosAdapter` | the adapter, the arbitrator, and the escrow they act on | `RhizomeEscrow` |
| `RhizomeKlerosAdapterProofs` | its theorems | `RhizomeKlerosAdapter`, `EscrowPromiseProofs` |
| `SwarmQueue` | one offerer's queue, its store, the members | |
| `SwarmQueueProofs` | its theorems | `SwarmQueue`, TLAPS |
| `EconSettle` | payer, payee, journal, approval queue and chain for one (peer, unit) | |
| `EconSettleProofs` | its theorems | `EconSettle`, TLAPS |
| `MeshTasks` | caller, serving peers, task stores and both ledgers | |
| `MCMeshTasks` | its TLC instance: symmetry of peers and calls | `MeshTasks` |
| `MeshTasksProofs` | its theorems | `MeshTasks`, TLAPS |
| `EventBus` | one subscription of the event bus, from subscribe to Done | |
| `MCEventBus` | its TLC instance: the option combinations | `EventBus` |
| `EventBusProofs` | its theorems on types and closing | `EventBus`, TLAPS |
| `EventBusDeliveryProofs` | its theorems on the way of an event | `EventBusProofs` |

The definitions marked "Faulty variant" or "Variant" are plausible mistakes (a lost
guard, a missing reset).  No specification uses them; each shows, put in the
place of the definition it varies, that a property would notice.

### RhizomeEscrow

One action per external function; a `require` is a guard, because a call that
reverts changes nothing, and `nonReentrant` makes a call one step.  `sessions`
is the contract's mapping, `balance` the tokens' own ledgers (the token is
external: a transfer moves the amount or the call reverts), `now` is
`block.timestamp`.  `paid` is a history variable: what each session has paid to
either side, counted by the transfers, so that `PaidExactly` compares the
contract's bookkeeping with the money that really moved.  `MaxTime` bounds the
clock, and `WithinHorizon` only lets a session open if its deadline and grace
lie below it, so that no session is stuck because the model's time ends.
Amounts are unbounded naturals: Solidity 0.8 reverts on overflow.

### EscrowPromise

The abstract specification: a session is a box that is unused, held or ended,
with terms fixed when the buyer deposits into it; part of its content may go to
the seller (`PayPart`), and once, at the end, the rest is shared between seller
and buyer (`ShareRest`).  There is no clock, no arbiter, no lock and above all
no common balance.  `RhizomeEscrow` maps its state to it (`BoxStates`,
`BoxTerms`, `BoxHeld`, `Purse`) and `PromiseKept` says that the contract
implements it: although sessions share one token balance, they are as good as
separate boxes, and a dispute or the passing of time moves no money.

### RhizomeKlerosAdapter

`EXTENDS RhizomeEscrow`; the adapter is one of its accounts and acts only when
it is called.  `CreateDispute` is the caller's transaction with the
arbitrator's mint inside it (`NextDisputeID`, external); the jurors' verdict is
chosen at that moment and executed by `Rule`, which computes the awards
(splitting an odd remainder) and calls `Resolve`.  If `Resolve` would revert,
`Rule` is not enabled, which is what `PendingRulingApplies` and
`EscalationEnds` look for.

### SwarmQueue

A section under `q.mu` is one action.  `pc[o]` is where the `resolveOffer`
goroutine of offer `o` stands, `cpc[o]` where `CancelOffer` stands, and
`doomed[o]` is the task the canceller read under the lock and acts on after
it.  A claim is checked (`vetted`), pushed (`claimsCh`) and collected
(`claims`) in separate steps, as in the code.  `resolved`, `finished` and
`cancelCh` are the three channels, as "closed or not".  `stored` is the offer
file, rewritten by `PersistLocked` inside the actions that save.  Broadcasts
and claims stay in `msgs` for ever: any of them may be lost, delayed or
delivered again.  Scores, loads and quotes are arbitrary, so `filterClaimsByPrice` may
leave any of the collected claims and `Submit` takes one of those.
One call of the submitter is `mesh.SubmitRemoteTaskWithPeer`: with
`TaskFailover` it goes on to further peers after a lost answer and may leave a
task at each.  `task[o][k]` is the task of attempt `k` at the last peer its call
tried; the tasks at earlier ones are known to nobody on this side, so `strays`
only notes the attempts that have some.  `calls[o]` counts the submitter's calls
over all lives of the daemon, `late[o]` those made after the cancel channel was
closed, in this life.  All three are history variables.

`Matching` are the offers whose requirements the members meet; a member may
also decline any of them.

`Stop` closes the queue and waits for the resolvers (`StopReturns`); `Crash`
does not wait.  `Start` loads the file and starts `redriveOffers`, whose
records (`todo`) are processed one by one.

### EconSettle

`driver[d]` is one goroutine of the payer: an operator's `EconomySettleWeb3` or
a tick of the watcher.  It reads the live record, takes the drive lock and
steps through `driveInflight`; each write of the journal is one action, and so
is each exchange with the payee, the chain and the approval queue.  A crash
empties every driver and keeps ledgers, journal, queue and chain.  The human's
command that approves a payment is a process of its own: it writes the approval
(`Resolve`), signs and broadcasts (`ExecuteApproved`) and writes the result
(`Complete`); it may die in between (`ExecutorDies`), and the entry then reads
approved for good.  At the
payee a request is matched (`PayeePhase1`, `PayeePhase2`) and, after the wait for the chain,
settled or refused as a separate step; between the two the caller may have
timed out, retried or crashed.  Every charge costs one unit, so that an amount
is the number of charges covered.  TS and cutoff are readings of one clock;
`read` of a record is a history field, the time at which its entries were
listed, so that `SettlesOfferedOrRacing` can name the interval of the race.

A goroutine reads the record and then takes the lock, as in the code, and
drives what it read although the record may have moved on.  The history
variable `staled` notes the first time that happens to a record the journal
has left behind (`LockDrive`, `Stale`).  What two goroutines then do to one
record is finding 2; several properties speak of the behaviour up to that
moment, and say so.

### MeshTasks

A task is a record in `tasks` (its index is its id and its age): the fields of
the store's entry, whether it is still stored, whether its `done` channel is
closed, and where its `runMeshTask` goroutine is.  `handleTaskSubmit` takes the
store's lock for the look-up and the capacity check and again for `Submit`
(`AdmitSubmit`, `SubmitNew`/`SubmitAgain`), so that two handlers of the same
call, or of two calls at a full store, interleave.  `Submit` evicts, `Finish`
writes only over a status that is not terminal, the receivable is booked after
`Finish` has let the lock go (`BookReceivable`).  `save` takes its snapshot in
`SaveTimer` and renames in `SaveRename`; several saves may be under way.
`Stop` closes the store, `Restart` loads the file and marks what had not ended
as failed.  The caller retries a peer, fails over to another, polls and gives
up after `maxConsecutiveFailures`; each fetched result is booked through
`Ledger.Record`, which ignores a row it has.  `Refetch` is `RemoteTaskResult` by
task id, at any time and for any stored task, also one that a retried or
failed-over call left behind; `byHand` is a history variable, the tasks that
such a fetch has booked.  A handler outlives the timeout of its caller
(`waits`), and a cancel request arrives at any time or never.

### EventBus

Each look at a flag, send, receive, lock and wait of `subscription.go` that
another goroutine can come between is a step.  `close` is how far `closeInput`
is; `pub[p]` is where a publisher stands, in particular whether it holds the
read lock or is counted in `blockWG`; `runner`, `spawned` and `workers` are the
goroutines of the three modes.  The counters are the sets of events they count,
so that `EveryEventAccounted` can say where each event is; `refused` and
`abandoned` are the two places no counter of the code tells of.  A publisher's
events stand for one scope key.  `handle` calls the handler itself or, under a
timeout, starts a goroutine that will (`Begin`, `launched`,
`LaunchedInvokes`) and returns with the handler, at the timeout or when the
subscriber's context is cancelled (`HandleReturns`), whether or not that
goroutine has got to its call.

## 3. Runs

| Run | Expect | Checks | Shows |
|---|---|---|---|
| `escrow_safety` | pass | `EscrowTypeOK`, `Solvent`, `PaidExactly`, `DrawdownRemainderIsBuyers`, `RefundNeedsRulingOrLapse`, `TermsAreFixed` | two sessions that may share parties, every role open to every account, in any order of calls: the contract holds exactly what it owes, pays each deposit once, and the buyer's refund never overtakes the seller's claim period |
| `escrow_ends` | pass | `SessionsEnd` | with live parties an undisputed session ends whatever the arbiter does; with a live arbiter every session ends, one locked with nothing left included |
| `kleros_rulings` | pass | `PendingRulingApplies`, `EscalationEnds`, `PromiseKept` | every minted dispute can be ruled, whatever the parties do in between, and ends its session, odd amounts included; escrow and adapter together implement `EscrowPromise` |
| `queue_offer` | pass | `QueueTypeOK`, `ClaimsAreCurrent`, `CancelAdmitsOneSubmit`, `OffersFinish` | one offer under every failure of broadcasts and calls, cancelled at any moment or not |
| `queue_restart` | pass | `SubmissionsBounded`, `ReofferIsFresh`, `StoreKeepsInFlight`, `RedrivenOffersFinish` | two offers in flight, lost calls, a stop or a crash at any point and a start: the submitter is called once per attempt, each record is re-offered under a fresh attempt, gets a goroutine and is finished |
| `queue_cancel_leak` | violation | `CancelledWorkStops` | finding 1 |
| `settle_books` | pass | `SettleTypeOK`, `PaidTwiceOnlyByStaleDrive`, `BooksAgree`, `SettlesOfferedOrRacing` | one close-out by wallet with two goroutines that read before they lock, two charges, a dispute, lost and late requests: a second payment only after a stale drive, no row closed without a mined payment, the payer closing behind the payee until a stale drive, and rows after the cutoff left open |
| `settle_again` | pass | `SubmittedIsJournaled`, `PaidAgainOnlyAfterGivingUp`, `CloseOutEnds` | successive close-outs of the same charge, by wallet and by approval, with a crash of the payer and deaths of the approver: each ends unless its approval was never executed, every payment is journaled before it leaves, and money goes out again only after a close-out was given up |
| `settle_two_drivers` | violation | `OneTransferPerRecord` | finding 2 |
| `tasks_failover` | pass | `BothSidesBook`, `TerminalIsFinal` | two calls over two peers that hold one task each, with late handlers, full stores, cancels and failover |
| `tasks_restart` | pass | `TasksTypeOK`, `OneTaskPerCall`, `BookedOnce`, `SavedResultsHold`, `CallsEnd` | one retried call at a peer that saves its tasks, stops, crashes and comes back, with ledger writes that may fail |
| `events_close` | pass | `BusTypeOK`, `NoSendOnClosed`, `EveryEventAccounted`, `InOrder`, `OnceCallsOnce`, `DoneIsTheEnd`, `CloseEnds`, `TakenInIsHandled` | two publishers and a subscription of every mode and policy that is closed at any moment |

`CHECK_DEADLOCK FALSE` throughout: all sessions may have ended, all offers be
finished, all books be closed.

### Bounds, and why they are enough

- **Escrow**: two sessions are the fewest that can spend each other's deposit;
  three accounts are buyer, seller and arbiter, and let a party of one session
  play another role in the second.  Amounts 1 and 2 give partial releases.
  With window 1, grace 1 and time up to 4 a session can be before, at and
  after its deadline and its grace.  `escrow_ends` has one session, as
  liveness of a session does not depend on others, and two windows.
- **Kleros**: two sessions and two disputes; amounts 1 and 3 make every split
  odd.  The grace is 0 since no withdraw is in question.
- **Queue**: one member with every attempt's claims is enough for stale claims
  (they come from an earlier attempt, not from another member).  In
  `queue_offer` one retry gives both a re-offer and running out.
  `queue_restart` has two offers, so that `redriveOffers` meets a file of two
  records; the members meet the requirements of one of them (`Matching`), the
  other runs out of its window without a claim.  It has no retries, cancels
  or failover, which `queue_offer` covers without restarts: the two
  together are beyond TLC here.  Attempts are typed up to one more than the
  code should make, so that one too many is seen.
- **Close-out**: `settlePhase2MaxAttempts` is 2 instead of 100: retried and
  given up are both reached.  Two goroutines are an operator and the watcher.
  Two charges, one of them accrued during the run, are needed for the cutoff
  and for partly settled matches; two records for paying again.
  `settle_books` has the wallet only: with both modes and a dispute it has more
  than seven million states.  Approval is run with one driver in `settle_again`
  and with two, but one charge, in `settle_two_drivers`; the theorems are about
  both modes and any number of goroutines.
- **Tasks**: two peers and two calls are the fewest for failover and for a
  handler that takes the room of another; a store of one task makes every
  second submit evict.  `tasks_restart` has one peer and one call with two
  attempts, so that a retry meets its own first handler and the task of
  before the restart, and two failed polls, so that both "once more" and
  "give up" happen.
- **Events**: nine option combinations (`MCOptions`) in which every mode meets
  a policy that waits and one that overflows, with and without `once`, and each
  way to a handler a timeout.  With a buffer of one and three publications of two publishers the
  queue is empty, full, and contended by both; two events of one publisher
  are needed for order.

### Fairness

- `PartyFairness` (escrow): blocks are mined, and a party that can take its
  money out eventually does; it costs it one transaction and the money is its
  own.  Nothing is assumed of the arbiter, except in the second half of
  `SessionsEnd`, where the arbiter's fairness is the premise.
- Kleros `FairSpec`: the arbitrator executes the ruling of a dispute whose fee
  it was paid.  Nothing is assumed of the parties.
- Queue `Fairness`: goroutines that can run do; the claim window and the stall
  timer are Go timers; calls have timeouts.  Nothing is assumed of members,
  network, remote task or user.  `RestartSpec` adds that a daemon which went
  down is started again.
- Close-out `FairSpec`: the watcher ticks every two seconds and calls end by
  their timeouts; a queued payment is decided or expires, and the process that carries
  out an approval comes to an end or dies; the payer's ledger
  does not refuse every write (strong fairness of `SettlePayables`: the code
  retries a failed mark at each tick without counting it).  Nothing is assumed
  of the payee or the chain: `CloseOutEnds` also by giving up.  It excepts the
  close-out whose approver died (`Stuck`), which in the code stays live for ever.
- Tasks `Fairness`: calls have timeouts, so a submit and a poll are answered
  or fail, the caller's loops go on by themselves, and a run ends by its own
  timeout.  Nothing is assumed of handlers, cancel requests, saves, restarts.
- Events `Fairness`: goroutines that can run do, those of handlers with a
  timeout included, and handlers return (or their timeout passes).  Nothing is assumed of anyone who publishes or closes, of a
  publisher's context, or of the reader of a `SubscribeChan` channel.

## 4. Proofs

`RhizomeEscrowProofs` proves, for every set of sessions, accounts, tokens,
amounts and windows, and every grace, bound and initial fund:

| Theorem | States |
|---|---|
| `EscrowTypeCorrect` | `EscrowSpec => []EscrowTypeOK`; in particular no balance goes below zero |
| `EscrowPaysExactly` | `EscrowSpec => []PaidExactly` |
| `EscrowStaysSolvent` | `EscrowSpec => []Solvent` |
| `EscrowCoversLive` | what a live session has not paid out is in the contract (`LiveIsCovered`) |
| `EscrowDrawdown` | `EscrowSpec => []DrawdownRemainderIsBuyers` |
| `EscrowRefunds` | `EscrowSpec => RefundNeedsRulingOrLapse` |
| `EscrowTermsFixed` | `EscrowSpec => TermsAreFixed` |

The only assumption is `ConstantsAssumption` of `RhizomeEscrow`: the contract's
address and the zero address are no accounts, the zero address is no token,
and the numeric constants are naturals.

The argument: `EscrowInv == EscrowTypeOK /\ PartiesKnown /\ PaidExactly` is
inductive (`EscrowInvInit`, `EscrowInvStep`, combined in `EscrowInvariant`).
None of the parts is inductive alone.  Types need `PaidExactly`, since
`amount - released` is natural only because `released <= amount`, and need
`PartiesKnown` (a session that exists names real, distinct parties and a real
token), since a payout to the zero address would leave the domain of
`balance`.  `EscrowStepCases` splits a step into the seven actions with typed
parameters; `TransferType` and `TransferBothType` say once that a transfer
keeps balances natural.  The two action properties and the drawdown invariant
follow from `EscrowInv` action by action; `DrawdownRemainderIsBuyers` needs
`PaidExactly` because withdraw leaves what release had paid.

`Solvent` speaks of a sum over all sessions, and a fold over a set cannot be
reasoned about without induction.  So the model states the sum as a count:
`Owed(t)` has one element `<<id, n>>` for each token unit that session `id` may
still draw, and the contract's balance is the cardinality of that set.  A call
that writes one session exchanges that session's units for others and leaves
the rest alone (`OneSessionChanges`), so the count moves by the difference
(`ExchangeCardinality`); `TransferIn`, `TransferOut` and `TransferBothOut` say
that the balance moves by as much.  `SolventStep` compares the two, action by
action: a deposit is what becomes due, a release lowers both by the same, and
the calls that end a session pay out all that was left (`PaidExactly` again).
Finiteness of the set is part of the invariant, `SolventInv`, because the
cardinality of an infinite set says nothing; the set of sessions itself need
not be finite.  `EscrowCoversLive` is what callers rely on: the units of one
session are among those of all, so that no payout which the requires let
through can fail on the contract's own balance, however many sessions share it.

`EscrowPromiseProofs` proves `EscrowKeepsPromise`, `EscrowSpec => PromiseKept`:
the refinement, from `EscrowInvariant`.  A call that writes one session writes
one box (`BoxWritten`); a transfer into or out of the contract changes the purse
of the party and no other (`PurseCharged`, `PursePaid`, `PursesShared`, the
last for `resolve`, which pays two parties at once).  Then there is one lemma
per kind of step: `open` is a deposit (`OpenDeposits`), `release` pays a part
(`ReleasePays`), `resolve`, `claim` and `withdraw` share the rest
(`EndingShares`, by `EndShares`), and `dispute` and the clock are stutters
(`DisputeStutters`).
`PaidExactly` is needed for every payout: what the box holds is
`amount - released`, which is what the contract pays.

`EventBusProofs` proves, for any publishers, buffer, number of publications
and set of options:

| Theorem | States |
|---|---|
| `BusTypeCorrect` | `Spec => []BusTypeOK`: every queue stays within its buffer |
| `NobodySendsOnClosed` | `Spec => []NoSendOnClosed` |

The only assumption is `BusAssumptions`.  `TypeInv` strengthens `BusTypeOK` by
"the run goroutine has an event in hand when it uses one".  For the second
theorem `NoSendOnClosed` is not inductive: that no publisher holds the lock or
waits when `ch` is closed depends on the order in which `closeInput` goes.
`CloseInv` says it: once `closed` is set no publisher holds the read lock (one
that does keeps `closeInput` from setting it, and a later one turns back);
once `blockWG` was waited for no publisher is in it, and none gets in; and the
executors' channels are closed only by a run goroutine that is past its loop.
There is one lemma per actor (`PublisherKeeps`,
`CloseKeeps`, `RunnerKeeps`, `HandlerKeeps`).

`EventBusDeliveryProofs` adds, from the same assumption:

| Theorem | States |
|---|---|
| `EventsAreAccounted` | `Spec => []EveryEventAccounted` |
| `EventsStayInOrder` | `Spec => []InOrder` |
| `OnceIsOnce` | `Spec => []OnceCallsOnce` |
| `NothingAfterDone` | `Spec => DoneIsTheEnd` |

They share the invariant `DeliveryInv`.  Its core is `PathInv`, about the way
of an event from its publisher's hand to the handler: it is in one of nine
places at a time (`PlaceInv`, which splits what `EveryEventAccounted` calls
waiting into channel, run goroutine, goroutine and executor, and joins
`launched` and called to begun with); a publisher's
received events are numbered up to the last, and the one it has only found a
subscriber for is not among them (`NumberInv`); and the events of a publisher
ascend in every queue and, unless Concurrent, from those begun with backwards to
the channel, and without a timeout in the order of calls (`OrderInv`).  The parts need each other: an event leaves a queue
for good only if it is in it once, which is the order's doing, and the event
that is sent is newer than all before it only because it is in hand and
nowhere else.  So each step is shown as a move of one event: for every event,
the lemma of an action (`HandOutPath`, `ReceivePath`, `DispatchKeyedPath`,
`WorkerInvokesPath`, ...) says in which of the places it is afterwards.
`StageInv` says which parts of the machinery a mode uses, and that an executor
has the events of its key only; `LaunchInv`, that only a timeout gives a
handler a goroutine of its own, which has not called it.  With them, `RunningInv` (somebody waits for each
handler that has no timeout) gives the last part of `InOrder`.  `OnceInv`
says that a SubscribeOnce has at most one event past its channel, and `EndInv`
what the run goroutine has seen to on its way out; it needs `CloseInv` above,
since nothing may get into the channel after the loop has found it closed and
empty.

`RhizomeKlerosAdapterProofs` is about the two contracts together, for any
number of sessions and disputes:

| Theorem | States |
|---|---|
| `AdapterIsEscrow` | `Spec => EscrowSpec`: the adapter and its arbitrator do nothing an arbiter could not |
| `AdapterKeepsPromise` | `Spec => PromiseKept`, from the former and `EscrowKeepsPromise` |
| `AdapterStaysSolvent` | `Spec => []Solvent` |
| `PaidDisputesCanBeRuled` | `Spec => []PendingRulingApplies`, if `FirstDisputeID # 0` |
| `PaidRulingsAreFunded` | what a due ruling divides is in the escrow (`PendingRulingFunded`), if `FirstDisputeID # 0` |

The hypothesis of the last two is the finding about dispute id 0 in section 5:
with `FirstDisputeID = 0` `PendingRulingApplies` is false.  `TypeInv` adds to
`EscrowInv` the types of the two mappings and that disputes are numbered in
order (`IDsInOrder`), so that a new dispute takes nobody's number.
`PendingRulingApplies` is not inductive by itself: that a second escalation of
a session is refused needs `Registered`, which says that each dispute is the
one its session's entry names, and that entry is not 0.

`SwarmQueueProofs` proves, for any offers, members, retries, capacity and
restarts, under `QueueAssumption`:

| Theorem | States |
|---|---|
| `QueueTypes` | `Spec => []QueueTypeOK` |
| `ClaimsStayCurrent` | `Spec => []ClaimsAreCurrent` |
| `SubmissionsStayBounded` | `Spec => []SubmissionsBounded` |
| `CancelAdmitsOne` | `Spec => []CancelAdmitsOneSubmit` |
| `ReoffersAreFresh` | `Spec => ReofferIsFresh` |
| `FileKeepsInFlight` | `Spec => StoreKeepsInFlight` |

All follow from one inductive invariant, `IInv`.  Besides types and finite
channels it says: an attempt's number counts retries and restarts, in memory,
in the file and among the records still to be re-driven (`Counting`), which
the types rest on; the submitter has been called at most once for each attempt
up to the current one, and the file's attempt is never behind the calls made
(`CallsCounted`), so that a crash between a call and a save does not lose count;
what the daemon does not have
in memory has no resolver, claims or cancel (`Absent`); the file holds exactly
the offers in flight, at their current attempt, apart from the records still to
be re-driven (`FileIsCurrent`), so that a crash loses nothing; no broadcast is
ahead of its offer's attempt, and one about to go out is ahead of all that were
(`Broadcasts`), which makes a re-offer after a restart fresh; claims are of the
current attempt (`ClaimsAreCurrent`); and a submitter call after the cancel is the
resolver's last (`CancelHolds`).  Most actions change one offer and save, or
only one offer's claims, or only the members, and the proofs go by these kinds
of steps.

`EconSettleProofs` proves, for any charges, goroutines, close-outs, disputes,
transfers, crashes and retries, in both signer modes, under `SettleAssumptions`
alone:

| Theorem | States |
|---|---|
| `CloseOutTypes` | `Spec => []SettleTypeOK` |
| `RowsCloseOnlyWhenPaid` | `Spec => []ClosedIsPaid` |
| `SettlesOnlyOfferedOrRacing` | `Spec => SettlesOfferedOrRacing` |
| `OneTransferEach` | `Spec => []PaidTwiceOnlyByStaleDrive` |
| `BooksStayInAgreement` | `Spec => []BooksAgree` |
| `SubmissionsAreJournaled` | `Spec => [](~staled => SubmittedIsJournaled)` |
| `PaidAgainAfterGivingUp` | `Spec => [](~staled => PaidAgainOnlyAfterGivingUp)` |
| `AloneNeverStale` | `Spec => []~staled`, if there is one goroutine |

The first three hold of every behaviour, whatever record is driven, apart from
the bound on retries in `SettleTypeOK`.  The others hold until the first drive of a stale
record, some because the property itself says so; after it
`settle_two_drivers` violates `OneTransferPerRecord` (finding 2).  Up to then
there may be any interleaving of goroutines, crashes, late handlers, approvers
and chain; and with a single goroutine, as in `settle_again`, `AloneNeverStale`
makes the limit void.

What finding 2 does not touch is `ClosedIsPaid`, the first part of
`BooksAgree`: the payee closes a row only under a mined payment, the payer only
under a payment the payee has closed rows for.  Its invariant `AnyInv` knows
nothing of locks, nor of what a record covers or how often it was retried, since
a stale drive may write into a record other than the one it read.  It says that every hash
a record, a goroutine or a request carries is that of a payment
(`RecordsKnown`, `DriversHonest`, `RequestsMatch`), and that a goroutine which
acts on an acknowledgement still has in hand the hash that was acknowledged.
`WholeInv` adds what else is true of whole behaviours: bounds, one live record
(`Acquire` looks for one under the journal's lock), and that an accrued row
older than the read of an offer's rows is one of them, for the offers of
records and goroutines alike (`ReadsOK`), which gives
`SettlesOnlyOfferedOrRacing`.

The rest of `BooksAgree` ends with the first stale drive: two requests with one
hash and different covers may then be under way together, what one payment
closes is counted against the wrong record, and a record can be closed under
one hash while the payee has settled under the other.

The invariant of the theorems about what precedes it, `IInv`, has seven parts.  `JournalOK`: records are numbered by
their cutoffs, only the last may be live, and the pending id or hash a record
holds is that of a payment made for it.  `TransfersOK`: every payment was made
for a record, covers what the record covers, and has left the node only if the
record names it.  `LockOK`: at most one goroutine is past the lock, and what it
holds of the record is what the journal holds, or all but the id it is about to
use.  `BooksOK`: the payee's rows, the ended records and the payer's rows are
closed in this order, each under a mined payment that covers them.
`RequestsOK`: a request is about a payment that exists and about the record of
the goroutine that waits for it.  `ViewsOK`: an accrued row older than the read
of an offer's rows is one of them.  And the types.  None is inductive without
the others: the payee settles what a request says, the request is what a
goroutine holds, and that is what the journal holds only because of the lock.
Each action is summarised by what it does to each variable (`JournalStep`,
`TransfersStep`, `PayableStep`, `ReceivableStep`, `ViewStep`, `GoroutineStep`,
`RequestsStep`), and `Combine` shows once that such a step keeps the invariant.

The proof attempts corrected one property and one action.  `PollQueue` used to
take it for granted that a queued record has a pending id; a stale drive may
leave one without, in which case `QueuedTx` does not know the id and the step
is retried.  `SettlesOfferedOrRacing` used to
allow only the cutoff itself as the time of a racing row.  A row may also
accrue while another close-out comes and goes between the read and the cutoff;
it takes two records and two goroutines, beyond the bounds of the run.  The
property now goes by the interval from `read` to the cutoff.

`MeshTasksProofs` proves, for any peers, calls, store size, retries, tasks and
restarts, under `TasksAssumptions`:

| Theorem | States |
|---|---|
| `TasksTypes` | `Spec => []TasksTypeOK`; in particular `maxStoredTasks` is kept |
| `OneTaskEach` | `Spec => []OneTaskPerCall` |
| `ChargesBookedOnce` | `Spec => []BookedOnce` |
| `SavedResultsStay` | `Spec => []SavedResultsHold` |
| `TerminalStays` | `Spec => TerminalIsFinal` |
| `BothSidesUntilRestart` | `Spec => [](restarts = 0 => BothSidesBook)`, if `WritesMayFail = FALSE` |
| `BothSidesStay` | `Spec => []BothSidesBook`, if `WritesMayFail = FALSE` and `MaxRestarts = 0` |
| `OnlyResultsAreCharged` | only a task that reads "done" has a charge, in memory and in every file (`ChargeNeedsResult`) |

The inductive invariant: `TasksOK` (each store within its size, one stored task
for each call, open channels for tasks that have not ended), `FilesOK`,
`CallsOK` (a call has a task of its own at its peer once accepted and none
before), `RequestsOK` (of a call's requests at most one is waited for, at the
peer the call is at) and `LedgersOK` (a row of the caller that no fetch by id
booked is about the task its call accepted).  The size of a store after a restart is that of the file, and
the file may be that of any save under way, so `SnapshotOK` asks of every
snapshot, written or not, what a store has to satisfy: few enough tasks, of
this peer, one for each call, and no result that memory contradicts.  The last
is `SavedResultsHold`; that a saved result survives it does not say (section 5).
That a call by itself books one task only is because its task is set once: an
answer counts only while a request is waited for, and then the call has no task.
`EvictionMakesRoom` shows that `evictLocked` always leaves room for one, which
needs that the oldest task exists (`Oldest`).

`BothSidesUntilRestart` rests on `ChargesBooked`: a task that shows a charge is
about to be booked or is booked.  A node that is shutting down still books what
its runs return, so `Stop` does no harm; a node that dies between `Finish` and
the booking, or whose ledger write fails, has shown a charge that it never
books, and for this reason the two hypotheses are needed.  `BothSidesStay` is
the case of the run.

`OnlyResultsAreCharged` needs neither.  It is about the caller's side of
"success-only" (`docs/guides/economy.md:107`): `Load` takes a charge from the file
as it is, but marks what had not ended as failed, so that every snapshot that
may become the file must tie the charge to the result.  With it the finding
"Billed although cancelled" below stays on one side: the peer books a
receivable for a cancelled task, and no owner is ever shown a charge for it.

Only model-checked: what is about liveness, which is out of the prover's reach
(`SessionsEnd`, `EscalationEnds`, `OffersFinish`, `RedrivenOffersFinish`,
`CloseOutEnds`, `CallsEnd`, `CloseEnds` and `TakenInIsHandled`).

## 5. Findings

1. **Cancel while submitting** (`pkg/rhizome/swarm/queue.go:1025`,
   `queue_cancel_leak`).  `CancelOffer` reads "open" and finds no task to
   cancel; the resolver then writes `OfferAssigned` over `OfferCancelled` and
   leaves on the closed `cancelCh`.  The remote task runs on, the offer reads
   assigned for good.
2. **Stale record driven** (`pkg/rhizome/mesh/econweb3.go:637`,
   `settle_two_drivers`).  The first step of `driveInflight` uses the record as
   it was read before the lock: a second payment can be signed and sent.  The
   stale drive also writes its hash over that of the first payment; the payee
   may then settle under the first while the payer closes a record that names
   the second, so that `BooksAgree` claims its last parts only up to there.

Met while modelling, without a run of their own:

- **Dispute id 0** (`contracts/RhizomeKlerosAdapter.sol:112`):
  `disputeOfSession == 0` stands for "none".  With an arbitrator that counts
  from 0 (`FirstDisputeID = 0`) the first session can be escalated twice; the
  second fee buys a ruling that `resolve` rejects, and `PendingRulingApplies`
  is false.  `docs/operations/dispute-desk.md:126` says the second call
  reverts.
- **Tasks per call** (`queue.go:193`, `mesh/task.go:648-692`): `max_retries`
  bounds the submitter's calls, not the tasks: with `task_failover` one call can
  leave a task at every candidate whose answer was lost, the one late call that
  `CancelAdmitsOneSubmit` admits included, and none of these is ever cancelled.
- **Re-drive without resolver** (`queue.go:1278`): if the broadcast of a
  re-driven offer fails, the offer is open, stored and counted against
  `max_offers`, and no goroutine ends it before the next restart.  With
  `PublishMayFail = TRUE` `RedrivenOffersFinish` is false.
- **Stalled is terminal** (`pkg/rhizome/econ/inflight.go:78`): re-running
  `economy settle`, as the comment on line 39 advises, does not resume the
  record; it starts a new one and pays again while the first payment may
  still be mined.  `PaidAgainOnlyAfterGivingUp` allows it for this reason.
- **Approved and never executed** (`pkg/web3/pending.go:213-362`): the approval
  is written, then carried out, then its result is written.  If the process
  dies in between, or the last write fails, the entry reads approved for good:
  the sweep takes pending entries only (413-423), `Resolve` refuses it (233),
  `QueuedTx` reports "not done" without an error
  (`pkg/rhizome/econweb3/backend.go:294-296`), and `stepInflight` returns
  without counting (`econweb3.go:405-407`).  The record stays live, no other
  close-out with this peer can start, and the payment may even be on the chain;
  `econweb3.go:601-603` says that approval and delivery "all converge".
  `CloseOutEnds` excepts this case (`Stuck`).
- **Billed although cancelled** (`pkg/rhizome/mesh/task.go:330`): a run that
  returns a result after its task was cancelled, evicted or closed books a
  receivable, although `Finish` did nothing and the owner reads "cancelled";
  `docs/guides/economy.md:107` says "Success-only … failures never charge".
  `BothSidesBook` goes from the caller's row to the peer's for this reason.
- **Orphans can be booked** (`mesh/task.go:859-887`): `RemoteTaskResult` takes
  any task id, and `verifyTaskCharge` asks only for the price.  Whoever fetches
  by id a task that a lost answer, a failover or a lost store left behind books
  a second payable for the same call; the ledger keeps one row for each task,
  not for each call.  `BookedOnce` says so.
- **A saved result can be lost** (`mesh/taskstore.go:269-322`): `save` takes its
  snapshot under the lock, writes and renames outside of it, and nothing orders
  two saves.  A slow one renames an older file over a newer one, or over the
  one that `Close` flushed; a restart then shows a finished task as failed or
  not at all, and its charge can no longer be fetched.  `SaveRename` followed
  by `Restart` does this in the model; `SavedResultsHold` holds all the same,
  because the older file only has less.
- `max_concurrent_tasks` is a soft limit (`task.go:182`): the check and
  `Submit` are two sections, and concurrent handlers can pass it together.
- **Handlers that start late** (`pkg/events/subscription.go:381-406`): under a
  timeout the handler runs in a goroutine of its own, and `handle` may give up
  before that goroutine has called it (a cancelled subscriber context, a
  loaded scheduler).  So two events of one publisher can start in the wrong
  order in a Locked or Keyed subscription, and a handler can be called for the
  first time after `Done`, which line 229 says is "closed after the
  subscription has stopped processing".  `InOrder` and `DoneIsTheEnd` say of
  such subscriptions only in which order, and that before Done, `handle`
  begins with events.
- Event bus: two publishers that make room in a full `DropOldest` queue at
  the same time can drop both the displaced event and a new one
  (`pkg/events/subscription.go:585-593`; the comment on line 58 speaks of
  the oldest only).  A `Keyed` subscription loses queued events at close
  without counting them (299-302), unlike `Locked`, as which line 48 says it
  behaves; `EveryEventAccounted` has `abandoned` for them.  An event displaced
  while closing is missing in the bus's own dropped counter (586,
  `bus.go:97`).  A handler that publishes into its own full `Block` queue
  waits until somebody closes it.
- `redriveOffers` saves after each record, and the save holds only what is
  tracked so far: a crash in the middle loses the records not yet reached
  (`queue.go:1274`).  `StoreKeepsInFlight` leaves out the records that are
  still to be re-driven, and `queue_restart` has one restart, for this reason.
- The interleaving of finding 1 also breaks `max_offers`: the cancelled offer
  gives its place to another and is then written back to assigned.
- A graceful `Stop` fails offers that are collecting claims
  (`queue.go:899`), so they are not re-driven, unlike what
  `offerstore.go:20-22` says; re-offers keep `CreatedAt`, so that members
  may already have dropped them for age.
- Without a result fetcher an assigned offer stays assigned.
- A disputed session whose arbiter never rules keeps its money locked:
  `RhizomeEscrow.sol:277` says "A session nobody settles can't strand funds",
  but claim and withdraw are open to undisputed sessions only.
  `SessionsEnd` has the arbiter's fairness as a premise for this reason.
- `EconomySettleWeb3` reads the entries before the time (`econweb3.go:125`);
  a charge accrued in between is not in the offer, but before the cutoff, and
  is marked settled although unpaid.  `econ/settle.go:40-41` calls the set
  unambiguous.  `BooksAgree` speaks of covered rows for this reason.
- The payee marks rows one by one; if it fails in between, the retry finds
  a mix of settled and accrued rows and is rejected although it was paid.
  A rejection after the payment also allows a second one; both are the
  "given up" of `PaidAgainOnlyAfterGivingUp`.
- The journal's `Reap` has no caller.
- `econ/ledger.go:38-43` lists accrued → written_off, which the table at
  249-252 does not allow; the model follows the table.

## 6. Not covered

The token is an ERC-20 without transfer fees or hooks.  Gas, reorganisations
and the arbitrator's appeal periods are left out.  The queue has one offerer;
two offerers interact only through the capacity of members, which `MeshTasks`
has for two calls.  Tasks have one caller; eviction by age is eviction of any
ended task.  The bus has one subscription, since subscriptions share nothing but
the list they are found in; filters and priorities decide only which
publications reach it and when.  The close-out has one peer and unit; keys do not share
state, except that the watcher drives them in turn, which `WatchTick` and
`LockDrive` show as time between the read and the lock.  The approval queue
keeps all its entries; the code drops ended ones when it is full.  Of a payee that goes down only the lost request is modelled, and rows marked in part.  Signature
and envelope checks are taken as given: a message is from who it says.

## 7. Plan

Done since the plan was first made: the task store, the abstract escrow and
its refinement, the event bus, and the proofs about adapter, work queue,
close-out, tasks and bus: every safety property of the passing runs is proved,
some under the hypotheses or up to the moment section 4 names.  Next:

1. **Ledger handshake** (`mesh/econ.go`, `econproto.go`): the two books
   under lost and repeated charges and acknowledgements, and the mark-only
   close-out, against an abstract specification of two agreeing books that
   `EconSettle` also implements.
2. **SwarmMembers** (`coordinator.go`, `presence.go`, `guard.go`): roster,
   presence expiry, replay guard under clock skew and restart.
3. **SwarmRun** (`orchestrate.go`, `runstore.go`): goal runs over the queue;
   a run with no subtasks, a cancel that races `recordRun`.
4. **Rail and market** (`pkg/settlement`, `cmd/rhizome-market`) composed
   with the escrow; then the message bus and cron.

The runs are kept few: a question that another property answers as well is
dropped, and small questions join existing runs.

## 8. Running

    tlc -workers 2 -config RhizomeEscrow_safety.cfg MCRhizomeEscrow
    tlapm RhizomeEscrowProofs.tla
    tlapm EscrowPromiseProofs.tla
    tlapm EventBusProofs.tla
    tlapm EventBusDeliveryProofs.tla
    tlapm RhizomeKlerosAdapterProofs.tla
    tlapm SwarmQueueProofs.tla
    tlapm EconSettleProofs.tla
    tlapm MeshTasksProofs.tla

`PROJECT.json` lists every run with its module, configuration and properties,
and the source lines behind every definition.  Each run ends within five
minutes on two workers; `MeshTasks_failover.cfg` is the largest (2.3
million states).
