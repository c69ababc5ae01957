-------------------------------- MODULE EventBus --------------------------------
(***************************************************************************)
(* The in-process runtime event bus, pkg/events: publishers enqueue into   *)
(* the bounded channel of a subscription, its run goroutine hands each     *)
(* event to the handler (inline, in a goroutine of its own, or through a   *)
(* worker per scope key), and Close may come at any moment, from a caller, *)
(* from a cancelled context, from the bus or from the run goroutine of a   *)
(* SubscribeOnce.                                                          *)
(* One subscription is followed, from subscribe on; the publications are   *)
(* those that find it listed and match its filters.  An event is           *)
(* <<publisher, n>>, and its publisher stands for its scope key.  The      *)
(* counters of the subscription are the sets of the events they count.     *)
(***************************************************************************)
EXTENDS Integers, Sequences, FiniteSets, SequencesExt

CONSTANTS
    Publishers,   \* goroutines that publish, each under a scope of its own
    Options,      \* subscriptions: [mode, policy, once, timeout]
    Buffer,       \* SubscribeOptions.Buffer
    MaxPublish    \* bound: publications

Modes    == {"chan", "locked", "concurrent", "keyed"}   \* "chan": SubscribeChan
Policies == {"drop_newest", "drop_oldest", "block"}

ASSUME BusAssumptions ==
    /\ Options \subseteq [mode : Modes, policy : Policies,
                          once : BOOLEAN, timeout : BOOLEAN]
    /\ \A o \in Options : o.mode = "chan" => ~o.once   \* SubscribeOnce has a handler
    /\ Buffer \in Nat \ {0} /\ MaxPublish \in Nat

VARIABLES
    opts,        \* the subscription's options
    close,       \* how far closeInput is; "open" while the bus lists it
    done,        \* is Done() closed?
    ch,          \* the subscription's channel
    pub,         \* what each publisher is doing
    runner,      \* the run goroutine: [pc, evt]
    spawned,     \* events whose goroutine is in wg (Concurrent)
    workers,     \* key -> its keyedExecutor: [pc, q, evt]
    exClosed,    \* have the executors' channels been closed?
    launched,    \* events whose handler's own goroutine has not called it yet
    running,     \* events whose handler has been called and has not returned
    started,     \* history: events in the order their handlers were called
    received, dropped, delivered,   \* the counters
    refused,     \* history: received, then turned away by closing
    abandoned    \* history: taken from ch and not dispatched, by closing

vars == <<opts, close, done, ch, pub, runner, spawned, workers,
          exClosed, launched, running, started, received, dropped, delivered,
          refused, abandoned>>

closeVars   == <<opts, close, done>>
runVars     == <<runner, spawned, workers, exClosed>>
handlerVars == <<launched, running, started>>
counters    == <<received, dropped, delivered, refused, abandoned>>

Events == Publishers \X Nat

\* eventScopeKey
Key(e) == e[1]

(***************************************************************************)
(* closeInput: close(closing), then closed under the lock, then blockWG,   *)
(* then close(ch) under the lock.                                          *)
(***************************************************************************)
Closing  == close \in {"closing", "flagged", "waited", "shut"}   \* <-s.closing
Closed   == close \in {"flagged", "waited", "shut"}              \* s.closed
ChClosed == close = "shut"

\* Publishers that hold s.mu for reading, and those in blockWG.
HoldsRLock(p) == pub[p].pc \in {"locked", "sending", "full", "displaced"}
InBlockWG(p)  == pub[p].pc = "waiting"

Unlocked == \A p \in Publishers : ~HoldsRLock(p)

\* Variant: one event too many.
HasRoomForOneMore(queue) == Len(queue) <= Buffer

HasRoom(queue) == Len(queue) < Buffer

Init ==
    /\ opts \in Options
    /\ close = "open" /\ done = FALSE
    /\ ch = <<>>
    /\ pub = [p \in Publishers |-> [pc |-> "idle", n |-> 0, nonBlocking |-> FALSE]]
    /\ runner = [pc |-> IF opts.mode = "chan" THEN "none" ELSE "recv", evt |-> <<>>]
    /\ spawned = {}
    /\ workers = [k \in Publishers |-> [pc |-> "absent", q |-> <<>>, evt |-> <<>>]]
    /\ exClosed = FALSE
    /\ launched = {} /\ running = {} /\ started = <<>>
    /\ received = {} /\ dropped = {} /\ delivered = {} /\ refused = {}
    /\ abandoned = {}

(***************************************************************************)
(* Publish and enqueue.                                                    *)
(***************************************************************************)
Evt(p) == <<p, pub[p].n>>

Published == FoldFunction(LAMBDA st, n : st.n + n, 0, pub)

\* publish takes its snapshot of the subscribers and finds this one in it.
Publish(p, nonBlocking) ==
    /\ pub[p].pc = "idle" /\ Published < MaxPublish
    /\ close = "open"
    /\ pub' = [pub EXCEPT ![p] = [pc |-> "found", n |-> @.n + 1,
                                  nonBlocking |-> nonBlocking]]
    /\ UNCHANGED <<closeVars, ch, runVars, handlerVars, counters>>

Goto(p, pc) == pub' = [pub EXCEPT ![p].pc = pc]

\* Does this publication wait for room?
Waits(p) == opts.policy = "block" /\ ~pub[p].nonBlocking

\* enqueue looks at closed under the lock: the read lock, kept until it
\* returns, or the write lock, left for blockWG.
Enqueue(p) ==
    /\ pub[p].pc = "found"
    /\ Waits(p) => Unlocked
    /\ IF Closed
       THEN Goto(p, "idle") /\ UNCHANGED received
       ELSE /\ Goto(p, IF Waits(p) THEN "waiting" ELSE "locked")
            /\ received' = received \cup {Evt(p)}
    /\ UNCHANGED <<closeVars, ch, runVars, handlerVars, dropped, delivered,
                   refused, abandoned>>

\* How an enqueue ends: the event is in the channel, dropped, or turned away.
Deliver(p) ==
    /\ HasRoom(ch)
    /\ ch' = Append(ch, Evt(p))
    /\ delivered' = delivered \cup {Evt(p)}
    /\ Goto(p, "idle")
    /\ UNCHANGED <<dropped, refused>>

Drop(p) ==
    /\ dropped' = dropped \cup {Evt(p)}
    /\ Goto(p, "idle")
    /\ UNCHANGED <<ch, delivered, refused>>

Refuse(p) ==
    /\ Closing
    /\ refused' = refused \cup {Evt(p)}
    /\ Goto(p, "idle")
    /\ UNCHANGED <<ch, delivered, dropped>>

\* The first select of enqueueDropNewest and enqueueDropOldest.
CheckClosing(p) ==
    /\ pub[p].pc = "locked"
    /\ IF Closing THEN Refuse(p)
       ELSE Goto(p, "sending") /\ UNCHANGED <<ch, delivered, dropped, refused>>
    /\ UNCHANGED <<closeVars, runVars, handlerVars, received, abandoned>>

Send(p) ==
    /\ pub[p].pc = "sending"
    /\ \/ Deliver(p)
       \/ ~HasRoom(ch) /\ opts.policy # "drop_oldest" /\ Drop(p)
       \/ /\ ~HasRoom(ch) /\ opts.policy = "drop_oldest"
          /\ Goto(p, "full")
          /\ UNCHANGED <<ch, delivered, dropped, refused>>
    /\ UNCHANGED <<closeVars, runVars, handlerVars, received, abandoned>>

\* Variant: the event that makes room is not counted.
DisplaceUncounted(p) ==
    /\ pub[p].pc = "full"
    /\ ch' = IF ch = <<>> THEN ch ELSE Tail(ch)
    /\ Goto(p, "displaced")
    /\ UNCHANGED <<closeVars, runVars, handlerVars, counters>>

\* enqueueDropOldest takes the oldest event out, if the handler has not ...
Displace(p) ==
    /\ pub[p].pc = "full"
    /\ IF ch = <<>> THEN UNCHANGED <<ch, dropped>>
       ELSE ch' = Tail(ch) /\ dropped' = dropped \cup {Head(ch)}
    /\ Goto(p, "displaced")
    /\ UNCHANGED <<closeVars, runVars, handlerVars, received, delivered,
                   refused, abandoned>>

\* ... and tries once more; another publisher may have taken the room.
SendDisplaced(p) ==
    /\ pub[p].pc = "displaced"
    /\ Refuse(p) \/ Deliver(p) \/ (~Closing /\ ~HasRoom(ch) /\ Drop(p))
    /\ UNCHANGED <<closeVars, runVars, handlerVars, received, abandoned>>

\* Variant: a full queue is waited for, whatever happens to the subscription.
EnqueueBlockDeaf(p) ==
    /\ pub[p].pc = "waiting"
    /\ Deliver(p)
    /\ UNCHANGED <<closeVars, runVars, handlerVars, received, abandoned>>

\* enqueueBlock, unless the publisher's context ends first.
EnqueueBlock(p) ==
    /\ pub[p].pc = "waiting"
    /\ Refuse(p) \/ Deliver(p)
    /\ UNCHANGED <<closeVars, runVars, handlerVars, received, abandoned>>

PublishCancelled(p) ==
    /\ pub[p].pc = "waiting"
    /\ Drop(p)
    /\ UNCHANGED <<closeVars, runVars, handlerVars, received, abandoned>>

(***************************************************************************)
(* Close.  Whoever takes the subscription off the bus's list calls         *)
(* closeInput: Subscription.Close, by its owner or for a cancelled         *)
(* context, or EventBus.Close.                                             *)
(***************************************************************************)
CloseGoes(from, to) == close = from /\ close' = to

Unsubscribe ==
    /\ CloseGoes("open", "begun")
    /\ UNCHANGED <<opts, done, ch, pub, runVars, handlerVars, counters>>

CloseClosing ==
    /\ CloseGoes("begun", "closing")
    /\ UNCHANGED <<opts, done, ch, pub, runVars, handlerVars, counters>>

FlagClosed ==
    /\ CloseGoes("closing", "flagged") /\ Unlocked
    /\ UNCHANGED <<opts, done, ch, pub, runVars, handlerVars, counters>>

\* Variant: blockWG is not waited for.
WaitNoBlocked ==
    /\ CloseGoes("flagged", "waited")
    /\ UNCHANGED <<opts, done, ch, pub, runVars, handlerVars, counters>>

WaitBlocked ==
    /\ CloseGoes("flagged", "waited") /\ \A p \in Publishers : ~InBlockWG(p)
    /\ UNCHANGED <<opts, done, ch, pub, runVars, handlerVars, counters>>

CloseCh ==
    /\ CloseGoes("waited", "shut") /\ Unlocked
    /\ done' = (opts.mode = "chan" \/ done)
    /\ UNCHANGED <<opts, ch, pub, runVars, handlerVars, counters>>

(***************************************************************************)
(* The run goroutine, and the goroutines it starts.                        *)
(***************************************************************************)
AtRun(pc) == runner.pc = pc

\* After an event: the next one, or Close for a SubscribeOnce.
AfterEvent == runner' = [pc |-> IF opts.once THEN "once" ELSE "recv", evt |-> <<>>]

Receive ==
    /\ AtRun("recv") /\ ch # <<>>
    /\ runner' = [pc |-> "dispatch", evt |-> Head(ch)]
    /\ ch' = Tail(ch)
    /\ UNCHANGED <<closeVars, pub, spawned, workers, exClosed, handlerVars,
                   counters>>

\* Variant: what is left in the channel is not handled.
ReceiveNoMoreEarly ==
    /\ AtRun("recv") /\ Closing
    /\ runner' = [runner EXCEPT !.pc = "executors"]
    /\ UNCHANGED <<closeVars, ch, pub, spawned, workers, exClosed,
                   handlerVars, counters>>

\* The loop over ch ends when ch is closed and empty.
ReceiveNoMore ==
    /\ AtRun("recv") /\ ch = <<>> /\ ChClosed
    /\ runner' = [runner EXCEPT !.pc = "executors"]
    /\ UNCHANGED <<closeVars, ch, pub, spawned, workers, exClosed,
                   handlerVars, counters>>

Invoke(e) == running' = running \cup {e} /\ started' = Append(started, e)

\* handle calls the handler or, under a timeout, starts a goroutine for it.
Begin(e) ==
    \/ ~opts.timeout /\ Invoke(e) /\ UNCHANGED launched
    \/ opts.timeout /\ launched' = launched \cup {e} /\ UNCHANGED <<running, started>>

\* That goroutine gets to call the handler, if need be after handle has gone.
LaunchedInvokes(e) ==
    /\ e \in launched
    /\ Invoke(e)
    /\ launched' = launched \ {e}
    /\ UNCHANGED <<closeVars, ch, pub, runVars, counters>>

\* handle returns with its handler, or without it when the timeout is over or
\* the subscriber's context is cancelled.
HandleReturns(e) ==
    /\ \/ e \in running /\ running' = running \ {e}
       \/ opts.timeout /\ UNCHANGED running
    /\ UNCHANGED <<launched, started>>

DispatchLocked ==
    /\ AtRun("dispatch") /\ opts.mode = "locked"
    /\ Begin(runner.evt)
    /\ runner' = [runner EXCEPT !.pc = "handle"]
    /\ UNCHANGED <<closeVars, ch, pub, spawned, workers, exClosed, counters>>

RunnerReturns ==
    /\ AtRun("handle")
    /\ HandleReturns(runner.evt)
    /\ AfterEvent
    /\ UNCHANGED <<closeVars, ch, pub, spawned, workers, exClosed, counters>>

DispatchConcurrent ==
    /\ AtRun("dispatch") /\ opts.mode = "concurrent"
    /\ spawned' = spawned \cup {runner.evt}
    /\ AfterEvent
    /\ UNCHANGED <<closeVars, ch, pub, workers, exClosed, handlerVars, counters>>

\* Is the goroutine of a spawned event still to enter handle?
Fresh(e) == e \in spawned /\ e \notin launched /\ ~Contains(started, e)

SpawnedInvokes(e) ==
    /\ Fresh(e)
    /\ Begin(e)
    /\ UNCHANGED <<closeVars, ch, pub, runVars, counters>>

SpawnedReturns(e) ==
    /\ e \in spawned /\ ~Fresh(e)
    /\ HandleReturns(e)
    /\ spawned' = spawned \ {e}
    /\ UNCHANGED <<closeVars, ch, pub, runner, workers, exClosed, counters>>

\* dispatchKeyed starts the key's worker if there is none; its select may take
\* the closing branch although the executor has room.
DispatchKeyed ==
    /\ AtRun("dispatch") /\ opts.mode = "keyed"
    /\ LET k == Key(runner.evt)
           ex == [workers[k] EXCEPT !.pc = IF @ = "absent" THEN "idle" ELSE @]
       IN  \/ /\ HasRoom(ex.q)
              /\ workers' = [workers EXCEPT ![k] = [ex EXCEPT !.q = Append(@, runner.evt)]]
              /\ UNCHANGED abandoned
           \/ /\ Closing
              /\ workers' = [workers EXCEPT ![k] = ex]
              /\ abandoned' = abandoned \cup {runner.evt}
    /\ AfterEvent
    /\ UNCHANGED <<closeVars, ch, pub, spawned, exClosed, handlerVars,
                   received, dropped, delivered, refused>>

WorkerInvokes(k) ==
    /\ workers[k].pc = "idle" /\ workers[k].q # <<>>
    /\ Begin(Head(workers[k].q))
    /\ workers' = [workers EXCEPT ![k] = [pc |-> "handle", evt |-> Head(@.q), q |-> Tail(@.q)]]
    /\ UNCHANGED <<closeVars, ch, pub, runner, spawned, exClosed, counters>>

\* Variant: a worker does not wait for the handler it called.
WorkerGoesOn(k) ==
    /\ workers[k].pc = "handle"
    /\ workers' = [workers EXCEPT ![k].pc = "idle", ![k].evt = <<>>]
    /\ UNCHANGED <<closeVars, ch, pub, runner, spawned, exClosed, handlerVars, counters>>

WorkerReturns(k) ==
    /\ workers[k].pc = "handle"
    /\ HandleReturns(workers[k].evt)
    /\ workers' = [workers EXCEPT ![k].pc = "idle", ![k].evt = <<>>]
    /\ UNCHANGED <<closeVars, ch, pub, runner, spawned, exClosed, counters>>

\* Told to end by ex.done, a worker still drains its channel until it is closed.
WorkerEnds(k) ==
    /\ workers[k].pc = "idle" /\ workers[k].q = <<>> /\ exClosed
    /\ workers' = [workers EXCEPT ![k].pc = "over"]
    /\ UNCHANGED <<closeVars, ch, pub, runner, spawned, exClosed, handlerVars,
                   counters>>

\* A handler that outlived its timeout returns.
Attended(e) ==
    \/ AtRun("handle") /\ runner.evt = e
    \/ e \in spawned
    \/ \E k \in Publishers : workers[k].pc = "handle" /\ workers[k].evt = e

LateReturn(e) ==
    /\ e \in running /\ ~Attended(e)
    /\ running' = running \ {e}
    /\ UNCHANGED <<closeVars, ch, pub, runVars, launched, started, counters>>

\* Variant: SubscribeOnce leaves its subscription in place.
OnceStays ==
    /\ AtRun("once")
    /\ runner' = [runner EXCEPT !.pc = "recv"]
    /\ UNCHANGED <<closeVars, ch, pub, spawned, workers, exClosed,
                   handlerVars, counters>>

\* The run goroutine of a SubscribeOnce closes its own subscription, unless
\* somebody else is at it, and leaves.
OnceCloses ==
    /\ AtRun("once")
    /\ IF close = "open"
       THEN close' = "begun" /\ runner' = [runner EXCEPT !.pc = "closes"]
       ELSE UNCHANGED close /\ runner' = [runner EXCEPT !.pc = "executors"]
    /\ UNCHANGED <<opts, done, ch, pub, spawned, workers, exClosed, handlerVars,
                   counters>>

OnceClosed ==
    /\ AtRun("closes") /\ ChClosed
    /\ runner' = [runner EXCEPT !.pc = "executors"]
    /\ UNCHANGED <<closeVars, ch, pub, spawned, workers, exClosed,
                   handlerVars, counters>>

\* Variant: the goroutines of a Concurrent subscription are not waited for.
CloseChannelsAtOnce ==
    /\ AtRun("executors")
    /\ exClosed' = TRUE
    /\ runner' = [runner EXCEPT !.pc = "workers"]
    /\ UNCHANGED <<closeVars, ch, pub, spawned, workers, handlerVars, counters>>

\* The deferred part of run: wg.Wait, then the executors' channels are closed ...
CloseKeyedChannels ==
    /\ AtRun("executors") /\ spawned = {}
    /\ exClosed' = TRUE
    /\ runner' = [runner EXCEPT !.pc = "workers"]
    /\ UNCHANGED <<closeVars, ch, pub, spawned, workers, handlerVars, counters>>

\* ... and Done is closed when the workers have ended.
CloseDone ==
    /\ AtRun("workers")
    /\ \A k \in Publishers : workers[k].pc \in {"absent", "over"}
    /\ done' = TRUE
    /\ runner' = [runner EXCEPT !.pc = "over"]
    /\ UNCHANGED <<opts, close, ch, pub, spawned, workers, exClosed, handlerVars,
                   counters>>

\* The reader of a SubscribeChan channel takes an event.
ConsumerTakes ==
    /\ opts.mode = "chan" /\ ch # <<>>
    /\ started' = Append(started, Head(ch))
    /\ ch' = Tail(ch)
    /\ UNCHANGED <<closeVars, pub, runVars, launched, running, counters>>

(***************************************************************************)
(* The specification                                                       *)
(***************************************************************************)
EnqueueStep(p) ==
    \/ Enqueue(p) \/ CheckClosing(p) \/ Send(p) \/ Displace(p) \/ SendDisplaced(p)
    \/ EnqueueBlock(p)

PublisherStep(p) ==
    \/ \E nonBlocking \in {FALSE, opts.policy = "block"} : Publish(p, nonBlocking)
    \/ PublishCancelled(p)
    \/ EnqueueStep(p)

CloseStep == CloseClosing \/ FlagClosed \/ WaitBlocked \/ CloseCh

RunnerStep ==
    \/ Receive \/ ReceiveNoMore \/ DispatchLocked \/ RunnerReturns
    \/ DispatchConcurrent \/ DispatchKeyed \/ OnceCloses \/ OnceClosed
    \/ CloseKeyedChannels \/ CloseDone

SpawnedStep(e) == SpawnedInvokes(e) \/ SpawnedReturns(e)

WorkerStep(k) == WorkerInvokes(k) \/ WorkerReturns(k) \/ WorkerEnds(k)

Next ==
    \/ \E p \in Publishers : PublisherStep(p)
    \/ Unsubscribe \/ CloseStep
    \/ RunnerStep \/ ConsumerTakes
    \/ \E e \in spawned : SpawnedStep(e)
    \/ \E e \in launched : LaunchedInvokes(e)
    \/ \E e \in running : LateReturn(e)
    \/ \E k \in Publishers : WorkerStep(k)

Spec == Init /\ [][Next]_vars

\* Goroutines are scheduled and handlers return.  Nothing is assumed of who
\* publishes or closes, of a publisher's context or of the reader of a
\* SubscribeChan channel.
Fairness ==
    /\ \A p \in Publishers : WF_vars(EnqueueStep(p))
    /\ WF_vars(CloseStep) /\ WF_vars(RunnerStep)
    /\ WF_vars(\E e \in spawned : SpawnedStep(e))
    /\ WF_vars(\E e \in launched : LaunchedInvokes(e))
    /\ WF_vars(\E k \in Publishers : WorkerStep(k))

FairSpec == Spec /\ Fairness

(***************************************************************************)
(* Properties                                                              *)
(***************************************************************************)
PubPC    == {"idle", "found", "locked", "sending", "full", "displaced", "waiting"}
RunPC    == {"none", "recv", "dispatch", "handle", "once", "closes", "executors",
             "workers", "over"}
ClosePC  == {"open", "begun", "closing", "flagged", "waited", "shut"}
WorkerPC == {"absent", "idle", "handle", "over"}

\* Every queue stays within its buffer.
BusTypeOK ==
    /\ opts \in Options /\ close \in ClosePC /\ done \in BOOLEAN
    /\ ch \in Seq(Events) /\ Len(ch) <= Buffer
    /\ pub \in [Publishers -> [pc : PubPC, n : Nat, nonBlocking : BOOLEAN]]
    /\ runner \in [pc : RunPC, evt : Events \cup {<<>>}]
    /\ workers \in [Publishers -> [pc : WorkerPC, q : Seq(Events),
                                   evt : Events \cup {<<>>}]]
    /\ \A k \in Publishers : Len(workers[k].q) <= Buffer
    /\ exClosed \in BOOLEAN /\ started \in Seq(Events)
    /\ spawned \subseteq Events /\ launched \subseteq Events
    /\ running \subseteq Events
    /\ received \subseteq Events /\ dropped \subseteq Events
    /\ delivered \subseteq Events /\ refused \subseteq Events
    /\ abandoned \subseteq Events

\* A send on a closed channel panics: closeInput closes ch only when no
\* publisher is between its look at closed and its send, and run closes the
\* executors' channels only when it will not dispatch again.
NoSendOnClosed ==
    /\ ChClosed => \A p \in Publishers : ~HoldsRLock(p) /\ ~InBlockWG(p)
    /\ exClosed => ~AtRun("dispatch") /\ ~AtRun("recv")

\* Where an event that was counted as received can be.
InHand(e)   == Evt(e[1]) = e /\ (HoldsRLock(e[1]) \/ InBlockWG(e[1]))
InQueue(e)  == \/ Contains(ch, e)
               \/ AtRun("dispatch") /\ runner.evt = e
               \/ Fresh(e)
               \/ Contains(workers[Key(e)].q, e)
Called(e)   == Contains(started, e)

\* The counters account for every event received: it is in its publisher's
\* hand, waiting, given to a goroutine that will call its handler, with its
\* handler (or through with it), dropped or turned away, and in one of
\* these places only.  What no counter tells of is lost by a Keyed
\* subscription, and by it only, after Close has begun.
EveryEventAccounted ==
    /\ \A e \in received :
           Cardinality({ i \in 1..7 :
               <<InHand(e), InQueue(e), e \in launched, Called(e), e \in dropped,
                 e \in refused, e \in abandoned>>[i] }) = 1
    /\ abandoned # {} => opts.mode = "keyed" /\ Closing

\* handle has begun with the event.
Begun(e) == e \in launched \/ Called(e)

\* A Locked subscription, a Keyed one within a scope and the reader of a
\* channel take a publisher's events in the order of publication: nothing
\* older still waits when an event is begun with.  Without a timeout the
\* handler is called in that order too, and for one event at a time.  (With
\* one, a handler may outlive its handle or start after it.)
InOrder ==
    opts.mode # "concurrent" =>
        /\ \A e, f \in received :
               e[1] = f[1] /\ e[2] < f[2] /\ Begun(f) => ~InQueue(e)
        /\ ~opts.timeout =>
               /\ \A i, j \in DOMAIN started :
                      i < j /\ started[i][1] = started[j][1]
                          => started[i][2] < started[j][2]
               /\ \A e, f \in running :
                      e # f => opts.mode = "keyed" /\ Key(e) # Key(f)

\* SubscribeOnce calls its handler once, however many events got into the
\* channel before Close took effect.
OnceCallsOnce == opts.once => Len(started) <= 1

\* Done means that the subscription has stopped processing: nothing waits
\* (but what a SubscribeOnce left behind), handle begins with no event, no
\* handler runs or is called again.  Under a timeout, those of events begun
\* with before Done may still run, and may even be called for the first time.
DoneIsTheEnd ==
    [][ done /\ opts.mode # "chan" =>
            /\ \A e \in received' : Begun(e)' => Begun(e)
            /\ ~opts.timeout => running = {} /\ started' = started
            /\ ~opts.once => \A e \in received : ~InQueue(e) ]_vars

\* Close ends: the subscription gets to Done and no publisher stays blocked.
CloseEnds == (close # "open") ~> (done /\ \A p \in Publishers : ~InBlockWG(p))

\* What a handler subscription has taken in is handled, unless it gives way
\* to a newer event or, if Keyed, to Close: when publications pause there is
\* nothing left to handle.
TakenInIsHandled ==
    []<>( \/ opts.mode = "chan" \/ opts.once
          \/ \A e \in delivered : Called(e) \/ e \in dropped \/ e \in abandoned )
===============================================================================
