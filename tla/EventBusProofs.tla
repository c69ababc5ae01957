----------------------------- MODULE EventBusProofs -----------------------------
(***************************************************************************)
(* For any number of publishers and publications, any buffer and any set   *)
(* of subscription options: the bus's state stays well typed and its       *)
(* queues within their buffers, and nobody sends on a closed channel.      *)
(***************************************************************************)
EXTENDS EventBus, TLAPS

USE BusAssumptions

(***************************************************************************)
(* Types.  The run goroutine has an event in hand when it uses one.        *)
(***************************************************************************)
TypeInv ==
    /\ BusTypeOK
    /\ runner.pc \in {"dispatch", "handle"} => runner.evt \in Events

LEMMA EventFacts ==
    /\ \A e \in Events : Key(e) \in Publishers
    /\ \A p \in Publishers : BusTypeOK => Evt(p) \in Events
BY DEF Events, Key, Evt, BusTypeOK

\* What taking from a bounded queue, and adding to one with room, leaves.
LEMMA QueueFacts ==
    ASSUME NEW q \in Seq(Events), Len(q) <= Buffer
    PROVE  /\ q # <<>> => /\ Head(q) \in Events /\ Tail(q) \in Seq(Events)
                          /\ Len(Tail(q)) <= Buffer
           /\ \A e \in Events : HasRoom(q) =>
                 Append(q, e) \in Seq(Events) /\ Len(Append(q, e)) <= Buffer
BY DEF HasRoom

LEMMA BeginTypes ==
    ASSUME TypeInv, NEW e \in Events, Begin(e)
    PROVE  launched' \subseteq Events /\ running' \subseteq Events /\ started' \in Seq(Events)
<1>1. CASE Invoke(e) /\ UNCHANGED launched
    BY <1>1 DEF TypeInv, BusTypeOK, Invoke
<1>2. CASE launched' = launched \cup {e} /\ UNCHANGED <<running, started>>
    BY <1>2 DEF TypeInv, BusTypeOK
<1>. QED
    BY <1>1, <1>2 DEF Begin

WorkerType == [pc : WorkerPC, q : Seq(Events), evt : Events \cup {<<>>}]

\* A step that writes one executor leaves all of them within their types.
LEMMA WorkersTyped ==
    ASSUME TypeInv, NEW k \in Publishers, NEW w \in WorkerType, Len(w.q) <= Buffer,
           workers' = [workers EXCEPT ![k] = w]
    PROVE  /\ workers' \in [Publishers -> WorkerType]
           /\ \A j \in Publishers : Len(workers'[j].q) <= Buffer
BY DEF TypeInv, BusTypeOK, WorkerType

LEMMA InitTypeInv == Init => TypeInv
<1>. SUFFICES ASSUME Init PROVE TypeInv
    OBVIOUS
<1>. USE DEF Init
<1>1. <<>> \in Seq(Events) /\ Len(<<>>) <= Buffer
    OBVIOUS
<1>2. pub \in [Publishers -> [pc : PubPC, n : Nat, nonBlocking : BOOLEAN]]
    BY DEF PubPC
<1>3. runner \in [pc : RunPC, evt : Events \cup {<<>>}]
      /\ runner.pc \notin {"dispatch", "handle"}
    BY DEF RunPC
<1>4. workers \in [Publishers -> [pc : WorkerPC, q : Seq(Events), evt : Events \cup {<<>>}]]
    BY <1>1, Zenon DEF WorkerPC
<1>. QED
    BY <1>1, <1>2, <1>3, <1>4 DEF TypeInv, BusTypeOK, ClosePC

\* A publisher's step gives it a program counter; an event may go into or
\* out of the channel and into a counter.
LEMMA PublisherTypes ==
    ASSUME TypeInv, NEW p \in Publishers, PublisherStep(p)
    PROVE  TypeInv'
<1>. DEFINE PubSet == [Publishers -> [pc : PubPC, n : Nat, nonBlocking : BOOLEAN]]
<1>1. BusTypeOK /\ Evt(p) \in Events /\ pub \in PubSet /\ pub' \in PubSet
    <2>1. pub \in PubSet /\ pub[p].n + 1 \in Nat
        BY DEF TypeInv, BusTypeOK
    <2>2. ASSUME NEW nonBlocking \in {FALSE, opts.policy = "block"}, Publish(p, nonBlocking)
          PROVE  pub' \in PubSet
        <3>1. pub' = [pub EXCEPT ![p] = [pc |-> "found", n |-> pub[p].n + 1,
                                        nonBlocking |-> nonBlocking]]
            BY <2>2 DEF Publish
        <3>2. [pc |-> "found", n |-> pub[p].n + 1, nonBlocking |-> nonBlocking]
                  \in [pc : PubPC, n : Nat, nonBlocking : BOOLEAN]
            BY <2>1, Zenon DEF PubPC
        <3>. QED
            BY <2>1, <3>1, <3>2, Zenon
    <2>3. ASSUME NEW to \in PubPC, Goto(p, to) PROVE pub' \in PubSet
        BY <2>1, <2>3 DEF Goto
    <2>4. pub' \in PubSet
        BY <2>2, <2>3 DEF PublisherStep, EnqueueStep, PublishCancelled, Enqueue, CheckClosing,
            Send, Displace, SendDisplaced, EnqueueBlock, Deliver, Drop, Refuse, PubPC
    <2>. QED
        BY <2>1, <2>4, EventFacts DEF TypeInv
<1>2. UNCHANGED <<opts, close, done, runner, spawned, workers, exClosed, launched, running,
                  started, abandoned>>
    BY DEF PublisherStep, EnqueueStep, PublishCancelled, Enqueue, CheckClosing, Send, Displace,
           SendDisplaced, EnqueueBlock, Publish, closeVars, runVars, handlerVars, counters
<1>3. \/ ch' = ch
      \/ HasRoom(ch) /\ ch' = Append(ch, Evt(p))
      \/ ch # <<>> /\ ch' = Tail(ch)
    BY DEF PublisherStep, EnqueueStep, PublishCancelled, Enqueue, CheckClosing, Send, Displace,
           SendDisplaced, EnqueueBlock, Publish, Deliver, Drop, Refuse
<1>4. ch \in Seq(Events) /\ Len(ch) <= Buffer
    BY <1>1 DEF BusTypeOK
<1>5. /\ ch # <<>> => /\ Head(ch) \in Events /\ Tail(ch) \in Seq(Events)
                      /\ Len(Tail(ch)) <= Buffer
      /\ \A e \in Events : HasRoom(ch) =>
             Append(ch, e) \in Seq(Events) /\ Len(Append(ch, e)) <= Buffer
    BY <1>4, QueueFacts
<1>7. ch' \in Seq(Events) /\ Len(ch') <= Buffer
    BY <1>1, <1>3, <1>4, <1>5, Zenon
<1>6. /\ received' \subseteq Events /\ dropped' \subseteq Events
      /\ delivered' \subseteq Events /\ refused' \subseteq Events
    BY <1>1, <1>5 DEF BusTypeOK, PublisherStep, EnqueueStep, PublishCancelled, Enqueue,
        CheckClosing, Send, Displace, SendDisplaced, EnqueueBlock, Publish, Deliver, Drop,
        Refuse, counters
<1>. QED
    BY <1>1, <1>2, <1>6, <1>7 DEF TypeInv, BusTypeOK

LEMMA CloseTypes ==
    ASSUME TypeInv, Unsubscribe \/ CloseStep
    PROVE  TypeInv'
BY DEF TypeInv, BusTypeOK, ClosePC, runVars, handlerVars, counters, CloseGoes,
       Unsubscribe, CloseStep, CloseClosing, FlagClosed, WaitBlocked, CloseCh

LEMMA RunnerTypes ==
    ASSUME TypeInv, RunnerStep
    PROVE  TypeInv'
<1>. USE DEF TypeInv, BusTypeOK, RunPC, closeVars, handlerVars, counters, AtRun, AfterEvent
<1>1. CASE Receive
    <2>1. Head(ch) \in Events /\ Tail(ch) \in Seq(Events) /\ Len(Tail(ch)) <= Buffer
        BY <1>1, QueueFacts DEF Receive
    <2>. QED
        BY <1>1, <2>1 DEF Receive
<1>2. CASE ReceiveNoMore
    BY <1>2 DEF ReceiveNoMore
<1>3. CASE DispatchLocked
    <2>1. launched' \subseteq Events /\ running' \subseteq Events /\ started' \in Seq(Events)
        BY <1>3, BeginTypes DEF DispatchLocked
    <2>. QED
        BY <1>3, <2>1 DEF DispatchLocked
<1>4. CASE RunnerReturns
    BY <1>4 DEF RunnerReturns, HandleReturns
<1>5. CASE DispatchConcurrent
    BY <1>5 DEF DispatchConcurrent
<1>6. CASE DispatchKeyed
    <2>. DEFINE k == Key(runner.evt)
                ex == [workers[k] EXCEPT !.pc = IF @ = "absent" THEN "idle" ELSE @]
    <2>1. runner.evt \in Events /\ k \in Publishers
        BY <1>6, EventFacts DEF DispatchKeyed
    <2>2. ex \in WorkerType /\ Len(ex.q) <= Buffer
        BY <2>1 DEF WorkerPC, WorkerType
    <2>. HIDE DEF k, ex
    <2>3. CASE HasRoom(ex.q) /\ UNCHANGED abandoned
               /\ workers' = [workers EXCEPT ![k] = [ex EXCEPT !.q = Append(@, runner.evt)]]
        <3>1. Append(ex.q, runner.evt) \in Seq(Events)
              /\ Len(Append(ex.q, runner.evt)) <= Buffer
            BY <2>1, <2>2, <2>3 DEF HasRoom, WorkerType
        <3>2. [ex EXCEPT !.q = Append(@, runner.evt)] \in WorkerType
              /\ Len([ex EXCEPT !.q = Append(@, runner.evt)].q) <= Buffer
            BY <2>2, <3>1 DEF WorkerType
        <3>3. /\ workers' \in [Publishers -> WorkerType]
              /\ \A j \in Publishers : Len(workers'[j].q) <= Buffer
            BY <2>1, <2>3, <3>2, WorkersTyped
        <3>. QED
            BY <1>6, <2>3, <3>3 DEF DispatchKeyed, WorkerType
    <2>4. CASE workers' = [workers EXCEPT ![k] = ex]
               /\ abandoned' = abandoned \cup {runner.evt}
        <3>1. /\ workers' \in [Publishers -> WorkerType]
              /\ \A j \in Publishers : Len(workers'[j].q) <= Buffer
            BY <2>1, <2>2, <2>4, WorkersTyped
        <3>. QED
            BY <1>6, <2>1, <2>4, <3>1 DEF DispatchKeyed, WorkerType
    <2>. QED
        BY <1>6, <2>3, <2>4 DEF DispatchKeyed, k, ex
<1>7. CASE OnceCloses
    BY <1>7 DEF OnceCloses, ClosePC
<1>8. CASE OnceClosed
    BY <1>8 DEF OnceClosed
<1>9. CASE CloseKeyedChannels
    BY <1>9 DEF CloseKeyedChannels
<1>10. CASE CloseDone
    BY <1>10 DEF CloseDone
<1>. QED
    BY <1>1, <1>2, <1>3, <1>4, <1>5, <1>6, <1>7, <1>8, <1>9, <1>10 DEF RunnerStep

\* Readers, goroutines, workers and handlers that start or return late.
HandlerSide ==
    \/ ConsumerTakes
    \/ \E e \in spawned : SpawnedStep(e)
    \/ \E e \in launched : LaunchedInvokes(e)
    \/ \E e \in running : LateReturn(e)
    \/ \E k \in Publishers : WorkerStep(k)

LEMMA HandlerTypes ==
    ASSUME TypeInv, HandlerSide
    PROVE  TypeInv'
<1>. USE DEF TypeInv, BusTypeOK, WorkerPC, closeVars, runVars, counters, Invoke, HandleReturns
<1>1. CASE ConsumerTakes
    <2>1. Head(ch) \in Events /\ Tail(ch) \in Seq(Events) /\ Len(Tail(ch)) <= Buffer
        BY <1>1, QueueFacts DEF ConsumerTakes
    <2>. QED
        BY <1>1, <2>1 DEF ConsumerTakes
<1>2. ASSUME NEW e \in spawned, SpawnedStep(e) PROVE TypeInv'
    <2>1. CASE SpawnedInvokes(e)
        <3>1. launched' \subseteq Events /\ running' \subseteq Events /\ started' \in Seq(Events)
            BY <2>1, BeginTypes DEF SpawnedInvokes
        <3>. QED
            BY <2>1, <3>1 DEF SpawnedInvokes
    <2>2. CASE SpawnedReturns(e)
        BY <2>2 DEF SpawnedReturns
    <2>. QED
        BY <1>2, <2>1, <2>2 DEF SpawnedStep
<1>3. ASSUME NEW e \in running, LateReturn(e) PROVE TypeInv'
    BY <1>3 DEF LateReturn
<1>5. ASSUME NEW e \in launched, LaunchedInvokes(e) PROVE TypeInv'
    BY <1>5 DEF LaunchedInvokes
<1>4. ASSUME NEW k \in Publishers, WorkerStep(k) PROVE TypeInv'
    <2>. DEFINE w == workers'[k]
    <2>1. /\ UNCHANGED <<opts, close, done, ch, pub, runner, spawned, exClosed>>
          /\ UNCHANGED <<received, dropped, delivered, refused, abandoned>>
        BY <1>4 DEF WorkerStep, WorkerInvokes, WorkerReturns, WorkerEnds
    <2>2. launched' \subseteq Events /\ running' \subseteq Events /\ started' \in Seq(Events)
        <3>1. CASE WorkerInvokes(k)
            <4>1. Head(workers[k].q) \in Events
                BY <3>1 DEF WorkerInvokes
            <4>. QED
                BY <3>1, <4>1, BeginTypes DEF WorkerInvokes
        <3>2. CASE WorkerReturns(k) \/ WorkerEnds(k)
            BY <3>2 DEF WorkerReturns, WorkerEnds, handlerVars
        <3>. QED
            BY <1>4, <3>1, <3>2 DEF WorkerStep
    <2>3. workers' = [workers EXCEPT ![k] = w]
        BY <1>4 DEF WorkerStep, WorkerInvokes, WorkerReturns, WorkerEnds
    <2>4. w \in WorkerType /\ Len(w.q) <= Buffer
        <3>1. workers[k] \in WorkerType /\ Len(workers[k].q) <= Buffer
            BY DEF WorkerType
        <3>2. CASE WorkerInvokes(k)
            <4>1. Head(workers[k].q) \in Events /\ Tail(workers[k].q) \in Seq(Events)
                  /\ Len(Tail(workers[k].q)) <= Buffer
                BY <3>1, <3>2, QueueFacts DEF WorkerInvokes, WorkerType
            <4>2. w = [pc |-> "handle", q |-> Tail(workers[k].q), evt |-> Head(workers[k].q)]
                BY <3>1, <3>2 DEF WorkerInvokes, WorkerType
            <4>. QED
                BY <4>1, <4>2 DEF WorkerType
        <3>3. CASE WorkerReturns(k)
            <4>1. w = [pc |-> "idle", q |-> workers[k].q, evt |-> <<>>]
                BY <3>1, <3>3 DEF WorkerReturns, WorkerType
            <4>. QED
                BY <3>1, <4>1 DEF WorkerType
        <3>4. CASE WorkerEnds(k)
            <4>1. w = [pc |-> "over", q |-> workers[k].q, evt |-> workers[k].evt]
                BY <3>1, <3>4 DEF WorkerEnds, WorkerType
            <4>. QED
                BY <3>1, <4>1 DEF WorkerType
        <3>. QED
            BY <1>4, <3>2, <3>3, <3>4 DEF WorkerStep
    <2>. HIDE DEF w
    <2>5. /\ workers' \in [Publishers -> WorkerType]
          /\ \A j \in Publishers : Len(workers'[j].q) <= Buffer
        BY <2>3, <2>4, WorkersTyped
    <2>. QED
        BY <2>1, <2>2, <2>5 DEF WorkerType
<1>. QED
    BY <1>1, <1>2, <1>3, <1>4, <1>5 DEF HandlerSide

LEMMA NextTypeInv == TypeInv /\ [Next]_vars => TypeInv'
<1>. SUFFICES ASSUME TypeInv, [Next]_vars PROVE TypeInv'
    OBVIOUS
<1>1. CASE UNCHANGED vars
    BY <1>1 DEF vars, TypeInv, BusTypeOK
<1>. QED
    BY <1>1, PublisherTypes, CloseTypes, RunnerTypes, HandlerTypes DEF Next, HandlerSide

\* The channel and the executors' queues never hold more than their buffer,
\* and every variable keeps its type.
THEOREM BusTypeCorrect == Spec => []BusTypeOK
<1>1. TypeInv => BusTypeOK
    BY DEF TypeInv
<1>. QED
    BY <1>1, InitTypeInv, NextTypeInv, PTL DEF Spec

(***************************************************************************)
(* No send on a closed channel.  A publisher that holds the lock saw the   *)
(* subscription open and keeps closeInput from flagging it; a publisher in *)
(* blockWG keeps closeInput from closing the channel.  NoSendOnClosed says *)
(* this of the last state of closeInput only; CloseInv says it of the      *)
(* states on the way there.                                                *)
(***************************************************************************)
CloseInv ==
    /\ Closed => Unlocked
    /\ close \in {"waited", "shut"} => \A p \in Publishers : ~InBlockWG(p)
    /\ exClosed => runner.pc \in {"workers", "over"}

IInv == TypeInv /\ CloseInv

\* A publisher that moves leaves CloseInv true unless it gets the lock, or
\* into blockWG, of a subscription that is closed.
LEMMA PublisherMove ==
    ASSUME IInv, NEW p \in Publishers, NEW to \in PubPC, Goto(p, to),
           UNCHANGED <<close, runner, exClosed>>,
           Closed => to \notin {"locked", "sending", "full", "displaced", "waiting"}
    PROVE  CloseInv'
BY DEF IInv, TypeInv, BusTypeOK, CloseInv, Closed, Unlocked, HoldsRLock, InBlockWG, Goto

LEMMA PublisherKeeps ==
    ASSUME IInv, NEW p \in Publishers, PublisherStep(p)
    PROVE  CloseInv'
<1>1. UNCHANGED <<close, runner, exClosed>>
    BY DEF PublisherStep, EnqueueStep, PublishCancelled, Enqueue, CheckClosing, Send, Displace,
           SendDisplaced, EnqueueBlock, Publish, closeVars, runVars
<1>2. HoldsRLock(p) => ~Closed
    BY DEF IInv, CloseInv, Unlocked
<1>3. ASSUME NEW nonBlocking \in {FALSE, opts.policy = "block"}, Publish(p, nonBlocking)
      PROVE  CloseInv'
    <2>1. pub \in [Publishers -> [pc : PubPC, n : Nat, nonBlocking : BOOLEAN]]
        BY DEF IInv, TypeInv, BusTypeOK
    <2>2. /\ pub'[p].pc = "found"
          /\ \A r \in Publishers \ {p} : pub'[r] = pub[r]
        BY <1>3, <2>1, Zenon DEF Publish
    <2>. QED
        BY <1>1, <2>2 DEF IInv, CloseInv, Closed, Unlocked, HoldsRLock, InBlockWG
<1>4. CASE Enqueue(p)
    BY <1>1, <1>4, PublisherMove DEF Enqueue, PubPC
<1>5. CASE CheckClosing(p)
    BY <1>1, <1>2, <1>5, PublisherMove DEF CheckClosing, Refuse, HoldsRLock, PubPC
<1>6. CASE Send(p)
    BY <1>1, <1>2, <1>6, PublisherMove DEF Send, Deliver, Drop, HoldsRLock, PubPC
<1>7. CASE Displace(p)
    BY <1>1, <1>2, <1>7, PublisherMove DEF Displace, HoldsRLock, PubPC
<1>8. CASE SendDisplaced(p)
    BY <1>1, <1>8, PublisherMove DEF SendDisplaced, Refuse, Deliver, Drop, PubPC
<1>9. CASE EnqueueBlock(p) \/ PublishCancelled(p)
    BY <1>1, <1>9, PublisherMove DEF EnqueueBlock, PublishCancelled, Refuse, Deliver, Drop, PubPC
<1>. QED
    BY <1>3, <1>4, <1>5, <1>6, <1>7, <1>8, <1>9 DEF PublisherStep, EnqueueStep

\* closeInput takes the write lock before it flags the subscription, and
\* waits for blockWG before it closes the channel.
LEMMA CloseKeeps ==
    ASSUME IInv, Unsubscribe \/ CloseStep
    PROVE  CloseInv'
<1>. USE DEF IInv, CloseInv, Closed, Unlocked, HoldsRLock, InBlockWG, CloseGoes, runVars
<1>1. CASE Unsubscribe \/ CloseClosing
    BY <1>1 DEF Unsubscribe, CloseClosing
<1>2. CASE FlagClosed
    BY <1>2 DEF FlagClosed
<1>3. CASE WaitBlocked
    BY <1>3 DEF WaitBlocked
<1>4. CASE CloseCh
    BY <1>4 DEF CloseCh
<1>. QED
    BY <1>1, <1>2, <1>3, <1>4 DEF CloseStep

\* The run goroutine closes the executors' channels when it has left its loop.
LEMMA RunnerKeeps ==
    ASSUME IInv, RunnerStep
    PROVE  CloseInv'
<1>1. pub' = pub /\ (close' = close \/ (close = "open" /\ close' = "begun"))
    BY DEF RunnerStep, Receive, ReceiveNoMore, DispatchLocked, RunnerReturns,
           DispatchConcurrent, DispatchKeyed, OnceCloses, OnceClosed,
           CloseKeyedChannels, CloseDone, closeVars
<1>2. exClosed' => runner'.pc \in {"workers", "over"}
    <2>. USE DEF IInv, TypeInv, BusTypeOK, CloseInv, AtRun, AfterEvent
    <2>1. CASE Receive \/ ReceiveNoMore \/ DispatchLocked \/ RunnerReturns
        BY <2>1 DEF Receive, ReceiveNoMore, DispatchLocked, RunnerReturns
    <2>2. CASE DispatchConcurrent \/ DispatchKeyed
        BY <2>2 DEF DispatchConcurrent, DispatchKeyed
    <2>3. CASE OnceCloses \/ OnceClosed
        BY <2>3 DEF OnceCloses, OnceClosed
    <2>4. CASE CloseKeyedChannels \/ CloseDone
        BY <2>4 DEF CloseKeyedChannels, CloseDone
    <2>. QED
        BY <2>1, <2>2, <2>3, <2>4 DEF RunnerStep
<1>. QED
    BY <1>1, <1>2 DEF IInv, CloseInv, Closed, Unlocked, HoldsRLock, InBlockWG

LEMMA HandlerKeeps ==
    ASSUME IInv, HandlerSide
    PROVE  CloseInv'
<1>1. UNCHANGED <<close, pub, runner, exClosed>>
    BY DEF HandlerSide, ConsumerTakes, SpawnedStep, SpawnedInvokes, SpawnedReturns,
           LaunchedInvokes, LateReturn, WorkerStep, WorkerInvokes, WorkerReturns, WorkerEnds, closeVars, runVars
<1>. QED
    BY <1>1 DEF IInv, CloseInv, Closed, Unlocked, HoldsRLock, InBlockWG

LEMMA NextIInv == IInv /\ [Next]_vars => IInv'
<1>. SUFFICES ASSUME IInv, [Next]_vars PROVE IInv'
    OBVIOUS
<1>1. TypeInv'
    BY NextTypeInv DEF IInv
<1>2. CASE UNCHANGED vars
    BY <1>1, <1>2 DEF vars, IInv, CloseInv, Closed, Unlocked, HoldsRLock, InBlockWG
<1>3. CASE Next
    BY <1>1, <1>3, PublisherKeeps, CloseKeeps, RunnerKeeps, HandlerKeeps
        DEF Next, HandlerSide, IInv
<1>. QED
    BY <1>2, <1>3

\* No publisher is about to send into a closed channel, whatever the order of
\* Publish, PublishNonBlocking and Close, and the run goroutine dispatches to
\* no executor it has closed.
THEOREM NobodySendsOnClosed == Spec => []NoSendOnClosed
<1>1. Init => IInv
    BY InitTypeInv DEF Init, IInv, CloseInv, Closed, Unlocked
<1>2. IInv => NoSendOnClosed
    BY DEF IInv, CloseInv, NoSendOnClosed, ChClosed, Closed, Unlocked, AtRun
<1>. QED
    BY <1>1, <1>2, NextIInv, PTL DEF Spec
===============================================================================
