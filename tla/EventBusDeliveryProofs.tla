------------------------- MODULE EventBusDeliveryProofs -------------------------
(***************************************************************************)
(* The way of an event through a subscription, for any number of           *)
(* publishers and publications, any buffer and any set of options: every   *)
(* event received is in one place, events of a publisher stay in order,    *)
(* a SubscribeOnce calls its handler once, and Done is the end.            *)
(***************************************************************************)
EXTENDS EventBusProofs, FiniteSetTheorems, SequenceTheorems

(***************************************************************************)
(* The path of an event.  It is in one place at a time: in its publisher's *)
(* hand, in the channel, with the run goroutine, in a goroutine that has   *)
(* not entered handle yet, in an executor's channel, begun with, dropped,  *)
(* turned away or abandoned.                                               *)
(***************************************************************************)
InCh(e)     == Contains(ch, e)
InRun(e)    == AtRun("dispatch") /\ runner.evt = e
AtWorker(e) == Contains(workers[Key(e)].q, e)

OnePlace(e) ==
    /\ e \in received <=>
           \/ InHand(e) \/ InCh(e) \/ InRun(e) \/ Fresh(e) \/ AtWorker(e)
           \/ Begun(e) \/ e \in dropped \/ e \in refused \/ e \in abandoned
    /\ InHand(e) => ~( \/ InCh(e) \/ InRun(e) \/ Fresh(e) \/ AtWorker(e) \/ Begun(e)
                       \/ e \in dropped \/ e \in refused \/ e \in abandoned )
    /\ InCh(e) => ~( \/ InRun(e) \/ Fresh(e) \/ AtWorker(e) \/ Begun(e)
                     \/ e \in dropped \/ e \in refused \/ e \in abandoned )
    /\ InRun(e) => ~( \/ Fresh(e) \/ AtWorker(e) \/ Begun(e)
                      \/ e \in dropped \/ e \in refused \/ e \in abandoned )
    /\ Fresh(e) \/ AtWorker(e) \/ Begun(e) =>
           ~(e \in dropped \/ e \in refused \/ e \in abandoned)
    /\ ~(Fresh(e) /\ AtWorker(e)) /\ ~(AtWorker(e) /\ Begun(e))
    /\ e \in dropped => e \notin refused /\ e \notin abandoned
    /\ ~(e \in refused /\ e \in abandoned)

PlaceInv == \A e \in Events : OnePlace(e)

\* A publisher numbers its events upwards and has only its last one in hand.
NumberInv ==
    \A e \in received :
        e[2] <= pub[e[1]].n /\ (pub[e[1]].pc = "found" => e[2] # pub[e[1]].n)

\* The events of a publisher are in order in every queue ...
Ascending(s) ==
    \A i, j \in 1..Len(s) : i < j /\ s[i][1] = s[j][1] => s[i][2] < s[j][2]

\* ... and what is further on the way to the handler is older.
OrderInv ==
    /\ Ascending(ch)
    /\ \A k \in Publishers : Ascending(workers[k].q)
    /\ opts.mode # "concurrent" =>
        /\ ~opts.timeout => Ascending(started)
        /\ \A x, y \in Events : x[1] = y[1] =>
            /\ Begun(x) /\ (AtWorker(y) \/ InRun(y) \/ InCh(y)) => x[2] < y[2]
            /\ AtWorker(x) /\ (InRun(y) \/ InCh(y)) => x[2] < y[2]
            /\ InRun(x) /\ InCh(y) => x[2] < y[2]

\* Only a timeout gives a handler a goroutine of its own, which calls it once.
LaunchInv ==
    /\ launched # {} => opts.timeout /\ opts.mode # "chan"
    /\ \A e \in launched : ~Called(e)

\* Which parts of the machinery a mode uses.
ModeInv ==
    /\ runner.pc = "none" <=> opts.mode = "chan"
    /\ runner.pc = "handle" => opts.mode = "locked"
    /\ runner.pc \in {"once", "closes"} => opts.once
    /\ spawned # {} => opts.mode = "concurrent"
    /\ \A k \in Publishers : workers[k].pc # "absent" => opts.mode = "keyed"
    /\ abandoned # {} => opts.mode = "keyed" /\ Closing

\* An executor has the events of its key, and none before and after its life.
WorkerInv ==
    \A k \in Publishers :
        /\ workers[k].pc \in {"absent", "over"} => workers[k].q = <<>>
        /\ workers[k].pc = "over" => exClosed
        /\ workers[k].pc = "handle" => workers[k].evt \in Events /\ Key(workers[k].evt) = k
        /\ \A i \in 1..Len(workers[k].q) : Key(workers[k].q[i]) = k

\* Without a timeout somebody waits for every handler that runs.
RunningInv == ~opts.timeout => \A e \in running : Attended(e)

\* A SubscribeOnce has at most one event past its channel.
NoneBegun == started = <<>> /\ launched = {}

OnceInv ==
    opts.once =>
        /\ runner.pc \in {"recv", "dispatch"} => NoneBegun /\ spawned = {}
        /\ runner.pc \in {"recv", "dispatch", "handle"} =>
               \A k \in Publishers : workers[k].q = <<>>
        /\ Len(started) <= 1 /\ (launched # {} => started = <<>>)
        /\ \A e, f \in launched : e = f
        /\ \A e, f \in spawned : e = f
        /\ \A k \in Publishers :
               workers[k].q # <<>> => /\ Len(workers[k].q) = 1 /\ NoneBegun
                                      /\ \A j \in Publishers \ {k} : workers[j].q = <<>>
        /\ ~NoneBegun => \A e \in spawned : Begun(e)

\* What the run goroutine leaves behind on its way out.
EndInv ==
    /\ runner.pc \in {"workers", "over"} => spawned = {}
    /\ runner.pc = "over" => \A k \in Publishers : workers[k].pc \in {"absent", "over"}
    /\ runner.pc \in {"executors", "workers", "over"} /\ ~opts.once => ch = <<>> /\ ChClosed
    /\ done /\ opts.mode # "chan" => runner.pc = "over"

(***************************************************************************)
(* Events and queues.                                                      *)
(***************************************************************************)
LEMMA EventEquality ==
    ASSUME NEW x \in Events, NEW y \in Events
    PROVE  x = y <=> x[1] = y[1] /\ x[2] = y[2]
BY DEF Events

LEMMA EventParts ==
    ASSUME NEW x \in Events
    PROVE  x[1] \in Publishers /\ x[2] \in Nat /\ Key(x) = x[1]
BY DEF Events, Key

LEMMA EmptyQueue == \A e : ~Contains(<<>>, e)
BY DEF Contains

LEMMA AscendingEmpty == Ascending(<<>>)
BY DEF Ascending

LEMMA AppendContains ==
    ASSUME NEW s \in Seq(Events), NEW e \in Events, NEW x
    PROVE  Contains(Append(s, e), x) <=> Contains(s, x) \/ x = e
BY DEF Contains

LEMMA AppendAscending ==
    ASSUME NEW s \in Seq(Events), NEW e \in Events, Ascending(s),
           \A x \in Events : Contains(s, x) /\ x[1] = e[1] => x[2] < e[2]
    PROVE  Ascending(Append(s, e))
<1>1. \A i \in 1..Len(s) : s[i] \in Events /\ Contains(s, s[i])
    BY DEF Contains
<1>2. Len(Append(s, e)) = Len(s) + 1 /\ Len(s) \in Nat
    OBVIOUS
<1>3. \A i \in 1..Len(s) : Append(s, e)[i] = s[i]
    OBVIOUS
<1>4. Append(s, e)[Len(s) + 1] = e
    OBVIOUS
<1>. SUFFICES ASSUME NEW i \in 1..(Len(s) + 1), NEW j \in 1..(Len(s) + 1), i < j,
                     Append(s, e)[i][1] = Append(s, e)[j][1]
              PROVE  Append(s, e)[i][2] < Append(s, e)[j][2]
    BY <1>2 DEF Ascending
<1>5. i \in 1..Len(s)
    BY <1>2
<1>6. CASE j \in 1..Len(s)
    BY <1>3, <1>5, <1>6 DEF Ascending
<1>7. CASE j = Len(s) + 1
    BY <1>1, <1>3, <1>4, <1>5, <1>7
<1>. QED
    BY <1>2, <1>6, <1>7

\* The head of an ascending queue is in it once and older than its publisher's
\* other events in it.
LEMMA TakeFirst ==
    ASSUME NEW s \in Seq(Events), s # <<>>, Ascending(s)
    PROVE  /\ Head(s) \in Events /\ Tail(s) \in Seq(Events)
           /\ Contains(s, Head(s)) /\ Ascending(Tail(s))
           /\ \A x \in Events : Contains(Tail(s), x) <=> Contains(s, x) /\ x # Head(s)
           /\ \A x \in Events : Contains(Tail(s), x) /\ x[1] = Head(s)[1] => Head(s)[2] < x[2]
<1>1. /\ Len(s) \in Nat \ {0} /\ Head(s) = s[1] /\ Tail(s) \in Seq(Events)
      /\ Len(Tail(s)) = Len(s) - 1
      /\ \A i \in 1..(Len(s) - 1) : Tail(s)[i] = s[i + 1]
    OBVIOUS
<1>2. \A i \in 1..Len(s) : s[i] \in Events
    OBVIOUS
<1>3. Head(s) \in Events /\ Contains(s, Head(s))
    BY <1>1, <1>2 DEF Contains
<1>4. Ascending(Tail(s))
    <2>. SUFFICES ASSUME NEW i \in 1..(Len(s) - 1), NEW j \in 1..(Len(s) - 1), i < j,
                         Tail(s)[i][1] = Tail(s)[j][1]
                  PROVE  Tail(s)[i][2] < Tail(s)[j][2]
        BY <1>1 DEF Ascending
    <2>1. i + 1 \in 1..Len(s) /\ j + 1 \in 1..Len(s) /\ i + 1 < j + 1
        BY <1>1
    <2>. QED
        BY <1>1, <2>1 DEF Ascending
<1>5. \A i \in 2..Len(s) : s[i][1] = s[1][1] => s[1][2] < s[i][2]
    BY <1>1 DEF Ascending
<1>6. \A x : Contains(Tail(s), x) <=> \E i \in 2..Len(s) : s[i] = x
    <2>. SUFFICES ASSUME NEW x PROVE Contains(Tail(s), x) <=> \E i \in 2..Len(s) : s[i] = x
        OBVIOUS
    <2>1. ASSUME NEW i \in 2..Len(s), s[i] = x PROVE Contains(Tail(s), x)
        <3>1. i - 1 \in 1..Len(Tail(s)) /\ Tail(s)[i - 1] = x
            BY <1>1, <2>1
        <3>. QED
            BY <3>1 DEF Contains
    <2>2. ASSUME NEW i \in 1..Len(Tail(s)), Tail(s)[i] = x PROVE \E k \in 2..Len(s) : s[k] = x
        <3>1. i + 1 \in 2..Len(s) /\ s[i + 1] = x
            BY <1>1, <2>2
        <3>. QED
            BY <3>1
    <2>. QED
        BY <2>1, <2>2 DEF Contains
<1>7. \A x \in Events : Contains(Tail(s), x) /\ x[1] = Head(s)[1] => Head(s)[2] < x[2]
    BY <1>1, <1>5, <1>6
<1>8. \A x \in Events : Contains(Tail(s), x) => x # Head(s)
    BY <1>3, <1>7, EventParts
<1>9. \A x \in Events : Contains(s, x) <=> x = Head(s) \/ Contains(Tail(s), x)
    <2>1. \A i : i \in 1..Len(s) <=> i = 1 \/ i \in 2..Len(s)
        BY <1>1
    <2>. QED
        BY <1>1, <1>6, <2>1 DEF Contains
<1>. QED
    BY <1>1, <1>3, <1>4, <1>7, <1>8, <1>9

(***************************************************************************)
(* Publishers.                                                             *)
(***************************************************************************)
PathInv == PlaceInv /\ NumberInv /\ OrderInv

HandPC == {"locked", "sending", "full", "displaced", "waiting"}

\* A publisher in the middle of an enqueue has its last event in hand.
LEMMA HandFacts ==
    ASSUME TypeInv, NEW p \in Publishers
    PROVE  /\ Evt(p) \in Events /\ Evt(p)[1] = p /\ Evt(p)[2] = pub[p].n
           /\ InHand(Evt(p)) <=> pub[p].pc \in HandPC
BY EventFacts DEF TypeInv, InHand, Evt, HoldsRLock, InBlockWG, HandPC

\* Moving a publisher touches the place of the event in its hand only.
LEMMA GotoMoves ==
    ASSUME TypeInv, NEW p \in Publishers, NEW to \in PubPC \ {"found"}, Goto(p, to)
    PROVE  /\ \A x \in Events : x # Evt(p) => (InHand(x)' <=> InHand(x))
           /\ \A x \in Events : x = Evt(p) => (InHand(x)' <=> to \in HandPC)
           /\ \A r \in Publishers : /\ pub'[r].n = pub[r].n
                                    /\ pub'[r].pc = "found" => pub[r].pc = "found"
           /\ pub'[p].pc # "found"
<1>1. pub \in [Publishers -> [pc : PubPC, n : Nat, nonBlocking : BOOLEAN]]
    BY DEF TypeInv, BusTypeOK
<1>2. \A r \in Publishers : /\ pub'[r].n = pub[r].n
                            /\ pub'[r].pc = IF r = p THEN to ELSE pub[r].pc
    BY <1>1 DEF Goto
<1>3. ASSUME NEW x \in Events, x # Evt(p) PROVE InHand(x)' <=> InHand(x)
    <2>1. CASE x[1] # p
        BY <1>2, <2>1, EventParts DEF InHand, Evt, HoldsRLock, InBlockWG
    <2>2. CASE x[1] = p
        BY <1>2, <1>3, <2>2 DEF InHand, Evt
    <2>. QED
        BY <2>1, <2>2
<1>4. ASSUME NEW x \in Events, x = Evt(p) PROVE InHand(x)' <=> to \in HandPC
    <2>1. x[1] = p /\ x[2] = pub[p].n
        BY <1>4 DEF Evt
    <2>2. pub'[p].n = pub[p].n /\ pub'[p].pc = to
        BY <1>2
    <2>. QED
        BY <1>4, <2>1, <2>2 DEF InHand, Evt, HoldsRLock, InBlockWG, HandPC
<1>. QED
    BY <1>2, <1>3, <1>4

\* The event in a publisher's hand is newer than its events on the way.
LEMMA NewestInHand ==
    ASSUME TypeInv, PathInv, NEW p \in Publishers, pub[p].pc \in HandPC,
           NEW x \in Events, x[1] = p,
           InCh(x) \/ InRun(x) \/ AtWorker(x) \/ Begun(x)
    PROVE  x[2] < Evt(p)[2]
<1>1. InHand(Evt(p)) /\ OnePlace(Evt(p)) /\ OnePlace(x)
    BY HandFacts DEF PathInv, PlaceInv
<1>2. x # Evt(p) /\ x \in received
    BY <1>1 DEF OnePlace
<1>3. x[2] <= pub[p].n
    BY <1>2 DEF PathInv, NumberInv
<1>. QED
    BY <1>2, <1>3, HandFacts, EventEquality, EventParts

\* What a publisher's step leaves alone.
LEMMA PublisherFrame ==
    ASSUME NEW p \in Publishers, PublisherStep(p)
    PROVE  /\ UNCHANGED <<opts, close, done, runner, spawned, workers, exClosed, running,
                          launched, started, abandoned>>
           /\ \A x \in Events : /\ InRun(x)' <=> InRun(x)
                                /\ Fresh(x)' <=> Fresh(x)
                                /\ AtWorker(x)' <=> AtWorker(x)
                                /\ Begun(x)' <=> Begun(x)
<1>1. UNCHANGED <<opts, close, done, runner, spawned, workers, exClosed, running, launched, started,
                  abandoned>>
    BY DEF PublisherStep, EnqueueStep, PublishCancelled, Enqueue, CheckClosing, Send, Displace,
           SendDisplaced, EnqueueBlock, Publish, closeVars, runVars, handlerVars, counters
<1>. QED
    BY <1>1 DEF InRun, AtRun, Fresh, AtWorker, Begun, Called

\* The order on the way is kept when the channel loses events or gets one
\* that is newer than all of its publisher's.
LEMMA PublisherOrder ==
    ASSUME TypeInv, PathInv, NEW p \in Publishers, PublisherStep(p),
           \/ Ascending(ch') /\ \A x \in Events : InCh(x)' => InCh(x)
           \/ pub[p].pc \in HandPC /\ ch' = Append(ch, Evt(p))
    PROVE  OrderInv'
<1>1. UNCHANGED <<opts, workers, launched, started>>
    BY PublisherFrame
<1>2. \A x \in Events : /\ InRun(x)' <=> InRun(x)
                        /\ AtWorker(x)' <=> AtWorker(x)
                        /\ Begun(x)' <=> Begun(x)
    BY PublisherFrame
<1>3. CASE Ascending(ch') /\ \A x \in Events : InCh(x)' => InCh(x)
    BY <1>1, <1>2, <1>3 DEF PathInv, OrderInv, Ascending
<1>4. CASE pub[p].pc \in HandPC /\ ch' = Append(ch, Evt(p))
    <2>1. Evt(p) \in Events /\ Evt(p)[1] = p
        BY HandFacts
    <2>2. ch \in Seq(Events) /\ Ascending(ch)
        BY DEF TypeInv, BusTypeOK, PathInv, OrderInv
    <2>3. \A x \in Events : InCh(x)' <=> InCh(x) \/ x = Evt(p)
        BY <1>4, <2>1, <2>2, AppendContains DEF InCh
    <2>4. \A x \in Events : x[1] = p /\ (InCh(x) \/ InRun(x) \/ AtWorker(x) \/ Begun(x))
                                => x[2] < Evt(p)[2]
        BY <1>4, NewestInHand
    <2>5. Ascending(ch')
        BY <1>4, <2>1, <2>2, <2>4, AppendAscending DEF InCh
    <2>. QED
        BY <1>1, <1>2, <2>1, <2>3, <2>4, <2>5 DEF PathInv, OrderInv, Ascending
<1>. QED
    BY <1>3, <1>4

\* publish gives the publisher a new event, which is nowhere yet.
LEMMA PublishPath ==
    ASSUME TypeInv, PathInv, NEW p \in Publishers,
           NEW nonBlocking \in {FALSE, opts.policy = "block"}, Publish(p, nonBlocking)
    PROVE  PathInv'
<1>1. /\ UNCHANGED <<ch, received, dropped, refused, abandoned>> /\ PublisherStep(p)
      /\ pub[p].pc = "idle"
    BY DEF Publish, counters, PublisherStep
<1>2. pub \in [Publishers -> [pc : PubPC, n : Nat, nonBlocking : BOOLEAN]]
    BY DEF TypeInv, BusTypeOK
<1>3. /\ pub'[p].pc = "found" /\ pub'[p].n = pub[p].n + 1
      /\ \A r \in Publishers \ {p} : pub'[r] = pub[r]
    BY <1>2, Zenon DEF Publish
<1>4. \A x \in Events : InHand(x)' <=> InHand(x)
    <2>. SUFFICES ASSUME NEW x \in Events PROVE InHand(x)' <=> InHand(x)
        OBVIOUS
    <2>1. x[1] \in Publishers
        BY EventParts
    <2>2. CASE x[1] = p
        BY <1>1, <1>3, <2>2 DEF InHand, HoldsRLock, InBlockWG
    <2>3. CASE x[1] # p
        BY <1>3, <2>1, <2>3 DEF InHand, Evt, HoldsRLock, InBlockWG
    <2>. QED
        BY <2>2, <2>3
<1>5. \A x \in Events : InCh(x)' <=> InCh(x)
    BY <1>1 DEF InCh
<1>6. PlaceInv'
    BY <1>1, <1>4, <1>5, PublisherFrame DEF PathInv, PlaceInv, OnePlace
<1>7. NumberInv'
    <2>. SUFFICES ASSUME NEW x \in received
                  PROVE  /\ x[2] <= pub'[x[1]].n
                         /\ pub'[x[1]].pc = "found" => x[2] # pub'[x[1]].n
        BY <1>1 DEF NumberInv
    <2>1. x \in Events /\ x[1] \in Publishers /\ x[2] \in Nat
        BY EventParts DEF TypeInv, BusTypeOK
    <2>2. x[2] <= pub[x[1]].n /\ (pub[x[1]].pc = "found" => x[2] # pub[x[1]].n)
        BY DEF PathInv, NumberInv
    <2>3. pub[p].n \in Nat
        BY <1>2
    <2>4. CASE x[1] = p
        BY <1>3, <2>1, <2>2, <2>3, <2>4
    <2>5. CASE x[1] # p
        BY <1>3, <2>1, <2>2, <2>5
    <2>. QED
        BY <2>4, <2>5
<1>8. OrderInv'
    <2>1. Ascending(ch')
        BY <1>1 DEF PathInv, OrderInv
    <2>. QED
        BY <1>1, <1>5, <2>1, PublisherOrder
<1>. QED
    BY <1>6, <1>7, <1>8 DEF PathInv

\* A step that moves a publisher keeps the numbers in order: an event that
\* becomes received is its publisher's last.
LEMMA GotoNumbers ==
    ASSUME TypeInv, PathInv, NEW p \in Publishers, NEW to \in PubPC \ {"found"}, Goto(p, to),
           received' \subseteq received \cup {Evt(p)}
    PROVE  NumberInv'
<1>. SUFFICES ASSUME NEW x \in received'
              PROVE  /\ x[2] <= pub'[x[1]].n
                     /\ pub'[x[1]].pc = "found" => x[2] # pub'[x[1]].n
    BY DEF NumberInv
<1>1. /\ \A r \in Publishers : /\ pub'[r].n = pub[r].n
                               /\ pub'[r].pc = "found" => pub[r].pc = "found"
      /\ pub'[p].pc # "found"
    BY GotoMoves
<1>2. CASE x \in received
    <2>1. x[1] \in Publishers
        BY <1>2, EventParts DEF TypeInv, BusTypeOK
    <2>2. x[2] <= pub[x[1]].n /\ (pub[x[1]].pc = "found" => x[2] # pub[x[1]].n)
        BY <1>2 DEF PathInv, NumberInv
    <2>. QED
        BY <1>1, <2>1, <2>2
<1>3. CASE x = Evt(p)
    <2>1. x[1] = p /\ x[2] = pub[p].n /\ pub[p].n \in Nat
        BY <1>3, HandFacts DEF TypeInv, BusTypeOK
    <2>. QED
        BY <1>1, <2>1
<1>. QED
    BY <1>2, <1>3

\* enqueue takes the event in hand, unless the subscription is closed.
LEMMA EnqueuePath ==
    ASSUME TypeInv, PathInv, NEW p \in Publishers, Enqueue(p)
    PROVE  PathInv'
<1>1. /\ UNCHANGED <<ch, dropped, refused, abandoned>> /\ PublisherStep(p)
      /\ pub[p].pc = "found"
    BY DEF Enqueue, PublisherStep, EnqueueStep
<1>2. PICK to \in PubPC \ {"found"} :
          /\ Goto(p, to)
          /\ \/ to \notin HandPC /\ received' = received
             \/ to \in HandPC /\ received' = received \cup {Evt(p)}
    BY DEF Enqueue, PubPC, HandPC
<1>3. Evt(p) \in Events /\ Evt(p) \notin received /\ ~InHand(Evt(p))
    BY <1>1, HandFacts DEF PathInv, NumberInv, HandPC
<1>4. \A x \in Events : InCh(x)' <=> InCh(x)
    BY <1>1 DEF InCh
<1>5. /\ \A x \in Events : x # Evt(p) => (InHand(x)' <=> InHand(x))
      /\ \A x \in Events : x = Evt(p) => (InHand(x)' <=> to \in HandPC)
    BY <1>2, GotoMoves
<1>6. PlaceInv'
    <2>. SUFFICES ASSUME NEW x \in Events PROVE OnePlace(x)'
        BY DEF PlaceInv
    <2>1. OnePlace(x)
        BY DEF PathInv, PlaceInv
    <2>2. CASE x # Evt(p)
        BY <1>1, <1>2, <1>4, <1>5, <2>1, <2>2, PublisherFrame DEF OnePlace
    <2>3. CASE x = Evt(p)
        <3>1. x \notin received
            BY <1>3, <2>3
        <3>2. x \in received' <=> InHand(x)'
            BY <1>2, <1>5, <2>3, <3>1
        <3>. QED
            BY <1>1, <1>4, <2>1, <3>1, <3>2, PublisherFrame DEF OnePlace
    <2>. QED
        BY <2>2, <2>3
<1>7. NumberInv'
    BY <1>2, GotoNumbers
<1>8. OrderInv'
    <2>1. Ascending(ch')
        BY <1>1 DEF PathInv, OrderInv
    <2>. QED
        BY <1>1, <1>4, <2>1, PublisherOrder
<1>. QED
    BY <1>6, <1>7, <1>8 DEF PathInv

\* The enqueue ends: the event goes from the publisher's hand into the
\* channel, among the dropped ones or among those turned away.
LEMMA HandOutPath ==
    ASSUME TypeInv, PathInv, NEW p \in Publishers, PublisherStep(p), pub[p].pc \in HandPC,
           Deliver(p) \/ Drop(p) \/ Refuse(p), UNCHANGED <<received, abandoned>>
    PROVE  PathInv'
<1>1. Goto(p, "idle") /\ "idle" \in PubPC \ {"found"} /\ "idle" \notin HandPC
    BY DEF Deliver, Drop, Refuse, PubPC, HandPC
<1>2. Evt(p) \in Events /\ InHand(Evt(p))
    BY HandFacts
<1>3. \A x \in Events : InHand(x)' <=> InHand(x) /\ x # Evt(p)
    BY <1>1, GotoMoves
<1>4. ch \in Seq(Events) /\ Ascending(ch)
    BY DEF TypeInv, BusTypeOK, PathInv, OrderInv
<1>5. NumberInv'
    BY <1>1, GotoNumbers
<1>6. CASE Deliver(p)
    <2>1. \A x \in Events : InCh(x)' <=> InCh(x) \/ x = Evt(p)
        BY <1>2, <1>4, <1>6, AppendContains DEF InCh, Deliver
    <2>2. PlaceInv'
        <3>. SUFFICES ASSUME NEW x \in Events PROVE OnePlace(x)'
            BY DEF PlaceInv
        <3>1. OnePlace(x) /\ (x = Evt(p) => InHand(x))
            BY <1>2 DEF PathInv, PlaceInv
        <3>2. UNCHANGED <<received, dropped, refused, abandoned>>
            BY <1>6 DEF Deliver
        <3>. QED
            BY <1>3, <2>1, <3>1, <3>2, PublisherFrame DEF OnePlace
    <2>3. OrderInv'
        BY <1>6, PublisherOrder DEF Deliver
    <2>. QED
        BY <1>5, <2>2, <2>3 DEF PathInv
<1>7. CASE Drop(p) \/ Refuse(p)
    <2>1. ch' = ch /\ \A x \in Events : InCh(x)' <=> InCh(x)
        BY <1>7 DEF InCh, Drop, Refuse
    <2>2. PlaceInv'
        <3>. SUFFICES ASSUME NEW x \in Events PROVE OnePlace(x)'
            BY DEF PlaceInv
        <3>1. OnePlace(x) /\ (x = Evt(p) => InHand(x))
            BY <1>2 DEF PathInv, PlaceInv
        <3>2. CASE Drop(p)
            BY <1>3, <2>1, <3>1, <3>2, PublisherFrame DEF OnePlace, Drop
        <3>3. CASE Refuse(p)
            BY <1>3, <2>1, <3>1, <3>3, PublisherFrame DEF OnePlace, Refuse
        <3>. QED
            BY <1>7, <3>2, <3>3
    <2>3. OrderInv'
        <3>1. Ascending(ch')
            BY <1>4, <2>1
        <3>. QED
            BY <2>1, <3>1, PublisherOrder
    <2>. QED
        BY <1>5, <2>2, <2>3 DEF PathInv
<1>. QED
    BY <1>6, <1>7

\* The enqueue goes on: the event stays in hand; the oldest in the channel may
\* have been dropped for it.
LEMMA HandStaysPath ==
    ASSUME TypeInv, PathInv, NEW p \in Publishers, PublisherStep(p), pub[p].pc \in HandPC,
           NEW to \in HandPC, Goto(p, to), UNCHANGED <<received, refused, abandoned>>,
           \/ UNCHANGED <<ch, dropped>>
           \/ ch # <<>> /\ ch' = Tail(ch) /\ dropped' = dropped \cup {Head(ch)}
    PROVE  PathInv'
<1>1. to \in PubPC \ {"found"}
    BY DEF PubPC, HandPC
<1>2. \A x \in Events : InHand(x)' <=> InHand(x)
    <2>1. InHand(Evt(p))
        BY HandFacts
    <2>. QED
        BY <1>1, <2>1, GotoMoves
<1>3. ch \in Seq(Events) /\ Ascending(ch)
    BY DEF TypeInv, BusTypeOK, PathInv, OrderInv
<1>4. NumberInv'
    BY <1>1, GotoNumbers
<1>5. CASE UNCHANGED <<ch, dropped>>
    <2>1. Ascending(ch') /\ \A x \in Events : InCh(x)' <=> InCh(x)
        BY <1>3, <1>5 DEF InCh
    <2>2. PlaceInv'
        BY <1>2, <1>5, <2>1, PublisherFrame DEF PathInv, PlaceInv, OnePlace
    <2>3. OrderInv'
        BY <2>1, PublisherOrder
    <2>. QED
        BY <1>4, <2>2, <2>3 DEF PathInv
<1>6. CASE ch # <<>> /\ ch' = Tail(ch) /\ dropped' = dropped \cup {Head(ch)}
    <2>1. /\ Ascending(ch') /\ InCh(Head(ch))
          /\ \A x \in Events : InCh(x)' <=> InCh(x) /\ x # Head(ch)
        BY <1>3, <1>6, TakeFirst DEF InCh
    <2>2. PlaceInv'
        <3>. SUFFICES ASSUME NEW x \in Events PROVE OnePlace(x)'
            BY DEF PlaceInv
        <3>1. OnePlace(x) /\ (x = Head(ch) => InCh(x))
            BY <2>1 DEF PathInv, PlaceInv
        <3>. QED
            BY <1>2, <1>6, <2>1, <3>1, PublisherFrame DEF OnePlace
    <2>3. OrderInv'
        BY <2>1, PublisherOrder
    <2>. QED
        BY <1>4, <2>2, <2>3 DEF PathInv
<1>. QED
    BY <1>5, <1>6

LEMMA PublisherPath ==
    ASSUME TypeInv, PathInv, NEW p \in Publishers, PublisherStep(p)
    PROVE  PathInv'
<1>1. ASSUME NEW nonBlocking \in {FALSE, opts.policy = "block"}, Publish(p, nonBlocking)
      PROVE  PathInv'
    BY <1>1, PublishPath
<1>2. CASE Enqueue(p)
    BY <1>2, EnqueuePath
<1>3. CASE CheckClosing(p)
    BY <1>3, HandOutPath, HandStaysPath DEF CheckClosing, HandPC
<1>4. CASE Send(p)
    BY <1>4, HandOutPath, HandStaysPath DEF Send, HandPC
<1>5. CASE Displace(p)
    BY <1>5, HandStaysPath DEF Displace, HandPC
<1>6. CASE SendDisplaced(p)
    BY <1>6, HandOutPath DEF SendDisplaced, HandPC
<1>7. CASE EnqueueBlock(p) \/ PublishCancelled(p)
    BY <1>7, HandOutPath DEF EnqueueBlock, PublishCancelled, HandPC
<1>. QED
    BY <1>1, <1>2, <1>3, <1>4, <1>5, <1>6, <1>7 DEF PublisherStep, EnqueueStep

(***************************************************************************)
(* The run goroutine and the executors: which parts a mode uses.           *)
(***************************************************************************)
StageInv == ModeInv /\ WorkerInv

\* What dispatchKeyed does to the executors.
LEMMA DispatchKeyedFacts ==
    ASSUME TypeInv, DispatchKeyed, NEW k, k = Key(runner.evt)
    PROVE  /\ runner.evt \in Events /\ k \in Publishers
           /\ \A j \in Publishers \ {k} : workers'[j] = workers[j]
           /\ workers'[k].pc = IF workers[k].pc = "absent" THEN "idle" ELSE workers[k].pc
           /\ workers'[k].evt = workers[k].evt
           /\ \/ workers'[k].q = Append(workers[k].q, runner.evt) /\ abandoned' = abandoned
              \/ /\ workers'[k].q = workers[k].q /\ Closing
                 /\ abandoned' = abandoned \cup {runner.evt}
<1>. DEFINE ex == [workers[k] EXCEPT !.pc = IF @ = "absent" THEN "idle" ELSE @]
<1>1. runner.evt \in Events /\ k \in Publishers
    BY EventFacts DEF TypeInv, DispatchKeyed, AtRun
<1>2. workers \in [Publishers -> WorkerType]
    BY DEF TypeInv, BusTypeOK, WorkerType
<1>3. /\ ex.pc = IF workers[k].pc = "absent" THEN "idle" ELSE workers[k].pc
      /\ ex.evt = workers[k].evt /\ ex.q = workers[k].q /\ ex \in WorkerType
    BY <1>1, <1>2 DEF WorkerType, WorkerPC
<1>. HIDE DEF ex
<1>4. \/ /\ workers' = [workers EXCEPT ![k] = [ex EXCEPT !.q = Append(@, runner.evt)]]
         /\ abandoned' = abandoned
      \/ /\ Closing /\ workers' = [workers EXCEPT ![k] = ex]
         /\ abandoned' = abandoned \cup {runner.evt}
    BY DEF DispatchKeyed, ex
<1>5. CASE /\ workers' = [workers EXCEPT ![k] = [ex EXCEPT !.q = Append(@, runner.evt)]]
           /\ abandoned' = abandoned
    <2>1. /\ workers'[k] = [ex EXCEPT !.q = Append(@, runner.evt)]
          /\ \A j \in Publishers \ {k} : workers'[j] = workers[j]
        BY <1>1, <1>2, <1>5
    <2>2. /\ workers'[k].pc = ex.pc /\ workers'[k].evt = ex.evt
          /\ workers'[k].q = Append(ex.q, runner.evt)
        BY <1>3, <2>1 DEF WorkerType
    <2>. QED
        BY <1>1, <1>3, <1>5, <2>1, <2>2
<1>6. CASE /\ Closing /\ workers' = [workers EXCEPT ![k] = ex]
           /\ abandoned' = abandoned \cup {runner.evt}
    BY <1>1, <1>2, <1>3, <1>6
<1>. QED
    BY <1>4, <1>5, <1>6

\* What a worker does to its executor.
LEMMA WorkerStepFacts ==
    ASSUME TypeInv, NEW k \in Publishers, WorkerStep(k)
    PROVE  /\ UNCHANGED <<opts, close, done, ch, pub, runner, spawned, exClosed, received,
                          dropped, delivered, refused, abandoned>>
           /\ \A j \in Publishers \ {k} : workers'[j] = workers[j]
           /\ \/ /\ WorkerInvokes(k) /\ workers[k].pc = "idle" /\ workers[k].q # <<>>
                 /\ workers[k].q \in Seq(Events) /\ Head(workers[k].q) \in Events
                 /\ workers'[k].pc = "handle" /\ workers'[k].evt = Head(workers[k].q)
                 /\ workers'[k].q = Tail(workers[k].q) /\ Begin(Head(workers[k].q))
              \/ /\ WorkerReturns(k) /\ workers[k].pc = "handle"
                 /\ workers'[k].pc = "idle" /\ workers'[k].q = workers[k].q
                 /\ HandleReturns(workers[k].evt) /\ UNCHANGED <<launched, started>>
              \/ /\ WorkerEnds(k) /\ workers[k].pc = "idle" /\ workers[k].q = <<>> /\ exClosed
                 /\ workers'[k].pc = "over" /\ workers'[k].q = <<>>
                 /\ UNCHANGED <<running, launched, started>>
<1>1. UNCHANGED <<opts, close, done, ch, pub, runner, spawned, exClosed, received, dropped,
                  delivered, refused, abandoned>>
    BY DEF WorkerStep, WorkerInvokes, WorkerReturns, WorkerEnds, closeVars, counters
<1>2. workers \in [Publishers -> WorkerType]
    BY DEF TypeInv, BusTypeOK, WorkerType
<1>3. CASE WorkerInvokes(k)
    <2>1. workers[k].q \in Seq(Events) /\ workers[k].q # <<>>
        BY <1>2, <1>3 DEF WorkerInvokes, WorkerType
    <2>2. Head(workers[k].q) \in Events
        BY <2>1
    <2>3. workers' = [workers EXCEPT ![k] = [pc |-> "handle", evt |-> Head(workers[k].q),
                                            q |-> Tail(workers[k].q)]]
        BY <1>3 DEF WorkerInvokes
    <2>4. /\ workers'[k] = [pc |-> "handle", evt |-> Head(workers[k].q), q |-> Tail(workers[k].q)]
          /\ \A j \in Publishers \ {k} : workers'[j] = workers[j]
        BY <1>2, <2>3
    <2>. QED
        BY <1>1, <1>3, <2>1, <2>2, <2>4 DEF WorkerInvokes
<1>4. CASE WorkerReturns(k)
    <2>1. /\ workers'[k].pc = "idle" /\ workers'[k].q = workers[k].q
          /\ \A j \in Publishers \ {k} : workers'[j] = workers[j]
        BY <1>2, <1>4 DEF WorkerReturns, WorkerType
    <2>. QED
        BY <1>1, <1>4, <2>1 DEF WorkerReturns, HandleReturns
<1>5. CASE WorkerEnds(k)
    <2>1. /\ workers'[k].pc = "over" /\ workers'[k].q = workers[k].q
          /\ \A j \in Publishers \ {k} : workers'[j] = workers[j]
        BY <1>2, <1>5 DEF WorkerEnds, WorkerType
    <2>. QED
        BY <1>1, <1>5, <2>1 DEF WorkerEnds, handlerVars
<1>. QED
    BY <1>3, <1>4, <1>5 DEF WorkerStep

LEMMA PublisherStage ==
    ASSUME StageInv, NEW p \in Publishers, PublisherStep(p)
    PROVE  StageInv'
BY PublisherFrame DEF StageInv, ModeInv, WorkerInv, Closing

\* Once closing is closed it stays closed.
LEMMA CloseStage ==
    ASSUME StageInv, Unsubscribe \/ CloseStep
    PROVE  StageInv'
BY DEF StageInv, ModeInv, WorkerInv, Closing, runVars, counters, CloseGoes, Unsubscribe,
       CloseStep, CloseClosing, FlagClosed, WaitBlocked, CloseCh

LEMMA RunnerStage ==
    ASSUME IInv, StageInv, RunnerStep
    PROVE  StageInv'
<1>1. runner \in [pc : RunPC, evt : Events \cup {<<>>}]
    BY DEF IInv, TypeInv, BusTypeOK
<1>2. CASE DispatchKeyed
    <2>. DEFINE k == Key(runner.evt)
    <2>1. opts.mode = "keyed" /\ ~exClosed
        BY <1>2 DEF DispatchKeyed, IInv, CloseInv, AtRun
    <2>2. UNCHANGED <<opts, close, spawned, exClosed>>
        BY <1>2 DEF DispatchKeyed, closeVars
    <2>3. runner'.pc = IF opts.once THEN "once" ELSE "recv"
        BY <1>2 DEF DispatchKeyed, AfterEvent
    <2>4. /\ runner.evt \in Events /\ k \in Publishers
          /\ \A j \in Publishers \ {k} : workers'[j] = workers[j]
          /\ workers'[k].pc = IF workers[k].pc = "absent" THEN "idle" ELSE workers[k].pc
          /\ workers'[k].evt = workers[k].evt
          /\ \/ workers'[k].q = Append(workers[k].q, runner.evt) /\ abandoned' = abandoned
             \/ /\ workers'[k].q = workers[k].q /\ Closing
                /\ abandoned' = abandoned \cup {runner.evt}
        BY <1>2, DispatchKeyedFacts DEF IInv
    <2>5. Closing' <=> Closing
        BY <2>2 DEF Closing
    <2>6. ModeInv'
        BY <2>1, <2>2, <2>3, <2>4, <2>5 DEF StageInv, ModeInv
    <2>7. workers[k].q \in Seq(Events) /\ Key(runner.evt) = k
        BY <2>4 DEF IInv, TypeInv, BusTypeOK
    <2>. HIDE DEF k
    <2>8. \A i \in 1..Len(workers'[k].q) : Key(workers'[k].q[i]) = k
        <3>1. \A i \in 1..Len(workers[k].q) : Key(workers[k].q[i]) = k
            BY <2>4 DEF StageInv, WorkerInv
        <3>2. CASE workers'[k].q = Append(workers[k].q, runner.evt)
            BY <2>4, <2>7, <3>1, <3>2
        <3>3. CASE workers'[k].q = workers[k].q
            BY <3>1, <3>3
        <3>. QED
            BY <2>4, <3>2, <3>3
    <2>9. WorkerInv'
        BY <2>1, <2>2, <2>4, <2>8 DEF StageInv, WorkerInv
    <2>. QED
        BY <2>6, <2>9 DEF StageInv
<1>3. CASE ~DispatchKeyed
    <2>1. UNCHANGED <<opts, workers, abandoned>> /\ (exClosed => exClosed')
        BY <1>3 DEF RunnerStep, Receive, ReceiveNoMore, DispatchLocked, RunnerReturns,
            DispatchConcurrent, OnceCloses, OnceClosed, CloseKeyedChannels, CloseDone,
            closeVars, counters
    <2>2. WorkerInv'
        BY <2>1 DEF StageInv, WorkerInv
    <2>3. Closing => Closing'
        BY <1>3 DEF RunnerStep, Receive, ReceiveNoMore, DispatchLocked, RunnerReturns,
            DispatchConcurrent, OnceCloses, OnceClosed, CloseKeyedChannels, CloseDone,
            closeVars, Closing
    <2>. USE DEF AtRun, AfterEvent
    <2>4. runner.pc # "none" /\ runner'.pc # "none"
        BY <1>1, <1>3 DEF RunnerStep, Receive, ReceiveNoMore, DispatchLocked, RunnerReturns,
            DispatchConcurrent, OnceCloses, OnceClosed, CloseKeyedChannels, CloseDone
    <2>5. runner'.pc = "handle" => opts.mode = "locked"
        BY <1>1, <1>3 DEF RunnerStep, Receive, ReceiveNoMore, DispatchLocked, RunnerReturns,
            DispatchConcurrent, OnceCloses, OnceClosed, CloseKeyedChannels, CloseDone
    <2>6. runner'.pc \in {"once", "closes"} => opts.once
        BY <1>1, <1>3 DEF RunnerStep, Receive, ReceiveNoMore, DispatchLocked, RunnerReturns,
            DispatchConcurrent, OnceCloses, OnceClosed, CloseKeyedChannels, CloseDone,
            StageInv, ModeInv
    <2>7. spawned' # {} => opts.mode = "concurrent"
        BY <1>3 DEF RunnerStep, Receive, ReceiveNoMore, DispatchLocked, RunnerReturns,
            DispatchConcurrent, OnceCloses, OnceClosed, CloseKeyedChannels, CloseDone,
            StageInv, ModeInv
    <2>8. ModeInv'
        BY <2>1, <2>3, <2>4, <2>5, <2>6, <2>7 DEF StageInv, ModeInv
    <2>. QED
        BY <2>2, <2>8 DEF StageInv
<1>. QED
    BY <1>2, <1>3

LEMMA HandlerStage ==
    ASSUME IInv, StageInv, HandlerSide
    PROVE  StageInv'
<1>1. CASE \/ ConsumerTakes \/ \E e \in launched : LaunchedInvokes(e)
           \/ \E e \in running : LateReturn(e)
    <2>1. UNCHANGED <<opts, close, runner, spawned, workers, exClosed, abandoned>>
        BY <1>1 DEF ConsumerTakes, LaunchedInvokes, LateReturn, closeVars, runVars, counters
    <2>. QED
        BY <2>1 DEF StageInv, ModeInv, WorkerInv, Closing
<1>2. ASSUME NEW e \in spawned, SpawnedStep(e) PROVE StageInv'
    <2>1. /\ UNCHANGED <<opts, close, runner, workers, exClosed, abandoned>>
          /\ spawned' \subseteq spawned
        BY <1>2 DEF SpawnedStep, SpawnedInvokes, SpawnedReturns, closeVars, runVars, counters
    <2>. QED
        BY <2>1 DEF StageInv, ModeInv, WorkerInv, Closing
<1>3. ASSUME NEW k \in Publishers, WorkerStep(k) PROVE StageInv'
    <2>1. /\ UNCHANGED <<opts, close, runner, spawned, exClosed, abandoned>>
          /\ \A j \in Publishers \ {k} : workers'[j] = workers[j]
          /\ workers[k].pc # "absent"
        BY <1>3, WorkerStepFacts DEF IInv
    <2>2. ModeInv'
        BY <2>1 DEF StageInv, ModeInv, Closing
    <2>3. /\ workers'[k].pc \in {"absent", "over"} => workers'[k].q = <<>>
          /\ workers'[k].pc = "over" => exClosed
        BY <1>3, WorkerStepFacts DEF IInv
    <2>4. \A i \in 1..Len(workers[k].q) : Key(workers[k].q[i]) = k
        BY DEF StageInv, WorkerInv
    <2>5. /\ workers'[k].pc = "handle" =>
                 workers'[k].evt \in Events /\ Key(workers'[k].evt) = k
          /\ \A i \in 1..Len(workers'[k].q) : Key(workers'[k].q[i]) = k
        <3>1. CASE WorkerInvokes(k)
            <4>1. /\ workers[k].q \in Seq(Events) /\ workers[k].q # <<>>
                  /\ workers'[k].evt = Head(workers[k].q) /\ workers'[k].q = Tail(workers[k].q)
                BY <1>3, <3>1, WorkerStepFacts DEF IInv, WorkerReturns, WorkerEnds, WorkerInvokes
            <4>2. /\ Head(workers[k].q) = workers[k].q[1] /\ 1 \in 1..Len(workers[k].q)
                  /\ \A i \in 1..Len(Tail(workers[k].q)) :
                         /\ Tail(workers[k].q)[i] = workers[k].q[i + 1]
                         /\ i + 1 \in 1..Len(workers[k].q)
                  /\ Head(workers[k].q) \in Events
                BY <4>1
            <4>. QED
                BY <2>4, <4>1, <4>2
        <3>2. CASE ~WorkerInvokes(k)
            BY <1>3, <2>4, <3>2, WorkerStepFacts DEF IInv
        <3>. QED
            BY <3>1, <3>2
    <2>6. WorkerInv'
        BY <2>1, <2>3, <2>5 DEF StageInv, WorkerInv
    <2>. QED
        BY <2>2, <2>6 DEF StageInv
<1>. QED
    BY <1>1, <1>2, <1>3 DEF HandlerSide

(***************************************************************************)
(* The run goroutine and the executors: the path of an event.              *)
(***************************************************************************)
LEMMA QuietPath ==
    ASSUME TypeInv, PathInv,
           UNCHANGED <<opts, pub, ch, launched, started, received, dropped, refused, abandoned>>,
           \A k \in Publishers : workers'[k].q = workers[k].q,
           \A x \in Events : (InRun(x)' <=> InRun(x)) /\ (Fresh(x)' <=> Fresh(x))
    PROVE  PathInv'
<1>1. \A x \in Events : /\ InHand(x)' <=> InHand(x)
                        /\ InCh(x)' <=> InCh(x)
                        /\ AtWorker(x)' <=> AtWorker(x)
                        /\ Begun(x)' <=> Begun(x)
    <2>1. \A x \in Events : /\ InHand(x)' <=> InHand(x)
                            /\ InCh(x)' <=> InCh(x)
                            /\ Begun(x)' <=> Begun(x)
        BY DEF InHand, Evt, HoldsRLock, InBlockWG, InCh, Begun, Called
    <2>2. ASSUME NEW x \in Events PROVE AtWorker(x)' <=> AtWorker(x)
        <3>1. workers'[Key(x)].q = workers[Key(x)].q
            BY EventFacts
        <3>. QED
            BY <3>1 DEF AtWorker
    <2>. QED
        BY <2>1, <2>2
<1>2. PlaceInv'
    BY <1>1 DEF PathInv, PlaceInv, OnePlace
<1>3. NumberInv'
    BY DEF PathInv, NumberInv
<1>4. OrderInv'
    BY <1>1 DEF PathInv, OrderInv, Ascending
<1>. QED
    BY <1>2, <1>3, <1>4 DEF PathInv

\* What handle begins with.
LEMMA BeginFacts ==
    ASSUME TypeInv, NEW e \in Events, Begin(e)
    PROVE  /\ \A x \in Events : Begun(x)' <=> Begun(x) \/ x = e
           /\ ~opts.timeout => started' = Append(started, e) /\ launched' = launched
           /\ opts.timeout => started' = started /\ launched' = launched \cup {e}
<1>1. started \in Seq(Events)
    BY DEF TypeInv, BusTypeOK
<1>2. CASE ~opts.timeout
    <2>1. started' = Append(started, e) /\ launched' = launched
        BY <1>2 DEF Begin, Invoke
    <2>2. \A x : Contains(started', x) <=> Contains(started, x) \/ x = e
        BY <1>1, <2>1, AppendContains
    <2>. QED
        BY <1>2, <2>1, <2>2 DEF Begun, Called
<1>3. CASE opts.timeout
    BY <1>3 DEF Begin, Begun, Called
<1>. QED
    BY <1>2, <1>3

\* The order is kept when the event that is begun with next is newer than
\* those begun with and older than what stays on the way.
LEMMA BegunOrder ==
    ASSUME TypeInv, PathInv, NEW m \in Events, UNCHANGED opts,
           opts.timeout \/ started' = Append(started, m),
           \A x \in Events : Begun(x)' <=> Begun(x) \/ x = m,
           Ascending(ch'), \A k \in Publishers : Ascending(workers'[k].q),
           \A x \in Events : /\ InCh(x)' => InCh(x)
                             /\ AtWorker(x)' => AtWorker(x)
                             /\ InRun(x)' => InRun(x),
           opts.mode # "concurrent" =>
               \A x \in Events : x[1] = m[1] =>
                   /\ InCh(x)' \/ AtWorker(x)' \/ InRun(x)' => m[2] < x[2]
                   /\ Begun(x) => x[2] < m[2]
    PROVE  OrderInv'
<1>1. started \in Seq(Events)
    BY DEF TypeInv, BusTypeOK
<1>3. opts.mode # "concurrent" /\ ~opts.timeout => Ascending(started')
    <2>1. opts.mode # "concurrent" /\ ~opts.timeout => Ascending(started)
        BY DEF PathInv, OrderInv
    <2>. QED
        BY <1>1, <2>1, AppendAscending DEF Begun, Called
<1>4. ASSUME opts.mode # "concurrent", NEW x \in Events, NEW y \in Events, x[1] = y[1]
      PROVE  /\ Begun(x)' /\ (AtWorker(y)' \/ InRun(y)' \/ InCh(y)') => x[2] < y[2]
             /\ AtWorker(x)' /\ (InRun(y)' \/ InCh(y)') => x[2] < y[2]
             /\ InRun(x)' /\ InCh(y)' => x[2] < y[2]
    BY <1>4 DEF PathInv, OrderInv
<1>. QED
    BY <1>3, <1>4 DEF OrderInv, Ascending

\* The run goroutine takes the oldest event out of the channel.
LEMMA ReceivePath ==
    ASSUME TypeInv, PathInv, Receive
    PROVE  PathInv'
<1>1. /\ UNCHANGED <<opts, pub, spawned, workers, launched, started, received, dropped, refused, abandoned>>
      /\ ch # <<>> /\ ch' = Tail(ch)
    BY DEF Receive, closeVars, handlerVars, counters
<1>2. ch \in Seq(Events) /\ Ascending(ch)
    BY DEF TypeInv, BusTypeOK, PathInv, OrderInv
<1>3. /\ Head(ch) \in Events /\ InCh(Head(ch)) /\ Ascending(ch')
      /\ \A x \in Events : InCh(x)' <=> InCh(x) /\ x # Head(ch)
      /\ \A x \in Events : InCh(x)' /\ x[1] = Head(ch)[1] => Head(ch)[2] < x[2]
    BY <1>1, <1>2, TakeFirst DEF InCh
<1>4. \A x \in Events : /\ ~InRun(x)
                        /\ InRun(x)' <=> x = Head(ch)
    BY DEF Receive, InRun, AtRun
<1>5. \A x \in Events : /\ InHand(x)' <=> InHand(x)
                        /\ Fresh(x)' <=> Fresh(x)
                        /\ AtWorker(x)' <=> AtWorker(x)
                        /\ Begun(x)' <=> Begun(x)
    BY <1>1 DEF InHand, Evt, HoldsRLock, InBlockWG, Fresh, AtWorker, Begun, Called
<1>6. PlaceInv'
    <2>. SUFFICES ASSUME NEW x \in Events PROVE OnePlace(x)'
        BY DEF PlaceInv
    <2>1. OnePlace(x) /\ (x = Head(ch) => InCh(x))
        BY <1>3 DEF PathInv, PlaceInv
    <2>. QED
        BY <1>1, <1>3, <1>4, <1>5, <2>1 DEF OnePlace
<1>7. NumberInv'
    BY <1>1 DEF PathInv, NumberInv
<1>8. OrderInv'
    BY <1>1, <1>3, <1>4, <1>5 DEF PathInv, OrderInv, Ascending
<1>. QED
    BY <1>6, <1>7, <1>8 DEF PathInv

LEMMA DispatchLockedPath ==
    ASSUME TypeInv, PathInv, StageInv, DispatchLocked
    PROVE  PathInv'
<1>1. /\ UNCHANGED <<opts, pub, ch, spawned, workers, received, dropped, refused, abandoned>>
      /\ Begin(runner.evt) /\ opts.mode = "locked" /\ runner.evt \in Events
    BY DEF DispatchLocked, closeVars, counters, TypeInv, BusTypeOK, AtRun
<1>2. \A x \in Events : /\ InRun(x) <=> x = runner.evt
                        /\ ~InRun(x)'
    BY DEF DispatchLocked, InRun, AtRun, TypeInv, BusTypeOK
<1>3. /\ \A x \in Events : Begun(x)' <=> Begun(x) \/ x = runner.evt
      /\ opts.timeout \/ started' = Append(started, runner.evt)
    BY <1>1, BeginFacts
<1>4. \A x \in Events : ~Fresh(x) /\ ~Fresh(x)'
    BY <1>1 DEF Fresh, StageInv, ModeInv
<1>5. \A x \in Events : ~AtWorker(x) /\ ~AtWorker(x)'
    <2>1. \A x \in Events : workers[Key(x)].q = <<>>
        BY <1>1, EventFacts DEF StageInv, ModeInv, WorkerInv
    <2>. QED
        BY <1>1, <2>1, EmptyQueue DEF AtWorker
<1>6. \A x \in Events : /\ InHand(x)' <=> InHand(x)
                        /\ InCh(x)' <=> InCh(x)
    BY <1>1 DEF InHand, Evt, HoldsRLock, InBlockWG, InCh
<1>7. PlaceInv'
    <2>. SUFFICES ASSUME NEW x \in Events PROVE OnePlace(x)'
        BY DEF PlaceInv
    <2>1. OnePlace(x)
        BY DEF PathInv, PlaceInv
    <2>. QED
        BY <1>1, <1>2, <1>3, <1>4, <1>5, <1>6, <2>1 DEF OnePlace
<1>8. NumberInv'
    BY <1>1 DEF PathInv, NumberInv
<1>9. OrderInv'
    <2>1. Ascending(ch') /\ \A k \in Publishers : Ascending(workers'[k].q)
        BY <1>1 DEF PathInv, OrderInv
    <2>2. \A x \in Events : x[1] = runner.evt[1] =>
              /\ InCh(x)' \/ AtWorker(x)' \/ InRun(x)' => runner.evt[2] < x[2]
              /\ Begun(x) => x[2] < runner.evt[2]
        BY <1>1, <1>2, <1>5, <1>6 DEF PathInv, OrderInv
    <2>. QED
        BY <1>1, <1>2, <1>3, <1>5, <1>6, <2>1, <2>2, BegunOrder
<1>. QED
    BY <1>7, <1>8, <1>9 DEF PathInv

LEMMA DispatchConcurrentPath ==
    ASSUME TypeInv, PathInv, DispatchConcurrent
    PROVE  PathInv'
<1>1. /\ UNCHANGED <<opts, pub, ch, workers, launched, started, received, dropped, refused, abandoned>>
      /\ spawned' = spawned \cup {runner.evt} /\ opts.mode = "concurrent"
      /\ runner.evt \in Events
    BY DEF DispatchConcurrent, closeVars, handlerVars, counters, TypeInv, AtRun
<1>2. \A x \in Events : /\ InRun(x) <=> x = runner.evt
                        /\ ~InRun(x)'
    BY DEF DispatchConcurrent, AfterEvent, InRun, AtRun
<1>3. \A x \in Events : /\ InHand(x)' <=> InHand(x)
                        /\ InCh(x)' <=> InCh(x)
                        /\ AtWorker(x)' <=> AtWorker(x)
                        /\ Begun(x)' <=> Begun(x)
    BY <1>1 DEF InHand, Evt, HoldsRLock, InBlockWG, InCh, AtWorker, Begun, Called
<1>4. \A x \in Events : Fresh(x)' <=> Fresh(x) \/ (x = runner.evt /\ ~Begun(x))
    BY <1>1 DEF Fresh, Begun, Called
<1>5. PlaceInv'
    <2>. SUFFICES ASSUME NEW x \in Events PROVE OnePlace(x)'
        BY DEF PlaceInv
    <2>1. OnePlace(x)
        BY DEF PathInv, PlaceInv
    <2>. QED
        BY <1>1, <1>2, <1>3, <1>4, <2>1 DEF OnePlace
<1>6. NumberInv'
    BY <1>1 DEF PathInv, NumberInv
<1>7. OrderInv'
    BY <1>1 DEF PathInv, OrderInv, Ascending
<1>. QED
    BY <1>5, <1>6, <1>7 DEF PathInv

\* The event goes to the executor of its key, or is left when closing is seen.
LEMMA DispatchKeyedPath ==
    ASSUME TypeInv, PathInv, DispatchKeyed
    PROVE  PathInv'
<1>. DEFINE k == Key(runner.evt)
<1>1. /\ UNCHANGED <<opts, pub, ch, spawned, launched, started, received, dropped, refused>>
      /\ runner.evt \in Events /\ k \in Publishers /\ k = runner.evt[1]
    BY EventFacts DEF DispatchKeyed, closeVars, handlerVars, TypeInv, AtRun, Key
<1>2. /\ \A j \in Publishers \ {k} : workers'[j] = workers[j]
      /\ \/ workers'[k].q = Append(workers[k].q, runner.evt) /\ abandoned' = abandoned
         \/ /\ workers'[k].q = workers[k].q
            /\ abandoned' = abandoned \cup {runner.evt}
    BY DispatchKeyedFacts
<1>3. \A x \in Events : /\ InRun(x) <=> x = runner.evt
                        /\ ~InRun(x)'
    BY DEF DispatchKeyed, AfterEvent, InRun, AtRun
<1>4. \A x \in Events : /\ InHand(x)' <=> InHand(x)
                        /\ InCh(x)' <=> InCh(x)
                        /\ Fresh(x)' <=> Fresh(x)
                        /\ Begun(x)' <=> Begun(x)
    BY <1>1 DEF InHand, Evt, HoldsRLock, InBlockWG, InCh, Fresh, Begun, Called
<1>5. NumberInv'
    BY <1>1 DEF PathInv, NumberInv
<1>6. /\ Ascending(ch') /\ \A j \in Publishers : Ascending(workers[j].q)
      /\ workers[k].q \in Seq(Events)
      /\ opts.mode = "keyed" /\ (~opts.timeout => Ascending(started'))
    BY <1>1 DEF PathInv, OrderInv, TypeInv, BusTypeOK, DispatchKeyed
<1>7. CASE workers'[k].q = Append(workers[k].q, runner.evt) /\ abandoned' = abandoned
    <2>1. \A x \in Events : AtWorker(x)' <=> AtWorker(x) \/ x = runner.evt
        <3>. SUFFICES ASSUME NEW x \in Events
                      PROVE  AtWorker(x)' <=> AtWorker(x) \/ x = runner.evt
            OBVIOUS
        <3>1. Key(x) \in Publishers
            BY EventFacts
        <3>2. CASE Key(x) = k
            <4>1. workers'[Key(x)].q = Append(workers[Key(x)].q, runner.evt)
                BY <1>7, <3>2
            <4>2. workers[Key(x)].q \in Seq(Events)
                BY <1>6, <3>2
            <4>3. Contains(Append(workers[Key(x)].q, runner.evt), x)
                      <=> Contains(workers[Key(x)].q, x) \/ x = runner.evt
                BY <1>1, <4>2, AppendContains
            <4>. QED
                BY <4>1, <4>3 DEF AtWorker
        <3>3. CASE Key(x) # k
            <4>1. x # runner.evt
                BY <3>3
            <4>. QED
                BY <1>2, <3>1, <3>3, <4>1 DEF AtWorker
        <3>. QED
            BY <3>2, <3>3
    <2>2. PlaceInv'
        <3>. SUFFICES ASSUME NEW x \in Events PROVE OnePlace(x)'
            BY DEF PlaceInv
        <3>1. OnePlace(x)
            BY DEF PathInv, PlaceInv
        <3>. QED
            BY <1>1, <1>3, <1>4, <1>7, <2>1, <3>1 DEF OnePlace
    <2>3. \A j \in Publishers : Ascending(workers'[j].q)
        <3>1. \A x \in Events : Contains(workers[k].q, x) /\ x[1] = runner.evt[1]
                                    => x[2] < runner.evt[2]
            BY <1>1, <1>3, <1>6, EventParts DEF PathInv, OrderInv, AtWorker
        <3>2. Ascending(workers'[k].q)
            BY <1>1, <1>6, <1>7, <3>1, AppendAscending
        <3>. QED
            BY <1>2, <1>6, <3>2
    <2>4. OrderInv'
        BY <1>1, <1>3, <1>4, <1>6, <2>1, <2>3 DEF PathInv, OrderInv, Ascending
    <2>. QED
        BY <1>5, <2>2, <2>4 DEF PathInv
<1>8. CASE workers'[k].q = workers[k].q /\ abandoned' = abandoned \cup {runner.evt}
    <2>1. \A j \in Publishers : workers'[j].q = workers[j].q
        BY <1>2, <1>8
    <2>2. \A x \in Events : AtWorker(x)' <=> AtWorker(x)
        BY <2>1, EventFacts DEF AtWorker
    <2>3. PlaceInv'
        <3>. SUFFICES ASSUME NEW x \in Events PROVE OnePlace(x)'
            BY DEF PlaceInv
        <3>1. OnePlace(x)
            BY DEF PathInv, PlaceInv
        <3>. QED
            BY <1>1, <1>3, <1>4, <1>8, <2>2, <3>1 DEF OnePlace
    <2>4. OrderInv'
        BY <1>1, <1>3, <1>4, <1>6, <2>1, <2>2 DEF PathInv, OrderInv, Ascending
    <2>. QED
        BY <1>5, <2>3, <2>4 DEF PathInv
<1>. QED
    BY <1>2, <1>7, <1>8

LEMMA RunnerPath ==
    ASSUME TypeInv, PathInv, StageInv, RunnerStep
    PROVE  PathInv'
<1>1. CASE Receive \/ DispatchLocked \/ DispatchConcurrent \/ DispatchKeyed
    BY <1>1, ReceivePath, DispatchLockedPath, DispatchConcurrentPath, DispatchKeyedPath
<1>2. CASE ReceiveNoMore \/ RunnerReturns \/ OnceCloses \/ OnceClosed
           \/ CloseKeyedChannels \/ CloseDone
    <2>1. UNCHANGED <<opts, pub, ch, spawned, workers, launched, started, received, dropped, refused,
                      abandoned>>
        BY <1>2 DEF ReceiveNoMore, RunnerReturns, OnceCloses, OnceClosed, CloseKeyedChannels,
            CloseDone, closeVars, handlerVars, counters, HandleReturns
    <2>2. runner.pc # "dispatch" /\ runner'.pc # "dispatch"
        BY <1>2 DEF ReceiveNoMore, RunnerReturns, OnceCloses, OnceClosed, CloseKeyedChannels,
            CloseDone, AtRun, AfterEvent, TypeInv, BusTypeOK
    <2>3. \A x \in Events : (InRun(x)' <=> InRun(x)) /\ (Fresh(x)' <=> Fresh(x))
        BY <2>1, <2>2 DEF InRun, AtRun, Fresh
    <2>. QED
        BY <2>1, <2>3, QuietPath
<1>. QED
    BY <1>1, <1>2 DEF RunnerStep

\* The reader of a channel takes its oldest event.
LEMMA ConsumerPath ==
    ASSUME TypeInv, PathInv, StageInv, ConsumerTakes
    PROVE  PathInv'
<1>1. /\ UNCHANGED <<opts, pub, runner, spawned, workers, received, dropped, refused, abandoned>>
      /\ ch # <<>> /\ ch' = Tail(ch) /\ started' = Append(started, Head(ch))
      /\ opts.mode = "chan" /\ started \in Seq(Events) /\ launched' = launched
    BY DEF ConsumerTakes, closeVars, runVars, counters, TypeInv, BusTypeOK
<1>2. ch \in Seq(Events) /\ Ascending(ch)
    BY DEF TypeInv, BusTypeOK, PathInv, OrderInv
<1>3. /\ Head(ch) \in Events /\ InCh(Head(ch)) /\ Ascending(ch')
      /\ \A x \in Events : InCh(x)' <=> InCh(x) /\ x # Head(ch)
      /\ \A x \in Events : InCh(x)' /\ x[1] = Head(ch)[1] => Head(ch)[2] < x[2]
    BY <1>1, <1>2, TakeFirst DEF InCh
<1>4. \A x \in Events : Begun(x)' <=> Begun(x) \/ x = Head(ch)
    BY <1>1, <1>3, AppendContains DEF Begun, Called
<1>5. \A x \in Events : ~Fresh(x) /\ ~Fresh(x)' /\ ~InRun(x) /\ ~InRun(x)'
    BY <1>1 DEF Fresh, InRun, AtRun, StageInv, ModeInv
<1>6. \A x \in Events : ~AtWorker(x) /\ ~AtWorker(x)'
    <2>1. \A x \in Events : workers[Key(x)].q = <<>>
        BY <1>1, EventFacts DEF StageInv, ModeInv, WorkerInv
    <2>. QED
        BY <1>1, <2>1, EmptyQueue DEF AtWorker
<1>7. \A x \in Events : InHand(x)' <=> InHand(x)
    BY <1>1 DEF InHand, Evt, HoldsRLock, InBlockWG
<1>8. PlaceInv'
    <2>. SUFFICES ASSUME NEW x \in Events PROVE OnePlace(x)'
        BY DEF PlaceInv
    <2>1. OnePlace(x) /\ (x = Head(ch) => InCh(x))
        BY <1>3 DEF PathInv, PlaceInv
    <2>. QED
        BY <1>1, <1>3, <1>4, <1>5, <1>6, <1>7, <2>1 DEF OnePlace
<1>9. NumberInv'
    BY <1>1 DEF PathInv, NumberInv
<1>10. OrderInv'
    <2>1. \A k \in Publishers : Ascending(workers'[k].q)
        BY <1>1 DEF PathInv, OrderInv
    <2>2. \A x \in Events : x[1] = Head(ch)[1] =>
              /\ InCh(x)' \/ AtWorker(x)' \/ InRun(x)' => Head(ch)[2] < x[2]
              /\ Begun(x) => x[2] < Head(ch)[2]
        BY <1>1, <1>3, <1>5, <1>6 DEF PathInv, OrderInv
    <2>. QED
        BY <1>1, <1>3, <1>4, <1>5, <1>6, <2>1, <2>2, BegunOrder
<1>. QED
    BY <1>8, <1>9, <1>10 DEF PathInv

\* A goroutine enters handle with its event.
LEMMA SpawnedInvokesPath ==
    ASSUME TypeInv, PathInv, StageInv, NEW e \in spawned, SpawnedInvokes(e)
    PROVE  PathInv'
<1>1. /\ UNCHANGED <<opts, pub, ch, runner, spawned, workers, received, dropped, refused,
                      abandoned>>
      /\ Begin(e) /\ e \in Events /\ Fresh(e) /\ opts.mode = "concurrent"
    BY DEF SpawnedInvokes, closeVars, runVars, counters, TypeInv, BusTypeOK, StageInv, ModeInv
<1>2. \A x \in Events : Begun(x)' <=> Begun(x) \/ x = e
    BY <1>1, BeginFacts
<1>3. \A x \in Events : Fresh(x)' <=> Fresh(x) /\ x # e
    BY <1>1, <1>2 DEF Fresh, Begun, Called
<1>4. \A x \in Events : /\ InHand(x)' <=> InHand(x)
                        /\ InCh(x)' <=> InCh(x)
                        /\ InRun(x)' <=> InRun(x)
                        /\ AtWorker(x)' <=> AtWorker(x)
    BY <1>1 DEF InHand, Evt, HoldsRLock, InBlockWG, InCh, InRun, AtRun, AtWorker
<1>5. PlaceInv'
    <2>. SUFFICES ASSUME NEW x \in Events PROVE OnePlace(x)'
        BY DEF PlaceInv
    <2>1. OnePlace(x) /\ (x = e => Fresh(x))
        BY <1>1 DEF PathInv, PlaceInv
    <2>. QED
        BY <1>1, <1>2, <1>3, <1>4, <2>1 DEF OnePlace
<1>6. NumberInv'
    BY <1>1 DEF PathInv, NumberInv
<1>7. OrderInv'
    BY <1>1 DEF PathInv, OrderInv, Ascending
<1>. QED
    BY <1>5, <1>6, <1>7 DEF PathInv

\* A worker enters handle with the oldest event of its key.
LEMMA WorkerInvokesPath ==
    ASSUME TypeInv, PathInv, StageInv, NEW k \in Publishers, WorkerInvokes(k)
    PROVE  PathInv'
<1>. DEFINE q == workers[k].q
            m == Head(workers[k].q)
<1>1. /\ UNCHANGED <<opts, pub, ch, runner, spawned, received, dropped, refused, abandoned>>
      /\ \A j \in Publishers \ {k} : workers'[j] = workers[j]
      /\ q \in Seq(Events) /\ q # <<>> /\ workers'[k].q = Tail(q) /\ Begin(m)
    <2>1. WorkerStep(k)
        BY DEF WorkerStep
    <2>. QED
        BY <2>1, WorkerStepFacts DEF WorkerInvokes, WorkerReturns, WorkerEnds
<1>2. opts.mode = "keyed" /\ Ascending(q)
    BY DEF TypeInv, BusTypeOK, StageInv, ModeInv, PathInv, OrderInv, WorkerInvokes
<1>3. /\ m \in Events /\ Contains(q, m) /\ Ascending(Tail(q))
      /\ \A x \in Events : Contains(Tail(q), x) <=> Contains(q, x) /\ x # m
      /\ \A x \in Events : Contains(Tail(q), x) /\ x[1] = m[1] => m[2] < x[2]
    BY <1>1, <1>2, TakeFirst
<1>4. Key(m) = k /\ m[1] = k
    <2>1. m = q[1] /\ 1 \in 1..Len(q)
        BY <1>1
    <2>. QED
        BY <2>1 DEF StageInv, WorkerInv, Key
<1>. HIDE DEF q, m
<1>5. \A x \in Events : Key(x) # k => (AtWorker(x)' <=> AtWorker(x))
    BY <1>1, EventFacts DEF AtWorker
<1>6. \A x \in Events : Key(x) = k => (AtWorker(x)' <=> Contains(Tail(q), x))
    BY <1>1 DEF AtWorker
<1>7. \A x \in Events : Key(x) = k => (AtWorker(x) <=> Contains(q, x))
    BY DEF AtWorker, q
<1>8. /\ AtWorker(m)
      /\ \A x \in Events : AtWorker(x)' <=> AtWorker(x) /\ x # m
      /\ \A x \in Events : AtWorker(x)' /\ x[1] = m[1] => m[2] < x[2]
    <2>1. \A x \in Events : Key(x) # k => x # m
        BY <1>4
    <2>2. \A x \in Events : x[1] = m[1] => Key(x) = k
        BY <1>4, EventParts
    <2>. QED
        BY <1>3, <1>4, <1>5, <1>6, <1>7, <2>1, <2>2
<1>9. /\ \A x \in Events : Begun(x)' <=> Begun(x) \/ x = m
      /\ opts.timeout \/ started' = Append(started, m)
    BY <1>1, <1>3, BeginFacts
<1>10. \A x \in Events : ~Fresh(x) /\ ~Fresh(x)'
    BY <1>1, <1>2 DEF Fresh, StageInv, ModeInv
<1>11. \A x \in Events : /\ InHand(x)' <=> InHand(x)
                         /\ InCh(x)' <=> InCh(x)
                         /\ InRun(x)' <=> InRun(x)
    BY <1>1 DEF InHand, Evt, HoldsRLock, InBlockWG, InCh, InRun, AtRun
<1>12. PlaceInv'
    <2>. SUFFICES ASSUME NEW x \in Events PROVE OnePlace(x)'
        BY DEF PlaceInv
    <2>1. OnePlace(x) /\ (x = m => AtWorker(x))
        BY <1>8 DEF PathInv, PlaceInv
    <2>. QED
        BY <1>1, <1>8, <1>9, <1>10, <1>11, <2>1 DEF OnePlace
<1>13. NumberInv'
    BY <1>1 DEF PathInv, NumberInv
<1>14. OrderInv'
    <2>1. Ascending(ch') /\ \A j \in Publishers : Ascending(workers'[j].q)
        BY <1>1, <1>3 DEF PathInv, OrderInv
    <2>2. \A x \in Events : x[1] = m[1] =>
              /\ InCh(x)' \/ AtWorker(x)' \/ InRun(x)' => m[2] < x[2]
              /\ Begun(x) => x[2] < m[2]
        BY <1>2, <1>3, <1>8, <1>11 DEF PathInv, OrderInv
    <2>. QED
        BY <1>1, <1>3, <1>8, <1>9, <1>11, <2>1, <2>2, BegunOrder
<1>. QED
    BY <1>12, <1>13, <1>14 DEF PathInv

\* The goroutine of a handler with a timeout calls it: to handle the event
\* was begun with before.
LEMMA LaunchedBegun ==
    ASSUME TypeInv, NEW e \in launched, LaunchedInvokes(e)
    PROVE  /\ \A x \in Events : Begun(x)' <=> Begun(x)
           /\ \A x \in Events : Called(x)' <=> Called(x) \/ x = e
<1>1. started \in Seq(Events) /\ e \in Events
    BY DEF TypeInv, BusTypeOK
<1>2. started' = Append(started, e) /\ launched' = launched \ {e}
    BY DEF LaunchedInvokes, Invoke
<1>3. \A x \in Events : Called(x)' <=> Called(x) \/ x = e
    BY <1>1, <1>2, AppendContains DEF Called
<1>. QED
    BY <1>2, <1>3 DEF Begun

LEMMA LaunchedInvokesPath ==
    ASSUME TypeInv, PathInv, LaunchInv, NEW e \in launched, LaunchedInvokes(e)
    PROVE  PathInv'
<1>1. /\ UNCHANGED <<opts, pub, ch, runner, spawned, workers, received, dropped, refused,
                      abandoned>>
      /\ opts.timeout
    BY DEF LaunchedInvokes, closeVars, runVars, counters, LaunchInv
<1>2. \A x \in Events : Begun(x)' <=> Begun(x)
    BY LaunchedBegun
<1>3. \A x \in Events : Fresh(x)' <=> Fresh(x)
    BY <1>1, <1>2 DEF Fresh, Begun, Called
<1>4. \A x \in Events : /\ InHand(x)' <=> InHand(x)
                        /\ InCh(x)' <=> InCh(x)
                        /\ InRun(x)' <=> InRun(x)
                        /\ AtWorker(x)' <=> AtWorker(x)
    BY <1>1 DEF InHand, Evt, HoldsRLock, InBlockWG, InCh, InRun, AtRun, AtWorker
<1>5. PlaceInv'
    BY <1>1, <1>2, <1>3, <1>4 DEF PathInv, PlaceInv, OnePlace
<1>6. NumberInv'
    BY <1>1 DEF PathInv, NumberInv
<1>7. OrderInv'
    BY <1>1, <1>2, <1>4 DEF PathInv, OrderInv, Ascending
<1>. QED
    BY <1>5, <1>6, <1>7 DEF PathInv

LEMMA HandlerPath ==
    ASSUME TypeInv, PathInv, LaunchInv, StageInv, HandlerSide
    PROVE  PathInv'
<1>1. CASE ConsumerTakes
    BY <1>1, ConsumerPath
<1>2. ASSUME NEW e \in spawned, SpawnedStep(e) PROVE PathInv'
    <2>1. CASE SpawnedReturns(e)
        <3>1. /\ UNCHANGED <<opts, pub, ch, runner, workers, launched, started, received, dropped,
                             refused, abandoned>>
              /\ spawned' = spawned \ {e} /\ ~Fresh(e)
            BY <2>1 DEF SpawnedReturns, HandleReturns, closeVars, counters
        <3>2. \A x \in Events : (InRun(x)' <=> InRun(x)) /\ (Fresh(x)' <=> Fresh(x))
            BY <3>1 DEF InRun, AtRun, Fresh
        <3>. QED
            BY <3>1, <3>2, QuietPath
    <2>. QED
        BY <1>2, <2>1, SpawnedInvokesPath DEF SpawnedStep
<1>3. ASSUME NEW e \in running, LateReturn(e) PROVE PathInv'
    <2>1. UNCHANGED <<opts, pub, ch, runner, spawned, workers, launched, started, received, dropped,
                      refused, abandoned>>
        BY <1>3 DEF LateReturn, closeVars, runVars, counters
    <2>2. \A x \in Events : (InRun(x)' <=> InRun(x)) /\ (Fresh(x)' <=> Fresh(x))
        BY <2>1 DEF InRun, AtRun, Fresh
    <2>. QED
        BY <2>1, <2>2, QuietPath
<1>4. ASSUME NEW k \in Publishers, WorkerStep(k) PROVE PathInv'
    <2>1. CASE WorkerInvokes(k)
        BY <2>1, WorkerInvokesPath
    <2>2. CASE WorkerReturns(k) \/ WorkerEnds(k)
        <3>1. /\ UNCHANGED <<opts, pub, ch, runner, spawned, launched, started, received, dropped,
                             refused, abandoned>>
              /\ \A j \in Publishers : workers'[j].q = workers[j].q
            BY <1>4, <2>2, WorkerStepFacts DEF WorkerInvokes, WorkerReturns, WorkerEnds
        <3>2. \A x \in Events : (InRun(x)' <=> InRun(x)) /\ (Fresh(x)' <=> Fresh(x))
            BY <3>1 DEF InRun, AtRun, Fresh
        <3>. QED
            BY <3>1, <3>2, QuietPath
    <2>. QED
        BY <1>4, <2>1, <2>2 DEF WorkerStep
<1>. QED
    BY <1>1, <1>2, <1>3, <1>4, LaunchedInvokesPath DEF HandlerSide

LEMMA ClosePath ==
    ASSUME TypeInv, PathInv, Unsubscribe \/ CloseStep
    PROVE  PathInv'
<1>1. UNCHANGED <<opts, pub, ch, runner, spawned, workers, launched, started, received, dropped, refused,
                  abandoned>>
    BY DEF Unsubscribe, CloseStep, CloseClosing, FlagClosed, WaitBlocked, CloseCh,
           runVars, handlerVars, counters
<1>2. \A x \in Events : (InRun(x)' <=> InRun(x)) /\ (Fresh(x)' <=> Fresh(x))
    BY <1>1 DEF InRun, AtRun, Fresh
<1>. QED
    BY <1>1, <1>2, QuietPath

LEMMA NextPath ==
    ASSUME IInv, PathInv, LaunchInv, StageInv, [Next]_vars
    PROVE  PathInv' /\ StageInv'
<1>1. TypeInv
    BY DEF IInv
<1>2. CASE UNCHANGED vars
    <2>1. UNCHANGED <<opts, close, pub, ch, runner, spawned, workers, exClosed, launched, started, received,
                      dropped, refused, abandoned>>
        BY <1>2 DEF vars
    <2>2. \A x \in Events : (InRun(x)' <=> InRun(x)) /\ (Fresh(x)' <=> Fresh(x))
        BY <2>1 DEF InRun, AtRun, Fresh
    <2>3. PathInv'
        BY <1>1, <2>1, <2>2, QuietPath
    <2>. QED
        BY <2>1, <2>3 DEF StageInv, ModeInv, WorkerInv, Closing
<1>3. CASE Next
    <2>1. PathInv'
        BY <1>1, <1>3, PublisherPath, ClosePath, RunnerPath, HandlerPath DEF Next, HandlerSide
    <2>2. StageInv'
        BY <1>3, PublisherStage, CloseStage, RunnerStage, HandlerStage DEF Next, HandlerSide
    <2>. QED
        BY <2>1, <2>2
<1>. QED
    BY <1>2, <1>3

(***************************************************************************)
(* Handlers that run, SubscribeOnce, and the end.                          *)
(***************************************************************************)
LEMMA ShortQueues ==
    /\ Len(<<>>) = 0
    /\ \A e \in Events : Len(Append(<<>>, e)) = 1
    /\ \A s \in Seq(Events) : Len(s) = 1 => Tail(s) = <<>>
<1>1. <<>> \in Seq(Events) /\ Len(<<>>) = 0
    OBVIOUS
<1>2. \A s \in Seq(Events), e \in Events : Len(Append(s, e)) = Len(s) + 1
    OBVIOUS
<1>3. ASSUME NEW s \in Seq(Events), Len(s) = 1 PROVE Tail(s) = <<>>
    <2>1. s # <<>>
        BY <1>3, EmptySeq
    <2>2. Tail(s) \in Seq(Events) /\ Len(Tail(s)) = 0
        BY <1>3, <2>1
    <2>3. Tail(s) # <<>> => Len(Tail(s)) \in Nat \ {0}
        BY <2>2, EmptySeq
    <2>. QED
        BY <2>2, <2>3
<1>4. \A e \in Events : Len(Append(<<>>, e)) = 1
    BY <1>1, <1>2
<1>. QED
    BY <1>1, <1>3, <1>4

LEMMA BeginLaunch ==
    ASSUME TypeInv, LaunchInv, NEW e \in Events, ~Begun(e), Begin(e), opts' = opts,
           opts.mode # "chan"
    PROVE  LaunchInv'
<1>1. CASE ~opts.timeout
    <2>1. launched' = {}
        BY <1>1, BeginFacts DEF LaunchInv
    <2>. QED
        BY <2>1 DEF LaunchInv
<1>2. CASE opts.timeout
    <2>1. started' = started /\ launched' = launched \cup {e}
        BY <1>2, BeginFacts
    <2>. QED
        BY <1>2, <2>1 DEF LaunchInv, Begun, Called
<1>. QED
    BY <1>1, <1>2

LEMMA NextLaunch ==
    ASSUME IInv, PathInv, StageInv, LaunchInv, [Next]_vars
    PROVE  LaunchInv'
<1>1. TypeInv
    BY DEF IInv
<1>2. CASE UNCHANGED <<opts, launched, started>>
    BY <1>2 DEF LaunchInv, Called
<1>3. CASE UNCHANGED vars \/ Unsubscribe \/ CloseStep
    BY <1>2, <1>3 DEF vars, Unsubscribe, CloseStep, CloseClosing, FlagClosed, WaitBlocked,
        CloseCh, handlerVars
<1>4. ASSUME NEW p \in Publishers, PublisherStep(p) PROVE LaunchInv'
    BY <1>2, <1>4, PublisherFrame
<1>5. CASE RunnerStep
    <2>1. CASE DispatchLocked
        <3>1. /\ Begin(runner.evt) /\ opts' = opts /\ opts.mode # "chan"
              /\ runner.evt \in Events /\ InRun(runner.evt)
            BY <1>1, <2>1 DEF DispatchLocked, closeVars, TypeInv, InRun, AtRun
        <3>2. ~Begun(runner.evt)
            BY <3>1 DEF PathInv, PlaceInv, OnePlace
        <3>. QED
            BY <1>1, <3>1, <3>2, BeginLaunch
    <2>2. CASE ~DispatchLocked
        BY <1>2, <1>5, <2>2 DEF RunnerStep, Receive, ReceiveNoMore, RunnerReturns,
            DispatchConcurrent, DispatchKeyed, OnceCloses, OnceClosed, CloseKeyedChannels,
            CloseDone, HandleReturns, closeVars, handlerVars
    <2>. QED
        BY <2>1, <2>2
<1>6. CASE ConsumerTakes
    <2>1. opts' = opts /\ launched' = {}
        BY <1>6 DEF ConsumerTakes, closeVars, LaunchInv
    <2>. QED
        BY <2>1 DEF LaunchInv
<1>7. ASSUME NEW e \in spawned, SpawnedStep(e) PROVE LaunchInv'
    <2>1. CASE SpawnedInvokes(e)
        <3>1. /\ Begin(e) /\ opts' = opts /\ opts.mode # "chan" /\ e \in Events
            BY <1>1, <2>1 DEF SpawnedInvokes, closeVars, TypeInv, BusTypeOK, StageInv, ModeInv
        <3>2. ~Begun(e)
            BY <2>1 DEF SpawnedInvokes, Fresh, Begun, Called
        <3>. QED
            BY <1>1, <3>1, <3>2, BeginLaunch
    <2>2. CASE SpawnedReturns(e)
        BY <1>2, <2>2 DEF SpawnedReturns, HandleReturns, closeVars
    <2>. QED
        BY <1>7, <2>1, <2>2 DEF SpawnedStep
<1>8. ASSUME NEW e \in launched, LaunchedInvokes(e) PROVE LaunchInv'
    <2>1. opts' = opts /\ launched' = launched \ {e} /\ launched \subseteq Events
        BY <1>1, <1>8 DEF LaunchedInvokes, closeVars, TypeInv, BusTypeOK
    <2>2. \A x \in Events : Called(x)' <=> Called(x) \/ x = e
        BY <1>1, <1>8, LaunchedBegun
    <2>. QED
        BY <2>1, <2>2 DEF LaunchInv
<1>9. ASSUME NEW e \in running, LateReturn(e) PROVE LaunchInv'
    BY <1>2, <1>9 DEF LateReturn, closeVars
<1>10. ASSUME NEW k \in Publishers, WorkerStep(k) PROVE LaunchInv'
    <2>1. CASE WorkerInvokes(k)
        <3>. DEFINE m == Head(workers[k].q)
        <3>1. /\ Begin(m) /\ opts' = opts /\ opts.mode # "chan" /\ m \in Events
              /\ workers[k].q # <<>> /\ workers[k].q \in Seq(Events)
            BY <1>1, <1>10, <2>1, WorkerStepFacts
                DEF WorkerInvokes, WorkerReturns, WorkerEnds, StageInv, ModeInv
        <3>2. m = workers[k].q[1] /\ 1 \in 1..Len(workers[k].q)
            BY <3>1
        <3>3. AtWorker(m)
            BY <3>2 DEF StageInv, WorkerInv, AtWorker, Contains
        <3>4. ~Begun(m)
            BY <3>1, <3>3 DEF PathInv, PlaceInv, OnePlace
        <3>. QED
            BY <1>1, <3>1, <3>4, BeginLaunch
    <2>2. CASE WorkerReturns(k) \/ WorkerEnds(k)
        BY <1>2, <2>2 DEF WorkerReturns, WorkerEnds, HandleReturns, closeVars, handlerVars
    <2>. QED
        BY <1>10, <2>1, <2>2 DEF WorkerStep
<1>. QED
    BY <1>3, <1>4, <1>5, <1>6, <1>7, <1>8, <1>9, <1>10 DEF Next

LEMMA NextRunning ==
    ASSUME IInv, LaunchInv, StageInv, RunningInv, [Next]_vars
    PROVE  RunningInv'
<1>. SUFFICES ASSUME ~opts'.timeout, NEW e \in running' PROVE Attended(e)'
    BY DEF RunningInv
<1>1. TypeInv /\ opts' = opts
    BY DEF IInv, Next, vars, PublisherStep, EnqueueStep, PublishCancelled, Enqueue,
        CheckClosing, Send, Displace, SendDisplaced, EnqueueBlock, Publish, Unsubscribe, CloseStep,
        CloseClosing, FlagClosed, WaitBlocked, CloseCh, RunnerStep, Receive, ReceiveNoMore,
        DispatchLocked, RunnerReturns, DispatchConcurrent, DispatchKeyed, OnceCloses, OnceClosed,
        CloseKeyedChannels, CloseDone, ConsumerTakes, SpawnedStep, SpawnedInvokes, SpawnedReturns,
        LaunchedInvokes, LateReturn, WorkerStep, WorkerInvokes, WorkerReturns, WorkerEnds, closeVars
<1>2. ~opts.timeout /\ (e \in running => Attended(e))
    BY <1>1 DEF RunningInv
<1>. USE DEF Attended, AtRun
<1>3. CASE UNCHANGED <<runner, spawned, workers, running>>
    BY <1>2, <1>3
<1>4. CASE UNCHANGED vars \/ Unsubscribe \/ CloseStep \/ ConsumerTakes
    BY <1>3, <1>4 DEF vars, Unsubscribe, CloseStep, CloseClosing, FlagClosed, WaitBlocked,
        CloseCh, ConsumerTakes, runVars, handlerVars
<1>5. ASSUME NEW p \in Publishers, PublisherStep(p) PROVE Attended(e)'
    BY <1>3, <1>5, PublisherFrame
<1>6. CASE RunnerStep
    <2>1. CASE DispatchLocked
        BY <1>1, <1>2, <2>1 DEF DispatchLocked, Begin, Invoke, TypeInv, BusTypeOK
    <2>2. CASE RunnerReturns
        BY <1>2, <2>2 DEF RunnerReturns, HandleReturns
    <2>3. CASE DispatchKeyed
        <3>1. /\ UNCHANGED <<spawned, running>> /\ runner.pc # "handle"
            BY <2>3 DEF DispatchKeyed, handlerVars
        <3>2. \A j \in Publishers : workers[j].pc = "handle" =>
                  workers'[j].pc = "handle" /\ workers'[j].evt = workers[j].evt
            BY <1>1, <2>3, DispatchKeyedFacts
        <3>. QED
            BY <1>2, <3>1, <3>2
    <2>4. CASE ~DispatchLocked /\ ~RunnerReturns /\ ~DispatchKeyed
        <3>1. /\ UNCHANGED <<workers, running>> /\ spawned \subseteq spawned'
              /\ runner.pc # "handle"
            BY <1>6, <2>4 DEF RunnerStep, Receive, ReceiveNoMore, DispatchConcurrent, OnceCloses,
                OnceClosed, CloseKeyedChannels, CloseDone, handlerVars
        <3>. QED
            BY <1>2, <3>1
    <2>. QED
        BY <2>1, <2>2, <2>3, <2>4
<1>7. ASSUME NEW f \in spawned, SpawnedStep(f) PROVE Attended(e)'
    BY <1>2, <1>7 DEF SpawnedStep, SpawnedInvokes, SpawnedReturns, Begin, Invoke, HandleReturns,
        runVars
<1>8. ASSUME NEW f \in running, LateReturn(f) PROVE Attended(e)'
    BY <1>2, <1>8 DEF LateReturn, runVars
<1>9. ASSUME NEW k \in Publishers, WorkerStep(k) PROVE Attended(e)'
    <2>1. /\ UNCHANGED <<runner, spawned>>
          /\ \A j \in Publishers \ {k} : workers'[j] = workers[j]
        BY <1>1, <1>9, WorkerStepFacts
    <2>2. CASE WorkerInvokes(k)
        <3>1. /\ workers[k].pc = "idle"
              /\ workers'[k].pc = "handle" /\ workers'[k].evt = Head(workers[k].q)
              /\ running' = running \cup {Head(workers[k].q)}
            BY <1>1, <1>2, <1>9, <2>2, WorkerStepFacts
                DEF WorkerInvokes, WorkerReturns, WorkerEnds, Begin, Invoke
        <3>. QED
            BY <1>2, <2>1, <3>1
    <2>3. CASE WorkerReturns(k)
        BY <1>2, <2>1, <2>3 DEF WorkerReturns, HandleReturns
    <2>4. CASE WorkerEnds(k)
        BY <1>2, <2>1, <2>4 DEF WorkerEnds, handlerVars
    <2>. QED
        BY <1>9, <2>2, <2>3, <2>4 DEF WorkerStep
<1>10. ~\E f \in launched : LaunchedInvokes(f)
    BY <1>2 DEF LaunchInv
<1>. QED
    BY <1>4, <1>5, <1>6, <1>7, <1>8, <1>9, <1>10 DEF Next

\* The first event that handle begins with.
LEMMA BeginOnce ==
    ASSUME TypeInv, NoneBegun, NEW e \in Events, Begin(e)
    PROVE  /\ Len(started') <= 1 /\ (launched' # {} => started' = <<>>)
           /\ \A x, y \in launched' : x = y
           /\ Begun(e)'
<1>1. Begun(e)'
    BY BeginFacts
<1>2. CASE ~opts.timeout
    <2>1. started' = Append(<<>>, e) /\ launched' = {}
        BY <1>2, BeginFacts DEF NoneBegun
    <2>2. Len(started') = 1
        BY <2>1
    <2>. QED
        BY <1>1, <2>1, <2>2
<1>3. CASE opts.timeout
    <2>1. started' = <<>> /\ launched' = {e} /\ Len(<<>>) = 0
        BY <1>3, BeginFacts DEF NoneBegun
    <2>2. Len(started') = 0
        BY <2>1
    <2>. QED
        BY <1>1, <2>1, <2>2
<1>. QED
    BY <1>2, <1>3

\* The run goroutine of a SubscribeOnce dispatches one event and never gets
\* back to its channel.
LEMMA RunnerOnce ==
    ASSUME IInv, StageInv, OnceInv, RunnerStep, opts.once
    PROVE  OnceInv'
<1>1. TypeInv
    BY DEF IInv
<1>2. CASE Receive
    BY <1>2 DEF Receive, OnceInv, NoneBegun, AtRun, closeVars, handlerVars
<1>3. CASE DispatchLocked
    <2>1. /\ NoneBegun /\ spawned' = {} /\ runner'.pc = "handle" /\ opts' = opts
          /\ \A k \in Publishers : workers'[k].q = <<>>
          /\ Begin(runner.evt) /\ runner.evt \in Events
        BY <1>1, <1>3 DEF DispatchLocked, OnceInv, NoneBegun, AtRun, closeVars, TypeInv, BusTypeOK
    <2>2. /\ Len(started') <= 1 /\ (launched' # {} => started' = <<>>)
          /\ \A x, y \in launched' : x = y
        BY <1>1, <2>1, BeginOnce
    <2>. QED
        BY <2>1, <2>2 DEF OnceInv
<1>4. CASE DispatchConcurrent
    <2>1. /\ NoneBegun' /\ spawned' = {runner.evt} /\ runner'.pc = "once"
          /\ \A k \in Publishers : workers'[k].q = <<>>
        BY <1>4 DEF DispatchConcurrent, AfterEvent, OnceInv, NoneBegun, AtRun, handlerVars
    <2>2. Len(started') = 0
        BY <2>1 DEF NoneBegun
    <2>. QED
        BY <2>1, <2>2 DEF OnceInv, NoneBegun
<1>5. CASE DispatchKeyed
    <2>. DEFINE k == Key(runner.evt)
    <2>1. /\ NoneBegun' /\ spawned' = {} /\ runner'.pc = "once"
          /\ \A j \in Publishers : workers[j].q = <<>>
        BY <1>5 DEF DispatchKeyed, AfterEvent, OnceInv, NoneBegun, AtRun, handlerVars
    <2>2. /\ k \in Publishers /\ \A j \in Publishers \ {k} : workers'[j].q = <<>>
          /\ \/ workers'[k].q = Append(workers[k].q, runner.evt)
             \/ workers'[k].q = workers[k].q
        BY <1>1, <1>5, <2>1, DispatchKeyedFacts
    <2>3. Len(workers'[k].q) \in {0, 1} /\ (workers'[k].q # <<>> => Len(workers'[k].q) = 1)
        <3>1. Len(<<>>) = 0 /\ Len(Append(<<>>, runner.evt)) = 1
            BY <1>1, <1>5, DispatchKeyedFacts, ShortQueues
        <3>. QED
            BY <2>1, <2>2, <3>1
    <2>4. Len(started') = 0
        BY <2>1 DEF NoneBegun
    <2>. QED
        BY <2>1, <2>2, <2>3, <2>4 DEF OnceInv, NoneBegun
<1>6. CASE ReceiveNoMore \/ RunnerReturns \/ OnceCloses \/ OnceClosed
           \/ CloseKeyedChannels \/ CloseDone
    <2>1. UNCHANGED <<opts, spawned, workers, launched, started>>
        BY <1>6 DEF ReceiveNoMore, RunnerReturns, OnceCloses, OnceClosed, CloseKeyedChannels,
            CloseDone, closeVars, handlerVars, HandleReturns
    <2>2. runner'.pc \notin {"recv", "dispatch", "handle"}
        BY <1>1, <1>6 DEF ReceiveNoMore, RunnerReturns, OnceCloses, OnceClosed,
            CloseKeyedChannels, CloseDone, AfterEvent, TypeInv, BusTypeOK
    <2>. QED
        BY <2>1, <2>2 DEF OnceInv, NoneBegun, Begun, Called
<1>. QED
    BY <1>2, <1>3, <1>4, <1>5, <1>6 DEF RunnerStep

LEMMA HandlerOnce ==
    ASSUME IInv, StageInv, OnceInv, HandlerSide, opts.once
    PROVE  OnceInv'
<1>1. TypeInv /\ opts.mode # "chan" /\ started \in Seq(Events)
    <2>1. TypeInv /\ opts \in Options /\ started \in Seq(Events)
        BY DEF IInv, TypeInv, BusTypeOK
    <2>. QED
        BY <2>1, BusAssumptions, Zenon
<1>2. CASE \E e \in running : LateReturn(e)
    BY <1>2 DEF LateReturn, closeVars, runVars, OnceInv, NoneBegun, Begun, Called
<1>3. ASSUME NEW e \in spawned, SpawnedInvokes(e) PROVE OnceInv'
    <2>1. /\ UNCHANGED <<opts, runner, spawned, workers>> /\ Begin(e)
          /\ Fresh(e)
        BY <1>3 DEF SpawnedInvokes, closeVars, runVars
    <2>2. NoneBegun /\ runner.pc \notin {"recv", "dispatch"}
        BY <2>1 DEF OnceInv, Fresh, Begun, Called
    <2>3. \A k \in Publishers : workers[k].q = <<>>
        BY DEF StageInv, ModeInv, WorkerInv
    <2>4. /\ Len(started') <= 1 /\ (launched' # {} => started' = <<>>)
          /\ \A x, y \in launched' : x = y
          /\ Begun(e)'
        BY <1>1, <2>1, <2>2, BeginOnce DEF TypeInv, BusTypeOK
    <2>5. \A f \in spawned : f = e
        BY DEF OnceInv
    <2>. QED
        BY <2>1, <2>2, <2>3, <2>4, <2>5 DEF OnceInv
<1>4. ASSUME NEW e \in spawned, SpawnedReturns(e) PROVE OnceInv'
    <2>1. UNCHANGED <<opts, runner, launched, started, workers>> /\ spawned' \subseteq spawned
        BY <1>4 DEF SpawnedReturns, HandleReturns, closeVars
    <2>. QED
        BY <2>1 DEF OnceInv, NoneBegun, Begun, Called
<1>5. ASSUME NEW k \in Publishers, WorkerStep(k) PROVE OnceInv'
    <2>1. /\ UNCHANGED <<opts, runner, spawned>>
          /\ \A j \in Publishers \ {k} : workers'[j] = workers[j]
        BY <1>1, <1>5, WorkerStepFacts
    <2>2. CASE WorkerInvokes(k)
        <3>1. /\ workers[k].q # <<>> /\ workers[k].q \in Seq(Events)
              /\ workers'[k].q = Tail(workers[k].q) /\ workers[k].pc = "idle"
              /\ Begin(Head(workers[k].q))
            BY <1>1, <1>5, <2>2, WorkerStepFacts DEF WorkerInvokes, WorkerReturns, WorkerEnds
        <3>2. /\ Len(workers[k].q) = 1 /\ NoneBegun
              /\ \A j \in Publishers \ {k} : workers[j].q = <<>>
              /\ runner.pc \notin {"recv", "dispatch", "handle"}
            BY <3>1 DEF OnceInv
        <3>3. /\ workers'[k].q = <<>> /\ Len(started') <= 1
              /\ launched' # {} => started' = <<>>
              /\ \A x, y \in launched' : x = y
            BY <1>1, <3>1, <3>2, ShortQueues, BeginOnce
        <3>4. spawned = {}
            BY <3>1 DEF StageInv, ModeInv
        <3>. QED
            BY <2>1, <3>2, <3>3, <3>4 DEF OnceInv
    <2>3. CASE WorkerReturns(k) \/ WorkerEnds(k)
        <3>1. /\ UNCHANGED <<launched, started>>
              /\ \A j \in Publishers : workers'[j].q = workers[j].q
            BY <1>1, <1>5, <2>1, <2>3, WorkerStepFacts DEF WorkerInvokes, WorkerReturns, WorkerEnds
        <3>. QED
            BY <2>1, <3>1 DEF OnceInv, NoneBegun, Begun, Called
    <2>. QED
        BY <1>5, <2>2, <2>3 DEF WorkerStep
<1>6. ASSUME NEW e \in launched, LaunchedInvokes(e) PROVE OnceInv'
    <2>1. /\ UNCHANGED <<opts, runner, spawned, workers>> /\ launched' = launched \ {e}
          /\ started' = Append(started, e)
        BY <1>6 DEF LaunchedInvokes, Invoke, closeVars, runVars
    <2>2. /\ started = <<>> /\ launched = {e} /\ ~NoneBegun
          /\ \A f \in spawned : Begun(f)
        BY DEF OnceInv, NoneBegun
    <2>3. launched' = {} /\ Len(started') = 1
        BY <2>1, <2>2
    <2>4. \A x \in Events : Begun(x)' <=> Begun(x)
        BY <1>1, <1>6, LaunchedBegun
    <2>5. spawned \subseteq Events
        BY <1>1 DEF TypeInv, BusTypeOK
    <2>. QED
        BY <2>1, <2>2, <2>3, <2>4, <2>5 DEF OnceInv
<1>. QED
    BY <1>1, <1>2, <1>3, <1>4, <1>5, <1>6 DEF HandlerSide, SpawnedStep, ConsumerTakes

LEMMA NextOnce ==
    ASSUME IInv, StageInv, OnceInv, [Next]_vars
    PROVE  OnceInv'
<1>1. CASE UNCHANGED <<opts, runner, spawned, workers, launched, started>>
    BY <1>1 DEF OnceInv, NoneBegun, Begun, Called
<1>2. CASE UNCHANGED vars \/ Unsubscribe \/ CloseStep
    BY <1>1, <1>2 DEF vars, Unsubscribe, CloseStep, CloseClosing, FlagClosed, WaitBlocked,
        CloseCh, runVars, handlerVars
<1>3. ASSUME NEW p \in Publishers, PublisherStep(p) PROVE OnceInv'
    BY <1>1, <1>3, PublisherFrame
<1>4. CASE RunnerStep \/ HandlerSide
    <2>1. CASE opts.once
        BY <1>4, <2>1, RunnerOnce, HandlerOnce
    <2>2. CASE ~opts.once
        <3>1. opts' = opts
            BY <1>4 DEF RunnerStep, Receive, ReceiveNoMore, DispatchLocked, RunnerReturns,
                DispatchConcurrent, DispatchKeyed, OnceCloses, OnceClosed, CloseKeyedChannels,
                CloseDone, HandlerSide, ConsumerTakes, SpawnedStep, SpawnedInvokes,
                SpawnedReturns, LaunchedInvokes, LateReturn, WorkerStep, WorkerInvokes,
                WorkerReturns, WorkerEnds, closeVars
        <3>. QED
            BY <2>2, <3>1 DEF OnceInv
    <2>. QED
        BY <2>1, <2>2
<1>. QED
    BY <1>2, <1>3, <1>4 DEF Next, HandlerSide

\* Only a publisher with an event in hand writes to the channel.
LEMMA PublisherTouchesCh ==
    ASSUME NEW p \in Publishers, PublisherStep(p), pub[p].pc \notin HandPC
    PROVE  ch' = ch
BY DEF PublisherStep, EnqueueStep, PublishCancelled, Enqueue, CheckClosing, Send, Displace,
       SendDisplaced, EnqueueBlock, Publish, HandPC

LEMMA NextEnd ==
    ASSUME IInv, StageInv, EndInv, [Next]_vars
    PROVE  EndInv'
<1>1. TypeInv
    BY DEF IInv
<1>2. CASE UNCHANGED vars
    BY <1>2 DEF vars, EndInv, ChClosed
<1>3. ASSUME NEW p \in Publishers, PublisherStep(p) PROVE EndInv'
    <2>1. UNCHANGED <<opts, close, done, runner, spawned, workers>>
        BY <1>3, PublisherFrame
    <2>2. ChClosed => pub[p].pc \notin HandPC
        BY DEF IInv, CloseInv, ChClosed, Closed, Unlocked, HoldsRLock, InBlockWG, HandPC
    <2>3. ChClosed => ch' = ch
        BY <1>3, <2>2, PublisherTouchesCh
    <2>. QED
        BY <2>1, <2>3 DEF EndInv, ChClosed
<1>4. CASE Unsubscribe \/ CloseStep
    <2>1. UNCHANGED <<opts, ch, runner, spawned, workers>> /\ (ChClosed => ChClosed')
        BY <1>4 DEF Unsubscribe, CloseStep, CloseClosing, FlagClosed, WaitBlocked, CloseCh,
            CloseGoes, ChClosed, runVars
    <2>2. done' /\ opts.mode # "chan" => done
        BY <1>4, <1>1 DEF Unsubscribe, CloseStep, CloseClosing, FlagClosed, WaitBlocked, CloseCh,
            TypeInv, BusTypeOK
    <2>. QED
        BY <2>1, <2>2 DEF EndInv
<1>5. CASE RunnerStep
    <2>1. opts' = opts /\ (ChClosed => ChClosed') /\ runner.pc # "over"
        BY <1>5 DEF RunnerStep, Receive, ReceiveNoMore, DispatchLocked, RunnerReturns,
            DispatchConcurrent, DispatchKeyed, OnceCloses, OnceClosed, CloseKeyedChannels,
            CloseDone, closeVars, ChClosed, AtRun
    <2>2. ~(done /\ opts.mode # "chan")
        BY <2>1 DEF EndInv
    <2>. USE DEF AtRun, AfterEvent
    <2>3. CASE Receive \/ DispatchLocked \/ RunnerReturns \/ DispatchConcurrent \/ DispatchKeyed
        <3>1. done' = done /\ runner'.pc \notin {"executors", "workers", "over"}
            BY <1>1, <2>3 DEF Receive, DispatchLocked, RunnerReturns, DispatchConcurrent,
                DispatchKeyed, closeVars, TypeInv, BusTypeOK
        <3>. QED
            BY <2>1, <2>2, <3>1 DEF EndInv
    <2>4. CASE ReceiveNoMore
        <3>1. /\ UNCHANGED <<done, ch, spawned, workers>> /\ runner'.pc = "executors"
              /\ ch = <<>> /\ ChClosed
            BY <1>1, <2>4 DEF ReceiveNoMore, closeVars, TypeInv, BusTypeOK
        <3>. QED
            BY <2>1, <2>2, <3>1 DEF EndInv
    <2>5. CASE OnceCloses \/ OnceClosed
        <3>1. done' = done /\ opts.once /\ runner'.pc \in {"closes", "executors"}
            BY <1>1, <2>5 DEF OnceCloses, OnceClosed, closeVars, StageInv, ModeInv, TypeInv,
                BusTypeOK
        <3>. QED
            BY <2>1, <2>2, <3>1 DEF EndInv
    <2>6. CASE CloseKeyedChannels
        <3>1. /\ UNCHANGED <<done, ch, spawned, workers>> /\ runner'.pc = "workers"
              /\ runner.pc = "executors" /\ spawned = {}
            BY <1>1, <2>6 DEF CloseKeyedChannels, closeVars, TypeInv, BusTypeOK
        <3>. QED
            BY <2>1, <2>2, <3>1 DEF EndInv
    <2>7. CASE CloseDone
        <3>1. /\ UNCHANGED <<ch, spawned, workers>> /\ runner'.pc = "over"
              /\ runner.pc = "workers"
              /\ \A k \in Publishers : workers[k].pc \in {"absent", "over"}
            BY <1>1, <2>7 DEF CloseDone, TypeInv, BusTypeOK
        <3>. QED
            BY <2>1, <2>2, <3>1 DEF EndInv
    <2>. QED
        BY <1>5, <2>3, <2>4, <2>5, <2>6, <2>7 DEF RunnerStep
<1>6. CASE ConsumerTakes
    <2>1. UNCHANGED <<opts, close, done, runner, spawned, workers>> /\ runner.pc = "none"
        BY <1>6 DEF ConsumerTakes, closeVars, runVars, StageInv, ModeInv
    <2>. QED
        BY <2>1 DEF EndInv
<1>7. CASE \/ \E e \in spawned : SpawnedStep(e)
           \/ \E e \in launched : LaunchedInvokes(e)
           \/ \E e \in running : LateReturn(e)
    <2>1. UNCHANGED <<opts, close, done, ch, runner, workers>> /\ spawned' \subseteq spawned
        BY <1>7 DEF SpawnedStep, SpawnedInvokes, SpawnedReturns, LaunchedInvokes, LateReturn,
            closeVars, runVars
    <2>. QED
        BY <2>1 DEF EndInv, ChClosed
<1>8. ASSUME NEW k \in Publishers, WorkerStep(k) PROVE EndInv'
    <2>1. /\ UNCHANGED <<opts, close, done, ch, runner, spawned>>
          /\ workers[k].pc \notin {"absent", "over"}
        BY <1>1, <1>8, WorkerStepFacts
    <2>. QED
        BY <2>1 DEF EndInv, ChClosed
<1>. QED
    BY <1>2, <1>3, <1>4, <1>5, <1>6, <1>7, <1>8 DEF Next

(***************************************************************************)
(* The theorems.                                                           *)
(***************************************************************************)
DeliveryInv ==
    IInv /\ PathInv /\ LaunchInv /\ StageInv /\ RunningInv /\ OnceInv /\ EndInv

LEMMA InitDelivery == Init => DeliveryInv
<1>. SUFFICES ASSUME Init PROVE DeliveryInv
    OBVIOUS
<1>1. IInv
    BY InitTypeInv DEF Init, IInv, CloseInv, Closed, Unlocked
<1>2. /\ received = {} /\ dropped = {} /\ refused = {} /\ abandoned = {} /\ running = {}
      /\ spawned = {} /\ launched = {} /\ started = <<>> /\ ch = <<>> /\ done = FALSE /\ exClosed = FALSE
      /\ runner.pc = IF opts.mode = "chan" THEN "none" ELSE "recv"
      /\ \A p \in Publishers : pub[p].pc = "idle"
    BY DEF Init
<1>3. \A k \in Publishers : workers[k].pc = "absent" /\ workers[k].q = <<>>
    BY Zenon DEF Init
<1>4. Len(started) = 0
    BY <1>2
<1>5. PlaceInv
    <2>. SUFFICES ASSUME NEW x \in Events PROVE OnePlace(x)
        BY DEF PlaceInv
    <2>1. ~InHand(x) /\ ~InRun(x) /\ ~Fresh(x)
        BY <1>2, EventParts DEF InHand, HoldsRLock, InBlockWG, InRun, AtRun, Fresh
    <2>2. ~InCh(x) /\ ~Begun(x) /\ ~AtWorker(x)
        BY <1>2, <1>3, EventFacts, EmptyQueue DEF InCh, Begun, Called, AtWorker
    <2>. QED
        BY <1>2, <2>1, <2>2 DEF OnePlace
<1>6. NumberInv
    BY <1>2 DEF NumberInv
<1>7. OrderInv
    <2>1. \A x \in Events : ~InCh(x) /\ ~InRun(x) /\ ~AtWorker(x)
        BY <1>2, <1>3, EventFacts, EmptyQueue DEF InCh, InRun, AtRun, AtWorker
    <2>. QED
        BY <1>2, <1>3, <2>1, AscendingEmpty DEF OrderInv
<1>8. StageInv
    <2>1. \A k \in Publishers : Len(workers[k].q) = 0
        BY <1>3
    <2>. QED
        BY <1>2, <1>3, <2>1 DEF StageInv, ModeInv, WorkerInv
<1>9. LaunchInv /\ RunningInv /\ OnceInv /\ EndInv
    BY <1>2, <1>3, <1>4 DEF LaunchInv, RunningInv, OnceInv, NoneBegun, EndInv
<1>. QED
    BY <1>1, <1>5, <1>6, <1>7, <1>8, <1>9 DEF DeliveryInv, PathInv

LEMMA NextDelivery == DeliveryInv /\ [Next]_vars => DeliveryInv'
BY NextIInv, NextPath, NextLaunch, NextRunning, NextOnce, NextEnd DEF DeliveryInv

\* Exactly one of seven conditions holds.
LEMMA OneOfSeven ==
    ASSUME NEW t,
           t[1] \/ t[2] \/ t[3] \/ t[4] \/ t[5] \/ t[6] \/ t[7],
           t[1] => ~t[2] /\ ~t[3] /\ ~t[4] /\ ~t[5] /\ ~t[6] /\ ~t[7],
           t[2] => ~t[3] /\ ~t[4] /\ ~t[5] /\ ~t[6] /\ ~t[7],
           t[3] => ~t[4] /\ ~t[5] /\ ~t[6] /\ ~t[7],
           t[4] => ~t[5] /\ ~t[6] /\ ~t[7],
           t[5] => ~t[6] /\ ~t[7],
           t[6] => ~t[7]
    PROVE  Cardinality({ i \in 1..7 : t[i] }) = 1
<1>1. PICK n \in 1..7 : t[n] /\ \A i \in 1..7 : i # n => ~t[i]
    <2>1. \A i \in 1..7 : i = 1 \/ i = 2 \/ i = 3 \/ i = 4 \/ i = 5 \/ i = 6 \/ i = 7
        OBVIOUS
    <2>2. CASE t[1]
        <3>1. ~t[2] /\ ~t[3] /\ ~t[4] /\ ~t[5] /\ ~t[6] /\ ~t[7]
            BY <2>2, Zenon
        <3>. QED
            BY <2>1, <2>2, <3>1
    <2>3. CASE t[2]
        <3>1. ~t[1] /\ ~t[3] /\ ~t[4] /\ ~t[5] /\ ~t[6] /\ ~t[7]
            BY <2>3, Zenon
        <3>. QED
            BY <2>1, <2>3, <3>1
    <2>4. CASE t[3]
        <3>1. ~t[1] /\ ~t[2] /\ ~t[4] /\ ~t[5] /\ ~t[6] /\ ~t[7]
            BY <2>4, Zenon
        <3>. QED
            BY <2>1, <2>4, <3>1
    <2>5. CASE t[4]
        <3>1. ~t[1] /\ ~t[2] /\ ~t[3] /\ ~t[5] /\ ~t[6] /\ ~t[7]
            BY <2>5, Zenon
        <3>. QED
            BY <2>1, <2>5, <3>1
    <2>6. CASE t[5]
        <3>1. ~t[1] /\ ~t[2] /\ ~t[3] /\ ~t[4] /\ ~t[6] /\ ~t[7]
            BY <2>6, Zenon
        <3>. QED
            BY <2>1, <2>6, <3>1
    <2>7. CASE t[6]
        <3>1. ~t[1] /\ ~t[2] /\ ~t[3] /\ ~t[4] /\ ~t[5] /\ ~t[7]
            BY <2>7, Zenon
        <3>. QED
            BY <2>1, <2>7, <3>1
    <2>8. CASE t[7]
        <3>1. ~t[1] /\ ~t[2] /\ ~t[3] /\ ~t[4] /\ ~t[5] /\ ~t[6]
            BY <2>8, Zenon
        <3>. QED
            BY <2>1, <2>8, <3>1
    <2>. QED
        BY <2>2, <2>3, <2>4, <2>5, <2>6, <2>7, <2>8, Zenon
<1>2. { i \in 1..7 : t[i] } = {n}
    BY <1>1
<1>. QED
    BY <1>2, FS_Singleton

\* Each event that was counted as received is accounted for in exactly one
\* place, at any moment of any run, and only a Keyed subscription that is
\* being closed loses events that no counter tells of.
THEOREM EventsAreAccounted == Spec => []EveryEventAccounted
<1>1. ASSUME DeliveryInv PROVE EveryEventAccounted
    <2>1. ASSUME NEW e \in received
          PROVE  Cardinality({ i \in 1..7 :
                     <<InHand(e), InQueue(e), e \in launched, Called(e), e \in dropped,
                       e \in refused, e \in abandoned>>[i] }) = 1
        <3>1. e \in Events /\ OnePlace(e)
            BY <1>1 DEF DeliveryInv, IInv, TypeInv, BusTypeOK, PathInv, PlaceInv
        <3>2. InQueue(e) <=> InCh(e) \/ InRun(e) \/ Fresh(e) \/ AtWorker(e)
            BY DEF InQueue, InCh, InRun, AtWorker
        <3>3. /\ ~(Fresh(e) /\ Begun(e)) /\ ~(e \in launched /\ Called(e))
              /\ Begun(e) <=> e \in launched \/ Called(e)
            BY <1>1 DEF Fresh, Begun, Called, DeliveryInv, LaunchInv
        <3>4. InHand(e) \in BOOLEAN /\ InQueue(e) \in BOOLEAN /\ Called(e) \in BOOLEAN
            BY DEF InHand, InQueue, Called, Contains
        <3>5. \/ InHand(e) \/ InQueue(e) \/ e \in launched \/ Called(e) \/ e \in dropped
              \/ e \in refused \/ e \in abandoned
            BY <3>1, <3>2, <3>3 DEF OnePlace
        <3>6. /\ InHand(e) => /\ ~InQueue(e) /\ ~(e \in launched) /\ ~Called(e)
                              /\ ~(e \in dropped) /\ ~(e \in refused) /\ ~(e \in abandoned)
              /\ InQueue(e) => /\ ~(e \in launched) /\ ~Called(e) /\ ~(e \in dropped)
                               /\ ~(e \in refused) /\ ~(e \in abandoned)
              /\ e \in launched => /\ ~Called(e) /\ ~(e \in dropped) /\ ~(e \in refused)
                                   /\ ~(e \in abandoned)
              /\ Called(e) => ~(e \in dropped) /\ ~(e \in refused) /\ ~(e \in abandoned)
              /\ e \in dropped => ~(e \in refused) /\ ~(e \in abandoned)
              /\ e \in refused => ~(e \in abandoned)
            BY <3>1, <3>2, <3>3 DEF OnePlace
        <3>. DEFINE t == <<InHand(e), InQueue(e), e \in launched, Called(e), e \in dropped,
                           e \in refused, e \in abandoned>>
        <3>7. /\ t[1] = InHand(e) /\ t[2] = InQueue(e) /\ t[3] = (e \in launched)
              /\ t[4] = Called(e) /\ t[5] = (e \in dropped) /\ t[6] = (e \in refused)
              /\ t[7] = (e \in abandoned)
            BY <3>4
        <3>. HIDE DEF t
        <3>8. /\ t[1] \/ t[2] \/ t[3] \/ t[4] \/ t[5] \/ t[6] \/ t[7]
              /\ t[1] => ~t[2] /\ ~t[3] /\ ~t[4] /\ ~t[5] /\ ~t[6] /\ ~t[7]
              /\ t[2] => ~t[3] /\ ~t[4] /\ ~t[5] /\ ~t[6] /\ ~t[7]
              /\ t[3] => ~t[4] /\ ~t[5] /\ ~t[6] /\ ~t[7]
              /\ t[4] => ~t[5] /\ ~t[6] /\ ~t[7]
              /\ t[5] => ~t[6] /\ ~t[7]
              /\ t[6] => ~t[7]
            BY <3>5, <3>6, <3>7, Zenon
        <3>9. Cardinality({ i \in 1..7 : t[i] }) = 1
            BY <3>8, OneOfSeven, Zenon
        <3>. QED
            BY <3>9 DEF t
    <2>2. abandoned # {} => opts.mode = "keyed" /\ Closing
        BY <1>1 DEF DeliveryInv, StageInv, ModeInv
    <2>. QED
        BY <2>1, <2>2 DEF EveryEventAccounted
<1>. QED
    BY <1>1, InitDelivery, NextDelivery, PTL DEF Spec

\* Handlers are begun with for a publisher's events in the order of
\* publication and, without a timeout, called in that order and one at a time
\* per key, whatever is displaced, dropped or abandoned on the way.
THEOREM EventsStayInOrder == Spec => []InOrder
<1>1. ASSUME DeliveryInv PROVE InOrder
    <2>. SUFFICES ASSUME opts.mode # "concurrent"
                  PROVE  /\ \A e, f \in received :
                                e[1] = f[1] /\ e[2] < f[2] /\ Begun(f) => ~InQueue(e)
                         /\ ~opts.timeout =>
                                /\ \A i, j \in DOMAIN started :
                                       i < j /\ started[i][1] = started[j][1]
                                           => started[i][2] < started[j][2]
                                /\ \A e, f \in running :
                                       e # f => opts.mode = "keyed" /\ Key(e) # Key(f)
        BY DEF InOrder
    <2>3. ASSUME NEW e \in received, NEW f \in received, e[1] = f[1], e[2] < f[2], Begun(f)
          PROVE  ~InQueue(e)
        <3>1. e \in Events /\ f \in Events
            BY <1>1 DEF DeliveryInv, IInv, TypeInv, BusTypeOK
        <3>2. AtWorker(e) \/ InRun(e) \/ InCh(e) => f[2] < e[2]
            BY <1>1, <2>3, <3>1 DEF DeliveryInv, PathInv, OrderInv
        <3>3. e[2] \in Nat /\ f[2] \in Nat
            BY <3>1, EventParts
        <3>4. ~Fresh(e)
            BY <1>1 DEF DeliveryInv, StageInv, ModeInv, Fresh
        <3>. QED
            BY <2>3, <3>2, <3>3, <3>4 DEF InQueue, AtWorker, InRun, InCh
    <2>1. (~opts.timeout => Ascending(started)) /\ DOMAIN started = 1..Len(started)
        BY <1>1 DEF DeliveryInv, PathInv, OrderInv, IInv, TypeInv, BusTypeOK
    <2>2. ASSUME ~opts.timeout, NEW e \in running, NEW f \in running, e # f
          PROVE  opts.mode = "keyed" /\ Key(e) # Key(f)
        <3>1. Attended(e) /\ Attended(f) /\ StageInv
            BY <1>1, <2>2 DEF DeliveryInv, RunningInv
        <3>2. e \notin spawned /\ f \notin spawned
            BY <3>1 DEF StageInv, ModeInv
        <3>3. CASE AtRun("handle")
            <4>1. \A k \in Publishers : workers[k].pc # "handle"
                BY <3>1, <3>3 DEF StageInv, ModeInv, AtRun
            <4>. QED
                BY <2>2, <3>1, <3>2, <4>1 DEF Attended
        <3>4. CASE ~AtRun("handle")
            <4>1. PICK k \in Publishers : workers[k].pc = "handle" /\ workers[k].evt = e
                BY <3>1, <3>2, <3>4 DEF Attended
            <4>2. PICK j \in Publishers : workers[j].pc = "handle" /\ workers[j].evt = f
                BY <3>1, <3>2, <3>4 DEF Attended
            <4>3. Key(e) = k /\ Key(f) = j /\ opts.mode = "keyed"
                BY <3>1, <4>1, <4>2 DEF StageInv, ModeInv, WorkerInv
            <4>. QED
                BY <2>2, <4>1, <4>2, <4>3
        <3>. QED
            BY <3>3, <3>4
    <2>. QED
        BY <2>1, <2>2, <2>3 DEF Ascending
<1>. QED
    BY <1>1, InitDelivery, NextDelivery, PTL DEF Spec

\* The handler of a SubscribeOnce is called once at most, however many events
\* reach its channel and whoever closes it.
THEOREM OnceIsOnce == Spec => []OnceCallsOnce
<1>1. DeliveryInv => OnceCallsOnce
    BY DEF DeliveryInv, OnceInv, OnceCallsOnce
<1>. QED
    BY <1>1, InitDelivery, NextDelivery, PTL DEF Spec

\* After Done is closed no handler is begun with and nothing waits that was
\* not left by a SubscribeOnce; without a timeout no handler is called or runs.
THEOREM NothingAfterDone == Spec => DoneIsTheEnd
<1>. DEFINE A == done /\ opts.mode # "chan" =>
                     /\ \A e \in received' : Begun(e)' => Begun(e)
                     /\ ~opts.timeout => running = {} /\ started' = started
                     /\ ~opts.once => \A e \in received : ~InQueue(e)
<1>1. ASSUME DeliveryInv, [Next]_vars PROVE [A]_vars
    <2>. SUFFICES ASSUME Next, done, opts.mode # "chan"
                  PROVE  /\ \A e \in received' : Begun(e)' => Begun(e)
                         /\ ~opts.timeout => running = {} /\ started' = started
                         /\ ~opts.once => \A e \in received : ~InQueue(e)
        BY <1>1
    <2>1. /\ TypeInv /\ TypeInv' /\ LaunchInv /\ StageInv /\ RunningInv /\ runner.pc = "over" /\ spawned = {}
          /\ \A k \in Publishers : workers[k].pc \in {"absent", "over"}
          /\ ~opts.once => ch = <<>>
        BY <1>1, NextTypeInv DEF DeliveryInv, IInv, EndInv
    <2>2. UNCHANGED <<launched, started>> \/ \E e \in launched : LaunchedInvokes(e)
        <3>1. ASSUME NEW p \in Publishers, PublisherStep(p)
              PROVE  UNCHANGED <<launched, started>>
            BY <3>1, PublisherFrame
        <3>2. CASE Unsubscribe \/ CloseStep
            BY <3>2 DEF Unsubscribe, CloseStep, CloseClosing, FlagClosed, WaitBlocked, CloseCh,
                handlerVars
        <3>3. ~RunnerStep
            BY <2>1 DEF RunnerStep, Receive, ReceiveNoMore, DispatchLocked, RunnerReturns,
                DispatchConcurrent, DispatchKeyed, OnceCloses, OnceClosed, CloseKeyedChannels,
                CloseDone, AtRun
        <3>4. ASSUME NEW k \in Publishers PROVE ~WorkerStep(k)
            BY <2>1 DEF WorkerStep, WorkerInvokes, WorkerReturns, WorkerEnds
        <3>. QED
            BY <2>1, <3>1, <3>2, <3>3, <3>4 DEF Next, ConsumerTakes, LateReturn
    <2>6. ~opts.timeout => started' = started
        BY <2>1, <2>2 DEF LaunchInv
    <2>7. ASSUME NEW e \in received', Begun(e)' PROVE Begun(e)
        <3>1. e \in Events
            BY <2>1 DEF TypeInv, BusTypeOK
        <3>2. CASE UNCHANGED <<launched, started>>
            BY <2>7, <3>2 DEF Begun, Called
        <3>3. CASE \E f \in launched : LaunchedInvokes(f)
            BY <2>1, <2>7, <3>1, <3>3, LaunchedBegun
        <3>. QED
            BY <2>2, <3>2, <3>3
    <2>3. \A e : ~Attended(e)
        BY <2>1 DEF Attended, AtRun
    <2>4. ~opts.timeout => running = {}
        BY <2>1, <2>3 DEF RunningInv
    <2>5. ASSUME ~opts.once, NEW e \in received PROVE ~InQueue(e)
        <3>1. e \in Events /\ Key(e) \in Publishers
            BY <2>1, EventFacts DEF TypeInv, BusTypeOK
        <3>2. workers[Key(e)].q = <<>>
            BY <2>1, <3>1 DEF StageInv, WorkerInv
        <3>. QED
            BY <2>1, <2>5, <3>2, EmptyQueue DEF InQueue, AtRun, Fresh
    <2>. QED
        BY <2>4, <2>5, <2>6, <2>7
<1>. QED
    BY <1>1, InitDelivery, NextDelivery, PTL DEF Spec, DoneIsTheEnd
===============================================================================
