--------------------------- MODULE EconSettleProofs ---------------------------
(***************************************************************************)
(* Proofs about the web3 close-out, for every set of charges and of        *)
(* driving goroutines, any number of records, payments, crashes and        *)
(* disputes, and for both kinds of signer.  The first part is about the    *)
(* behaviours of the program up to the first drive that starts from a      *)
(* record the journal has left behind: from then on a record may be paid   *)
(* twice.  The second part is about whole behaviours, whatever is driven;  *)
(* and at the end: with one goroutine nothing stale is ever driven.        *)
(***************************************************************************)
EXTENDS EconSettle, TLAPS, FiniteSetTheorems, SequenceTheorems

Last == journal[Len(journal)]

Closed(e, t) == receivable[e].st = "settled" /\ receivable[e].tx = t

\* No earlier close-out that was brought to its end covers a charge of j.
Disjoint(j) ==
    \A i \in DOMAIN journal :
        i < j /\ journal[i].state = "settled" => journal[i].covers \cap journal[j].covers = {}

(* Records are numbered by their cutoffs, only the last may be live, and   *)
(* the pending id or the hash a record holds is that of a payment for it.  *)
Sound(r) ==
    /\ r.attempts <= MaxAttempts
    /\ ~Terminal(r) => r.attempts < MaxAttempts
    /\ r.state \in {"offered", "paying", "awaiting_approval"} => r.tx = 0
    /\ r.state \in {"broadcast", "settled"} => r.tx # 0
    /\ r.state = "offered" => r.pending = 0
    /\ r.state = "awaiting_approval" => r.pending # 0
    /\ mode = "wallet" => r.pending = 0
    /\ mode = "approval" => r.tx \in {0, r.pending}

Names(r, t) == t # 0 /\ t \in {r.pending, r.tx}

RecordOK(i) ==
    /\ journal[i].cutoff = i
    /\ i < Len(journal) => Terminal(journal[i])
    /\ Sound(journal[i])
    /\ \A t \in Nat : Names(journal[i], t) => t \in DOMAIN transfers /\ transfers[t].offer = i

JournalOK ==
    /\ clock = Len(journal) + 1
    /\ \A i \in DOMAIN journal : RecordOK(i)

(* A payment is made for a record, covers what the record covers, and has  *)
(* left the node only if the record names it.                              *)
TransfersOK ==
    /\ \A t \in DOMAIN transfers :
          /\ transfers[t].offer \in DOMAIN journal
          /\ transfers[t].covers = journal[transfers[t].offer].covers
          /\ Submitted(t) => t \in {journal[transfers[t].offer].pending,
                                    journal[transfers[t].offer].tx}
          /\ Disjoint(transfers[t].offer)
          /\ transfers[t].executor # "none" => transfers[t].entry = "approved"
    /\ \A t, u \in DOMAIN transfers : t < u => transfers[t].offer <= transfers[u].offer

(* A goroutine that has the drive lock holds what the journal holds; after *)
(* it minted a pending id, all but that id.                                *)
Drives(d) ==
    LET g == driver[d] IN
    /\ Len(journal) > 0 /\ ~Terminal(Last)
    /\ IF g.pc \in {"queue", "queued"}
       THEN /\ Last = [g.rec EXCEPT !.pending = g.tx]
            /\ g.tx # 0 /\ g.rec.state = "paying" /\ mode = "approval"
       ELSE Last = g.rec
    /\ g.pc \in {"calling", "answered"} => g.rec.state \in {"offered", "broadcast"}
    /\ g.pc = "signed" => /\ g.rec.state = "paying" /\ mode = "wallet"
                          /\ g.tx \in DOMAIN transfers
                          /\ transfers[g.tx].offer = Len(journal)
    /\ g.pc \in {"acked", "settling"} => g.rec.state = "broadcast"
    /\ \/ g.pc \in {"acked", "settling"}
       \/ g.pc = "answered" /\ g.rec.state = "broadcast" /\ g.resp = "ack"
       => \A e \in g.rec.covers : Closed(e, g.rec.tx)
    /\ g.pc = "answered" /\ g.rec.state = "offered" /\ g.resp = "awaiting_tx"
       => Disjoint(Len(journal))

LockOK ==
    /\ \A d, f \in Drivers : driver[d].pc \notin Unlocked /\ driver[f].pc \notin Unlocked => d = f
    /\ \A d \in Drivers : driver[d].pc \notin Unlocked => Drives(d)

(* The payee's rows, the ended records and the payer's rows, in the order  *)
(* in which they are closed.                                               *)
BooksOK ==
    /\ \A e \in Entries : receivable[e].st = "settled" =>
          /\ receivable[e].tx \in DOMAIN transfers
          /\ transfers[receivable[e].tx].state = "mined"
          /\ e \in transfers[receivable[e].tx].covers
    /\ \A i \in DOMAIN journal : journal[i].state = "settled" =>
          \A e \in journal[i].covers : Closed(e, journal[i].tx)
    /\ \A e \in Entries : payable[e].st = "settled" =>
          /\ payable[e].tx \in DOMAIN transfers
          /\ e \in transfers[payable[e].tx].covers => Closed(e, payable[e].tx)
    /\ \A j \in DOMAIN journal :
          journal[j].state \in {"paying", "awaiting_approval", "broadcast", "settled"} => Disjoint(j)

(* A request is about the record of the goroutine that waits for it.       *)
RequestsOK ==
    /\ \A q \in requests :
          /\ q.phase = 1 => q.pc = "received" /\ q.caller # Nobody
          /\ q.phase = 2 => q.tx \in DOMAIN transfers /\ q.covers = transfers[q.tx].covers
          /\ q.caller # Nobody =>
                LET g == driver[q.caller] IN
                /\ g.pc = "calling" /\ q.covers = g.rec.covers
                /\ q.phase = 1 => g.rec.state = "offered"
                /\ q.phase = 2 => g.rec.state = "broadcast" /\ q.tx = g.rec.tx
    /\ \A q, r \in requests : q.caller = r.caller /\ q.caller # Nobody => q = r

JournalTypeOK == journal \in Seq(RecordType) /\ Len(journal) <= MaxRecords

TransfersTypeOK == transfers \in Seq(Payment) /\ Len(transfers) <= MaxTransfers

TypesOK ==
    /\ mode \in Modes /\ LedgersTypeOK /\ JournalTypeOK /\ TransfersTypeOK
    /\ driver \in [Drivers -> Goroutine]
    /\ requests \subseteq Request
    /\ crashes \in 0..MaxCrashes /\ disputes \in 0..MaxDisputes

IInv ==
    /\ TypesOK
    /\ JournalOK
    /\ TransfersOK
    /\ LockOK
    /\ BooksOK
    /\ RequestsOK

-----------------------------------------------------------------------------
(* The journal: only its last record may be live.                          *)
LEMMA Sequences ==
    ASSUME IInv
    PROVE  /\ Len(journal) \in Nat /\ DOMAIN journal = 1..Len(journal)
           /\ \A i \in DOMAIN journal : journal[i] \in RecordType
           /\ Len(transfers) \in Nat /\ DOMAIN transfers = 1..Len(transfers)
           /\ \A t \in DOMAIN transfers : transfers[t] \in Payment
BY ElementOfSeq, LenProperties DEF IInv, TypesOK, JournalTypeOK, TransfersTypeOK

LEMMA LiveIsLast ==
    ASSUME IInv
    PROVE  /\ LiveAt \subseteq {Len(journal)}
           /\ LiveAt # {} => /\ Len(journal) \in DOMAIN journal /\ ~Terminal(Last)
                             /\ LiveAt = {Len(journal)} /\ LiveRec = Last /\ Last \in RecordType
           /\ Len(journal) > 0 /\ ~Terminal(Last) => LiveAt # {}
<1>1. /\ Len(journal) \in Nat /\ DOMAIN journal = 1..Len(journal)
      /\ \A i \in DOMAIN journal : journal[i] \in RecordType
  BY Sequences
<1>2. LiveAt \subseteq {Len(journal)}
  BY <1>1 DEF IInv, JournalOK, RecordOK, LiveAt
<1>3. LiveAt # {} => LiveAt = {Len(journal)}
  BY <1>2
<1>4. LiveAt = {Len(journal)} => LiveRec = Last
  BY DEF LiveRec, Last
<1> QED
  BY <1>1, <1>2, <1>3, <1>4 DEF LiveAt, Last

LEMMA OpenedOK ==
    ASSUME IInv, NEW d \in Drivers, Len(journal) < MaxRecords
    PROVE  NewRecord(driver[d].view, driver[d].read) \in RecordType
<1>1. clock \in Nat
  BY Sequences DEF IInv, JournalOK
<1>2. driver[d].view \in SUBSET Entries /\ driver[d].read \in Nat
  BY DEF IInv, TypesOK, Goroutine
<1> QED
  BY <1>1, <1>2, SettleAssumptions DEF NewRecord, RecordType, JournalState

\* A goroutine past the lock finds its record live.
LEMMA HasLive ==
    ASSUME IInv, NEW d \in Drivers, driver[d].pc \notin Unlocked
    PROVE  /\ LiveAt = {Len(journal)} /\ LiveRec = Last /\ Last \in RecordType
           /\ Len(journal) \in DOMAIN journal /\ ~Terminal(Last)
           /\ Drives(d)
BY LiveIsLast DEF IInv, LockOK, Drives

LEMMA Patched ==
    ASSUME IInv, LiveAt # {}, NEW r \in RecordType, Update(r)
    PROVE  /\ journal' = [journal EXCEPT ![Len(journal)] = r]
           /\ journal' \in Seq(RecordType) /\ Len(journal') = Len(journal)
           /\ DOMAIN journal' = DOMAIN journal
           /\ journal'[Len(journal)] = r
           /\ \A i \in DOMAIN journal : i # Len(journal) => journal'[i] = journal[i]
<1>1. /\ LiveAt = {Len(journal)} /\ Len(journal) \in DOMAIN journal
      /\ journal \in Seq(RecordType) /\ DOMAIN journal = 1..Len(journal)
  BY LiveIsLast, Sequences DEF IInv, TypesOK, JournalTypeOK
<1>2. journal' = [journal EXCEPT ![Len(journal)] = r]
  BY <1>1 DEF Update
<1>3. journal' \in Seq(RecordType) /\ Len(journal') = Len(journal)
  BY <1>1, <1>2, ExceptSeq
<1> QED
  BY <1>1, <1>2, <1>3

-----------------------------------------------------------------------------
(* What a step may do: to the record that is being driven, to the journal, *)
(* to the payments, to the two ledgers.                                    *)
PaidState == {"paying", "awaiting_approval", "broadcast", "settled"}

RecordMoves(r) ==
    /\ Len(journal) > 0 /\ ~Terminal(Last)
    /\ r \in RecordType /\ Sound(r)
    /\ r.covers = Last.covers /\ r.read = Last.read /\ r.cutoff = Last.cutoff
    /\ Last.pending \in {0, r.pending} /\ Last.tx \in {0, r.tx}
    /\ \A t \in Nat : Names(r, t) => t \in DOMAIN transfers' /\ transfers'[t].offer = Len(journal)
    /\ r.state = "settled" => \A e \in r.covers : Closed(e, r.tx)
    /\ r.state \in PaidState => Disjoint(Len(journal))
    /\ journal' = [journal EXCEPT ![Len(journal)] = r] /\ clock' = clock

Opens(d) ==
    /\ driver[d].pc = "building" /\ LiveAt = {} /\ Len(journal) < MaxRecords
    /\ journal' = Append(journal, NewRecord(driver[d].view, driver[d].read))
    /\ clock' = clock + 1

JournalStep ==
    \/ journal' = journal /\ clock' = clock
    \/ \E d \in Drivers : Opens(d)
    \/ \E r \in RecordType : RecordMoves(r)

Pays(p) ==
    /\ Len(journal) > 0 /\ ~Terminal(Last) /\ Disjoint(Len(journal))
    /\ Len(transfers) < MaxTransfers
    /\ p.offer = Len(journal) /\ p.covers = Last.covers
    /\ p.state = "made" /\ p.entry = "none" /\ p.executor = "none"
    /\ transfers' = Append(transfers, p)

PaymentMoves(t, p) ==
    /\ p.offer = transfers[t].offer /\ p.covers = transfers[t].covers
    /\ transfers' = [transfers EXCEPT ![t] = p]
    /\ transfers[t].state = "mined" => p.state = "mined"
    /\ p.executor # "none" => p.entry = "approved"
    /\ \/ p.state = "made" /\ p.entry \notin {"pending", "approved"}
       \/ Submitted(t)
       \/ t \in {journal[transfers[t].offer].pending, journal[transfers[t].offer].tx}

TransfersStep ==
    \/ transfers' = transfers
    \/ \E p \in Payment : Pays(p)
    \/ \E t \in DOMAIN transfers : \E p \in Payment : PaymentMoves(t, p)

PayableStep ==
    \A e \in Entries :
        \/ payable'[e] = payable[e]
        \/ /\ payable[e].st # "settled"
           /\ payable'[e].st = "settled" =>
                 /\ payable'[e].tx \in DOMAIN transfers
                 /\ e \in transfers[payable'[e].tx].covers => Closed(e, payable'[e].tx)

ReceivableStep ==
    \A e \in Entries :
        \/ receivable'[e] = receivable[e]
        \/ /\ receivable[e].st # "settled"
           /\ receivable'[e].st = "settled" =>
                 /\ receivable'[e].tx \in DOMAIN transfers
                 /\ transfers[receivable'[e].tx].state = "mined"
                 /\ e \in transfers[receivable'[e].tx].covers

\* The payments made so far stay, and so does what they were made for.
LEMMA PaymentsKept ==
    ASSUME IInv, TransfersStep
    PROVE  /\ TransfersTypeOK'
           /\ DOMAIN transfers \subseteq DOMAIN transfers'
           /\ \A t \in DOMAIN transfers :
                 /\ transfers'[t].offer = transfers[t].offer
                 /\ transfers'[t].covers = transfers[t].covers
                 /\ transfers[t].state = "mined" => transfers'[t].state = "mined"
<1>1. /\ transfers \in Seq(Payment) /\ Len(transfers) \in Nat /\ Len(transfers) <= MaxTransfers
      /\ DOMAIN transfers = 1..Len(transfers)
      /\ \A t \in DOMAIN transfers : transfers[t] \in Payment
  BY Sequences DEF IInv, TypesOK, TransfersTypeOK
<1>2. CASE transfers' = transfers
  BY <1>1, <1>2 DEF TransfersTypeOK
<1>3. ASSUME NEW p \in Payment, Pays(p)
      PROVE  TransfersTypeOK' /\ \A t \in DOMAIN transfers : t \in DOMAIN transfers' /\ transfers'[t] = transfers[t]
  <2>1. /\ transfers' \in Seq(Payment) /\ Len(transfers') = Len(transfers) + 1
        /\ DOMAIN transfers' = 1..Len(transfers) + 1
        /\ \A t \in 1..Len(transfers) : transfers'[t] = transfers[t]
    BY <1>1, <1>3, AppendProperties DEF Pays
  <2>2. Len(transfers) + 1 <= MaxTransfers
    BY <1>1, <1>3, SettleAssumptions DEF Pays
  <2> QED
    BY <1>1, <2>1, <2>2 DEF TransfersTypeOK
<1>4. ASSUME NEW t \in DOMAIN transfers, NEW p \in Payment, PaymentMoves(t, p)
      PROVE  /\ TransfersTypeOK' /\ DOMAIN transfers' = DOMAIN transfers
             /\ transfers'[t] = p /\ \A u \in DOMAIN transfers : u # t => transfers'[u] = transfers[u]
             /\ p.offer = transfers[t].offer /\ p.covers = transfers[t].covers
             /\ transfers[t].state = "mined" => p.state = "mined"
  BY <1>1, <1>4, ExceptSeq DEF PaymentMoves, TransfersTypeOK
<1> QED
  BY <1>2, <1>3, <1>4 DEF TransfersStep

\* So does what the records were opened for; all but the last stay as they are.
LEMMA RecordsKept ==
    ASSUME IInv, JournalStep
    PROVE  /\ JournalTypeOK'
           /\ Len(journal') \in {Len(journal), Len(journal) + 1}
           /\ DOMAIN journal' = 1..Len(journal')
           /\ \A i \in DOMAIN journal :
                 /\ i \in DOMAIN journal' /\ journal'[i].covers = journal[i].covers
                 /\ journal'[i].read = journal[i].read
                 /\ Terminal(journal[i]) => journal'[i] = journal[i]
                 /\ i < Len(journal) => journal'[i] = journal[i]
                 /\ journal[i].pending \in {0, journal'[i].pending}
                 /\ journal[i].tx \in {0, journal'[i].tx}
<1>1. /\ journal \in Seq(RecordType) /\ Len(journal) \in Nat /\ Len(journal) <= MaxRecords
      /\ clock = Len(journal) + 1
      /\ DOMAIN journal = 1..Len(journal)
      /\ \A i \in DOMAIN journal : journal[i] \in RecordType
  BY Sequences DEF IInv, TypesOK, JournalTypeOK, JournalOK
<1>2. CASE journal' = journal /\ clock' = clock
  BY <1>1, <1>2 DEF JournalTypeOK
<1>3. ASSUME NEW d \in Drivers, Opens(d)
      PROVE  /\ JournalTypeOK' /\ Len(journal') = Len(journal) + 1 /\ DOMAIN journal' = 1..Len(journal')
             /\ \A i \in DOMAIN journal : i \in DOMAIN journal' /\ journal'[i] = journal[i]
  <2> DEFINE new == NewRecord(driver[d].view, driver[d].read)
  <2>1. new \in RecordType
    BY <1>3, OpenedOK DEF Opens
  <2>2. /\ journal' \in Seq(RecordType) /\ Len(journal') = Len(journal) + 1
        /\ DOMAIN journal' = 1..Len(journal) + 1
        /\ \A i \in 1..Len(journal) : journal'[i] = journal[i]
    BY <1>1, <1>3, <2>1, AppendProperties DEF Opens
  <2>3. Len(journal) + 1 <= MaxRecords
    BY <1>1, <1>3, SettleAssumptions DEF Opens
  <2> QED
    BY <1>1, <2>2, <2>3 DEF JournalTypeOK
<1>4. ASSUME NEW r \in RecordType, RecordMoves(r)
      PROVE  /\ JournalTypeOK' /\ Len(journal') = Len(journal) /\ DOMAIN journal' = DOMAIN journal
             /\ journal'[Len(journal)] = r
             /\ \A i \in DOMAIN journal : i # Len(journal) => journal'[i] = journal[i]
             /\ ~Terminal(journal[Len(journal)])
             /\ r.covers = Last.covers /\ r.read = Last.read
             /\ Last.pending \in {0, r.pending} /\ Last.tx \in {0, r.tx}
  <2>1. Len(journal) \in DOMAIN journal
    BY <1>1, <1>4 DEF RecordMoves
  <2> QED
    BY <1>1, <1>4, <2>1, ExceptSeq DEF RecordMoves, JournalTypeOK, Last
<1> QED
  BY <1>1, <1>2, <1>3, <1>4 DEF JournalStep, Last

LEMMA DisjointKept ==
    ASSUME IInv, JournalStep, NEW j \in DOMAIN journal, Disjoint(j)
    PROVE  Disjoint(j)'
<1>1. DOMAIN journal = 1..Len(journal) /\ Len(journal) \in Nat
  BY Sequences
<1>2. /\ \A i \in DOMAIN journal : i < Len(journal) => journal'[i] = journal[i]
      /\ \A i \in DOMAIN journal : journal'[i].covers = journal[i].covers
      /\ DOMAIN journal' = 1..Len(journal')
  BY RecordsKept
<1>3. ASSUME NEW i \in DOMAIN journal', i < j, journal'[i].state = "settled"
      PROVE  journal'[i].covers \cap journal'[j].covers = {}
  <2>1. i \in DOMAIN journal /\ i < Len(journal)
    BY <1>1, <1>2, <1>3
  <2> QED
    BY <1>2, <1>3, <2>1 DEF Disjoint
<1> QED
  BY <1>3 DEF Disjoint

LEMMA JournalPreserved ==
    ASSUME IInv, JournalStep, TransfersStep, mode' = mode
    PROVE  JournalOK'
<1>1. /\ Len(journal) \in Nat /\ DOMAIN journal = 1..Len(journal)
      /\ journal \in Seq(RecordType) /\ clock = Len(journal) + 1
      /\ \A i \in DOMAIN journal : journal[i] \in RecordType /\ RecordOK(i)
  BY Sequences DEF IInv, JournalOK, TypesOK, JournalTypeOK
<1>2. \A t \in DOMAIN transfers : t \in DOMAIN transfers' /\ transfers'[t].offer = transfers[t].offer
  BY PaymentsKept
<1>3. ASSUME NEW i \in DOMAIN journal, journal'[i] = journal[i],
             i = Len(journal) /\ ~Terminal(journal[i]) => Len(journal') = Len(journal),
             Len(journal') \in {Len(journal), Len(journal) + 1}
      PROVE  RecordOK(i)'
  <2>1. RecordOK(i)
    BY <1>1
  <2>2. Sound(journal[i])'
    BY <1>3, <2>1 DEF RecordOK, Sound, Terminal
  <2>3. \A t \in Nat : Names(journal'[i], t) => t \in DOMAIN transfers' /\ transfers'[t].offer = i
    BY <1>2, <1>3, <2>1 DEF RecordOK, Names
  <2>4. i < Len(journal') => Terminal(journal'[i])
    BY <1>1, <1>3, <2>1 DEF RecordOK
  <2> QED
    BY <1>3, <2>1, <2>2, <2>3, <2>4 DEF RecordOK, Names, Terminal
<1>4. CASE journal' = journal /\ clock' = clock
  BY <1>1, <1>3, <1>4 DEF JournalOK
<1>5. ASSUME NEW d \in Drivers, Opens(d)
      PROVE  JournalOK'
  <2> DEFINE new == NewRecord(driver[d].view, driver[d].read)
  <2>1. new \in RecordType
    BY <1>5, OpenedOK DEF Opens
  <2>2. /\ Len(journal') = Len(journal) + 1 /\ DOMAIN journal' = 1..Len(journal) + 1
        /\ \A i \in 1..Len(journal) : journal'[i] = journal[i]
        /\ journal'[Len(journal) + 1] = new
    BY <1>1, <1>5, <2>1, AppendProperties DEF Opens
  <2>3. \A i \in DOMAIN journal : Terminal(journal[i])
    BY <1>5 DEF Opens, LiveAt
  <2>4. \A i \in DOMAIN journal : RecordOK(i)'
    BY <1>1, <1>3, <2>2, <2>3
  <2>5. /\ new.cutoff = Len(journal) + 1
        /\ Sound(new) /\ new.pending = 0 /\ new.tx = 0
    BY <1>1, SettleAssumptions DEF NewRecord, Sound, Terminal
  <2>6. \A i \in DOMAIN journal' : i = Len(journal) + 1 => RecordOK(i)'
    <3>1. \A t \in Nat : ~Names(new, t)
      BY <2>5 DEF Names
    <3> HIDE DEF new
    <3>2. Sound(journal[Len(journal)])'
      BY <2>2, <2>5 DEF Sound, Terminal
    <3> QED
      BY <1>1, <2>2, <2>5, <3>1, <3>2 DEF RecordOK, Names
  <2>7. clock' = Len(journal') + 1
    BY <1>1, <1>5, <2>2 DEF Opens
  <2> QED
    BY <1>1, <2>2, <2>4, <2>6, <2>7 DEF JournalOK
<1>6. ASSUME NEW r \in RecordType, RecordMoves(r)
      PROVE  JournalOK'
  <2>1. Len(journal) \in DOMAIN journal
    BY <1>1, <1>6 DEF RecordMoves
  <2>2. /\ Len(journal') = Len(journal) /\ DOMAIN journal' = DOMAIN journal
        /\ journal'[Len(journal)] = r
        /\ \A i \in DOMAIN journal : i # Len(journal) => journal'[i] = journal[i]
    BY <1>1, <1>6, <2>1, ExceptSeq DEF RecordMoves
  <2>3. \A i \in DOMAIN journal : i # Len(journal) => RecordOK(i)'
    BY <1>1, <1>3, <2>2
  <2>4. r.cutoff = Len(journal)
    BY <1>1, <1>6, <2>1 DEF RecordMoves, Last, RecordOK
  <2>5. Sound(journal[Len(journal)])'
    BY <1>6, <2>2 DEF RecordMoves, Sound, Terminal
  <2>6. RecordOK(Len(journal))'
    BY <1>1, <1>6, <2>2, <2>4, <2>5 DEF RecordMoves, RecordOK, Names
  <2> QED
    BY <1>1, <1>6, <2>2, <2>3, <2>6 DEF JournalOK, RecordMoves
<1> QED
  BY <1>4, <1>5, <1>6 DEF JournalStep

LEMMA TransfersPreserved ==
    ASSUME IInv, JournalStep, TransfersStep
    PROVE  TransfersOK'
<1>1. /\ Len(journal) \in Nat /\ DOMAIN journal = 1..Len(journal)
      /\ transfers \in Seq(Payment) /\ Len(transfers) \in Nat /\ DOMAIN transfers = 1..Len(transfers)
      /\ \A t \in DOMAIN transfers : transfers[t] \in Payment
  BY Sequences DEF IInv, TypesOK, TransfersTypeOK
<1>2. /\ \A t \in DOMAIN transfers :
            /\ transfers[t].offer \in DOMAIN journal
            /\ transfers[t].covers = journal[transfers[t].offer].covers
            /\ Submitted(t) => t \in {journal[transfers[t].offer].pending, journal[transfers[t].offer].tx}
            /\ Disjoint(transfers[t].offer)
            /\ transfers[t].executor # "none" => transfers[t].entry = "approved"
      /\ \A t, u \in DOMAIN transfers : t < u => transfers[t].offer <= transfers[u].offer
  BY DEF IInv, TransfersOK
<1>3. \A i \in DOMAIN journal :
          /\ i \in DOMAIN journal' /\ journal'[i].covers = journal[i].covers
          /\ journal[i].pending \in {0, journal'[i].pending}
          /\ journal[i].tx \in {0, journal'[i].tx}
  BY RecordsKept
<1>4. \A i \in DOMAIN journal : Disjoint(i) => Disjoint(i)'
  BY DisjointKept
<1>5. \A t \in DOMAIN transfers :
          /\ t \in DOMAIN transfers'
          /\ transfers'[t].offer = transfers[t].offer /\ transfers'[t].covers = transfers[t].covers
  BY PaymentsKept
<1>6. ASSUME NEW t \in DOMAIN transfers,
             Submitted(t)' => \/ Submitted(t)
                              \/ t \in {journal[transfers[t].offer].pending, journal[transfers[t].offer].tx}
      PROVE  /\ transfers'[t].offer \in DOMAIN journal'
             /\ transfers'[t].covers = journal'[transfers'[t].offer].covers
             /\ Submitted(t)' => t \in {journal'[transfers'[t].offer].pending, journal'[transfers'[t].offer].tx}
             /\ Disjoint(transfers[t].offer)'
  <2>1. transfers[t].offer \in DOMAIN journal /\ t # 0
    BY <1>1, <1>2
  <2>2. Disjoint(transfers[t].offer)'
    <3>1. PICK i \in DOMAIN journal : i = transfers[t].offer
      BY <2>1
    <3>2. Disjoint(i)'
      BY <1>2, <1>4, <3>1
    <3> QED
      BY <1>5, <3>1, <3>2 DEF Disjoint
  <2> QED
    BY <1>2, <1>3, <1>5, <1>6, <2>1, <2>2
<1>7. CASE transfers' = transfers
  BY <1>2, <1>6, <1>7 DEF TransfersOK, Submitted
<1>8. ASSUME NEW p \in Payment, Pays(p)
      PROVE  TransfersOK'
  <2> PICK m \in Nat : m = Len(transfers) + 1
    BY <1>1
  <2>1. /\ DOMAIN transfers' = 1..m /\ transfers'[m] = p
        /\ \A t \in 1..Len(transfers) : transfers'[t] = transfers[t]
    BY <1>1, <1>8, AppendProperties DEF Pays
  <2>2. \A t \in DOMAIN transfers : Submitted(t)' => Submitted(t)
    BY <1>1, <2>1 DEF Submitted
  <2>3. /\ Len(journal) \in DOMAIN journal /\ p.offer = Len(journal)
        /\ p.covers = journal[Len(journal)].covers
        /\ p.state = "made" /\ p.entry = "none" /\ p.executor = "none"
        /\ Disjoint(Len(journal))
    BY <1>1, <1>8 DEF Pays, Last
  <2>4. Disjoint(transfers[m].offer)'
    <3>1. PICK i \in DOMAIN journal : i = Len(journal)
      BY <2>3
    <3>2. Disjoint(i)'
      BY <1>4, <2>3, <3>1
    <3> QED
      BY <2>1, <2>3, <3>1, <3>2 DEF Disjoint
  <2>5. /\ transfers'[m].offer \in DOMAIN journal'
        /\ transfers'[m].covers = journal'[transfers'[m].offer].covers
        /\ ~Submitted(m)' /\ transfers'[m].executor = "none"
    BY <1>3, <2>1, <2>3 DEF Submitted, OnChain
  <2>6. \A t, u \in DOMAIN transfers' : t < u => transfers'[t].offer <= transfers'[u].offer
    BY <1>1, <1>2, <2>1, <2>3
  <2>7. ASSUME NEW t \in DOMAIN transfers'
        PROVE  /\ transfers'[t].offer \in DOMAIN journal'
               /\ transfers'[t].covers = journal'[transfers'[t].offer].covers
               /\ Submitted(t)' => t \in {journal'[transfers'[t].offer].pending, journal'[transfers'[t].offer].tx}
               /\ Disjoint(transfers[t].offer)'
               /\ transfers'[t].executor # "none" => transfers'[t].entry = "approved"
    <3>1. CASE t \in DOMAIN transfers
      BY <1>1, <1>2, <1>6, <2>1, <2>2, <3>1
    <3>2. CASE t = m
      <4>1. Disjoint(transfers[t].offer)'
        BY <2>4, <3>2 DEF Disjoint
      <4>2. ~Submitted(t)'
        BY <2>5, <3>2 DEF Submitted
      <4> QED
        BY <2>5, <3>2, <4>1, <4>2
    <3> QED
      BY <1>1, <2>1, <3>1, <3>2
  <2> QED
    BY <2>6, <2>7 DEF TransfersOK
<1>9. ASSUME NEW t \in DOMAIN transfers, NEW p \in Payment, PaymentMoves(t, p)
      PROVE  TransfersOK'
  <2>1. /\ DOMAIN transfers' = DOMAIN transfers /\ transfers'[t] = p
        /\ \A u \in DOMAIN transfers : u # t => transfers'[u] = transfers[u]
    BY <1>1, <1>9 DEF PaymentMoves
  <2>2. \A u \in DOMAIN transfers : Submitted(u)' =>
            \/ Submitted(u)
            \/ u \in {journal[transfers[u].offer].pending, journal[transfers[u].offer].tx}
    BY <1>9, <2>1 DEF PaymentMoves, Submitted, OnChain
  <2>3. \A u, v \in DOMAIN transfers' : u < v => transfers'[u].offer <= transfers'[v].offer
    BY <1>2, <1>5, <2>1
  <2>4. \A u \in DOMAIN transfers : transfers'[u].executor # "none" => transfers'[u].entry = "approved"
    BY <1>2, <1>9, <2>1 DEF PaymentMoves
  <2> QED
    BY <1>6, <2>1, <2>2, <2>3, <2>4 DEF TransfersOK
<1> QED
  BY <1>7, <1>8, <1>9 DEF TransfersStep

LEMMA ClosedStays ==
    ASSUME ReceivableStep, NEW e \in Entries, receivable[e].st = "settled"
    PROVE  receivable'[e] = receivable[e]
BY DEF ReceivableStep

LEMMA BooksPreserved ==
    ASSUME IInv, JournalStep, TransfersStep, PayableStep, ReceivableStep
    PROVE  BooksOK'
<1>1. /\ Len(journal) \in Nat /\ DOMAIN journal = 1..Len(journal)
      /\ journal \in Seq(RecordType)
      /\ \A i \in DOMAIN journal : journal[i] \in RecordType /\ journal[i].covers \subseteq Entries
  BY Sequences DEF IInv, TypesOK, JournalTypeOK, RecordType
<1>2. BooksOK
  BY DEF IInv
<1>3. \A t \in DOMAIN transfers :
          /\ t \in DOMAIN transfers' /\ transfers'[t].covers = transfers[t].covers
          /\ transfers[t].state = "mined" => transfers'[t].state = "mined"
  BY PaymentsKept
<1>4. ASSUME NEW e \in Entries, receivable'[e].st = "settled"
      PROVE  /\ receivable'[e].tx \in DOMAIN transfers'
             /\ transfers'[receivable'[e].tx].state = "mined"
             /\ e \in transfers'[receivable'[e].tx].covers
  BY <1>2, <1>3, <1>4 DEF BooksOK, ReceivableStep
<1>5. ASSUME NEW e \in Entries, payable'[e].st = "settled"
      PROVE  /\ payable'[e].tx \in DOMAIN transfers'
             /\ e \in transfers'[payable'[e].tx].covers => Closed(e, payable[e].tx)'
  <2>1. /\ payable'[e].tx \in DOMAIN transfers
        /\ e \in transfers[payable'[e].tx].covers => Closed(e, payable'[e].tx)
    BY <1>2, <1>5 DEF BooksOK, PayableStep
  <2> QED
    BY <1>3, <2>1, ClosedStays DEF Closed
<1>7. ASSUME NEW i \in DOMAIN journal', journal'[i].state = "settled", NEW e \in journal'[i].covers
      PROVE  Closed(e, journal[i].tx)'
  <2>1. CASE journal' = journal /\ clock' = clock
    BY <1>1, <1>2, <1>7, <2>1, ClosedStays DEF BooksOK, Closed
  <2>2. ASSUME NEW d \in Drivers, Opens(d)
        PROVE  Closed(e, journal[i].tx)'
    <3> DEFINE new == NewRecord(driver[d].view, driver[d].read)
    <3>1. /\ DOMAIN journal' = 1..Len(journal) + 1
          /\ \A j \in 1..Len(journal) : journal'[j] = journal[j]
          /\ journal'[Len(journal) + 1] = new /\ new.state = "offered"
      BY <1>1, <2>2 DEF Opens, NewRecord
    <3> HIDE DEF new
    <3>2. i \in DOMAIN journal /\ journal'[i] = journal[i]
      BY <1>1, <1>7, <3>1
    <3>3. Closed(e, journal[i].tx) /\ e \in Entries
      BY <1>1, <1>2, <1>7, <3>2 DEF BooksOK
    <3> QED
      BY <3>2, <3>3, ClosedStays DEF Closed
  <2>3. ASSUME NEW r \in RecordType, RecordMoves(r)
        PROVE  Closed(e, journal[i].tx)'
    <3>1. /\ i \in DOMAIN journal /\ Len(journal) \in DOMAIN journal
          /\ journal'[Len(journal)] = r
          /\ i # Len(journal) => journal'[i] = journal[i]
      BY <1>1, <1>7, <2>3 DEF RecordMoves
    <3>2. CASE i = Len(journal)
      <4>1. Closed(e, r.tx) /\ e \in Entries
        BY <1>7, <2>3, <3>1, <3>2 DEF RecordMoves, RecordType
      <4> QED
        BY <3>1, <3>2, <4>1, ClosedStays DEF Closed
    <3>3. CASE i # Len(journal)
      <4>1. Closed(e, journal[i].tx) /\ e \in Entries
        BY <1>1, <1>2, <1>7, <3>1, <3>3 DEF BooksOK
      <4> QED
        BY <3>1, <3>3, <4>1, ClosedStays DEF Closed
    <3> QED
      BY <3>2, <3>3
  <2> QED
    BY <2>1, <2>2, <2>3 DEF JournalStep
<1>8. ASSUME NEW j \in DOMAIN journal', journal'[j].state \in PaidState
      PROVE  Disjoint(j)'
  <2>1. j \in DOMAIN journal /\ Disjoint(j)
    <3>1. CASE journal' = journal /\ clock' = clock
      BY <1>2, <1>8, <3>1 DEF BooksOK, PaidState
    <3>2. ASSUME NEW d \in Drivers, Opens(d)
          PROVE  j \in DOMAIN journal /\ Disjoint(j)
      <4> DEFINE new == NewRecord(driver[d].view, driver[d].read)
      <4>1. /\ DOMAIN journal' = 1..Len(journal) + 1
            /\ \A i \in 1..Len(journal) : journal'[i] = journal[i]
            /\ journal'[Len(journal) + 1] = new /\ new.state = "offered"
        BY <1>1, <3>2 DEF Opens, NewRecord
      <4> HIDE DEF new
      <4>2. j \in DOMAIN journal /\ journal'[j] = journal[j]
        BY <1>1, <1>8, <4>1 DEF PaidState
      <4> QED
        BY <1>2, <1>8, <4>2 DEF BooksOK, PaidState
    <3>3. ASSUME NEW r \in RecordType, RecordMoves(r)
          PROVE  j \in DOMAIN journal /\ Disjoint(j)
      <4>1. /\ j \in DOMAIN journal /\ Len(journal) \in DOMAIN journal
            /\ journal'[Len(journal)] = r
            /\ j # Len(journal) => journal'[j] = journal[j]
        BY <1>1, <1>8, <3>3 DEF RecordMoves
      <4> QED
        BY <1>2, <1>8, <3>3, <4>1 DEF BooksOK, PaidState, RecordMoves
    <3> QED
      BY <3>1, <3>2, <3>3 DEF JournalStep
  <2> QED
    BY <2>1, DisjointKept
<1> QED
  BY <1>4, <1>5, <1>7, <1>8 DEF BooksOK, PaidState

(* A step of one goroutine.  It may leave the lock, keep it, or take it    *)
(* when it is free; the record it holds is moved only with the lock.       *)
GoroutineStep(d) ==
    /\ driver' = [driver EXCEPT ![d] = driver'[d]]
    /\ driver'[d].pc \notin Unlocked => Drives(d)' /\ (driver[d].pc \notin Unlocked \/ ~Held)
    /\ journal' = journal \/ Opens(d) \/ driver[d].pc \notin Unlocked

LEMMA DrivesKept ==
    ASSUME IInv, TransfersStep, ReceivableStep, mode' = mode, journal' = journal, clock' = clock,
           NEW d \in Drivers, driver[d].pc \notin Unlocked, driver'[d] = driver[d]
    PROVE  Drives(d)'
<1>1. Drives(d) /\ Len(journal) \in DOMAIN journal
  BY HasLive
<1>2. \A t \in DOMAIN transfers : t \in DOMAIN transfers' /\ transfers'[t].offer = transfers[t].offer
  BY PaymentsKept
<1>3. Disjoint(Len(journal)) => Disjoint(Len(journal))'
  BY DEF Disjoint
<1>4. driver[d].rec.covers \subseteq Entries
  BY DEF IInv, TypesOK, Goroutine, RecordType
<1>5. \A e \in driver[d].rec.covers :
          Closed(e, driver[d].rec.tx) => Closed(e, driver[d].rec.tx)'
  BY <1>4, ClosedStays DEF Closed
<1> QED
  BY <1>1, <1>2, <1>3, <1>5 DEF Drives, Last, Terminal

LEMMA LockPreserved ==
    ASSUME IInv, JournalStep, TransfersStep, ReceivableStep, mode' = mode,
           NEW d \in Drivers, GoroutineStep(d)
    PROVE  LockOK'
<1>1. \A f \in Drivers : f # d => driver'[f] = driver[f]
  BY DEF GoroutineStep, IInv, TypesOK
<1>2. /\ \A f, h \in Drivers : driver[f].pc \notin Unlocked /\ driver[h].pc \notin Unlocked => f = h
      /\ \A f \in Drivers : driver[f].pc \notin Unlocked => Drives(f)
  BY DEF IInv, LockOK
<1>3. ASSUME NEW f \in Drivers, f # d, driver'[f].pc \notin Unlocked
      PROVE  driver'[d].pc \in Unlocked /\ Drives(f)'
  <2>1. driver[f].pc \notin Unlocked /\ driver'[f] = driver[f]
    BY <1>1, <1>3
  <2>2. driver[d].pc \in Unlocked
    BY <1>2, <1>3, <2>1
  <2>3. Held
    BY <2>1 DEF Held
  <2>4. LiveAt # {}
    BY <2>1, HasLive
  <2>5. journal' = journal
    BY <2>2, <2>4 DEF GoroutineStep, Opens
  <2>6. clock' = clock
    <3>1. journal \in Seq(RecordType)
      BY DEF IInv, TypesOK, JournalTypeOK
    <3> QED
      BY <2>4, <2>5 DEF JournalStep, Opens, RecordMoves
  <2>7. Drives(f)'
    BY <2>1, <2>5, <2>6, DrivesKept
  <2> QED
    BY <2>2, <2>3, <2>7 DEF GoroutineStep
<1>4. ASSUME NEW f \in Drivers, f = d, driver'[f].pc \notin Unlocked
      PROVE  Drives(f)'
  BY <1>4 DEF GoroutineStep, Drives
<1>5. \A f \in Drivers : driver'[f].pc \notin Unlocked => Drives(f)'
  BY <1>3, <1>4
<1>6. \A f, h \in Drivers : driver'[f].pc \notin Unlocked /\ driver'[h].pc \notin Unlocked => f = h
  BY <1>1, <1>2, <1>3
<1> QED
  BY <1>5, <1>6 DEF LockOK

(* Requests are answered, dropped, or left behind by their callers.        *)
RequestsStep ==
    \A q \in requests' :
        \/ q \in requests /\ (q.caller # Nobody => driver'[q.caller] = driver[q.caller])
        \/ /\ q.phase = 2 /\ q.caller = Nobody
           /\ \E r \in requests : r.phase = 2 /\ r.tx = q.tx /\ r.covers = q.covers

LEMMA RequestsPreserved ==
    ASSUME IInv, TransfersStep, RequestsStep
    PROVE  RequestsOK'
<1>1. RequestsOK
  BY DEF IInv
<1>2. \A t \in DOMAIN transfers : t \in DOMAIN transfers' /\ transfers'[t].covers = transfers[t].covers
  BY PaymentsKept
<1>3. ASSUME NEW q \in requests'
      PROVE  /\ q.phase = 1 => q.pc = "received" /\ q.caller # Nobody
             /\ q.phase = 2 => q.tx \in DOMAIN transfers' /\ q.covers = transfers'[q.tx].covers
             /\ q.caller # Nobody =>
                   /\ driver'[q.caller].pc = "calling" /\ q.covers = driver'[q.caller].rec.covers
                   /\ q.phase = 1 => driver'[q.caller].rec.state = "offered"
                   /\ q.phase = 2 => /\ driver'[q.caller].rec.state = "broadcast"
                                     /\ q.tx = driver'[q.caller].rec.tx
  <2>1. CASE q \in requests /\ (q.caller # Nobody => driver'[q.caller] = driver[q.caller])
    BY <1>1, <1>2, <2>1 DEF RequestsOK
  <2>2. CASE /\ q.phase = 2 /\ q.caller = Nobody
             /\ \E r \in requests : r.phase = 2 /\ r.tx = q.tx /\ r.covers = q.covers
    BY <1>1, <1>2, <2>2 DEF RequestsOK
  <2> QED
    BY <2>1, <2>2 DEF RequestsStep
<1>4. \A q, r \in requests' : q.caller = r.caller /\ q.caller # Nobody => q = r
  BY <1>1 DEF RequestsOK, RequestsStep
<1> QED
  BY <1>3, <1>4 DEF RequestsOK

\* Nobody waits for the answer of a goroutine that is not calling.
LEMMA NotWaiting ==
    ASSUME IInv, NEW d \in Drivers, driver[d].pc # "calling",
           requests' = requests, driver' = [driver EXCEPT ![d] = driver'[d]]
    PROVE  RequestsStep
<1>1. \A q \in requests : q.caller # Nobody => q.caller \in Drivers /\ driver[q.caller].pc = "calling"
  BY DEF IInv, RequestsOK, TypesOK, Request
<1> QED
  BY <1>1 DEF RequestsStep, IInv, TypesOK

LEMMA Quiet ==
    ASSUME IInv, mode' = mode, payable' = payable, receivable' = receivable
    PROVE  LedgersTypeOK' /\ PayableStep /\ ReceivableStep
BY DEF IInv, TypesOK, LedgersTypeOK, PayableStep, ReceivableStep

bounds == <<crashes, disputes>>

LEMMA Combine ==
    ASSUME IInv, JournalStep, TransfersStep, PayableStep, ReceivableStep, mode' = mode,
           LedgersTypeOK', driver' \in [Drivers -> Goroutine], requests' \subseteq Request,
           crashes' \in 0..MaxCrashes, disputes' \in 0..MaxDisputes, LockOK', RequestsOK'
    PROVE  IInv'
<1>1. JournalTypeOK' /\ TransfersTypeOK'
  BY RecordsKept, PaymentsKept
<1>2. JournalOK' /\ TransfersOK' /\ BooksOK'
  BY JournalPreserved, TransfersPreserved, BooksPreserved
<1> QED
  BY <1>1, <1>2 DEF IInv, TypesOK

\* The steps of a goroutine that leave the ledgers alone.
LEMMA CombineDrive ==
    ASSUME IInv, NEW d \in Drivers, JournalStep, TransfersStep, GoroutineStep(d), RequestsOK',
           UNCHANGED <<mode, ledgers, bounds>>, requests' \subseteq Request,
           driver'[d] \in Goroutine
    PROVE  IInv'
<1>1. /\ mode' = mode /\ payable' = payable /\ receivable' = receivable
      /\ crashes' \in 0..MaxCrashes /\ disputes' \in 0..MaxDisputes
  BY DEF ledgers, bounds, IInv, TypesOK
<1>2. LedgersTypeOK' /\ PayableStep /\ ReceivableStep
  BY <1>1, Quiet
<1>3. driver' \in [Drivers -> Goroutine] /\ \A f \in Drivers : f # d => driver'[f] = driver[f]
  BY DEF GoroutineStep, IInv, TypesOK
<1>4. LockOK'
  BY <1>1, <1>2, LockPreserved
<1> QED
  BY <1>1, <1>2, <1>3, <1>4, Combine

-----------------------------------------------------------------------------
(* What the helpers of the drive do to the record.                         *)
LEMMA IdleOK ==
    /\ Idle \in Goroutine /\ Idle.pc = "idle"
    /\ \A r \in RecordType, pc \in {"holding", "drive"} :
          LET g == [Idle EXCEPT !.pc = pc, !.rec = r]
          IN  g \in Goroutine /\ g.pc = pc /\ g.rec = r
<1> DEFINE n == NewRecord({}, 0)
<1>1. n \in [state : JournalState, covers : SUBSET Entries,
             read : Nat, cutoff : {clock},
             pending : Nat, tx : Nat, raw : BOOLEAN,
             attempts : Nat]
  BY SettleAssumptions DEF NewRecord, JournalState
<1> HIDE DEF n
<1>2. NoRec \in RecordType
  BY <1>1, SettleAssumptions DEF NoRec, RecordType, n
<1>3. Idle \in Goroutine /\ Idle.pc = "idle"
  BY <1>2, SettleAssumptions DEF Idle, Goroutine, Unlocked
<1>4. ASSUME NEW r \in RecordType, NEW pc \in {"holding", "drive"}
      PROVE  LET g == [Idle EXCEPT !.pc = pc, !.rec = r]
             IN  g \in Goroutine /\ g.pc = pc /\ g.rec = r
  BY <1>3 DEF Goroutine, Unlocked
<1> QED
  BY <1>3, <1>4

LEMMA Moves ==
    ASSUME IInv, TransfersStep, clock' = clock, NEW d \in Drivers, driver[d].pc \notin Unlocked,
           NEW r \in RecordType, Update(r), Sound(r),
           r.covers = Last.covers, r.read = Last.read, r.cutoff = Last.cutoff,
           Last.pending \in {0, r.pending}, Last.tx \in {0, r.tx},
           \A t \in Nat : Names(r, t) => \/ Names(Last, t)
                                         \/ t \in DOMAIN transfers' /\ transfers'[t].offer = Len(journal),
           r.state = "settled" => \A e \in r.covers : Closed(e, r.tx),
           r.state \in PaidState => Last.state \in PaidState \/ Disjoint(Len(journal))
    PROVE  JournalStep /\ Len(journal') = Len(journal) /\ Last' = r /\ Len(journal) > 0
<1>1. /\ LiveAt = {Len(journal)} /\ Len(journal) \in DOMAIN journal /\ ~Terminal(Last)
  BY HasLive
<1>2. /\ journal' = [journal EXCEPT ![Len(journal)] = r]
      /\ Len(journal') = Len(journal) /\ journal'[Len(journal)] = r
  BY <1>1, Patched
<1>3. \A t \in Nat : Names(Last, t) => t \in DOMAIN transfers' /\ transfers'[t].offer = Len(journal)
  BY <1>1, PaymentsKept DEF IInv, JournalOK, RecordOK, Last
<1>4. Last.state \in PaidState => Disjoint(Len(journal))
  BY <1>1 DEF IInv, BooksOK, PaidState, Last
<1>5. Len(journal) > 0
  BY <1>1, Sequences
<1>6. RecordMoves(r)
  BY <1>1, <1>2, <1>3, <1>4, <1>5 DEF RecordMoves
<1> QED
  BY <1>2, <1>5, <1>6 DEF JournalStep, Last

\* The drive ends and the lock is released.
LEMMA Leaves ==
    ASSUME IInv, NEW d \in Drivers, Return(d),
           journal' = journal \/ driver[d].pc \notin Unlocked
    PROVE  /\ GoroutineStep(d) /\ driver'[d] = Idle
           /\ driver'[d] \in Goroutine
<1>1. driver' = [driver EXCEPT ![d] = Idle] /\ driver'[d] = Idle
  BY DEF Return, IInv, TypesOK
<1>2. Idle.pc \in Unlocked
  BY IdleOK DEF Unlocked
<1> QED
  BY <1>1, <1>2, IdleOK DEF GoroutineStep

\* The drive goes on with the record it has written, or with the one it found.
LEMMA Continues ==
    ASSUME IInv, NEW d \in Drivers, NEW r \in RecordType, Goto(d, "drive", r),
           Len(journal') > 0, Last' = r, ~Terminal(r),
           \/ driver[d].pc \notin Unlocked
           \/ journal' = journal /\ ~Held
    PROVE  /\ GoroutineStep(d)
           /\ driver'[d] \in Goroutine
<1> DEFINE g == [Idle EXCEPT !.pc = "drive", !.rec = r]
<1>1. g \in Goroutine /\ g.pc = "drive" /\ g.rec = r
  BY IdleOK
<1>2. driver' = [driver EXCEPT ![d] = g] /\ driver'[d] = g
  BY DEF Goto, IInv, TypesOK
<1> HIDE DEF g
<1>3. driver'[d].pc = "drive" /\ driver'[d].rec = r
  BY <1>1, <1>2
<1>4. Drives(d)'
  <2>1. ~Terminal(Last')
    OBVIOUS
  <2> QED
    BY <1>3, <2>1 DEF Drives, Terminal
<1> QED
  BY <1>1, <1>2, <1>3, <1>4 DEF GoroutineStep

LEMMA Locked ==
    ASSUME IInv, NEW d \in Drivers, driver[d].pc \notin Unlocked
    PROVE  /\ Len(journal) \in Nat \ {0} /\ Len(journal) \in DOMAIN journal
           /\ LiveAt # {} /\ LiveRec = Last /\ Last \in RecordType /\ ~Terminal(Last)
           /\ RecordOK(Len(journal)) /\ Sound(Last) /\ Last.cutoff = Len(journal)
           /\ Drives(d)
           /\ driver[d].pc \notin {"queue", "queued"} => Last = driver[d].rec
<1>1. /\ LiveAt = {Len(journal)} /\ LiveRec = Last /\ Last \in RecordType
      /\ Len(journal) \in DOMAIN journal /\ ~Terminal(Last) /\ Drives(d)
  BY HasLive
<1>2. RecordOK(Len(journal))
  BY <1>1 DEF IInv, JournalOK
<1>3. Len(journal) \in Nat \ {0}
  BY <1>1, Sequences
<1> QED
  BY <1>1, <1>2, <1>3 DEF RecordOK, Last, Drives

LEMMA Ends ==
    ASSUME IInv, TransfersStep, clock' = clock, NEW d \in Drivers, driver[d].pc \notin Unlocked,
           NEW s \in {"rejected", "failed"}, Close(d, s)
    PROVE  JournalStep /\ Return(d)
<1> DEFINE r == [Last EXCEPT !.state = s]
<1>1. Last \in RecordType /\ Sound(Last) /\ LiveRec = Last
  BY Locked
<1>2. /\ r \in RecordType /\ r.state = s /\ r.covers = Last.covers /\ r.read = Last.read
      /\ r.cutoff = Last.cutoff /\ r.pending = Last.pending /\ r.tx = Last.tx
      /\ r.attempts = Last.attempts
  BY <1>1 DEF RecordType, JournalState
<1>3. Update(r) /\ Return(d)
  BY <1>1 DEF Close
<1> HIDE DEF r
<1>4. Sound(r)
  BY <1>1, <1>2 DEF Sound, Terminal
<1>5. JournalStep
  BY <1>2, <1>3, <1>4, Moves DEF Names, PaidState
<1> QED
  BY <1>3, <1>5

LEMMA Retries ==
    ASSUME IInv, TransfersStep, clock' = clock, NEW d \in Drivers, driver[d].pc \notin Unlocked,
           driver[d].pc \notin {"queue", "queued"}, Retry(d)
    PROVE  JournalStep /\ Return(d)
<1>1. Last \in RecordType /\ Sound(Last) /\ LiveRec = Last /\ Last = driver[d].rec /\ ~Terminal(Last)
  BY Locked
<1>2. PICK s \in {"stalled", Last.state} :
          /\ s = (IF driver[d].rec.attempts + 1 >= MaxAttempts THEN "stalled" ELSE Last.state)
          /\ Update([Last EXCEPT !.attempts = Last.attempts + 1, !.state = s])
  BY <1>1 DEF Retry
<1> DEFINE r == [Last EXCEPT !.attempts = Last.attempts + 1, !.state = s]
<1>3. Last.attempts \in Nat /\ Last.attempts < MaxAttempts
  BY <1>1, SettleAssumptions DEF Sound, RecordType
<1>4. /\ r \in RecordType /\ r.state = s /\ r.covers = Last.covers /\ r.read = Last.read
      /\ r.cutoff = Last.cutoff /\ r.pending = Last.pending /\ r.tx = Last.tx
      /\ r.attempts = Last.attempts + 1
  <2>1. Last.attempts + 1 \in Nat
    BY <1>3, SettleAssumptions
  <2>2. s \in JournalState
    BY <1>1, <1>2 DEF RecordType, JournalState
  <2> QED
    BY <1>1, <2>1, <2>2 DEF RecordType
<1>5. Update(r)
  BY <1>2
<1> HIDE DEF r
<1>6. /\ s # "stalled" => s = Last.state /\ r.attempts < MaxAttempts
      /\ r.attempts <= MaxAttempts
  BY <1>1, <1>2, <1>3, <1>4, SettleAssumptions
<1>7. Sound(r)
  BY <1>1, <1>2, <1>4, <1>6 DEF Sound, Terminal
<1>8. s # "settled"
  BY <1>1, <1>2 DEF Terminal
<1>9. JournalStep
  BY <1>2, <1>4, <1>5, <1>7, <1>8, Moves DEF Names, PaidState
<1> QED
  BY <1>9 DEF Retry

-----------------------------------------------------------------------------
(* The goroutines, one lemma per action.                                   *)
LEMMA Holds ==
    ASSUME IInv, NEW d \in Drivers, NEW r \in RecordType, Goto(d, "holding", r),
           journal' = journal \/ Opens(d)
    PROVE  /\ GoroutineStep(d)
           /\ driver'[d] \in Goroutine
<1> DEFINE g == [Idle EXCEPT !.pc = "holding", !.rec = r]
<1>1. g \in Goroutine /\ g.pc = "holding"
  BY IdleOK
<1>2. driver' = [driver EXCEPT ![d] = g] /\ driver'[d] = g
  BY DEF Goto, IInv, TypesOK
<1> QED
  BY <1>1, <1>2 DEF GoroutineStep, Unlocked

LEMMA NoWrites ==
    /\ transfers' = transfers => TransfersStep
    /\ journal' = journal /\ clock' = clock => JournalStep
BY DEF TransfersStep, JournalStep

\* A goroutine that was not waiting, and that neither sends nor cancels a
\* request or touches a ledger.
LEMMA CombineLocal ==
    ASSUME IInv, NEW d \in Drivers, driver[d].pc # "calling",
           JournalStep, TransfersStep, GoroutineStep(d),
           UNCHANGED <<mode, ledgers, requests, bounds>>,
           driver'[d] \in Goroutine
    PROVE  IInv'
<1>1. requests' = requests /\ UNCHANGED <<mode, ledgers, bounds>>
  OBVIOUS
<1>2. RequestsStep
  BY <1>1, NotWaiting DEF GoroutineStep
<1>3. RequestsOK' /\ requests' \subseteq Request
  BY <1>1, <1>2, RequestsPreserved DEF IInv, TypesOK
<1> QED
  BY <1>1, <1>3, CombineDrive

LEMMA SettleCallPreserves ==
    ASSUME IInv, NEW d \in Drivers, SettleCall(d)
    PROVE  IInv'
<1>1. /\ driver[d].pc = "idle" /\ journal' = journal /\ clock' = clock /\ transfers' = transfers
      /\ UNCHANGED <<mode, ledgers, requests, bounds>>
  BY DEF SettleCall, At, history, bounds
<1>2. JournalStep /\ TransfersStep
  BY <1>1, NoWrites
<1>3. CASE LiveAt # {} /\ Goto(d, "holding", LiveRec)
  <2>1. LiveRec \in RecordType
    BY <1>3, LiveIsLast
  <2>2. GoroutineStep(d) /\ driver'[d] \in Goroutine
    BY <1>1, <1>3, <2>1, Holds
  <2> QED
    BY <1>1, <1>2, <2>2, CombineLocal
<1>4. ASSUME Len(journal) < MaxRecords,
             driver' = [driver EXCEPT ![d] = [Idle EXCEPT !.pc = "building", !.read = clock,
                                                         !.view = Accrued(payable)]]
      PROVE  IInv'
  <2> DEFINE g == [Idle EXCEPT !.pc = "building", !.read = clock, !.view = Accrued(payable)]
  <2>1. clock \in Nat /\ Accrued(payable) \subseteq Entries
    BY <1>4, Sequences, SettleAssumptions DEF IInv, JournalOK, Accrued
  <2>2. g \in Goroutine /\ g.pc = "building" /\ g.read = clock /\ g.view = Accrued(payable)
    BY <2>1, IdleOK DEF Goroutine, Unlocked
  <2>3. driver' = [driver EXCEPT ![d] = g] /\ driver'[d] = g
    BY <1>4, <2>2 DEF IInv, TypesOK
  <2> HIDE DEF g
  <2>4. GoroutineStep(d)
    BY <1>1, <2>2, <2>3 DEF GoroutineStep, Unlocked
  <2> QED
    BY <1>1, <1>2, <2>2, <2>3, <2>4, CombineLocal
<1> QED
  BY <1>3, <1>4 DEF SettleCall

LEMMA AcquirePreserves ==
    ASSUME IInv, NEW d \in Drivers, Acquire(d)
    PROVE  IInv'
<1>1. /\ driver[d].pc = "building" /\ transfers' = transfers
      /\ UNCHANGED <<mode, ledgers, requests, bounds>>
  BY DEF Acquire, At, history, bounds
<1>2. TransfersStep
  BY <1>1, NoWrites
<1>3. CASE LiveAt # {} /\ Goto(d, "holding", LiveRec) /\ UNCHANGED <<journal, clock>>
  <2>1. LiveRec \in RecordType /\ JournalStep
    BY <1>3, LiveIsLast, NoWrites
  <2>2. GoroutineStep(d) /\ driver'[d] \in Goroutine
    BY <1>3, <2>1, Holds
  <2> QED
    BY <1>1, <1>2, <2>1, <2>2, CombineLocal
<1>4. CASE /\ LiveAt = {} /\ Len(journal) < MaxRecords
           /\ LET new == NewRecord(driver[d].view, driver[d].read)
              IN  journal' = Append(journal, new) /\ Goto(d, "holding", new)
           /\ clock' = clock + 1
  <2> DEFINE new == NewRecord(driver[d].view, driver[d].read)
  <2>1. new \in RecordType
    BY <1>4, OpenedOK
  <2>2. Opens(d)
    BY <1>1, <1>4 DEF Opens
  <2>3. Goto(d, "holding", new)
    BY <1>4
  <2>4. GoroutineStep(d) /\ driver'[d] \in Goroutine
    BY <2>1, <2>2, <2>3, Holds
  <2>5. JournalStep
    BY <2>2 DEF JournalStep
  <2> QED
    BY <1>1, <1>2, <2>4, <2>5, CombineLocal
<1> QED
  BY <1>3, <1>4 DEF Acquire

LEMMA WatchTickPreserves ==
    ASSUME IInv, NEW d \in Drivers, WatchTick(d)
    PROVE  IInv'
<1>1. /\ driver[d].pc = "idle" /\ journal' = journal /\ clock' = clock /\ transfers' = transfers
      /\ UNCHANGED <<mode, ledgers, requests, bounds>> /\ LiveAt # {} /\ Goto(d, "holding", LiveRec)
  BY DEF WatchTick, At, history, bounds
<1>2. LiveRec \in RecordType /\ JournalStep /\ TransfersStep
  BY <1>1, LiveIsLast, NoWrites
<1>3. GoroutineStep(d) /\ driver'[d] \in Goroutine
  BY <1>1, <1>2, Holds
<1> QED
  BY <1>1, <1>2, <1>3, CombineLocal

LEMMA LockDrivePreserves ==
    ASSUME IInv, NEW d \in Drivers, LockDrive(d), ~staled'
    PROVE  IInv'
<1>1. /\ driver[d].pc = "holding" /\ journal' = journal /\ clock' = clock /\ transfers' = transfers
      /\ UNCHANGED <<mode, ledgers, requests, bounds>>
  BY DEF LockDrive, At, history, bounds
<1>2. JournalStep /\ TransfersStep
  BY <1>1, NoWrites
<1>3. CASE Return(d)
  <2>1. GoroutineStep(d) /\ driver'[d] \in Goroutine
    BY <1>1, <1>3, Leaves
  <2> QED
    BY <1>1, <1>2, <2>1, CombineLocal
<1>4. CASE /\ ~Held /\ Goto(d, "drive", driver[d].rec)
           /\ staled' = (staled \/ Stale(driver[d].rec))
  <2>1. LiveAt # {} /\ driver[d].rec = LiveRec
    BY <1>4 DEF Stale
  <2>2. LiveRec = Last /\ Last \in RecordType /\ ~Terminal(Last) /\ Len(journal) > 0
    BY <2>1, LiveIsLast, Sequences
  <2>3. Len(journal') > 0 /\ Last' = driver[d].rec
    BY <1>1, <2>1, <2>2 DEF Last
  <2>4. GoroutineStep(d) /\ driver'[d] \in Goroutine
    BY <1>1, <1>4, <2>1, <2>2, <2>3, Continues
  <2> QED
    BY <1>1, <1>2, <2>4, CombineLocal
<1> QED
  BY <1>3, <1>4 DEF LockDrive

LEMMA NewPC ==
    ASSUME IInv, NEW d \in Drivers, NEW p \in {"calling", "queued", "acked", "settling"},
           driver' = [driver EXCEPT ![d].pc = p]
    PROVE  /\ driver' = [driver EXCEPT ![d] = driver'[d]]
           /\ driver'[d] \in Goroutine /\ driver'[d].pc = p
           /\ driver'[d].rec = driver[d].rec /\ driver'[d].tx = driver[d].tx
           /\ driver'[d].resp = driver[d].resp
<1>1. driver \in [Drivers -> Goroutine] /\ driver[d] \in Goroutine
  BY DEF IInv, TypesOK
<1>2. driver'[d] = [driver[d] EXCEPT !.pc = p] /\ driver' = [driver EXCEPT ![d] = driver'[d]]
  BY <1>1
<1>3. driver'[d] \in Goroutine
  BY <1>1, <1>2 DEF Goroutine
<1> QED
  BY <1>1, <1>2, <1>3 DEF Goroutine

LEMMA Calls ==
    ASSUME IInv, JournalStep, TransfersStep, journal' = journal, NEW d \in Drivers, driver[d].pc = "drive",
           NEW phase \in {1, 2}, NEW tx \in Nat, Call(d, phase, tx),
           phase = 1 => driver[d].rec.state = "offered",
           phase = 2 => driver[d].rec.state = "broadcast" /\ tx = driver[d].rec.tx
    PROVE  /\ RequestsOK' /\ requests' \subseteq Request /\ GoroutineStep(d)
           /\ driver'[d] \in Goroutine
<1> DEFINE new == [caller |-> d, phase |-> phase, covers |-> driver[d].rec.covers,
                   tx |-> tx, pc |-> "received"]
<1>1. driver[d].pc \notin Unlocked
  BY DEF Unlocked
<1>2. /\ Len(journal) \in Nat \ {0} /\ Len(journal) \in DOMAIN journal /\ ~Terminal(Last)
      /\ Last = driver[d].rec /\ RecordOK(Len(journal)) /\ Sound(Last)
  BY <1>1, Locked
<1>3. /\ driver' = [driver EXCEPT ![d] = driver'[d]] /\ driver'[d] \in Goroutine
      /\ driver'[d].pc = "calling" /\ driver'[d].rec = driver[d].rec
  BY NewPC DEF Call
<1>4. \A f \in Drivers : f # d => driver'[f] = driver[f]
  BY <1>3 DEF IInv, TypesOK
<1>5. new \in Request /\ new.caller = d /\ new.phase = phase /\ new.tx = tx /\ new.pc = "received"
      /\ new.covers = driver[d].rec.covers
  BY DEF Request, IInv, TypesOK, Goroutine, RecordType
<1>6. requests' = requests \cup {new}
  BY DEF Call
<1> HIDE DEF new
<1>7. phase = 2 => tx \in DOMAIN transfers /\ transfers[tx].covers = driver[d].rec.covers
  <2>1. ASSUME phase = 2 PROVE Names(Last, tx) /\ tx \in Nat
    BY <1>2, <2>1, SettleAssumptions DEF Sound, Names
  <2>2. ASSUME phase = 2 PROVE tx \in DOMAIN transfers /\ transfers[tx].offer = Len(journal)
    BY <1>2, <2>1, <2>2 DEF RecordOK, Last
  <2> QED
    BY <1>2, <2>2 DEF IInv, TransfersOK, Last
<1>8. \A t \in DOMAIN transfers : t \in DOMAIN transfers' /\ transfers'[t].covers = transfers[t].covers
  BY PaymentsKept
<1>9. /\ RequestsOK /\ \A q \in requests : q.caller # Nobody => q.caller \in Drivers
      /\ \A q \in requests : q.caller # d
  BY SettleAssumptions DEF IInv, RequestsOK, TypesOK, Request
<1>10. RequestsOK'
  <2>1. ASSUME NEW q \in requests'
        PROVE  /\ q.phase = 1 => q.pc = "received" /\ q.caller # Nobody
               /\ q.phase = 2 => q.tx \in DOMAIN transfers' /\ q.covers = transfers'[q.tx].covers
               /\ q.caller # Nobody =>
                     /\ driver'[q.caller].pc = "calling" /\ q.covers = driver'[q.caller].rec.covers
                     /\ q.phase = 1 => driver'[q.caller].rec.state = "offered"
                     /\ q.phase = 2 => /\ driver'[q.caller].rec.state = "broadcast"
                                       /\ q.tx = driver'[q.caller].rec.tx
    <3>1. CASE q \in requests
      BY <1>4, <1>8, <1>9, <3>1 DEF RequestsOK
    <3>2. CASE q = new
      BY <1>3, <1>5, <1>7, <1>8, <3>2, SettleAssumptions
    <3> QED
      BY <1>6, <3>1, <3>2
  <2>2. \A q, r \in requests' : q.caller = r.caller /\ q.caller # Nobody => q = r
    BY <1>5, <1>6, <1>9 DEF RequestsOK
  <2> QED
    BY <2>1, <2>2 DEF RequestsOK
<1>11. Drives(d)'
  <2>1. Last' = Last /\ Len(journal') > 0 /\ ~Terminal(Last')
    BY <1>2 DEF Last
  <2> QED
    BY <1>2, <1>3, <2>1 DEF Drives, Terminal
<1>12. GoroutineStep(d)
  BY <1>1, <1>3, <1>11 DEF GoroutineStep
<1> QED
  BY <1>3, <1>5, <1>6, <1>10, <1>12 DEF IInv, TypesOK

LEMMA SendPhase1Preserves ==
    ASSUME IInv, NEW d \in Drivers, SendPhase1(d)
    PROVE  IInv'
<1>1. /\ driver[d].pc = "drive" /\ driver[d].rec.state = "offered" /\ Call(d, 1, 0)
      /\ journal' = journal /\ clock' = clock /\ transfers' = transfers
      /\ UNCHANGED <<mode, ledgers, bounds>>
  BY DEF SendPhase1, InState, At, history, bounds
<1>2. JournalStep /\ TransfersStep
  BY <1>1, NoWrites
<1>3. /\ RequestsOK' /\ requests' \subseteq Request /\ GoroutineStep(d)
      /\ driver'[d] \in Goroutine
  BY <1>1, <1>2, Calls, SettleAssumptions
<1> QED
  BY <1>1, <1>2, <1>3, CombineDrive

LEMMA Abandons ==
    ASSUME IInv, NEW qs, Abandon(qs), qs \subseteq requests,
           \A q \in requests : q \in qs \/ q.caller = Nobody \/ driver'[q.caller] = driver[q.caller]
    PROVE  RequestsStep /\ requests' \subseteq Request
<1>1. requests' = (requests \ qs) \cup { [q EXCEPT !.caller = Nobody] : q \in {r \in qs : r.phase = 2} }
  BY DEF Abandon
<1>2. ASSUME NEW r \in qs, r.phase = 2
      PROVE  LET q == [r EXCEPT !.caller = Nobody]
             IN  q \in Request /\ q.caller = Nobody /\ q.phase = 2 /\ q.tx = r.tx /\ q.covers = r.covers
  BY <1>2 DEF IInv, TypesOK, Request
<1>3. RequestsStep
  <2> SUFFICES ASSUME NEW q \in requests'
               PROVE  \/ q \in requests /\ (q.caller # Nobody => driver'[q.caller] = driver[q.caller])
                      \/ /\ q.phase = 2 /\ q.caller = Nobody
                         /\ \E r \in requests : r.phase = 2 /\ r.tx = q.tx /\ r.covers = q.covers
    BY DEF RequestsStep
  <2>1. CASE q \in requests \ qs
    BY <2>1
  <2>2. ASSUME NEW r \in qs, r.phase = 2, q = [r EXCEPT !.caller = Nobody]
        PROVE  /\ q.phase = 2 /\ q.caller = Nobody
               /\ r \in requests /\ r.tx = q.tx /\ r.covers = q.covers
    BY <1>2, <2>2
  <2> QED
    BY <1>1, <2>1, <2>2
<1> QED
  BY <1>1, <1>2, <1>3 DEF IInv, TypesOK

LEMMA CallFailsPreserves ==
    ASSUME IInv, NEW d \in Drivers, CallFails(d)
    PROVE  IInv'
<1>1. /\ driver[d].pc = "calling" /\ Retry(d) /\ clock' = clock /\ transfers' = transfers
      /\ Abandon({q \in requests : q.caller = d})
      /\ UNCHANGED <<mode, ledgers, bounds>>
  BY DEF CallFails, At, history, bounds
<1>2. driver[d].pc \notin Unlocked /\ driver[d].pc \notin {"queue", "queued"}
  BY <1>1 DEF Unlocked
<1>3. TransfersStep
  BY <1>1, NoWrites
<1>4. JournalStep /\ Return(d)
  BY <1>1, <1>2, <1>3, Retries
<1>5. GoroutineStep(d) /\ driver'[d] \in Goroutine
  BY <1>2, <1>4, Leaves
<1>6. \A q \in requests : q.caller = d \/ q.caller = Nobody \/ driver'[q.caller] = driver[q.caller]
  BY <1>5 DEF GoroutineStep, IInv, TypesOK, Request
<1>7. RequestsStep /\ requests' \subseteq Request
  BY <1>1, <1>6, Abandons
<1>8. RequestsOK'
  BY <1>3, <1>7, RequestsPreserved
<1> QED
  BY <1>1, <1>3, <1>4, <1>5, <1>7, <1>8, CombineDrive

LEMMA Advances ==
    ASSUME IInv, TransfersStep, clock' = clock, NEW d \in Drivers, driver[d].pc \notin Unlocked,
           NEW r \in RecordType, Advance(d, r), Sound(r), ~Terminal(r),
           r.covers = Last.covers, r.read = Last.read, r.cutoff = Last.cutoff,
           Last.pending \in {0, r.pending}, Last.tx \in {0, r.tx},
           \A t \in Nat : Names(r, t) => \/ Names(Last, t)
                                         \/ t \in DOMAIN transfers' /\ transfers'[t].offer = Len(journal),
           r.state \in PaidState => Last.state \in PaidState \/ Disjoint(Len(journal))
    PROVE  /\ JournalStep /\ GoroutineStep(d)
           /\ driver'[d] \in Goroutine
<1>1. LiveAt # {} /\ Len(journal) \in Nat \ {0}
  BY Locked
<1>2. Update(r) /\ Goto(d, "drive", r)
  BY <1>1 DEF Advance
<1>3. r.state # "settled"
  BY DEF Terminal
<1>4. JournalStep /\ Len(journal') = Len(journal) /\ Last' = r
  BY <1>2, <1>3, Moves
<1>5. Len(journal') > 0
  BY <1>1, <1>4
<1> QED
  BY <1>2, <1>4, <1>5, Continues

LEMMA Phase1AnsweredPreserves ==
    ASSUME IInv, NEW d \in Drivers, Phase1Answered(d)
    PROVE  IInv'
<1>1. /\ driver[d].pc = "answered" /\ driver[d].rec.state = "offered"
      /\ clock' = clock /\ transfers' = transfers
      /\ UNCHANGED <<mode, ledgers, requests, bounds>>
  BY DEF Phase1Answered, At, history, bounds
<1>2. driver[d].pc \notin Unlocked /\ driver[d].pc # "calling" /\ TransfersStep
  BY <1>1, NoWrites DEF Unlocked
<1>3. /\ Last \in RecordType /\ Last = driver[d].rec /\ LiveRec = Last /\ Sound(Last)
      /\ ~Terminal(Last) /\ Drives(d)
  BY <1>1, <1>2, Locked
<1>4. CASE driver[d].resp = "awaiting_tx"
  <2> DEFINE r == [Last EXCEPT !.state = "paying"]
  <2>1. /\ r \in RecordType /\ r.state = "paying" /\ r.covers = Last.covers /\ r.read = Last.read
        /\ r.cutoff = Last.cutoff /\ r.pending = Last.pending /\ r.tx = Last.tx
        /\ r.attempts = Last.attempts
    BY <1>3 DEF RecordType, JournalState
  <2>2. Advance(d, r)
    BY <1>1, <1>3, <1>4 DEF Phase1Answered
  <2> HIDE DEF r
  <2>3. Sound(r) /\ ~Terminal(r)
    BY <1>1, <1>3, <2>1 DEF Sound, Terminal
  <2>4. Disjoint(Len(journal))
    BY <1>1, <1>3, <1>4 DEF Drives
  <2>5. \A t \in Nat : Names(r, t) => Names(Last, t)
    BY <2>1 DEF Names
  <2>6. /\ JournalStep /\ GoroutineStep(d)
        /\ driver'[d] \in Goroutine
    BY <1>1, <1>2, <2>1, <2>2, <2>3, <2>4, <2>5, Advances
  <2> QED
    BY <1>1, <1>2, <2>6, CombineLocal
<1>5. CASE Close(d, "rejected")
  <2>1. JournalStep /\ Return(d)
    BY <1>1, <1>2, <1>5, Ends
  <2>2. GoroutineStep(d) /\ driver'[d] \in Goroutine
    BY <1>2, <2>1, Leaves
  <2> QED
    BY <1>1, <1>2, <2>1, <2>2, CombineLocal
<1> QED
  BY <1>4, <1>5 DEF Phase1Answered

LEMMA JournalSignedPreserves ==
    ASSUME IInv, NEW d \in Drivers, JournalSigned(d)
    PROVE  IInv'
<1>1. /\ driver[d].pc = "signed" /\ clock' = clock /\ transfers' = transfers
      /\ UNCHANGED <<mode, ledgers, requests, bounds>>
  BY DEF JournalSigned, At, history, bounds
<1>2. driver[d].pc \notin Unlocked /\ driver[d].pc # "calling" /\ TransfersStep
  BY <1>1, NoWrites DEF Unlocked
<1>3. /\ Last \in RecordType /\ Last = driver[d].rec /\ LiveRec = Last /\ Sound(Last)
      /\ ~Terminal(Last) /\ Drives(d)
  BY <1>1, <1>2, Locked
<1>4. /\ Last.state = "paying" /\ mode = "wallet"
      /\ driver[d].tx \in DOMAIN transfers /\ transfers[driver[d].tx].offer = Len(journal)
  BY <1>1, <1>3 DEF Drives
<1> DEFINE x == driver[d].tx
<1>5. x # 0 /\ x \in Nat
  BY <1>4, Sequences
<1> HIDE DEF x
<1> PICK b \in BOOLEAN : b = TRUE
  OBVIOUS
<1> DEFINE r == [Last EXCEPT !.state = "broadcast", !.tx = x, !.raw = b]
<1>6. /\ r \in RecordType /\ r.state = "broadcast" /\ r.covers = Last.covers /\ r.read = Last.read
      /\ r.cutoff = Last.cutoff /\ r.pending = Last.pending /\ r.tx = x
      /\ r.attempts = Last.attempts
  <2>1. x \in Nat /\ "broadcast" \in JournalState
    BY <1>5 DEF JournalState
  <2> QED
    BY <1>3, <2>1 DEF RecordType
<1>7. Advance(d, r)
  BY <1>3 DEF JournalSigned, x
<1> HIDE DEF r
<1>8. Sound(r) /\ ~Terminal(r) /\ Last.tx = 0
  BY <1>3, <1>4, <1>5, <1>6 DEF Sound, Terminal
<1>9. \A t \in Nat : Names(r, t) =>
          \/ Names(Last, t)
          \/ t \in DOMAIN transfers' /\ transfers'[t].offer = Len(journal)
  BY <1>1, <1>4, <1>6 DEF Names, x
<1>10. Last.state \in PaidState
  BY <1>4 DEF PaidState
<1>11. /\ JournalStep /\ GoroutineStep(d)
       /\ driver'[d] \in Goroutine
  BY <1>1, <1>2, <1>6, <1>7, <1>8, <1>9, <1>10, Advances
<1> QED
  BY <1>1, <1>2, <1>11, CombineLocal

LEMMA JournalQueuedPreserves ==
    ASSUME IInv, NEW d \in Drivers, JournalQueued(d)
    PROVE  IInv'
<1>1. /\ driver[d].pc = "queued" /\ clock' = clock /\ transfers' = transfers
      /\ UNCHANGED <<mode, ledgers, requests, bounds>>
  BY DEF JournalQueued, At, history, bounds
<1>2. driver[d].pc \notin Unlocked /\ driver[d].pc # "calling" /\ TransfersStep
  BY <1>1, NoWrites DEF Unlocked
<1>3. /\ Last \in RecordType /\ LiveRec = Last /\ Sound(Last)
      /\ ~Terminal(Last) /\ Drives(d)
  BY <1>2, Locked
<1>4. Last.state = "paying" /\ mode = "approval" /\ Last.pending # 0
  <2>1. driver[d].rec \in RecordType /\ driver[d].tx \in Nat
    BY DEF IInv, TypesOK, Goroutine
  <2> QED
    BY <1>1, <1>3, <2>1 DEF Drives, RecordType
<1> DEFINE r == [Last EXCEPT !.state = "awaiting_approval"]
<1>5. /\ r \in RecordType /\ r.state = "awaiting_approval" /\ r.covers = Last.covers /\ r.read = Last.read
      /\ r.cutoff = Last.cutoff /\ r.pending = Last.pending /\ r.tx = Last.tx
      /\ r.attempts = Last.attempts
  BY <1>3 DEF RecordType, JournalState
<1>6. Advance(d, r)
  BY <1>3 DEF JournalQueued
<1> HIDE DEF r
<1>7. Sound(r) /\ ~Terminal(r)
  BY <1>3, <1>4, <1>5 DEF Sound, Terminal
<1>8. \A t \in Nat : Names(r, t) => Names(Last, t)
  BY <1>5 DEF Names
<1>9. Last.state \in PaidState
  BY <1>4 DEF PaidState
<1>10. /\ JournalStep /\ GoroutineStep(d)
       /\ driver'[d] \in Goroutine
  BY <1>1, <1>2, <1>5, <1>6, <1>7, <1>8, <1>9, Advances
<1> QED
  BY <1>1, <1>2, <1>10, CombineLocal

LEMMA PollQueuePreserves ==
    ASSUME IInv, NEW d \in Drivers, PollQueue(d)
    PROVE  IInv'
<1>1. /\ driver[d].pc = "drive" /\ driver[d].rec.state = "awaiting_approval"
      /\ clock' = clock /\ transfers' = transfers
      /\ UNCHANGED <<mode, ledgers, requests, bounds>>
  BY DEF PollQueue, InState, At, history, bounds
<1>2. /\ driver[d].pc \notin Unlocked /\ driver[d].pc # "calling"
      /\ driver[d].pc \notin {"queue", "queued"} /\ TransfersStep
  BY <1>1, NoWrites DEF Unlocked
<1>3. /\ Last \in RecordType /\ Last = driver[d].rec /\ LiveRec = Last /\ Sound(Last)
      /\ ~Terminal(Last)
  BY <1>2, Locked
<1>4. ASSUME Return(d), JournalStep
      PROVE  IInv'
  <2>1. GoroutineStep(d) /\ driver'[d] \in Goroutine
    BY <1>2, <1>4, Leaves
  <2> QED
    BY <1>1, <1>2, <1>4, <2>1, CombineLocal
<1>5. CASE Return(d) /\ UNCHANGED journal
  BY <1>1, <1>4, <1>5, NoWrites
<1>6. CASE Close(d, "failed")
  <2>1. JournalStep /\ Return(d)
    BY <1>1, <1>2, <1>6, Ends
  <2> QED
    BY <1>4, <2>1
<1>7. CASE Retry(d)
  <2>1. JournalStep /\ Return(d)
    BY <1>1, <1>2, <1>7, Retries
  <2> QED
    BY <1>4, <2>1
<1>8. CASE Advance(d, [LiveRec EXCEPT !.state = "broadcast", !.tx = driver[d].rec.pending])
  <2> DEFINE x == Last.pending
  <2>1. x \in Nat
    BY <1>3 DEF RecordType
  <2> HIDE DEF x
  <2> DEFINE r == [Last EXCEPT !.state = "broadcast", !.tx = x]
  <2>2. /\ r \in RecordType /\ r.state = "broadcast" /\ r.covers = Last.covers /\ r.read = Last.read
        /\ r.cutoff = Last.cutoff /\ r.pending = Last.pending /\ r.tx = x
        /\ r.attempts = Last.attempts
    BY <1>3, <2>1 DEF RecordType, JournalState
  <2>3. Advance(d, r)
    BY <1>3, <1>8 DEF x
  <2> HIDE DEF r
  <2>4. Sound(r) /\ ~Terminal(r) /\ Last.tx = 0
    BY <1>1, <1>3, <2>2 DEF Sound, Terminal, x
  <2>5. \A t \in Nat : Names(r, t) => Names(Last, t)
    BY <2>2 DEF Names, x
  <2>6. Last.state \in PaidState
    BY <1>1, <1>3 DEF PaidState
  <2>7. /\ JournalStep /\ GoroutineStep(d)
        /\ driver'[d] \in Goroutine
    BY <1>1, <1>2, <2>2, <2>3, <2>4, <2>5, <2>6, Advances
  <2> QED
    BY <1>1, <1>2, <2>7, CombineLocal
<1> QED
  BY <1>5, <1>6, <1>7, <1>8 DEF PollQueue

EntryStatus == {"none", "pending", "approved", "sent", "refused", "failed"}
ExecutorStatus == {"none", "signing", "sent", "failed"}

Written(p, state, entry, executor) ==
    [p EXCEPT !.state = state, !.entry = entry, !.executor = executor]

\* The state of one payment changes.
LEMMA PaymentChanges ==
    ASSUME IInv, NEW x \in DOMAIN transfers,
           NEW s \in {"made"} \cup OnChain, NEW e \in EntryStatus, NEW u \in ExecutorStatus,
           transfers' = [transfers EXCEPT ![x] = Written(transfers[x], s, e, u)],
           transfers[x].state = "mined" => s = "mined",
           u # "none" => e = "approved",
           \/ s = "made" /\ e \notin {"pending", "approved"}
           \/ Submitted(x)
           \/ x \in {journal[transfers[x].offer].pending, journal[transfers[x].offer].tx}
    PROVE  TransfersStep
<1> DEFINE p == Written(transfers[x], s, e, u)
<1>1. transfers[x] \in Payment
  BY Sequences
<1>2. /\ p \in Payment /\ p.offer = transfers[x].offer /\ p.covers = transfers[x].covers
      /\ p.state = s /\ p.entry = e /\ p.executor = u
  BY <1>1 DEF Payment, EntryStatus, ExecutorStatus, Written
<1>3. transfers' = [transfers EXCEPT ![x] = p]
  OBVIOUS
<1> HIDE DEF p
<1>4. PaymentMoves(x, p)
  BY <1>2, <1>3 DEF PaymentMoves
<1> QED
  BY <1>2, <1>4 DEF TransfersStep

LEMMA PaymentFields ==
    ASSUME NEW p \in Payment
    PROVE  /\ p.state \in {"made"} \cup OnChain
           /\ p.entry \in EntryStatus /\ p.executor \in ExecutorStatus
BY DEF Payment, EntryStatus, ExecutorStatus

\* A step of the approval queue or of the chain moves one payment that has been
\* submitted, or whose approval is being carried out.
LEMMA ChainMoves ==
    ASSUME NEW t \in DOMAIN transfers, NEW p \in Payment, p = transfers[t],
           QueueStep(t) \/ Chain(t)
    PROVE  /\ p.entry \in {"pending", "approved"} \/ p.state \in OnChain \/ p.executor # "none"
           /\ \E s \in {"made"} \cup OnChain, e \in EntryStatus, u \in ExecutorStatus :
                 /\ transfers' = [transfers EXCEPT ![t] = Written(p, s, e, u)]
                 /\ p.state = "mined" => s = "mined"
                 /\ (p.executor # "none" => p.entry = "approved")
                       => (u # "none" => e = "approved")
<1>1. /\ p.state \in {"made"} \cup OnChain
      /\ p.entry \in EntryStatus /\ p.executor \in ExecutorStatus
  BY PaymentFields
<1>2. CASE Resolve(t)
  <2>1. /\ p.entry = "pending"
        /\ \/ transfers' = [transfers EXCEPT ![t] = [p EXCEPT !.entry = "approved", !.executor = "signing"]]
           \/ transfers' = [transfers EXCEPT ![t] = [p EXCEPT !.entry = "refused"]]
    BY <1>2 DEF Resolve
  <2>2. /\ "approved" \in EntryStatus /\ "refused" \in EntryStatus
        /\ "signing" \in ExecutorStatus
    BY DEF EntryStatus, ExecutorStatus
  <2>3. CASE transfers' = [transfers EXCEPT ![t] = [p EXCEPT !.entry = "approved", !.executor = "signing"]]
    <3>0. [p EXCEPT !.entry = "approved", !.executor = "signing"]
              = Written(p, p.state, "approved", "signing")
      BY DEF Written, Payment
    <3>1. transfers' = [transfers EXCEPT ![t] = Written(p, p.state, "approved", "signing")]
      BY <2>3, <3>0
    <3> QED
      BY <1>1, <2>1, <2>2, <3>1
  <2>4. CASE transfers' = [transfers EXCEPT ![t] = [p EXCEPT !.entry = "refused"]]
    <3>0. [p EXCEPT !.entry = "refused"] = Written(p, p.state, "refused", p.executor)
      BY DEF Written, Payment
    <3>1. transfers' = [transfers EXCEPT ![t] = Written(p, p.state, "refused", p.executor)]
      BY <2>4, <3>0
    <3> QED
      BY <1>1, <2>1, <2>2, <3>1
  <2> QED
    BY <2>1, <2>3, <2>4
<1>3. CASE ExecuteApproved(t)
  <2>1. p.executor = "signing"
    BY <1>3 DEF ExecuteApproved
  <2>2. PICK result \in {"sent", "failed"}, s \in {p.state, "sent"} :
            /\ transfers' = [transfers EXCEPT ![t] = [p EXCEPT !.executor = result, !.state = s]]
            /\ p.state # "made" => s = p.state
    BY <1>3 DEF ExecuteApproved
  <2>3. [p EXCEPT !.executor = result, !.state = s] = Written(p, s, p.entry, result)
    BY DEF Written, Payment
  <2>4. s \in {"made"} \cup OnChain /\ result \in ExecutorStatus
    BY <1>1 DEF OnChain, ExecutorStatus
  <2>5. transfers' = [transfers EXCEPT ![t] = Written(p, s, p.entry, result)]
    BY <2>2, <2>3
  <2>6. p.state = "mined" => s = "mined"
    BY <2>2
  <2> QED
    BY <1>1, <2>1, <2>4, <2>5, <2>6
<1>4. CASE Complete(t)
  <2>1. /\ p.executor \in {"sent", "failed"}
        /\ transfers' = [transfers EXCEPT ![t] = [p EXCEPT !.entry = p.executor, !.executor = "none"]]
    BY <1>4 DEF Complete
  <2>2. [p EXCEPT !.entry = p.executor, !.executor = "none"] = Written(p, p.state, p.executor, "none")
    BY DEF Written, Payment
  <2>3. p.executor \in EntryStatus /\ "none" \in ExecutorStatus
    BY <2>1 DEF EntryStatus, ExecutorStatus
  <2>4. transfers' = [transfers EXCEPT ![t] = Written(p, p.state, p.executor, "none")]
    BY <2>1, <2>2
  <2> QED
    BY <1>1, <2>1, <2>3, <2>4
<1>5. CASE ExecutorDies(t)
  <2>1. /\ p.executor # "none"
        /\ transfers' = [transfers EXCEPT ![t] = [p EXCEPT !.executor = "none"]]
    BY <1>5 DEF ExecutorDies
  <2>2. [p EXCEPT !.executor = "none"] = Written(p, p.state, p.entry, "none")
    BY DEF Written, Payment
  <2>3. "none" \in ExecutorStatus
    BY DEF ExecutorStatus
  <2>4. transfers' = [transfers EXCEPT ![t] = Written(p, p.state, p.entry, "none")]
    BY <2>1, <2>2
  <2>5. p.executor # "none"
    BY <2>1
  <2> QED
    BY <1>1, <2>3, <2>4, <2>5
<1>6. CASE Chain(t)
  <2>1. PICK s \in {"mined", "reverted"} :
            transfers' = [transfers EXCEPT ![t] = [p EXCEPT !.state = s]]
    BY <1>6 DEF Chain
  <2>2. [p EXCEPT !.state = s] = Written(p, s, p.entry, p.executor)
    BY DEF Written, Payment
  <2>3. p.state = "sent" /\ p.state \in OnChain /\ s \in OnChain
    BY <1>6 DEF Chain, OnChain
  <2>4. transfers' = [transfers EXCEPT ![t] = Written(p, s, p.entry, p.executor)]
    BY <2>1, <2>2
  <2> QED
    BY <1>1, <2>3, <2>4
<1> QED
  BY <1>2, <1>3, <1>4, <1>5, <1>6 DEF QueueStep

\* A payment is made for the record that is being driven.
LEMMA Signs ==
    ASSUME IInv, NEW d \in Drivers, driver[d].pc = "drive", driver[d].rec.state = "paying",
           Len(transfers) < MaxTransfers, transfers' = Append(transfers, NewTransfer(d))
    PROVE  /\ TransfersStep
           /\ Len(transfers) + 1 \in DOMAIN transfers' /\ Len(transfers) + 1 \in Nat \ {0}
           /\ transfers'[Len(transfers) + 1].offer = Len(journal)
<1> DEFINE p == NewTransfer(d)
<1>1. driver[d].pc \notin Unlocked
  BY DEF Unlocked
<1>2. /\ Len(journal) \in Nat \ {0} /\ Len(journal) \in DOMAIN journal /\ ~Terminal(Last)
      /\ Last \in RecordType /\ Last = driver[d].rec /\ Last.cutoff = Len(journal)
  BY <1>1, Locked
<1>3. Disjoint(Len(journal))
  BY <1>2 DEF IInv, BooksOK, Last
<1>4. /\ p.offer = Len(journal) /\ p.covers = Last.covers
      /\ p.state = "made" /\ p.entry = "none" /\ p.executor = "none"
  BY <1>2 DEF NewTransfer
<1>6. p \in Payment
  BY <1>2 DEF NewTransfer, Payment, RecordType
<1>7. transfers \in Seq(Payment) /\ Len(transfers) \in Nat
  BY Sequences DEF IInv, TypesOK, TransfersTypeOK
<1>8. transfers' = Append(transfers, p)
  OBVIOUS
<1> HIDE DEF p
<1>9. /\ DOMAIN transfers' = 1..Len(transfers) + 1 /\ transfers'[Len(transfers) + 1] = p
  BY <1>6, <1>7, <1>8, AppendProperties
<1>10. Pays(p)
  BY <1>2, <1>3, <1>4, <1>8 DEF Pays
<1> QED
  BY <1>4, <1>6, <1>7, <1>9, <1>10, SettleAssumptions DEF TransfersStep

LEMMA NewTx ==
    ASSUME IInv, NEW d \in Drivers, NEW p \in {"signed", "queue"}, NEW x \in Nat,
           driver' = [driver EXCEPT ![d].pc = p, ![d].tx = x]
    PROVE  /\ driver' = [driver EXCEPT ![d] = driver'[d]]
           /\ driver'[d] \in Goroutine /\ driver'[d].pc = p
           /\ driver'[d].rec = driver[d].rec /\ driver'[d].tx = x
<1>1. driver \in [Drivers -> Goroutine] /\ driver[d] \in Goroutine
  BY DEF IInv, TypesOK
<1>2. driver'[d] = [driver[d] EXCEPT !.pc = p, !.tx = x] /\ driver' = [driver EXCEPT ![d] = driver'[d]]
  BY <1>1
<1>3. driver'[d] \in Goroutine
  BY <1>1, <1>2 DEF Goroutine
<1> QED
  BY <1>1, <1>2, <1>3 DEF Goroutine

LEMMA SignRawPreserves ==
    ASSUME IInv, NEW d \in Drivers, SignRaw(d)
    PROVE  IInv'
<1>1. /\ driver[d].pc = "drive" /\ driver[d].rec.state = "paying" /\ mode = "wallet"
      /\ clock' = clock /\ UNCHANGED <<mode, ledgers, requests, bounds>>
  BY DEF SignRaw, InState, At, history, bounds
<1>2. driver[d].pc \notin Unlocked /\ driver[d].pc # "calling"
  BY <1>1 DEF Unlocked
<1>3. /\ Len(journal) \in Nat \ {0} /\ ~Terminal(Last) /\ Last = driver[d].rec
  BY <1>1, <1>2, Locked
<1>4. ASSUME Len(transfers) < MaxTransfers, journal' = journal,
             transfers' = Append(transfers, NewTransfer(d)),
             driver' = [driver EXCEPT ![d].pc = "signed", ![d].tx = Len(transfers) + 1]
      PROVE  IInv'
  <2>1. /\ TransfersStep /\ JournalStep
        /\ Len(transfers) + 1 \in DOMAIN transfers' /\ Len(transfers) + 1 \in Nat \ {0}
        /\ transfers'[Len(transfers) + 1].offer = Len(journal)
    BY <1>1, <1>4, Signs, NoWrites
  <2>2. PICK x \in Nat : x = Len(transfers) + 1
    BY <2>1
  <2>3. /\ driver' = [driver EXCEPT ![d] = driver'[d]]
        /\ driver'[d] \in Goroutine /\ driver'[d].pc = "signed"
        /\ driver'[d].rec = driver[d].rec /\ driver'[d].tx = x
    BY <1>4, <2>2, NewTx
  <2>4. Drives(d)'
    <3>1. Last' = Last /\ Len(journal') > 0 /\ ~Terminal(Last') /\ Len(journal') = Len(journal)
      BY <1>3, <1>4 DEF Last
    <3>2. mode' = "wallet"
      BY <1>1
    <3> QED
      BY <1>1, <1>3, <2>1, <2>2, <2>3, <3>1, <3>2 DEF Drives, Terminal
  <2>5. GoroutineStep(d)
    BY <1>2, <2>3, <2>4 DEF GoroutineStep
  <2> QED
    BY <1>1, <1>2, <2>1, <2>3, <2>5, CombineLocal
<1>5. CASE Close(d, "failed") /\ UNCHANGED transfers
  <2>1. TransfersStep
    BY <1>5, NoWrites
  <2>2. JournalStep /\ Return(d)
    BY <1>1, <1>2, <1>5, <2>1, Ends
  <2>3. GoroutineStep(d) /\ driver'[d] \in Goroutine
    BY <1>2, <2>2, Leaves
  <2> QED
    BY <1>1, <1>2, <2>1, <2>2, <2>3, CombineLocal
<1> QED
  BY <1>4, <1>5 DEF SignRaw

LEMMA MintPendingIDPreserves ==
    ASSUME IInv, NEW d \in Drivers, MintPendingID(d)
    PROVE  IInv'
<1>1. /\ driver[d].pc = "drive" /\ driver[d].rec.state = "paying" /\ mode = "approval"
      /\ clock' = clock /\ UNCHANGED <<mode, ledgers, requests, bounds>>
  BY DEF MintPendingID, InState, At, history, bounds
<1>2. driver[d].pc \notin Unlocked /\ driver[d].pc # "calling"
  BY <1>1 DEF Unlocked
<1>3. /\ Len(journal) \in Nat \ {0} /\ ~Terminal(Last) /\ Last = driver[d].rec
      /\ Last \in RecordType /\ Sound(Last) /\ LiveRec = Last /\ LiveAt # {}
  BY <1>1, <1>2, Locked
<1>4. mode' = "approval"
  BY <1>1
<1>5. ASSUME NEW x \in Nat, x # 0, JournalStep, TransfersStep,
             driver' = [driver EXCEPT ![d].pc = "queue", ![d].tx = x],
             Len(journal') = Len(journal), Last' = [Last EXCEPT !.pending = x]
      PROVE  IInv'
  <2>1. /\ driver' = [driver EXCEPT ![d] = driver'[d]]
        /\ driver'[d] \in Goroutine /\ driver'[d].pc = "queue"
        /\ driver'[d].rec = driver[d].rec /\ driver'[d].tx = x
    BY <1>5, NewTx
  <2>2. ~Terminal(Last') /\ Len(journal') > 0
    BY <1>1, <1>3, <1>5 DEF Terminal, RecordType
  <2>3. Drives(d)'
    BY <1>1, <1>3, <1>4, <1>5, <2>1, <2>2 DEF Drives, Terminal
  <2>4. GoroutineStep(d)
    BY <1>2, <2>1, <2>3 DEF GoroutineStep
  <2> QED
    BY <1>1, <1>2, <1>5, <2>1, <2>4, CombineLocal
<1>6. CASE /\ driver[d].rec.pending # 0
           /\ driver' = [driver EXCEPT ![d].pc = "queue", ![d].tx = driver[d].rec.pending]
           /\ UNCHANGED <<journal, transfers>>
  <2>1. JournalStep /\ TransfersStep
    BY <1>1, <1>6, NoWrites
  <2>2. PICK x \in Nat : x = Last.pending
    BY <1>3 DEF RecordType
  <2>3. Last' = [Last EXCEPT !.pending = x] /\ Len(journal') = Len(journal)
    BY <1>3, <1>6, <2>2 DEF Last, RecordType
  <2> QED
    BY <1>3, <1>5, <1>6, <2>1, <2>2, <2>3
<1>7. ASSUME driver[d].rec.pending = 0, Len(transfers) < MaxTransfers,
             transfers' = Append(transfers, NewTransfer(d)),
             Update([LiveRec EXCEPT !.pending = Len(transfers) + 1]),
             driver' = [driver EXCEPT ![d].pc = "queue", ![d].tx = Len(transfers) + 1]
      PROVE  IInv'
  <2>1. /\ TransfersStep
        /\ Len(transfers) + 1 \in DOMAIN transfers' /\ Len(transfers) + 1 \in Nat \ {0}
        /\ transfers'[Len(transfers) + 1].offer = Len(journal)
    BY <1>1, <1>7, Signs
  <2>2. PICK x \in Nat : x = Len(transfers) + 1 /\ x # 0
    BY <2>1
  <2> DEFINE r == [Last EXCEPT !.pending = x]
  <2>3. /\ r \in RecordType /\ r.state = Last.state /\ r.covers = Last.covers /\ r.read = Last.read
        /\ r.cutoff = Last.cutoff /\ r.pending = x /\ r.tx = Last.tx /\ r.attempts = Last.attempts
    BY <1>3 DEF RecordType
  <2>4. Update(r)
    BY <1>3, <1>7, <2>2
  <2>5. /\ driver' = [driver EXCEPT ![d].pc = "queue", ![d].tx = x]
        /\ r = [Last EXCEPT !.pending = x]
    BY <1>7, <2>2
  <2> HIDE DEF r
  <2>6. Sound(r)
    BY <1>1, <1>3, <1>4, <2>3 DEF Sound, Terminal
  <2>7. \A t \in Nat : Names(r, t) => \/ Names(Last, t)
                                      \/ t \in DOMAIN transfers' /\ transfers'[t].offer = Len(journal)
    BY <2>1, <2>2, <2>3 DEF Names
  <2>8. Last.pending = 0 /\ Last.state = "paying" /\ Last.state \in PaidState
    BY <1>1, <1>3, <1>7 DEF PaidState
  <2>9. JournalStep /\ Len(journal') = Len(journal) /\ Last' = r
    BY <1>1, <1>2, <2>1, <2>3, <2>4, <2>6, <2>7, <2>8, Moves
  <2> QED
    BY <1>5, <2>1, <2>2, <2>5, <2>9
<1> QED
  BY <1>3, <1>6, <1>7 DEF MintPendingID

LEMMA QueuePreserves ==
    ASSUME IInv, NEW d \in Drivers, Queue(d)
    PROVE  IInv'
<1>1. /\ driver[d].pc = "queue" /\ clock' = clock /\ UNCHANGED <<mode, ledgers, requests, bounds>>
  BY DEF Queue, At, history, bounds
<1>2. driver[d].pc \notin Unlocked /\ driver[d].pc # "calling"
  BY <1>1 DEF Unlocked
<1>3. /\ Len(journal) \in Nat \ {0} /\ ~Terminal(Last) /\ Last \in RecordType
      /\ RecordOK(Len(journal)) /\ Drives(d)
  BY <1>2, Locked
<1>4. /\ Last = [driver[d].rec EXCEPT !.pending = driver[d].tx]
      /\ driver[d].tx # 0 /\ driver[d].rec.state = "paying" /\ mode = "approval"
  BY <1>1, <1>3 DEF Drives
<1>5. PICK x \in Nat \ {0} : x = driver[d].tx
  BY <1>4, SettleAssumptions DEF IInv, TypesOK, Goroutine
<1>6. Last.pending = x
  BY <1>4, <1>5 DEF IInv, TypesOK, Goroutine, RecordType
<1>7. x \in DOMAIN transfers /\ transfers[x].offer = Len(journal) /\ transfers[x] \in Payment
  <2>1. Names(Last, x)
    BY <1>6 DEF Names
  <2> QED
    BY <1>3, <2>1, Sequences DEF RecordOK, Last
<1>8. CASE /\ transfers' = [transfers EXCEPT ![driver[d].tx].entry =
                                IF @ = "none" THEN "pending" ELSE @]
           /\ driver' = [driver EXCEPT ![d].pc = "queued"]
           /\ UNCHANGED journal
  <2> DEFINE p == transfers[x]
  <2>1. PICK e \in EntryStatus : e = IF p.entry = "none" THEN "pending" ELSE p.entry
    BY <1>7, PaymentFields DEF EntryStatus
  <2>2. transfers' = [transfers EXCEPT ![x] = [p EXCEPT !.entry = e]]
    BY <1>5, <1>7, <1>8, <2>1
  <2>3. p.executor # "none" => e = "approved"
    BY <1>7, <2>1 DEF IInv, TransfersOK
  <2>4. x \in {journal[p.offer].pending, journal[p.offer].tx}
    BY <1>6, <1>7 DEF Last
  <2>5. TransfersStep
    <3>0. [p EXCEPT !.entry = e] = Written(p, p.state, e, p.executor)
      BY <1>7 DEF Written, Payment
    <3>1. transfers' = [transfers EXCEPT ![x] = Written(p, p.state, e, p.executor)]
      BY <2>2, <3>0
    <3> QED
      BY <1>7, <2>3, <2>4, <3>1, PaymentFields, PaymentChanges
  <2>6. JournalStep
    BY <1>1, <1>8, NoWrites
  <2>7. /\ driver' = [driver EXCEPT ![d] = driver'[d]]
        /\ driver'[d] \in Goroutine /\ driver'[d].pc = "queued"
        /\ driver'[d].rec = driver[d].rec /\ driver'[d].tx = driver[d].tx
    BY <1>8, NewPC
  <2>8. Drives(d)'
    <3>1. Last' = Last /\ Len(journal') > 0 /\ ~Terminal(Last') /\ mode' = mode
      BY <1>1, <1>3, <1>8 DEF Last
    <3> QED
      BY <1>4, <2>7, <3>1 DEF Drives, Terminal
  <2>9. GoroutineStep(d)
    BY <1>2, <2>7, <2>8 DEF GoroutineStep
  <2> QED
    BY <1>1, <1>2, <2>5, <2>6, <2>7, <2>9, CombineLocal
<1>9. CASE Close(d, "failed") /\ UNCHANGED transfers
  <2>1. TransfersStep
    BY <1>9, NoWrites
  <2>2. JournalStep /\ Return(d)
    BY <1>1, <1>2, <1>9, <2>1, Ends
  <2>3. GoroutineStep(d) /\ driver'[d] \in Goroutine
    BY <1>2, <2>2, Leaves
  <2> QED
    BY <1>1, <1>2, <2>1, <2>2, <2>3, CombineLocal
<1> QED
  BY <1>8, <1>9 DEF Queue

\* The hash a broadcast record carries is that of its payment.
LEMMA HashNamed ==
    ASSUME IInv, NEW d \in Drivers, driver[d].pc \notin Unlocked, driver[d].pc \notin {"queue", "queued"},
           driver[d].rec.state = "broadcast"
    PROVE  /\ driver[d].rec.tx \in DOMAIN transfers
           /\ transfers[driver[d].rec.tx].offer = Len(journal)
           /\ transfers[driver[d].rec.tx].covers = driver[d].rec.covers
           /\ driver[d].rec.tx = journal[Len(journal)].tx
<1>1. /\ Last = driver[d].rec /\ Last \in RecordType /\ RecordOK(Len(journal)) /\ Sound(Last)
  BY Locked
<1>2. Last.tx \in Nat /\ Names(Last, Last.tx)
  BY <1>1 DEF Sound, Names, RecordType
<1>3. Last.tx \in DOMAIN transfers /\ transfers[Last.tx].offer = Len(journal)
  BY <1>1, <1>2 DEF RecordOK, Last
<1>4. transfers[Last.tx].covers = Last.covers
  BY <1>3 DEF IInv, TransfersOK, Last
<1> QED
  BY <1>1, <1>2, <1>3, <1>4 DEF Last

LEMMA SendPhase2Preserves ==
    ASSUME IInv, NEW d \in Drivers, SendPhase2(d)
    PROVE  IInv'
<1>1. /\ driver[d].pc = "drive" /\ driver[d].rec.state = "broadcast"
      /\ clock' = clock /\ UNCHANGED <<mode, ledgers, bounds>>
  BY DEF SendPhase2, InState, At, history, bounds
<1>2. /\ driver[d].pc \notin Unlocked /\ driver[d].pc # "calling"
      /\ driver[d].pc \notin {"queue", "queued"}
  BY <1>1 DEF Unlocked
<1>3. PICK x \in DOMAIN transfers : x = driver[d].rec.tx
  BY <1>1, <1>2, HashNamed
<1>4. /\ x \in DOMAIN transfers /\ transfers[x].offer = Len(journal) /\ x = journal[Len(journal)].tx
      /\ transfers[x] \in Payment
  BY <1>1, <1>2, <1>3, HashNamed, Sequences
<1>5. ASSUME NEW b \in BOOLEAN,
             transfers' = [transfers EXCEPT ![driver[d].rec.tx].state = IF @ = "made" /\ b THEN "sent" ELSE @]
      PROVE  TransfersStep
  <2> DEFINE p == transfers[x]
  <2>1. PICK s \in {"made"} \cup OnChain : s = IF p.state = "made" /\ b THEN "sent" ELSE p.state
    BY <1>4 DEF Payment, OnChain
  <2>2. transfers' = [transfers EXCEPT ![x] = [p EXCEPT !.state = s]]
    BY <1>3, <1>4, <1>5, <2>1
  <2>3. p.state = "mined" => s = "mined"
    BY <2>1
  <2>4. p.executor # "none" => p.entry = "approved"
    BY DEF IInv, TransfersOK
  <2>5. transfers' = [transfers EXCEPT ![x] = Written(p, s, p.entry, p.executor)]
    <3>1. [p EXCEPT !.state = s] = Written(p, s, p.entry, p.executor)
      BY <1>4 DEF Written, Payment
    <3> QED
      BY <2>2, <3>1
  <2>6. x \in {journal[p.offer].pending, journal[p.offer].tx}
    BY <1>4
  <2> QED
    BY <1>4, <2>3, <2>4, <2>5, <2>6, PaymentFields, PaymentChanges
<1>6. CASE /\ transfers' = [transfers EXCEPT ![driver[d].rec.tx].state =
                                IF @ = "made" /\ driver[d].rec.raw THEN "sent" ELSE @]
           /\ Call(d, 2, driver[d].rec.tx)
           /\ UNCHANGED journal
  <2>1. driver[d].rec.raw \in BOOLEAN
    BY DEF IInv, TypesOK, Goroutine, RecordType
  <2>2. TransfersStep /\ JournalStep
    BY <1>1, <1>5, <1>6, <2>1, NoWrites
  <2>3. x \in Nat /\ Call(d, 2, x)
    BY <1>3, <1>6, Sequences
  <2>4. /\ RequestsOK' /\ requests' \subseteq Request /\ GoroutineStep(d)
        /\ driver'[d] \in Goroutine
    BY <1>1, <1>3, <1>6, <2>2, <2>3, Calls
  <2> QED
    BY <1>1, <2>2, <2>4, CombineDrive
<1>7. CASE /\ \E landed \in BOOLEAN :
                  transfers' = [transfers EXCEPT ![driver[d].rec.tx].state =
                                    IF @ = "made" /\ landed THEN "sent" ELSE @]
           /\ Retry(d)
           /\ UNCHANGED requests
  <2>1. TransfersStep
    BY <1>5, <1>7
  <2>2. JournalStep /\ Return(d)
    BY <1>1, <1>2, <1>7, <2>1, Retries
  <2>3. GoroutineStep(d) /\ driver'[d] \in Goroutine
    BY <1>2, <2>2, Leaves
  <2> QED
    BY <1>1, <1>2, <1>7, <2>1, <2>2, <2>3, CombineLocal
<1> QED
  BY <1>6, <1>7 DEF SendPhase2

LEMMA Phase2AnsweredPreserves ==
    ASSUME IInv, NEW d \in Drivers, Phase2Answered(d)
    PROVE  IInv'
<1>1. /\ driver[d].pc = "answered" /\ driver[d].rec.state = "broadcast"
      /\ clock' = clock /\ transfers' = transfers /\ UNCHANGED <<mode, ledgers, requests, bounds>>
  BY DEF Phase2Answered, At, history, bounds
<1>2. /\ driver[d].pc \notin Unlocked /\ driver[d].pc # "calling"
      /\ driver[d].pc \notin {"queue", "queued"} /\ TransfersStep
  BY <1>1, NoWrites DEF Unlocked
<1>3. ASSUME JournalStep, Return(d)
      PROVE  IInv'
  <2>1. GoroutineStep(d) /\ driver'[d] \in Goroutine
    BY <1>2, <1>3, Leaves
  <2> QED
    BY <1>1, <1>2, <1>3, <2>1, CombineLocal
<1>4. CASE Close(d, "rejected")
  <2>1. JournalStep /\ Return(d)
    BY <1>1, <1>2, <1>4, Ends
  <2> QED
    BY <1>3, <2>1
<1>5. CASE Retry(d)
  <2>1. JournalStep /\ Return(d)
    BY <1>1, <1>2, <1>5, Retries
  <2> QED
    BY <1>3, <2>1
<1>6. CASE driver[d].resp = "ack" /\ driver' = [driver EXCEPT ![d].pc = "acked"] /\ UNCHANGED journal
  <2>1. JournalStep
    BY <1>1, <1>6, NoWrites
  <2>2. /\ driver' = [driver EXCEPT ![d] = driver'[d]]
        /\ driver'[d] \in Goroutine /\ driver'[d].pc = "acked"
        /\ driver'[d].rec = driver[d].rec
    BY <1>6, NewPC
  <2>3. /\ Len(journal) \in Nat \ {0} /\ ~Terminal(Last) /\ Last = driver[d].rec /\ Drives(d)
    BY <1>1, <1>2, Locked
  <2>4. \A e \in driver[d].rec.covers : Closed(e, driver[d].rec.tx)
    BY <1>1, <1>6, <2>3 DEF Drives
  <2>5. receivable' = receivable
    BY <1>1 DEF ledgers
  <2>6. Drives(d)'
    <3>1. Last' = Last /\ Len(journal') > 0 /\ ~Terminal(Last')
      BY <1>6, <2>3 DEF Last
    <3> QED
      BY <1>1, <2>2, <2>3, <2>4, <2>5, <3>1 DEF Drives, Terminal, Closed
  <2>7. GoroutineStep(d)
    BY <1>2, <2>2, <2>6 DEF GoroutineStep
  <2> QED
    BY <1>1, <1>2, <2>1, <2>2, <2>7, CombineLocal
<1> QED
  BY <1>4, <1>5, <1>6 DEF Phase2Answered

\* Rows are closed behind the payee: a row that the payment covers is closed
\* there already.
LEMMA Marks ==
    ASSUME IInv, NEW d \in Drivers, NEW done \in SUBSET Due(driver[d].rec), MarkPayables(d, done)
    PROVE  /\ PayableStep /\ ReceivableStep /\ LedgersTypeOK'
           /\ driver[d].pc = "acked" /\ journal' = journal /\ clock' = clock /\ transfers' = transfers
           /\ mode' = mode /\ receivable' = receivable /\ requests' = requests
           /\ crashes' = crashes /\ disputes' = disputes
           /\ \A e \in Entries : payable'[e] = payable[e] \/
                  (e \in Due(driver[d].rec) /\ payable'[e].tx = driver[d].rec.tx)
<1>1. /\ driver[d].pc = "acked" /\ journal' = journal /\ clock' = clock /\ transfers' = transfers
      /\ mode' = mode /\ receivable' = receivable /\ requests' = requests
      /\ crashes' = crashes /\ disputes' = disputes
      /\ payable' = [e \in Entries |->
             IF e \in done THEN Payable(e, "settled", driver[d].rec.tx) ELSE payable[e]]
  BY DEF MarkPayables, At, history
<1>2. driver[d].pc \notin Unlocked /\ driver[d].pc \notin {"queue", "queued"}
  BY <1>1 DEF Unlocked
<1>3. Drives(d) /\ driver[d].rec.state = "broadcast"
  BY <1>1, <1>2, Locked DEF Drives
<1>4. PICK x \in DOMAIN transfers : x = driver[d].rec.tx
  BY <1>2, <1>3, HashNamed
<1>5. x \in DOMAIN transfers /\ transfers[x].covers = driver[d].rec.covers
  BY <1>2, <1>3, <1>4, HashNamed
<1>6. \A e \in transfers[x].covers : Closed(e, x)
  BY <1>1, <1>3, <1>4, <1>5 DEF Drives
<1>7. \A e \in done : /\ e \in Entries /\ payable[e].st = "accrued"
                      /\ e \in Due(driver[d].rec)
                      /\ Payable(e, "settled", x) = [st |-> "settled", ts |-> clock, tx |-> x]
  BY DEF Due, Accrued, Payable, ValidMove
<1>8. \A e \in Entries :
          IF e \in done THEN payable'[e] = [st |-> "settled", ts |-> clock, tx |-> x]
                        ELSE payable'[e] = payable[e]
  BY <1>1, <1>4, <1>7
<1>9. PayableStep
  BY <1>5, <1>6, <1>7, <1>8 DEF PayableStep
<1>10. LedgersTypeOK'
  <2>1. payable \in [Entries -> [st : EntryState, ts : Nat, tx : Nat]]
    BY DEF IInv, TypesOK, LedgersTypeOK
  <2>2. clock \in Nat /\ x \in Nat
    BY <1>5, Sequences DEF IInv, JournalOK
  <2>3. [st |-> "settled", ts |-> clock, tx |-> x] \in
            [st : EntryState, ts : Nat, tx : Nat]
    BY <2>2 DEF EntryState
  <2>4. \A e \in Entries : payable'[e] \in [st : EntryState, ts : Nat, tx : Nat]
    BY <1>8, <2>1, <2>3
  <2>5. payable' \in [Entries -> [st : EntryState, ts : Nat, tx : Nat]]
    BY <1>1, <2>4
  <2> QED
    BY <1>1, <2>5 DEF IInv, TypesOK, LedgersTypeOK
<1>11. ReceivableStep
  BY <1>1 DEF ReceivableStep
<1> QED
  BY <1>1, <1>4, <1>7, <1>8, <1>9, <1>10, <1>11

LEMMA CombineMarks ==
    ASSUME IInv, NEW d \in Drivers, NEW done \in SUBSET Due(driver[d].rec), MarkPayables(d, done),
           GoroutineStep(d), driver'[d] \in Goroutine
    PROVE  IInv'
<1>1. /\ PayableStep /\ ReceivableStep /\ LedgersTypeOK'
      /\ driver[d].pc = "acked" /\ journal' = journal /\ clock' = clock /\ transfers' = transfers
      /\ mode' = mode /\ requests' = requests /\ crashes' = crashes /\ disputes' = disputes
  BY Marks
<1>2. JournalStep /\ TransfersStep
  BY <1>1, NoWrites
<1>3. driver' \in [Drivers -> Goroutine] /\ \A f \in Drivers : f # d => driver'[f] = driver[f]
  BY DEF GoroutineStep, IInv, TypesOK
<1>5. LockOK'
  BY <1>1, <1>2, LockPreserved
<1>6. RequestsStep
  BY <1>1, NotWaiting DEF GoroutineStep
<1>7. RequestsOK'
  BY <1>2, <1>6, RequestsPreserved
<1>8. requests' \subseteq Request /\ crashes' \in 0..MaxCrashes /\ disputes' \in 0..MaxDisputes
  BY <1>1 DEF IInv, TypesOK
<1> QED
  BY <1>1, <1>2, <1>3, <1>5, <1>7, <1>8, Combine

LEMMA SettlePayablesPreserves ==
    ASSUME IInv, NEW d \in Drivers, SettlePayables(d)
    PROVE  IInv'
<1>1. PICK done \in SUBSET Due(driver[d].rec) : MarkPayables(d, done)
  BY DEF SettlePayables
<1>2. driver[d].pc = "acked" /\ journal' = journal /\ receivable' = receivable
  BY <1>1, Marks
<1>3. driver[d].pc \notin Unlocked
  BY <1>2 DEF Unlocked
<1>4. /\ driver' = [driver EXCEPT ![d] = driver'[d]]
      /\ driver'[d] \in Goroutine /\ driver'[d].pc = "settling"
      /\ driver'[d].rec = driver[d].rec
  BY NewPC DEF SettlePayables
<1>5. /\ Len(journal) \in Nat \ {0} /\ ~Terminal(Last) /\ Last = driver[d].rec /\ Drives(d)
  BY <1>2, <1>3, Locked
<1>6. /\ \A e \in driver[d].rec.covers : Closed(e, driver[d].rec.tx)
      /\ driver[d].rec.state = "broadcast"
  BY <1>2, <1>5 DEF Drives
<1>7. Drives(d)'
  <2>1. Last' = Last /\ Len(journal') > 0 /\ ~Terminal(Last')
    BY <1>2, <1>5 DEF Last
  <2> QED
    BY <1>2, <1>4, <1>5, <1>6, <2>1 DEF Drives, Terminal, Closed
<1>8. GoroutineStep(d)
  BY <1>3, <1>4, <1>7 DEF GoroutineStep
<1> QED
  BY <1>1, <1>4, <1>8, CombineMarks

LEMMA SettlePayablesFailsPreserves ==
    ASSUME IInv, NEW d \in Drivers, SettlePayablesFails(d)
    PROVE  IInv'
<1>1. PICK done \in SUBSET Due(driver[d].rec) : MarkPayables(d, done)
  BY DEF SettlePayablesFails
<1>2. journal' = journal /\ Return(d)
  BY <1>1, Marks DEF SettlePayablesFails
<1>3. GoroutineStep(d) /\ driver'[d] \in Goroutine
  BY <1>2, Leaves
<1> QED
  BY <1>1, <1>3, CombineMarks

LEMMA JournalSettledPreserves ==
    ASSUME IInv, NEW d \in Drivers, JournalSettled(d)
    PROVE  IInv'
<1>1. /\ driver[d].pc = "settling" /\ Close(d, "settled") /\ clock' = clock /\ transfers' = transfers
      /\ UNCHANGED <<mode, ledgers, requests, bounds>>
  BY DEF JournalSettled, At, history, bounds
<1>2. /\ driver[d].pc \notin Unlocked /\ driver[d].pc # "calling"
      /\ driver[d].pc \notin {"queue", "queued"} /\ TransfersStep
  BY <1>1, NoWrites DEF Unlocked
<1>3. /\ Last \in RecordType /\ Sound(Last) /\ LiveRec = Last /\ Last = driver[d].rec /\ Drives(d)
  BY <1>2, Locked
<1>4. Last.state = "broadcast" /\ \A e \in Last.covers : Closed(e, Last.tx)
  BY <1>1, <1>3 DEF Drives
<1> DEFINE r == [Last EXCEPT !.state = "settled"]
<1>5. /\ r \in RecordType /\ r.state = "settled" /\ r.covers = Last.covers /\ r.read = Last.read
      /\ r.attempts = Last.attempts
      /\ r.cutoff = Last.cutoff /\ r.pending = Last.pending /\ r.tx = Last.tx
  BY <1>3 DEF RecordType, JournalState
<1>6. Update(r) /\ Return(d)
  BY <1>1, <1>3 DEF Close
<1> HIDE DEF r
<1>7. Sound(r)
  BY <1>3, <1>4, <1>5 DEF Sound, Terminal
<1>8. \A t \in Nat : Names(r, t) => Names(Last, t)
  BY <1>5 DEF Names
<1>9. Last.state \in PaidState /\ \A e \in r.covers : Closed(e, r.tx)
  BY <1>4, <1>5 DEF PaidState
<1>10. JournalStep
  BY <1>1, <1>2, <1>5, <1>6, <1>7, <1>8, <1>9, Moves
<1>11. GoroutineStep(d) /\ driver'[d] \in Goroutine
  BY <1>2, <1>6, Leaves
<1> QED
  BY <1>1, <1>2, <1>10, <1>11, CombineLocal

LEMMA CrashPreserves ==
    ASSUME IInv, Crash
    PROVE  IInv'
<1>1. /\ journal' = journal /\ clock' = clock /\ transfers' = transfers
      /\ mode' = mode /\ payable' = payable /\ receivable' = receivable
      /\ disputes' = disputes /\ crashes' = crashes + 1 /\ crashes < MaxCrashes
      /\ driver' = [d \in Drivers |-> Idle] /\ Abandon(requests)
  BY DEF Crash, ledgers
<1>2. JournalStep /\ TransfersStep /\ LedgersTypeOK' /\ PayableStep /\ ReceivableStep
  BY <1>1, NoWrites, Quiet
<1>3. /\ driver' \in [Drivers -> Goroutine]
      /\ \A d \in Drivers : driver'[d].pc \in Unlocked
  BY <1>1, IdleOK DEF Unlocked
<1>4. LockOK'
  BY <1>3 DEF LockOK
<1>5. RequestsStep /\ requests' \subseteq Request
  BY <1>1, Abandons
<1>6. RequestsOK'
  BY <1>2, <1>5, RequestsPreserved
<1>7. crashes' \in 0..MaxCrashes /\ disputes' \in 0..MaxDisputes
  <2>1. crashes \in 0..MaxCrashes /\ crashes < MaxCrashes /\ disputes \in 0..MaxDisputes
    BY <1>1 DEF IInv, TypesOK
  <2> QED
    BY <1>1, <2>1, SettleAssumptions
<1> QED
  BY <1>1, <1>2, <1>3, <1>4, <1>5, <1>6, <1>7, Combine

-----------------------------------------------------------------------------
(* The payee, the approver, the chain and the operators.                   *)
LEMMA LockSame ==
    ASSUME IInv, TransfersStep, ReceivableStep, mode' = mode, journal' = journal, clock' = clock,
           driver' = driver
    PROVE  LockOK' /\ driver' \in [Drivers -> Goroutine]
<1>1. \A d \in Drivers : driver[d].pc \notin Unlocked => Drives(d)'
  BY DrivesKept
<1>2. LockOK'
  BY <1>1 DEF IInv, LockOK
<1> QED
  BY <1>2 DEF IInv, TypesOK

LEMMA Answers ==
    ASSUME IInv, NEW q \in requests, NEW resp \in {"awaiting_tx", "ack", "reject", "pending"},
           Answer(q, resp), requests' = requests \ {q}, ReceivableStep, mode' = mode,
           journal' = journal, clock' = clock, transfers' = transfers,
           q.phase = 1 => resp # "ack",
           q.phase = 2 => resp # "awaiting_tx",
           resp = "ack" => \A e \in q.covers : Closed(e, q.tx)',
           resp = "awaiting_tx" => \A e \in q.covers : receivable[e].st # "settled"
    PROVE  /\ LockOK' /\ RequestsOK'
           /\ driver' \in [Drivers -> Goroutine] /\ requests' \subseteq Request
<1>1. TransfersStep /\ JournalStep
  BY NoWrites
<1>2. /\ q \in Request /\ (q.caller # Nobody => q.caller \in Drivers)
      /\ driver \in [Drivers -> Goroutine] /\ requests' \subseteq Request
  BY DEF IInv, TypesOK, Request
<1>3. /\ DOMAIN driver' = Drivers
      /\ \A d \in Drivers : d # q.caller => driver'[d] = driver[d]
      /\ \A d \in Drivers : d = q.caller => driver'[d] = [driver[d] EXCEPT !.pc = "answered", !.resp = resp]
      /\ driver' = [d \in Drivers |-> driver'[d]]
  BY DEF Answer
<1>4. \A r \in requests' : r \in requests /\ (r.caller # Nobody => r.caller # q.caller /\ r.caller \in Drivers)
  BY DEF IInv, RequestsOK, TypesOK, Request
<1>5. RequestsStep
  BY <1>3, <1>4 DEF RequestsStep
<1>6. RequestsOK'
  BY <1>1, <1>5, RequestsPreserved
<1>7. CASE q.caller = Nobody
  <2>1. driver' = driver
    <3>1. driver = [d \in Drivers |-> driver[d]]
      BY <1>2
    <3>2. driver' = [d \in Drivers |-> driver[d]]
      BY <1>7, SettleAssumptions DEF Answer
    <3> QED
      BY <3>1, <3>2
  <2> QED
    BY <1>1, <1>2, <1>6, <2>1, LockSame
<1>8. CASE q.caller # Nobody
  <2>1. PICK d \in Drivers : d = q.caller
    BY <1>2, <1>8
  <2>2. /\ driver[d].pc = "calling" /\ q.covers = driver[d].rec.covers
        /\ q.phase \in {1, 2}
        /\ q.phase = 1 => driver[d].rec.state = "offered"
        /\ q.phase = 2 => driver[d].rec.state = "broadcast" /\ q.tx = driver[d].rec.tx
    BY <1>8, <2>1 DEF IInv, RequestsOK, TypesOK, Request
  <2>3. driver[d].pc \notin Unlocked
    BY <2>2 DEF Unlocked
  <2>4. /\ Len(journal) \in Nat \ {0} /\ ~Terminal(Last) /\ Last = driver[d].rec
    BY <2>2, <2>3, Locked
  <2>5. /\ driver'[d] \in Goroutine /\ driver'[d].pc = "answered" /\ driver'[d].resp = resp
        /\ driver'[d].rec = driver[d].rec
    <3>1. driver[d] \in Goroutine /\ driver'[d] = [driver[d] EXCEPT !.pc = "answered", !.resp = resp]
      BY <1>2, <1>3, <2>1
    <3> QED
      BY <3>1 DEF Goroutine
  <2>6. driver' \in [Drivers -> Goroutine] /\ driver' = [driver EXCEPT ![d] = driver'[d]]
    BY <1>2, <1>3, <2>1, <2>5
  <2>7. resp = "awaiting_tx" => Disjoint(Len(journal))
    <3>1. \A i \in DOMAIN journal : journal[i].state = "settled" =>
              \A e \in journal[i].covers : receivable[e].st = "settled"
      BY DEF IInv, BooksOK, Closed
    <3> QED
      BY <2>2, <2>4, <3>1 DEF Disjoint, Last
  <2>8. Disjoint(Len(journal)) => Disjoint(Len(journal))'
    BY DEF Disjoint
  <2>9. Drives(d)'
    <3>1. Last' = Last /\ Len(journal') > 0 /\ ~Terminal(Last')
      BY <2>4 DEF Last
    <3> QED
      BY <2>2, <2>4, <2>5, <2>7, <2>8, <3>1 DEF Drives, Terminal
  <2>10. GoroutineStep(d)
    BY <2>3, <2>6, <2>9 DEF GoroutineStep
  <2>11. LockOK'
    BY <1>1, <2>10, LockPreserved
  <2> QED
    BY <1>2, <1>6, <2>6, <2>11
<1> QED
  BY <1>7, <1>8

LEMMA PayeePhase1Preserves ==
    ASSUME IInv, NEW q \in requests, PayeePhase1(q)
    PROVE  IInv'
<1>1. /\ q.phase = 1 /\ requests' = requests \ {q}
      /\ journal' = journal /\ clock' = clock /\ transfers' = transfers
      /\ mode' = mode /\ payable' = payable /\ receivable' = receivable
      /\ crashes' \in 0..MaxCrashes /\ disputes' \in 0..MaxDisputes
  BY DEF PayeePhase1, ledgers, history, IInv, TypesOK
<1>2. PICK resp \in {"awaiting_tx", "reject"} : Answer(q, resp) /\ (resp = "awaiting_tx" => Matches(q))
  BY DEF PayeePhase1
<1>3. JournalStep /\ TransfersStep /\ LedgersTypeOK' /\ PayableStep /\ ReceivableStep
  BY <1>1, NoWrites, Quiet
<1>4. resp = "awaiting_tx" => \A e \in q.covers : receivable[e].st # "settled"
  BY <1>2 DEF Matches
<1>5. /\ LockOK' /\ RequestsOK'
      /\ driver' \in [Drivers -> Goroutine] /\ requests' \subseteq Request
  BY <1>1, <1>2, <1>3, <1>4, Answers
<1> QED
  BY <1>1, <1>3, <1>5, Combine

LEMMA PayeePhase2Preserves ==
    ASSUME IInv, NEW q \in requests, PayeePhase2(q)
    PROVE  IInv'
<1>1. /\ q.phase = 2 /\ q.pc = "received"
      /\ journal' = journal /\ clock' = clock /\ transfers' = transfers
      /\ mode' = mode /\ payable' = payable /\ receivable' = receivable
      /\ crashes' \in 0..MaxCrashes /\ disputes' \in 0..MaxDisputes
  BY DEF PayeePhase2, ledgers, history, IInv, TypesOK
<1>2. JournalStep /\ TransfersStep /\ LedgersTypeOK' /\ PayableStep /\ ReceivableStep
  BY <1>1, NoWrites, Quiet
<1>3. ASSUME requests' = (requests \ {q}) \cup {[q EXCEPT !.pc = "matched"]}, driver' = driver
      PROVE  IInv'
  <2> DEFINE m == [q EXCEPT !.pc = "matched"]
  <2>1. /\ m \in Request /\ m.phase = 2 /\ m.caller = q.caller /\ m.covers = q.covers /\ m.tx = q.tx
    BY <1>1 DEF IInv, TypesOK, Request
  <2>2. requests' = (requests \ {q}) \cup {m}
    BY <1>3
  <2> HIDE DEF m
  <2>3. RequestsOK'
    <3>1. RequestsOK /\ transfers' = transfers /\ driver' = driver
      BY <1>1, <1>3 DEF IInv
    <3>2. ASSUME NEW r \in requests'
          PROVE  /\ r.phase = 1 => r.pc = "received" /\ r.caller # Nobody
                 /\ r.phase = 2 => r.tx \in DOMAIN transfers' /\ r.covers = transfers'[r.tx].covers
                 /\ r.caller # Nobody =>
                       /\ driver'[r.caller].pc = "calling" /\ r.covers = driver'[r.caller].rec.covers
                       /\ r.phase = 1 => driver'[r.caller].rec.state = "offered"
                       /\ r.phase = 2 => /\ driver'[r.caller].rec.state = "broadcast"
                                         /\ r.tx = driver'[r.caller].rec.tx
      <4>1. CASE r \in requests
        BY <3>1, <4>1 DEF RequestsOK
      <4>2. CASE r = m
        BY <1>1, <2>1, <3>1, <4>2 DEF RequestsOK
      <4> QED
        BY <2>2, <4>1, <4>2
    <3>3. \A r, u \in requests' : r.caller = u.caller /\ r.caller # Nobody => r = u
      BY <2>1, <2>2, <3>1 DEF RequestsOK
    <3> QED
      BY <3>2, <3>3 DEF RequestsOK
  <2>4. LockOK' /\ driver' \in [Drivers -> Goroutine]
    BY <1>1, <1>2, <1>3, LockSame
  <2>5. requests' \subseteq Request
    BY <2>1, <2>2 DEF IInv, TypesOK
  <2> QED
    BY <1>1, <1>2, <2>3, <2>4, <2>5, Combine
<1>4. ASSUME requests' = requests \ {q},
             \/ ~Matches(q) /\ AlreadySettled(q) /\ Answer(q, "ack")
             \/ Answer(q, "reject")
      PROVE  IInv'
  <2>1. PICK resp \in {"ack", "reject"} : Answer(q, resp) /\ (resp = "ack" => AlreadySettled(q))
    BY <1>4
  <2>2. resp = "ack" => \A e \in q.covers : Closed(e, q.tx)'
    BY <1>1, <2>1 DEF AlreadySettled, Closed
  <2>3. /\ LockOK' /\ RequestsOK'
        /\ driver' \in [Drivers -> Goroutine] /\ requests' \subseteq Request
    BY <1>1, <1>2, <1>4, <2>1, <2>2, Answers
  <2> QED
    BY <1>1, <1>2, <2>3, Combine
<1> QED
  BY <1>3, <1>4 DEF PayeePhase2

LEMMA PayeeVerifyFailsPreserves ==
    ASSUME IInv, NEW q \in requests, PayeeVerifyFails(q)
    PROVE  IInv'
<1>1. /\ q.pc = "matched" /\ requests' = requests \ {q}
      /\ journal' = journal /\ clock' = clock /\ transfers' = transfers
      /\ mode' = mode /\ payable' = payable /\ receivable' = receivable
      /\ crashes' \in 0..MaxCrashes /\ disputes' \in 0..MaxDisputes
  BY DEF PayeeVerifyFails, ledgers, history, IInv, TypesOK
<1>2. PICK resp \in {"pending", "reject"} : Answer(q, resp)
  BY DEF PayeeVerifyFails
<1>3. JournalStep /\ TransfersStep /\ LedgersTypeOK' /\ PayableStep /\ ReceivableStep
  BY <1>1, NoWrites, Quiet
<1>4. /\ LockOK' /\ RequestsOK'
      /\ driver' \in [Drivers -> Goroutine] /\ requests' \subseteq Request
  BY <1>1, <1>2, <1>3, Answers
<1> QED
  BY <1>1, <1>3, <1>4, Combine

LEMMA PayeeSettlesPreserves ==
    ASSUME IInv, NEW q \in requests, PayeeSettles(q)
    PROVE  IInv'
<1>1. /\ q.pc = "matched" /\ requests' = requests \ {q} /\ transfers[q.tx].state = "mined"
      /\ journal' = journal /\ clock' = clock /\ transfers' = transfers
      /\ mode' = mode /\ payable' = payable
      /\ crashes' \in 0..MaxCrashes /\ disputes' \in 0..MaxDisputes
  BY DEF PayeeSettles, Verified, history, IInv, TypesOK
<1>2. /\ q.phase = 2 /\ q.tx \in DOMAIN transfers /\ q.covers = transfers[q.tx].covers
      /\ q.tx \in Nat /\ q.covers \subseteq Entries
  BY <1>1 DEF IInv, RequestsOK, TypesOK, Request
<1>3. PICK done \in SUBSET { e \in q.covers : receivable[e].st = "accrued" } :
          /\ receivable' = [e \in Entries |->
                 IF e \in done THEN Receivable(e, "settled", q.tx) ELSE receivable[e]]
          /\ Answer(q, IF done = q.covers THEN "ack" ELSE "pending")
  BY DEF PayeeSettles
<1>4. \A e \in Entries :
          IF e \in done
          THEN receivable'[e] = [st |-> "settled", tx |-> q.tx] /\ receivable[e].st = "accrued" /\ e \in q.covers
          ELSE receivable'[e] = receivable[e]
  BY <1>3 DEF Receivable, ValidMove
<1>5. ReceivableStep
  BY <1>1, <1>2, <1>4 DEF ReceivableStep
<1>6. LedgersTypeOK' /\ PayableStep
  <2>1. receivable \in [Entries -> [st : EntryState, tx : Nat]]
    BY DEF IInv, TypesOK, LedgersTypeOK
  <2>2. [st |-> "settled", tx |-> q.tx] \in [st : EntryState, tx : Nat]
    BY <1>2 DEF EntryState
  <2>3. receivable' \in [Entries -> [st : EntryState, tx : Nat]]
    BY <1>3, <1>4, <2>1, <2>2
  <2> QED
    BY <1>1, <2>3 DEF IInv, TypesOK, LedgersTypeOK, PayableStep
<1>7. PICK resp \in {"ack", "pending"} : Answer(q, resp) /\ (resp = "ack" => done = q.covers)
  BY <1>3
<1>8. resp = "ack" => \A e \in q.covers : Closed(e, q.tx)'
  BY <1>2, <1>4, <1>7 DEF Closed
<1>9. /\ LockOK' /\ RequestsOK'
      /\ driver' \in [Drivers -> Goroutine] /\ requests' \subseteq Request
  BY <1>1, <1>2, <1>5, <1>7, <1>8, Answers
<1>10. JournalStep /\ TransfersStep
  BY <1>1, NoWrites
<1> QED
  BY <1>1, <1>5, <1>6, <1>9, <1>10, Combine

LEMMA PayeeLosesPreserves ==
    ASSUME IInv, NEW q \in requests, PayeeLoses(q)
    PROVE  IInv'
<1>1. /\ requests' = requests \ {q} /\ driver' = driver
      /\ journal' = journal /\ clock' = clock /\ transfers' = transfers
      /\ mode' = mode /\ payable' = payable /\ receivable' = receivable
      /\ crashes' \in 0..MaxCrashes /\ disputes' \in 0..MaxDisputes /\ requests' \subseteq Request
  BY DEF PayeeLoses, ledgers, history, IInv, TypesOK
<1>2. JournalStep /\ TransfersStep /\ LedgersTypeOK' /\ PayableStep /\ ReceivableStep
  BY <1>1, NoWrites, Quiet
<1>3. LockOK' /\ driver' \in [Drivers -> Goroutine]
  BY <1>1, <1>2, LockSame
<1>4. RequestsStep
  BY <1>1 DEF RequestsStep
<1>5. RequestsOK'
  BY <1>2, <1>4, RequestsPreserved
<1> QED
  BY <1>1, <1>2, <1>3, <1>5, Combine

LEMMA ChainPreserves ==
    ASSUME IInv, NEW t \in DOMAIN transfers, QueueStep(t) \/ Chain(t)
    PROVE  IInv'
<1>1. /\ journal' = journal /\ clock' = clock /\ driver' = driver /\ requests' = requests
      /\ mode' = mode /\ payable' = payable /\ receivable' = receivable
      /\ crashes' \in 0..MaxCrashes /\ disputes' \in 0..MaxDisputes /\ requests' \subseteq Request
  BY DEF QueueStep, Resolve, ExecuteApproved, Complete, ExecutorDies, Chain, ledgers, history,
         IInv, TypesOK
<1>2. TransfersStep
  <2> DEFINE p == transfers[t]
  <2>1. /\ p.executor # "none" => p.entry = "approved"
        /\ p.entry \in {"pending", "approved"} \/ p.state \in OnChain => Submitted(t)
    BY DEF IInv, TransfersOK, Submitted
  <2>2. p \in Payment
    BY Sequences
  <2> HIDE DEF p
  <2>3. PICK s \in {"made"} \cup OnChain, e \in EntryStatus, u \in ExecutorStatus :
           /\ transfers' = [transfers EXCEPT ![t] = Written(p, s, e, u)]
           /\ p.state = "mined" => s = "mined"
           /\ (p.executor # "none" => p.entry = "approved") => (u # "none" => e = "approved")
    BY <2>2, ChainMoves DEF p
  <2>4. Submitted(t)
    BY <2>1, <2>2, ChainMoves DEF p
  <2>5. u # "none" => e = "approved"
    BY <2>1, <2>3
  <2> QED
    BY <2>3, <2>4, <2>5, PaymentChanges DEF p
<1>3. JournalStep /\ LedgersTypeOK' /\ PayableStep /\ ReceivableStep
  BY <1>1, NoWrites, Quiet
<1>4. LockOK' /\ driver' \in [Drivers -> Goroutine]
  BY <1>1, <1>2, <1>3, LockSame
<1>5. RequestsOK'
  BY <1>1, <1>2, RequestsPreserved DEF RequestsStep
<1> QED
  BY <1>1, <1>2, <1>3, <1>4, <1>5, Combine

LEMMA OperatorPreserves ==
    ASSUME IInv, NEW e \in Entries, OperatorStep(e)
    PROVE  IInv'
<1>1. /\ journal' = journal /\ clock' = clock /\ driver' = driver /\ requests' = requests
      /\ transfers' = transfers /\ mode' = mode /\ crashes' = crashes
      /\ \/ disputes' = disputes
         \/ disputes' = disputes + 1 /\ disputes < MaxDisputes
  BY DEF OperatorStep, AccrueReceivable, AccruePayable, PayerDisputes, PayeeDisputes,
         PayerResolves, PayeeResolves, history
<1>2. crashes' \in 0..MaxCrashes /\ disputes' \in 0..MaxDisputes /\ requests' \subseteq Request
  <2>1. crashes \in 0..MaxCrashes /\ disputes \in 0..MaxDisputes /\ requests \subseteq Request
    BY DEF IInv, TypesOK
  <2>2. disputes < MaxDisputes => disputes + 1 \in 0..MaxDisputes
    BY <2>1, SettleAssumptions
  <2> QED
    BY <1>1, <2>1, <2>2
<1>3. /\ clock \in Nat
      /\ payable \in [Entries -> [st : EntryState, ts : Nat, tx : Nat]]
      /\ receivable \in [Entries -> [st : EntryState, tx : Nat]]
  BY Sequences DEF IInv, JournalOK, TypesOK, LedgersTypeOK
<1>4. \/ payable' = payable
      \/ \E st \in {"accrued", "disputed", "written_off"} :
            /\ payable[e].st \in {"none", "accrued", "disputed"}
            /\ payable' = [payable EXCEPT ![e] = [st |-> st, ts |-> clock, tx |-> 0]]
  BY DEF OperatorStep, AccrueReceivable, AccruePayable, PayerDisputes, PayeeDisputes,
         PayerResolves, PayeeResolves, Payable, ValidMove
<1>5. \/ receivable' = receivable
      \/ \E st \in {"accrued", "disputed", "written_off"} :
            /\ receivable[e].st \in {"none", "accrued", "disputed"}
            /\ receivable' = [receivable EXCEPT ![e] = [st |-> st, tx |-> 0]]
  BY DEF OperatorStep, AccrueReceivable, AccruePayable, PayerDisputes, PayeeDisputes,
         PayerResolves, PayeeResolves, Receivable, ValidMove
<1>6. PayableStep
  BY <1>3, <1>4 DEF PayableStep
<1>7. ReceivableStep
  BY <1>3, <1>5 DEF ReceivableStep
<1>8. LedgersTypeOK'
  <2>1. \A st \in {"accrued", "disputed", "written_off"} :
            /\ [st |-> st, ts |-> clock, tx |-> 0] \in
                   [st : EntryState, ts : Nat, tx : Nat]
            /\ [st |-> st, tx |-> 0] \in [st : EntryState, tx : Nat]
    BY <1>3 DEF EntryState
  <2>2. payable' \in [Entries -> [st : EntryState, ts : Nat, tx : Nat]]
    BY <1>3, <1>4, <2>1
  <2>3. receivable' \in [Entries -> [st : EntryState, tx : Nat]]
    BY <1>3, <1>5, <2>1
  <2> QED
    BY <1>1, <2>2, <2>3 DEF IInv, TypesOK, LedgersTypeOK
<1>9. JournalStep /\ TransfersStep
  BY <1>1, NoWrites
<1>10. LockOK' /\ driver' \in [Drivers -> Goroutine]
  BY <1>1, <1>7, <1>9, LockSame
<1>11. RequestsStep
  BY <1>1 DEF RequestsStep
<1>12. RequestsOK'
  BY <1>9, <1>11, RequestsPreserved
<1> QED
  BY <1>1, <1>2, <1>6, <1>7, <1>8, <1>9, <1>10, <1>12, Combine

-----------------------------------------------------------------------------
LEMMA InitIInv == Init => IInv
<1> SUFFICES ASSUME Init PROVE IInv
  OBVIOUS
<1>1. driver \in [Drivers -> Goroutine] /\ \A d \in Drivers : driver[d].pc = "idle"
  BY IdleOK DEF Init
<1>2. LedgersTypeOK
  BY SettleAssumptions DEF Init, LedgersTypeOK, EntryState
<1>3. JournalTypeOK /\ TransfersTypeOK
  BY SettleAssumptions DEF Init, JournalTypeOK, TransfersTypeOK
<1>4. TypesOK
  BY <1>1, <1>2, <1>3, SettleAssumptions DEF Init, TypesOK
<1>5. JournalOK /\ TransfersOK /\ RequestsOK
  BY DEF Init, JournalOK, TransfersOK, RequestsOK
<1>6. LockOK
  BY <1>1 DEF Init, LockOK, Unlocked
<1>7. BooksOK
  BY DEF Init, BooksOK
<1> QED
  BY <1>4, <1>5, <1>6, <1>7 DEF IInv

LEMMA NextIInv ==
    ASSUME IInv, [Next]_vars, ~staled'
    PROVE  IInv'
<1>1. CASE UNCHANGED vars
  <2>1. /\ journal' = journal /\ clock' = clock /\ transfers' = transfers /\ driver' = driver
        /\ requests' = requests /\ mode' = mode /\ payable' = payable /\ receivable' = receivable
        /\ crashes' = crashes /\ disputes' = disputes
    BY <1>1 DEF vars
  <2>2. JournalStep /\ TransfersStep /\ LedgersTypeOK' /\ PayableStep /\ ReceivableStep
    BY <2>1, NoWrites, Quiet
  <2>3. LockOK' /\ driver' \in [Drivers -> Goroutine]
    BY <2>1, <2>2, LockSame
  <2>4. RequestsStep
    BY <2>1 DEF RequestsStep
  <2>5. RequestsOK'
    BY <2>2, <2>4, RequestsPreserved
  <2>6. crashes' \in 0..MaxCrashes /\ disputes' \in 0..MaxDisputes /\ requests' \subseteq Request
    BY <2>1 DEF IInv, TypesOK
  <2> QED
    BY <2>1, <2>2, <2>3, <2>5, <2>6, Combine
<1>2. CASE \E e \in Entries : OperatorStep(e)
  BY <1>2, OperatorPreserves
<1>3. ASSUME NEW d \in Drivers, SettleCall(d) \/ Acquire(d) \/ WatchTick(d) \/ DriveStep(d)
      PROVE  IInv'
  BY <1>3, SettleCallPreserves, AcquirePreserves, WatchTickPreserves, LockDrivePreserves,
     SendPhase1Preserves, CallFailsPreserves, Phase1AnsweredPreserves, SignRawPreserves,
     JournalSignedPreserves, MintPendingIDPreserves, QueuePreserves, JournalQueuedPreserves,
     PollQueuePreserves, SendPhase2Preserves, Phase2AnsweredPreserves, SettlePayablesPreserves,
     SettlePayablesFailsPreserves, JournalSettledPreserves DEF DriveStep
<1>4. ASSUME NEW q \in requests, PayeeStep(q)
      PROVE  IInv'
  BY <1>4, PayeePhase1Preserves, PayeePhase2Preserves, PayeeVerifyFailsPreserves,
     PayeeSettlesPreserves, PayeeLosesPreserves DEF PayeeStep
<1>5. CASE \E t \in DOMAIN transfers : QueueStep(t) \/ Chain(t)
  BY <1>5, ChainPreserves
<1>6. CASE Crash
  BY <1>6, CrashPreserves
<1> QED
  BY <1>1, <1>2, <1>3, <1>4, <1>5, <1>6 DEF Next

LEMMA StaledForGood ==
    ASSUME [Next]_vars, staled
    PROVE  staled'
<1>1. CASE UNCHANGED vars
  BY <1>1 DEF vars
<1>2. CASE \E e \in Entries : OperatorStep(e)
  BY <1>2 DEF OperatorStep, AccrueReceivable, AccruePayable, PayerDisputes, PayeeDisputes,
     PayerResolves, PayeeResolves, history
<1>3. ASSUME NEW d \in Drivers, SettleCall(d) \/ Acquire(d) \/ WatchTick(d) \/ DriveStep(d)
      PROVE  staled'
  BY <1>3 DEF SettleCall, Acquire, WatchTick, DriveStep, LockDrive, SendPhase1, CallFails,
     Phase1Answered, SignRaw, JournalSigned, MintPendingID, Queue, JournalQueued, PollQueue,
     SendPhase2, Phase2Answered, SettlePayables, SettlePayablesFails, MarkPayables, JournalSettled,
     history
<1>4. ASSUME NEW q \in requests, PayeeStep(q)
      PROVE  staled'
  BY <1>4 DEF PayeeStep, PayeePhase1, PayeePhase2, PayeeVerifyFails, PayeeSettles, PayeeLoses, history
<1>5. CASE \E t \in DOMAIN transfers : QueueStep(t) \/ Chain(t)
  BY <1>5 DEF QueueStep, Resolve, ExecuteApproved, Complete, ExecutorDies, Chain, history
<1>6. CASE Crash
  BY <1>6 DEF Crash
<1> QED
  BY <1>1, <1>2, <1>3, <1>4, <1>5, <1>6 DEF Next

(* As long as every drive of stepInflight starts from what the journal has *)
(* the invariant holds, for every number of charges, goroutines, records,  *)
(* payments and crashes.                                                   *)
THEOREM CloseOutInvariant == Spec => [](~staled => IInv)
<1>1. Init => IInv
  BY InitIInv
<1>2. [Next]_vars /\ staled => staled'
  BY StaledForGood
<1>3. IInv /\ [Next]_vars /\ ~staled' => IInv'
  BY NextIInv
<1> QED
  BY <1>1, <1>2, <1>3, PTL DEF Spec

(* Until the first drive of a stale record, what left the node is found in *)
(* the journal after a restart: stepInflight writes the hash, or the       *)
(* pending id, before it submits.                                          *)
THEOREM SubmissionsAreJournaled == Spec => [](~staled => SubmittedIsJournaled)
<1>1. IInv => SubmittedIsJournaled
  BY DEF IInv, TransfersOK, JournalOK, RecordOK, SubmittedIsJournaled
<1> QED
  BY <1>1, CloseOutInvariant, PTL

\* A record names at most one payment.
LEMMA OneName ==
    ASSUME IInv, NEW t \in DOMAIN transfers, NEW u \in DOMAIN transfers,
           Submitted(t), Submitted(u), transfers[t].offer = transfers[u].offer
    PROVE  t = u
<1>1. t # 0 /\ u # 0
  BY Sequences
<1>2. PICK i \in DOMAIN journal : /\ i = transfers[t].offer /\ i = transfers[u].offer
                                  /\ t \in {journal[i].pending, journal[i].tx}
                                  /\ u \in {journal[i].pending, journal[i].tx}
  BY DEF IInv, TransfersOK
<1>3. mode \in {"wallet", "approval"}
  BY SettleAssumptions DEF IInv, TypesOK, LedgersTypeOK
<1>4. Sound(journal[i])
  BY DEF IInv, JournalOK, RecordOK
<1> QED
  BY <1>1, <1>2, <1>3, <1>4 DEF Sound

(* Only a drive of a stale record pays a signed offer twice.  However often *)
(* its drive is interrupted, by a crash or an error, and resumed by the    *)
(* watcher or by a call: with a wallet no second payment is sent, with an  *)
(* approval queue none is submitted to it.                                 *)
THEOREM OneTransferEach == Spec => []PaidTwiceOnlyByStaleDrive
<1>1. IInv => OneTransferPerRecord
  BY OneName DEF OneTransferPerRecord
<1>2. (~staled => OneTransferPerRecord) => PaidTwiceOnlyByStaleDrive
  BY DEF PaidTwiceOnlyByStaleDrive
<1> QED
  BY <1>1, <1>2, CloseOutInvariant, PTL

(* Until the first drive of a stale record a charge is paid again only if  *)
(* its first close-out was given up.  If that one was settled, phase 1 of  *)
(* a later one is refused by MatchReceivables, whose rows the payee closed *)
(* before the earlier record could be marked settled.                      *)
THEOREM PaidAgainAfterGivingUp == Spec => [](~staled => PaidAgainOnlyAfterGivingUp)
<1>1. ASSUME IInv, NEW t \in DOMAIN transfers, NEW u \in DOMAIN transfers,
             Submitted(t), Submitted(u), t < u, transfers[t].covers \cap transfers[u].covers # {}
      PROVE  \E i \in DOMAIN journal :
                 /\ journal[i].cutoff = transfers[t].offer
                 /\ journal[i].state \in {"rejected", "stalled", "failed"}
  <2>1. /\ Len(journal) \in Nat /\ DOMAIN journal = 1..Len(journal) /\ DOMAIN transfers = 1..Len(transfers)
    BY <1>1, Sequences
  <2>2. PICK i \in DOMAIN journal, j \in DOMAIN journal :
            /\ i = transfers[t].offer /\ j = transfers[u].offer /\ i <= j
            /\ transfers[t].covers = journal[i].covers /\ transfers[u].covers = journal[j].covers
            /\ Disjoint(j)
    BY <1>1 DEF IInv, TransfersOK, Disjoint
  <2>3. i # j
    BY <1>1, <2>1, <2>2, OneName
  <2>4. i < j /\ i < Len(journal)
    BY <2>1, <2>2, <2>3
  <2>5. journal[i].cutoff = i /\ Terminal(journal[i])
    BY <1>1, <2>4 DEF IInv, JournalOK, RecordOK
  <2>6. journal[i].state # "settled"
    BY <1>1, <2>2, <2>4 DEF Disjoint
  <2> QED
    BY <2>2, <2>5, <2>6 DEF Terminal
<1>2. IInv => PaidAgainOnlyAfterGivingUp
  BY <1>1 DEF PaidAgainOnlyAfterGivingUp
<1> QED
  BY <1>2, CloseOutInvariant, PTL

-----------------------------------------------------------------------------
(* What holds whatever a drive starts from.  A stale drive may write into  *)
(* a record that is not the one it read, so neither what a record covers   *)
(* nor how often it was retried is known.  But every hash that reaches the *)
(* payee is that of a payment, and whoever acts on an acknowledgement      *)
(* still holds the hash that the payee acknowledged.                       *)
PC == Unlocked \cup {"drive", "calling", "answered", "signed", "queue", "queued", "acked", "settling"}

\* A record, or a goroutine's copy of one, with P the payments there are.
Known(r, P) ==
    /\ r.covers # {}
    /\ r.pending \in {0} \cup P
    /\ r.state = "broadcast" => r.tx \in P

\* The hashes under which the payee has closed rows.
Accepted == { receivable[e].tx : e \in { f \in Entries : receivable[f].st = "settled" } }

\* A goroutine, with P the payments and C the accepted hashes.
Honest(g, P, C) ==
    /\ g.pc = "building" => g.view # {}
    /\ g.pc \notin {"idle", "building"} => Known(g.rec, P)
    /\ g.pc \in {"signed", "queue", "queued"} => g.tx \in P
    /\ g.pc \in {"acked", "settling"} \/ (g.pc = "answered" /\ g.resp = "ack") => g.rec.tx \in C

AnyTypes ==
    /\ payable \in [Entries -> [st : EntryState, ts : Nat, tx : Nat]]
    /\ receivable \in [Entries -> [st : EntryState, tx : Nat]]
    /\ journal \in Seq(RecordType) /\ transfers \in Seq(Payment)
    /\ driver \in [Drivers -> Goroutine]
    /\ requests \subseteq Request
    /\ clock \in Nat

RecordsKnown == \A i \in DOMAIN journal : Known(journal[i], DOMAIN transfers)

DriversHonest == \A d \in Drivers : Honest(driver[d], DOMAIN transfers, Accepted)

RequestsMatch ==
    /\ \A q \in requests :
          /\ q.covers # {}
          /\ q.phase = 2 => q.tx \in DOMAIN transfers
          /\ q.pc = "matched" => q.phase = 2
          /\ q.caller # Nobody =>
                /\ driver[q.caller].pc = "calling"
                /\ q.phase = 2 => q.tx = driver[q.caller].rec.tx
    /\ \A q, r \in requests : q.caller = r.caller /\ q.caller # Nobody => q = r

RowsPaid ==
    /\ \A e \in Entries : receivable[e].st = "settled" =>
           /\ receivable[e].tx \in DOMAIN transfers
           /\ transfers[receivable[e].tx].state = "mined"
    /\ \A e \in Entries : payable[e].st = "settled" => payable[e].tx \in Accepted

AnyInv ==
    AnyTypes /\ RecordsKnown /\ DriversHonest /\ RequestsMatch /\ RowsPaid

\* What a step may do to the payments and to each kind of row.
PaymentsGrow ==
    /\ transfers' \in Seq(Payment)
    /\ \A t \in DOMAIN transfers :
          /\ t \in DOMAIN transfers'
          /\ transfers[t].state = "mined" => transfers'[t].state = "mined"

RecordsStay ==
    /\ journal' \in Seq(RecordType)
    /\ \A i \in DOMAIN journal' : Known(journal'[i], DOMAIN transfers')

LEMMA HonestStays ==
    ASSUME NEW g, NEW P, NEW C, NEW P2, NEW C2, P \subseteq P2, C \subseteq C2, Honest(g, P, C)
    PROVE  Honest(g, P2, C2)
BY DEF Honest, Known

LEMMA KnownStays ==
    ASSUME NEW r, NEW P, NEW P2, P \subseteq P2, Known(r, P)
    PROVE  Known(r, P2)
BY DEF Known

LEMMA RecordsUntouched ==
    ASSUME AnyInv, PaymentsGrow, journal' = journal
    PROVE  RecordsStay
<1>1. DOMAIN transfers \subseteq DOMAIN transfers'
  BY DEF PaymentsGrow
<1> QED
  BY <1>1, KnownStays DEF AnyInv, AnyTypes, RecordsKnown, RecordsStay

LEMMA PaymentsUntouched ==
    ASSUME AnyInv, transfers' = transfers
    PROVE  PaymentsGrow
BY DEF AnyInv, AnyTypes, PaymentsGrow

LEMMA LiveKnown ==
    ASSUME AnyInv, LiveAt # {}
    PROVE  LiveRec \in RecordType /\ Known(LiveRec, DOMAIN transfers)
<1>1. (CHOOSE i \in LiveAt : TRUE) \in DOMAIN journal
  BY DEF LiveAt
<1> QED
  BY <1>1, ElementOfSeq, LenProperties DEF LiveRec, AnyInv, AnyTypes, RecordsKnown

LEMMA Updated ==
    ASSUME AnyInv, PaymentsGrow, NEW r, Update(r),
           LiveAt # {} => r \in RecordType /\ Known(r, DOMAIN transfers')
    PROVE  RecordsStay
<1>1. Len(journal) \in Nat /\ DOMAIN journal = 1..Len(journal)
      /\ \A i \in DOMAIN journal : journal[i] \in RecordType
  BY ElementOfSeq, LenProperties DEF AnyInv, AnyTypes
<1>2. journal' = [i \in 1..Len(journal) |-> IF i \in LiveAt THEN r ELSE journal[i]]
  BY <1>1 DEF Update
<1>3. \A i \in 1..Len(journal) : (IF i \in LiveAt THEN r ELSE journal[i]) \in RecordType
  BY <1>1
<1>4. journal' \in Seq(RecordType)
  BY <1>1, <1>2, <1>3, SeqDef
<1>5. DOMAIN transfers \subseteq DOMAIN transfers'
  BY DEF PaymentsGrow
<1>6. \A i \in DOMAIN journal' : Known(journal'[i], DOMAIN transfers')
  BY <1>1, <1>2, <1>5, KnownStays DEF AnyInv, RecordsKnown
<1> QED
  BY <1>4, <1>6 DEF RecordsStay

\* One goroutine that waits for no answer moves, and the requests stay.
LEMMA OneMoves ==
    ASSUME AnyInv, NEW d \in Drivers, NEW g \in Goroutine,
           driver' = [driver EXCEPT ![d] = g], Honest(g, DOMAIN transfers', Accepted),
           driver[d].pc # "calling",
           PaymentsGrow, RecordsStay, receivable' = receivable,
           payable' \in [Entries -> [st : EntryState, ts : Nat, tx : Nat]],
           \A e \in Entries : payable'[e].st = "settled" => payable'[e].tx \in Accepted,
           requests' = requests, clock' \in Nat
    PROVE  AnyInv'
<1>1. DOMAIN transfers \subseteq DOMAIN transfers' /\ Accepted' = Accepted
  BY DEF PaymentsGrow, Accepted
<1>2. AnyTypes' /\ RecordsKnown'
  BY DEF AnyInv, AnyTypes, PaymentsGrow, RecordsStay, RecordsKnown
<1>3. DriversHonest'
  <2> SUFFICES ASSUME NEW f \in Drivers PROVE Honest(driver'[f], DOMAIN transfers', Accepted)
    BY <1>1 DEF DriversHonest
  <2>1. CASE f = d
    BY <2>1 DEF AnyInv, AnyTypes
  <2>2. CASE f # d
    <3>1. driver'[f] = driver[f] /\ Honest(driver[f], DOMAIN transfers, Accepted)
      BY <2>2 DEF AnyInv, AnyTypes, DriversHonest
    <3> QED
      BY <1>1, <3>1, HonestStays
  <2> QED
    BY <2>1, <2>2
<1>4. RequestsMatch'
  <2>1. \A q \in requests : q.caller # Nobody => driver'[q.caller] = driver[q.caller]
    BY DEF AnyInv, AnyTypes, RequestsMatch, Request
  <2> QED
    BY <1>1, <2>1 DEF AnyInv, RequestsMatch
<1>5. RowsPaid'
  BY <1>1 DEF AnyInv, RowsPaid, PaymentsGrow
<1> QED
  BY <1>2, <1>3, <1>4, <1>5 DEF AnyInv

\* The usual case: the ledgers are left alone too.
LEMMA OneMovesOnly ==
    ASSUME AnyInv, NEW d \in Drivers, NEW g \in Goroutine,
           driver' = [driver EXCEPT ![d] = g], Honest(g, DOMAIN transfers', Accepted),
           driver[d].pc # "calling",
           PaymentsGrow, RecordsStay, UNCHANGED ledgers,
           requests' = requests, clock' \in Nat
    PROVE  AnyInv'
BY OneMoves DEF AnyInv, AnyTypes, RowsPaid, ledgers

LEMMA IdleIsHonest ==
    ASSUME NEW P, NEW C
    PROVE  Idle \in Goroutine /\ Honest(Idle, P, C)
<1> DEFINE n == NewRecord({}, 0)
<1>1. n \in [state : JournalState, covers : SUBSET Entries, read : Nat, cutoff : {clock},
             pending : Nat, tx : Nat, raw : BOOLEAN, attempts : Nat]
  BY DEF NewRecord, JournalState
<1> HIDE DEF n
<1>2. NoRec \in RecordType
  BY <1>1 DEF NoRec, RecordType, n
<1>3. Idle \in Goroutine
  BY <1>2 DEF Idle, Goroutine, PC, Unlocked
<1> QED
  BY <1>3 DEF Idle, Honest

\* A goroutine that starts a drive, or its next step, from a known record.
LEMMA StartIsHonest ==
    ASSUME NEW pc \in {"holding", "drive"}, NEW r \in RecordType, NEW P, NEW C, Known(r, P)
    PROVE  LET g == [Idle EXCEPT !.pc = pc, !.rec = r]
           IN  g \in Goroutine /\ Honest(g, P, C)
<1> DEFINE g == [Idle EXCEPT !.pc = pc, !.rec = r]
<1>1. Idle \in Goroutine /\ Idle.resp = "none"
  BY IdleIsHonest DEF Idle
<1>2. g \in Goroutine /\ g.pc = pc /\ g.rec = r /\ g.resp = "none"
  BY <1>1 DEF Goroutine, PC, Unlocked
<1> QED
  BY <1>2 DEF Honest

LEMMA Returns ==
    ASSUME AnyInv, NEW d \in Drivers, Return(d), driver[d].pc # "calling",
           PaymentsGrow, RecordsStay, UNCHANGED ledgers,
           requests' = requests, clock' = clock
    PROVE  AnyInv'
BY IdleIsHonest, OneMovesOnly DEF Return, AnyInv, AnyTypes

LEMMA Goes ==
    ASSUME AnyInv, NEW d \in Drivers, NEW pc \in {"holding", "drive"}, NEW r \in RecordType,
           Goto(d, pc, r), Known(r, DOMAIN transfers'), driver[d].pc # "calling",
           PaymentsGrow, RecordsStay, UNCHANGED ledgers,
           requests' = requests, clock' \in Nat
    PROVE  AnyInv'
<1> DEFINE g == [Idle EXCEPT !.pc = pc, !.rec = r]
<1>1. g \in Goroutine /\ Honest(g, DOMAIN transfers', Accepted)
  BY StartIsHonest
<1>2. driver' = [driver EXCEPT ![d] = g]
  BY DEF Goto
<1> HIDE DEF g
<1> QED
  BY <1>1, <1>2, OneMovesOnly

\* The patches of stepInflight keep a record known.
LEMMA Ended ==
    ASSUME AnyInv, NEW d \in Drivers, NEW st \in {"settled", "rejected", "failed", "stalled"},
           Close(d, st), transfers' = transfers
    PROVE  RecordsStay /\ Return(d)
<1> DEFINE r == [LiveRec EXCEPT !.state = st]
<1>1. Update(r) /\ Return(d)
  BY DEF Close
<1>2. LiveAt # {} => r \in RecordType /\ Known(r, DOMAIN transfers')
  BY LiveKnown DEF RecordType, JournalState, Known
<1> HIDE DEF r
<1> QED
  BY <1>1, <1>2, PaymentsUntouched, Updated

LEMMA Retried ==
    ASSUME AnyInv, NEW d \in Drivers, Retry(d), PaymentsGrow
    PROVE  RecordsStay /\ Return(d)
<1> DEFINE st == IF driver[d].rec.attempts + 1 >= MaxAttempts THEN "stalled" ELSE LiveRec.state
           r == [LiveRec EXCEPT !.attempts = LiveRec.attempts + 1, !.state = st]
<1>1. Update(r) /\ Return(d)
  BY DEF Retry
<1>2. LiveAt # {} => r \in RecordType /\ Known(r, DOMAIN transfers')
  <2> SUFFICES ASSUME LiveAt # {} PROVE r \in RecordType /\ Known(r, DOMAIN transfers')
    OBVIOUS
  <2>1. LiveRec \in RecordType /\ Known(LiveRec, DOMAIN transfers)
    BY LiveKnown
  <2>2. st \in JournalState /\ st \in {"stalled", LiveRec.state} /\ LiveRec.attempts + 1 \in Nat
    BY <2>1 DEF RecordType, JournalState
  <2> HIDE DEF st
  <2>3. /\ r \in RecordType /\ r.state = st /\ r.covers = LiveRec.covers
        /\ r.pending = LiveRec.pending /\ r.tx = LiveRec.tx
    BY <2>1, <2>2 DEF RecordType
  <2>4. Known(r, DOMAIN transfers)
    BY <2>1, <2>2, <2>3 DEF Known
  <2>5. DOMAIN transfers \subseteq DOMAIN transfers'
    BY DEF PaymentsGrow
  <2> QED
    BY <2>3, <2>4, <2>5, KnownStays
<1> HIDE DEF r
<1> QED
  BY <1>1, <1>2, Updated

LEMMA AdvanceKeeps ==
    ASSUME AnyInv, NEW d \in Drivers, NEW r, Advance(d, r), driver[d].pc # "calling",
           LiveAt # {} => r \in RecordType /\ Known(r, DOMAIN transfers),
           UNCHANGED <<ledgers, transfers, requests, clock>>
    PROVE  AnyInv'
<1>1. PaymentsGrow
  BY PaymentsUntouched
<1>2. RecordsStay
  BY <1>1, Updated DEF Advance
<1>3. CASE LiveAt = {}
  BY <1>1, <1>2, <1>3, Returns DEF Advance
<1>4. CASE LiveAt # {}
  BY <1>1, <1>2, <1>4, Goes DEF Advance, AnyInv, AnyTypes
<1> QED
  BY <1>3, <1>4

-----------------------------------------------------------------------------
LEMMA AnySettleCall ==
    ASSUME AnyInv, NEW d \in Drivers, SettleCall(d)
    PROVE  AnyInv'
<1>1. /\ driver[d].pc = "idle" /\ UNCHANGED <<ledgers, journal, transfers, requests, clock>>
  BY DEF SettleCall, At
<1>2. PaymentsGrow /\ RecordsStay /\ clock' \in Nat
  BY <1>1, PaymentsUntouched, RecordsUntouched DEF AnyInv, AnyTypes
<1>3. CASE LiveAt # {} /\ Goto(d, "holding", LiveRec)
  BY <1>1, <1>2, <1>3, LiveKnown, Goes
<1>4. ASSUME Accrued(payable) # {},
             driver' = [driver EXCEPT ![d] = [Idle EXCEPT !.pc = "building", !.read = clock,
                                                          !.view = Accrued(payable)]]
      PROVE  AnyInv'
  <2> DEFINE g == [Idle EXCEPT !.pc = "building", !.read = clock, !.view = Accrued(payable)]
  <2>1. Idle \in Goroutine /\ clock \in Nat /\ Accrued(payable) \in SUBSET Entries
    BY IdleIsHonest DEF AnyInv, AnyTypes, Accrued
  <2>2. g \in Goroutine /\ g.pc = "building" /\ g.view = Accrued(payable)
    BY <2>1 DEF Goroutine, PC, Unlocked
  <2>3. driver' = [driver EXCEPT ![d] = g]
    BY <1>4
  <2> HIDE DEF g
  <2>4. Honest(g, DOMAIN transfers', Accepted)
    BY <1>4, <2>2 DEF Honest
  <2> QED
    BY <1>1, <1>2, <2>2, <2>3, <2>4, OneMovesOnly
<1> QED
  BY <1>3, <1>4 DEF SettleCall

LEMMA AnyAcquire ==
    ASSUME AnyInv, NEW d \in Drivers, Acquire(d)
    PROVE  AnyInv'
<1>1. /\ driver[d].pc = "building" /\ UNCHANGED <<ledgers, transfers, requests>>
  BY DEF Acquire, At
<1>2. PaymentsGrow /\ clock \in Nat /\ clock + 1 \in Nat
  BY <1>1, PaymentsUntouched DEF AnyInv, AnyTypes
<1>3. CASE LiveAt # {} /\ Goto(d, "holding", LiveRec) /\ UNCHANGED <<journal, clock>>
  BY <1>1, <1>2, <1>3, LiveKnown, RecordsUntouched, Goes
<1>4. ASSUME journal' = Append(journal, NewRecord(driver[d].view, driver[d].read)),
             Goto(d, "holding", NewRecord(driver[d].view, driver[d].read)),
             clock' = clock + 1
      PROVE  AnyInv'
  <2> DEFINE new == NewRecord(driver[d].view, driver[d].read)
  <2>1. driver[d].view \in SUBSET Entries /\ driver[d].view # {} /\ driver[d].read \in Nat
    BY <1>1 DEF AnyInv, AnyTypes, Goroutine, PC, DriversHonest, Honest
  <2>2. new \in RecordType /\ Known(new, DOMAIN transfers')
    BY <1>2, <2>1 DEF NewRecord, RecordType, JournalState, Known
  <2>3. journal \in Seq(RecordType) /\ journal' = Append(journal, new) /\ Goto(d, "holding", new)
    BY <1>4 DEF AnyInv, AnyTypes
  <2> HIDE DEF new
  <2>4. RecordsStay
    BY <1>1, <2>2, <2>3, AppendProperties, LenProperties DEF RecordsStay, AnyInv, RecordsKnown
  <2> QED
    BY <1>1, <1>2, <1>4, <2>2, <2>3, <2>4, Goes
<1> QED
  BY <1>3, <1>4 DEF Acquire

LEMMA AnyWatchTick ==
    ASSUME AnyInv, NEW d \in Drivers, WatchTick(d)
    PROVE  AnyInv'
<1>1. /\ driver[d].pc = "idle" /\ UNCHANGED <<ledgers, journal, transfers, requests, clock>>
      /\ LiveAt # {} /\ Goto(d, "holding", LiveRec)
  BY DEF WatchTick, At
<1>2. PaymentsGrow /\ RecordsStay /\ clock' \in Nat
  BY <1>1, PaymentsUntouched, RecordsUntouched DEF AnyInv, AnyTypes
<1> QED
  BY <1>1, <1>2, LiveKnown, Goes

\* The record that a goroutine past Acquire holds.
LEMMA HeldKnown ==
    ASSUME AnyInv, NEW d \in Drivers, driver[d].pc \notin {"idle", "building"}
    PROVE  driver[d].rec \in RecordType /\ Known(driver[d].rec, DOMAIN transfers)
BY DEF AnyInv, AnyTypes, Goroutine, PC, DriversHonest, Honest

LEMMA AnyLockDrive ==
    ASSUME AnyInv, NEW d \in Drivers, LockDrive(d)
    PROVE  AnyInv'
<1>1. /\ driver[d].pc = "holding" /\ UNCHANGED <<ledgers, journal, transfers, requests, clock>>
      /\ Return(d) \/ Goto(d, "drive", driver[d].rec)
  BY DEF LockDrive, At
<1>2. PaymentsGrow /\ RecordsStay /\ clock' \in Nat
  BY <1>1, PaymentsUntouched, RecordsUntouched DEF AnyInv, AnyTypes
<1>3. driver[d].rec \in RecordType /\ Known(driver[d].rec, DOMAIN transfers)
  BY <1>1, HeldKnown
<1>4. CASE Return(d)
  BY <1>1, <1>2, <1>4, Returns
<1>5. CASE Goto(d, "drive", driver[d].rec)
  BY <1>1, <1>2, <1>3, <1>5, Goes
<1> QED
  BY <1>1, <1>4, <1>5

\* A goroutine whose program counter alone moves.
LEMMA StepIsHonest ==
    ASSUME AnyInv, NEW d \in Drivers, NEW pc \in PC
    PROVE  LET g == [driver[d] EXCEPT !.pc = pc]
           IN  /\ g \in Goroutine /\ g.pc = pc /\ g.rec = driver[d].rec
               /\ g.resp = driver[d].resp /\ g.tx = driver[d].tx
BY DEF AnyInv, AnyTypes, Goroutine, PC

LEMMA AnyPhase1Answered ==
    ASSUME AnyInv, NEW d \in Drivers, Phase1Answered(d)
    PROVE  AnyInv'
<1>1. /\ driver[d].pc = "answered" /\ UNCHANGED <<ledgers, transfers, requests, clock>>
      /\ Advance(d, [LiveRec EXCEPT !.state = "paying"]) \/ Close(d, "rejected")
  BY DEF Phase1Answered, At
<1>2. CASE Close(d, "rejected")
  <2>1. RecordsStay /\ Return(d)
    BY <1>1, <1>2, Ended
  <2> QED
    BY <1>1, <2>1, PaymentsUntouched, Returns
<1>3. CASE Advance(d, [LiveRec EXCEPT !.state = "paying"])
  <2> DEFINE r == [LiveRec EXCEPT !.state = "paying"]
  <2>1. LiveAt # {} => r \in RecordType /\ Known(r, DOMAIN transfers)
    BY LiveKnown DEF RecordType, JournalState, Known
  <2>2. Advance(d, r)
    BY <1>3
  <2> HIDE DEF r
  <2> QED
    BY <1>1, <2>1, <2>2, AdvanceKeeps
<1> QED
  BY <1>1, <1>2, <1>3

LEMMA AnyJournalQueued ==
    ASSUME AnyInv, NEW d \in Drivers, JournalQueued(d)
    PROVE  AnyInv'
<1> DEFINE r == [LiveRec EXCEPT !.state = "awaiting_approval"]
<1>1. /\ driver[d].pc = "queued" /\ UNCHANGED <<ledgers, transfers, requests, clock>>
      /\ Advance(d, r)
  BY DEF JournalQueued, At
<1>2. LiveAt # {} => r \in RecordType /\ Known(r, DOMAIN transfers)
  BY LiveKnown DEF RecordType, JournalState, Known
<1> HIDE DEF r
<1> QED
  BY <1>1, <1>2, AdvanceKeeps

\* A record that is given the hash of a payment.
LEMMA HashedKnown ==
    ASSUME AnyInv, LiveAt # {}, NEW t \in DOMAIN transfers, NEW raw \in BOOLEAN
    PROVE  /\ LET r == [LiveRec EXCEPT !.state = "broadcast", !.tx = t]
              IN  r \in RecordType /\ Known(r, DOMAIN transfers)
           /\ LET r == [LiveRec EXCEPT !.state = "broadcast", !.tx = t, !.raw = raw]
              IN  r \in RecordType /\ Known(r, DOMAIN transfers)
<1>1. t \in Nat
  BY LenProperties DEF AnyInv, AnyTypes
<1>2. LiveRec \in RecordType /\ Known(LiveRec, DOMAIN transfers)
  BY LiveKnown
<1> QED
  BY <1>1, <1>2 DEF RecordType, JournalState, Known

LEMMA AnyJournalSigned ==
    ASSUME AnyInv, NEW d \in Drivers, JournalSigned(d)
    PROVE  AnyInv'
<1> DEFINE r == [LiveRec EXCEPT !.state = "broadcast", !.tx = driver[d].tx, !.raw = TRUE]
<1>1. /\ driver[d].pc = "signed" /\ UNCHANGED <<ledgers, transfers, requests, clock>>
      /\ Advance(d, r)
  BY DEF JournalSigned, At
<1>2. driver[d].tx \in DOMAIN transfers
  BY <1>1 DEF AnyInv, DriversHonest, Honest
<1>3. LiveAt # {} => r \in RecordType /\ Known(r, DOMAIN transfers)
  BY <1>2, HashedKnown
<1> HIDE DEF r
<1> QED
  BY <1>1, <1>3, AdvanceKeeps

LEMMA AnyPollQueue ==
    ASSUME AnyInv, NEW d \in Drivers, PollQueue(d)
    PROVE  AnyInv'
<1> DEFINE x == driver[d].rec.pending
           r == [LiveRec EXCEPT !.state = "broadcast", !.tx = x]
<1>1. /\ driver[d].pc = "drive" /\ UNCHANGED <<ledgers, transfers, requests, clock>>
      /\ \/ Return(d) /\ UNCHANGED journal
         \/ x # 0 /\ Advance(d, r)
         \/ Close(d, "failed")
         \/ Retry(d)
  BY DEF PollQueue, InState, At
<1>2. PaymentsGrow
  BY <1>1, PaymentsUntouched
<1>3. CASE Return(d) /\ UNCHANGED journal
  BY <1>1, <1>2, <1>3, RecordsUntouched, Returns
<1>4. CASE Close(d, "failed")
  <2>1. RecordsStay /\ Return(d)
    BY <1>1, <1>4, Ended
  <2> QED
    BY <1>1, <1>2, <2>1, Returns
<1>5. CASE Retry(d)
  <2>1. RecordsStay /\ Return(d)
    BY <1>2, <1>5, Retried
  <2> QED
    BY <1>1, <1>2, <2>1, Returns
<1>6. CASE x # 0 /\ Advance(d, r)
  <2>1. x \in DOMAIN transfers
    BY <1>1, <1>6, HeldKnown DEF Known
  <2>2. LiveAt # {} => r \in RecordType /\ Known(r, DOMAIN transfers)
    BY <2>1, HashedKnown
  <2> HIDE DEF r
  <2> QED
    BY <1>1, <1>6, <2>2, AdvanceKeeps
<1> HIDE DEF r, x
<1> QED
  BY <1>1, <1>3, <1>4, <1>5, <1>6

\* A new payment.
LEMMA NewPayment ==
    ASSUME AnyInv, NEW d \in Drivers, driver[d].pc = "drive",
           transfers' = Append(transfers, NewTransfer(d))
    PROVE  /\ PaymentsGrow /\ Len(transfers) + 1 \in Nat
           /\ Len(transfers) + 1 \in DOMAIN transfers'
<1>1. transfers \in Seq(Payment) /\ Len(transfers) \in Nat /\ DOMAIN transfers = 1..Len(transfers)
  BY LenProperties DEF AnyInv, AnyTypes
<1>2. NewTransfer(d) \in Payment
  BY HeldKnown DEF NewTransfer, Payment, RecordType
<1> QED
  BY <1>1, <1>2, AppendProperties, LenProperties DEF PaymentsGrow

\* The state of a payment changes; what is mined stays mined.
LEMMA AnyPaymentMoves ==
    ASSUME AnyInv, NEW t \in DOMAIN transfers,
           NEW s \in {"made"} \cup OnChain, NEW e \in EntryStatus, NEW u \in ExecutorStatus,
           transfers[t].state = "mined" => s = "mined",
           transfers' = [transfers EXCEPT ![t] = Written(transfers[t], s, e, u)]
    PROVE  PaymentsGrow /\ DOMAIN transfers' = DOMAIN transfers
<1> DEFINE p == Written(transfers[t], s, e, u)
<1>1. /\ transfers \in Seq(Payment) /\ Len(transfers) \in Nat
      /\ DOMAIN transfers = 1..Len(transfers)
      /\ \A v \in DOMAIN transfers : transfers[v] \in Payment
  BY ElementOfSeq, LenProperties DEF AnyInv, AnyTypes
<1>2. p \in Payment /\ p.state = s
  BY <1>1 DEF Payment, EntryStatus, ExecutorStatus, Written
<1>3. transfers' = [transfers EXCEPT ![t] = p]
  OBVIOUS
<1> HIDE DEF p
<1>4. transfers' \in Seq(Payment)
  BY <1>1, <1>2, <1>3, ExceptSeq
<1> QED
  BY <1>1, <1>2, <1>3, <1>4 DEF PaymentsGrow

LEMMA AnyPayment ==
    ASSUME AnyInv, NEW t \in DOMAIN transfers
    PROVE  transfers[t] \in Payment
BY ElementOfSeq, LenProperties DEF AnyInv, AnyTypes

LEMMA AnySignRaw ==
    ASSUME AnyInv, NEW d \in Drivers, SignRaw(d)
    PROVE  AnyInv'
<1>1. /\ driver[d].pc = "drive" /\ UNCHANGED <<ledgers, requests, clock>>
  BY DEF SignRaw, InState, At
<1>2. CASE Close(d, "failed") /\ UNCHANGED transfers
  <2>1. RecordsStay /\ Return(d)
    BY <1>2, Ended
  <2> QED
    BY <1>1, <1>2, <2>1, PaymentsUntouched, Returns
<1>3. ASSUME transfers' = Append(transfers, NewTransfer(d)), journal' = journal,
             driver' = [driver EXCEPT ![d].pc = "signed", ![d].tx = Len(transfers) + 1]
      PROVE  AnyInv'
  <2> DEFINE n == Len(transfers) + 1
             g == [driver[d] EXCEPT !.pc = "signed", !.tx = n]
  <2>1. PaymentsGrow /\ n \in Nat /\ n \in DOMAIN transfers'
    BY <1>1, <1>3, NewPayment
  <2>2. RecordsStay
    BY <1>3, <2>1, RecordsUntouched
  <2>3. driver' = [driver EXCEPT ![d] = g]
    BY <1>3
  <2> HIDE DEF n
  <2>a. "signed" \in PC
    BY DEF PC
  <2>4. g \in Goroutine /\ g.pc = "signed" /\ g.rec = driver[d].rec /\ g.tx = n
    BY <2>1, <2>a DEF AnyInv, AnyTypes, Goroutine, PC
  <2>5. Known(g.rec, DOMAIN transfers')
    BY <1>1, <2>1, <2>4, HeldKnown, KnownStays DEF PaymentsGrow
  <2> HIDE DEF g
  <2>6. Honest(g, DOMAIN transfers', Accepted)
    BY <2>1, <2>4, <2>5 DEF Honest
  <2> QED
    BY <1>1, <2>1, <2>2, <2>3, <2>4, <2>6, OneMovesOnly DEF AnyInv, AnyTypes
<1> QED
  BY <1>2, <1>3 DEF SignRaw

LEMMA AnyMintPendingID ==
    ASSUME AnyInv, NEW d \in Drivers, MintPendingID(d)
    PROVE  AnyInv'
<1>1. /\ driver[d].pc = "drive" /\ UNCHANGED <<ledgers, requests, clock>>
  BY DEF MintPendingID, InState, At
<1>2. ASSUME NEW n, n \in Nat, PaymentsGrow, n \in DOMAIN transfers', RecordsStay,
             driver' = [driver EXCEPT ![d].pc = "queue", ![d].tx = n]
      PROVE  AnyInv'
  <2> DEFINE g == [driver[d] EXCEPT !.pc = "queue", !.tx = n]
  <2>1. driver' = [driver EXCEPT ![d] = g]
    BY <1>2
  <2>a. "queue" \in PC
    BY DEF PC
  <2>2. g \in Goroutine /\ g.pc = "queue" /\ g.rec = driver[d].rec /\ g.tx = n
    BY <1>2, <2>a DEF AnyInv, AnyTypes, Goroutine, PC
  <2>3. Known(g.rec, DOMAIN transfers')
    BY <1>1, <1>2, <2>2, HeldKnown, KnownStays DEF PaymentsGrow
  <2> HIDE DEF g
  <2>4. Honest(g, DOMAIN transfers', Accepted)
    BY <1>2, <2>2, <2>3 DEF Honest
  <2> QED
    BY <1>1, <1>2, <2>1, <2>2, <2>4, OneMovesOnly DEF AnyInv, AnyTypes
<1>3. ASSUME driver[d].rec.pending # 0, UNCHANGED <<journal, transfers>>,
             driver' = [driver EXCEPT ![d].pc = "queue", ![d].tx = driver[d].rec.pending]
      PROVE  AnyInv'
  <2> DEFINE n == driver[d].rec.pending
  <2>1. n \in Nat /\ n \in DOMAIN transfers'
    BY <1>1, <1>3, HeldKnown DEF RecordType, Known
  <2>2. driver' = [driver EXCEPT ![d].pc = "queue", ![d].tx = n]
    BY <1>3
  <2> HIDE DEF n
  <2> QED
    BY <1>2, <1>3, <2>1, <2>2, PaymentsUntouched, RecordsUntouched
<1>4. ASSUME LiveAt # {}, transfers' = Append(transfers, NewTransfer(d)),
             Update([LiveRec EXCEPT !.pending = Len(transfers) + 1]),
             driver' = [driver EXCEPT ![d].pc = "queue", ![d].tx = Len(transfers) + 1]
      PROVE  AnyInv'
  <2> DEFINE n == Len(transfers) + 1
             r == [LiveRec EXCEPT !.pending = n]
  <2>1. PaymentsGrow /\ n \in Nat /\ n \in DOMAIN transfers'
    BY <1>1, <1>4, NewPayment
  <2>2. driver' = [driver EXCEPT ![d].pc = "queue", ![d].tx = n] /\ Update(r)
    BY <1>4
  <2> HIDE DEF n
  <2>3. LiveRec \in RecordType /\ Known(LiveRec, DOMAIN transfers')
    BY <1>4, <2>1, LiveKnown, KnownStays DEF PaymentsGrow
  <2>4. r \in RecordType /\ Known(r, DOMAIN transfers')
    BY <2>1, <2>3 DEF RecordType, Known
  <2> HIDE DEF r
  <2>5. RecordsStay
    BY <2>1, <2>2, <2>4, Updated
  <2> QED
    BY <1>2, <2>1, <2>2, <2>5
<1>5. CASE Return(d) /\ UNCHANGED <<journal, transfers>>
  BY <1>1, <1>5, PaymentsUntouched, RecordsUntouched, Returns
<1> QED
  BY <1>3, <1>4, <1>5 DEF MintPendingID

LEMMA AnyQueue ==
    ASSUME AnyInv, NEW d \in Drivers, Queue(d)
    PROVE  AnyInv'
<1>1. /\ driver[d].pc = "queue" /\ UNCHANGED <<ledgers, requests, clock>>
      /\ driver[d].tx \in DOMAIN transfers
  BY DEF Queue, At, AnyInv, DriversHonest, Honest
<1>2. CASE Close(d, "failed") /\ UNCHANGED transfers
  <2>1. RecordsStay /\ Return(d)
    BY <1>2, Ended
  <2> QED
    BY <1>1, <1>2, <2>1, PaymentsUntouched, Returns
<1>3. ASSUME transfers' = [transfers EXCEPT ![driver[d].tx].entry =
                               IF @ = "none" THEN "pending" ELSE @],
             driver' = [driver EXCEPT ![d].pc = "queued"], journal' = journal
      PROVE  AnyInv'
  <2> DEFINE g == [driver[d] EXCEPT !.pc = "queued"]
  <2>1. PaymentsGrow
    <3> DEFINE t == driver[d].tx
               p == transfers[t]
    <3>1. t \in DOMAIN transfers /\ p \in Payment
      BY <1>1, AnyPayment
    <3>2. PICK e \in EntryStatus : e = IF p.entry = "none" THEN "pending" ELSE p.entry
      BY <3>1, PaymentFields DEF EntryStatus
    <3>3. transfers' = [transfers EXCEPT ![t] = [p EXCEPT !.entry = e]]
      BY <1>3, <3>1, <3>2
    <3>4. transfers' = [transfers EXCEPT ![t] = Written(p, p.state, e, p.executor)]
      <4>1. [p EXCEPT !.entry = e] = Written(p, p.state, e, p.executor)
        BY <3>1 DEF Written, Payment
      <4> QED
        BY <3>3, <4>1
    <3> HIDE DEF t
    <3> QED
      BY <3>1, <3>4, PaymentFields, AnyPaymentMoves
  <2>2. DOMAIN transfers' = DOMAIN transfers /\ driver' = [driver EXCEPT ![d] = g]
    BY <1>3
  <2>a. "queued" \in PC
    BY DEF PC
  <2>3. /\ g \in Goroutine /\ g.pc = "queued" /\ g.rec = driver[d].rec
        /\ g.tx = driver[d].tx
    BY <2>a, StepIsHonest
  <2> HIDE DEF g
  <2>4. Honest(g, DOMAIN transfers', Accepted)
    BY <1>1, <2>2, <2>3, HeldKnown DEF Honest
  <2> QED
    BY <1>1, <1>3, <2>1, <2>2, <2>3, <2>4, RecordsUntouched, OneMovesOnly DEF AnyInv, AnyTypes
<1> QED
  BY <1>2, <1>3 DEF Queue

\* The request of a goroutine that held the drive and now waits.
LEMMA AnyCall ==
    ASSUME AnyInv, NEW d \in Drivers, driver[d].pc = "drive", NEW phase \in {1, 2},
           NEW tx \in Nat, Call(d, phase, tx),
           phase = 2 => tx = driver[d].rec.tx /\ tx \in DOMAIN transfers,
           PaymentsGrow, journal' = journal, UNCHANGED ledgers, clock' = clock
    PROVE  AnyInv'
<1> DEFINE g == [driver[d] EXCEPT !.pc = "calling"]
           new == [caller |-> d, phase |-> phase, covers |-> driver[d].rec.covers,
                   tx |-> tx, pc |-> "received"]
<1>1. driver[d].rec \in RecordType /\ Known(driver[d].rec, DOMAIN transfers)
  BY HeldKnown
<1>a. "calling" \in PC
  BY DEF PC
<1>2. /\ g \in Goroutine /\ g.pc = "calling" /\ g.rec = driver[d].rec
  BY <1>a, StepIsHonest
<1>3. driver' = [driver EXCEPT ![d] = g] /\ requests' = requests \cup {new}
  BY DEF Call
<1>4. DOMAIN transfers \subseteq DOMAIN transfers' /\ Accepted' = Accepted
  BY DEF PaymentsGrow, Accepted, ledgers
<1>5. /\ new \in Request /\ new.caller = d /\ new.pc = "received" /\ new.covers # {}
      /\ new.phase = phase /\ new.tx = tx
  BY <1>1 DEF Request, RecordType, Known
<1> HIDE DEF g, new
<1>6. RecordsStay
  BY RecordsUntouched
<1>7. /\ driver'[d] = g /\ \A f \in Drivers \ {d} : driver'[f] = driver[f]
      /\ driver' \in [Drivers -> Goroutine]
  BY <1>2, <1>3 DEF AnyInv, AnyTypes
<1>8. AnyTypes' /\ RecordsKnown'
  BY <1>3, <1>5, <1>6, <1>7 DEF AnyInv, AnyTypes, PaymentsGrow, RecordsStay, RecordsKnown, ledgers
<1>9. DriversHonest'
  <2> SUFFICES ASSUME NEW f \in Drivers PROVE Honest(driver'[f], DOMAIN transfers', Accepted)
    BY <1>4 DEF DriversHonest
  <2>1. CASE f = d
    <3>1. Known(g.rec, DOMAIN transfers')
      BY <1>1, <1>2, <1>4, KnownStays
    <3> QED
      BY <1>2, <1>7, <2>1, <3>1 DEF Honest
  <2>2. CASE f # d
    BY <1>4, <1>7, <2>2, HonestStays DEF AnyInv, DriversHonest
  <2> QED
    BY <2>1, <2>2
<1>10. RequestsMatch'
  <2>1. \A q \in requests : q.caller # Nobody => q.caller # d /\ driver'[q.caller] = driver[q.caller]
    BY <1>7 DEF AnyInv, AnyTypes, RequestsMatch, Request
  <2>2. \A q \in requests : q.caller # d
    BY <2>1, SettleAssumptions
  <2> QED
    BY <1>2, <1>3, <1>4, <1>5, <1>7, <2>1, <2>2, SettleAssumptions DEF AnyInv, RequestsMatch
<1>11. RowsPaid'
  BY <1>4 DEF AnyInv, RowsPaid, PaymentsGrow, ledgers
<1> QED
  BY <1>8, <1>9, <1>10, <1>11 DEF AnyInv

LEMMA AnySendPhase1 ==
    ASSUME AnyInv, NEW d \in Drivers, SendPhase1(d)
    PROVE  AnyInv'
BY PaymentsUntouched, AnyCall DEF SendPhase1, InState, At

LEMMA AnySendPhase2 ==
    ASSUME AnyInv, NEW d \in Drivers, SendPhase2(d)
    PROVE  AnyInv'
<1> DEFINE t == driver[d].rec.tx
<1>1. /\ driver[d].pc = "drive" /\ UNCHANGED <<ledgers, clock>>
      /\ driver[d].rec.state = "broadcast"
  BY DEF SendPhase2, InState, At
<1>2. t \in DOMAIN transfers /\ t \in Nat
  BY <1>1, HeldKnown DEF Known, RecordType
<1>3. ASSUME NEW b \in BOOLEAN,
             transfers' = [transfers EXCEPT ![t].state = IF @ = "made" /\ b THEN "sent" ELSE @]
      PROVE  PaymentsGrow
  <2> DEFINE p == transfers[t]
  <2>1. p \in Payment
    BY <1>2, AnyPayment
  <2>2. PICK s \in {"made"} \cup OnChain : s = IF p.state = "made" /\ b THEN "sent" ELSE p.state
    BY <2>1 DEF Payment, OnChain
  <2>3. transfers' = [transfers EXCEPT ![t] = [p EXCEPT !.state = s]]
    BY <1>2, <1>3, <2>2
  <2>4. transfers' = [transfers EXCEPT ![t] = Written(p, s, p.entry, p.executor)]
    <3>1. [p EXCEPT !.state = s] = Written(p, s, p.entry, p.executor)
      BY <2>1 DEF Written, Payment
    <3> QED
      BY <2>3, <3>1
  <2>5. p.state = "mined" => s = "mined"
    BY <2>2
  <2> HIDE DEF t
  <2> QED
    BY <1>2, <2>1, <2>4, <2>5, PaymentFields, AnyPaymentMoves
<1>4. driver[d].rec.raw \in BOOLEAN
  BY <1>1, HeldKnown DEF RecordType
<1>5. CASE PaymentsGrow /\ Call(d, 2, t) /\ UNCHANGED journal
  BY <1>1, <1>2, <1>5, AnyCall
<1>6. CASE PaymentsGrow /\ Retry(d) /\ UNCHANGED requests
  <2>1. RecordsStay /\ Return(d)
    BY <1>6, Retried
  <2> QED
    BY <1>1, <1>6, <2>1, Returns
<1> HIDE DEF t
<1> QED
  BY <1>3, <1>4, <1>5, <1>6 DEF SendPhase2, t

LEMMA AnyPhase2Answered ==
    ASSUME AnyInv, NEW d \in Drivers, Phase2Answered(d)
    PROVE  AnyInv'
<1>1. /\ driver[d].pc = "answered" /\ UNCHANGED <<ledgers, transfers, requests, clock>>
      /\ \/ /\ driver[d].resp = "ack" /\ driver' = [driver EXCEPT ![d].pc = "acked"]
            /\ UNCHANGED journal
         \/ Close(d, "rejected")
         \/ Retry(d)
  BY DEF Phase2Answered, At
<1>2. PaymentsGrow
  BY <1>1, PaymentsUntouched
<1>3. CASE Close(d, "rejected")
  <2>1. RecordsStay /\ Return(d)
    BY <1>1, <1>3, Ended
  <2> QED
    BY <1>1, <1>2, <2>1, Returns
<1>4. CASE Retry(d)
  <2>1. RecordsStay /\ Return(d)
    BY <1>2, <1>4, Retried
  <2> QED
    BY <1>1, <1>2, <2>1, Returns
<1>5. ASSUME driver[d].resp = "ack", driver' = [driver EXCEPT ![d].pc = "acked"],
             journal' = journal
      PROVE  AnyInv'
  <2> DEFINE g == [driver[d] EXCEPT !.pc = "acked"]
  <2>1. Known(driver[d].rec, DOMAIN transfers) /\ driver[d].rec.tx \in Accepted
    BY <1>1, <1>5, HeldKnown DEF AnyInv, DriversHonest, Honest
  <2>a. "acked" \in PC
    BY DEF PC
  <2>2. /\ g \in Goroutine /\ g.pc = "acked" /\ g.rec = driver[d].rec
    BY <2>a, StepIsHonest
  <2>3. driver' = [driver EXCEPT ![d] = g]
    BY <1>5
  <2> HIDE DEF g
  <2>4. Honest(g, DOMAIN transfers', Accepted)
    BY <1>1, <2>1, <2>2 DEF Honest
  <2> QED
    BY <1>1, <1>2, <1>5, <2>2, <2>3, <2>4, RecordsUntouched, OneMovesOnly DEF AnyInv, AnyTypes
<1> QED
  BY <1>1, <1>3, <1>4, <1>5

\* settlePayables marks rows with the hash that the payee acknowledged.
LEMMA AnyMarks ==
    ASSUME AnyInv, NEW d \in Drivers, NEW done, MarkPayables(d, done)
    PROVE  /\ driver[d].pc = "acked" /\ driver[d].rec.tx \in Accepted
           /\ payable' \in [Entries -> [st : EntryState, ts : Nat, tx : Nat]]
           /\ \A e \in Entries : payable'[e].st = "settled" => payable'[e].tx \in Accepted
<1>1. driver[d].pc = "acked"
  BY DEF MarkPayables, At
<1>2. driver[d].rec.tx \in Accepted /\ driver[d].rec.tx \in Nat
  BY <1>1, HeldKnown DEF AnyInv, DriversHonest, Honest, RecordType
<1>3. ASSUME NEW e \in Entries
      PROVE  LET row == IF e \in done THEN Payable(e, "settled", driver[d].rec.tx) ELSE payable[e]
             IN  /\ row \in [st : EntryState, ts : Nat, tx : Nat]
                 /\ row.st = "settled" => row.tx \in Accepted
  <2>1. /\ payable[e] \in [st : EntryState, ts : Nat, tx : Nat] /\ clock \in Nat
        /\ payable[e].st = "settled" => payable[e].tx \in Accepted
    BY DEF AnyInv, AnyTypes, RowsPaid
  <2> QED
    BY <1>2, <2>1 DEF Payable, EntryState
<1>4. payable' = [e \in Entries |->
          IF e \in done THEN Payable(e, "settled", driver[d].rec.tx) ELSE payable[e]]
  BY DEF MarkPayables
<1> QED
  BY <1>1, <1>2, <1>3, <1>4

LEMMA AnySettlePayables ==
    ASSUME AnyInv, NEW d \in Drivers, SettlePayables(d) \/ SettlePayablesFails(d)
    PROVE  AnyInv'
<1>1. PICK done : MarkPayables(d, done)
  BY DEF SettlePayables, SettlePayablesFails
<1>2. UNCHANGED <<receivable, journal, transfers, requests, clock>>
  BY <1>1 DEF MarkPayables
<1>3. PaymentsGrow /\ RecordsStay
  BY <1>2, PaymentsUntouched, RecordsUntouched
<1>4. CASE SettlePayables(d)
  <2> DEFINE g == [driver[d] EXCEPT !.pc = "settling"]
  <2>1. driver' = [driver EXCEPT ![d] = g]
    BY <1>4 DEF SettlePayables
  <2>a. "settling" \in PC
    BY DEF PC
  <2>2. /\ g \in Goroutine /\ g.pc = "settling" /\ g.rec = driver[d].rec
    BY <2>a, StepIsHonest
  <2> HIDE DEF g
  <2>3. driver[d].pc = "acked" /\ driver[d].rec.tx \in Accepted
    BY <1>1, AnyMarks
  <2>4. Honest(g, DOMAIN transfers', Accepted)
    BY <1>2, <2>2, <2>3, HeldKnown DEF Honest
  <2> QED
    BY <1>1, <1>2, <1>3, <2>1, <2>2, <2>3, <2>4, AnyMarks, OneMoves DEF AnyInv, AnyTypes
<1>5. CASE SettlePayablesFails(d)
  <2>1. driver' = [driver EXCEPT ![d] = Idle] /\ driver[d].pc = "acked"
    BY <1>1, <1>5, AnyMarks DEF SettlePayablesFails, Return
  <2>2. Idle \in Goroutine /\ Honest(Idle, DOMAIN transfers', Accepted)
    BY IdleIsHonest
  <2> QED
    BY <1>1, <1>2, <1>3, <2>1, <2>2, AnyMarks, OneMoves DEF AnyInv, AnyTypes
<1> QED
  BY <1>4, <1>5

LEMMA AnyJournalSettled ==
    ASSUME AnyInv, NEW d \in Drivers, JournalSettled(d)
    PROVE  AnyInv'
<1>1. /\ driver[d].pc = "settling" /\ Close(d, "settled")
      /\ UNCHANGED <<ledgers, transfers, requests, clock>>
  BY DEF JournalSettled, At
<1>2. RecordsStay /\ Return(d)
  BY <1>1, Ended
<1> QED
  BY <1>1, <1>2, PaymentsUntouched, Returns

-----------------------------------------------------------------------------
\* Requests that lose the goroutine that waited for them.
LEMMA AnyAbandon ==
    ASSUME AnyInv, NEW qs \in SUBSET requests, Abandon(qs), transfers' = transfers,
           \A q \in requests \ qs : q.caller # Nobody => driver'[q.caller] = driver[q.caller]
    PROVE  RequestsMatch' /\ requests' \subseteq Request
<1>1. requests' = (requests \ qs) \cup { [q EXCEPT !.caller = Nobody] : q \in {r \in qs : r.phase = 2} }
  BY DEF Abandon
<1>2. ASSUME NEW r \in qs
      PROVE  LET q == [r EXCEPT !.caller = Nobody]
             IN  /\ q \in Request /\ q.caller = Nobody /\ q.phase = r.phase /\ q.tx = r.tx
                 /\ q.covers = r.covers /\ q.pc = r.pc
  BY DEF AnyInv, AnyTypes, Request
<1>3. ASSUME NEW q \in requests'
      PROVE  \/ q \in requests \ qs
             \/ /\ q \in Request /\ q.caller = Nobody
                /\ \E r \in requests : /\ q.phase = r.phase /\ q.tx = r.tx
                                       /\ q.covers = r.covers /\ q.pc = r.pc
  BY <1>1, <1>2
<1>4. requests' \subseteq Request
  BY <1>3 DEF AnyInv, AnyTypes
<1>5. RequestsMatch'
  <2>1. ASSUME NEW q \in requests'
        PROVE  /\ q.covers # {}
               /\ q.phase = 2 => q.tx \in DOMAIN transfers'
               /\ q.pc = "matched" => q.phase = 2
               /\ q.caller # Nobody =>
                     /\ driver'[q.caller].pc = "calling"
                     /\ q.phase = 2 => q.tx = driver'[q.caller].rec.tx
    BY <1>3 DEF AnyInv, RequestsMatch
  <2>2. \A q, r \in requests' : q.caller = r.caller /\ q.caller # Nobody => q = r
    BY <1>3 DEF AnyInv, RequestsMatch
  <2> QED
    BY <2>1, <2>2 DEF RequestsMatch
<1> QED
  BY <1>4, <1>5

LEMMA AnyCallFails ==
    ASSUME AnyInv, NEW d \in Drivers, CallFails(d)
    PROVE  AnyInv'
<1>1. /\ driver[d].pc = "calling" /\ Retry(d) /\ Abandon({q \in requests : q.caller = d})
      /\ UNCHANGED <<ledgers, transfers, clock>>
  BY DEF CallFails, At
<1>2. PaymentsGrow
  BY <1>1, PaymentsUntouched
<1>3. RecordsStay /\ driver' = [driver EXCEPT ![d] = Idle]
  BY <1>1, <1>2, Retried DEF Return
<1>4. \A P, C : Idle \in Goroutine /\ Honest(Idle, P, C)
  BY IdleIsHonest
<1>5. /\ driver' \in [Drivers -> Goroutine]
      /\ \A f \in Drivers : driver'[f] = IF f = d THEN Idle ELSE driver[f]
  BY <1>3, <1>4 DEF AnyInv, AnyTypes
<1>6. RequestsMatch' /\ requests' \subseteq Request
  <2> DEFINE qs == {q \in requests : q.caller = d}
  <2>1. \A q \in requests \ qs : q.caller # Nobody => driver'[q.caller] = driver[q.caller]
    BY <1>5 DEF AnyInv, AnyTypes, Request
  <2>2. Abandon(qs) /\ qs \in SUBSET requests
    BY <1>1
  <2> HIDE DEF qs
  <2> QED
    BY <1>1, <2>1, <2>2, AnyAbandon
<1>7. Accepted' = Accepted /\ RowsPaid'
  BY <1>1 DEF AnyInv, RowsPaid, Accepted, ledgers
<1>8. DriversHonest'
  BY <1>1, <1>4, <1>5, <1>7 DEF AnyInv, DriversHonest
<1> QED
  BY <1>1, <1>2, <1>3, <1>5, <1>6, <1>7, <1>8
     DEF AnyInv, AnyTypes, PaymentsGrow, RecordsStay, RecordsKnown, ledgers

LEMMA AnyCrash ==
    ASSUME AnyInv, Crash
    PROVE  AnyInv'
<1>1. /\ driver' = [d \in Drivers |-> Idle] /\ Abandon(requests)
      /\ UNCHANGED <<ledgers, journal, transfers, clock>>
  BY DEF Crash
<1>2. \A P, C : Idle \in Goroutine /\ Honest(Idle, P, C)
  BY IdleIsHonest
<1>3. RequestsMatch' /\ requests' \subseteq Request
  BY <1>1, AnyAbandon
<1>4. DriversHonest' /\ RecordsKnown' /\ RowsPaid'
  BY <1>1, <1>2 DEF AnyInv, DriversHonest, RecordsKnown, RowsPaid, Accepted, ledgers
<1> QED
  BY <1>1, <1>2, <1>3, <1>4 DEF AnyInv, AnyTypes, ledgers

\* The payee answers: the goroutine that waits, if one still does, has the
\* hash that the request carried.
LEMMA AnyAnswer ==
    ASSUME AnyInv, NEW q \in requests, NEW resp \in {"awaiting_tx", "ack", "reject", "pending"},
           Answer(q, resp), requests' = requests \ {q},
           UNCHANGED <<journal, transfers, clock>>, Accepted \subseteq Accepted',
           payable' \in [Entries -> [st : EntryState, ts : Nat, tx : Nat]],
           receivable' \in [Entries -> [st : EntryState, tx : Nat]], RowsPaid',
           resp = "ack" => q.phase = 2 /\ q.tx \in Accepted'
    PROVE  AnyInv'
<1>1. driver \in [Drivers -> Goroutine] /\ requests \subseteq Request
  BY DEF AnyInv, AnyTypes
<1>2. /\ \A d \in Drivers : d # q.caller => driver'[d] = driver[d]
      /\ \A d \in Drivers : d = q.caller => driver'[d] = [driver[d] EXCEPT !.pc = "answered", !.resp = resp]
      /\ driver' = [d \in Drivers |-> driver'[d]]
  BY DEF Answer
<1>3. ASSUME NEW d \in Drivers
      PROVE  driver'[d] \in Goroutine /\ Honest(driver'[d], DOMAIN transfers', Accepted')
  <2>1. driver[d] \in Goroutine /\ Honest(driver[d], DOMAIN transfers, Accepted)
    BY <1>1 DEF AnyInv, DriversHonest
  <2>2. CASE d # q.caller
    BY <1>2, <2>1, <2>2, HonestStays
  <2>3. CASE d = q.caller
    <3>1. driver[d].pc = "calling" /\ (q.phase = 2 => q.tx = driver[d].rec.tx)
      BY <2>3, SettleAssumptions DEF AnyInv, RequestsMatch
    <3>2. /\ driver'[d] \in Goroutine /\ driver'[d].pc = "answered"
          /\ driver'[d].resp = resp /\ driver'[d].rec = driver[d].rec
      <4>1. driver'[d] = [driver[d] EXCEPT !.pc = "answered", !.resp = resp]
        BY <1>2, <2>3
      <4> QED
        BY <2>1, <4>1 DEF Goroutine, PC
    <3> QED
      BY <2>1, <3>1, <3>2 DEF Honest
  <2> QED
    BY <2>2, <2>3
<1>4. \A r \in requests' : r \in requests /\ (r.caller # Nobody => driver'[r.caller] = driver[r.caller])
  BY <1>1, <1>2 DEF AnyInv, RequestsMatch, Request
<1>5. RequestsMatch'
  BY <1>4 DEF AnyInv, RequestsMatch
<1>6. driver' \in [Drivers -> Goroutine]
  BY <1>2, <1>3
<1>7. DriversHonest' /\ RecordsKnown'
  BY <1>3 DEF AnyInv, DriversHonest, RecordsKnown
<1> QED
  BY <1>4, <1>5, <1>6, <1>7 DEF AnyInv, AnyTypes

LEMMA AcceptedUntouched ==
    ASSUME AnyInv, UNCHANGED ledgers, transfers' = transfers
    PROVE  /\ Accepted' = Accepted /\ RowsPaid'
           /\ payable' \in [Entries -> [st : EntryState, ts : Nat, tx : Nat]]
           /\ receivable' \in [Entries -> [st : EntryState, tx : Nat]]
BY DEF AnyInv, AnyTypes, RowsPaid, Accepted, ledgers

LEMMA AnyPayeePhase1 ==
    ASSUME AnyInv, NEW q \in requests, PayeePhase1(q)
    PROVE  AnyInv'
<1>1. PICK resp \in {"awaiting_tx", "reject"} : Answer(q, resp)
  BY DEF PayeePhase1
<1>2. requests' = requests \ {q} /\ UNCHANGED <<ledgers, journal, transfers, clock>>
  BY DEF PayeePhase1
<1> QED
  BY <1>1, <1>2, AcceptedUntouched, AnyAnswer

LEMMA AnyPayeePhase2 ==
    ASSUME AnyInv, NEW q \in requests, PayeePhase2(q)
    PROVE  AnyInv'
<1>1. q.phase = 2 /\ UNCHANGED <<ledgers, journal, transfers, clock>>
  BY DEF PayeePhase2
<1>2. ASSUME requests' = (requests \ {q}) \cup {[q EXCEPT !.pc = "matched"]}, driver' = driver
      PROVE  AnyInv'
  <2> DEFINE n == [q EXCEPT !.pc = "matched"]
  <2>1. /\ n \in Request /\ n.pc = "matched" /\ n.caller = q.caller /\ n.phase = 2
        /\ n.tx = q.tx /\ n.covers = q.covers
    BY <1>1 DEF AnyInv, AnyTypes, Request
  <2>2. requests' = (requests \ {q}) \cup {n}
    BY <1>2
  <2> HIDE DEF n
  <2>3. RequestsMatch'
    BY <1>1, <1>2, <2>1, <2>2 DEF AnyInv, RequestsMatch
  <2>4. Accepted' = Accepted /\ RowsPaid'
    BY <1>1, AcceptedUntouched
  <2> QED
    BY <1>1, <1>2, <2>1, <2>2, <2>3, <2>4
       DEF AnyInv, AnyTypes, RecordsKnown, DriversHonest, ledgers
<1>3. ASSUME NEW resp \in {"ack", "reject"}, Answer(q, resp), requests' = requests \ {q},
             resp = "ack" => AlreadySettled(q)
      PROVE  AnyInv'
  <2>1. resp = "ack" => q.tx \in Accepted
    <3>1. q.covers # {} /\ q.covers \subseteq Entries
      BY DEF AnyInv, AnyTypes, RequestsMatch, Request
    <3> QED
      BY <1>3, <3>1 DEF AlreadySettled, Accepted
  <2> QED
    BY <1>1, <1>3, <2>1, AcceptedUntouched, AnyAnswer
<1> QED
  BY <1>2, <1>3 DEF PayeePhase2

LEMMA AnyPayeeVerifyFails ==
    ASSUME AnyInv, NEW q \in requests, PayeeVerifyFails(q)
    PROVE  AnyInv'
<1>1. PICK resp \in {"pending", "reject"} : Answer(q, resp)
  BY DEF PayeeVerifyFails
<1>2. requests' = requests \ {q} /\ UNCHANGED <<ledgers, journal, transfers, clock>>
  BY DEF PayeeVerifyFails
<1> QED
  BY <1>1, <1>2, AcceptedUntouched, AnyAnswer

LEMMA AnyPayeeSettles ==
    ASSUME AnyInv, NEW q \in requests, PayeeSettles(q)
    PROVE  AnyInv'
<1>1. PICK done \in SUBSET { e \in q.covers : receivable[e].st = "accrued" } :
          /\ receivable' = [e \in Entries |->
                 IF e \in done THEN Receivable(e, "settled", q.tx) ELSE receivable[e]]
          /\ Answer(q, IF done = q.covers THEN "ack" ELSE "pending")
  BY DEF PayeeSettles
<1>2. /\ q.pc = "matched" /\ transfers[q.tx].state = "mined" /\ requests' = requests \ {q}
      /\ UNCHANGED <<payable, journal, transfers, clock>>
  BY DEF PayeeSettles, Verified
<1>3. /\ q \in Request /\ q.phase = 2 /\ q.covers # {} /\ q.covers \subseteq Entries
      /\ q.tx \in DOMAIN transfers
  BY <1>2 DEF AnyInv, AnyTypes, RequestsMatch, Request
<1>4. /\ \A e \in done : receivable'[e] = [st |-> "settled", tx |-> q.tx]
      /\ \A e \in Entries \ done : receivable'[e] = receivable[e]
  BY <1>1, <1>3 DEF Receivable, ValidMove
<1>5. receivable' \in [Entries -> [st : EntryState, tx : Nat]]
  <2>1. \A e \in Entries : receivable'[e] \in [st : EntryState, tx : Nat]
    <3>1. \A e \in Entries : receivable[e] \in [st : EntryState, tx : Nat]
      BY DEF AnyInv, AnyTypes
    <3>2. q.tx \in Nat /\ "settled" \in EntryState
      BY <1>3 DEF Request, EntryState
    <3>3. [st |-> "settled", tx |-> q.tx] \in [st : EntryState, tx : Nat]
      BY <3>2
    <3> QED
      BY <1>4, <3>1, <3>3
  <2>2. receivable' = [e \in Entries |-> receivable'[e]]
    BY <1>1
  <2> QED
    BY <2>1, <2>2
<1>6. Accepted \subseteq Accepted'
  <2> SUFFICES ASSUME NEW e \in Entries, receivable[e].st = "settled"
               PROVE  receivable[e].tx \in Accepted'
    BY DEF Accepted
  <2>1. receivable'[e] = receivable[e]
    BY <1>1, <1>4
  <2> QED
    BY <2>1 DEF Accepted
<1>7. RowsPaid'
  <2>1. ASSUME NEW e \in Entries, receivable'[e].st = "settled"
        PROVE  receivable'[e].tx \in DOMAIN transfers'
               /\ transfers'[receivable'[e].tx].state = "mined"
    BY <1>2, <1>3, <1>4, <2>1 DEF AnyInv, RowsPaid
  <2>2. \A e \in Entries : payable'[e].st = "settled" => payable'[e].tx \in Accepted'
    BY <1>2, <1>6 DEF AnyInv, RowsPaid
  <2> QED
    BY <2>1, <2>2 DEF RowsPaid
<1>8. done = q.covers => q.tx \in Accepted'
  BY <1>3, <1>4 DEF Accepted
<1> DEFINE resp == IF done = q.covers THEN "ack" ELSE "pending"
<1>9. /\ resp \in {"awaiting_tx", "ack", "reject", "pending"} /\ Answer(q, resp)
      /\ resp = "ack" => q.phase = 2 /\ q.tx \in Accepted'
  BY <1>1, <1>3, <1>8
<1>10. payable' \in [Entries -> [st : EntryState, ts : Nat, tx : Nat]]
  BY <1>2 DEF AnyInv, AnyTypes
<1> HIDE DEF resp
<1> QED
  BY <1>2, <1>5, <1>6, <1>7, <1>9, <1>10, AnyAnswer

LEMMA AnyPayeeLoses ==
    ASSUME AnyInv, NEW q \in requests, PayeeLoses(q)
    PROVE  AnyInv'
<1>1. requests' = requests \ {q} /\ UNCHANGED <<ledgers, journal, transfers, driver, clock>>
  BY DEF PayeeLoses
<1>2. RequestsMatch'
  BY <1>1 DEF AnyInv, RequestsMatch
<1>3. Accepted' = Accepted /\ RowsPaid'
  BY <1>1, AcceptedUntouched
<1> QED
  BY <1>1, <1>2, <1>3 DEF AnyInv, AnyTypes, RecordsKnown, DriversHonest, ledgers

LEMMA AnyChain ==
    ASSUME AnyInv, NEW t \in DOMAIN transfers, QueueStep(t) \/ Chain(t)
    PROVE  AnyInv'
<1>1. UNCHANGED <<ledgers, journal, driver, requests, clock>>
  BY DEF QueueStep, Resolve, ExecuteApproved, Complete, ExecutorDies, Chain
<1>2. PaymentsGrow /\ DOMAIN transfers' = DOMAIN transfers
  <2> DEFINE p == transfers[t]
  <2>1. p \in Payment
    BY AnyPayment
  <2> HIDE DEF p
  <2>2. PICK s \in {"made"} \cup OnChain, e \in EntryStatus, u \in ExecutorStatus :
           /\ transfers' = [transfers EXCEPT ![t] = Written(p, s, e, u)]
           /\ p.state = "mined" => s = "mined"
    BY <2>1, ChainMoves DEF p
  <2> QED
    BY <2>2, AnyPaymentMoves DEF p
<1>3. RecordsStay
  BY <1>1, <1>2, RecordsUntouched
<1>4. Accepted' = Accepted
  BY <1>1 DEF Accepted, ledgers
<1>5. RequestsMatch' /\ DriversHonest'
  BY <1>1, <1>2, <1>4 DEF AnyInv, RequestsMatch, DriversHonest, PaymentsGrow
<1>6. RowsPaid'
  BY <1>1, <1>2, <1>4 DEF AnyInv, RowsPaid, PaymentsGrow, ledgers
<1> QED
  BY <1>1, <1>2, <1>3, <1>5, <1>6 DEF AnyInv, AnyTypes, PaymentsGrow, RecordsStay, RecordsKnown, ledgers

\* Operators and work change rows that are not settled, to states other than
\* settled.
LEMMA AnyOperator ==
    ASSUME AnyInv, NEW e \in Entries, OperatorStep(e)
    PROVE  AnyInv'
<1> DEFINE Open == {"accrued", "disputed", "written_off"}
<1>1. UNCHANGED <<journal, transfers, driver, requests, clock>>
  BY DEF OperatorStep, AccrueReceivable, AccruePayable, PayerDisputes, PayeeDisputes,
         PayerResolves, PayeeResolves
<1>2. /\ payable \in [Entries -> [st : EntryState, ts : Nat, tx : Nat]]
      /\ receivable \in [Entries -> [st : EntryState, tx : Nat]] /\ clock \in Nat
  BY DEF AnyInv, AnyTypes
<1>3. \/ UNCHANGED ledgers
      \/ /\ payable[e].st # "settled" /\ receivable' = receivable
         /\ \E st \in Open : payable' = [payable EXCEPT ![e] = [st |-> st, ts |-> clock, tx |-> 0]]
      \/ /\ receivable[e].st # "settled" /\ payable' = payable
         /\ \E st \in Open : receivable' = [receivable EXCEPT ![e] = [st |-> st, tx |-> 0]]
  BY <1>2 DEF OperatorStep, AccrueReceivable, AccruePayable, PayerDisputes, PayeeDisputes,
              PayerResolves, PayeeResolves, Payable, Receivable, ValidMove, ledgers
<1>4. ASSUME Accepted' = Accepted, RowsPaid',
             payable' \in [Entries -> [st : EntryState, ts : Nat, tx : Nat]],
             receivable' \in [Entries -> [st : EntryState, tx : Nat]]
      PROVE  AnyInv'
  BY <1>1, <1>4 DEF AnyInv, AnyTypes, RecordsKnown, DriversHonest, RequestsMatch
<1>5. CASE UNCHANGED ledgers
  BY <1>1, <1>4, <1>5, AcceptedUntouched
<1>6. ASSUME receivable' = receivable, NEW st \in Open,
             payable' = [payable EXCEPT ![e] = [st |-> st, ts |-> clock, tx |-> 0]]
      PROVE  AnyInv'
  <2>1. [st |-> st, ts |-> clock, tx |-> 0] \in [st : EntryState, ts : Nat, tx : Nat]
    BY <1>2 DEF EntryState
  <2>2. payable' \in [Entries -> [st : EntryState, ts : Nat, tx : Nat]]
    BY <1>2, <1>6, <2>1
  <2>3. \A f \in Entries : payable'[f].st = "settled" => payable'[f] = payable[f]
    BY <1>2, <1>6
  <2>4. Accepted' = Accepted
    BY <1>6 DEF Accepted
  <2>5. RowsPaid'
    BY <1>1, <1>6, <2>3, <2>4 DEF AnyInv, RowsPaid
  <2> QED
    BY <1>2, <1>4, <1>6, <2>2, <2>4, <2>5
<1>7. ASSUME receivable[e].st # "settled", payable' = payable, NEW st \in Open,
             receivable' = [receivable EXCEPT ![e] = [st |-> st, tx |-> 0]]
      PROVE  AnyInv'
  <2>1. [st |-> st, tx |-> 0] \in [st : EntryState, tx : Nat]
    BY DEF EntryState
  <2>2. receivable' \in [Entries -> [st : EntryState, tx : Nat]]
    BY <1>2, <1>7, <2>1
  <2>3. /\ \A f \in Entries : receivable'[f].st = "settled" => receivable'[f] = receivable[f]
        /\ \A f \in Entries : receivable[f].st = "settled" => receivable'[f] = receivable[f]
    BY <1>2, <1>7
  <2>4. Accepted' = Accepted
    BY <2>3 DEF Accepted
  <2>5. RowsPaid'
    BY <1>1, <1>7, <2>3, <2>4 DEF AnyInv, RowsPaid
  <2> QED
    BY <1>2, <1>4, <1>7, <2>2, <2>4, <2>5
<1> QED
  BY <1>3, <1>5, <1>6, <1>7

LEMMA AnyInvInit == Init => AnyInv
<1> SUFFICES ASSUME Init PROVE AnyInv
  OBVIOUS
<1>1. \A P, C : Idle \in Goroutine /\ Honest(Idle, P, C)
  BY IdleIsHonest
<1>2. AnyTypes
  BY <1>1, EmptySeq DEF Init, AnyTypes, EntryState
<1>3. RecordsKnown /\ DriversHonest /\ RequestsMatch /\ RowsPaid
  BY <1>1 DEF Init, RecordsKnown, DriversHonest, RequestsMatch, RowsPaid
<1> QED
  BY <1>2, <1>3 DEF AnyInv

LEMMA AnyInvNext == AnyInv /\ [Next]_vars => AnyInv'
<1> SUFFICES ASSUME AnyInv, [Next]_vars PROVE AnyInv'
  OBVIOUS
<1>1. ASSUME NEW d \in Drivers, DriveStep(d) PROVE AnyInv'
  BY <1>1, AnyLockDrive, AnySendPhase1, AnyCallFails, AnyPhase1Answered, AnySignRaw,
     AnyJournalSigned, AnyMintPendingID, AnyQueue, AnyJournalQueued, AnyPollQueue,
     AnySendPhase2, AnyPhase2Answered, AnySettlePayables, AnyJournalSettled DEF DriveStep
<1>2. ASSUME NEW q \in requests, PayeeStep(q) PROVE AnyInv'
  BY <1>2, AnyPayeePhase1, AnyPayeePhase2, AnyPayeeVerifyFails, AnyPayeeSettles, AnyPayeeLoses
     DEF PayeeStep
<1>3. CASE UNCHANGED vars
  BY <1>3 DEF vars, ledgers, history, AnyInv, AnyTypes, RecordsKnown, DriversHonest,
              RequestsMatch, RowsPaid, Accepted
<1> QED
  BY <1>1, <1>2, <1>3, AnyOperator, AnySettleCall, AnyAcquire, AnyWatchTick, AnyChain, AnyCrash
     DEF Next

-----------------------------------------------------------------------------
(* What is known of the rows a record covers.  They are read before the    *)
(* cutoff is; whoever holds the record, or is about to open one, holds all *)
(* the rows that were accrued then and still are.                          *)

\* A goroutine holds rows S that were read at r: those it builds an offer from,
\* or those of its record.
Keeps(g, S, r) ==
    \/ g.pc = "building" /\ S = g.view /\ r = g.read
    \/ g.pc \notin {"idle", "building"} /\ S = g.rec.covers /\ r = g.rec.read

Reading(S, r) ==
    \/ \E i \in DOMAIN journal : S = journal[i].covers /\ r = journal[i].read
    \/ \E d \in Drivers : Keeps(driver[d], S, r)

ReadsOK ==
    \A S, r : Reading(S, r) =>
        r \in 0..clock /\ \A e \in Accrued(payable) : payable[e].ts < r => e \in S

OneLive == \A i, j \in LiveAt : i = j

Bounds ==
    /\ mode \in Modes
    /\ Len(journal) <= MaxRecords /\ Len(transfers) <= MaxTransfers
    /\ crashes \in 0..MaxCrashes /\ disputes \in 0..MaxDisputes

WholeInv == AnyInv /\ Bounds /\ OneLive /\ ReadsOK

\* Most steps open no record and read no rows.
JournalKept ==
    /\ Len(journal') = Len(journal) /\ LiveAt' \subseteq LiveAt
    /\ \A i \in DOMAIN journal' : Reading(journal'[i].covers, journal'[i].read)

GoroutinesKept == \A f \in Drivers : \A S, r : Keeps(driver'[f], S, r) => Reading(S, r)

LEMMA JournalSame ==
    ASSUME journal' = journal
    PROVE  JournalKept
BY DEF JournalKept, LiveAt, Reading

LEMMA LiveReading ==
    ASSUME LiveAt # {}
    PROVE  Reading(LiveRec.covers, LiveRec.read)
<1>1. (CHOOSE i \in LiveAt : TRUE) \in DOMAIN journal
  BY DEF LiveAt
<1> QED
  BY <1>1 DEF LiveRec, Reading

LEMMA UpdateKeeps ==
    ASSUME AnyInv, NEW r, Update(r),
           LiveAt # {} => r.covers = LiveRec.covers /\ r.read = LiveRec.read
    PROVE  JournalKept
<1>1. /\ Len(journal) \in Nat /\ DOMAIN journal = 1..Len(journal)
  BY LenProperties DEF AnyInv, AnyTypes
<1>2. journal' = [i \in 1..Len(journal) |-> IF i \in LiveAt THEN r ELSE journal[i]]
  BY <1>1 DEF Update
<1>3. DOMAIN journal' = 1..Len(journal) /\ Len(journal') = Len(journal)
  BY <1>1, <1>2
<1>4. LiveAt' \subseteq LiveAt
  BY <1>1, <1>2, <1>3 DEF LiveAt, Terminal
<1>5. \A i \in DOMAIN journal' : Reading(journal'[i].covers, journal'[i].read)
  BY <1>1, <1>2, <1>3, LiveReading DEF Reading
<1> QED
  BY <1>3, <1>4, <1>5 DEF JournalKept

LEMMA OneGoroutine ==
    ASSUME AnyInv, NEW d \in Drivers, NEW g, driver' = [driver EXCEPT ![d] = g],
           \A S, r : Keeps(g, S, r) => Reading(S, r)
    PROVE  GoroutinesKept
BY DEF AnyInv, AnyTypes, GoroutinesKept, Reading

LEMMA ReturnKeeps ==
    ASSUME AnyInv, NEW d \in Drivers, Return(d)
    PROVE  GoroutinesKept
<1>1. \A S, r : ~Keeps(Idle, S, r)
  BY DEF Keeps, Idle
<1> QED
  BY <1>1, OneGoroutine DEF Return

LEMMA GotoKeeps ==
    ASSUME AnyInv, NEW d \in Drivers, NEW pc \in {"holding", "drive"}, NEW r,
           Goto(d, pc, r), Reading(r.covers, r.read)
    PROVE  GoroutinesKept
<1> DEFINE g == [Idle EXCEPT !.pc = pc, !.rec = r]
<1>1. g.pc = pc /\ g.rec = r
  BY DEF Idle
<1>2. driver' = [driver EXCEPT ![d] = g]
  BY DEF Goto
<1> HIDE DEF g
<1>3. \A S, x : Keeps(g, S, x) => Reading(S, x)
  BY <1>1 DEF Keeps
<1> QED
  BY <1>2, <1>3, OneGoroutine

\* A goroutine that goes on with the record it holds.
GoesOn(d) ==
    /\ driver'[d].pc \notin {"idle", "building"} /\ driver'[d].rec = driver[d].rec
    /\ \A f \in Drivers : f # d => driver'[f] = driver[f]

LEMMA GoesOnKeeps ==
    ASSUME NEW d \in Drivers, GoesOn(d), driver[d].pc \notin {"idle", "building"}
    PROVE  GoroutinesKept
BY DEF GoesOn, GoroutinesKept, Reading, Keeps

LEMMA CloseKeeps ==
    ASSUME AnyInv, NEW d \in Drivers, NEW s, Close(d, s)
    PROVE  JournalKept /\ GoroutinesKept
<1> DEFINE r == [LiveRec EXCEPT !.state = s]
<1>1. LiveAt # {} => r.covers = LiveRec.covers /\ r.read = LiveRec.read
  BY LiveKnown DEF RecordType
<1>2. Update(r) /\ Return(d)
  BY DEF Close
<1> HIDE DEF r
<1> QED
  BY <1>1, <1>2, UpdateKeeps, ReturnKeeps

LEMMA RetryKeeps ==
    ASSUME AnyInv, NEW d \in Drivers, Retry(d)
    PROVE  JournalKept /\ GoroutinesKept
<1> DEFINE s == IF driver[d].rec.attempts + 1 >= MaxAttempts THEN "stalled" ELSE LiveRec.state
           r == [LiveRec EXCEPT !.attempts = LiveRec.attempts + 1, !.state = s]
<1>1. Update(r) /\ Return(d)
  BY DEF Retry
<1> HIDE DEF s
<1>2. LiveAt # {} => r.covers = LiveRec.covers /\ r.read = LiveRec.read
  BY LiveKnown DEF RecordType
<1> HIDE DEF r
<1> QED
  BY <1>1, <1>2, UpdateKeeps, ReturnKeeps

LEMMA AdvanceReads ==
    ASSUME AnyInv, NEW d \in Drivers, NEW r, Advance(d, r),
           LiveAt # {} => r.covers = LiveRec.covers /\ r.read = LiveRec.read
    PROVE  JournalKept /\ GoroutinesKept
<1>1. JournalKept
  BY UpdateKeeps DEF Advance
<1>2. CASE LiveAt = {}
  BY <1>1, <1>2, ReturnKeeps DEF Advance
<1>3. CASE LiveAt # {}
  <2>1. Reading(r.covers, r.read)
    BY <1>3, LiveReading
  <2> QED
    BY <1>1, <1>3, <2>1, GotoKeeps DEF Advance
<1> QED
  BY <1>2, <1>3

LEMMA DriveKeeps ==
    ASSUME AnyInv, NEW d \in Drivers, DriveStep(d)
    PROVE  JournalKept /\ GoroutinesKept
<1>1. driver[d].pc \notin {"idle", "building"}
  BY DEF DriveStep, LockDrive, SendPhase1, CallFails, Phase1Answered, SignRaw, JournalSigned,
     MintPendingID, Queue, JournalQueued, PollQueue, SendPhase2, Phase2Answered, SettlePayables,
     SettlePayablesFails, MarkPayables, JournalSettled, InState, At
<1>a. driver \in [Drivers -> Goroutine] /\ driver[d] \in Goroutine
  BY DEF AnyInv, AnyTypes
<1>2. CASE LockDrive(d)
  <2>1. journal' = journal /\ (Return(d) \/ Goto(d, "drive", driver[d].rec))
    BY <1>2 DEF LockDrive
  <2>2. Reading(driver[d].rec.covers, driver[d].rec.read)
    BY <1>1 DEF Reading, Keeps
  <2> QED
    BY <2>1, <2>2, JournalSame, ReturnKeeps, GotoKeeps
<1>3. CASE SendPhase1(d)
  <2>1. journal' = journal /\ GoesOn(d)
    BY <1>3, <1>a DEF SendPhase1, Call, GoesOn, Goroutine
  <2> QED
    BY <1>1, <2>1, JournalSame, GoesOnKeeps
<1>4. CASE CallFails(d)
  BY <1>4, RetryKeeps DEF CallFails
<1>5. CASE Phase1Answered(d)
  <2>1. Advance(d, [LiveRec EXCEPT !.state = "paying"]) \/ Close(d, "rejected")
    BY <1>5 DEF Phase1Answered
  <2>2. LiveAt # {} => LET r == [LiveRec EXCEPT !.state = "paying"]
                       IN  r.covers = LiveRec.covers /\ r.read = LiveRec.read
    BY LiveKnown DEF RecordType
  <2> QED
    BY <2>1, <2>2, AdvanceReads, CloseKeeps
<1>6. CASE SignRaw(d)
  <2>1. CASE Close(d, "failed")
    BY <2>1, CloseKeeps
  <2>2. CASE /\ journal' = journal
             /\ driver' = [driver EXCEPT ![d].pc = "signed", ![d].tx = Len(transfers) + 1]
    <3>1. GoesOn(d)
      BY <1>a, <2>2 DEF GoesOn, Goroutine
    <3> QED
      BY <1>1, <2>2, <3>1, JournalSame, GoesOnKeeps
  <2> QED
    BY <1>6, <2>1, <2>2 DEF SignRaw
<1>7. CASE JournalSigned(d)
  <2> DEFINE r == [LiveRec EXCEPT !.state = "broadcast", !.tx = driver[d].tx, !.raw = TRUE]
  <2>1. Advance(d, r)
    BY <1>7 DEF JournalSigned
  <2>2. LiveAt # {} => r.covers = LiveRec.covers /\ r.read = LiveRec.read
    BY LiveKnown DEF RecordType
  <2> HIDE DEF r
  <2> QED
    BY <2>1, <2>2, AdvanceReads
<1>8. CASE MintPendingID(d)
  <2>1. ASSUME NEW tx, driver' = [driver EXCEPT ![d].pc = "queue", ![d].tx = tx]
        PROVE  GoesOn(d)
    BY <1>a, <2>1 DEF GoesOn, Goroutine
  <2>2. CASE journal' = journal /\ driver' = [driver EXCEPT ![d].pc = "queue", ![d].tx = driver[d].rec.pending]
    BY <1>1, <2>1, <2>2, JournalSame, GoesOnKeeps
  <2>3. CASE journal' = journal /\ Return(d)
    BY <2>3, JournalSame, ReturnKeeps
  <2>4. CASE /\ Update([LiveRec EXCEPT !.pending = Len(transfers) + 1])
             /\ driver' = [driver EXCEPT ![d].pc = "queue", ![d].tx = Len(transfers) + 1]
    <3> DEFINE r == [LiveRec EXCEPT !.pending = Len(transfers) + 1]
    <3>1. LiveAt # {} => r.covers = LiveRec.covers /\ r.read = LiveRec.read
      BY LiveKnown DEF RecordType
    <3>2. Update(r)
      BY <2>4
    <3> HIDE DEF r
    <3> QED
      BY <1>1, <2>1, <2>4, <3>1, <3>2, UpdateKeeps, GoesOnKeeps
  <2> QED
    BY <1>8, <2>2, <2>3, <2>4 DEF MintPendingID
<1>9. CASE Queue(d)
  <2>1. Close(d, "failed") \/ (journal' = journal /\ GoesOn(d))
    BY <1>9, <1>a DEF Queue, GoesOn, Goroutine
  <2> QED
    BY <1>1, <2>1, CloseKeeps, JournalSame, GoesOnKeeps
<1>10. CASE JournalQueued(d)
  <2> DEFINE r == [LiveRec EXCEPT !.state = "awaiting_approval"]
  <2>1. Advance(d, r)
    BY <1>10 DEF JournalQueued
  <2>2. LiveAt # {} => r.covers = LiveRec.covers /\ r.read = LiveRec.read
    BY LiveKnown DEF RecordType
  <2> HIDE DEF r
  <2> QED
    BY <2>1, <2>2, AdvanceReads
<1>11. CASE PollQueue(d)
  <2> DEFINE r == [LiveRec EXCEPT !.state = "broadcast", !.tx = driver[d].rec.pending]
  <2>1. \/ journal' = journal /\ Return(d)
        \/ Advance(d, r) \/ Close(d, "failed") \/ Retry(d)
    BY <1>11 DEF PollQueue
  <2>2. LiveAt # {} => r.covers = LiveRec.covers /\ r.read = LiveRec.read
    BY LiveKnown DEF RecordType
  <2> HIDE DEF r
  <2> QED
    BY <2>1, <2>2, AdvanceReads, CloseKeeps, RetryKeeps, JournalSame, ReturnKeeps
<1>12. CASE SendPhase2(d)
  <2>1. Retry(d) \/ (journal' = journal /\ GoesOn(d))
    BY <1>12, <1>a DEF SendPhase2, Call, GoesOn, Goroutine
  <2> QED
    BY <1>1, <2>1, RetryKeeps, JournalSame, GoesOnKeeps
<1>13. CASE Phase2Answered(d)
  <2>1. \/ Retry(d) \/ Close(d, "rejected")
        \/ journal' = journal /\ GoesOn(d)
    BY <1>13, <1>a DEF Phase2Answered, GoesOn, Goroutine
  <2> QED
    BY <1>1, <2>1, RetryKeeps, CloseKeeps, JournalSame, GoesOnKeeps
<1>14. CASE SettlePayables(d)
  <2>1. journal' = journal /\ GoesOn(d)
    BY <1>14, <1>a DEF SettlePayables, MarkPayables, GoesOn, Goroutine
  <2> QED
    BY <1>1, <2>1, JournalSame, GoesOnKeeps
<1>15. CASE SettlePayablesFails(d)
  <2>1. journal' = journal /\ Return(d)
    BY <1>15 DEF SettlePayablesFails, MarkPayables
  <2> QED
    BY <2>1, JournalSame, ReturnKeeps
<1>16. CASE JournalSettled(d)
  BY <1>16, CloseKeeps DEF JournalSettled
<1> QED
  BY <1>2, <1>3, <1>4, <1>5, <1>6, <1>7, <1>8, <1>9, <1>10, <1>11, <1>12, <1>13, <1>14, <1>15,
     <1>16 DEF DriveStep

\* The payer's rows: an operator or a charge rewrites one, with the time, and
\* settlePayables settles some of those that are due.
LEMMA PayerRows ==
    ASSUME AnyInv, [Next]_vars
    PROVE  \/ payable' = payable
           \/ \E e \in Entries : \E st \in {"accrued", "disputed", "written_off"} :
                 payable' = [payable EXCEPT ![e] = [st |-> st, ts |-> clock, tx |-> 0]]
           \/ \E d \in Drivers : \E done \in SUBSET Due(driver[d].rec) : MarkPayables(d, done)
<1>1. ASSUME NEW e \in Entries, OperatorStep(e)
      PROVE  \/ payable' = payable
             \/ \E st \in {"accrued", "disputed", "written_off"} :
                   payable' = [payable EXCEPT ![e] = [st |-> st, ts |-> clock, tx |-> 0]]
  BY <1>1 DEF OperatorStep, AccrueReceivable, AccruePayable, PayerDisputes, PayeeDisputes,
              PayerResolves, PayeeResolves, Payable, ValidMove
<1>2. ASSUME NEW d \in Drivers, SettleCall(d) \/ Acquire(d) \/ WatchTick(d) \/ DriveStep(d)
      PROVE  \/ payable' = payable
             \/ \E done \in SUBSET Due(driver[d].rec) : MarkPayables(d, done)
  <2>1. SettleCall(d) \/ Acquire(d) \/ WatchTick(d) \/ LockDrive(d) \/ SendPhase1(d) \/ CallFails(d)
        => payable' = payable
    BY DEF SettleCall, Acquire, WatchTick, LockDrive, SendPhase1, CallFails, ledgers
  <2>2. Phase1Answered(d) \/ SignRaw(d) \/ JournalSigned(d) \/ MintPendingID(d) \/ Queue(d)
        => payable' = payable
    BY DEF Phase1Answered, SignRaw, JournalSigned, MintPendingID, Queue, ledgers
  <2>3. JournalQueued(d) \/ PollQueue(d) \/ SendPhase2(d) \/ Phase2Answered(d) \/ JournalSettled(d)
        => payable' = payable
    BY DEF JournalQueued, PollQueue, SendPhase2, Phase2Answered, JournalSettled, ledgers
  <2>4. CASE SettlePayables(d) \/ SettlePayablesFails(d)
    BY <2>4 DEF SettlePayables, SettlePayablesFails
  <2> QED
    BY <1>2, <2>1, <2>2, <2>3, <2>4 DEF DriveStep
<1>3. ASSUME NEW q \in requests, PayeeStep(q) PROVE payable' = payable
  BY <1>3
     DEF PayeeStep, PayeePhase1, PayeePhase2, PayeeVerifyFails, PayeeSettles, PayeeLoses, ledgers
<1>4. ASSUME NEW t \in DOMAIN transfers, QueueStep(t) \/ Chain(t) PROVE payable' = payable
  BY <1>4 DEF QueueStep, Resolve, ExecuteApproved, Complete, ExecutorDies, Chain, ledgers
<1>5. Crash \/ UNCHANGED vars => payable' = payable
  BY DEF Crash, ledgers, vars
<1> QED
  BY <1>1, <1>2, <1>3, <1>4, <1>5 DEF Next

\* No row is put back in time.
LEMMA RowsRenewed ==
    ASSUME AnyInv, [Next]_vars, NEW e \in Entries
    PROVE  payable'[e] = payable[e] \/ payable'[e].ts = clock
<1>1. payable \in [Entries -> [st : EntryState, ts : Nat, tx : Nat]]
  BY DEF AnyInv, AnyTypes
<1>2. ASSUME NEW f \in Entries, NEW st,
             payable' = [payable EXCEPT ![f] = [st |-> st, ts |-> clock, tx |-> 0]]
      PROVE  payable'[e] = payable[e] \/ payable'[e].ts = clock
  BY <1>1, <1>2
<1>3. ASSUME NEW d \in Drivers, NEW done, MarkPayables(d, done)
      PROVE  payable'[e] = payable[e] \/ payable'[e].ts = clock
  BY <1>3 DEF MarkPayables, Payable
<1> QED
  BY <1>2, <1>3, PayerRows

\* What a step does to the readings: it copies one, or reads the rows now.
ReadingsMove ==
    /\ \A i \in DOMAIN journal' : Reading(journal'[i].covers, journal'[i].read)
    /\ \A f \in Drivers : \A S, r : Keeps(driver'[f], S, r) =>
           Reading(S, r) \/ (S = Accrued(payable) /\ r = clock)

\* What it does to the live records: it ends them, or opens the only one.
LiveMoves ==
    /\ LiveAt' \subseteq LiveAt \/ (LiveAt = {} /\ LiveAt' \subseteq {Len(journal) + 1})
    /\ Len(journal') = Len(journal) \/ (Len(journal) < MaxRecords /\ Len(journal') = Len(journal) + 1)

LEMMA KeptMoves ==
    ASSUME JournalKept, GoroutinesKept
    PROVE  ReadingsMove /\ LiveMoves
BY DEF JournalKept, GoroutinesKept, ReadingsMove, LiveMoves

LEMMA SettleCallMoves ==
    ASSUME AnyInv, NEW d \in Drivers, SettleCall(d)
    PROVE  ReadingsMove /\ LiveMoves
<1>1. JournalKept
  BY JournalSame DEF SettleCall
<1>2. CASE LiveAt # {} /\ Goto(d, "holding", LiveRec)
  BY <1>1, <1>2, LiveReading, GotoKeeps, KeptMoves
<1>3. CASE driver' = [driver EXCEPT ![d] = [Idle EXCEPT !.pc = "building", !.read = clock,
                                                       !.view = Accrued(payable)]]
  <2> DEFINE g == [Idle EXCEPT !.pc = "building", !.read = clock, !.view = Accrued(payable)]
  <2>1. g.pc = "building" /\ g.view = Accrued(payable) /\ g.read = clock
    BY DEF Idle
  <2>2. driver' = [driver EXCEPT ![d] = g]
    BY <1>3
  <2> HIDE DEF g
  <2>3. \A f \in Drivers : driver'[f] = IF f = d THEN g ELSE driver[f]
    BY <2>2 DEF AnyInv, AnyTypes
  <2>4. \A S, r : Keeps(g, S, r) => S = Accrued(payable) /\ r = clock
    BY <2>1 DEF Keeps
  <2>5. \A f \in Drivers : \A S, r : Keeps(driver[f], S, r) => Reading(S, r)
    BY DEF Reading
  <2> QED
    BY <1>1, <2>3, <2>4, <2>5 DEF ReadingsMove, LiveMoves, JournalKept
<1> QED
  BY <1>2, <1>3 DEF SettleCall

LEMMA AcquireMoves ==
    ASSUME AnyInv, NEW d \in Drivers, Acquire(d)
    PROVE  ReadingsMove /\ LiveMoves
<1>1. CASE LiveAt # {} /\ Goto(d, "holding", LiveRec) /\ UNCHANGED journal
  BY <1>1, JournalSame, LiveReading, GotoKeeps, KeptMoves
<1> DEFINE new == NewRecord(driver[d].view, driver[d].read)
<1>2. CASE /\ LiveAt = {} /\ Len(journal) < MaxRecords
           /\ journal' = Append(journal, new) /\ Goto(d, "holding", new)
  <2>1. driver[d].pc = "building"
    BY DEF Acquire, At
  <2>2. Reading(new.covers, new.read)
    BY <2>1 DEF Reading, Keeps, NewRecord
  <2> HIDE DEF new
  <2>3. GoroutinesKept
    BY <1>2, <2>2, GotoKeeps
  <2>4. /\ Len(journal) \in Nat /\ DOMAIN journal = 1..Len(journal)
        /\ Len(journal') = Len(journal) + 1 /\ DOMAIN journal' = 1..(Len(journal) + 1)
        /\ \A i \in DOMAIN journal : journal'[i] = journal[i]
        /\ journal'[Len(journal) + 1] = new
    BY <1>2, AppendProperties, LenProperties DEF AnyInv, AnyTypes
  <2>5. \A i \in DOMAIN journal' : Reading(journal'[i].covers, journal'[i].read)
    BY <2>2, <2>4 DEF Reading
  <2>6. LiveAt' \subseteq {Len(journal) + 1}
    BY <1>2, <2>4 DEF LiveAt, Terminal
  <2>7. LiveMoves
    BY <1>2, <2>4, <2>6 DEF LiveMoves
  <2> QED
    BY <2>3, <2>5, <2>7 DEF ReadingsMove, GoroutinesKept
<1> QED
  BY <1>1, <1>2 DEF Acquire

LEMMA OtherMoves ==
    ASSUME AnyInv, [Next]_vars,
           ~ \E d \in Drivers : SettleCall(d) \/ Acquire(d) \/ WatchTick(d) \/ DriveStep(d)
    PROVE  ReadingsMove /\ LiveMoves
<1>1. ASSUME NEW e \in Entries, OperatorStep(e) PROVE UNCHANGED <<journal, driver>>
  BY <1>1 DEF OperatorStep, AccrueReceivable, AccruePayable, PayerDisputes, PayeeDisputes,
              PayerResolves, PayeeResolves
<1>2. ASSUME NEW t \in DOMAIN transfers, QueueStep(t) \/ Chain(t) PROVE UNCHANGED <<journal, driver>>
  BY <1>2 DEF QueueStep, Resolve, ExecuteApproved, Complete, ExecutorDies, Chain
<1>3. CASE UNCHANGED <<journal, driver>>
  <2>1. GoroutinesKept
    BY <1>3 DEF GoroutinesKept, Reading
  <2> QED
    BY <1>3, <2>1, JournalSame, KeptMoves
<1>4. ASSUME NEW q \in requests, PayeeStep(q) PROVE ReadingsMove /\ LiveMoves
  <2>1. journal' = journal /\ (driver' = driver \/ \E resp : Answer(q, resp))
    BY <1>4 DEF PayeeStep, PayeePhase1, PayeePhase2, PayeeVerifyFails, PayeeSettles, PayeeLoses
  <2>2. ASSUME NEW resp, Answer(q, resp) PROVE GoroutinesKept
    <3> SUFFICES ASSUME NEW f \in Drivers, NEW S, NEW r, Keeps(driver'[f], S, r)
                 PROVE  Keeps(driver[f], S, r)
      BY DEF GoroutinesKept, Reading
    <3>1. driver[f] \in Goroutine
      BY DEF AnyInv, AnyTypes
    <3>2. CASE f = q.caller
      <4>1. driver[f].pc = "calling"
        BY <3>2, SettleAssumptions DEF AnyInv, RequestsMatch
      <4>2. driver'[f].pc = "answered" /\ driver'[f].rec = driver[f].rec
        BY <2>2, <3>1, <3>2 DEF Answer, Goroutine
      <4> QED
        BY <4>1, <4>2 DEF Keeps
    <3>3. CASE f # q.caller
      BY <2>2, <3>3 DEF Answer
    <3> QED
      BY <3>2, <3>3
  <2> QED
    BY <1>3, <2>1, <2>2, JournalSame, KeptMoves
<1>5. CASE Crash
  <2>1. \A f \in Drivers : driver'[f] = Idle
    BY <1>5 DEF Crash
  <2>2. GoroutinesKept
    BY <2>1 DEF GoroutinesKept, Keeps, Idle
  <2> QED
    BY <1>5, <2>2, JournalSame, KeptMoves DEF Crash
<1> QED
  BY <1>1, <1>2, <1>3, <1>4, <1>5 DEF Next, vars

LEMMA AllMoves ==
    ASSUME AnyInv, [Next]_vars
    PROVE  ReadingsMove /\ LiveMoves
<1>1. ASSUME NEW d \in Drivers, WatchTick(d) PROVE ReadingsMove /\ LiveMoves
  BY <1>1, JournalSame, LiveReading, GotoKeeps, KeptMoves DEF WatchTick
<1>2. ASSUME NEW d \in Drivers, DriveStep(d) PROVE ReadingsMove /\ LiveMoves
  BY <1>2, DriveKeeps, KeptMoves
<1> QED
  BY <1>1, <1>2, SettleCallMoves, AcquireMoves, OtherMoves

LEMMA BoundsKept ==
    ASSUME AnyInv, AnyInv', Bounds, [Next]_vars
    PROVE  Bounds'
<1>1. /\ Len(transfers) \in Nat /\ DOMAIN transfers = 1..Len(transfers)
      /\ Len(transfers') \in Nat /\ DOMAIN transfers' = 1..Len(transfers')
  BY LenProperties DEF AnyInv, AnyTypes
<1>2. Len(journal') <= MaxRecords
  <2>1. Len(journal) \in Nat
    BY LenProperties DEF AnyInv, AnyTypes
  <2> QED
    BY <2>1, AllMoves, SettleAssumptions DEF LiveMoves, Bounds
<1>3. ASSUME NEW p, transfers' = Append(transfers, p), Len(transfers) < MaxTransfers
      PROVE  Len(transfers') <= MaxTransfers
  <2>1. transfers \in Seq(Payment) /\ transfers' \in Seq(Payment)
    BY DEF AnyInv, AnyTypes
  <2>2. Len(transfers') = Len(transfers) + 1
    BY <1>1, <1>3, <2>1
  <2> QED
    BY <1>1, <1>3, <2>2, SettleAssumptions
<1>4. ASSUME DOMAIN transfers' = DOMAIN transfers PROVE Len(transfers') <= MaxTransfers
  BY <1>1, <1>4 DEF Bounds
<1>5. CASE UNCHANGED vars
  BY <1>2, <1>4, <1>5 DEF vars, Bounds
<1>6. ASSUME NEW e \in Entries, OperatorStep(e) PROVE Bounds'
  <2>1. /\ mode' = mode /\ transfers' = transfers /\ crashes' = crashes
        /\ disputes' = disputes \/ (disputes < MaxDisputes /\ disputes' = disputes + 1)
    BY <1>6 DEF OperatorStep, AccrueReceivable, AccruePayable, PayerDisputes, PayeeDisputes,
                PayerResolves, PayeeResolves, history
  <2> QED
    BY <1>2, <1>4, <2>1, SettleAssumptions DEF Bounds
<1>7. ASSUME NEW d \in Drivers, SettleCall(d) \/ Acquire(d) \/ WatchTick(d) \/ DriveStep(d)
      PROVE  Bounds'
  <2>1. mode' = mode /\ crashes' = crashes /\ disputes' = disputes
    BY <1>7 DEF SettleCall, Acquire, WatchTick, DriveStep, LockDrive, SendPhase1, CallFails,
       Phase1Answered, SignRaw, JournalSigned, MintPendingID, Queue, JournalQueued, PollQueue,
       SendPhase2, Phase2Answered, SettlePayables, SettlePayablesFails, MarkPayables,
       JournalSettled, history
  <2>2. \/ DOMAIN transfers' = DOMAIN transfers
        \/ Len(transfers) < MaxTransfers /\ \E p : transfers' = Append(transfers, p)
    <3>1. SignRaw(d) => \/ transfers' = transfers
                        \/ Len(transfers) < MaxTransfers /\ \E p : transfers' = Append(transfers, p)
      BY DEF SignRaw
    <3>2. MintPendingID(d) => \/ transfers' = transfers
                              \/ Len(transfers) < MaxTransfers /\ \E p : transfers' = Append(transfers, p)
      BY DEF MintPendingID
    <3>3. Queue(d) \/ SendPhase2(d) => DOMAIN transfers' = DOMAIN transfers
      BY DEF Queue, SendPhase2
    <3>4. \/ SettleCall(d) \/ Acquire(d) \/ WatchTick(d) \/ LockDrive(d) \/ SendPhase1(d)
          \/ CallFails(d) \/ Phase1Answered(d) \/ JournalSigned(d) \/ JournalQueued(d)
          => transfers' = transfers
      BY DEF SettleCall, Acquire, WatchTick, LockDrive, SendPhase1, CallFails, Phase1Answered,
             JournalSigned, JournalQueued
    <3>5. \/ PollQueue(d) \/ Phase2Answered(d) \/ SettlePayables(d) \/ SettlePayablesFails(d)
          \/ JournalSettled(d)
          => transfers' = transfers
      BY DEF PollQueue, Phase2Answered, SettlePayables, SettlePayablesFails, MarkPayables,
             JournalSettled
    <3> QED
      BY <1>7, <3>1, <3>2, <3>3, <3>4, <3>5 DEF DriveStep
  <2>3. Len(transfers') <= MaxTransfers
    BY <1>3, <1>4, <2>2
  <2> QED
    BY <1>2, <2>1, <2>3 DEF Bounds
<1>8. ASSUME NEW q \in requests, PayeeStep(q) PROVE Bounds'
  <2>1. UNCHANGED <<mode, transfers, crashes, disputes>>
    BY <1>8 DEF PayeeStep, PayeePhase1, PayeePhase2, PayeeVerifyFails, PayeeSettles, PayeeLoses,
                history
  <2> QED
    BY <1>2, <1>4, <2>1 DEF Bounds
<1>9. ASSUME NEW t \in DOMAIN transfers, QueueStep(t) \/ Chain(t) PROVE Bounds'
  <2>1. UNCHANGED <<mode, crashes, disputes>> /\ DOMAIN transfers' = DOMAIN transfers
    BY <1>9 DEF QueueStep, Resolve, ExecuteApproved, Complete, ExecutorDies, Chain, history
  <2> QED
    BY <1>2, <1>4, <2>1 DEF Bounds
<1>10. CASE Crash
  <2>1. /\ UNCHANGED <<mode, transfers, disputes>>
        /\ crashes < MaxCrashes /\ crashes' = crashes + 1
    BY <1>10 DEF Crash
  <2> QED
    BY <1>2, <1>4, <2>1, SettleAssumptions DEF Bounds
<1> QED
  BY <1>5, <1>6, <1>7, <1>8, <1>9, <1>10 DEF Next

LEMMA ClockTicks ==
    ASSUME [Next]_vars
    PROVE  clock' \in {clock, clock + 1}
<1>1. ASSUME NEW d \in Drivers, SettleCall(d) \/ Acquire(d) \/ WatchTick(d) \/ DriveStep(d)
      PROVE  clock' \in {clock, clock + 1}
  BY <1>1 DEF SettleCall, Acquire, WatchTick, DriveStep, LockDrive, SendPhase1, CallFails,
     Phase1Answered, SignRaw, JournalSigned, MintPendingID, Queue, JournalQueued, PollQueue,
     SendPhase2, Phase2Answered, SettlePayables, SettlePayablesFails, MarkPayables, JournalSettled
<1>2. ASSUME NEW e \in Entries, OperatorStep(e) PROVE clock' = clock
  BY <1>2 DEF OperatorStep, AccrueReceivable, AccruePayable, PayerDisputes, PayeeDisputes,
              PayerResolves, PayeeResolves
<1>3. ASSUME NEW q \in requests, PayeeStep(q) PROVE clock' = clock
  BY <1>3 DEF PayeeStep, PayeePhase1, PayeePhase2, PayeeVerifyFails, PayeeSettles, PayeeLoses
<1>4. ASSUME NEW t \in DOMAIN transfers, QueueStep(t) \/ Chain(t) PROVE clock' = clock
  BY <1>4 DEF QueueStep, Resolve, ExecuteApproved, Complete, ExecutorDies, Chain
<1>5. Crash \/ UNCHANGED vars => clock' = clock
  BY DEF Crash, vars
<1> QED
  BY <1>1, <1>2, <1>3, <1>4, <1>5 DEF Next

\* A row that changes is renewed, so it is none of those that were accrued
\* before an earlier reading.
LEMMA ReadsKept ==
    ASSUME AnyInv, ReadsOK, [Next]_vars
    PROVE  ReadsOK'
<1>1. clock \in Nat /\ clock' \in {clock, clock + 1}
  BY ClockTicks DEF AnyInv, AnyTypes
<1>2. \A e \in Entries : payable'[e] = payable[e] \/ payable'[e].ts = clock
  BY RowsRenewed
<1>3. ASSUME NEW S, NEW r, Reading(S, r) \/ (S = Accrued(payable) /\ r = clock)
      PROVE  /\ r \in 0..clock'
             /\ \A e \in Accrued(payable)' : payable'[e].ts < r => e \in S
  <2>1. r \in 0..clock /\ \A e \in Accrued(payable) : payable[e].ts < r => e \in S
    BY <1>1, <1>3 DEF ReadsOK
  <2>2. ASSUME NEW e \in Entries, payable'[e].st = "accrued", payable'[e].ts < r
        PROVE  e \in S
    BY <1>1, <1>2, <2>1, <2>2 DEF Accrued
  <2> QED
    BY <1>1, <2>1, <2>2 DEF Accrued
<1>4. ASSUME NEW S, NEW r, Reading(S, r)'
      PROVE  Reading(S, r) \/ (S = Accrued(payable) /\ r = clock)
  BY <1>4, AllMoves DEF ReadingsMove, Reading
<1> QED
  BY <1>3, <1>4 DEF ReadsOK

LEMMA WholeInvInit == Init => WholeInv
<1> SUFFICES ASSUME Init PROVE WholeInv
  OBVIOUS
<1>1. AnyInv
  BY AnyInvInit
<1>2. DOMAIN journal = {} /\ Len(journal) = 0 /\ Len(transfers) = 0
  BY DEF Init
<1>3. Bounds /\ OneLive
  BY <1>2, SettleAssumptions DEF Init, Bounds, OneLive, LiveAt
<1>4. ReadsOK
  BY <1>2 DEF Init, ReadsOK, Reading, Keeps, Idle
<1> QED
  BY <1>1, <1>3, <1>4 DEF WholeInv

LEMMA WholeInvNext == WholeInv /\ [Next]_vars => WholeInv'
<1> SUFFICES ASSUME WholeInv, [Next]_vars PROVE WholeInv'
  OBVIOUS
<1>1. AnyInv'
  BY AnyInvNext DEF WholeInv
<1>2. OneLive'
  BY AllMoves DEF WholeInv, OneLive, LiveMoves
<1> QED
  BY <1>1, <1>2, BoundsKept, ReadsKept DEF WholeInv

(* What holds of whole behaviours, whatever record a drive starts from:    *)
(* hashes are those of payments, rows are closed behind payments, Acquire  *)
(* opens a record only if none is live, and bounds are kept.               *)
THEOREM WholeInvariant == Spec => []WholeInv
BY WholeInvInit, WholeInvNext, PTL DEF Spec

(* Every variable keeps its type and its bound: Acquire opens no second    *)
(* live record, and until a stale record is driven UpdateByKey counts no   *)
(* attempt past settlePhase2MaxAttempts.                                   *)
THEOREM CloseOutTypes == Spec => []SettleTypeOK
<1>1. ASSUME WholeInv PROVE Cardinality(LiveAt) <= 1
  <2>1. CASE LiveAt = {}
    BY <2>1, FS_EmptySet
  <2>2. CASE LiveAt # {}
    <3>1. PICK i : LiveAt = {i}
      BY <1>1, <2>2 DEF WholeInv, OneLive
    <3> QED
      BY <3>1, FS_Singleton
  <2> QED
    BY <2>1, <2>2
<1>2. ASSUME ~staled => IInv PROVE staled \/ \A i \in DOMAIN journal : journal[i].attempts <= MaxAttempts
  BY <1>2 DEF IInv, JournalOK, RecordOK, Sound
<1>3. WholeInv /\ (~staled => IInv) => SettleTypeOK
  BY <1>1, <1>2 DEF WholeInv, Bounds, AnyInv, AnyTypes, LedgersTypeOK, SettleTypeOK
<1> QED
  BY <1>3, WholeInvariant, CloseOutInvariant, PTL

(* settlePayables goes over the ledger by the cutoff, not by the rows the  *)
(* offer lists: the rows it closes beyond those are the ones that accrued  *)
(* between the read of the rows and that of the cutoff, whatever record is *)
(* driven.                                                                 *)
THEOREM SettlesOnlyOfferedOrRacing == Spec => SettlesOfferedOrRacing
<1> DEFINE Offered(e) ==
              payable[e].st = "accrued" /\ payable'[e].st = "settled" =>
                \E d \in Drivers :
                    LET rec == driver[d].rec
                    IN  /\ At(d, "acked") /\ payable'[e].tx = rec.tx
                        /\ \/ e \in rec.covers
                           \/ payable[e].ts \in rec.read .. rec.cutoff
<1>1. ASSUME WholeInv, [Next]_vars, NEW e \in Entries,
             payable[e].st = "accrued", payable'[e].st = "settled"
      PROVE  \E d \in Drivers :
                    LET rec == driver[d].rec
                    IN  /\ At(d, "acked") /\ payable'[e].tx = rec.tx
                        /\ \/ e \in rec.covers
                           \/ payable[e].ts \in rec.read .. rec.cutoff
  <2>1. payable \in [Entries -> [st : EntryState, ts : Nat, tx : Nat]]
    BY <1>1 DEF WholeInv, AnyInv, AnyTypes
  <2>2. ~ \E f \in Entries : \E st \in {"accrued", "disputed", "written_off"} :
              payable' = [payable EXCEPT ![f] = [st |-> st, ts |-> clock, tx |-> 0]]
    BY <1>1, <2>1
  <2>3. PICK d \in Drivers : \E done \in SUBSET Due(driver[d].rec) : MarkPayables(d, done)
    BY <1>1, <2>2, PayerRows DEF WholeInv
  <2>4. PICK done \in SUBSET Due(driver[d].rec) : MarkPayables(d, done)
    BY <2>3
  <2> DEFINE rec == driver[d].rec
  <2>5. /\ At(d, "acked")
        /\ payable'[e] = IF e \in done THEN Payable(e, "settled", rec.tx) ELSE payable[e]
    BY <2>4 DEF MarkPayables
  <2>6. e \in Due(rec) /\ payable'[e].tx = rec.tx
    BY <1>1, <2>4, <2>5 DEF Payable, ValidMove
  <2>7. rec \in RecordType /\ rec.read \in Nat /\ rec.cutoff \in Nat /\ payable[e].ts \in Nat
    BY <1>1, <2>1 DEF WholeInv, AnyInv, AnyTypes, Goroutine, RecordType
  <2>8. Reading(rec.covers, rec.read)
    BY <2>5 DEF At, Reading, Keeps
  <2>9. payable[e].ts <= rec.cutoff /\ e \in Accrued(payable)
    BY <2>6 DEF Due
  <2>10. payable[e].ts < rec.read => e \in rec.covers
    BY <1>1, <2>8, <2>9 DEF WholeInv, ReadsOK
  <2>11. e \in rec.covers \/ payable[e].ts \in rec.read .. rec.cutoff
    BY <2>7, <2>9, <2>10
  <2> QED
    BY <2>5, <2>6, <2>11
<1>2. WholeInv /\ [Next]_vars => [\A e \in Entries : Offered(e)]_vars
  BY <1>1
<1> QED
  BY <1>2, WholeInvariant, PTL DEF Spec, SettlesOfferedOrRacing

(* No row is closed without a payment, whatever records the drives start   *)
(* from, for the code as it stands: handleSettleOfferWeb3 closes rows only *)
(* behind Verify, and settlePayables runs only behind the acknowledgement  *)
(* of the hash that it writes into the rows.                               *)
THEOREM RowsCloseOnlyWhenPaid == Spec => []ClosedIsPaid
<1>1. AnyInv => ClosedIsPaid
  BY DEF AnyInv, RowsPaid, Accepted, Consumed, ClosedIsPaid
<1> QED
  BY <1>1, AnyInvInit, AnyInvNext, PTL DEF Spec

(* The books: no row is closed without a payment; and until the first      *)
(* drive of a stale record a payment closes at the payee only what it      *)
(* covers, and the payer closes a record, and the rows it covers, only     *)
(* when the payee has closed all of them.                                  *)
THEOREM BooksStayInAgreement == Spec => []BooksAgree
<1>1. ASSUME IInv, ClosedIsPaid PROVE BooksAgree
  <2> DEFINE Under(t) == { e \in Entries : receivable[e].st = "settled" /\ receivable[e].tx = t }
  <2>1. BooksOK
    BY <1>1 DEF IInv
  <2>2. ASSUME NEW t \in DOMAIN transfers
        PROVE  Cardinality(Under(t)) <= Cardinality(transfers[t].covers)
    <3>1. Under(t) \subseteq transfers[t].covers
      BY <2>1, <2>2 DEF BooksOK
    <3>2. transfers[t].covers \subseteq Entries
      BY <1>1, <2>2, Sequences DEF Payment
    <3>3. IsFiniteSet(transfers[t].covers)
      BY <3>2, FS_Subset, SettleAssumptions
    <3> QED
      BY <3>1, <3>3, FS_Subset
  <2>3. \A i \in DOMAIN journal : journal[i].state = "settled" =>
            \A e \in journal[i].covers : receivable[e].st = "settled" /\ receivable[e].tx = journal[i].tx
    BY <2>1 DEF BooksOK, Closed
  <2>4. \A e \in Entries : payable[e].st = "settled" =>
            (e \in transfers[payable[e].tx].covers =>
                receivable[e].st = "settled" /\ receivable[e].tx = payable[e].tx)
    BY <2>1 DEF BooksOK, Closed
  <2> QED
    BY <1>1, <2>2, <2>3, <2>4 DEF BooksAgree
<1>2. staled /\ ClosedIsPaid => BooksAgree
  BY DEF BooksAgree
<1> QED
  BY <1>1, <1>2, CloseOutInvariant, RowsCloseOnlyWhenPaid, PTL

-----------------------------------------------------------------------------
(* A single goroutine, the watcher with no operator's call beside it, never *)
(* drives a stale record: nothing moves the journal between its read of    *)
(* the record and the lock.                                                *)
Current == \A d \in Drivers : At(d, "holding") => ~Stale(driver[d].rec)

LEMMA DrivingHoldsNothing ==
    ASSUME AnyInv, NEW d \in Drivers, DriveStep(d)
    PROVE  driver'[d].pc # "holding"
<1>1. driver \in [Drivers -> Goroutine] /\ driver[d] \in Goroutine
  BY DEF AnyInv, AnyTypes
<1>2. Return(d) => driver'[d].pc # "holding"
  BY <1>1 DEF Return, Idle
<1>3. \A r : Goto(d, "drive", r) => driver'[d].pc # "holding"
  BY <1>1 DEF Goto, Idle
<1>4. /\ \A s : Close(d, s) => Return(d)
      /\ Retry(d) => Return(d)
      /\ \A r : Advance(d, r) => Return(d) \/ Goto(d, "drive", r)
  BY DEF Close, Retry, Advance
<1>5. LockDrive(d) \/ CallFails(d) \/ Phase1Answered(d) \/ JournalSigned(d) \/ JournalQueued(d)
      => driver'[d].pc # "holding"
  BY <1>2, <1>3, <1>4 DEF LockDrive, CallFails, Phase1Answered, JournalSigned, JournalQueued
<1>6. PollQueue(d) \/ SettlePayablesFails(d) \/ JournalSettled(d) => driver'[d].pc # "holding"
  BY <1>2, <1>3, <1>4 DEF PollQueue, SettlePayablesFails, JournalSettled
<1>7. SendPhase1(d) \/ SignRaw(d) \/ Queue(d) \/ SendPhase2(d) \/ Phase2Answered(d) \/ SettlePayables(d)
      => driver'[d].pc # "holding"
  BY <1>1, <1>2, <1>4 DEF SendPhase1, SignRaw, Queue, SendPhase2, Phase2Answered, SettlePayables,
     Call, Goroutine
<1>8. MintPendingID(d) => driver'[d].pc # "holding"
  BY <1>1, <1>2 DEF MintPendingID, Goroutine
<1> QED
  BY <1>5, <1>6, <1>7, <1>8 DEF DriveStep

\* Beside the drives, only the three ways to start one make a goroutine hold a
\* record.
LEMMA OthersHoldNothing ==
    ASSUME AnyInv, [Next]_vars, Current,
           ~ \E d \in Drivers : SettleCall(d) \/ Acquire(d) \/ WatchTick(d) \/ DriveStep(d)
    PROVE  Current' /\ staled' = staled
<1>1. ASSUME NEW e \in Entries, OperatorStep(e) PROVE UNCHANGED <<journal, driver, staled>>
  BY <1>1 DEF OperatorStep, AccrueReceivable, AccruePayable, PayerDisputes, PayeeDisputes,
              PayerResolves, PayeeResolves, history
<1>2. ASSUME NEW t \in DOMAIN transfers, QueueStep(t) \/ Chain(t)
      PROVE  UNCHANGED <<journal, driver, staled>>
  BY <1>2 DEF QueueStep, Resolve, ExecuteApproved, Complete, ExecutorDies, Chain, history
<1>3. CASE UNCHANGED <<journal, driver, staled>>
  BY <1>3 DEF Current, At, Stale, LiveAt, LiveRec
<1>4. ASSUME NEW q \in requests, PayeeStep(q) PROVE Current' /\ staled' = staled
  <2>1. journal' = journal /\ staled' = staled /\ (driver' = driver \/ \E resp : Answer(q, resp))
    BY <1>4 DEF PayeeStep, PayeePhase1, PayeePhase2, PayeeVerifyFails, PayeeSettles, PayeeLoses, history
  <2>2. ASSUME NEW resp, Answer(q, resp), NEW f \in Drivers, driver'[f].pc = "holding"
        PROVE  driver'[f] = driver[f]
    <3>1. driver[f] \in Goroutine
      BY DEF AnyInv, AnyTypes
    <3> QED
      BY <2>2, <3>1 DEF Answer, Goroutine
  <2> QED
    BY <1>3, <2>1, <2>2 DEF Current, At, Stale, LiveAt, LiveRec
<1>5. CASE Crash
  BY <1>5 DEF Crash, Current, At, Idle
<1> QED
  BY <1>1, <1>2, <1>3, <1>4, <1>5 DEF Next, vars

(* A record is stale only when another goroutine has driven it in between: *)
(* with one, what WatchTick or SettleCall read is what LockDrive finds.    *)
(* So then all that holds up to the first stale drive holds throughout.    *)
THEOREM AloneNeverStale ==
    ASSUME \A d, f \in Drivers : d = f
    PROVE  Spec => []~staled
<1> DEFINE AloneInv == AnyInv /\ Current /\ ~staled
<1>1. Init => AloneInv
  BY AnyInvInit DEF Init, Current, At, Idle
<1>2. ASSUME AloneInv, [Next]_vars PROVE AloneInv'
  <2>1. AnyInv'
    BY <1>2, AnyInvNext
  <2>2. ASSUME NEW d \in Drivers, DriveStep(d) PROVE Current' /\ ~staled'
    <3>1. Current'
      BY <1>2, <2>2, DrivingHoldsNothing DEF Current, At
    <3>2. LockDrive(d) => ~staled'
      BY <1>2 DEF LockDrive, Current
    <3>3. ~LockDrive(d) => ~staled'
      BY <1>2, <2>2 DEF DriveStep, SendPhase1, CallFails, Phase1Answered, SignRaw,
         JournalSigned, MintPendingID, Queue, JournalQueued, PollQueue, SendPhase2, Phase2Answered,
         SettlePayables, SettlePayablesFails, MarkPayables, JournalSettled, history
    <3> QED
      BY <3>1, <3>2, <3>3
  <2>3. ASSUME NEW d \in Drivers, SettleCall(d) \/ Acquire(d) \/ WatchTick(d)
        PROVE  Current' /\ ~staled'
    <3>1. ~staled'
      BY <1>2, <2>3 DEF SettleCall, Acquire, WatchTick, history
    <3>2. driver \in [Drivers -> Goroutine]
      BY <1>2 DEF AnyInv, AnyTypes
    <3>3. \A r, pc : Goto(d, pc, r) => driver'[d].rec = r
      BY <3>2 DEF Goto, Idle
    <3>4. CASE LiveAt # {} /\ Goto(d, "holding", LiveRec) /\ journal' = journal
      <4>1. LiveAt' = LiveAt /\ LiveRec' = LiveRec /\ driver'[d].rec = LiveRec
        BY <3>3, <3>4 DEF LiveAt, LiveRec
      <4> QED
        BY <3>1, <3>4, <4>1 DEF Current, Stale
    <3>5. CASE driver' = [driver EXCEPT ![d] = [Idle EXCEPT !.pc = "building", !.read = clock,
                                                           !.view = Accrued(payable)]]
      <4>1. driver'[d].pc = "building"
        BY <3>2, <3>5 DEF Idle
      <4> QED
        BY <3>1, <4>1 DEF Current, At
    <3> DEFINE new == NewRecord(driver[d].view, driver[d].read)
    <3>6. CASE LiveAt = {} /\ journal' = Append(journal, new) /\ Goto(d, "holding", new)
      <4>1. ~Terminal(new)
        BY DEF Terminal, NewRecord
      <4> HIDE DEF new
      <4>2. /\ Len(journal) \in Nat /\ DOMAIN journal = 1..Len(journal)
            /\ DOMAIN journal' = 1..(Len(journal) + 1)
            /\ \A i \in DOMAIN journal : journal'[i] = journal[i]
            /\ journal'[Len(journal) + 1] = new
        BY <1>2, <3>6, AppendProperties, LenProperties DEF AnyInv, AnyTypes
      <4>3. LiveAt' = {Len(journal) + 1}
        BY <3>6, <4>1, <4>2 DEF LiveAt, Terminal
      <4>4. LiveRec' = new /\ driver'[d].rec = new
        BY <3>3, <3>6, <4>2, <4>3 DEF LiveRec
      <4> QED
        BY <3>1, <4>3, <4>4 DEF Current, Stale
    <3> QED
      BY <2>3, <3>4, <3>5, <3>6 DEF SettleCall, Acquire, WatchTick
  <2> QED
    BY <1>2, <2>1, <2>2, <2>3, OthersHoldNothing
<1> QED
  BY <1>1, <1>2, PTL DEF Spec
===============================================================================
