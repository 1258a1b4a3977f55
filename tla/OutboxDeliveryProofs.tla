------------------------- MODULE OutboxDeliveryProofs -------------------------
(***************************************************************************)
(* Theorems of OutboxDelivery, for any events and pollers, any batch size  *)
(* and retry limit, and any number of faults and crashes.                  *)
(***************************************************************************)
EXTENDS OutboxDelivery, FiniteSetTheorems, SequenceTheorems, Induction, TLAPS

-----------------------------------------------------------------------------
(* The inductive invariant about flushes: an instance holds a snapshot just
   while it works through it, no event is in a snapshot twice, and the event
   that is to be marked completed was handed over. *)
Busy == {"publish", "complete", "blame"}

CreatedOnce ==
  /\ \A j \in 1 .. Len(created) : row[created[j]].status # "absent"
  /\ \A j, k \in 1 .. Len(created) : created[j] = created[k] => j = k

Entry == [event : Events, retryCount : 0 .. MaxRetry - 1]

FlushTypes ==
  [at : {"down", "none", "timer", "publish", "complete", "blame"},
   rest : Seq(Entry)]

IsFlush(f) ==
  /\ f \in FlushTypes
  /\ f.at \in Busy <=> f.rest # <<>>
  /\ \A j, k \in 1 .. Len(f.rest) : f.rest[j].event = f.rest[k].event => j = k

HandedOver ==
  \A i \in Instances :
    flush[i].at = "complete" => sent[flush[i].rest[1].event] > 0

FlushInv ==
  /\ OutboxTypeOK /\ CreatedOnce
  /\ \A i \in Instances : IsFlush(flush[i])
  /\ HandedOver
  /\ PendingIsFindable /\ CompletedWasSent

-----------------------------------------------------------------------------
(* The inductive invariant about duplicates.  What a poller may still hand
   over without anything else going wrong: the event, once, when it is ahead
   in its snapshot or can be found in the next one ... *)
InHand(i, e) ==
  flush[i].at \in {"complete", "blame"} /\ flush[i].rest[1].event = e

Ahead(i, e) ==
  \E k \in 1 .. Len(flush[i].rest) :
    flush[i].rest[k].event = e /\ (flush[i].at = "publish" \/ k > 1)

MaySend(e) ==
  {i \in Instances :
     Ahead(i, e) \/ (row[e].status \in {"absent", "pending"} /\ ~InHand(i, e))}

(* ... once more when the process has begun to end, with the event in hand ... *)
Leaving == {i \in Instances : ~running[i] /\ flush[i].at # "down"}

(* ... and, each of them, once for each poller that is about to put the row
   back to pending. *)
Blaming(e) == {i \in Instances : flush[i].at = "blame" /\ InHand(i, e)}

Budget == Cardinality(Instances) * (1 + faults + crashes)

Prospects(e) ==
  Cardinality(MaySend(e)) + Cardinality(Leaving)
    + Cardinality(Instances) * Cardinality(Blaming(e))

DuplicatesInv == \A e \in Events : sent[e] + Prospects(e) <= Budget

-----------------------------------------------------------------------------
(* What a flush finds. *)
(* The function a snapshot is read from satisfies its definition. *)
LEMMA FoundDefined ==
  ASSUME Len(created) \in Nat
  PROVE  Found = [n \in 0 .. Len(created) |->
                    IF n = 0 THEN <<>>
                    ELSE IF Findable(created[n]) /\ Len(Found[n - 1]) < Limit
                         THEN Append(Found[n - 1],
                                [event |-> created[n],
                                 retryCount |-> row[created[n]].retryCount])
                         ELSE Found[n - 1]]
<1> DEFINE Next_(prev, n) ==
             IF Findable(created[n]) /\ Len(prev) < Limit
             THEN Append(prev, [event |-> created[n],
                                retryCount |-> row[created[n]].retryCount])
             ELSE prev
           Solves(g, m) ==
             g = [n \in 0 .. m |-> IF n = 0 THEN <<>> ELSE Next_(g[n - 1], n)]
           Solved == {m \in Nat : \E g : Solves(g, m)}
<1>1. 0 \in Solved
  <2> DEFINE g == [n \in 0 .. 0 |-> <<>>]
  <2>1. Solves(g, 0)
    OBVIOUS
  <2> QED BY <2>1
<1>2. ASSUME NEW m \in Solved PROVE m + 1 \in Solved
  <2>1. m \in Nat
    OBVIOUS
  <2>2. PICK g : Solves(g, m)
    OBVIOUS
  <2> HIDE DEF Next_
  <2> DEFINE h == [n \in 0 .. m + 1 |->
                     IF n <= m THEN g[n] ELSE Next_(g[m], m + 1)]
  <2>3. ASSUME NEW n \in 0 .. m + 1
        PROVE  h[n] = IF n = 0 THEN <<>> ELSE Next_(h[n - 1], n)
    <3>1. CASE n = 0
      BY <2>1, <2>2, <3>1
    <3>2. CASE n # 0 /\ n <= m
      <4>1. n \in 0 .. m /\ n - 1 \in 0 .. m + 1 /\ n - 1 <= m
        BY <2>1, <3>2
      <4>2. h[n] = g[n] /\ h[n - 1] = g[n - 1]
        BY <4>1, <3>2
      <4> QED BY <2>2, <4>1, <4>2, <3>2
    <3>3. CASE n = m + 1
      <4>1. n \in 0 .. m + 1 /\ ~(n <= m) /\ n # 0 /\ n - 1 = m
            /\ m \in 0 .. m + 1 /\ m <= m
        BY <2>1, <3>3
      <4> QED BY <4>1, <3>3
    <3> QED BY <2>1, <3>1, <3>2, <3>3
  <2>4. Solves(h, m + 1)
    <3> DEFINE body == [n \in 0 .. m + 1 |->
                          IF n = 0 THEN <<>> ELSE Next_(h[n - 1], n)]
    <3>1. h = body
      <4>1. \A n \in 0 .. m + 1 : h[n] = body[n]
        BY <2>3
      <4> QED BY <4>1
    <3> QED BY <3>1
  <2>5. m + 1 \in Nat
    BY <2>1
  <2>6. \E f : Solves(f, m + 1)
    <3> HIDE DEF h
    <3> QED BY <2>4
  <2> QED BY <2>5, <2>6
<1>3. Len(created) \in Solved
  <2>1. Solved \in SUBSET Nat
    OBVIOUS
  <2> HIDE DEF Solved
  <2> QED BY <1>1, <1>2, <2>1, InductionOnNat
<1>4. PICK g : Solves(g, Len(created))
  BY <1>3
<1> QED
  BY <1>4 DEF Found

(* One row more. *)
LEMMA FoundNext ==
  ASSUME Len(created) \in Nat
  PROVE  /\ Found[0] = <<>>
         /\ \A n \in 0 .. Len(created) - 1 :
              Found[n + 1] =
                IF Findable(created[n + 1]) /\ Len(Found[n]) < Limit
                THEN Append(Found[n], [event |-> created[n + 1],
                                       retryCount |-> row[created[n + 1]].retryCount])
                ELSE Found[n]
<1> DEFINE Body(g, n) ==
             IF n = 0 THEN <<>>
             ELSE IF Findable(created[n]) /\ Len(g[n - 1]) < Limit
                  THEN Append(g[n - 1], [event |-> created[n],
                                         retryCount |-> row[created[n]].retryCount])
                  ELSE g[n - 1]
<1>1. Found = [n \in 0 .. Len(created) |-> Body(Found, n)]
  BY FoundDefined
<1>2. \A n \in 0 .. Len(created) : Found[n] = Body(Found, n)
  <2> HIDE DEF Body
  <2> DEFINE F == Found
  <2>1. F = [n \in 0 .. Len(created) |-> Body(F, n)]
    BY <1>1
  <2> HIDE DEF F
  <2>2. \A n \in 0 .. Len(created) : F[n] = Body(F, n)
    BY <2>1
  <2> QED BY <2>2 DEF F
<1>3. Found[0] = <<>>
  <2>1. Found[0] = Body(Found, 0)
    <3> HIDE DEF Body
    <3>1. 0 \in 0 .. Len(created)
      OBVIOUS
    <3> QED BY <1>2, <3>1
  <2> QED BY <2>1
<1>4. ASSUME NEW n \in 0 .. Len(created) - 1
      PROVE  Found[n + 1] = Body(Found, n + 1) /\ n + 1 # 0 /\ (n + 1) - 1 = n
  <2>1. n + 1 \in 0 .. Len(created)
    OBVIOUS
  <2> HIDE DEF Body
  <2> QED BY <1>2, <2>1
<1> QED
  BY <1>3, <1>4

(* What is found in the first n rows: pending rows below the retry limit, each
   of these rows once. *)
FoundSound(n) ==
  /\ Found[n] \in Seq(Entry)
  /\ \A k \in 1 .. Len(Found[n]) :
       \E j \in 1 .. n : /\ Found[n][k].event = created[j]
                         /\ Findable(created[j])
  /\ \A k, l \in 1 .. Len(Found[n]) :
       Found[n][k].event = Found[n][l].event => k = l

LEMMA FoundIsSound ==
  ASSUME OutboxTypeOK, CreatedOnce
  PROVE  FoundSound(Len(created))
<1>1. created \in Seq(Events) /\ Len(created) \in Nat
  BY DEF OutboxTypeOK
<1> DEFINE Sound == {n \in Nat : FoundSound(n)}
<1>2. 0 \in Sound
  <2>1. Found[0] = <<>>
    BY <1>1, FoundNext
  <2>2. <<>> \in Seq(Entry) /\ Len(<<>>) = 0 /\ 1 .. 0 = {}
    OBVIOUS
  <2>3. FoundSound(0)
    BY <2>1, <2>2 DEF FoundSound
  <2> QED BY <2>3
<1>3. ASSUME NEW n \in 0 .. Len(created) - 1, n \in Sound
      PROVE  n + 1 \in Sound
  <2> DEFINE c == created[n + 1]
             entry == [event |-> c, retryCount |-> row[c].retryCount]
  <2>1. n \in Nat /\ n + 1 \in 1 .. Len(created) /\ (n + 1) - 1 = n
    BY <1>1
  <2>2. c \in Events
    BY <1>1, <2>1
  <2>3. FoundSound(n)
    BY <1>3
  <2>4. Found[n + 1] = IF Findable(c) /\ Len(Found[n]) < Limit
                       THEN Append(Found[n], entry) ELSE Found[n]
    BY <1>1, <2>1, FoundNext
  <2>5. CASE Found[n + 1] = Found[n]
    BY <2>1, <2>3, <2>5 DEF FoundSound
  <2>6. CASE Findable(c) /\ Found[n + 1] = Append(Found[n], entry)
    <3>1. entry \in Entry
      BY <2>2, <2>6, OutboxConstants DEF Findable, OutboxTypeOK, Entry
    <3>2. Found[n] \in Seq(Entry) /\ Len(Found[n]) \in Nat
      BY <2>3 DEF FoundSound
    <3>3. /\ Found[n + 1] \in Seq(Entry)
          /\ Len(Found[n + 1]) = Len(Found[n]) + 1
          /\ Found[n + 1][Len(Found[n]) + 1] = entry
          /\ \A k \in 1 .. Len(Found[n]) : Found[n + 1][k] = Found[n][k]
      BY <2>6, <3>1, <3>2
    <3>4. ASSUME NEW k \in 1 .. Len(Found[n])
          PROVE  Found[n][k].event # c
      <4>1. PICK j \in 1 .. n : Found[n][k].event = created[j]
        BY <2>3 DEF FoundSound
      <4>2. j \in 1 .. Len(created) /\ j # n + 1
        BY <2>1
      <4> QED BY <2>1, <4>1, <4>2 DEF CreatedOnce
    <3>5. ASSUME NEW k \in 1 .. Len(Found[n + 1])
          PROVE  \E j \in 1 .. n + 1 : /\ Found[n + 1][k].event = created[j]
                                       /\ Findable(created[j])
      <4>1. CASE k = Len(Found[n]) + 1
        BY <2>1, <2>6, <3>3, <4>1
      <4>2. CASE k \in 1 .. Len(Found[n])
        <5>1. PICK j \in 1 .. n : /\ Found[n][k].event = created[j]
                                  /\ Findable(created[j])
          BY <2>3, <4>2 DEF FoundSound
        <5>2. j \in 1 .. n + 1
          BY <2>1
        <5> QED BY <3>3, <4>2, <5>1, <5>2
      <4> QED BY <3>2, <3>3, <4>1, <4>2
    <3>6. ASSUME NEW k \in 1 .. Len(Found[n + 1]),
                 NEW l \in 1 .. Len(Found[n + 1]),
                 Found[n + 1][k].event = Found[n + 1][l].event
          PROVE  k = l
      <4>1. entry.event = c
        OBVIOUS
      <4>2. CASE k = Len(Found[n]) + 1 /\ l = Len(Found[n]) + 1
        BY <4>2
      <4>3. CASE k = Len(Found[n]) + 1 /\ l \in 1 .. Len(Found[n])
        <5> HIDE DEF entry, c
        <5> QED BY <3>3, <3>4, <3>6, <4>1, <4>3
      <4>4. CASE l = Len(Found[n]) + 1 /\ k \in 1 .. Len(Found[n])
        <5> HIDE DEF entry, c
        <5> QED BY <3>3, <3>4, <3>6, <4>1, <4>4
      <4>5. CASE k \in 1 .. Len(Found[n]) /\ l \in 1 .. Len(Found[n])
        BY <2>3, <3>3, <3>6, <4>5 DEF FoundSound
      <4> QED BY <3>2, <3>3, <4>2, <4>3, <4>4, <4>5
    <3> QED BY <2>1, <3>3, <3>5, <3>6 DEF FoundSound
  <2> QED BY <2>4, <2>5, <2>6
<1>4. 0 .. Len(created) \subseteq Sound
  <2> HIDE DEF Sound
  <2> QED BY <1>1, <1>2, <1>3, InductionUpTo
<1> QED
  BY <1>1, <1>4

-----------------------------------------------------------------------------
(* What a step makes of a flush. *)
LEMMA IdleFlushes == IsFlush(Waiting) /\ IsFlush(Stopped) /\ IsFlush(Down)
<1>1. <<>> \in Seq(Entry) /\ Len(<<>>) = 0 /\ 1 .. 0 = {}
  OBVIOUS
<1> QED
  BY <1>1 DEF IsFlush, FlushTypes, Waiting, Stopped, Down, Busy

(* A flush in progress holds at least the entry it works on. *)
LEMMA BusyFlush ==
  ASSUME NEW f, IsFlush(f), f.at \in Busy
  PROVE  /\ f.rest \in Seq(Entry) /\ f.rest # <<>> /\ Len(f.rest) \in Nat \ {0}
         /\ 1 \in 1 .. Len(f.rest)
         /\ Head(f.rest) = f.rest[1] /\ f.rest[1] \in Entry
  BY DEF IsFlush, FlushTypes

LEMMA GotoIsFlush ==
  ASSUME NEW f, IsFlush(f), f.at \in Busy, NEW w \in Busy
  PROVE  /\ IsFlush([f EXCEPT !.at = w])
         /\ [f EXCEPT !.at = w].at = w /\ [f EXCEPT !.at = w].rest = f.rest
<1>1. f.rest \in Seq(Entry) /\ f.rest # <<>> /\ f = [at |-> f.at, rest |-> f.rest]
  BY DEF IsFlush, FlushTypes
<1>2. [f EXCEPT !.at = w] = [at |-> w, rest |-> f.rest]
  BY <1>1
<1> QED
  BY <1>1, <1>2 DEF IsFlush, FlushTypes, Busy

LEMMA TailIsFlush ==
  ASSUME NEW f, IsFlush(f), Len(f.rest) > 1
  PROVE  IsFlush([at |-> "publish", rest |-> Tail(f.rest)])
<1> DEFINE s == f.rest
           t == Tail(f.rest)
<1>1. s \in Seq(Entry) /\ s # <<>> /\ Len(s) \in Nat
  BY DEF IsFlush, FlushTypes
<1>2. /\ t \in Seq(Entry) /\ Len(t) = Len(s) - 1
      /\ \A k \in 1 .. Len(t) : t[k] = s[k + 1]
  BY <1>1, HeadTailProperties
<1>3. t # <<>>
  <2>1. Len(t) # 0
    BY <1>1, <1>2
  <2> HIDE DEF t
  <2> QED BY <2>1
<1>4. ASSUME NEW j \in 1 .. Len(t), NEW k \in 1 .. Len(t),
             t[j].event = t[k].event
      PROVE  j = k
  <2>1. s[j + 1].event = s[k + 1].event
    BY <1>2, <1>4
  <2>2. j + 1 \in 1 .. Len(s) /\ k + 1 \in 1 .. Len(s)
    BY <1>1, <1>2
  <2>3. j + 1 = k + 1
    BY <2>1, <2>2 DEF IsFlush
  <2> QED BY <1>1, <1>2, <2>3
<1> QED
  BY <1>2, <1>3, <1>4 DEF IsFlush, FlushTypes, Busy

LEMMA SnapshotIsFlush ==
  ASSUME OutboxTypeOK, CreatedOnce, Snapshot # <<>>
  PROVE  IsFlush([at |-> "publish", rest |-> Snapshot])
<1>1. FoundSound(Len(created))
  BY FoundIsSound
<1> QED
  BY <1>1 DEF FoundSound, Snapshot, IsFlush, FlushTypes, Busy

(* The flush of one instance changes, to one that has nothing in hand that it
   would mark as completed. *)
FlushBecomes(i, f) ==
  IsFlush(f) /\ f.at # "complete" /\ flush' = [flush EXCEPT ![i] = f]

LEMMA FlushEnds ==
  ASSUME NEW i \in Instances, EndFlush(i)
  PROVE  FlushBecomes(i, IF running[i] THEN Waiting ELSE Stopped)
  BY IdleFlushes DEF EndFlush, FlushBecomes, Waiting, Stopped

LEMMA FlushGoesOn ==
  ASSUME NEW i \in Instances, IsFlush(flush[i]), NextEvent(i)
  PROVE  \E f : FlushBecomes(i, f)
<1>1. CASE Len(flush[i].rest) > 1
  <2>1. flush' = [flush EXCEPT ![i] = [at |-> "publish",
                                       rest |-> Tail(flush[i].rest)]]
    BY <1>1 DEF NextEvent
  <2>2. FlushBecomes(i, [at |-> "publish", rest |-> Tail(flush[i].rest)])
    BY <1>1, <2>1, TailIsFlush DEF FlushBecomes
  <2> QED BY <2>2
<1>2. CASE ~(Len(flush[i].rest) > 1)
  <2>1. EndFlush(i)
    BY <1>2 DEF NextEvent
  <2> QED BY <2>1, FlushEnds
<1> QED
  BY <1>1, <1>2

(* The parts of the invariant that are about flushes, after such a change. *)
LEMMA FlushKept ==
  ASSUME FlushInv, NEW i \in Instances, NEW f, FlushBecomes(i, f),
         UNCHANGED sent
  PROVE  /\ flush' \in [Instances -> FlushTypes]
         /\ (\A k \in Instances : IsFlush(flush[k]))'
         /\ HandedOver'
<1>1. flush \in [Instances -> FlushTypes]
  BY DEF FlushInv, OutboxTypeOK, FlushTypes, Entry
<1>2. f \in FlushTypes
  BY DEF FlushBecomes, IsFlush
<1>3. /\ flush' \in [Instances -> FlushTypes] /\ flush'[i] = f
      /\ \A k \in Instances \ {i} : flush'[k] = flush[k]
  BY <1>1, <1>2 DEF FlushBecomes
<1>4. (\A k \in Instances : IsFlush(flush[k]))'
  <2>1. ASSUME NEW k \in Instances PROVE IsFlush(flush'[k])
    BY <1>3 DEF FlushInv, FlushBecomes
  <2> QED BY <2>1 DEF IsFlush, FlushTypes, Entry, Busy
<1>5. HandedOver'
  BY <1>3 DEF FlushInv, HandedOver, FlushBecomes
<1> QED
  BY <1>3, <1>4, <1>5

-----------------------------------------------------------------------------
LEMMA OutboxInitInv == OutboxInit => FlushInv
<1> SUFFICES ASSUME OutboxInit PROVE FlushInv
  OBVIOUS
<1>1. OutboxTypeOK
  <2>1. Waiting \in FlushTypes
    BY IdleFlushes DEF IsFlush
  <2>2. flush \in [Instances -> FlushTypes]
    BY <2>1 DEF OutboxInit
  <2>3. created \in Seq(Events)
    BY DEF OutboxInit
  <2>4. NoRow \in [status : {"absent", "pending", "completed", "dead"},
                    retryCount : 0 .. MaxRetry]
    BY OutboxConstants DEF NoRow
  <2>5. row \in [Events -> [status : {"absent", "pending", "completed", "dead"},
                            retryCount : 0 .. MaxRetry]]
    BY <2>4 DEF OutboxInit
  <2>6. faults \in 0 .. MaxFaults /\ crashes \in 0 .. MaxCrashes
    BY OutboxConstants DEF OutboxInit
  <2>7. /\ running \in [Instances -> BOOLEAN] /\ sent \in [Events -> Nat]
        /\ channel \in [Instances -> {"none", "open", "broken"}]
        /\ queued \subseteq Events
    BY DEF OutboxInit
  <2> QED
    BY <2>2, <2>3, <2>5, <2>6, <2>7 DEF OutboxTypeOK, FlushTypes, Entry
<1>2. CreatedOnce
  <2>1. Len(created) = 0
    BY DEF OutboxInit
  <2> QED BY <2>1 DEF CreatedOnce
<1>3. \A i \in Instances : IsFlush(flush[i])
  BY IdleFlushes DEF OutboxInit
<1>4. HandedOver
  BY DEF OutboxInit, HandedOver, Waiting
<1>5. PendingIsFindable /\ CompletedWasSent
  BY DEF OutboxInit, PendingIsFindable, CompletedWasSent, NoRow
<1> QED
  BY <1>1, <1>2, <1>3, <1>4, <1>5 DEF FlushInv

(* Nothing but the dead letter service makes a row, and no write of a poller
   takes one away. *)
RowKept(e) ==
  /\ row' = [row EXCEPT ![e] = row'[e]]
  /\ row'[e] \in [status : {"pending", "completed", "dead"},
                  retryCount : 0 .. MaxRetry]
  /\ row'[e].status = "pending" => row'[e].retryCount < MaxRetry
  /\ row'[e].status = "completed" => sent[e] > 0
  /\ UNCHANGED <<created, sent>>

LEMMA RowsKept ==
  ASSUME FlushInv, NEW e \in Events, RowKept(e)
  PROVE  /\ row' \in [Events -> [status : {"absent", "pending", "completed", "dead"},
                                 retryCount : 0 .. MaxRetry]]
         /\ CreatedOnce' /\ PendingIsFindable' /\ CompletedWasSent'
<1>1. row \in [Events -> [status : {"absent", "pending", "completed", "dead"},
                          retryCount : 0 .. MaxRetry]]
  BY DEF FlushInv, OutboxTypeOK
<1>2. \A d \in Events \ {e} : row'[d] = row[d]
  BY <1>1 DEF RowKept
<1>3. row' \in [Events -> [status : {"absent", "pending", "completed", "dead"},
                           retryCount : 0 .. MaxRetry]]
  BY <1>1 DEF RowKept
<1>4. row'[e].status # "absent"
  BY DEF RowKept
<1>5. CreatedOnce'
  <2>1. created \in Seq(Events) /\ created' = created
    BY DEF FlushInv, OutboxTypeOK, RowKept
  <2>2. ASSUME NEW j \in 1 .. Len(created)
        PROVE  row'[created[j]].status # "absent"
    <3>1. created[j] \in Events
      BY <2>1
    <3> QED BY <1>2, <1>4, <3>1 DEF FlushInv, CreatedOnce
  <2> QED BY <2>1, <2>2 DEF FlushInv, CreatedOnce
<1>6. PendingIsFindable'
  BY <1>2 DEF FlushInv, PendingIsFindable, RowKept
<1>7. CompletedWasSent'
  BY <1>2 DEF FlushInv, CompletedWasSent, RowKept
<1> QED
  BY <1>3, <1>5, <1>6, <1>7

(* The rows do not change and what was handed over is not taken back. *)
LEMMA RowsSame ==
  ASSUME FlushInv, UNCHANGED <<row, created>>,
         \A e \in Events : sent[e] > 0 => sent'[e] > 0
  PROVE  CreatedOnce' /\ PendingIsFindable' /\ CompletedWasSent'
  BY DEF FlushInv, CreatedOnce, PendingIsFindable, CompletedWasSent

LEMMA CompleteKeepsRow ==
  ASSUME FlushInv, NEW i \in Instances, Complete(i)
  PROVE  RowKept(Current(i).event) /\ Current(i).event \in Events
<1> DEFINE e == Current(i).event
<1>1. e \in Events /\ sent[e] > 0
  <2>1. IsFlush(flush[i]) /\ flush[i].at \in Busy
    BY DEF FlushInv, Complete, At, Busy
  <2> QED BY <2>1, BusyFlush DEF FlushInv, HandedOver, Complete, At, Current, Entry
<1>2. row[e] \in [status : {"absent", "pending", "completed", "dead"},
                  retryCount : 0 .. MaxRetry]
  BY <1>1 DEF FlushInv, OutboxTypeOK
<1>3. row' = [row EXCEPT ![e] = [row[e] EXCEPT !.status = "completed"]]
  BY DEF Complete
<1>4. row'[e] = [row[e] EXCEPT !.status = "completed"]
  BY <1>1, <1>3 DEF FlushInv, OutboxTypeOK
<1>5. row'[e] = [status |-> "completed", retryCount |-> row[e].retryCount]
  BY <1>2, <1>4
<1> QED
  BY <1>1, <1>2, <1>3, <1>4, <1>5 DEF RowKept, Complete

LEMMA BlameKeepsRow ==
  ASSUME FlushInv, NEW i \in Instances, Blame(i)
  PROVE  RowKept(Current(i).event) /\ Current(i).event \in Events
<1> DEFINE e == Current(i).event
           n == Current(i).retryCount + 1
           r == [status |-> IF IsDead(n) THEN "dead" ELSE "pending",
                 retryCount |-> n]
<1>1. e \in Events /\ n \in 1 .. MaxRetry
  <2>1. IsFlush(flush[i]) /\ flush[i].at \in Busy
    BY DEF FlushInv, Blame, At, Busy
  <2>2. Current(i) \in Entry
    BY <2>1, BusyFlush DEF Current
  <2> QED BY <2>2, OutboxConstants DEF Entry
<1>2. row' = [row EXCEPT ![e] = r]
  BY DEF Blame
<1>3. row'[e] = r
  BY <1>1, <1>2 DEF FlushInv, OutboxTypeOK
<1>4. r \in [status : {"pending", "completed", "dead"}, retryCount : 0 .. MaxRetry]
  BY <1>1, OutboxConstants
<1>5. r.status = "pending" => r.retryCount < MaxRetry
  BY <1>1, OutboxConstants DEF IsDead
<1>6. r.status # "completed"
  OBVIOUS
<1> QED
  BY <1>1, <1>2, <1>3, <1>4, <1>5, <1>6 DEF RowKept, Blame

-----------------------------------------------------------------------------
(* The step.  The variables a flush does not touch keep their types. *)
RestTyped ==
  /\ created \in Seq(Events) /\ running \in [Instances -> BOOLEAN]
  /\ channel \in [Instances -> {"none", "open", "broken"}]
  /\ sent \in [Events -> Nat] /\ queued \subseteq Events
  /\ faults \in 0 .. MaxFaults /\ crashes \in 0 .. MaxCrashes

LEMMA FlushInvParts ==
  ASSUME row' \in [Events -> [status : {"absent", "pending", "completed", "dead"},
                              retryCount : 0 .. MaxRetry]],
         flush' \in [Instances -> FlushTypes], RestTyped', CreatedOnce',
         (\A k \in Instances : IsFlush(flush[k]))', HandedOver',
         PendingIsFindable', CompletedWasSent'
  PROVE  FlushInv'
  BY DEF FlushInv, OutboxTypeOK, RestTyped, FlushTypes, Entry

LEMMA FlushInvTyped == FlushInv => RestTyped /\ flush \in [Instances -> FlushTypes]
  BY DEF FlushInv, OutboxTypeOK, RestTyped, FlushTypes, Entry

LEMMA FaultTyped ==
  ASSUME RestTyped, NEW kind, Fault(kind),
         UNCHANGED <<created, running, channel, sent, queued>>
  PROVE  RestTyped'
  BY OutboxConstants DEF RestTyped, Fault

(* A step that changes a flush, no row and nothing of what was sent. *)
LEMMA FlushOnly ==
  ASSUME FlushInv, NEW i \in Instances, NEW f, FlushBecomes(i, f),
         UNCHANGED <<row, created, sent>>, RestTyped'
  PROVE  FlushInv'
<1>1. /\ flush' \in [Instances -> FlushTypes]
      /\ (\A k \in Instances : IsFlush(flush[k]))' /\ HandedOver'
  BY FlushKept
<1>2. CreatedOnce' /\ PendingIsFindable' /\ CompletedWasSent'
  BY RowsSame
<1>3. row' \in [Events -> [status : {"absent", "pending", "completed", "dead"},
                           retryCount : 0 .. MaxRetry]]
  BY DEF FlushInv, OutboxTypeOK
<1> QED
  BY <1>1, <1>2, <1>3, FlushInvParts

(* A step that changes a flush and one row. *)
LEMMA FlushAndRow ==
  ASSUME FlushInv, NEW i \in Instances, NEW f, FlushBecomes(i, f),
         NEW e \in Events, RowKept(e), RestTyped'
  PROVE  FlushInv'
<1>1. /\ flush' \in [Instances -> FlushTypes]
      /\ (\A k \in Instances : IsFlush(flush[k]))' /\ HandedOver'
  BY FlushKept DEF RowKept
<1>2. /\ row' \in [Events -> [status : {"absent", "pending", "completed", "dead"},
                              retryCount : 0 .. MaxRetry]]
      /\ CreatedOnce' /\ PendingIsFindable' /\ CompletedWasSent'
  BY RowsKept
<1> QED
  BY <1>1, <1>2, FlushInvParts

(* A step that leaves rows and flushes alone. *)
LEMMA NeitherChanges ==
  ASSUME FlushInv, UNCHANGED <<row, created, flush, sent>>, RestTyped'
  PROVE  FlushInv'
  BY FlushInvParts DEF FlushInv, OutboxTypeOK, FlushTypes, Entry, CreatedOnce,
     HandedOver, PendingIsFindable, CompletedWasSent, IsFlush, Busy

LEMMA CreateRowStep ==
  ASSUME FlushInv, NEW e \in Events, CreateRow(e)
  PROVE  FlushInv'
<1>1. /\ row' = [row EXCEPT ![e] = PendingRow] /\ created' = Append(created, e)
      /\ row[e].status = "absent" /\ UNCHANGED <<flush, sent>>
  BY DEF CreateRow, NoRow
<1>2. created \in Seq(Events) /\ Len(created) \in Nat
  BY DEF FlushInv, OutboxTypeOK
<1>3. PendingRow \in [status : {"absent", "pending", "completed", "dead"},
                      retryCount : 0 .. MaxRetry]
  BY OutboxConstants DEF PendingRow
<1>4. /\ row' \in [Events -> [status : {"absent", "pending", "completed", "dead"},
                              retryCount : 0 .. MaxRetry]]
      /\ row'[e] = PendingRow /\ \A d \in Events \ {e} : row'[d] = row[d]
  BY <1>1, <1>3 DEF FlushInv, OutboxTypeOK
<1>5. /\ created' \in Seq(Events) /\ Len(created') = Len(created) + 1
      /\ created'[Len(created) + 1] = e
      /\ \A j \in 1 .. Len(created) : created'[j] = created[j]
  BY <1>1, <1>2
<1>6. \A j \in 1 .. Len(created) : created[j] \in Events \ {e}
  <2>1. ASSUME NEW j \in 1 .. Len(created) PROVE created[j] \in Events \ {e}
    <3>1. created[j] \in Events
      BY <1>2
    <3> QED BY <1>1, <3>1 DEF FlushInv, CreatedOnce
  <2> QED BY <2>1
<1>7. CreatedOnce'
  <2>1. ASSUME NEW j \in 1 .. Len(created')
        PROVE  row'[created'[j]].status # "absent"
    <3>1. CASE j = Len(created) + 1
      BY <1>4, <1>5, <3>1 DEF PendingRow
    <3>2. CASE j \in 1 .. Len(created)
      BY <1>4, <1>5, <1>6, <3>2 DEF FlushInv, CreatedOnce
    <3> QED BY <1>2, <1>5, <3>1, <3>2
  <2>2. ASSUME NEW j \in 1 .. Len(created'), NEW k \in 1 .. Len(created'),
               created'[j] = created'[k]
        PROVE  j = k
    <3>1. CASE j \in 1 .. Len(created) /\ k \in 1 .. Len(created)
      BY <1>5, <2>2, <3>1 DEF FlushInv, CreatedOnce
    <3>2. CASE j = Len(created) + 1 /\ k \in 1 .. Len(created)
      BY <1>5, <1>6, <2>2, <3>2
    <3>3. CASE k = Len(created) + 1 /\ j \in 1 .. Len(created)
      BY <1>5, <1>6, <2>2, <3>3
    <3> QED BY <1>2, <1>5, <3>1, <3>2, <3>3
  <2> QED BY <2>1, <2>2 DEF CreatedOnce
<1>8. PendingIsFindable' /\ CompletedWasSent'
  BY <1>1, <1>4, OutboxConstants
     DEF FlushInv, PendingIsFindable, CompletedWasSent, PendingRow
<1>9. RestTyped'
  BY <1>5, FlushInvTyped DEF RestTyped, CreateRow, bounds
<1> QED
  BY <1>1, <1>4, <1>7, <1>8, <1>9, FlushInvTyped, FlushInvParts
     DEF FlushInv, HandedOver, IsFlush, FlushTypes, Entry, Busy

LEMMA PublishStep ==
  ASSUME FlushInv, NEW i \in Instances, Publish(i)
  PROVE  FlushInv'
<1> DEFINE e == Current(i).event
<1>1. /\ IsFlush(flush[i]) /\ flush[i].at \in Busy
      /\ flush \in [Instances -> FlushTypes]
  BY FlushInvTyped DEF FlushInv, Publish, At, Busy
<1>2. e \in Events /\ Current(i) = flush[i].rest[1]
  BY <1>1, BusyFlush DEF Current, Entry
<1>3. /\ sent' \in [Events -> Nat] /\ sent'[e] > 0
      /\ \A d \in Events : sent[d] > 0 => sent'[d] > 0
  BY <1>2, FlushInvTyped DEF RestTyped, Publish
<1>4. RestTyped'
  <2>1. channel' \in [Instances -> {"none", "open", "broken"}]
    BY FlushInvTyped DEF RestTyped, Publish
  <2>2. queued' \subseteq Events
    BY <1>2, FlushInvTyped DEF RestTyped, Publish
  <2> QED BY <1>3, <2>1, <2>2, FlushInvTyped DEF RestTyped, Publish, bounds
<1>5. PICK f : /\ IsFlush(f) /\ f.rest = flush[i].rest /\ f.at = "complete"
               /\ flush' = [flush EXCEPT ![i] = f]
  <2>1. flush' = [flush EXCEPT ![i] = [flush[i] EXCEPT !.at = "complete"]]
    BY DEF Publish, Goto
  <2>2. "complete" \in Busy
    BY DEF Busy
  <2> QED BY <1>1, <2>1, <2>2, GotoIsFlush
<1>6. f \in FlushTypes
  BY <1>5 DEF IsFlush
<1>7. /\ flush' \in [Instances -> FlushTypes] /\ flush'[i] = f
      /\ \A k \in Instances \ {i} : flush'[k] = flush[k]
  BY <1>1, <1>5, <1>6
<1>8. (\A k \in Instances : IsFlush(flush[k]))'
  <2>1. ASSUME NEW k \in Instances PROVE IsFlush(flush'[k])
    BY <1>5, <1>7 DEF FlushInv
  <2> QED BY <2>1 DEF IsFlush, FlushTypes, Entry, Busy
<1>9. HandedOver'
  <2>1. ASSUME NEW k \in Instances, flush'[k].at = "complete"
        PROVE  sent'[flush'[k].rest[1].event] > 0
    <3>1. CASE k = i
      BY <1>2, <1>3, <1>5, <1>7, <3>1
    <3>2. CASE k # i
      <4>1. flush[k].at = "complete" /\ flush'[k] = flush[k]
        BY <1>7, <2>1, <3>2
      <4>2. flush[k].rest[1].event \in Events
        BY <4>1, BusyFlush DEF FlushInv, Busy, Entry
      <4> QED BY <1>3, <4>1, <4>2 DEF FlushInv, HandedOver
    <3> QED BY <3>1, <3>2
  <2> QED BY <2>1 DEF HandedOver
<1>10. UNCHANGED <<row, created>>
  BY DEF Publish
<1>11. CreatedOnce' /\ PendingIsFindable' /\ CompletedWasSent'
  BY <1>3, <1>10, RowsSame
<1> QED
  BY <1>4, <1>7, <1>8, <1>9, <1>10, <1>11, FlushInvParts
     DEF FlushInv, OutboxTypeOK

(* The steps that only move a flush. *)
LEMMA FindStep ==
  ASSUME FlushInv, NEW i \in Instances, Find(i) \/ FindFails(i)
  PROVE  FlushInv'
<1>1. UNCHANGED <<row, created, sent>>
  BY DEF Find, FindFails
<1>2. RestTyped'
  <2>1. CASE Find(i)
    BY <2>1, FlushInvTyped DEF RestTyped, Find, bounds
  <2>2. CASE FindFails(i)
    BY <2>2, FlushInvTyped, FaultTyped DEF FindFails
  <2> QED BY <2>1, <2>2
<1>3. \E f : FlushBecomes(i, f)
  <2>1. CASE EndFlush(i)
    BY <2>1, FlushEnds
  <2>2. CASE Snapshot # <<>>
             /\ flush' = [flush EXCEPT ![i] = [at |-> "publish", rest |-> Snapshot]]
    <3>1. IsFlush([at |-> "publish", rest |-> Snapshot])
      BY <2>2, SnapshotIsFlush DEF FlushInv
    <3>2. FlushBecomes(i, [at |-> "publish", rest |-> Snapshot])
      BY <2>2, <3>1 DEF FlushBecomes
    <3> QED BY <3>2
  <2> QED BY <2>1, <2>2 DEF Find, FindFails
<1> QED
  BY <1>1, <1>2, <1>3, FlushOnly

LEMMA BlamedNext ==
  ASSUME FlushInv, NEW i \in Instances,
         ConnectFails(i) \/ PublishThrows(i) \/ CompleteFails(i)
  PROVE  FlushInv'
<1>1. UNCHANGED <<row, created, running, channel, sent, queued>> /\ Goto(i, "blame")
      /\ \E kind \in {"mongo", "rabbit"} : Fault(kind)
  BY DEF ConnectFails, PublishThrows, CompleteFails
<1>2. RestTyped'
  BY <1>1, FlushInvTyped, FaultTyped
<1>3. IsFlush(flush[i]) /\ flush[i].at \in Busy /\ "blame" \in Busy
  BY DEF FlushInv, ConnectFails, PublishThrows, CompleteFails, At, Busy
<1>4. FlushBecomes(i, [flush[i] EXCEPT !.at = "blame"])
  BY <1>1, <1>3, GotoIsFlush DEF FlushBecomes, Goto
<1> QED
  BY <1>1, <1>2, <1>4, FlushOnly

LEMMA BlameFailsStep ==
  ASSUME FlushInv, NEW i \in Instances, BlameFails(i)
  PROVE  FlushInv'
<1>1. UNCHANGED <<row, created, running, channel, sent, queued>> /\ EndFlush(i)
      /\ Fault("mongo")
  BY DEF BlameFails
<1>2. RestTyped'
  BY <1>1, FlushInvTyped, FaultTyped
<1> QED
  BY <1>1, <1>2, FlushEnds, FlushOnly

(* The steps that write a row. *)
LEMMA MarkStep ==
  ASSUME FlushInv, NEW i \in Instances, Complete(i) \/ Blame(i)
  PROVE  FlushInv'
<1>1. NextEvent(i) /\ IsFlush(flush[i])
  BY DEF Complete, Blame, FlushInv
<1>2. PICK f : FlushBecomes(i, f)
  BY <1>1, FlushGoesOn
<1>3. RowKept(Current(i).event) /\ Current(i).event \in Events
  BY CompleteKeepsRow, BlameKeepsRow
<1>4. RestTyped'
  BY FlushInvTyped DEF RestTyped, Complete, Blame, bounds
<1> QED
  BY <1>2, <1>3, <1>4, FlushAndRow

(* The life of the process. *)
LEMMA StopPollerStep ==
  ASSUME FlushInv, NEW i \in Instances, StopPoller(i)
  PROVE  FlushInv'
<1>1. UNCHANGED <<row, created, channel, sent, queued>>
  BY DEF StopPoller
<1>2. RestTyped'
  <2>1. running' \in [Instances -> BOOLEAN]
    BY FlushInvTyped DEF RestTyped, StopPoller
  <2> QED
    BY <2>1, FlushInvTyped, OutboxConstants DEF RestTyped, StopPoller, EndOfProcess
<1>3. CASE flush[i].at = "timer"
  <2>1. FlushBecomes(i, Stopped)
    BY <1>3, IdleFlushes DEF FlushBecomes, StopPoller, At, Stopped
  <2> QED BY <1>1, <1>2, <2>1, FlushOnly
<1>4. CASE flush[i].at # "timer"
  <2>1. flush' = flush
    BY <1>4, FlushInvTyped DEF StopPoller, At
  <2> QED BY <1>1, <1>2, <2>1, NeitherChanges
<1> QED
  BY <1>3, <1>4

LEMMA LifeStep ==
  ASSUME FlushInv, NEW i \in Instances, Exit(i) \/ Crash(i) \/ Restart(i)
  PROVE  FlushInv'
<1>1. UNCHANGED <<row, created, sent, queued>>
  BY DEF Exit, Crash, Restart, Die
<1>2. RestTyped'
  <2>1. running' \in [Instances -> BOOLEAN]
    BY FlushInvTyped DEF RestTyped, Exit, Crash, Restart, Die
  <2>2. channel' \in [Instances -> {"none", "open", "broken"}]
    BY FlushInvTyped DEF RestTyped, Exit, Crash, Restart, Die
  <2>3. faults' \in 0 .. MaxFaults /\ crashes' \in 0 .. MaxCrashes
    BY FlushInvTyped, OutboxConstants
       DEF RestTyped, Exit, Crash, Restart, bounds, EndOfProcess
  <2> QED BY <1>1, <2>1, <2>2, <2>3, FlushInvTyped DEF RestTyped
<1>3. FlushBecomes(i, Down) \/ FlushBecomes(i, Waiting)
  BY IdleFlushes DEF FlushBecomes, Exit, Crash, Restart, Die, Down, Waiting
<1> QED
  BY <1>1, <1>2, <1>3, FlushOnly

LEMMA ChannelStep ==
  ASSUME FlushInv, NEW i \in Instances,
         ConnectionBreaks(i) \/ CloseEvent(i) \/ Disconnect(i)
  PROVE  FlushInv'
<1>1. RestTyped'
  BY FlushInvTyped DEF RestTyped, ConnectionBreaks, CloseEvent, Disconnect, bounds
<1> QED
  BY <1>1, NeitherChanges DEF ConnectionBreaks, CloseEvent, Disconnect

LEMMA FlushInvStep == FlushInv /\ [OutboxNext]_outboxVars => FlushInv'
<1> SUFFICES ASSUME FlushInv, [OutboxNext]_outboxVars PROVE FlushInv'
  OBVIOUS
<1>1. CASE \E e \in Events : CreateRow(e)
  BY <1>1, CreateRowStep
<1>2. ASSUME NEW i \in Instances, FlushStep(i) PROVE FlushInv'
  BY <1>2, PublishStep, FindStep, BlamedNext, BlameFailsStep, MarkStep
     DEF FlushStep
<1>3. ASSUME NEW i \in Instances,
             ConnectionBreaks(i) \/ CloseEvent(i) \/ StopPoller(i)
               \/ Disconnect(i) \/ Exit(i) \/ Crash(i) \/ Restart(i)
      PROVE  FlushInv'
  BY <1>3, ChannelStep, StopPollerStep, LifeStep
<1>4. CASE UNCHANGED outboxVars
  <2>1. UNCHANGED <<row, created, flush, sent>> /\ RestTyped'
    BY <1>4, FlushInvTyped DEF outboxVars, RestTyped
  <2> QED BY <2>1, NeitherChanges
<1> QED
  BY <1>1, <1>2, <1>3, <1>4 DEF OutboxNext

LEMMA FlushInvariant == OutboxSpec => []FlushInv
  BY OutboxInitInv, FlushInvStep, PTL DEF OutboxSpec

-----------------------------------------------------------------------------
(* The variables have their types; in particular an instance that publishes,
   completes or blames has an entry with a retry count below the limit, so the
   write of the catch block stays within it. *)
THEOREM OutboxTypes == OutboxSpec => []OutboxTypeOK
<1>1. FlushInv => OutboxTypeOK
  BY DEF FlushInv
<1> QED
  BY <1>1, FlushInvariant, PTL

(* No interleaving of flushes that write from old snapshots leaves a pending
   row that no flush finds. *)
THEOREM RowsStayFindable == OutboxSpec => []PendingIsFindable
<1>1. FlushInv => PendingIsFindable
  BY DEF FlushInv
<1> QED
  BY <1>1, FlushInvariant, PTL

(* A completed row's event was handed to a channel, by one poller or another. *)
THEOREM NothingCompletedUnsent == OutboxSpec => []CompletedWasSent
<1>1. FlushInv => CompletedWasSent
  BY DEF FlushInv
<1> QED
  BY <1>1, FlushInvariant, PTL

-----------------------------------------------------------------------------
(* Duplicates.  Arithmetic first. *)
N == Cardinality(Instances)

LEMMA TimesNext ==
  ASSUME NEW n \in Nat, NEW a \in Nat
  PROVE  n * a \in Nat /\ n * (a + 1) = n * a + n
  OBVIOUS

LEMMA TimesMonotone ==
  ASSUME NEW n \in Nat, NEW a \in Nat, NEW b \in Nat, a <= b
  PROVE  n * a <= n * b
<1>1. PICK d \in Nat : b = a + d
  <2>1. b - a \in Nat /\ b = a + (b - a)
    OBVIOUS
  <2> QED BY <2>1
<1>2. n * b = n * a + n * d /\ n * d \in Nat /\ n * a \in Nat
  BY <1>1
<1> QED
  BY <1>2

LEMMA Counts ==
  /\ N \in Nat
  /\ \A S \in SUBSET Instances :
       /\ IsFiniteSet(S) /\ Cardinality(S) \in Nat /\ Cardinality(S) <= N
       /\ \A T \in SUBSET S : Cardinality(T) <= Cardinality(S)
       /\ \A i \in Instances :
            /\ \A T \in SUBSET (S \cup {i}) : Cardinality(T) <= Cardinality(S) + 1
            /\ i \in S => \A T \in SUBSET (S \ {i}) :
                            Cardinality(T) <= Cardinality(S) - 1
<1>1. IsFiniteSet(Instances)
  BY OutboxConstants
<1>2. N \in Nat
  BY <1>1, FS_CardinalityType DEF N
<1>3. ASSUME NEW S \in SUBSET Instances
      PROVE  /\ IsFiniteSet(S) /\ Cardinality(S) \in Nat /\ Cardinality(S) <= N
             /\ \A T \in SUBSET S : Cardinality(T) <= Cardinality(S)
  BY <1>1, <1>3, FS_Subset, FS_CardinalityType DEF N
<1>4. ASSUME NEW S \in SUBSET Instances, NEW i \in Instances,
             NEW T \in SUBSET (S \cup {i})
      PROVE  Cardinality(T) <= Cardinality(S) + 1
  <2>1. S \cup {i} \in SUBSET Instances
    OBVIOUS
  <2>2. Cardinality(T) <= Cardinality(S \cup {i}) /\ Cardinality(T) \in Nat
        /\ IsFiniteSet(S) /\ Cardinality(S) \in Nat
    BY <1>3, <2>1
  <2>3. Cardinality(S \cup {i}) = IF i \in S THEN Cardinality(S)
                                  ELSE Cardinality(S) + 1
    BY <2>2, FS_AddElement
  <2>4. CASE i \in S
    BY <2>2, <2>3, <2>4
  <2>5. CASE i \notin S
    BY <2>2, <2>3, <2>5
  <2> QED BY <2>4, <2>5
<1>5. ASSUME NEW S \in SUBSET Instances, NEW i \in S, NEW T \in SUBSET (S \ {i})
      PROVE  Cardinality(T) <= Cardinality(S) - 1
  <2>1. S \ {i} \in SUBSET Instances
    OBVIOUS
  <2>2. Cardinality(T) <= Cardinality(S \ {i})
    BY <1>3, <2>1
  <2>3. Cardinality(S \ {i}) = Cardinality(S) - 1
    BY <1>3, FS_RemoveElement
  <2> QED BY <2>2, <2>3
<1> QED
  BY <1>2, <1>3, <1>4, <1>5

LEMMA InstanceSets ==
  ASSUME NEW e
  PROVE  /\ MaySend(e) \in SUBSET Instances /\ Leaving \in SUBSET Instances
         /\ Blaming(e) \in SUBSET Instances
         /\ MaySend(e)' \in SUBSET Instances /\ Leaving' \in SUBSET Instances
         /\ Blaming(e)' \in SUBSET Instances
  BY DEF MaySend, Leaving, Blaming

LEMMA BudgetGrows ==
  ASSUME RestTyped, NEW f \in Nat, NEW c \in Nat, faults' = f, crashes' = c
  PROVE  /\ Budget \in Nat
         /\ f + c = faults + crashes => Budget' = Budget
         /\ f + c = faults + crashes + 1 => Budget' = Budget + N
<1>1. N \in Nat /\ faults \in Nat /\ crashes \in Nat
  BY Counts, OutboxConstants DEF RestTyped
<1> DEFINE k == 1 + faults + crashes
           l == 1 + f + c
<1>2. k \in Nat /\ l \in Nat
  BY <1>1
<1>3. /\ f + c = faults + crashes => l = k
      /\ f + c = faults + crashes + 1 => l = k + 1
  BY <1>1
<1>4. Budget = N * k /\ Budget' = N * l
  BY DEF Budget, N
<1> HIDE DEF k, l
<1>5. N * k \in Nat /\ N * (k + 1) = N * k + N
  BY <1>1, <1>2, TimesNext
<1> QED
  BY <1>3, <1>4, <1>5

(* The bound of one event. *)
Bounded(e) == sent[e] + Prospects(e) <= Budget

(* A step keeps the bound when what is sent and may be sent grows by no more
   than the number of instances for each fault or ended process. *)
LEMMA BoundedStep ==
  ASSUME RestTyped, NEW e \in Events, Bounded(e), NEW f \in Nat, NEW c \in Nat,
         faults' = f, crashes' = c,
         sent'[e] \in Nat, Prospects(e) \in Nat, Prospects(e)' \in Nat,
         \/ /\ f + c = faults + crashes
            /\ sent'[e] + Prospects(e)' <= sent[e] + Prospects(e)
         \/ /\ f + c = faults + crashes + 1
            /\ sent'[e] + Prospects(e)' <= sent[e] + Prospects(e) + N
  PROVE  Bounded(e)'
<1>1. N \in Nat /\ sent[e] \in Nat
  BY Counts DEF RestTyped
<1>2. /\ Budget \in Nat
      /\ f + c = faults + crashes => Budget' = Budget
      /\ f + c = faults + crashes + 1 => Budget' = Budget + N
  BY BudgetGrows
<1>3. sent'[e] + Prospects(e)' <= Budget'
  <2>1. CASE /\ f + c = faults + crashes
             /\ sent'[e] + Prospects(e)' <= sent[e] + Prospects(e)
    BY <1>1, <1>2, <2>1 DEF Bounded
  <2>2. CASE /\ f + c = faults + crashes + 1
             /\ sent'[e] + Prospects(e)' <= sent[e] + Prospects(e) + N
    BY <1>1, <1>2, <2>2 DEF Bounded
  <2> QED BY <2>1, <2>2
<1> QED
  BY <1>3 DEF Bounded

LEMMA ProspectsNat ==
  ASSUME NEW e
  PROVE  /\ Prospects(e) \in Nat /\ Prospects(e)' \in Nat
         /\ Prospects(e) = Cardinality(MaySend(e)) + Cardinality(Leaving)
                             + N * Cardinality(Blaming(e))
         /\ Prospects(e)' = Cardinality(MaySend(e)') + Cardinality(Leaving')
                             + N * Cardinality(Blaming(e)')
         /\ N * Cardinality(Blaming(e)) \in Nat
         /\ N * Cardinality(Blaming(e)') \in Nat
         /\ Cardinality(MaySend(e)) \in 0 .. N /\ Cardinality(Leaving) \in 0 .. N
         /\ Cardinality(MaySend(e)') \in 0 .. N /\ Cardinality(Leaving') \in 0 .. N
<1>1. /\ N \in Nat
      /\ Cardinality(MaySend(e)) \in 0 .. N /\ Cardinality(Leaving) \in 0 .. N
      /\ Cardinality(MaySend(e)') \in 0 .. N /\ Cardinality(Leaving') \in 0 .. N
      /\ Cardinality(Blaming(e)) \in Nat /\ Cardinality(Blaming(e)') \in Nat
  BY Counts, InstanceSets
<1>2. N * Cardinality(Blaming(e)) \in Nat /\ N * Cardinality(Blaming(e)') \in Nat
  BY <1>1, TimesNext
<1>3. /\ Prospects(e) = Cardinality(MaySend(e)) + Cardinality(Leaving)
                          + N * Cardinality(Blaming(e))
      /\ Prospects(e)' = Cardinality(MaySend(e)') + Cardinality(Leaving')
                          + N * Cardinality(Blaming(e)')
  BY DEF Prospects, N
<1> QED
  BY <1>1, <1>2, <1>3

(* What the blaming pollers weigh. *)
LEMMA BlamingWeight ==
  ASSUME NEW e
  PROVE  /\ Blaming(e)' \subseteq Blaming(e) =>
              N * Cardinality(Blaming(e)') <= N * Cardinality(Blaming(e))
         /\ \A i \in Instances : Blaming(e)' \subseteq Blaming(e) \cup {i} =>
              N * Cardinality(Blaming(e)') <= N * Cardinality(Blaming(e)) + N
         /\ \A i \in Blaming(e) : Blaming(e)' \subseteq Blaming(e) \ {i} =>
              N * Cardinality(Blaming(e)') + N <= N * Cardinality(Blaming(e))
<1> DEFINE b == Cardinality(Blaming(e))
           c == Cardinality(Blaming(e)')
<1>1. N \in Nat /\ b \in Nat /\ c \in Nat
  BY Counts, InstanceSets
<1>2. ASSUME Blaming(e)' \subseteq Blaming(e) PROVE N * c <= N * b
  <2>1. c <= b
    BY <1>2, Counts, InstanceSets
  <2> QED BY <1>1, <2>1, TimesMonotone
<1>3. ASSUME NEW i \in Instances, Blaming(e)' \subseteq Blaming(e) \cup {i}
      PROVE  N * c <= N * b + N
  <2>1. c <= b + 1
    BY <1>3, Counts, InstanceSets
  <2>2. b + 1 \in Nat
    BY <1>1
  <2>3. N * c <= N * (b + 1)
    BY <1>1, <2>1, <2>2, TimesMonotone
  <2> QED BY <1>1, <2>3, TimesNext
<1>4. ASSUME NEW i \in Blaming(e), Blaming(e)' \subseteq Blaming(e) \ {i}
      PROVE  N * c + N <= N * b
  <2>1. i \in Instances
    BY DEF Blaming
  <2>2. c <= b - 1
    BY <1>4, <2>1, Counts, InstanceSets
  <2>3. c + 1 \in Nat /\ c + 1 <= b
    BY <1>1, <2>2
  <2>4. N * (c + 1) <= N * b
    BY <1>1, <2>3, TimesMonotone
  <2> QED BY <1>1, <2>4, TimesNext
<1> QED
  BY <1>2, <1>3, <1>4

(* The steps by what they do to the prospects of an event. *)
SameEnds == UNCHANGED bounds
OneMore ==
  faults' \in Nat /\ crashes' \in Nat /\ faults' + crashes' = faults + crashes + 1

(* Nothing went wrong, and nothing more is to be sent than before. *)
LEMMA NothingNew ==
  ASSUME RestTyped, NEW e \in Events, Bounded(e), sent'[e] = sent[e], SameEnds,
         MaySend(e)' \subseteq MaySend(e), Leaving' \subseteq Leaving,
         Blaming(e)' \subseteq Blaming(e)
  PROVE  Bounded(e)'
<1>1. /\ Cardinality(MaySend(e)') <= Cardinality(MaySend(e))
      /\ Cardinality(Leaving') <= Cardinality(Leaving)
  BY Counts, InstanceSets
<1>2. Prospects(e)' <= Prospects(e)
  BY <1>1, ProspectsNat, BlamingWeight, Counts
<1>3. sent[e] \in Nat /\ faults \in Nat /\ crashes \in Nat
      /\ faults' = faults /\ crashes' = crashes
  BY OutboxConstants DEF RestTyped, SameEnds, bounds
<1> QED
  BY <1>2, <1>3, ProspectsNat, Counts, BoundedStep

(* One instance hands the event over and will not again. *)
LEMMA HandsOver ==
  ASSUME RestTyped, NEW e \in Events, Bounded(e), sent'[e] = sent[e] + 1, SameEnds,
         NEW i \in MaySend(e), MaySend(e)' \subseteq MaySend(e) \ {i},
         Leaving' \subseteq Leaving, Blaming(e)' \subseteq Blaming(e)
  PROVE  Bounded(e)'
<1>1. /\ Cardinality(MaySend(e)') <= Cardinality(MaySend(e)) - 1
      /\ Cardinality(Leaving') <= Cardinality(Leaving)
  <2>1. i \in Instances
    BY DEF MaySend
  <2> QED BY <2>1, Counts, InstanceSets
<1>2. Prospects(e)' + 1 <= Prospects(e)
  BY <1>1, ProspectsNat, BlamingWeight, Counts
<1>3. sent[e] \in Nat /\ faults \in Nat /\ crashes \in Nat
      /\ faults' = faults /\ crashes' = crashes
  BY OutboxConstants DEF RestTyped, SameEnds, bounds
<1> QED
  BY <1>2, <1>3, ProspectsNat, Counts, BoundedStep

(* An instance blames, and all may find the row again. *)
LEMMA Blames ==
  ASSUME RestTyped, NEW e \in Events, Bounded(e), sent'[e] = sent[e], SameEnds,
         NEW i \in Blaming(e), Blaming(e)' \subseteq Blaming(e) \ {i},
         Leaving' \subseteq Leaving
  PROVE  Bounded(e)'
<1>1. Cardinality(Leaving') <= Cardinality(Leaving)
  BY Counts, InstanceSets
<1>2. Prospects(e)' <= Prospects(e)
  BY <1>1, ProspectsNat, BlamingWeight, Counts
<1>3. sent[e] \in Nat /\ faults \in Nat /\ crashes \in Nat
      /\ faults' = faults /\ crashes' = crashes
  BY OutboxConstants DEF RestTyped, SameEnds, bounds
<1> QED
  BY <1>2, <1>3, ProspectsNat, Counts, BoundedStep

(* A process that was ending has ended: it may find the event once more. *)
LEMMA Ends ==
  ASSUME RestTyped, NEW e \in Events, Bounded(e), sent'[e] = sent[e], SameEnds,
         NEW i \in Leaving, Leaving' \subseteq Leaving \ {i},
         MaySend(e)' \subseteq MaySend(e) \cup {i},
         Blaming(e)' \subseteq Blaming(e)
  PROVE  Bounded(e)'
<1>1. /\ Cardinality(MaySend(e)') <= Cardinality(MaySend(e)) + 1
      /\ Cardinality(Leaving') <= Cardinality(Leaving) - 1
  <2>1. i \in Instances
    BY DEF Leaving
  <2> QED BY <2>1, Counts, InstanceSets
<1>2. Prospects(e)' <= Prospects(e)
  BY <1>1, ProspectsNat, BlamingWeight, Counts
<1>3. sent[e] \in Nat /\ faults \in Nat /\ crashes \in Nat
      /\ faults' = faults /\ crashes' = crashes
  BY OutboxConstants DEF RestTyped, SameEnds, bounds
<1> QED
  BY <1>2, <1>3, ProspectsNat, Counts, BoundedStep

(* Something went wrong: all may find the event again, or one poller is about
   to put it back, or one process is about to end. *)
LEMMA GoesWrong ==
  ASSUME RestTyped, NEW e \in Events, Bounded(e), sent'[e] = sent[e], OneMore,
         NEW i \in Instances,
         \/ Leaving' \subseteq Leaving /\ Blaming(e)' \subseteq Blaming(e)
         \/ /\ MaySend(e)' \subseteq MaySend(e) /\ Leaving' \subseteq Leaving
            /\ Blaming(e)' \subseteq Blaming(e) \cup {i}
         \/ /\ MaySend(e)' \subseteq MaySend(e)
            /\ Leaving' \subseteq Leaving \cup {i}
            /\ Blaming(e)' \subseteq Blaming(e)
  PROVE  Bounded(e)'
<1>1. N \in Nat /\ N >= 1
  <2>1. Cardinality({}) = 0 /\ {} \in SUBSET (Instances \ {i})
    BY FS_EmptySet
  <2> QED BY <2>1, Counts DEF N
<1>2. /\ Leaving' \subseteq Leaving => Cardinality(Leaving') <= Cardinality(Leaving)
      /\ MaySend(e)' \subseteq MaySend(e) =>
           Cardinality(MaySend(e)') <= Cardinality(MaySend(e))
      /\ Leaving' \subseteq Leaving \cup {i} =>
           Cardinality(Leaving') <= Cardinality(Leaving) + 1
  BY Counts, InstanceSets
<1>3. Prospects(e)' <= Prospects(e) + N
  BY <1>1, <1>2, ProspectsNat, BlamingWeight
<1>4. sent[e] \in Nat /\ faults \in Nat /\ crashes \in Nat
  BY OutboxConstants DEF RestTyped
<1>5. /\ faults' \in Nat /\ crashes' \in Nat
      /\ faults' + crashes' = faults + crashes + 1
  BY DEF OneMore
<1>6. sent'[e] + Prospects(e)' <= sent[e] + Prospects(e) + N /\ sent'[e] \in Nat
  BY <1>1, <1>3, <1>4, ProspectsNat
<1> QED
  BY <1>5, <1>6, ProspectsNat, BoundedStep

-----------------------------------------------------------------------------
(* The steps, seen from one event. *)
Open(e)  == row[e].status \in {"absent", "pending"}
FlushOf(i) == \A k \in Instances \ {i} : flush'[k] = flush[k]

(* A step of one instance that opens no row leaves the others' prospects. *)
LEMMA OthersKeep ==
  ASSUME NEW e \in Events, NEW i \in Instances,
         flush \in [Instances -> FlushTypes], FlushOf(i), Open(e)' => Open(e)
  PROVE  \A k \in Instances \ {i} : /\ k \in MaySend(e)' => k \in MaySend(e)
                                    /\ k \in Blaming(e)' => k \in Blaming(e)
<1>1. \A k \in Instances \ {i} : flush'[k] = flush[k]
  BY DEF FlushOf
<1>2. ASSUME NEW k \in Instances \ {i}
      PROVE  /\ Ahead(k, e)' <=> Ahead(k, e)
             /\ InHand(k, e)' <=> InHand(k, e)
  BY <1>1 DEF Ahead, InHand
<1>3. ASSUME NEW k \in Instances \ {i}, k \in MaySend(e)' PROVE k \in MaySend(e)
  <2>1. Ahead(k, e)' \/ (Open(e)' /\ ~InHand(k, e)')
    BY <1>3 DEF MaySend, Open
  <2> QED BY <1>2, <2>1 DEF MaySend, Open
<1>4. ASSUME NEW k \in Instances \ {i}, k \in Blaming(e)' PROVE k \in Blaming(e)
  BY <1>1, <1>2, <1>4 DEF Blaming
<1> QED
  BY <1>3, <1>4

(* An idle instance has nothing ahead and nothing in hand. *)
LEMMA IdleHasNothing ==
  ASSUME NEW i \in Instances, NEW e, IsFlush(flush[i]), flush[i].at \notin Busy
  PROVE  ~Ahead(i, e) /\ ~InHand(i, e)
<1>1. flush[i].rest = <<>>
  BY DEF IsFlush
<1>2. 1 .. Len(flush[i].rest) = {}
  BY <1>1
<1> QED
  BY <1>1, <1>2 DEF Ahead, InHand, Busy

LEMMA IdleHasNothingNext ==
  ASSUME NEW i \in Instances, NEW e, IsFlush(flush'[i]), flush'[i].at \notin Busy
  PROVE  ~Ahead(i, e)' /\ ~InHand(i, e)' /\ i \notin Blaming(e)'
<1>1. flush'[i].rest = <<>>
  BY DEF IsFlush
<1>2. 1 .. Len(flush'[i].rest) = {}
  BY <1>1
<1> QED
  BY <1>1, <1>2 DEF Ahead, InHand, Busy, Blaming

(* What is left of a snapshot was ahead before. *)
LEMMA NextAhead ==
  ASSUME FlushInv, NEW i \in Instances, NEW e, flush[i].at \in Busy, NextEvent(i)
  PROVE  /\ FlushOf(i)
         /\ Ahead(i, e)' => Ahead(i, e)
         /\ ~InHand(i, e)' /\ i \notin Blaming(e)'
<1>1. flush \in [Instances -> FlushTypes] /\ IsFlush(flush[i])
  BY FlushInvTyped DEF FlushInv
<1>2. CASE Len(flush[i].rest) > 1
  <2> DEFINE t == Tail(flush[i].rest)
  <2>1. flush' = [flush EXCEPT ![i] = [at |-> "publish", rest |-> t]]
    BY <1>2 DEF NextEvent
  <2>2. flush'[i] = [at |-> "publish", rest |-> t] /\ FlushOf(i)
    BY <1>1, <2>1 DEF FlushOf
  <2>3. /\ Len(flush[i].rest) \in Nat /\ Len(t) = Len(flush[i].rest) - 1
        /\ \A k \in 1 .. Len(t) : t[k] = flush[i].rest[k + 1]
    <3>1. flush[i].rest \in Seq(Entry) /\ flush[i].rest # <<>>
      BY <1>1, BusyFlush
    <3> QED BY <3>1, HeadTailProperties
  <2>4. ASSUME Ahead(i, e)' PROVE Ahead(i, e)
    <3>1. PICK k \in 1 .. Len(t) : t[k].event = e
      BY <2>2, <2>4 DEF Ahead
    <3>2. k + 1 \in 1 .. Len(flush[i].rest) /\ k + 1 > 1
          /\ flush[i].rest[k + 1].event = e
      BY <2>3, <3>1
    <3> QED BY <3>2 DEF Ahead
  <2> QED BY <2>2, <2>4 DEF InHand, Blaming
<1>3. CASE ~(Len(flush[i].rest) > 1)
  <2>1. PICK f : f \in {Waiting, Stopped} /\ flush' = [flush EXCEPT ![i] = f]
    BY <1>3 DEF NextEvent, EndFlush
  <2>2. flush'[i] = f /\ FlushOf(i) /\ IsFlush(f)
    BY <1>1, <2>1, IdleFlushes DEF FlushOf
  <2>3. f.at \notin Busy
    BY <2>1 DEF Waiting, Stopped, Busy
  <2> QED BY <2>2, <2>3, IdleHasNothingNext
<1> QED
  BY <1>2, <1>3

LEMMA MarkBounded ==
  ASSUME FlushInv, NEW e \in Events, Bounded(e), NEW i \in Instances,
         Complete(i) \/ Blame(i)
  PROVE  Bounded(e)'
<1> DEFINE c == Current(i).event
<1>1. /\ flush \in [Instances -> FlushTypes] /\ IsFlush(flush[i])
      /\ flush[i].at \in {"complete", "blame"} /\ flush[i].at \in Busy
      /\ NextEvent(i) /\ RestTyped
  BY FlushInvTyped DEF FlushInv, Complete, Blame, At, Busy
<1>2. c = flush[i].rest[1].event /\ c \in Events
  BY <1>1, BusyFlush DEF Current, Entry
<1>3. /\ FlushOf(i)
      /\ Ahead(i, e)' => Ahead(i, e)
      /\ ~InHand(i, e)' /\ i \notin Blaming(e)'
  BY <1>1, NextAhead
<1>4. SameEnds /\ Leaving' \subseteq Leaving /\ sent' = sent
  <2>1. UNCHANGED <<running, bounds, sent>>
    BY DEF Complete, Blame
  <2>2. ASSUME NEW k \in Leaving' PROVE k \in Leaving
    <3>1. k \in Instances /\ ~running[k] /\ flush'[k].at # "down"
      BY <2>1, <2>2 DEF Leaving
    <3>2. CASE k = i
      BY <1>1, <3>1, <3>2 DEF Leaving
    <3>3. CASE k # i
      BY <1>1, <1>3, <3>1, <3>3 DEF Leaving, FlushOf
    <3> QED BY <3>2, <3>3
  <2> QED BY <2>1, <2>2 DEF SameEnds
<1>5. \A d \in Events \ {c} : row'[d] = row[d]
  BY DEF FlushInv, OutboxTypeOK, Complete, Blame
<1>6. CASE c # e \/ Complete(i)
  <2>1. Open(e)' => Open(e) /\ c # e
    <3>1. CASE c # e
      BY <1>5, <3>1 DEF Open
    <3>2. CASE c = e /\ Complete(i)
      <4>1. row'[e].status = "completed"
        BY <3>2, <1>2 DEF Complete, FlushInv, OutboxTypeOK
      <4> QED BY <4>1 DEF Open
    <3> QED BY <1>6, <3>1, <3>2
  <2>2. i \in MaySend(e)' => i \in MaySend(e)
    <3> SUFFICES ASSUME i \in MaySend(e)' PROVE i \in MaySend(e)
      OBVIOUS
    <3>1. Ahead(i, e)' \/ Open(e)'
      BY DEF MaySend, Open
    <3>2. c # e => ~InHand(i, e)
      BY <1>2 DEF InHand
    <3> QED BY <1>3, <2>1, <3>1, <3>2 DEF MaySend, Open
  <2>3. MaySend(e)' \subseteq MaySend(e) /\ Blaming(e)' \subseteq Blaming(e)
    <3>1. \A k \in Instances \ {i} : /\ k \in MaySend(e)' => k \in MaySend(e)
                                     /\ k \in Blaming(e)' => k \in Blaming(e)
      BY <1>1, <1>3, <2>1, OthersKeep
    <3> QED BY <1>3, <2>2, <3>1, InstanceSets
  <2> QED BY <1>1, <1>4, <2>3, NothingNew
<1>7. CASE c = e /\ Blame(i)
  <2>1. i \in Blaming(e)
    BY <1>2, <1>7 DEF Blaming, Blame, At, InHand
  <2>2. Blaming(e)' \subseteq Blaming(e) \ {i}
    <3>1. ASSUME NEW k \in Instances \ {i}, k \in Blaming(e)'
          PROVE  k \in Blaming(e)
      <4>1. flush'[k] = flush[k]
        BY <1>1, <1>3 DEF FlushOf
      <4> QED BY <3>1, <4>1 DEF Blaming, InHand
    <3> QED BY <1>3, <3>1, InstanceSets
  <2> QED BY <1>1, <1>4, <2>1, <2>2, Blames
<1> QED
  BY <1>6, <1>7

LEMMA PublishBounded ==
  ASSUME FlushInv, NEW e \in Events, Bounded(e), NEW i \in Instances, Publish(i)
  PROVE  Bounded(e)'
<1> DEFINE c == Current(i).event
<1>1. /\ flush \in [Instances -> FlushTypes] /\ IsFlush(flush[i]) /\ RestTyped
      /\ flush[i].at = "publish" /\ flush[i].at \in Busy
  BY FlushInvTyped DEF FlushInv, Publish, At, Busy
<1>2. /\ flush[i].rest \in Seq(Entry) /\ Len(flush[i].rest) \in Nat \ {0}
      /\ c = flush[i].rest[1].event /\ c \in Events /\ 1 \in 1 .. Len(flush[i].rest)
  BY <1>1, BusyFlush DEF Current, Entry
<1>3. /\ flush'[i].at = "complete" /\ flush'[i].rest = flush[i].rest
      /\ FlushOf(i)
  <2>1. flush' = [flush EXCEPT ![i] = [flush[i] EXCEPT !.at = "complete"]]
    BY DEF Publish, Goto
  <2>2. flush'[i] = [flush[i] EXCEPT !.at = "complete"] /\ "complete" \in Busy
    BY <1>1, <2>1 DEF Busy
  <2>3. FlushOf(i)
    BY <1>1, <2>1 DEF FlushOf
  <2> QED BY <1>1, <2>2, <2>3, GotoIsFlush
<1>4. SameEnds /\ row' = row /\ running' = running
  BY DEF Publish, SameEnds
<1>5. /\ \A k \in Instances \ {i} : /\ k \in MaySend(e)' => k \in MaySend(e)
                                    /\ k \in Blaming(e)' => k \in Blaming(e)
      /\ Leaving' \subseteq Leaving
  <2>1. Open(e)' => Open(e)
    BY <1>4 DEF Open
  <2>2. ASSUME NEW k \in Leaving' PROVE k \in Leaving
    <3>1. k \in Instances /\ ~running[k] /\ flush'[k].at # "down"
      BY <1>4, <2>2 DEF Leaving
    <3> QED BY <1>1, <1>3, <3>1 DEF Leaving, FlushOf
  <2> QED BY <1>1, <1>3, <2>1, <2>2, OthersKeep
<1>6. i \notin Blaming(e)'
  BY <1>3 DEF Blaming
<1>7. Blaming(e)' \subseteq Blaming(e)
  BY <1>5, <1>6, InstanceSets
<1>8. CASE c = e
  <2>1. i \in MaySend(e)
    BY <1>1, <1>2, <1>8 DEF MaySend, Ahead
  <2>2. i \notin MaySend(e)'
    <3>1. InHand(i, e)'
      BY <1>2, <1>3, <1>8 DEF InHand
    <3>2. ASSUME Ahead(i, e)' PROVE FALSE
      <4>1. PICK k \in 1 .. Len(flush[i].rest) :
              flush[i].rest[k].event = e /\ k > 1
        BY <1>3, <3>2 DEF Ahead
      <4>2. flush[i].rest[k].event = flush[i].rest[1].event
        BY <1>2, <1>8, <4>1
      <4>3. k = 1
        BY <1>1, <1>2, <4>1, <4>2 DEF IsFlush
      <4> QED BY <4>1, <4>3
    <3> QED BY <3>1, <3>2 DEF MaySend
  <2>3. MaySend(e)' \subseteq MaySend(e) \ {i}
    BY <1>5, <2>2, InstanceSets
  <2>4. sent'[e] = sent[e] + 1
    BY <1>1, <1>8 DEF Publish, RestTyped
  <2> QED BY <1>1, <1>4, <1>5, <1>7, <2>1, <2>3, <2>4, HandsOver
<1>9. CASE c # e
  <2>1. i \in MaySend(e)' => i \in MaySend(e)
    <3> SUFFICES ASSUME i \in MaySend(e)' PROVE i \in MaySend(e)
      OBVIOUS
    <3>1. Ahead(i, e)' \/ Open(e)
      BY <1>4 DEF MaySend, Open
    <3>2. Ahead(i, e)' => Ahead(i, e)
      BY <1>1, <1>3 DEF Ahead
    <3>3. ~InHand(i, e)
      BY <1>1 DEF InHand
    <3> QED BY <3>1, <3>2, <3>3 DEF MaySend, Open
  <2>2. MaySend(e)' \subseteq MaySend(e)
    BY <1>5, <2>1, InstanceSets
  <2>3. sent'[e] = sent[e]
    BY <1>1, <1>9 DEF Publish, RestTyped
  <2> QED BY <1>1, <1>4, <1>5, <1>7, <2>2, <2>3, NothingNew
<1> QED
  BY <1>8, <1>9

LEMMA FindBounded ==
  ASSUME FlushInv, FlushInv', NEW e \in Events, Bounded(e), NEW i \in Instances,
         Find(i)
  PROVE  Bounded(e)'
<1>1. /\ flush \in [Instances -> FlushTypes] /\ RestTyped
      /\ IsFlush(flush[i]) /\ flush[i].at = "timer"
  BY FlushInvTyped DEF FlushInv, Find, At
<1>2. UNCHANGED <<row, created, running, sent>> /\ SameEnds
  BY DEF Find, SameEnds
<1>3. PICK f : /\ flush' = [flush EXCEPT ![i] = f]
               /\ \/ f \in {Waiting, Stopped}
                  \/ Snapshot # <<>> /\ f = [at |-> "publish", rest |-> Snapshot]
  BY DEF Find, EndFlush
<1>4. FlushOf(i) /\ flush'[i] = f
  BY <1>1, <1>3 DEF FlushOf
<1>5. ~InHand(i, e)
  BY <1>1 DEF InHand
<1>6. Ahead(i, e)' => Open(e)
  <2>1. CASE f \in {Waiting, Stopped}
    <3>1. IsFlush(flush'[i]) /\ flush'[i].at \notin Busy
      BY <1>4, <2>1, IdleFlushes DEF Waiting, Stopped, Busy
    <3> QED BY <3>1, IdleHasNothingNext
  <2>2. CASE f = [at |-> "publish", rest |-> Snapshot]
    <3> SUFFICES ASSUME Ahead(i, e)' PROVE Open(e)
      OBVIOUS
    <3>1. FoundSound(Len(created))
      BY FoundIsSound DEF FlushInv
    <3>2. PICK k \in 1 .. Len(Snapshot) : Snapshot[k].event = e
      BY <1>4, <2>2 DEF Ahead
    <3>3. Findable(e)
      BY <3>1, <3>2 DEF FoundSound, Snapshot
    <3> QED BY <3>3 DEF Findable, Open
  <2> QED BY <1>3, <2>1, <2>2
<1>7. i \notin Blaming(e)' /\ flush'[i].at # "down"
  BY <1>3, <1>4 DEF Blaming, Waiting, Stopped
<1>8. Open(e)' => Open(e)
  BY <1>2 DEF Open
<1>9. MaySend(e)' \subseteq MaySend(e) /\ Blaming(e)' \subseteq Blaming(e)
  <2>1. \A k \in Instances \ {i} : /\ k \in MaySend(e)' => k \in MaySend(e)
                                   /\ k \in Blaming(e)' => k \in Blaming(e)
    BY <1>1, <1>4, <1>8, OthersKeep
  <2>2. i \in MaySend(e)' => i \in MaySend(e)
    <3>1. i \in MaySend(e)' => Ahead(i, e)' \/ Open(e)'
      BY DEF MaySend, Open
    <3> QED BY <1>5, <1>6, <1>8, <3>1 DEF MaySend, Open
  <2> QED BY <1>7, <2>1, <2>2, InstanceSets
<1>10. Leaving' \subseteq Leaving
  <2>1. ASSUME NEW k \in Leaving' PROVE k \in Leaving
    <3>1. k \in Instances /\ ~running[k] /\ flush'[k].at # "down"
      BY <1>2, <2>1 DEF Leaving
    <3> QED BY <1>1, <1>4, <3>1 DEF Leaving, FlushOf
  <2> QED BY <2>1
<1> QED
  BY <1>1, <1>2, <1>9, <1>10, NothingNew

(* The rejected calls. *)
LEMMA FaultIsOne ==
  ASSUME RestTyped, NEW kind, Fault(kind) \/ EndOfProcess(kind)
  PROVE  OneMore
<1>1. faults \in Nat /\ crashes \in Nat
  BY OutboxConstants DEF RestTyped
<1>2. CASE faults' = faults + 1 /\ crashes' = crashes
  BY <1>1, <1>2 DEF OneMore
<1>3. CASE faults' = faults /\ crashes' = crashes + 1
  BY <1>1, <1>3 DEF OneMore
<1> QED
  BY <1>2, <1>3 DEF Fault, EndOfProcess

LEMMA FaultBounded ==
  ASSUME FlushInv, NEW e \in Events, Bounded(e), NEW i \in Instances,
         FindFails(i) \/ BlameFails(i)
  PROVE  Bounded(e)'
<1>1. /\ flush \in [Instances -> FlushTypes] /\ RestTyped
      /\ flush[i].at \in {"timer", "blame"}
      /\ Fault("mongo") /\ UNCHANGED <<row, running, sent>> /\ EndFlush(i)
  BY FlushInvTyped DEF FindFails, BlameFails, At
<1>2. PICK f \in {Waiting, Stopped} : flush' = [flush EXCEPT ![i] = f]
  BY <1>1 DEF EndFlush
<1>3. FlushOf(i) /\ flush'[i] = f /\ f.at # "blame" /\ f.at # "down"
  BY <1>1, <1>2 DEF FlushOf, Waiting, Stopped
<1>4. Blaming(e)' \subseteq Blaming(e)
  <2>1. Open(e)' => Open(e)
    BY <1>1 DEF Open
  <2>2. i \notin Blaming(e)'
    BY <1>3 DEF Blaming
  <2> QED BY <1>1, <1>3, <2>1, <2>2, OthersKeep, InstanceSets
<1>5. Leaving' \subseteq Leaving
  <2>1. ASSUME NEW k \in Leaving' PROVE k \in Leaving
    <3>1. k \in Instances /\ ~running[k] /\ flush'[k].at # "down"
      BY <1>1, <2>1 DEF Leaving
    <3> QED BY <1>1, <1>3, <3>1 DEF Leaving, FlushOf
  <2> QED BY <2>1
<1> QED
  BY <1>1, <1>4, <1>5, FaultIsOne, GoesWrong

LEMMA BlamedBounded ==
  ASSUME FlushInv, NEW e \in Events, Bounded(e), NEW i \in Instances,
         ConnectFails(i) \/ PublishThrows(i) \/ CompleteFails(i)
  PROVE  Bounded(e)'
<1>1. /\ flush \in [Instances -> FlushTypes] /\ RestTyped /\ IsFlush(flush[i])
      /\ flush[i].at \in {"publish", "complete"} /\ flush[i].at \in Busy
      /\ \E kind \in {"mongo", "rabbit"} : Fault(kind)
      /\ UNCHANGED <<row, running, sent>> /\ Goto(i, "blame")
  BY FlushInvTyped
  DEF FlushInv, ConnectFails, PublishThrows, CompleteFails, At, Busy
<1>2. /\ flush'[i].at = "blame" /\ flush'[i].rest = flush[i].rest /\ FlushOf(i)
      /\ 1 \in 1 .. Len(flush[i].rest)
  <2>1. flush' = [flush EXCEPT ![i] = [flush[i] EXCEPT !.at = "blame"]]
    BY <1>1 DEF Goto
  <2>2. flush'[i] = [flush[i] EXCEPT !.at = "blame"] /\ "blame" \in Busy
    BY <1>1, <2>1 DEF Busy
  <2>3. FlushOf(i)
    BY <1>1, <2>1 DEF FlushOf
  <2> QED BY <1>1, <2>2, <2>3, GotoIsFlush, BusyFlush
<1>3. \A k \in Instances \ {i} : /\ k \in MaySend(e)' => k \in MaySend(e)
                                 /\ k \in Blaming(e)' => k \in Blaming(e)
  <2>1. Open(e)' => Open(e)
    BY <1>1 DEF Open
  <2> QED BY <1>1, <1>2, <2>1, OthersKeep
<1>4. i \in MaySend(e)' => i \in MaySend(e)
  <2> SUFFICES ASSUME i \in MaySend(e)' PROVE i \in MaySend(e)
    OBVIOUS
  <2>1. Ahead(i, e)' => Ahead(i, e)
    BY <1>1, <1>2 DEF Ahead
  <2>2. InHand(i, e)' <=> flush[i].rest[1].event = e
    BY <1>2 DEF InHand
  <2>3. CASE Ahead(i, e)'
    BY <2>1, <2>3 DEF MaySend
  <2>4. CASE Open(e)' /\ ~InHand(i, e)'
    <3>1. Open(e) /\ ~InHand(i, e)
      BY <1>1, <2>2, <2>4 DEF Open, InHand
    <3> QED BY <3>1 DEF MaySend, Open
  <2> QED BY <2>3, <2>4 DEF MaySend, Open
<1>5. Leaving' \subseteq Leaving
  <2>1. ASSUME NEW k \in Leaving' PROVE k \in Leaving
    <3>1. k \in Instances /\ ~running[k] /\ flush'[k].at # "down"
      BY <1>1, <2>1 DEF Leaving
    <3> QED BY <1>1, <1>2, <3>1 DEF Leaving, FlushOf
  <2> QED BY <2>1
<1>6. MaySend(e)' \subseteq MaySend(e) /\ Blaming(e)' \subseteq Blaming(e) \cup {i}
  BY <1>3, <1>4, InstanceSets
<1> QED
  BY <1>1, <1>5, <1>6, FaultIsOne, GoesWrong

LEMMA StopPollerBounded ==
  ASSUME FlushInv, FlushInv', NEW e \in Events, Bounded(e), NEW i \in Instances,
         StopPoller(i)
  PROVE  Bounded(e)'
<1>1. /\ flush \in [Instances -> FlushTypes] /\ RestTyped
      /\ IsFlush(flush[i]) /\ EndOfProcess("stop")
      /\ UNCHANGED <<row, sent>>
  BY FlushInvTyped DEF FlushInv, StopPoller
<1>2. FlushOf(i) /\ \A k \in Instances \ {i} : running'[k] = running[k]
  BY <1>1, FlushInvTyped DEF StopPoller, FlushOf, RestTyped
<1>3. Leaving' \subseteq Leaving \cup {i}
  <2>1. ASSUME NEW k \in Leaving', k # i PROVE k \in Leaving
    BY <1>2, <2>1 DEF Leaving, FlushOf
  <2> QED BY <2>1
<1>4. \A k \in Instances \ {i} : /\ k \in MaySend(e)' => k \in MaySend(e)
                                 /\ k \in Blaming(e)' => k \in Blaming(e)
  <2>1. Open(e)' => Open(e)
    BY <1>1 DEF Open
  <2> QED BY <1>1, <1>2, <2>1, OthersKeep
<1>5. /\ i \in MaySend(e)' => i \in MaySend(e)
      /\ i \in Blaming(e)' => i \in Blaming(e)
  <2>1. CASE flush[i].at = "timer"
    <3>1. flush'[i] = Stopped
      BY <1>1, <2>1 DEF StopPoller, At
    <3>2. flush[i].at \notin Busy /\ flush'[i].at \notin Busy /\ IsFlush(flush'[i])
      BY <2>1, <3>1, IdleFlushes DEF Busy, Stopped
    <3>3. /\ ~Ahead(i, e)' /\ i \notin Blaming(e)'
          /\ ~Ahead(i, e) /\ ~InHand(i, e)
      BY <1>1, <3>2, IdleHasNothing, IdleHasNothingNext
    <3> QED BY <1>1, <3>3 DEF MaySend
  <2>2. CASE flush[i].at # "timer"
    <3>1. flush'[i] = flush[i]
      BY <1>1, <2>2 DEF StopPoller, At
    <3>2. /\ Ahead(i, e)' <=> Ahead(i, e)
          /\ InHand(i, e)' <=> InHand(i, e)
      BY <3>1 DEF Ahead, InHand
    <3> QED BY <1>1, <3>1, <3>2 DEF MaySend, Blaming
  <2> QED BY <2>1, <2>2
<1>6. MaySend(e)' \subseteq MaySend(e) /\ Blaming(e)' \subseteq Blaming(e)
  BY <1>4, <1>5, InstanceSets
<1> QED
  BY <1>1, <1>3, <1>6, FaultIsOne, GoesWrong

(* The end and the start of a process. *)
LEMMA LifeBounded ==
  ASSUME FlushInv, FlushInv', NEW e \in Events, Bounded(e), NEW i \in Instances,
         Exit(i) \/ Crash(i) \/ Restart(i)
  PROVE  Bounded(e)'
<1>1. /\ flush \in [Instances -> FlushTypes] /\ RestTyped /\ IsFlush(flush[i])
      /\ UNCHANGED <<row, sent>>
      /\ running \in [Instances -> BOOLEAN]
  BY FlushInvTyped DEF FlushInv, Exit, Crash, Restart, Die, RestTyped
<1>2. /\ FlushOf(i) /\ flush'[i] \in {Down, Waiting}
      /\ \A k \in Instances \ {i} : running'[k] = running[k]
  BY <1>1 DEF Exit, Crash, Restart, Die, FlushOf
<1>3. flush'[i].at \notin Busy /\ IsFlush(flush'[i])
  BY <1>2, IdleFlushes DEF Busy, Down, Waiting
<1>4. ~Ahead(i, e)' /\ ~InHand(i, e)' /\ i \notin Blaming(e)'
  BY <1>3, IdleHasNothingNext
<1>5. /\ \A k \in Instances \ {i} : /\ k \in MaySend(e)' => k \in MaySend(e)
                                    /\ k \in Blaming(e)' => k \in Blaming(e)
      /\ Blaming(e)' \subseteq Blaming(e)
      /\ MaySend(e)' \subseteq MaySend(e) \cup {i}
  <2>1. Open(e)' => Open(e)
    BY <1>1 DEF Open
  <2>2. \A k \in Instances \ {i} : /\ k \in MaySend(e)' => k \in MaySend(e)
                                   /\ k \in Blaming(e)' => k \in Blaming(e)
    BY <1>1, <1>2, <2>1, OthersKeep
  <2> QED BY <1>4, <2>2, InstanceSets
<1>6. i \notin Leaving'
  <2>1. CASE Exit(i) \/ Crash(i)
    <3>1. flush'[i].at = "down"
      BY <1>1, <2>1 DEF Exit, Crash, Die, Down
    <3> QED BY <3>1 DEF Leaving
  <2>2. CASE Restart(i)
    <3>1. running'[i]
      BY <1>1, <2>2 DEF Restart
    <3> QED BY <3>1 DEF Leaving
  <2> QED BY <2>1, <2>2
<1>7. Leaving' \subseteq Leaving \ {i}
  <2>1. ASSUME NEW k \in Leaving' PROVE k \in Leaving \ {i}
    <3>1. k # i
      BY <1>6
    <3> QED BY <1>2, <3>1 DEF Leaving, FlushOf
  <2> QED BY <2>1
<1>8. CASE Exit(i)
  <2>1. i \in Leaving /\ SameEnds
    BY <1>8 DEF Exit, Leaving, At, SameEnds
  <2> QED BY <1>1, <1>5, <1>7, <2>1, Ends
<1>9. CASE Crash(i)
  <2>1. EndOfProcess("crash")
    BY <1>9 DEF Crash
  <2> QED BY <1>1, <1>5, <1>7, <2>1, FaultIsOne, GoesWrong
<1>10. CASE Restart(i)
  <2>1. flush[i].at \notin Busy /\ SameEnds
    BY <1>10 DEF Restart, At, Busy, SameEnds
  <2>2. ~InHand(i, e)
    BY <1>1, <2>1, IdleHasNothing
  <2>3. i \in MaySend(e)' => i \in MaySend(e)
    BY <1>1, <1>4, <2>2 DEF MaySend
  <2>4. MaySend(e)' \subseteq MaySend(e)
    BY <1>5, <2>3
  <2> QED BY <1>1, <1>5, <1>7, <2>1, <2>4, NothingNew
<1> QED
  BY <1>8, <1>9, <1>10

LEMMA RestBounded ==
  ASSUME FlushInv, NEW e \in Events, Bounded(e),
         \/ \E d \in Events : CreateRow(d)
         \/ \E i \in Instances :
              ConnectionBreaks(i) \/ CloseEvent(i) \/ Disconnect(i)
         \/ UNCHANGED outboxVars
  PROVE  Bounded(e)'
<1>1. RestTyped /\ UNCHANGED <<running, flush, sent>> /\ SameEnds
  BY FlushInvTyped DEF CreateRow, ConnectionBreaks, CloseEvent, Disconnect,
     outboxVars, SameEnds, bounds
<1>2. Open(e)' => Open(e)
  <2>1. CASE row' = row
    BY <2>1 DEF Open
  <2>2. ASSUME NEW d \in Events, CreateRow(d) PROVE Open(e)' => Open(e)
    <3>1. CASE d = e
      BY <2>2, <3>1 DEF CreateRow, Open, NoRow
    <3>2. CASE d # e
      <4>1. row'[e] = row[e]
        BY <2>2, <3>2 DEF CreateRow, FlushInv, OutboxTypeOK
      <4> QED BY <4>1 DEF Open
    <3> QED BY <3>1, <3>2
  <2> QED
    BY <2>1, <2>2 DEF ConnectionBreaks, CloseEvent, Disconnect, outboxVars
<1>3. \A k \in Instances : /\ Ahead(k, e)' <=> Ahead(k, e)
                           /\ InHand(k, e)' <=> InHand(k, e)
  BY <1>1 DEF Ahead, InHand
<1>4. MaySend(e)' \subseteq MaySend(e)
  BY <1>2, <1>3 DEF MaySend, Open
<1>5. Leaving' \subseteq Leaving /\ Blaming(e)' \subseteq Blaming(e)
  BY <1>1, <1>3 DEF Leaving, Blaming
<1> QED
  BY <1>1, <1>4, <1>5, NothingNew

LEMMA DuplicatesInit == OutboxInit => DuplicatesInv
<1> SUFFICES ASSUME OutboxInit, NEW e \in Events PROVE Bounded(e)
  BY DEF DuplicatesInv, Bounded
<1>1. Leaving = {} /\ Blaming(e) = {}
  BY DEF OutboxInit, Leaving, Blaming, Waiting
<1>2. Cardinality({}) = 0 /\ N * 0 = 0 /\ N \in Nat
  BY FS_EmptySet, Counts
<1>3. Prospects(e) <= N /\ Prospects(e) \in Nat
  <2>1. Cardinality(Leaving) = 0 /\ N * Cardinality(Blaming(e)) = 0
    BY <1>1, <1>2
  <2>2. Cardinality(MaySend(e)) \in 0 .. N
        /\ Prospects(e) = Cardinality(MaySend(e)) + Cardinality(Leaving)
                             + N * Cardinality(Blaming(e))
    BY ProspectsNat
  <2> QED BY <1>2, <2>1, <2>2
<1>4. Budget = N
  <2>1. 1 + faults + crashes = 1 /\ N * 1 = N
    BY <1>2 DEF OutboxInit
  <2> QED BY <2>1 DEF Budget, N
<1>5. sent[e] = 0
  BY DEF OutboxInit
<1> QED
  BY <1>2, <1>3, <1>4, <1>5 DEF Bounded

LEMMA DuplicatesStep ==
  FlushInv /\ FlushInv' /\ DuplicatesInv /\ [OutboxNext]_outboxVars => DuplicatesInv'
<1> SUFFICES ASSUME FlushInv, FlushInv', DuplicatesInv, [OutboxNext]_outboxVars,
                    NEW e \in Events
             PROVE  Bounded(e)'
  BY DEF DuplicatesInv, Bounded
<1>1. Bounded(e)
  BY DEF DuplicatesInv, Bounded
<1>2. ASSUME NEW i \in Instances, FlushStep(i) PROVE Bounded(e)'
  BY <1>1, <1>2, FindBounded, FaultBounded, PublishBounded, BlamedBounded,
     MarkBounded DEF FlushStep
<1>3. ASSUME NEW i \in Instances,
             ConnectionBreaks(i) \/ CloseEvent(i) \/ StopPoller(i)
               \/ Disconnect(i) \/ Exit(i) \/ Crash(i) \/ Restart(i)
      PROVE  Bounded(e)'
  BY <1>1, <1>3, RestBounded, StopPollerBounded, LifeBounded
<1> QED
  BY <1>1, <1>2, <1>3, RestBounded DEF OutboxNext

(* At least once, and how often at most: a poller hands an event over once,
   and again only after a call was rejected or a process ended, be it one of
   another instance. *)
THEOREM DuplicatesAreBounded == OutboxSpec => []DuplicatesBounded
<1>1. FlushInv /\ DuplicatesInv => DuplicatesBounded
  <2> SUFFICES ASSUME FlushInv, DuplicatesInv, NEW e \in Events
               PROVE  sent[e] <= Cardinality(Instances) * (1 + faults + crashes)
    BY DEF DuplicatesBounded
  <2>1. sent[e] + Prospects(e) <= Budget /\ Prospects(e) \in Nat
        /\ sent[e] \in Nat
    BY ProspectsNat, FlushInvTyped DEF DuplicatesInv, RestTyped
  <2>2. Budget \in Nat
    BY FlushInvTyped, BudgetGrows, Counts, TimesNext, OutboxConstants
       DEF RestTyped, Budget, N
  <2>3. sent[e] <= Budget
    BY <2>1, <2>2
  <2> QED BY <2>3 DEF Budget
<1>2. DuplicatesInv /\ [](FlushInv) /\ [][OutboxNext]_outboxVars => []DuplicatesInv
  BY DuplicatesStep, PTL
<1> QED
  BY <1>1, <1>2, FlushInvariant, DuplicatesInit, PTL DEF OutboxSpec
=============================================================================
