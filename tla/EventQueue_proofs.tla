-------------------------- MODULE EventQueue_proofs --------------------------
(***************************************************************************)
(* What holds of the event queue for every size of the ring and the screen *)
(* and any events, when nothing is put back at the start of the array.     *)
(***************************************************************************)
EXTENDS EventQueue, SequenceTheorems, WellFoundedInduction, NaturalsInduction, TLAPS

n == gp_ev_queue_events

RingOK ==
  /\ events \in [Slots -> Event \cup {NoEvent}]
  /\ queue_first \in Slots
  /\ queue_last \in Slots

WaitingAreEvents == \A i \in 1 .. n : events[Slot(i)] \in Event

ReturnedIsBeforeFirst ==
  returned # NoSlot => NextSlot(returned) = queue_first /\ events[returned] \in Event

IInv ==
  /\ TypeOK
  /\ CursorsAreOnScreen
  /\ WaitingAreEvents
  /\ ReturnedIsBeforeFirst

-----------------------------------------------------------------------------
(* The ring.                                                               *)

(* The slot after the last one is the first.                               *)
LEMMA NextSlotIs ==
  ASSUME NEW s \in Slots
  PROVE  /\ NextSlot(s) = IF s + 1 = QueueSize THEN 0 ELSE s + 1
         /\ NextSlot(s) \in Slots
<1>1. QueueSize \in Nat /\ QueueSize >= 2 /\ s \in 0 .. QueueSize - 1
  BY QueueAssumption DEF Slots
<1>2. (s + 1) % QueueSize = IF s + 1 = QueueSize THEN 0 ELSE s + 1
  BY <1>1, SMTT(30)
<1>3. QED
  BY <1>1, <1>2 DEF NextSlot, Slots

(* How the number of waiting events, the slots they are in and the two     *)
(* ends of the ring go together.                                           *)
LEMMA RingFacts ==
  ASSUME RingOK
  PROVE  /\ n \in 0 .. QueueSize - 1
         /\ Full <=> n = QueueSize - 1
         /\ queue_first = queue_last <=> n = 0
         /\ Slot(1) = queue_first
         /\ Slot(n + 1) = queue_last
         /\ \A i \in 1 .. n + 1 : Slot(i) \in Slots
         /\ \A i \in 1 .. n : Slot(i) # queue_last
<1>1. QueueSize \in Nat /\ QueueSize >= 2
  BY QueueAssumption
<1>2. queue_first \in 0 .. QueueSize - 1 /\ queue_last \in 0 .. QueueSize - 1
  BY DEF RingOK, Slots
<1>3. NextSlot(queue_last) = IF queue_last + 1 = QueueSize THEN 0 ELSE queue_last + 1
  BY NextSlotIs DEF RingOK
<1>4. n = IF queue_first <= queue_last THEN queue_last - queue_first
          ELSE QueueSize - (queue_first - queue_last)
  BY DEF n, gp_ev_queue_events
<1>5. n \in 0 .. QueueSize - 1
  BY <1>1, <1>2, <1>4
<1>6. Full <=> n = QueueSize - 1
  BY <1>1, <1>2, <1>3, <1>4 DEF Full
<1>7. queue_first = queue_last <=> n = 0
  BY <1>1, <1>2, <1>4
<1>8. \A i \in 1 .. n + 1 :
        Slot(i) = IF queue_first + i - 1 < QueueSize THEN queue_first + i - 1
                  ELSE queue_first + i - 1 - QueueSize
  BY DEF Slot
<1>9. Slot(1) = queue_first /\ Slot(n + 1) = queue_last
  BY <1>1, <1>2, <1>4, <1>5, <1>8
<1>10. \A i \in 1 .. n + 1 : Slot(i) \in Slots
  BY <1>1, <1>2, <1>5, <1>8 DEF Slots
<1>11. \A i \in 1 .. n : Slot(i) # queue_last
  BY <1>1, <1>2, <1>4, <1>5, <1>8
<1>12. QED
  BY <1>5, <1>6, <1>7, <1>9, <1>10, <1>11

(* A function on 1 .. k whose values are events is a sequence of k events. *)
LEMMA EventSeq ==
  ASSUME NEW k \in Nat, NEW w, w = [i \in 1 .. k |-> w[i]],
         \A i \in 1 .. k : w[i] \in Event
  PROVE  w \in Seq(Event) /\ Len(w) = k
<1>1. w \in [1 .. k -> Event]
  OBVIOUS
<1>2. w \in Seq(Event)
  BY <1>1, SeqDef
<1>3. DOMAIN w = 1 .. k /\ DOMAIN w = 1 .. Len(w) /\ Len(w) \in Nat
  BY <1>1, <1>2, LenProperties
<1>4. QED
  BY <1>2, <1>3

(* The waiting events are a sequence of n events.                          *)
LEMMA WaitingFacts ==
  ASSUME RingOK, WaitingAreEvents
  PROVE  /\ Waiting \in Seq(Event)
         /\ Len(Waiting) = n
         /\ n \in Nat
         /\ \A i \in 1 .. n : Waiting[i] = events[Slot(i)]
<1>1. n \in Nat
  BY RingFacts, QueueAssumption
<1>2. Waiting = [i \in 1 .. n |-> events[Slot(i)]]
  BY DEF Waiting, n
<1>3. Waiting = [i \in 1 .. n |-> Waiting[i]] /\ \A i \in 1 .. n : Waiting[i] \in Event
  BY <1>2 DEF WaitingAreEvents
<1>4. QED
  BY <1>1, <1>2, <1>3, EventSeq

(* event_put() appends the event unless QueueSize - 1 are waiting.         *)
LEMMA PutAppends ==
  ASSUME RingOK, WaitingAreEvents, NEW e \in Event, event_put(e)
  PROVE  /\ RingOK'
         /\ WaitingAreEvents'
         /\ Waiting' = IF Len(Waiting) < QueueSize - 1 THEN Append(Waiting, e) ELSE Waiting
<1>0. QueueSize \in Nat /\ QueueSize >= 2
  BY QueueAssumption
<1>1. CASE Full
  <2>1. UNCHANGED ring
    BY <1>1 DEF event_put
  <2>2. RingOK' /\ WaitingAreEvents' /\ Waiting' = Waiting
    BY <2>1 DEF ring, RingOK, WaitingAreEvents, Waiting, n, gp_ev_queue_events, Slot
  <2>3. Len(Waiting) = QueueSize - 1
    BY <1>1, RingFacts, WaitingFacts
  <2>4. QED
    BY <1>0, <2>2, <2>3
<1>2. CASE ~ Full
  <2>1. /\ events' = [events EXCEPT ![queue_last] = e]
        /\ queue_last' = NextSlot(queue_last)
        /\ queue_first' = queue_first
    BY <1>2 DEF event_put
  <2>2. RingOK'
    BY <2>1, NextSlotIs DEF RingOK
  <2>3. n' = n + 1
    <3>1. NextSlot(queue_last) = IF queue_last + 1 = QueueSize THEN 0 ELSE queue_last + 1
      BY NextSlotIs DEF RingOK
    <3>2. queue_first \in 0 .. QueueSize - 1 /\ queue_last \in 0 .. QueueSize - 1
      BY DEF RingOK, Slots
    <3>3. NextSlot(queue_last) # queue_first
      BY <1>2 DEF Full
    <3>4. QED
      BY <1>0, <2>1, <3>1, <3>2, <3>3 DEF n, gp_ev_queue_events
  <2>4. \A i : Slot(i)' = Slot(i)
    BY <2>1 DEF Slot
  <2>5. n \in Nat /\ n < QueueSize - 1 /\ Len(Waiting) = n
    BY <1>0, <1>2, RingFacts, WaitingFacts
  <2>6. \A i \in 1 .. n : events'[Slot(i)] = events[Slot(i)] /\ Slot(i) \in Slots
    BY <2>1, <2>5, RingFacts DEF RingOK
  <2>7. events'[Slot(n + 1)] = e
    BY <2>1, RingFacts DEF RingOK
  <2>8. \A i \in 1 .. n + 1 : i \in 1 .. n \/ i = n + 1
    BY <2>5
  <2>9. WaitingAreEvents'
    BY <2>3, <2>4, <2>6, <2>7, <2>8 DEF WaitingAreEvents
  <2>10. /\ Waiting' \in Seq(Event)
         /\ Len(Waiting') = n + 1
         /\ \A i \in 1 .. n + 1 : Waiting'[i] = events'[Slot(i)]
    <3>1. Waiting' = [i \in 1 .. n + 1 |-> events'[Slot(i)]]
      BY <2>3, <2>4 DEF Waiting, n
    <3>2. \A i \in 1 .. n + 1 : events'[Slot(i)] \in Event
      BY <2>3, <2>4, <2>9 DEF WaitingAreEvents
    <3>3. /\ Waiting' = [i \in 1 .. n + 1 |-> Waiting'[i]]
          /\ \A i \in 1 .. n + 1 : Waiting'[i] = events'[Slot(i)] /\ Waiting'[i] \in Event
      BY <3>1, <3>2
    <3>4. n + 1 \in Nat
      BY <2>5
    <3>5. QED
      BY <3>3, <3>4, EventSeq
  <2>11. /\ Append(Waiting, e) \in Seq(Event)
         /\ Len(Append(Waiting, e)) = n + 1
         /\ \A i \in 1 .. n : Append(Waiting, e)[i] = Waiting[i]
         /\ Append(Waiting, e)[n + 1] = e
    BY <2>5, WaitingFacts
  <2>12. \A i \in 1 .. n + 1 : Waiting'[i] = Append(Waiting, e)[i]
    BY <2>6, <2>7, <2>8, <2>10, <2>11, WaitingFacts
  <2>13. Waiting' = Append(Waiting, e)
    BY <2>10, <2>11, <2>12, SeqEqual
  <2>14. QED
    BY <2>2, <2>5, <2>9, <2>13
<1>3. QED
  BY <1>1, <1>2

(* Taking the first event leaves the others waiting in their order.        *)
LEMMA GetTakesTheFirst ==
  ASSUME RingOK, WaitingAreEvents,
         queue_first # queue_last,
         queue_first' = NextSlot(queue_first),
         events' = events, queue_last' = queue_last
  PROVE  /\ RingOK'
         /\ WaitingAreEvents'
         /\ Waiting # <<>>
         /\ Waiting' = Tail(Waiting)
         /\ events[queue_first] \in Event
<1>0. QueueSize \in Nat /\ QueueSize >= 2
  BY QueueAssumption
<1>1. RingOK'
  BY NextSlotIs DEF RingOK
<1>2. n \in Nat /\ n >= 1 /\ n <= QueueSize - 1
  BY <1>0, RingFacts
<1>3. queue_first \in 0 .. QueueSize - 1 /\ queue_last \in 0 .. QueueSize - 1
  BY DEF RingOK, Slots
<1>4. queue_first' = IF queue_first + 1 = QueueSize THEN 0 ELSE queue_first + 1
  BY NextSlotIs DEF RingOK
<1>5. n' = n - 1
  BY <1>0, <1>3, <1>4 DEF n, gp_ev_queue_events
<1>6. \A i \in 1 .. n - 1 : Slot(i)' = Slot(i + 1)
  BY <1>0, <1>2, <1>3, <1>4 DEF Slot
<1>7. Waiting' = [i \in 1 .. n - 1 |-> events[Slot(i + 1)]]
  BY <1>5, <1>6 DEF Waiting, n
<1>8. \A i \in 1 .. n - 1 : i + 1 \in 1 .. n
  BY <1>2
<1>9. \A i \in 1 .. n - 1 : events[Slot(i + 1)] \in Event
  BY <1>8 DEF WaitingAreEvents
<1>10. WaitingAreEvents'
  BY <1>5, <1>6, <1>9 DEF WaitingAreEvents
<1>11. /\ Waiting' \in Seq(Event)
       /\ Len(Waiting') = n - 1
       /\ \A i \in 1 .. n - 1 : Waiting'[i] = events[Slot(i + 1)]
  <2>1. /\ Waiting' = [i \in 1 .. n - 1 |-> Waiting'[i]]
        /\ \A i \in 1 .. n - 1 : Waiting'[i] = events[Slot(i + 1)] /\ Waiting'[i] \in Event
    BY <1>7, <1>9
  <2>2. n - 1 \in Nat
    BY <1>2
  <2>3. QED
    BY <2>1, <2>2, EventSeq
<1>12. /\ Waiting \in Seq(Event)
       /\ Len(Waiting) = n
       /\ \A i \in 1 .. n : Waiting[i] = events[Slot(i)]
  BY WaitingFacts
<1>13. Waiting # <<>>
  BY <1>2, <1>12
<1>14. /\ Tail(Waiting) \in Seq(Event)
       /\ Len(Tail(Waiting)) = n - 1
       /\ \A i \in 1 .. n - 1 : Tail(Waiting)[i] = Waiting[i + 1]
  BY <1>12, <1>13, HeadTailProperties
<1>15. \A i \in 1 .. n - 1 : Waiting'[i] = Tail(Waiting)[i]
  BY <1>8, <1>11, <1>12, <1>14
<1>16. Waiting' = Tail(Waiting)
  BY <1>11, <1>14, <1>15, SeqEqual
<1>17. events[queue_first] \in Event
  BY <1>2, RingFacts DEF WaitingAreEvents
<1>18. QED
  BY <1>1, <1>10, <1>13, <1>16, <1>17

(* Away from slot 0 an event that is put back is the next to be taken,     *)
(* unless QueueSize - 1 are waiting already.                               *)
LEMMA PutBackPrepends ==
  ASSUME RingOK, WaitingAreEvents, queue_first # 0,
         NEW e \in Event,
         IF PrevSlot = queue_last THEN UNCHANGED ring
         ELSE /\ events' = [events EXCEPT ![PrevSlot] = e]
              /\ queue_first' = PrevSlot
              /\ UNCHANGED queue_last
  PROVE  /\ RingOK'
         /\ WaitingAreEvents'
         /\ Waiting' = IF Len(Waiting) < QueueSize - 1 THEN <<e>> \o Waiting ELSE Waiting
<1>0. QueueSize \in Nat /\ QueueSize >= 2
  BY QueueAssumption
<1>1. queue_first \in 1 .. QueueSize - 1 /\ queue_last \in 0 .. QueueSize - 1
  BY <1>0 DEF RingOK, Slots
<1>2. PrevSlot = queue_first - 1 /\ PrevSlot \in Slots
  BY <1>0, <1>1 DEF PrevSlot, Slots
<1>3. PrevSlot = queue_last <=> n = QueueSize - 1
  BY <1>0, <1>1, <1>2 DEF n, gp_ev_queue_events
<1>4. n \in Nat /\ n <= QueueSize - 1
  BY <1>0, RingFacts
<1>5. /\ Waiting \in Seq(Event)
      /\ Len(Waiting) = n
      /\ \A i \in 1 .. n : Waiting[i] = events[Slot(i)]
  BY WaitingFacts
<1>6. CASE PrevSlot = queue_last
  <2>1. UNCHANGED ring
    BY <1>6
  <2>2. RingOK' /\ WaitingAreEvents' /\ Waiting' = Waiting
    BY <2>1 DEF ring, RingOK, WaitingAreEvents, Waiting, n, gp_ev_queue_events, Slot
  <2>3. QED
    BY <1>0, <1>3, <1>5, <1>6, <2>2
<1>7. CASE PrevSlot # queue_last
  <2>1. /\ events' = [events EXCEPT ![PrevSlot] = e]
        /\ queue_first' = queue_first - 1
        /\ queue_last' = queue_last
    BY <1>2, <1>7
  <2>2. RingOK'
    BY <1>2, <2>1 DEF RingOK
  <2>3. n < QueueSize - 1
    BY <1>0, <1>3, <1>4, <1>7
  <2>4. n' = n + 1
    BY <1>0, <1>1, <1>2, <1>7, <2>1 DEF n, gp_ev_queue_events
  <2>5. /\ Slot(1)' = PrevSlot
        /\ \A i \in 1 .. n : Slot(i + 1)' = Slot(i)
    BY <1>0, <1>1, <1>2, <1>4, <2>1 DEF Slot
  <2>6. \A i \in 1 .. n : Slot(i) # PrevSlot
    BY <1>0, <1>1, <1>2, <1>4, <2>3 DEF Slot
  <2>7. events'[PrevSlot] = e /\ \A i \in 1 .. n : events'[Slot(i)] = events[Slot(i)]
    BY <1>2, <2>1, <2>6, RingFacts DEF RingOK
  <2>8. \A i \in 1 .. n + 1 : i = 1 \/ (i > 1 /\ i - 1 \in 1 .. n /\ i = (i - 1) + 1)
    BY <1>4
  <2>9. \A i \in 1 .. n + 1 :
          events'[Slot(i)'] = IF i = 1 THEN e ELSE events[Slot(i - 1)]
    BY <2>5, <2>7, <2>8
  <2>10. \A i \in 1 .. n + 1 : events'[Slot(i)'] \in Event
    BY <2>8, <2>9 DEF WaitingAreEvents
  <2>11. WaitingAreEvents'
    BY <2>4, <2>10 DEF WaitingAreEvents
  <2>12. /\ Waiting' = [i \in 1 .. n + 1 |-> Waiting'[i]]
         /\ \A i \in 1 .. n + 1 : Waiting'[i] = events'[Slot(i)']
    BY <2>4 DEF Waiting, n
  <2>13. Waiting' \in Seq(Event) /\ Len(Waiting') = n + 1
    <3>1. \A i \in 1 .. n + 1 : Waiting'[i] \in Event
      BY <2>10, <2>12
    <3>2. n + 1 \in Nat
      BY <1>4
    <3>3. QED
      BY <2>12, <3>1, <3>2, EventSeq
  <2>14. /\ <<e>> \o Waiting \in Seq(Event)
         /\ Len(<<e>> \o Waiting) = n + 1
         /\ \A i \in 1 .. n + 1 : (<<e>> \o Waiting)[i] = IF i <= 1 THEN e ELSE Waiting[i - 1]
    <3>1. /\ <<e>> \in Seq(Event)
          /\ Len(<<e>>) = 1
          /\ <<e>>[1] = e
      OBVIOUS
    <3>2. /\ <<e>> \o Waiting \in Seq(Event)
          /\ Len(<<e>> \o Waiting) = 1 + n
          /\ \A i \in 1 .. 1 + n :
               (<<e>> \o Waiting)[i] = IF i <= 1 THEN <<e>>[i] ELSE Waiting[i - 1]
      BY <1>5, <3>1, ConcatProperties
    <3>3. QED
      BY <1>4, <3>1, <3>2
  <2>15. \A i \in 1 .. n + 1 : Waiting'[i] = (<<e>> \o Waiting)[i]
    BY <1>5, <2>8, <2>9, <2>12, <2>14
  <2>16. Waiting' = <<e>> \o Waiting
    BY <2>13, <2>14, <2>15, SeqEqual
  <2>17. QED
    BY <1>5, <2>2, <2>3, <2>11, <2>16
<1>8. QED
  BY <1>6, <1>7

-----------------------------------------------------------------------------
(* The cursors.                                                            *)

(* clip_rel() stays on the screen.                                         *)
LEMMA ClipRelOnScreen ==
  ASSUME NEW val \in Nat, NEW max \in Nat, max >= 1, val < max, NEW rel \in Int
  PROVE  clip_rel(val, max, rel) \in Nat /\ clip_rel(val, max, rel) < max
BY DEF clip_rel

(* Scaling an absolute position does, too.                                 *)
LEMMA ClipAbsOnScreen ==
  ASSUME screen_w \in Nat, screen_w >= 1, NEW x \in 0 .. AbsMax
  PROVE  clip_abs(x) \in Nat /\ clip_abs(x) < screen_w
<1> DEFINE w == screen_w
<1>1. AbsMax \in Nat /\ AbsMax >= 1
  BY QueueAssumption
<1>2. (x * (w - 1)) \div AbsMax \in 0 .. w - 1
  BY <1>1, SMTT(30)
<1>3. QED
  BY <1>2 DEF clip_abs

(* Widths are positive.                                                    *)
LEMMA WidthIsPositive == \A w \in Widths : w \in Nat /\ w >= 1
BY QueueAssumption

(* Any event leaves the reader's cursor on the screen.                     *)
LEMMA MoveToOnScreen ==
  ASSUME screen_w \in Widths, NEW pos \in Nat, pos < screen_w,
         NEW e \in Event
  PROVE  MoveTo(pos, e) \in Nat /\ MoveTo(pos, e) < screen_w
<1>1. screen_w \in Nat /\ screen_w >= 1
  BY WidthIsPositive
<1>2. CASE e[1] = "rel"
  <2>0. e[2] \in Rels
    BY <1>2 DEF Event
  <2>1. e[2] \in Int
    BY <2>0, QueueAssumption
  <2>2. QED
    BY <1>1, <1>2, <2>1, ClipRelOnScreen DEF MoveTo
<1>3. CASE e[1] = "abs"
  <2>1. e[2] \in 0 .. AbsMax
    BY <1>3 DEF Event
  <2>2. QED
    BY <1>1, <1>3, <2>1, ClipAbsOnScreen DEF MoveTo
<1>4. CASE e[1] # "rel" /\ e[1] # "abs"
  BY <1>4 DEF MoveTo
<1>5. QED
  BY <1>2, <1>3, <1>4

-----------------------------------------------------------------------------
(* The invariant.                                                          *)

(* It holds of the empty queue with the cursor in the middle.              *)
LEMMA InitInv == Init => IInv
<1> SUFFICES ASSUME Init PROVE IInv
  OBVIOUS
<1>1. 0 \in Slots
  BY QueueAssumption DEF Slots
<1>2. screen_w \in Nat /\ screen_w >= 1
  BY WidthIsPositive DEF Init
<1>3. screen_w \div 2 \in Nat /\ screen_w \div 2 < screen_w
  BY <1>2
<1>4. TypeOK /\ CursorsAreOnScreen
  BY <1>1, <1>2, <1>3 DEF Init, TypeOK, CursorsAreOnScreen
<1>5. n = 0
  BY DEF Init, n, gp_ev_queue_events
<1>6. WaitingAreEvents
  BY <1>5 DEF WaitingAreEvents
<1>7. ReturnedIsBeforeFirst
  BY DEF Init, ReturnedIsBeforeFirst
<1>8. QED
  BY <1>4, <1>6, <1>7 DEF IInv

(* Pushing an event never touches the one that was returned last.          *)
LEMMA PutKeepsReturned ==
  ASSUME IInv, NEW e, event_put(e), returned # NoSlot
  PROVE  events'[returned] = events[returned] /\ queue_first' = queue_first
<1>1. CASE Full
  BY <1>1 DEF event_put, ring
<1>2. CASE ~ Full
  <2>1. NextSlot(returned) = queue_first /\ NextSlot(queue_last) # queue_first
    BY <1>2 DEF IInv, ReturnedIsBeforeFirst, Full
  <2>2. returned # queue_last
    BY <2>1
  <2>3. QED
    BY <1>2, <2>2 DEF event_put, IInv, TypeOK
<1>3. QED
  BY <1>1, <1>2

(* A step that pushes an event and otherwise only moves cursor_x within    *)
(* the screen or changes what the drivers know keeps the invariant.        *)
LEMMA PushStep ==
  ASSUME IInv, NEW e \in Event, event_put(e),
         cursor_x' \in Nat, cursor_x' < screen_w,
         held' \subseteq Keys, keys_lost' \in BOOLEAN, synced' \in BOOLEAN,
         UNCHANGED <<screen_w, reader>>
  PROVE  IInv'
<1>1. RingOK /\ WaitingAreEvents
  BY DEF IInv, TypeOK, RingOK
<1>2. RingOK' /\ WaitingAreEvents'
  BY <1>1, PutAppends
<1>3. TypeOK'
  BY <1>2 DEF IInv, TypeOK, RingOK, reader
<1>4. CursorsAreOnScreen'
  BY DEF IInv, CursorsAreOnScreen, reader
<1>5. ReturnedIsBeforeFirst'
  <2>1. returned' = returned
    BY DEF reader
  <2>2. ASSUME returned # NoSlot
        PROVE  NextSlot(returned) = queue_first' /\ events'[returned] \in Event
    BY <2>2, PutKeepsReturned DEF IInv, ReturnedIsBeforeFirst
  <2>3. QED
    BY <2>1, <2>2 DEF ReturnedIsBeforeFirst, NextSlot
<1>6. QED
  BY <1>2, <1>3, <1>4, <1>5 DEF IInv

(* Every event the drivers push is one, and cursor_x stays on the screen.  *)
LEMMA PushIsPut ==
  ASSUME IInv, Push
  PROVE  /\ \E e \in Event : event_put(e)
         /\ UNCHANGED <<screen_w, reader>>
         /\ IInv'
<1>0. screen_w \in Nat /\ screen_w >= 1 /\ cursor_x \in Nat /\ cursor_x < screen_w
  BY WidthIsPositive DEF IInv, TypeOK, CursorsAreOnScreen
<1>1. ASSUME NEW rx \in Rels, gp_ev_queue_push_rel(rx)
      PROVE  /\ \E e \in Event : event_put(e)
             /\ UNCHANGED <<screen_w, reader>>
             /\ IInv'
  <2>1. <<"rel", rx>> \in Event /\ rx \in Int
    BY QueueAssumption DEF Event
  <2>2. cursor_x' \in Nat /\ cursor_x' < screen_w
    BY <1>0, <1>1, <2>1, ClipRelOnScreen DEF gp_ev_queue_push_rel
  <2>3. held' \subseteq Keys /\ keys_lost' \in BOOLEAN /\ synced' \in BOOLEAN
    BY <1>1 DEF gp_ev_queue_push_rel, IInv, TypeOK
  <2>4. event_put(<<"rel", rx>>) /\ UNCHANGED <<screen_w, reader>>
    BY <1>1 DEF gp_ev_queue_push_rel
  <2>5. QED
    BY <2>1, <2>2, <2>3, <2>4, PushStep
<1>2. ASSUME NEW x \in 0 .. screen_w, gp_ev_queue_push_rel_to(x)
      PROVE  x - cursor_x \in Rels /\ gp_ev_queue_push_rel(x - cursor_x)
  <2>1. x - cursor_x \in (1 - screen_w) .. screen_w
    BY <1>0
  <2>2. QED
    BY <1>2, <2>1, QueueAssumption DEF gp_ev_queue_push_rel_to, IInv, TypeOK
<1>3. ASSUME NEW x \in 0 .. AbsMax, gp_ev_queue_push_abs(x)
      PROVE  /\ \E e \in Event : event_put(e)
             /\ UNCHANGED <<screen_w, reader>>
             /\ IInv'
  <2>1. <<"abs", x>> \in Event
    BY DEF Event
  <2>2. cursor_x' \in Nat /\ cursor_x' < screen_w
    BY <1>0, <1>3, ClipAbsOnScreen DEF gp_ev_queue_push_abs
  <2>3. held' \subseteq Keys /\ keys_lost' \in BOOLEAN /\ synced' \in BOOLEAN
    BY <1>3 DEF gp_ev_queue_push_abs, IInv, TypeOK
  <2>4. event_put(<<"abs", x>>) /\ UNCHANGED <<screen_w, reader>>
    BY <1>3 DEF gp_ev_queue_push_abs
  <2>5. QED
    BY <2>1, <2>2, <2>3, <2>4, PushStep
<1>4. ASSUME NEW k \in Keys, NEW code \in {"down", "up"}, gp_ev_queue_push_key(k, code)
      PROVE  /\ \E e \in Event : event_put(e)
             /\ UNCHANGED <<screen_w, reader>>
             /\ IInv'
  <2>1. <<code, k>> \in Event
    BY DEF Event
  <2>2. cursor_x' \in Nat /\ cursor_x' < screen_w
    BY <1>0, <1>4 DEF gp_ev_queue_push_key
  <2>3. held' \subseteq Keys /\ keys_lost' \in BOOLEAN /\ synced' \in BOOLEAN
    BY <1>4 DEF gp_ev_queue_push_key, IInv, TypeOK
  <2>4. event_put(<<code, k>>) /\ UNCHANGED <<screen_w, reader>>
    BY <1>4 DEF gp_ev_queue_push_key
  <2>5. QED
    BY <2>1, <2>2, <2>3, <2>4, PushStep
<1>5. ASSUME gp_ev_queue_push
      PROVE  /\ \E e \in Event : event_put(e)
             /\ UNCHANGED <<screen_w, reader>>
             /\ IInv'
  <2>1. <<"other", 0>> \in Event
    BY DEF Event
  <2>2. cursor_x' \in Nat /\ cursor_x' < screen_w
    BY <1>0, <1>5 DEF gp_ev_queue_push
  <2>3. held' \subseteq Keys /\ keys_lost' \in BOOLEAN /\ synced' \in BOOLEAN
    BY <1>5 DEF gp_ev_queue_push, IInv, TypeOK
  <2>4. event_put(<<"other", 0>>) /\ UNCHANGED <<screen_w, reader>>
    BY <1>5 DEF gp_ev_queue_push
  <2>5. QED
    BY <2>1, <2>2, <2>3, <2>4, PushStep
<1>6. QED
  BY <1>1, <1>2, <1>3, <1>4, <1>5 DEF Push

(* Taking an event keeps the invariant.                                    *)
LEMMA GetStep == IInv /\ gp_ev_queue_get => IInv'
<1> SUFFICES ASSUME IInv, gp_ev_queue_get PROVE IInv'
  OBVIOUS
<1>1. RingOK /\ WaitingAreEvents
  BY DEF IInv, TypeOK, RingOK
<1>2. RingOK' /\ WaitingAreEvents' /\ events[queue_first] \in Event
  BY <1>1, GetTakesTheFirst DEF gp_ev_queue_get
<1>3. saved_cursor_x' \in Nat /\ saved_cursor_x' < screen_w
  BY <1>2, MoveToOnScreen DEF gp_ev_queue_get, IInv, TypeOK, CursorsAreOnScreen
<1>4. pressed' \subseteq Keys
  <2>1. pressed \subseteq Keys
    BY DEF IInv, TypeOK
  <2>2. CASE events[queue_first][1] = "down"
    <3>1. events[queue_first][2] \in Keys
      BY <1>2, <2>2 DEF Event
    <3>2. pressed' = pressed \cup {events[queue_first][2]}
      BY <2>2 DEF gp_ev_queue_get, UpdateKeys, KeysAfter
    <3>3. QED
      BY <2>1, <3>1, <3>2
  <2>3. CASE events[queue_first][1] # "down"
    <3>1. pressed' \in {pressed, pressed \ {events[queue_first][2]}}
      BY <2>3 DEF gp_ev_queue_get, UpdateKeys, KeysAfter
    <3>2. QED
      BY <2>1, <3>1
  <2>4. QED
    BY <2>2, <2>3
<1>5. TypeOK'
  BY <1>2, <1>3, <1>4 DEF gp_ev_queue_get, IInv, TypeOK, RingOK
<1>6. CursorsAreOnScreen'
  BY <1>3 DEF gp_ev_queue_get, IInv, CursorsAreOnScreen
<1>7. ReturnedIsBeforeFirst'
  BY <1>2 DEF gp_ev_queue_get, ReturnedIsBeforeFirst, NextSlot
<1>8. QED
  BY <1>2, <1>5, <1>6, <1>7 DEF IInv

(* Putting an event back away from slot 0 keeps the invariant.             *)
LEMMA PutBackStep == IInv /\ queue_first # 0 /\ gp_ev_queue_put_back => IInv'
<1> SUFFICES ASSUME IInv, queue_first # 0, gp_ev_queue_put_back PROVE IInv'
  OBVIOUS
<1>1. RingOK /\ WaitingAreEvents
  BY DEF IInv, TypeOK, RingOK
<1>2. events[returned] \in Event
  BY DEF IInv, ReturnedIsBeforeFirst, gp_ev_queue_put_back
<1>3. IF PrevSlot = queue_last THEN UNCHANGED ring
      ELSE /\ events' = [events EXCEPT ![PrevSlot] = events[returned]]
           /\ queue_first' = PrevSlot
           /\ UNCHANGED queue_last
  BY DEF gp_ev_queue_put_back
<1>4. RingOK' /\ WaitingAreEvents'
  BY <1>1, <1>2, <1>3, PutBackPrepends
<1>5. /\ returned' = NoSlot
      /\ synced' \in BOOLEAN
      /\ UNCHANGED <<screen_w, cursor_x, saved_cursor_x, state_cursor_x, pressed, held, keys_lost>>
  BY DEF gp_ev_queue_put_back, IInv, TypeOK
<1>6. TypeOK'
  BY <1>4, <1>5 DEF IInv, TypeOK, RingOK
<1>7. CursorsAreOnScreen'
  BY <1>5 DEF IInv, CursorsAreOnScreen
<1>8. ReturnedIsBeforeFirst'
  BY <1>5 DEF ReturnedIsBeforeFirst
<1>9. QED
  BY <1>4, <1>6, <1>7, <1>8 DEF IInv

(* A step that leaves the ring and what was returned alone, and both       *)
(* cursors on the screen, keeps the invariant.                             *)
LEMMA ScreenStep ==
  ASSUME IInv, screen_w' \in Widths,
         cursor_x' \in Nat, cursor_x' < screen_w',
         saved_cursor_x' \in Nat, saved_cursor_x' < screen_w',
         synced' \in BOOLEAN,
         UNCHANGED <<ring, state_cursor_x, pressed, returned, held, keys_lost>>
  PROVE  IInv'
<1>1. TypeOK'
  BY DEF IInv, TypeOK, ring
<1>2. CursorsAreOnScreen'
  BY DEF CursorsAreOnScreen
<1>3. WaitingAreEvents'
  BY DEF IInv, WaitingAreEvents, ring, n, gp_ev_queue_events, Slot
<1>4. ReturnedIsBeforeFirst'
  BY DEF IInv, ReturnedIsBeforeFirst, NextSlot, ring
<1>5. QED
  BY <1>1, <1>2, <1>3, <1>4 DEF IInv

(* Resizing the screen keeps the invariant.                                *)
LEMMA ResizeStep ==
  ASSUME IInv, NEW w \in Widths, gp_ev_queue_set_screen_size(w)
  PROVE  IInv'
<1>1. w \in Nat /\ w >= 1
  BY WidthIsPositive
<1>2. /\ cursor_x' \in Nat /\ cursor_x' < w
      /\ saved_cursor_x' \in Nat /\ saved_cursor_x' < w
  BY <1>1 DEF gp_ev_queue_set_screen_size, ClipTo, IInv, TypeOK
<1>3. screen_w' = w /\ synced' \in BOOLEAN
  BY DEF gp_ev_queue_set_screen_size, IInv, TypeOK
<1>4. UNCHANGED <<ring, state_cursor_x, pressed, returned, held, keys_lost>>
  BY DEF gp_ev_queue_set_screen_size
<1>5. QED
  BY <1>2, <1>3, <1>4, ScreenStep

(* Every step keeps the invariant.                                         *)
LEMMA NextStep == IInv /\ [Next]_vars => IInv'
<1> SUFFICES ASSUME IInv, [Next]_vars PROVE IInv'
  OBVIOUS
<1>1. CASE Push
  BY <1>1, PushIsPut
<1>2. CASE gp_ev_queue_get
  BY <1>2, GetStep
<1>3. ASSUME NEW w \in Widths, gp_ev_queue_set_screen_size(w) PROVE IInv'
  BY <1>3, ResizeStep
<1>4. ASSUME NEW x \in 0 .. screen_w - 1, gp_ev_queue_set_cursor_pos(x) PROVE IInv'
  <2>1. screen_w \in Nat /\ x \in Nat /\ x < screen_w
    BY WidthIsPositive DEF IInv, TypeOK
  <2>2. cursor_x' = x /\ saved_cursor_x' = x /\ screen_w' = screen_w /\ synced' \in BOOLEAN
    BY <1>4 DEF gp_ev_queue_set_cursor_pos
  <2>3. UNCHANGED <<ring, state_cursor_x, pressed, returned, held, keys_lost>>
    BY <1>4 DEF gp_ev_queue_set_cursor_pos
  <2>4. screen_w' \in Widths
    BY <2>2 DEF IInv, TypeOK
  <2>5. QED
    BY <2>1, <2>2, <2>3, <2>4, ScreenStep
<1>5. CASE queue_first # 0 /\ gp_ev_queue_put_back
  BY <1>5, PutBackStep
<1>6. CASE UNCHANGED vars
  <2>1. UNCHANGED ring /\ UNCHANGED <<screen_w, cursor_x, saved_cursor_x, state_cursor_x>>
        /\ UNCHANGED <<pressed, returned, held, keys_lost, synced>>
    BY <1>6 DEF vars
  <2>2. screen_w' \in Widths /\ cursor_x' \in Nat /\ saved_cursor_x' \in Nat
        /\ cursor_x' < screen_w' /\ saved_cursor_x' < screen_w' /\ synced' \in BOOLEAN
    BY <2>1 DEF IInv, TypeOK, CursorsAreOnScreen
  <2>3. QED
    BY <2>1, <2>2, ScreenStep
<1>7. QED
  BY <1>1, <1>2, <1>3, <1>4, <1>5, <1>6 DEF Next, Operations

-----------------------------------------------------------------------------
(* The theorems.                                                           *)

(* The ring's indices stay inside the array, the cursors on the screen,    *)
(* and the event last returned stays right before queue_first.             *)
THEOREM InductiveInvariant == Spec => []IInv
BY InitInv, NextStep, PTL DEF Spec

(* No index leaves the array and no cursor gets below zero.                *)
THEOREM TypeCorrect == Spec => []TypeOK
BY InductiveInvariant, PTL DEF IInv

(* Neither a dropped event nor a resize takes a cursor off the screen.     *)
THEOREM CursorsStayOnScreen == Spec => []CursorsAreOnScreen
BY InductiveInvariant, PTL DEF IInv

(* A step leaves the waiting events alone if it leaves the ring alone.     *)
LEMMA SameRingSameWaiting == UNCHANGED ring => Waiting' = Waiting
BY DEF ring, Waiting, n, gp_ev_queue_events, Slot

(* Each step is a step of the abstract FIFO or none.                       *)
LEMMA FifoStep == IInv /\ [Next]_vars => [Fifo!Next]_Waiting
<1> SUFFICES ASSUME IInv, [Next]_vars PROVE Fifo!Next \/ Waiting' = Waiting
  OBVIOUS
<1>0. RingOK /\ WaitingAreEvents
  BY DEF IInv, TypeOK, RingOK
<1>1. CASE Push
  <2>1. PICK e \in Event : event_put(e)
    BY <1>1, PushIsPut
  <2>2. Fifo!Put(e)
    BY <1>0, <2>1, PutAppends DEF Fifo!Put
  <2>3. QED
    BY <2>2 DEF Fifo!Next
<1>2. CASE gp_ev_queue_get
  <2>1. Waiting # <<>> /\ Waiting' = Tail(Waiting)
    BY <1>0, <1>2, GetTakesTheFirst DEF gp_ev_queue_get
  <2>2. QED
    BY <2>1 DEF Fifo!Next, Fifo!Get
<1>3. CASE queue_first # 0 /\ gp_ev_queue_put_back
  <2>1. events[returned] \in Event
    BY <1>3 DEF IInv, ReturnedIsBeforeFirst, gp_ev_queue_put_back
  <2>2. IF PrevSlot = queue_last THEN UNCHANGED ring
        ELSE /\ events' = [events EXCEPT ![PrevSlot] = events[returned]]
             /\ queue_first' = PrevSlot
             /\ UNCHANGED queue_last
    BY <1>3 DEF gp_ev_queue_put_back
  <2>3. Fifo!PutBack(events[returned])
    BY <1>0, <1>3, <2>1, <2>2, PutBackPrepends DEF Fifo!PutBack
  <2>4. QED
    BY <2>1, <2>3 DEF Fifo!Next
<1>4. CASE \/ \E w \in Widths : gp_ev_queue_set_screen_size(w)
           \/ \E x \in 0 .. screen_w - 1 : gp_ev_queue_set_cursor_pos(x)
           \/ UNCHANGED vars
  <2>1. UNCHANGED ring
    BY <1>4 DEF gp_ev_queue_set_screen_size, gp_ev_queue_set_cursor_pos, vars
  <2>2. QED
    BY <2>1, SameRingSameWaiting
<1>5. QED
  BY <1>1, <1>2, <1>3, <1>4 DEF Next, Operations

(* The ring implements a bounded FIFO that drops what does not fit: events *)
(* are read in the order they were pushed, each once, none overwritten.    *)
THEOREM Refinement == Spec => ImplementsFifo
<1>1. Init => Fifo!Init
  <2> SUFFICES ASSUME Init PROVE Waiting = <<>>
    BY DEF Fifo!Init
  <2>1. RingOK /\ WaitingAreEvents /\ n = 0
    BY InitInv DEF IInv, TypeOK, RingOK, Init, n, gp_ev_queue_events
  <2>2. Waiting \in Seq(Event) /\ Len(Waiting) = 0
    BY <2>1, WaitingFacts
  <2>3. QED
    BY <2>2, EmptySeq
<1>2. IInv /\ [Next]_vars => [Fifo!Next]_Waiting
  BY FifoStep
<1>3. QED
  BY <1>1, <1>2, InductiveInvariant, PTL DEF Spec, ImplementsFifo, Fifo!Spec

(* The event gp_ev_queue_get() returned a pointer to is not written to     *)
(* until the next event is taken or put back, however full the ring gets.  *)
THEOREM ReturnedEventStaysStable == Spec => ReturnedEventIsStable
<1>1. ASSUME IInv, [Next]_vars, returned # NoSlot, returned' = returned
      PROVE  events'[returned] = events[returned]
  <2>1. CASE Push
    BY <1>1, <2>1, PushIsPut, PutKeepsReturned
  <2>2. CASE queue_first # 0 /\ gp_ev_queue_put_back
    BY <1>1, <2>2 DEF gp_ev_queue_put_back
  <2>3. CASE \/ gp_ev_queue_get
             \/ \E w \in Widths : gp_ev_queue_set_screen_size(w)
             \/ \E x \in 0 .. screen_w - 1 : gp_ev_queue_set_cursor_pos(x)
             \/ UNCHANGED vars
    BY <2>3 DEF gp_ev_queue_get, gp_ev_queue_set_screen_size,
                gp_ev_queue_set_cursor_pos, vars, ring
  <2>4. QED
    BY <1>1, <2>1, <2>2, <2>3 DEF Next, Operations
<1>2. QED
  BY <1>1, InductiveInvariant, PTL DEF Spec, ReturnedEventIsStable

-----------------------------------------------------------------------------
(* Where the waiting events lead to.                                       *)

(* A set of numbers that is not empty has a smallest one.                  *)
LEMMA SmallestExists ==
  ASSUME NEW T, T \subseteq Nat, T # {}
  PROVE  \E x \in T : \A y \in T : x =< y
<1>1. PICK x \in T : \A y \in T : ~ (<<y, x>> \in OpToRel(<, Nat))
  BY NatLessThanWellFounded, WFMin
<1>2. \A y \in T : ~ (y < x)
  BY <1>1 DEF OpToRel
<1>3. QED
  BY <1>2

(* A walk of k steps exists from any start, whatever the steps do.         *)
Walk(f, start, k, F) == f[0] = start /\ \A i \in 1 .. k : f[i] = F[i][f[i - 1]]

LEMMA WalkExists ==
  ASSUME NEW S, NEW start \in S, NEW k \in Nat, NEW F \in [1 .. k -> [S -> S]]
  PROVE  \E f \in [0 .. k -> S] : Walk(f, start, k, F)
<1> DEFINE Good(m) == \E f \in [0 .. m -> S] : Walk(f, start, m, F)
           Bad == {m \in 0 .. k : ~ Good(m)}
<1>1. Good(0)
  <2>1. [i \in 0 .. 0 |-> start] \in [0 .. 0 -> S]
    OBVIOUS
  <2>2. Walk([i \in 0 .. 0 |-> start], start, 0, F)
    BY DEF Walk
  <2>3. QED
    BY <2>1, <2>2
<1>2. ASSUME NEW m \in 1 .. k, Good(m - 1) PROVE Good(m)
  <2>1. PICK f \in [0 .. m - 1 -> S] : Walk(f, start, m - 1, F)
    BY <1>2
  <2> DEFINE g == [i \in 0 .. m |-> IF i = m THEN F[m][f[m - 1]] ELSE f[i]]
  <2>2. m - 1 \in 0 .. m - 1 /\ m \in 0 .. m /\ 0 \in 0 .. m - 1 /\ m \in 1 .. k
    OBVIOUS
  <2>3. F[m][f[m - 1]] \in S
    BY <2>2
  <2>4. g \in [0 .. m -> S]
    BY <2>3
  <2>5. \A i \in 0 .. m - 1 : g[i] = f[i]
    OBVIOUS
  <2>6. g[m] = F[m][g[m - 1]]
    <3>1. g[m] = F[m][f[m - 1]]
      BY <2>2
    <3>2. QED
      BY <2>2, <2>5, <3>1
  <2> HIDE DEF g
  <2>7. ASSUME NEW i \in 1 .. m PROVE g[i] = F[i][g[i - 1]]
    <3>1. CASE i = m
      BY <3>1, <2>6
    <3>2. CASE i # m
      <4>1. i \in 1 .. m - 1 /\ i \in 0 .. m - 1 /\ i - 1 \in 0 .. m - 1
        BY <3>2
      <4>2. f[i] = F[i][f[i - 1]]
        BY <2>1, <4>1 DEF Walk
      <4>3. QED
        BY <2>5, <4>1, <4>2
    <3>3. QED
      BY <3>1, <3>2
  <2>8. g[0] = start
    BY <2>1, <2>2, <2>5 DEF Walk
  <2>9. Walk(g, start, m, F)
    BY <2>7, <2>8 DEF Walk
  <2>10. QED
    BY <2>4, <2>9
<1> HIDE DEF Good
<1>3. Bad = {}
  <2> SUFFICES ASSUME Bad # {} PROVE FALSE
    OBVIOUS
  <2>1. Bad \subseteq Nat
    OBVIOUS
  <2>2. PICK m \in Bad : \A y \in Bad : m =< y
    BY <2>1, SmallestExists
  <2>3. m \in 1 .. k /\ ~ Good(m)
    BY <1>1, <2>2
  <2>4. m - 1 \in 0 .. k /\ m - 1 \notin Bad
    BY <2>2, <2>3
  <2>5. Good(m - 1)
    BY <2>4
  <2>6. QED
    BY <1>2, <2>3, <2>5
<1>4. k \in 0 .. k
  OBVIOUS
<1>5. Good(k)
  BY <1>3, <1>4
<1>6. QED
  BY <1>5 DEF Good

(* Two walks that start together and take the same steps stay together.    *)
InStep(f, g, k) ==
  f[0] = g[0] /\ \A i \in 1 .. k : f[i - 1] = g[i - 1] => f[i] = g[i]

LEMMA SameWalk ==
  ASSUME NEW k \in Nat, NEW f, NEW g, InStep(f, g, k)
  PROVE  f[k] = g[k]
<1> DEFINE Bad == {i \in 0 .. k : f[i] # g[i]}
<1>1. Bad = {}
  <2> SUFFICES ASSUME Bad # {} PROVE FALSE
    OBVIOUS
  <2>1. Bad \subseteq Nat
    OBVIOUS
  <2>2. PICK m \in Bad : \A y \in Bad : m =< y
    BY <2>1, SmallestExists
  <2>3. m \in 1 .. k /\ f[m] # g[m]
    BY <2>2 DEF InStep
  <2>4. m - 1 \in 0 .. k /\ m - 1 \notin Bad
    BY <2>2, <2>3
  <2>5. f[m - 1] = g[m - 1]
    BY <2>4
  <2>6. QED
    BY <2>3, <2>5 DEF InStep
<1>2. k \in 0 .. k
  OBVIOUS
<1>3. QED
  BY <1>1, <1>2

(* The keys an event leaves pressed are keys.                              *)
LEMMA KeysAfterAreKeys ==
  ASSUME NEW keys \in SUBSET Keys, NEW e \in Event
  PROVE  KeysAfter(keys, e) \in SUBSET Keys
<1>1. CASE e[1] = "down"
  <2>1. e[2] \in Keys
    BY <1>1 DEF Event
  <2>2. QED
    BY <1>1, <2>1 DEF KeysAfter
<1>2. CASE e[1] # "down"
  BY <1>2 DEF KeysAfter
<1>3. QED
  BY <1>1, <1>2

(* The recursive functions of the model are what their definitions say.    *)
WalksOK ==
  /\ CursorAfter[0] = saved_cursor_x
  /\ \A i \in 1 .. Len(Waiting) : CursorAfter[i] = MoveTo(CursorAfter[i - 1], Waiting[i])
  /\ PressedAfter[0] = pressed
  /\ \A i \in 1 .. Len(Waiting) : PressedAfter[i] = KeysAfter(PressedAfter[i - 1], Waiting[i])

LEMMA Walks == IInv => WalksOK
<1> SUFFICES ASSUME IInv PROVE WalksOK
  OBVIOUS
<1> DEFINE k == Len(Waiting)
<1>0. RingOK /\ WaitingAreEvents
  BY DEF IInv, TypeOK, RingOK
<1>1. k \in Nat /\ \A i \in 1 .. k : Waiting[i] \in Event
  BY <1>0, WaitingFacts DEF WaitingAreEvents
<1> HIDE DEF k
<1>2. /\ CursorAfter[0] = saved_cursor_x
      /\ \A i \in 1 .. k : CursorAfter[i] = MoveTo(CursorAfter[i - 1], Waiting[i])
  <2> DEFINE S == {x \in Nat : x < screen_w}
             F == [i \in 1 .. k |-> [x \in S |-> MoveTo(x, Waiting[i])]]
  <2>1. saved_cursor_x \in S
    BY DEF IInv, TypeOK, CursorsAreOnScreen
  <2>2. \A i \in 1 .. k, x \in S : MoveTo(x, Waiting[i]) \in S
    BY <1>1, MoveToOnScreen DEF IInv, TypeOK
  <2>3. F \in [1 .. k -> [S -> S]]
    BY <2>2
  <2>4. \A i \in 1 .. k, x \in S : F[i][x] = MoveTo(x, Waiting[i])
    OBVIOUS
  <2> HIDE DEF F, S
  <2>5. PICK f \in [0 .. k -> S] : Walk(f, saved_cursor_x, k, F)
    BY <1>1, <2>1, <2>3, WalkExists
  <2>6. \A i \in 1 .. k : i - 1 \in 0 .. k /\ i \in 0 .. k /\ i # 0
    BY <1>1
  <2>7. \A i \in 1 .. k : f[i] = MoveTo(f[i - 1], Waiting[i])
    BY <2>4, <2>5, <2>6 DEF Walk
  <2>8. \A i \in 0 .. k :
          f[i] = IF i = 0 THEN saved_cursor_x ELSE MoveTo(f[i - 1], Waiting[i])
    BY <1>1, <2>5, <2>7 DEF Walk
  <2>9. f = [i \in 0 .. k |->
               IF i = 0 THEN saved_cursor_x ELSE MoveTo(f[i - 1], Waiting[i])]
    BY <2>5, <2>8
  <2>10. CursorAfter = [i \in 0 .. k |->
               IF i = 0 THEN saved_cursor_x ELSE MoveTo(CursorAfter[i - 1], Waiting[i])]
    BY <2>9 DEF CursorAfter, k
  <2>11. QED
    BY <1>1, <2>6, <2>10
<1>3. /\ PressedAfter[0] = pressed
      /\ \A i \in 1 .. k : PressedAfter[i] = KeysAfter(PressedAfter[i - 1], Waiting[i])
  <2> DEFINE S == SUBSET Keys
             F == [i \in 1 .. k |-> [x \in S |-> KeysAfter(x, Waiting[i])]]
  <2>1. pressed \in S
    BY DEF IInv, TypeOK
  <2>2. \A i \in 1 .. k, x \in S : KeysAfter(x, Waiting[i]) \in S
    BY <1>1, KeysAfterAreKeys
  <2>3. F \in [1 .. k -> [S -> S]]
    BY <2>2
  <2>4. \A i \in 1 .. k, x \in S : F[i][x] = KeysAfter(x, Waiting[i])
    OBVIOUS
  <2> HIDE DEF F, S
  <2>5. PICK f \in [0 .. k -> S] : Walk(f, pressed, k, F)
    BY <1>1, <2>1, <2>3, WalkExists
  <2>6. \A i \in 1 .. k : i - 1 \in 0 .. k /\ i \in 0 .. k /\ i # 0
    BY <1>1
  <2>7. \A i \in 1 .. k : f[i] = KeysAfter(f[i - 1], Waiting[i])
    BY <2>4, <2>5, <2>6 DEF Walk
  <2>8. \A i \in 0 .. k :
          f[i] = IF i = 0 THEN pressed ELSE KeysAfter(f[i - 1], Waiting[i])
    BY <1>1, <2>5, <2>7 DEF Walk
  <2>9. f = [i \in 0 .. k |->
               IF i = 0 THEN pressed ELSE KeysAfter(f[i - 1], Waiting[i])]
    BY <2>5, <2>8
  <2>10. PressedAfter = [i \in 0 .. k |->
               IF i = 0 THEN pressed ELSE KeysAfter(PressedAfter[i - 1], Waiting[i])]
    BY <2>9 DEF PressedAfter, k
  <2>11. QED
    BY <1>1, <2>6, <2>10
<1>4. QED
  BY <1>2, <1>3 DEF WalksOK, k

(* An event that is put in the ring is the last step of the walk.          *)
LEMMA PutWalk ==
  ASSUME IInv, WalksOK, WalksOK', NEW e \in Event, event_put(e),
         UNCHANGED <<screen_w, saved_cursor_x, pressed>>
  PROVE  /\ Full => /\ CursorAfter'[Len(Waiting')] = CursorAfter[Len(Waiting)]
                    /\ PressedAfter'[Len(Waiting')] = PressedAfter[Len(Waiting)]
         /\ ~ Full =>
              /\ CursorAfter'[Len(Waiting')] = MoveTo(CursorAfter[Len(Waiting)], e)
              /\ PressedAfter'[Len(Waiting')] = KeysAfter(PressedAfter[Len(Waiting)], e)
<1> DEFINE k == Len(Waiting)
<1>1. RingOK /\ WaitingAreEvents
  BY DEF IInv, TypeOK, RingOK
<1>2. k \in Nat /\ Waiting \in Seq(Event)
  BY <1>1, WaitingFacts
<1>3. Full <=> ~ (k < QueueSize - 1)
  <2>1. k = n /\ n \in 0 .. QueueSize - 1 /\ (Full <=> n = QueueSize - 1)
    BY <1>1, WaitingFacts, RingFacts
  <2>2. QED
    BY <2>1, QueueAssumption
<1>4. Waiting' = IF Full THEN Waiting ELSE Append(Waiting, e)
  BY <1>1, <1>3, PutAppends
<1>5. /\ Len(Waiting') = IF Full THEN k ELSE k + 1
      /\ \A i \in 1 .. k : Waiting'[i] = Waiting[i]
      /\ ~ Full => Waiting'[k + 1] = e
  <2>1. /\ Len(Append(Waiting, e)) = k + 1
        /\ \A i \in 1 .. k : Append(Waiting, e)[i] = Waiting[i]
        /\ Append(Waiting, e)[k + 1] = e
    BY <1>2
  <2>2. QED
    BY <1>4, <2>1
<1>6. \A p, v : MoveTo(p, v)' = MoveTo(p, v)
  BY DEF MoveTo, clip_abs
<1> HIDE DEF k
<1>7. \A i \in 1 .. k : i \in 1 .. Len(Waiting')
  BY <1>2, <1>5
<1>8. /\ CursorAfter'[0] = CursorAfter[0]
      /\ \A i \in 1 .. Len(Waiting') :
           /\ CursorAfter'[i] = MoveTo(CursorAfter'[i - 1], Waiting'[i])
           /\ PressedAfter'[i] = KeysAfter(PressedAfter'[i - 1], Waiting'[i])
  BY <1>6 DEF WalksOK
<1>9. InStep(CursorAfter', CursorAfter, k) /\ InStep(PressedAfter', PressedAfter, k)
  BY <1>5, <1>7, <1>8 DEF WalksOK, InStep, k
<1>10. CursorAfter'[k] = CursorAfter[k] /\ PressedAfter'[k] = PressedAfter[k]
  BY <1>2, <1>9, SameWalk
<1>11. CASE Full
  BY <1>5, <1>10, <1>11 DEF k
<1>12. CASE ~ Full
  <2>1. k + 1 \in 1 .. Len(Waiting') /\ Len(Waiting') = k + 1 /\ (k + 1) - 1 = k
    BY <1>2, <1>5, <1>12
  <2>2. /\ CursorAfter'[k + 1] = MoveTo(CursorAfter'[k], Waiting'[k + 1])
        /\ PressedAfter'[k + 1] = KeysAfter(PressedAfter'[k], Waiting'[k + 1])
    BY <1>8, <2>1
  <2>3. QED
    BY <1>5, <1>10, <1>12, <2>1, <2>2 DEF k
<1>13. QED
  BY <1>11, <1>12

(* Taking an event takes the first step of the walk.                       *)
LEMMA GetWalk ==
  ASSUME IInv, WalksOK, WalksOK', gp_ev_queue_get
  PROVE  /\ CursorAfter'[Len(Waiting')] = CursorAfter[Len(Waiting)]
         /\ PressedAfter'[Len(Waiting')] = PressedAfter[Len(Waiting)]
<1> DEFINE k == Len(Waiting')
           C == [i \in 0 .. k |-> CursorAfter[i + 1]]
           P == [i \in 0 .. k |-> PressedAfter[i + 1]]
<1>1. RingOK /\ WaitingAreEvents
  BY DEF IInv, TypeOK, RingOK
<1>2. Waiting \in Seq(Event) /\ Waiting # <<>> /\ Waiting' = Tail(Waiting)
  BY <1>1, WaitingFacts, GetTakesTheFirst DEF gp_ev_queue_get
<1>3. /\ k \in Nat
      /\ Len(Waiting) = k + 1
      /\ \A i \in 1 .. k : Waiting'[i] = Waiting[i + 1]
  BY <1>2, HeadTailProperties
<1>4. Waiting[1] = events[queue_first]
  <2>1. 1 \in 1 .. n /\ Slot(1) = queue_first
    BY <1>1, <1>3, WaitingFacts, RingFacts
  <2>2. QED
    BY <1>1, <2>1, WaitingFacts
<1>5. \A p, v : MoveTo(p, v)' = MoveTo(p, v)
  BY DEF MoveTo, clip_abs, gp_ev_queue_get
<1> HIDE DEF k
<1>6. 1 \in 1 .. Len(Waiting) /\ 1 - 1 = 0
  BY <1>3
<1>7. CursorAfter'[0] = CursorAfter[1] /\ PressedAfter'[0] = PressedAfter[1]
  BY <1>4, <1>6 DEF WalksOK, gp_ev_queue_get, UpdateKeys
<1>8. \A i \in 1 .. k : /\ i + 1 \in 1 .. Len(Waiting)
                        /\ (i + 1) - 1 = i
                        /\ i \in 0 .. k /\ i - 1 \in 0 .. k /\ (i - 1) + 1 = i
  BY <1>3
<1>9. \A i \in 1 .. k : /\ CursorAfter[i + 1] = MoveTo(CursorAfter[i], Waiting[i + 1])
                        /\ PressedAfter[i + 1] = KeysAfter(PressedAfter[i], Waiting[i + 1])
  BY <1>8 DEF WalksOK
<1>10. \A i \in 1 .. k :
         /\ CursorAfter'[i] = MoveTo(CursorAfter'[i - 1], Waiting'[i])
         /\ PressedAfter'[i] = KeysAfter(PressedAfter'[i - 1], Waiting'[i])
  BY <1>5 DEF WalksOK, k
<1>11. CursorAfter'[k] = C[k] /\ PressedAfter'[k] = P[k]
  <2>1. 0 \in 0 .. k /\ 0 + 1 = 1
    BY <1>3
  <2>2. C[0] = CursorAfter[1] /\ P[0] = PressedAfter[1]
    BY <2>1
  <2>3. \A i \in 1 .. k : /\ C[i] = CursorAfter[i + 1] /\ C[i - 1] = CursorAfter[i]
                          /\ P[i] = PressedAfter[i + 1] /\ P[i - 1] = PressedAfter[i]
    BY <1>8
  <2> HIDE DEF C, P
  <2>4. InStep(CursorAfter', C, k) /\ InStep(PressedAfter', P, k)
    BY <1>3, <1>7, <1>9, <1>10, <2>2, <2>3 DEF InStep
  <2>5. QED
    BY <1>3, <2>4, SameWalk
<1>12. k \in 0 .. k
  BY <1>3
<1>13. QED
  BY <1>3, <1>11, <1>12 DEF k

(* An event that is put back, and that changes nothing when it is taken    *)
(* again, is a step in front of the walk that goes nowhere.                *)
LEMMA PutBackWalk ==
  ASSUME IInv, WalksOK, WalksOK', queue_first # 0, gp_ev_queue_put_back,
         KeysAfter(pressed, events[returned]) = pressed
  PROVE  /\ PressedAfter'[Len(Waiting')] = PressedAfter[Len(Waiting)]
         /\ events[returned][1] \notin {"rel", "abs"} =>
              CursorAfter'[Len(Waiting')] = CursorAfter[Len(Waiting)]
<1> DEFINE k == Len(Waiting)
           e == events[returned]
           C == [i \in 0 .. k |-> CursorAfter'[i + 1]]
           P == [i \in 0 .. k |-> PressedAfter'[i + 1]]
<1>1. RingOK /\ WaitingAreEvents
  BY DEF IInv, TypeOK, RingOK
<1>2. e \in Event
  BY DEF IInv, ReturnedIsBeforeFirst, gp_ev_queue_put_back
<1>3. Waiting \in Seq(Event) /\ k \in Nat
  BY <1>1, WaitingFacts
<1>4. Waiting' = IF k < QueueSize - 1 THEN <<e>> \o Waiting ELSE Waiting
  BY <1>1, <1>2, PutBackPrepends DEF gp_ev_queue_put_back
<1>5. UNCHANGED <<screen_w, saved_cursor_x, pressed>>
  BY DEF gp_ev_queue_put_back
<1>6. \A p, v : MoveTo(p, v)' = MoveTo(p, v)
  BY <1>5 DEF MoveTo, clip_abs
<1>7. CursorAfter'[0] = CursorAfter[0] /\ PressedAfter'[0] = PressedAfter[0]
  BY <1>5 DEF WalksOK
<1>8. \A i \in 1 .. Len(Waiting') :
        /\ CursorAfter'[i] = MoveTo(CursorAfter'[i - 1], Waiting'[i])
        /\ PressedAfter'[i] = KeysAfter(PressedAfter'[i - 1], Waiting'[i])
  BY <1>6 DEF WalksOK
<1>9. \A i \in 1 .. k :
        /\ CursorAfter[i] = MoveTo(CursorAfter[i - 1], Waiting[i])
        /\ PressedAfter[i] = KeysAfter(PressedAfter[i - 1], Waiting[i])
  BY DEF WalksOK
<1>10. CASE Waiting' = Waiting
  <2>1. k = Len(Waiting')
    BY <1>10
  <2> HIDE DEF k
  <2>2. InStep(CursorAfter', CursorAfter, k) /\ InStep(PressedAfter', PressedAfter, k)
    BY <1>7, <1>8, <1>9, <1>10, <2>1 DEF InStep
  <2>3. CursorAfter'[k] = CursorAfter[k] /\ PressedAfter'[k] = PressedAfter[k]
    BY <1>3, <2>2, SameWalk
  <2>4. QED
    BY <2>1, <2>3 DEF k
<1>11. CASE Waiting' = <<e>> \o Waiting
  <2>1. /\ Len(Waiting') = k + 1
        /\ Waiting'[1] = e
        /\ \A i \in 1 .. k : Waiting'[i + 1] = Waiting[i]
    <3>1. <<e>> \in Seq(Event) /\ Len(<<e>>) = 1 /\ <<e>>[1] = e
      BY <1>2
    <3>2. /\ Len(<<e>> \o Waiting) = 1 + k
          /\ \A i \in 1 .. 1 + k :
               (<<e>> \o Waiting)[i] = IF i <= 1 THEN <<e>>[i] ELSE Waiting[i - 1]
      BY <1>3, <3>1, ConcatProperties
    <3>3. \A i \in 1 .. k : i + 1 \in 1 .. 1 + k /\ ~ (i + 1 <= 1) /\ (i + 1) - 1 = i
      BY <1>3
    <3> HIDE DEF k
    <3>4. 1 \in 1 .. 1 + k
      BY <1>3
    <3>5. QED
      BY <1>3, <1>11, <3>1, <3>2, <3>3, <3>4
  <2> HIDE DEF k, e
  <2>2. /\ 1 \in 1 .. Len(Waiting') /\ 1 - 1 = 0 /\ 0 + 1 = 1 /\ 0 \in 0 .. k /\ k \in 0 .. k
        /\ \A i \in 1 .. k : /\ i + 1 \in 1 .. Len(Waiting') /\ (i + 1) - 1 = i
                             /\ i \in 0 .. k /\ i - 1 \in 0 .. k /\ (i - 1) + 1 = i
    BY <1>3, <2>1
  <2>3. /\ CursorAfter'[1] = MoveTo(CursorAfter'[0], e)
        /\ PressedAfter'[1] = KeysAfter(PressedAfter'[0], e)
    BY <1>8, <2>1, <2>2
  <2>4. PressedAfter'[1] = PressedAfter[0]
    BY <1>7, <2>3 DEF WalksOK, e
  <2>5. \A i \in 1 .. k :
          /\ CursorAfter'[i + 1] = MoveTo(CursorAfter'[i], Waiting[i])
          /\ PressedAfter'[i + 1] = KeysAfter(PressedAfter'[i], Waiting[i])
    BY <1>8, <2>1, <2>2
  <2>6. /\ C[0] = CursorAfter'[1] /\ P[0] = PressedAfter'[1]
        /\ C[k] = CursorAfter'[Len(Waiting')] /\ P[k] = PressedAfter'[Len(Waiting')]
        /\ \A i \in 1 .. k : /\ C[i] = CursorAfter'[i + 1] /\ C[i - 1] = CursorAfter'[i]
                             /\ P[i] = PressedAfter'[i + 1] /\ P[i - 1] = PressedAfter'[i]
    BY <2>1, <2>2
  <2> HIDE DEF C, P
  <2>7. InStep(P, PressedAfter, k)
    BY <1>9, <2>4, <2>5, <2>6 DEF InStep
  <2>8. PressedAfter'[Len(Waiting')] = PressedAfter[k]
    BY <1>3, <2>6, <2>7, SameWalk
  <2>9. ASSUME e[1] \notin {"rel", "abs"}
        PROVE  CursorAfter'[Len(Waiting')] = CursorAfter[k]
    <3>1. C[0] = CursorAfter[0]
      BY <1>7, <2>3, <2>6, <2>9 DEF MoveTo
    <3>2. InStep(C, CursorAfter, k)
      BY <1>9, <2>5, <2>6, <3>1 DEF InStep
    <3>3. QED
      BY <1>3, <2>6, <3>2, SameWalk
  <2>10. QED
    BY <2>8, <2>9 DEF k, e
<1>12. QED
  BY <1>4, <1>10, <1>11

(* The event that was returned counts among the pressed keys already.      *)
ReturnedIsCounted ==
  returned # NoSlot => KeysAfter(pressed, events[returned]) = pressed

CatchUp == CursorCatchesUp /\ KeysCatchUp /\ ReturnedIsCounted

(* Nothing waits at first, and both ends have the cursor in the middle.    *)
LEMMA InitCatchUp == Init => CatchUp
<1> SUFFICES ASSUME Init PROVE CatchUp
  OBVIOUS
<1>1. IInv /\ WalksOK
  BY InitInv, Walks
<1>2. RingOK /\ WaitingAreEvents /\ n = 0
  BY <1>1 DEF IInv, TypeOK, RingOK, Init, n, gp_ev_queue_events
<1>3. Len(Waiting) = 0
  BY <1>2, WaitingFacts
<1>4. CursorCatchesUp /\ KeysCatchUp
  BY <1>1, <1>3 DEF WalksOK, CursorCatchesUp, KeysCatchUp, Init
<1>5. ReturnedIsCounted
  BY DEF Init, ReturnedIsCounted
<1>6. QED
  BY <1>4, <1>5 DEF CatchUp

(* Every push leaves the pushers' end where its event will take the        *)
(* reader's, or notes that the event was lost.                             *)
LEMMA PushCatchesUp ==
  ASSUME IInv, WalksOK, WalksOK', CatchUp, Push
  PROVE  CatchUp'
<1>0. ASSUME NEW e \in Event, event_put(e), UNCHANGED reader
      PROVE  ReturnedIsCounted'
  BY <1>0, PutKeepsReturned DEF CatchUp, ReturnedIsCounted, reader
<1>1. ASSUME NEW rx \in Rels, gp_ev_queue_push_rel(rx) PROVE CatchUp'
  <2> DEFINE e == <<"rel", rx>>
  <2>1. e \in Event
    BY DEF Event
  <2>2. event_put(e) /\ UNCHANGED <<screen_w, reader, held, keys_lost>>
    BY <1>1 DEF gp_ev_queue_push_rel
  <2>3. cursor_x' = MoveTo(cursor_x, e) /\ synced' = (synced /\ ~ Full)
    BY <1>1 DEF gp_ev_queue_push_rel, MoveTo
  <2>4. \A keys : KeysAfter(keys, e) = keys
    BY DEF KeysAfter
  <2> HIDE DEF e
  <2>5. CursorCatchesUp' /\ KeysCatchUp'
    BY <2>1, <2>2, <2>3, <2>4, PutWalk DEF CatchUp, CursorCatchesUp, KeysCatchUp, reader
  <2>6. QED
    BY <1>0, <2>1, <2>2, <2>5 DEF CatchUp
<1>2. ASSUME NEW x \in 0 .. screen_w, gp_ev_queue_push_rel_to(x)
      PROVE  x - cursor_x \in Rels /\ gp_ev_queue_push_rel(x - cursor_x)
  <2>1. screen_w \in Nat /\ cursor_x \in Nat /\ cursor_x < screen_w /\ screen_w \in Widths
    BY WidthIsPositive DEF IInv, TypeOK, CursorsAreOnScreen
  <2>2. x - cursor_x \in (1 - screen_w) .. screen_w
    BY <2>1
  <2>3. QED
    BY <1>2, <2>1, <2>2, QueueAssumption DEF gp_ev_queue_push_rel_to
<1>3. ASSUME NEW x \in 0 .. AbsMax, gp_ev_queue_push_abs(x) PROVE CatchUp'
  <2> DEFINE e == <<"abs", x>>
  <2>1. e \in Event
    BY DEF Event
  <2>2. event_put(e) /\ UNCHANGED <<screen_w, reader, held, keys_lost>>
    BY <1>3 DEF gp_ev_queue_push_abs
  <2>3. synced' = (~ Full) /\ \A p : MoveTo(p, e) = cursor_x'
    BY <1>3 DEF gp_ev_queue_push_abs, MoveTo
  <2>4. \A keys : KeysAfter(keys, e) = keys
    BY DEF KeysAfter
  <2> HIDE DEF e
  <2>5. CursorCatchesUp' /\ KeysCatchUp'
    BY <2>1, <2>2, <2>3, <2>4, PutWalk DEF CatchUp, CursorCatchesUp, KeysCatchUp, reader
  <2>6. QED
    BY <1>0, <2>1, <2>2, <2>5 DEF CatchUp
<1>4. ASSUME NEW k \in Keys, NEW code \in {"down", "up"}, gp_ev_queue_push_key(k, code)
      PROVE  CatchUp'
  <2> DEFINE e == <<code, k>>
  <2>1. e \in Event
    BY DEF Event
  <2>2. event_put(e) /\ UNCHANGED <<screen_w, cursor_x, reader, synced>>
    BY <1>4 DEF gp_ev_queue_push_key
  <2>3. held' = KeysAfter(held, e) /\ keys_lost' = (keys_lost \/ Full)
    BY <1>4 DEF gp_ev_queue_push_key, KeysAfter
  <2>4. \A p : MoveTo(p, e) = p
    BY DEF MoveTo
  <2> HIDE DEF e
  <2>5. CursorCatchesUp' /\ KeysCatchUp'
    BY <2>1, <2>2, <2>3, <2>4, PutWalk DEF CatchUp, CursorCatchesUp, KeysCatchUp, reader
  <2>6. QED
    BY <1>0, <2>1, <2>2, <2>5 DEF CatchUp
<1>5. CASE gp_ev_queue_push
  <2> DEFINE e == <<"other", 0>>
  <2>1. e \in Event
    BY DEF Event
  <2>2. event_put(e) /\ UNCHANGED <<screen_w, cursor_x, reader, held, keys_lost, synced>>
    BY <1>5 DEF gp_ev_queue_push
  <2>3. \A p : MoveTo(p, e) = p /\ KeysAfter(p, e) = p
    BY DEF MoveTo, KeysAfter
  <2> HIDE DEF e
  <2>4. CursorCatchesUp' /\ KeysCatchUp'
    BY <2>1, <2>2, <2>3, PutWalk DEF CatchUp, CursorCatchesUp, KeysCatchUp, reader
  <2>5. QED
    BY <1>0, <2>1, <2>2, <2>4 DEF CatchUp
<1>6. QED
  BY <1>1, <1>2, <1>3, <1>4, <1>5 DEF Push

(* A step that leaves the ring and the keys alone and either notes that    *)
(* the two cursors parted, or finds nothing waiting and has them together. *)
LEMMA WarpCatchesUp ==
  ASSUME IInv, WalksOK, WalksOK', CatchUp,
         UNCHANGED <<ring, pressed, returned, held, keys_lost>>,
         synced' => queue_first = queue_last /\ saved_cursor_x' = cursor_x'
  PROVE  CatchUp'
<1> DEFINE k == Len(Waiting)
<1>1. RingOK /\ WaitingAreEvents
  BY DEF IInv, TypeOK, RingOK
<1>2. k \in Nat /\ (queue_first = queue_last <=> k = 0)
  BY <1>1, WaitingFacts, RingFacts
<1>3. Waiting' = Waiting
  BY SameRingSameWaiting
<1> HIDE DEF k
<1>4. PressedAfter'[k] = PressedAfter[k]
  <2>1. InStep(PressedAfter', PressedAfter, k)
    BY <1>3 DEF InStep, WalksOK, k
  <2>2. QED
    BY <1>2, <2>1, SameWalk
<1>5. CursorCatchesUp'
  BY <1>2, <1>3 DEF WalksOK, CursorCatchesUp, k
<1>6. KeysCatchUp'
  BY <1>3, <1>4 DEF CatchUp, KeysCatchUp, k
<1>7. ReturnedIsCounted'
  BY DEF CatchUp, ReturnedIsCounted, ring
<1>8. QED
  BY <1>5, <1>6, <1>7 DEF CatchUp

(* No step leaves an end behind.                                           *)
LEMMA CatchUpStep == IInv /\ WalksOK /\ WalksOK' /\ CatchUp /\ [Next]_vars => CatchUp'
<1> SUFFICES ASSUME IInv, WalksOK, WalksOK', CatchUp, [Next]_vars PROVE CatchUp'
  OBVIOUS
<1>1. CASE Push
  BY <1>1, PushCatchesUp
<1>2. CASE gp_ev_queue_get
  <2>1. CursorCatchesUp' /\ KeysCatchUp'
    BY <1>2, GetWalk DEF CatchUp, CursorCatchesUp, KeysCatchUp, gp_ev_queue_get
  <2>2. ReturnedIsCounted'
    BY <1>2 DEF ReturnedIsCounted, gp_ev_queue_get, UpdateKeys, KeysAfter
  <2>3. QED
    BY <2>1, <2>2 DEF CatchUp
<1>3. CASE queue_first # 0 /\ gp_ev_queue_put_back
  <2>1. KeysAfter(pressed, events[returned]) = pressed
    BY <1>3 DEF CatchUp, ReturnedIsCounted, gp_ev_queue_put_back
  <2>2. CursorCatchesUp' /\ KeysCatchUp'
    BY <1>3, <2>1, PutBackWalk DEF CatchUp, CursorCatchesUp, KeysCatchUp, gp_ev_queue_put_back
  <2>3. ReturnedIsCounted'
    BY <1>3 DEF ReturnedIsCounted, gp_ev_queue_put_back
  <2>4. QED
    BY <2>2, <2>3 DEF CatchUp
<1>4. ASSUME NEW w \in Widths, gp_ev_queue_set_screen_size(w) PROVE CatchUp'
  <2>1. UNCHANGED <<ring, pressed, returned, held, keys_lost>>
    BY <1>4 DEF gp_ev_queue_set_screen_size
  <2>2. ASSUME synced' PROVE queue_first = queue_last /\ saved_cursor_x' = cursor_x'
    <3>1. synced /\ queue_first = queue_last
      BY <1>4, <2>2 DEF gp_ev_queue_set_screen_size
    <3>2. Len(Waiting) = 0
      BY <3>1, WaitingFacts, RingFacts DEF IInv, TypeOK, RingOK
    <3>3. saved_cursor_x = cursor_x
      BY <3>1, <3>2 DEF CatchUp, CursorCatchesUp, WalksOK
    <3>4. QED
      BY <1>4, <3>1, <3>3 DEF gp_ev_queue_set_screen_size
  <2>3. QED
    BY <2>1, <2>2, WarpCatchesUp
<1>5. ASSUME NEW x \in 0 .. screen_w - 1, gp_ev_queue_set_cursor_pos(x) PROVE CatchUp'
  BY <1>5, WarpCatchesUp DEF gp_ev_queue_set_cursor_pos
<1>6. CASE UNCHANGED vars
  <2>1. /\ UNCHANGED <<ring, screen_w, saved_cursor_x, pressed, returned>>
        /\ UNCHANGED <<cursor_x, held, keys_lost, synced>>
    BY <1>6 DEF vars
  <2>2. Waiting' = Waiting
    BY <2>1, SameRingSameWaiting
  <2>3. CursorAfter' = CursorAfter /\ PressedAfter' = PressedAfter
    BY <2>1, <2>2 DEF CursorAfter, PressedAfter, MoveTo, clip_abs
  <2>4. QED
    BY <2>1, <2>2, <2>3 DEF CatchUp, CursorCatchesUp, KeysCatchUp, ReturnedIsCounted, ring
<1>7. QED
  BY <1>1, <1>2, <1>3, <1>4, <1>5, <1>6 DEF Next, Operations

(* Along every behaviour both ends of the queue agree on where the waiting *)
(* events lead to.                                                         *)
THEOREM BothEndsAgree == Spec => []CatchUp
<1>1. IInv => WalksOK
  BY Walks
<1>2. IInv' => WalksOK'
  BY <1>1, PTL
<1>3. IInv /\ IInv' /\ CatchUp /\ [Next]_vars => CatchUp'
  BY <1>1, <1>2, CatchUpStep
<1>4. QED
  BY <1>3, InitCatchUp, InductiveInvariant, PTL DEF Spec

(* Once the waiting events are taken out the reader's cursor is where the  *)
(* drivers moved it to, unless something parted the two on the way.        *)
THEOREM CursorsMeet == Spec => []CursorCatchesUp
BY BothEndsAgree, PTL DEF CatchUp

(* And the keys it sees pressed are those that are held down, as long as   *)
(* no key's event met a full ring.                                         *)
THEOREM KeysMeet == Spec => []KeysCatchUp
BY BothEndsAgree, PTL DEF CatchUp

=============================================================================
