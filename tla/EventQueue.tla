------------------------------ MODULE EventQueue ------------------------------
(***************************************************************************)
(* The event queue of libs/input/gp_event_queue.c: a ring of queue_size    *)
(* slots, one of which stays empty, between the drivers that push events   *)
(* and the program that gets them, and the state of the input devices that *)
(* is kept at each end: cursor_x moves when an event is pushed,            *)
(* saved_cursor_x and the pressed keys when it is taken out.               *)
(*                                                                         *)
(* The cursor is modelled on one axis: the code treats y as it treats x.   *)
(* Events that concern neither keys nor this axis are "other": absolute    *)
(* events with x_max zero, events of the system, timers and the keys' own  *)
(* repeat.  No keymap is loaded.                                           *)
(***************************************************************************)
EXTENDS Integers, Sequences

CONSTANTS
  QueueSize,    \* self->queue_size
  Keys,
  Rels,         \* the relative moves there are
  AbsMax,       \* x_max of absolute events, whose x is in 0 .. AbsMax
  Widths        \* the widths the screen may have

ASSUME QueueAssumption ==
  /\ QueueSize \in Nat /\ QueueSize >= 2
  /\ Rels \subseteq Int /\ \A w \in Widths : (1 - w) .. w \subseteq Rels
  /\ AbsMax \in Nat /\ AbsMax >= 1
  /\ Widths # {} /\ Widths \subseteq Nat \ {0}

Slots == 0 .. QueueSize - 1
Event ==
  ({"down", "up"} \X Keys) \cup ({"rel"} \X Rels) \cup ({"abs"} \X (0 .. AbsMax))
  \cup {<<"other", 0>>}

NoEvent == <<"none", 0>>
NoSlot == -1

VARIABLES
  events, queue_first, queue_last,     \* the ring
  screen_w,
  cursor_x,                            \* where the last event pushed leads to
  saved_cursor_x, state_cursor_x,      \* where the last event taken out did
  pressed,                             \* state.keys_pressed
  returned,                            \* the slot last handed to the program
  \* Auxiliary variables: what the drivers know.
  held,                                \* keys that are down
  keys_lost,                           \* a key's event was dropped
  synced                               \* nothing parted the two cursors since
                                       \* the last absolute event was pushed

ring == <<events, queue_first, queue_last>>
vars == <<ring, screen_w, cursor_x, saved_cursor_x, state_cursor_x, pressed, returned,
          held, keys_lost, synced>>

Init ==
  /\ events = [s \in Slots |-> NoEvent]
  /\ queue_first = 0
  /\ queue_last = 0
  /\ screen_w \in Widths
  /\ cursor_x = screen_w \div 2
  /\ saved_cursor_x = screen_w \div 2
  /\ state_cursor_x = 0
  /\ pressed = {}
  /\ returned = NoSlot
  /\ held = {}
  /\ keys_lost = FALSE
  /\ synced = TRUE

NextSlot(s) == (s + 1) % QueueSize

-----------------------------------------------------------------------------
(* Mutated forms of the definitions below.                                 *)

(* The ring is full when it has no slot left, not one.                     *)
FullWhenWrapped(e) ==
  /\ events' = [events EXCEPT ![queue_last] = e]
  /\ queue_last' = NextSlot(queue_last)
  /\ UNCHANGED queue_first

(* An event for a full ring replaces the oldest one.                       *)
DropsOldest(e) ==
  /\ events' = [events EXCEPT ![queue_last] = e]
  /\ queue_last' = NextSlot(queue_last)
  /\ queue_first' = IF NextSlot(queue_last) = queue_first
                    THEN NextSlot(queue_first) ELSE queue_first

(* The cursor may stand right behind the last column.                      *)
ClipsBehind(val, max, rel) ==
  IF rel < 0 THEN IF val < -rel THEN 0 ELSE val + rel
  ELSE IF val + rel >= max THEN max ELSE val + rel

(* Releases are not looked for.                                            *)
PressesOnly(e) ==
  pressed' = IF e[1] = "down" THEN pressed \cup {e[2]} ELSE pressed

-----------------------------------------------------------------------------
Full == NextSlot(queue_last) = queue_first

(* Where a full ring and one that is about to wrap meet, the slot before   *)
(* queue_first is left alone: the program may still read it.               *)
event_put(e) ==
  IF Full THEN UNCHANGED ring
  ELSE /\ events' = [events EXCEPT ![queue_last] = e]
       /\ queue_last' = NextSlot(queue_last)
       /\ UNCHANGED queue_first

clip_rel(val, max, rel) ==
  IF rel < 0 THEN IF val < -rel THEN 0 ELSE val + rel
  ELSE IF val + rel >= max THEN max - 1 ELSE val + rel

clip_abs(x) == (x * (screen_w - 1)) \div AbsMax

reader == <<saved_cursor_x, state_cursor_x, pressed, returned>>

(* The cursor moves even when there is no room for the event.              *)
gp_ev_queue_push_rel(rx) ==
  /\ cursor_x' = clip_rel(cursor_x, screen_w, rx)
  /\ event_put(<<"rel", rx>>)
  /\ synced' = (synced /\ ~ Full)
  /\ UNCHANGED <<screen_w, reader, held, keys_lost>>

gp_ev_queue_push_rel_to(x) ==
  /\ x <= screen_w
  /\ x # cursor_x
  /\ gp_ev_queue_push_rel(x - cursor_x)

(* Mutated form: only the reader moves the cursor.                         *)
AbsForgetsCursor(x) ==
  /\ event_put(<<"abs", x>>)
  /\ synced' = ~ Full
  /\ UNCHANGED <<screen_w, cursor_x, reader, held, keys_lost>>

gp_ev_queue_push_abs(x) ==
  /\ cursor_x' = clip_abs(x)
  /\ event_put(<<"abs", x>>)
  /\ synced' = ~ Full
  /\ UNCHANGED <<screen_w, reader, held, keys_lost>>

gp_ev_queue_push_key(k, code) ==
  /\ event_put(<<code, k>>)
  /\ held' = IF code = "down" THEN held \cup {k} ELSE held \ {k}
  /\ keys_lost' = (keys_lost \/ Full)
  /\ UNCHANGED <<screen_w, cursor_x, reader, synced>>

(* gp_ev_queue_push(), _push_resize(), _push_pixel_type() and _put().      *)
gp_ev_queue_push ==
  /\ event_put(<<"other", 0>>)
  /\ UNCHANGED <<screen_w, cursor_x, reader, held, keys_lost, synced>>

(* The keys that are pressed once an event is taken out.                   *)
KeysAfter(keys, e) ==
  CASE e[1] = "down" -> keys \cup {e[2]}
    [] e[1] = "up" -> keys \ {e[2]}
    [] OTHER -> keys

UpdateKeys(e) == pressed' = KeysAfter(pressed, e)

(* The position an event that is taken out moves the cursor to.            *)
MoveTo(pos, e) ==
  CASE e[1] = "rel" -> clip_rel(pos, screen_w, e[2])
    [] e[1] = "abs" -> clip_abs(e[2])
    [] OTHER -> pos

gp_ev_queue_get ==
  /\ queue_first # queue_last
  /\ queue_first' = NextSlot(queue_first)
  /\ UpdateKeys(events[queue_first])
  /\ saved_cursor_x' = MoveTo(saved_cursor_x, events[queue_first])
  /\ state_cursor_x' = saved_cursor_x'
  /\ returned' = queue_first
  /\ UNCHANGED <<events, queue_last, screen_w, cursor_x, held, keys_lost, synced>>

(* Below slot 0 the ring goes on at its end, but the code goes on at       *)
(* queue_last.  (A slot below zero stands for one outside of the array.)   *)
PrevSlot == IF queue_first = 0 THEN queue_last - 1 ELSE queue_first - 1

(* The program puts the event back that it got last.                       *)
gp_ev_queue_put_back ==
  /\ returned # NoSlot
  /\ IF PrevSlot = queue_last THEN UNCHANGED ring
     ELSE /\ events' = [events EXCEPT ![PrevSlot] = events[returned]]
          /\ queue_first' = PrevSlot
          /\ UNCHANGED queue_last
  /\ returned' = NoSlot
  /\ synced' = (synced /\ events[returned][1] \notin {"rel", "abs"})
  /\ UNCHANGED <<screen_w, cursor_x, saved_cursor_x, state_cursor_x, pressed, held,
                 keys_lost>>

ClipTo(x, w) == IF x >= w THEN w - 1 ELSE x

gp_ev_queue_set_screen_size(w) ==
  /\ screen_w' = w
  /\ saved_cursor_x' = ClipTo(saved_cursor_x, w)
  /\ cursor_x' = ClipTo(cursor_x, w)
  /\ synced' = (synced /\ queue_first = queue_last)
  /\ UNCHANGED <<ring, state_cursor_x, pressed, returned, held, keys_lost>>

gp_ev_queue_set_cursor_pos(x) ==
  /\ x < screen_w
  /\ cursor_x' = x
  /\ saved_cursor_x' = x
  /\ synced' = (queue_first = queue_last)
  /\ UNCHANGED <<ring, screen_w, state_cursor_x, pressed, returned, held, keys_lost>>

Push ==
  \/ \E rx \in Rels : gp_ev_queue_push_rel(rx)
  \/ \E x \in 0 .. screen_w : gp_ev_queue_push_rel_to(x)
  \/ \E x \in 0 .. AbsMax : gp_ev_queue_push_abs(x)
  \/ \E k \in Keys, code \in {"down", "up"} : gp_ev_queue_push_key(k, code)
  \/ gp_ev_queue_push

Operations ==
  \/ Push
  \/ gp_ev_queue_get
  \/ \E w \in Widths : gp_ev_queue_set_screen_size(w)
  \/ \E x \in 0 .. screen_w - 1 : gp_ev_queue_set_cursor_pos(x)

(* A program that puts events back except at the start of the array: there *)
(* event_put_back() takes the slot before queue_last, not the last one.    *)
Next ==
  \/ Operations
  \/ queue_first # 0 /\ gp_ev_queue_put_back

Spec == Init /\ [][Next]_vars

-----------------------------------------------------------------------------
gp_ev_queue_events ==
  IF queue_first <= queue_last THEN queue_last - queue_first
  ELSE QueueSize - (queue_first - queue_last)

(* The slot of the i-th waiting event.                                     *)
Slot(i) ==
  IF queue_first + i - 1 < QueueSize THEN queue_first + i - 1
  ELSE queue_first + i - 1 - QueueSize

Waiting == [i \in 1 .. gp_ev_queue_events |-> events[Slot(i)]]

TypeOK ==
  /\ events \in [Slots -> Event \cup {NoEvent}]
  /\ queue_first \in Slots /\ queue_last \in Slots
  /\ screen_w \in Widths
  /\ cursor_x \in Nat /\ saved_cursor_x \in Nat /\ state_cursor_x \in Nat
  /\ pressed \subseteq Keys /\ held \subseteq Keys
  /\ returned \in Slots \cup {NoSlot}
  /\ keys_lost \in BOOLEAN /\ synced \in BOOLEAN

(* Whatever is pushed, dropped or resized with events still waiting, both  *)
(* cursors are on the screen, where gp_ev_queue_set_cursor_pos() takes     *)
(* positions from and the backends draw them.                              *)
CursorsAreOnScreen == cursor_x < screen_w /\ saved_cursor_x < screen_w

(* The ring implements a FIFO that drops what does not fit.                *)
Fifo == INSTANCE EventFifo WITH waiting <- Waiting, Capacity <- QueueSize - 1
ImplementsFifo == Fifo!Spec

(* "The pointer is valid until next call to gp_ev_queue_get()" and         *)
(* "is also invalidated by a call to gp_ev_queue_put_back()", not by the   *)
(* events that are pushed meanwhile, a full ring included.                 *)
ReturnedEventIsStable ==
  [][returned # NoSlot /\ returned' = returned =>
       events'[returned] = events[returned]]_vars

(* What the reader's end will be when i of the waiting events are taken.   *)
CursorAfter[i \in 0 .. Len(Waiting)] ==
  IF i = 0 THEN saved_cursor_x ELSE MoveTo(CursorAfter[i - 1], Waiting[i])

PressedAfter[i \in 0 .. Len(Waiting)] ==
  IF i = 0 THEN pressed ELSE KeysAfter(PressedAfter[i - 1], Waiting[i])

(* The reader's end catches up with the pushers': when the waiting events  *)
(* are taken out the cursor will be where the drivers moved it to, unless  *)
(* an event was lost, the screen was resized or the cursor warped in       *)
(* between, and the next absolute event mends that.                        *)
CursorCatchesUp == synced => CursorAfter[Len(Waiting)] = cursor_x

(* The keys a program will see pressed then are those that are held down.  *)
KeysCatchUp == ~ keys_lost => PressedAfter[Len(Waiting)] = held

=============================================================================
