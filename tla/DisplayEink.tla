------------------------------ MODULE DisplayEink ------------------------------
(***************************************************************************)
(* The asynchronous repaint of e-ink displays,                             *)
(* libs/backends/linux/gp_display_eink.c.  Any thread may ask for a        *)
(* repaint; one repaint runs at a time, takes seconds and ends with an     *)
(* edge on the busy line, which the thread that polls handles.  What is    *)
(* asked for meanwhile is merged and waits.  Each function but eink_exit() *)
(* runs under repaint_lock, as one action.                                 *)
(*                                                                         *)
(* Rectangles are modelled on one axis: the code treats y as it treats x.  *)
(* A driver sends the contents of the rectangle when it starts a repaint.  *)
(***************************************************************************)
EXTENDS Integers

CONSTANTS
  Width         \* of the display, whose columns are 0 .. Width - 1

ASSUME WidthAssumption == Width \in Nat /\ Width >= 1

Columns == 0 .. Width - 1

VARIABLES
  part_cnt, full_in_progress, part_in_progress, do_full, do_part, exitting, x0, x1,
  hw,           \* the display: "ready", "busy", or "edge" for an edge not yet read
  main,         \* the polling thread: "run", in eink_exit(), or "exited"
  unsent,       \* auxiliary: columns an update was asked for, and whose contents
                \* were not sent since
  in_a_row      \* auxiliary: partial repaints started since the last full one

requests == <<do_full, do_part, x0, x1>>
vars == <<part_cnt, full_in_progress, part_in_progress, requests, exitting, hw, main,
          unsent, in_a_row>>

Init ==
  /\ part_cnt = 0
  /\ full_in_progress = FALSE
  /\ part_in_progress = FALSE
  /\ do_full = FALSE
  /\ do_part = FALSE
  /\ exitting = FALSE
  /\ x0 = 0 /\ x1 = 0
  /\ hw = "ready"
  /\ main = "run"
  /\ unsent = {}
  /\ in_a_row = 0

-----------------------------------------------------------------------------
(* Mutated forms of the definitions below.                                 *)

(* Only a full repaint keeps the display from starting another.            *)
OnlyFullCounts == ~ full_in_progress

(* The full repaint comes after six partial ones.                          *)
SixInARow == part_cnt > 5

(* A queued rectangle is replaced by the next one.                         *)
LastRectWins(a, b) == x0' = a /\ x1' = b

(* While exiting, the handler only reads the edge.                         *)
FlushStopsOnExit ==
  /\ hw = "edge" /\ main # "exited"
  /\ exitting
  /\ hw' = "ready"
  /\ UNCHANGED <<part_cnt, full_in_progress, part_in_progress, requests, exitting, main,
                 unsent, in_a_row>>

-----------------------------------------------------------------------------
can_start_repaint == ~ (full_in_progress \/ part_in_progress)

(* eink->repaint_full_start(), eink->repaint_part_start().                 *)
FullStart ==
  /\ hw' = "busy"
  /\ unsent' = {}
  /\ in_a_row' = 0

PartStart(a, b, want) ==
  /\ hw' = "busy"
  /\ unsent' = want \ (a .. b)
  /\ in_a_row' = in_a_row + 1

QueueOnly(want) ==
  /\ unsent' = want
  /\ UNCHANGED <<hw, in_a_row>>

schedule_full_repaint(want) ==
  IF can_start_repaint
  THEN /\ FullStart
       /\ full_in_progress' = TRUE
       /\ UNCHANGED requests
  ELSE /\ do_full' = TRUE
       /\ do_part' = FALSE
       /\ QueueOnly(want)
       /\ UNCHANGED <<full_in_progress, x0, x1>>

gp_display_eink_update ==
  /\ main = "run"
  /\ schedule_full_repaint(Columns)
  /\ UNCHANGED <<part_cnt, part_in_progress, exitting, main>>

Least(a, b) == IF a < b THEN a ELSE b
Greatest(a, b) == IF a > b THEN a ELSE b

MergeRect(a, b) == x0' = Least(x0, a) /\ x1' = Greatest(x1, b)

TooManyInARow == part_cnt >= 5

gp_display_eink_update_rect(a, b) ==
  LET want == unsent \cup (a .. b) IN
  /\ main = "run"
  /\ UNCHANGED <<exitting, main>>
  /\ \/ /\ TooManyInARow
        /\ part_cnt' = 0
        /\ schedule_full_repaint(want)
        /\ UNCHANGED part_in_progress
     \/ /\ ~ TooManyInARow /\ can_start_repaint
        /\ part_cnt' = part_cnt + 1
        /\ PartStart(a, b, want)
        /\ part_in_progress' = TRUE
        /\ UNCHANGED <<full_in_progress, requests>>
     \/ /\ ~ TooManyInARow /\ ~ can_start_repaint
        /\ \/ do_full /\ UNCHANGED requests
           \/ ~ do_full /\ do_part /\ MergeRect(a, b) /\ UNCHANGED <<do_full, do_part>>
           \/ ~ do_full /\ ~ do_part /\ do_part' = TRUE /\ x0' = a /\ x1' = b /\ UNCHANGED do_full
        /\ QueueOnly(want)
        /\ UNCHANGED <<part_cnt, full_in_progress, part_in_progress>>

(* The display is done repainting.                                         *)
RepaintDone ==
  /\ hw = "busy"
  /\ hw' = "edge"
  /\ UNCHANGED <<part_cnt, full_in_progress, part_in_progress, requests, exitting, main,
                 unsent, in_a_row>>

FinishedCount == IF full_in_progress THEN 0 ELSE part_cnt

(* Called by the poll when the edge came.                                  *)
flush_queued_repaints ==
  /\ hw = "edge" /\ main # "exited"
  /\ UNCHANGED <<exitting, main, x0, x1>>
  /\ \/ /\ ~ exitting /\ do_full
        /\ do_full' = FALSE
        /\ FullStart
        /\ full_in_progress' = TRUE
        /\ part_in_progress' = FALSE
        /\ part_cnt' = FinishedCount
        /\ UNCHANGED do_part
     \/ /\ ~ exitting /\ ~ do_full /\ do_part
        /\ do_part' = FALSE
        /\ PartStart(x0, x1, unsent)
        /\ full_in_progress' = FALSE
        /\ part_in_progress' = TRUE
        /\ part_cnt' = FinishedCount + 1
        /\ UNCHANGED do_full
     \/ /\ exitting \/ (~ do_full /\ ~ do_part)
        /\ hw' = "ready"
        /\ full_in_progress' = FALSE
        /\ part_in_progress' = FALSE
        /\ part_cnt' = FinishedCount
        /\ UNCHANGED <<do_full, do_part, unsent, in_a_row>>

(* eink_exit(), called by the thread that polls, when no other thread uses *)
(* the display any more: at once, or polling until the repaint finished.   *)
eink_exit ==
  /\ main = "run"
  /\ IF can_start_repaint THEN main' = "exited" /\ UNCHANGED exitting
                          ELSE main' = "exiting" /\ exitting' = TRUE
  /\ UNCHANGED <<part_cnt, full_in_progress, part_in_progress, requests, hw, unsent, in_a_row>>

ExitWhenFinished ==
  /\ main = "exiting"
  /\ can_start_repaint
  /\ main' = "exited"
  /\ UNCHANGED <<part_cnt, full_in_progress, part_in_progress, requests, exitting, hw, unsent,
                 in_a_row>>

Next ==
  \/ gp_display_eink_update
  \/ \E a, b \in Columns : a <= b /\ gp_display_eink_update_rect(a, b)
  \/ RepaintDone
  \/ flush_queued_repaints
  \/ eink_exit
  \/ ExitWhenFinished

(* A repaint takes a bounded time, and the main loop polls, in eink_exit() *)
(* too; nobody has to ask for repaints or for the exit.                    *)
Fairness ==
  /\ WF_vars(RepaintDone)
  /\ WF_vars(flush_queued_repaints)
  /\ WF_vars(ExitWhenFinished)

Spec == Init /\ [][Next]_vars
FairSpec == Spec /\ Fairness

-----------------------------------------------------------------------------
TypeOK ==
  /\ part_cnt \in 0 .. 5
  /\ full_in_progress \in BOOLEAN /\ part_in_progress \in BOOLEAN
  /\ do_full \in BOOLEAN /\ do_part \in BOOLEAN /\ exitting \in BOOLEAN
  /\ x0 \in Columns /\ x1 \in Columns
  /\ hw \in {"ready", "busy", "edge"}
  /\ main \in {"run", "exiting", "exited"}
  /\ unsent \subseteq Columns
  /\ in_a_row \in Nat

(* No update is lost: what was asked for and not sent is in the rectangle  *)
(* to be sent next, or a full repaint is, and a repaint is under way whose *)
(* end will start that one.                                                *)
Queued == IF do_full THEN Columns ELSE IF do_part THEN x0 .. x1 ELSE {}
UnsentIsQueued ==
  /\ unsent \subseteq Queued
  /\ main = "run" /\ (do_full \/ do_part) => ~ can_start_repaint

(* The display is told to repaint only when it is not repainting, and the  *)
(* flags say what it does, whichever thread asked for it.                  *)
ProgressIsAccurate ==
  /\ ~ (full_in_progress /\ part_in_progress)
  /\ can_start_repaint <=> hw = "ready"

(* The display is not shut down in the middle of a repaint.                *)
ExitsWhenIdle == main = "exited" => hw = "ready"

(* A full repaint cleans the display up after five partial ones in a row,  *)
(* requests that wait and merge included.                                  *)
AtMostFiveInARow == in_a_row <= 5

(* Whatever else is asked for, what an update asked for is sent.           *)
UpdatesAreSent == \A c \in Columns : c \in unsent ~> (c \notin unsent \/ main # "run")

(* eink_exit() returns.                                                    *)
ExitReturns == main = "exiting" ~> main = "exited"

=============================================================================
