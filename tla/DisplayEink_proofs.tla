-------------------------- MODULE DisplayEink_proofs --------------------------
(***************************************************************************)
(* Proofs about the asynchronous repaint of e-ink displays, for a display  *)
(* of any width and any number of threads that ask for repaints.           *)
(***************************************************************************)
EXTENDS DisplayEink, TLAPS

(* What the safety properties need in addition to be inductive: a queued   *)
(* rectangle waits behind no full repaint and leaves room for its own      *)
(* partial repaint, and once the counter was reset early, a full repaint   *)
(* is queued or running.                                                   *)
CountIsHonest ==
  /\ do_part => ~ do_full /\ part_cnt < 5
  /\ in_a_row <= part_cnt \/ do_full
  /\ full_in_progress => in_a_row = 0
  /\ main = "run" => ~ exitting

IInv ==
  /\ TypeOK
  /\ UnsentIsQueued
  /\ ProgressIsAccurate
  /\ ExitsWhenIdle
  /\ AtMostFiveInARow
  /\ CountIsHonest

(* The inductive invariant holds when the display was initialised.         *)
LEMMA InitInv == Init => IInv
<1> SUFFICES ASSUME Init PROVE IInv
  OBVIOUS
<1> USE DEF Init
<1>1. TypeOK
  <2>1. 0 \in Columns /\ unsent \subseteq Columns
    BY WidthAssumption DEF Columns
  <2>2. part_cnt \in 0 .. 5 /\ in_a_row \in Nat
    OBVIOUS
  <2> QED  BY <2>1, <2>2, Zenon DEF TypeOK
<1>2. UnsentIsQueued /\ ProgressIsAccurate
  BY DEF UnsentIsQueued, Queued, ProgressIsAccurate, can_start_repaint
<1>3. ExitsWhenIdle /\ AtMostFiveInARow /\ CountIsHonest
  BY DEF ExitsWhenIdle, AtMostFiveInARow, CountIsHonest
<1> QED  BY <1>1, <1>2, <1>3 DEF IInv

(* gp_display_eink_update() keeps the inductive invariant.                 *)
LEMMA UpdateInv == IInv /\ gp_display_eink_update => IInv'
<1> SUFFICES ASSUME IInv, gp_display_eink_update PROVE IInv'
  OBVIOUS
<1> USE DEF IInv, gp_display_eink_update, schedule_full_repaint, can_start_repaint, FullStart,
            QueueOnly, requests
<1>1. TypeOK'
  <2>1. part_cnt' \in 0 .. 5 /\ in_a_row' \in Nat
    BY DEF TypeOK
  <2>2. unsent' \subseteq Columns
    BY DEF TypeOK
  <2> QED  BY <2>1, <2>2 DEF TypeOK
<1>2. UnsentIsQueued'
  BY DEF UnsentIsQueued, Queued, TypeOK
<1>3. ProgressIsAccurate'
  BY DEF ProgressIsAccurate, TypeOK
<1>4. ExitsWhenIdle' /\ AtMostFiveInARow' /\ CountIsHonest'
  BY DEF ExitsWhenIdle, AtMostFiveInARow, CountIsHonest, TypeOK
<1> QED  BY <1>1, <1>2, <1>3, <1>4

(* The smallest interval around two intervals has the columns of both, and *)
(* is on the display if they are.                                          *)
LEMMA MergeCovers ==
  ASSUME NEW a \in Columns, NEW b \in Columns, NEW c \in Columns, NEW d \in Columns
  PROVE  /\ Least(a, c) \in Columns /\ Greatest(b, d) \in Columns
         /\ a .. b \subseteq Least(a, c) .. Greatest(b, d)
         /\ c .. d \subseteq Least(a, c) .. Greatest(b, d)
  BY WidthAssumption DEF Columns, Least, Greatest

(* gp_display_eink_update_rect() keeps the inductive invariant.            *)
LEMMA UpdateRectInv ==
  ASSUME IInv, NEW a \in Columns, NEW b \in Columns, gp_display_eink_update_rect(a, b)
  PROVE  IInv'
<1> DEFINE want == unsent \cup (a .. b)
<1> USE DEF IInv
<1>w. a .. b \subseteq Columns /\ want \subseteq Columns
  BY WidthAssumption DEF Columns, TypeOK
<1>u. main = "run" /\ UNCHANGED <<exitting, main>>
  BY DEF gp_display_eink_update_rect
<1>1. CASE TooManyInARow
  <2>1. /\ part_cnt' = 0
        /\ schedule_full_repaint(want)
        /\ UNCHANGED part_in_progress
    BY <1>1 DEF gp_display_eink_update_rect
  <2> HIDE DEF want
  <2> USE <1>u, <1>w, <2>1 DEF schedule_full_repaint, can_start_repaint, FullStart, QueueOnly, requests
  <2>2. TypeOK'
    <3>1. part_cnt' \in 0 .. 5 /\ in_a_row' \in Nat
      BY DEF TypeOK
    <3>2. unsent' \subseteq Columns
      BY DEF TypeOK
    <3> QED  BY <3>1, <3>2 DEF TypeOK
  <2>3. UnsentIsQueued'
    BY DEF UnsentIsQueued, Queued, TypeOK
  <2>4. ProgressIsAccurate'
    BY DEF ProgressIsAccurate, TypeOK
  <2>5. ExitsWhenIdle' /\ AtMostFiveInARow' /\ CountIsHonest'
    BY DEF ExitsWhenIdle, AtMostFiveInARow, CountIsHonest, TypeOK, UnsentIsQueued
  <2> QED  BY <2>2, <2>3, <2>4, <2>5
<1>2. CASE ~ TooManyInARow /\ can_start_repaint
  <2>1. /\ part_cnt' = part_cnt + 1
        /\ part_in_progress' = TRUE
        /\ UNCHANGED <<full_in_progress, do_full, do_part, x0, x1>>
        /\ hw' = "busy"
        /\ unsent' = want \ (a .. b)
        /\ in_a_row' = in_a_row + 1
    BY <1>2 DEF gp_display_eink_update_rect, PartStart, requests
  <2>2. ~ do_full /\ ~ do_part /\ ~ full_in_progress /\ part_cnt < 5
    BY <1>2, <1>u DEF UnsentIsQueued, can_start_repaint, TooManyInARow, TypeOK
  <2>3. unsent' = {}
    BY <2>1, <2>2 DEF UnsentIsQueued, Queued
  <2> USE <1>u, <2>1, <2>2, <2>3
  <2> HIDE DEF want
  <2>4. TypeOK'
    BY DEF TypeOK
  <2>5. UnsentIsQueued' /\ ProgressIsAccurate'
    BY DEF UnsentIsQueued, ProgressIsAccurate, can_start_repaint, TypeOK
  <2>6. ExitsWhenIdle' /\ AtMostFiveInARow' /\ CountIsHonest'
    BY DEF ExitsWhenIdle, AtMostFiveInARow, CountIsHonest, TypeOK
  <2> QED  BY <2>4, <2>5, <2>6
<1>3. CASE ~ TooManyInARow /\ ~ can_start_repaint
  <2>1. /\ unsent' = want
        /\ UNCHANGED <<hw, in_a_row, part_cnt, full_in_progress, part_in_progress, do_full>>
        /\ \/ do_full /\ UNCHANGED <<do_part, x0, x1>>
           \/ ~ do_full /\ do_part /\ MergeRect(a, b) /\ UNCHANGED do_part
           \/ ~ do_full /\ ~ do_part /\ do_part' = TRUE /\ x0' = a /\ x1' = b
    BY <1>3 DEF gp_display_eink_update_rect, QueueOnly, requests
  <2>2. part_cnt < 5
    BY <1>3 DEF TooManyInARow, TypeOK
  <2>3. x0' \in Columns /\ x1' \in Columns /\ do_part' \in BOOLEAN
    <3>1. Least(x0, a) \in Columns /\ Greatest(x1, b) \in Columns
      BY MergeCovers DEF TypeOK
    <3> QED  BY <2>1, <3>1 DEF MergeRect, TypeOK
  <2>4. unsent' \subseteq Queued'
    <3>1. CASE do_full
      BY <1>w, <2>1, <3>1 DEF Queued
    <3>2. CASE ~ do_full /\ do_part
      <4>1. unsent \subseteq x0 .. x1
        BY <3>2 DEF UnsentIsQueued, Queued
      <4>2. /\ x0 .. x1 \subseteq Least(x0, a) .. Greatest(x1, b)
            /\ a .. b \subseteq Least(x0, a) .. Greatest(x1, b)
        BY MergeCovers DEF TypeOK
      <4>3. Queued' = Least(x0, a) .. Greatest(x1, b)
        BY <2>1, <3>2 DEF Queued, MergeRect
      <4> QED  BY <2>1, <4>1, <4>2, <4>3
    <3>3. CASE ~ do_full /\ ~ do_part
      <4>1. unsent = {}
        BY <3>3 DEF UnsentIsQueued, Queued
      <4>2. Queued' = a .. b
        BY <2>1, <3>3 DEF Queued
      <4> QED  BY <2>1, <4>1, <4>2
    <3> QED  BY <3>1, <3>2, <3>3
  <2> HIDE DEF want
  <2>5. TypeOK'
    BY <1>u, <1>w, <2>1, <2>3 DEF TypeOK
  <2>6. UnsentIsQueued' /\ ProgressIsAccurate'
    BY <1>u, <1>3, <2>1, <2>4 DEF UnsentIsQueued, ProgressIsAccurate, can_start_repaint
  <2>7. ExitsWhenIdle' /\ AtMostFiveInARow' /\ CountIsHonest'
    BY <1>u, <2>1, <2>2 DEF ExitsWhenIdle, AtMostFiveInARow, CountIsHonest
  <2> QED  BY <2>5, <2>6, <2>7
<1> QED  BY <1>1, <1>2, <1>3

(* flush_queued_repaints() keeps the inductive invariant.                  *)
LEMMA FlushInv == IInv /\ flush_queued_repaints => IInv'
<1> SUFFICES ASSUME IInv, flush_queued_repaints PROVE IInv'
  OBVIOUS
<1> USE DEF IInv
<1>u. hw = "edge" /\ main # "exited" /\ UNCHANGED <<exitting, main, x0, x1>>
  BY DEF flush_queued_repaints
<1>c. FinishedCount \in 0 .. 5 /\ (in_a_row <= FinishedCount \/ do_full)
      /\ (do_part => FinishedCount < 5)
  BY DEF FinishedCount, TypeOK, CountIsHonest
<1>1. CASE ~ exitting /\ do_full
  <2>1. /\ do_full' = FALSE
        /\ hw' = "busy" /\ unsent' = {} /\ in_a_row' = 0
        /\ full_in_progress' = TRUE /\ part_in_progress' = FALSE
        /\ part_cnt' = FinishedCount
        /\ UNCHANGED do_part
    BY <1>1 DEF flush_queued_repaints, FullStart
  <2> USE <1>u, <1>c, <1>1, <2>1
  <2>2. TypeOK'
    BY DEF TypeOK
  <2>3. UnsentIsQueued' /\ ProgressIsAccurate'
    BY DEF UnsentIsQueued, ProgressIsAccurate, can_start_repaint
  <2>4. ExitsWhenIdle' /\ AtMostFiveInARow' /\ CountIsHonest'
    BY DEF ExitsWhenIdle, AtMostFiveInARow, CountIsHonest, TypeOK
  <2> QED  BY <2>2, <2>3, <2>4
<1>2. CASE ~ exitting /\ ~ do_full /\ do_part
  <2>1. /\ do_part' = FALSE
        /\ hw' = "busy" /\ unsent' = unsent \ (x0 .. x1) /\ in_a_row' = in_a_row + 1
        /\ full_in_progress' = FALSE /\ part_in_progress' = TRUE
        /\ part_cnt' = FinishedCount + 1
        /\ UNCHANGED do_full
    BY <1>2 DEF flush_queued_repaints, PartStart
  <2>2. unsent' = {}
    BY <1>2, <2>1 DEF UnsentIsQueued, Queued
  <2> USE <1>u, <1>c, <1>2, <2>1, <2>2
  <2>3. TypeOK'
    <3>1. part_cnt' \in 0 .. 5 /\ in_a_row' \in Nat
      BY DEF TypeOK
    <3>2. unsent' \subseteq Columns
      BY DEF TypeOK
    <3> QED  BY <3>1, <3>2 DEF TypeOK
  <2>4. UnsentIsQueued' /\ ProgressIsAccurate'
    BY DEF UnsentIsQueued, ProgressIsAccurate, can_start_repaint
  <2>5. ExitsWhenIdle' /\ AtMostFiveInARow' /\ CountIsHonest'
    BY DEF ExitsWhenIdle, AtMostFiveInARow, CountIsHonest, TypeOK
  <2> QED  BY <2>3, <2>4, <2>5
<1>3. CASE exitting \/ (~ do_full /\ ~ do_part)
  <2>1. /\ hw' = "ready"
        /\ full_in_progress' = FALSE /\ part_in_progress' = FALSE
        /\ part_cnt' = FinishedCount
        /\ UNCHANGED <<do_full, do_part, unsent, in_a_row>>
    BY <1>3 DEF flush_queued_repaints
  <2> USE <1>u, <1>c, <1>3, <2>1
  <2>2. TypeOK'
    BY DEF TypeOK
  <2>3. UnsentIsQueued'
    BY DEF UnsentIsQueued, Queued, CountIsHonest
  <2>4. ProgressIsAccurate'
    BY DEF ProgressIsAccurate, can_start_repaint
  <2>5. ExitsWhenIdle' /\ AtMostFiveInARow' /\ CountIsHonest'
    BY DEF ExitsWhenIdle, AtMostFiveInARow, CountIsHonest, TypeOK
  <2> QED  BY <2>2, <2>3, <2>4, <2>5
<1> QED  BY <1>1, <1>2, <1>3

(* Every step keeps the inductive invariant.                               *)
LEMMA StepInv == IInv /\ [Next]_vars => IInv'
<1> SUFFICES ASSUME IInv, [Next]_vars PROVE IInv'
  OBVIOUS
<1> USE DEF TypeOK, UnsentIsQueued, Queued, ProgressIsAccurate, can_start_repaint,
            ExitsWhenIdle, AtMostFiveInARow, CountIsHonest, requests
<1>1. CASE RepaintDone
  BY <1>1 DEF RepaintDone, IInv
<1>2. CASE eink_exit
  BY <1>2 DEF eink_exit, IInv
<1>3. CASE ExitWhenFinished
  BY <1>3 DEF ExitWhenFinished, IInv
<1>4. CASE UNCHANGED vars
  BY <1>4 DEF vars, IInv
<1> QED
  BY <1>1, <1>2, <1>3, <1>4, UpdateInv, UpdateRectInv, FlushInv DEF Next

(* The inductive invariant holds in every reachable state.                 *)
THEOREM InductiveInvariant == Spec => []IInv
  BY InitInv, StepInv, PTL DEF Spec

(* The flags and counters stay in their ranges; part_cnt passes no 5.      *)
THEOREM TypeCorrect == Spec => []TypeOK
<1>1. IInv => TypeOK
  BY DEF IInv
<1> QED  BY <1>1, InductiveInvariant, PTL

(* What update() and update_rect() were asked for, and what the display    *)
(* was not sent, is always queued behind a running repaint.                *)
THEOREM NoUpdateIsLost == Spec => []UnsentIsQueued
<1>1. IInv => UnsentIsQueued
  BY DEF IInv
<1> QED  BY <1>1, InductiveInvariant, PTL

(* The flags say exactly when the display repaints.                        *)
THEOREM ProgressStaysAccurate == Spec => []ProgressIsAccurate
<1>1. IInv => ProgressIsAccurate
  BY DEF IInv
<1> QED  BY <1>1, InductiveInvariant, PTL

(* eink_exit() never shuts a repainting display down.                      *)
THEOREM ExitWaitsForRepaint == Spec => []ExitsWhenIdle
<1>1. IInv => ExitsWhenIdle
  BY DEF IInv
<1> QED  BY <1>1, InductiveInvariant, PTL

(* No more than five partial repaints are started in a row, whatever is    *)
(* asked for while the display repaints.                                   *)
THEOREM FivePartialsAtMost == Spec => []AtMostFiveInARow
<1>1. IInv => AtMostFiveInARow
  BY DEF IInv
<1> QED  BY <1>1, InductiveInvariant, PTL

=============================================================================
