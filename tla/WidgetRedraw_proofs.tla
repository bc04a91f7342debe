------------------------ MODULE WidgetRedraw_proofs ------------------------
(***************************************************************************)
(* Proofs about the repaint and layout flags, for a layout of any size and *)
(* shape: what is out of date and visible is always announced at the root, *)
(* one walk down repaints all of it, and no request for a layout is lost.  *)
(***************************************************************************)
EXTENDS WidgetRedraw, TLAPS

Flagged == redraw \cup redraw_child

(* The walk down from the root comes to every visible flag: what is above  *)
(* has a flag of its own, or is repainted with a container above it.  No   *)
(* more than this: where a flag was left behind because its widget was not *)
(* visible, the widgets above it may well be without one.                  *)
FlagsAreReached ==
  \A w \in Flagged : Visible(w) => \A a \in Above[w] : a \in Flagged \/ Whole(a)

(* redraw_children is never left alone, and never at a grid.               *)
ChildrenAreFlagged ==
  /\ redraw_children \subseteq redraw_child
  /\ \A w \in redraw_children : Kind[w] # "grid"

(* What is out of date and visible is going to be painted.                 *)
StaleIsMarked ==
  front = "app" => \A w \in stale : Visible(w) => w \in redraw \/ Whole(w)

(* A request for a layout is on every widget from where it was made.       *)
ResizeIsReached ==
  \A w \in Widgets \ no_resize : Above[w] \cap no_resize = {}

IInv ==
  /\ TypeOK
  /\ FlagsAreReached
  /\ ChildrenAreFlagged
  /\ StaleIsMarked
  /\ ResizeIsReached

(* Everything a widget hangs from is a widget.                             *)
LEMMA PathFacts ==
  ASSUME NEW w \in Widgets
  PROVE  /\ Above[w] \subseteq Widgets /\ Path[w] \subseteq Widgets
         /\ Path[w] = Above[w] \cup {w} /\ w \notin Above[w]
         /\ \A v \in Path[w] : Above[v] \subseteq Above[w] /\ Path[v] \subseteq Path[w]
         /\ \A u, v \in Path[w] : u = v \/ u \in Above[v] \/ v \in Above[u]
<1>1. /\ Above[w] \subseteq Widgets
      /\ Path[w] = Above[w] \cup {w} /\ w \notin Above[w]
  BY TreeAssumption DEF Path
<1>2. \A v \in Path[w] : v \in Widgets /\ Above[v] \subseteq Above[w]
  BY <1>1, LineAssumption
<1>3. \A v \in Path[w] : Path[v] = Above[v] \cup {v}
  BY <1>2 DEF Path
<1>4. \A v \in Path[w] : Path[v] \subseteq Path[w]
  BY <1>1, <1>2, <1>3
<1>5. \A u, v \in Path[w] : u = v \/ u \in Above[v] \/ v \in Above[u]
  BY <1>1, LineAssumption
<1> QED  BY <1>1, <1>2, <1>4, <1>5

(* Nothing below a widget is on the way from it to the root.               *)
LEMMA BelowFacts ==
  ASSUME NEW w \in Widgets
  PROVE  /\ Below[w] \subseteq Widgets
         /\ \A v \in Widgets : v \in Below[w] <=> w \in Above[v]
         /\ \A v \in Widgets : w \notin Above[v] => Path[v] \cap Below[w] = {}
         /\ ChildrenOf[w] \subseteq Below[w]
<1>1. /\ Below[w] \subseteq Widgets
      /\ \A v \in Widgets : v \in Below[w] <=> w \in Above[v]
  BY DEF Below
<1>2. \A v \in Widgets : w \notin Above[v] => Path[v] \cap Below[w] = {}
  BY <1>1, PathFacts
<1>3. ChildrenOf[w] \subseteq Below[w]
  BY <1>1, TreeAssumption DEF ChildrenOf
<1> QED  BY <1>1, <1>2, <1>3

(* The early return on the way up stops at the lowest widget that is in    *)
(* the set: all between it and the start is added.                         *)
LEMMA UpToFacts ==
  ASSUME NEW w \in Widgets, NEW set
  PROVE  /\ UpTo(w, set) \subseteq Path[w]
         /\ w \in UpTo(w, set) \cup set
         /\ \A v \in UpTo(w, set) : \A a \in Above[v] :
              \/ a \in UpTo(w, set) \cup set
              \/ \E b \in Above[v] \cap set : a \in Above[b]
<1>1. UpTo(w, set) \subseteq Path[w]
  BY DEF UpTo
<1>2. w \in UpTo(w, set) \cup set
  <2>1. \A u \in Path[w] : u = w \/ w \in Above[u] => u = w
    BY PathFacts
  <2> QED  BY <2>1, PathFacts DEF UpTo
<1>3. ASSUME NEW v \in UpTo(w, set), NEW a \in Above[v], a \notin UpTo(w, set) \cup set
      PROVE  \E b \in Above[v] \cap set : a \in Above[b]
  <2>1. v \in Path[w] /\ a \in Path[w]
    BY <1>1, PathFacts
  <2>2. PICK b \in Path[w] : (b = a \/ a \in Above[b]) /\ b \in set
    BY <2>1, <1>3 DEF UpTo
  <2>3. a \in Above[b]
    BY <2>2, <1>3
  <2>4. b # v /\ v \notin Above[b]
    BY <2>2 DEF UpTo
  <2>5. b \in Above[v]
    BY <2>1, <2>2, <2>4, PathFacts
  <2> QED  BY <2>2, <2>3, <2>5
<1> QED  BY <1>1, <1>2, <1>3

(* Every flag that is new in G has its way up: either the next one above   *)
(* is there as well, or the way joins that of a flag that was there before.*)
Climbs(F, G) ==
  /\ F \subseteq G /\ G \subseteq Widgets
  /\ \A v \in G \ F : \A a \in Above[v] : a \in G \/ \E b \in Above[v] \cap F : a \in Above[b]

(* Two climbs in a row are a climb.                                        *)
LEMMA ClimbsCompose ==
  ASSUME NEW F, NEW G, NEW H, Climbs(F, G), Climbs(G, H)
  PROVE  Climbs(F, H)
<1>1. ASSUME NEW v \in H \ F, NEW a \in Above[v], a \notin H
      PROVE  \E b \in Above[v] \cap F : a \in Above[b]
  <2>1. CASE v \in G
    BY <1>1, <2>1 DEF Climbs
  <2>2. CASE v \notin G
    <3>1. PICK b \in Above[v] \cap G : a \in Above[b]
      BY <1>1, <2>2 DEF Climbs
    <3>2. CASE b \in F
      BY <3>1, <3>2
    <3>3. CASE b \notin F
      <4>1. PICK c \in Above[b] \cap F : a \in Above[c]
        BY <1>1, <3>1, <3>3 DEF Climbs
      <4>2. Above[b] \subseteq Above[v]
        BY <3>1, LineAssumption DEF Climbs
      <4> QED  BY <4>1, <4>2
    <3> QED  BY <3>2, <3>3
  <2> QED  BY <2>1, <2>2
<1> QED  BY <1>1 DEF Climbs

(* gp_widget_redraw_child() climbs: it stops where another flag is.        *)
LEMMA ChildClimbs ==
  ASSUME NEW r \in SUBSET Widgets, NEW rc \in SUBSET Widgets, NEW w \in Widgets
  PROVE  /\ Climbs(r \cup rc, r \cup gp_widget_redraw_child(rc, w))
         /\ rc \subseteq gp_widget_redraw_child(rc, w)
         /\ gp_widget_redraw_child(rc, w) \subseteq Widgets
         /\ w \in gp_widget_redraw_child(rc, w)
<1>1. UpTo(w, rc) \subseteq Widgets /\ w \in UpTo(w, rc) \cup rc
  BY UpToFacts, PathFacts
<1>2. ASSUME NEW v \in UpTo(w, rc), NEW a \in Above[v], a \notin UpTo(w, rc) \cup rc
      PROVE  \E b \in Above[v] \cap rc : a \in Above[b]
  BY <1>2, UpToFacts
<1> QED  BY <1>1, <1>2 DEF Climbs, gp_widget_redraw_child

(* gp_widget_redraw() climbs: it starts at the parent, unless the widget   *)
(* itself has been asked before.                                           *)
LEMMA RedrawClimbs ==
  ASSUME NEW w \in Widgets, redraw \subseteq Widgets, redraw_child \subseteq Widgets
  PROVE  /\ Climbs(Flagged, redraw \cup {w} \cup RedrawUp(redraw_child, w))
         /\ redraw_child \subseteq RedrawUp(redraw_child, w)
         /\ RedrawUp(redraw_child, w) \subseteq Widgets
<1>1. CASE w \in redraw \/ w = Root
  <2>1. RedrawUp(redraw_child, w) = redraw_child
    BY <1>1 DEF RedrawUp
  <2>2. \A v \in {w} \ Flagged : Above[v] = {}
    BY <1>1, TreeAssumption DEF Flagged
  <2> QED  BY <2>1, <2>2 DEF Climbs, Flagged
<1>2. CASE w \notin redraw /\ w # Root
  <2> DEFINE p == Parent[w]  U == gp_widget_redraw_child(redraw_child, p)
  <2>1. p \in Widgets /\ Above[w] = Above[p] \cup {p}
    BY <1>2, TreeAssumption
  <2>2. RedrawUp(redraw_child, w) = U
    BY <1>2 DEF RedrawUp
  <2>3. Climbs(Flagged, redraw \cup U) /\ redraw_child \subseteq U /\ U \subseteq Widgets /\ p \in U
    BY <2>1, ChildClimbs DEF Flagged
  <2>4. Climbs(redraw \cup U, redraw \cup {w} \cup U)
    BY <2>1, <2>3 DEF Climbs
  <2> QED  BY <2>2, <2>3, <2>4, ClimbsCompose
<1> QED  BY <1>1, <1>2

(* What one request for a repaint may do to the flags, w being where it is *)
(* made.                                                                   *)
Marks(w) ==
  /\ redraw \subseteq redraw' /\ redraw' \subseteq Widgets
  /\ redraw_children \subseteq redraw_children'
  /\ redraw_children' \subseteq redraw_children \cup {w}
  /\ redraw_children' \subseteq redraw_child' /\ redraw_child' \subseteq Widgets
  /\ Climbs(Flagged, Flagged')

(* Each of the three requests marks.                                       *)
LEMMA RequestsMark ==
  ASSUME TypeOK, ChildrenAreFlagged, NEW w \in Widgets
  PROVE  /\ gp_widget_redraw(w) => Marks(w) /\ w \in redraw'
         /\ gp_widget_redraw_children(w) => Marks(w) /\ w \in redraw_children'
         /\ RedrawAll(w) => Marks(w) /\ w \in redraw' /\ w \in redraw_children'
<1> USE DEF TypeOK, ChildrenAreFlagged
<1>1. ASSUME gp_widget_redraw(w) PROVE Marks(w) /\ w \in redraw'
  BY <1>1, RedrawClimbs DEF gp_widget_redraw, Marks, Flagged
<1>2. ASSUME gp_widget_redraw_children(w) PROVE Marks(w) /\ w \in redraw_children'
  <2> DEFINE rc == gp_widget_redraw_child(redraw_child, w)
  <2>1. /\ Climbs(redraw \cup redraw_child, redraw \cup rc)
        /\ redraw_child \subseteq rc /\ rc \subseteq Widgets /\ w \in rc
    BY ChildClimbs
  <2>2. redraw' = redraw /\ redraw_child' = rc /\ redraw_children' = redraw_children \cup {w}
    BY <1>2 DEF gp_widget_redraw_children
  <2> HIDE DEF rc
  <2> QED  BY <2>1, <2>2 DEF Marks, Flagged
<1>3. ASSUME RedrawAll(w) PROVE Marks(w) /\ w \in redraw' /\ w \in redraw_children'
  <2> DEFINE rc == RedrawUp(redraw_child, w)
  <2>1. Climbs(Flagged, redraw \cup {w} \cup rc) /\ redraw_child \subseteq rc /\ rc \subseteq Widgets
    BY RedrawClimbs
  <2>2. redraw' = redraw \cup {w} /\ redraw_children' = redraw_children \cup {w}
        /\ redraw_child' = gp_widget_redraw_child(rc, w)
    BY <1>3 DEF RedrawAll
  <2>3. /\ Climbs(redraw' \cup rc, redraw' \cup redraw_child')
        /\ rc \subseteq redraw_child' /\ redraw_child' \subseteq Widgets /\ w \in redraw_child'
    <3> HIDE DEF rc
    <3> QED  BY <2>1, <2>2, ChildClimbs
  <2>4. Climbs(Flagged, Flagged')
    BY <2>1, <2>2, <2>3, ClimbsCompose DEF Flagged
  <2> QED  BY <2>1, <2>2, <2>3, <2>4 DEF Marks
<1> QED  BY <1>1, <1>2, <1>3

(* What a request may change besides the flags: the view below w, and what *)
(* is out of date at w and below, if those are asked to be painted.        *)
Uncovers(w) ==
  /\ active' \subseteq Widgets /\ Root \in active' /\ clipped' \in Views
  /\ \A v \in Widgets \ Below[w] : (v \in active' <=> v \in active) /\ (v \in clipped' <=> v \in clipped)
  /\ stale' \subseteq stale \cup {w} \cup Below[w]
  /\ w \in stale' \ stale => w \in redraw'
  /\ w \in redraw_children' \/ (UNCHANGED view /\ stale' \subseteq stale \cup {w})

(* A request that marks w, whatever it uncovers below, keeps the invariant.*)
LEMMA RequestInv ==
  ASSUME IInv, NEW w \in Widgets, Marks(w), Uncovers(w), Kind[w] # "grid" \/ UNCHANGED redraw_children,
         UNCHANGED <<no_resize, loop>>
  PROVE  IInv'
<1> USE DEF IInv, loop
<1>1. TypeOK'
  BY BelowFacts DEF TypeOK, Marks, Uncovers
<1>2. ChildrenAreFlagged'
  BY DEF ChildrenAreFlagged, Marks
<1>3. ResizeIsReached'
  BY DEF ResizeIsReached
<1>4. \A v \in Widgets : v \notin Below[w] => (Visible(v)' <=> Visible(v))
  <2> TAKE v \in Widgets
  <2>1. HAVE v \notin Below[w]
  <2>2. Path[v] \subseteq Widgets \ Below[w]
    BY <2>1, PathFacts, BelowFacts
  <2> QED  BY <2>2 DEF Visible, Uncovers
<1>5. \A v \in Widgets : v \in Below[w] /\ w \in redraw_children' => Whole(v)'
  BY BelowFacts DEF Whole
<1>6. \A v \in Widgets : w \notin redraw_children' => (Visible(v)' <=> Visible(v))
  BY DEF Uncovers, view, Visible
<1>7. \A v \in Widgets : Whole(v) => Whole(v)'
  BY DEF Whole, Marks
<1>8. Flagged \subseteq Flagged' /\ Flagged' \subseteq Widgets /\ redraw_children' \subseteq Flagged'
  BY DEF Marks, Climbs, Flagged
\* What hangs from no change is reached as it was before, or by the climb.
<1>9. ASSUME NEW v \in Flagged', Visible(v)', Visible(v), NEW a \in Above[v]
      PROVE  a \in Flagged' \/ Whole(a)'
  <2>1. v \in Widgets /\ Above[v] \subseteq Widgets
    BY <1>8, PathFacts
  <2>2. \A b \in Above[v] : Visible(b)
    BY <1>9, <2>1, PathFacts DEF Visible
  <2>3. CASE v \in Flagged
    BY <1>7, <1>8, <1>9, <2>1, <2>3 DEF FlagsAreReached
  <2>4. CASE v \notin Flagged /\ a \notin Flagged'
    <3>1. PICK b \in Above[v] \cap Flagged : a \in Above[b]
      BY <1>9, <2>4 DEF Marks, Climbs
    <3>2. Whole(a)
      BY <2>2, <2>4, <3>1, <1>8 DEF FlagsAreReached
    <3> QED  BY <3>2, <2>1, <1>7
  <2> QED  BY <2>3, <2>4
<1>10. FlagsAreReached'
  <2> SUFFICES ASSUME NEW v \in Flagged', Visible(v)', NEW a \in Above[v]
               PROVE  a \in Flagged' \/ Whole(a)'
    BY DEF FlagsAreReached
  <2>1. v \in Widgets /\ a \in Widgets
    BY <1>8, PathFacts
  <2>2. CASE v \notin Below[w] \/ w \notin redraw_children'
    BY <1>4, <1>6, <1>9, <2>1, <2>2
  <2>3. CASE v \in Below[w] /\ w \in redraw_children'
    <3>1. w \in Above[v]
      BY <2>1, <2>3, BelowFacts
    <3>2. CASE a = w
      BY <1>8, <2>3, <3>2
    <3>3. CASE w \in Above[a]
      BY <1>5, <2>1, <2>3, <3>3, BelowFacts
    <3>4. CASE a \in Above[w]
      <4>1. Visible(w)'
        BY <2>1, <3>1, PathFacts DEF Visible
      <4>2. w \notin Below[w]
        BY PathFacts, BelowFacts
      <4> QED  BY <1>4, <1>8, <1>9, <2>3, <3>4, <4>1, <4>2
    <3> QED  BY <3>1, <3>2, <3>3, <3>4, <2>1, PathFacts
  <2> QED  BY <2>2, <2>3
<1>11. StaleIsMarked'
  <2> SUFFICES ASSUME front' = "app", NEW v \in stale', Visible(v)'
               PROVE  v \in redraw' \/ Whole(v)'
    BY DEF StaleIsMarked
  <2>1. v \in Widgets
    BY BelowFacts DEF Uncovers, TypeOK
  <2>2. CASE v \in Below[w] /\ w \in redraw_children'
    BY <1>5, <2>1, <2>2
  <2>3. CASE v \notin Below[w] \/ w \notin redraw_children'
    <3>1. Visible(v)
      BY <1>4, <1>6, <2>1, <2>3
    <3>2. CASE v \in stale
      BY <1>7, <2>1, <3>1, <3>2 DEF StaleIsMarked, Marks
    <3>3. CASE v \notin stale
      BY <2>3, <3>3 DEF Uncovers
    <3> QED  BY <3>2, <3>3
  <2> QED  BY <2>2, <2>3
<1> QED  BY <1>1, <1>2, <1>3, <1>10, <1>11

(* What the program asks of one widget keeps the inductive invariant.      *)
LEMMA AsksInv ==
  ASSUME IInv, NEW w \in Widgets, Asks(w)
  PROVE  IInv'
<1> USE DEF IInv
<1>1. CASE Change(w)
  <2>1. Marks(w) /\ w \in redraw'
    BY <1>1, RequestsMark DEF Change
  <2>2. Uncovers(w) /\ UNCHANGED <<no_resize, loop, redraw_children>>
    BY <1>1, <2>1 DEF Change, gp_widget_redraw, Uncovers, view, TypeOK
  <2> QED  BY <2>1, <2>2, RequestInv
<1>2. CASE Kind[w] # "grid" /\ Disable(w)
  <2>1. Marks(w) /\ w \in redraw' /\ w \in redraw_children'
    BY <1>2, RequestsMark DEF Disable
  <2>2. Uncovers(w) /\ UNCHANGED <<no_resize, loop>>
    BY <1>2, <2>1 DEF Disable, Uncovers, view, TypeOK
  <2> QED  BY <1>2, <2>1, <2>2, RequestInv
<1>3. CASE set_off(w)
  <2>1. Marks(w) /\ w \in redraw' /\ w \in redraw_children'
    BY <1>3, RequestsMark DEF set_off
  <2>2. Uncovers(w) /\ UNCHANGED <<no_resize, loop>> /\ Kind[w] # "grid"
    BY <1>3, <2>1 DEF set_off, Uncovers, TypeOK
  <2> QED  BY <2>1, <2>2, RequestInv
<1>4. ASSUME NEW c \in Widgets, gp_widget_layout_switch_layout(w, c) PROVE IInv'
  <2>1. Marks(w) /\ w \in redraw_children'
    BY <1>4, RequestsMark DEF gp_widget_layout_switch_layout
  <2>2. Uncovers(w) /\ UNCHANGED <<no_resize, loop>> /\ Kind[w] # "grid"
    <3>1. c # Root /\ ChildrenOf[w] \subseteq Below[w] /\ Root \notin ChildrenOf[w] /\ c \in Below[w]
          /\ w \notin Below[w]
      BY <1>4, BelowFacts, PathFacts DEF gp_widget_layout_switch_layout, ChildrenOf
    <3> QED  BY <1>4, <2>1, <3>1 DEF gp_widget_layout_switch_layout, Uncovers, TypeOK
  <2> QED  BY <2>1, <2>2, RequestInv
<1>5. ASSUME NEW c \in Widgets, set_tab(w, c) PROVE IInv'
  <2>1. Marks(w) /\ w \in redraw' /\ w \in redraw_children'
    BY <1>5, RequestsMark DEF set_tab
  <2>2. Uncovers(w) /\ UNCHANGED <<no_resize, loop>> /\ Kind[w] # "grid"
    <3>1. c # Root /\ ChildrenOf[w] \subseteq Below[w] /\ Root \notin ChildrenOf[w] /\ c \in Below[w]
      BY <1>5, BelowFacts DEF set_tab, ChildrenOf
    <3> QED  BY <1>5, <2>1, <3>1 DEF set_tab, Uncovers, TypeOK
  <2> QED  BY <2>1, <2>2, RequestInv
<1>6. ASSUME NEW c \in Widgets, gp_widget_overlay_hide(w, c) \/ gp_widget_overlay_show(w, c) PROVE IInv'
  <2> USE DEF gp_widget_overlay_hide, gp_widget_overlay_show
  <2>1. Marks(w) /\ w \in redraw_children'
    BY <1>6, RequestsMark
  <2>2. Uncovers(w) /\ UNCHANGED <<no_resize, loop>> /\ Kind[w] # "grid"
    <3>1. c # Root /\ c \in Below[w] /\ w \notin Below[w]
      BY <1>6, BelowFacts, PathFacts DEF ChildrenOf
    <3> QED  BY <1>6, <2>1, <3>1 DEF Uncovers, TypeOK
  <2> QED  BY <2>1, <2>2, RequestInv
<1>7. CASE gp_widget_resize(w)
  <2> DEFINE set == Widgets \ no_resize
  <2>1. UNCHANGED <<flags, view, loop, stale>> /\ no_resize' = no_resize \ UpTo(w, set)
    BY <1>7 DEF gp_widget_resize
  <2>2. TypeOK' /\ FlagsAreReached' /\ ChildrenAreFlagged' /\ StaleIsMarked'
    BY <2>1 DEF flags, view, loop, TypeOK, FlagsAreReached, ChildrenAreFlagged, StaleIsMarked,
                Flagged, Visible, Whole
  <2>3. ASSUME NEW v \in Widgets, v \notin no_resize', NEW a \in Above[v] PROVE a \notin no_resize'
    <3>1. a \in Widgets /\ Above[v] \subseteq Widgets
      BY PathFacts
    <3>2. CASE v \in set
      BY <2>1, <3>2 DEF ResizeIsReached
    <3>3. CASE v \in UpTo(w, set)
      <4>1. CASE a \in UpTo(w, set) \cup set
        BY <2>1, <4>1
      <4>2. CASE a \notin UpTo(w, set) \cup set
        <5>1. PICK b \in Above[v] \cap set : a \in Above[b]
          BY <3>3, <4>2, UpToFacts
        <5> QED  BY <2>1, <5>1 DEF ResizeIsReached
      <4> QED  BY <4>1, <4>2
    <3> QED  BY <2>1, <2>3, <3>2, <3>3
  <2>4. ResizeIsReached'
    BY <2>3 DEF ResizeIsReached
  <2> QED  BY <2>2, <2>4
<1> QED  BY <1>1, <1>2, <1>3, <1>4, <1>5, <1>6, <1>7 DEF Asks

(* A walk reaches everything visible that is to be painted, and what was   *)
(* out of date before is to be painted if it is visible.                   *)
Reaches(r, out) ==
  \A w \in Widgets : /\ Path[w] \subseteq active \ out
                     /\ w \in r \cup redraw_child \/ Whole(w)
                     => w \in Rendered(r, out)

IsTold(r, out, before) ==
  /\ r \subseteq Widgets /\ out \in Views /\ before \subseteq Widgets
  /\ \A w \in before : Path[w] \subseteq active \ out => w \in r \/ Whole(w)

(* What happens next to it.                                                *)
Meanwhile ==
  /\ active' = active /\ rendering' \in BOOLEAN
  /\ front' \in {"app", "dialog"} /\ back_from_dialog' \in BOOLEAN
  /\ no_resize' \in {no_resize, Widgets}

(* A walk that enters every visible widget that is to be painted leaves no *)
(* visible flag behind, and paints what it should.                         *)
LEMMA WalkInv ==
  ASSUME IInv, NEW r, NEW out, NEW before, gp_widget_ops_render(r, out, before),
         Reaches(r, out), IsTold(r, out, before), Meanwhile
  PROVE  IInv' /\ \A w \in Widgets : Visible(w)' => w \notin stale'
<1> USE DEF IInv, gp_widget_ops_render, Reaches, IsTold, Meanwhile
<1>1. \A w \in Widgets : Visible(w)' <=> Path[w] \subseteq active \ out
  BY PathFacts DEF Visible
<1>2. \A w \in Widgets : Visible(w)' => w \notin Flagged'
  BY <1>1 DEF Flagged
<1>3. \A w \in Widgets : Visible(w)' => w \notin stale'
  BY <1>1 DEF Painted
<1>4. TypeOK'
  BY DEF TypeOK
<1>5. FlagsAreReached' /\ StaleIsMarked'
  BY <1>2, <1>3, <1>4 DEF FlagsAreReached, StaleIsMarked, Flagged, TypeOK
<1>6. ChildrenAreFlagged' /\ ResizeIsReached'
  BY PathFacts DEF ChildrenAreFlagged, ResizeIsReached
<1> QED  BY <1>3, <1>4, <1>5, <1>6

(* A walk that repaints everything, as after laying it out, is one.        *)
LEMMA WholeWalk ==
  ASSUME NEW out \in Views, NEW before \in SUBSET Widgets
  PROVE  Reaches(Widgets, out) /\ IsTold(Widgets, out, before)
<1>1. \A w \in Widgets : w \in active \ out => Enters(w, Widgets, out)
  BY DEF Enters, GridSkips
<1> QED  BY <1>1, PathFacts DEF Rendered, Reaches, IsTold

(* A walk along the flags is one as well, with the invariant: no early     *)
(* return in it, and none of a grid, hides a visible flag.                 *)
LEMMA FlagsWalk ==
  ASSUME IInv
  PROVE  Reaches(redraw, clipped)
<1> USE DEF IInv
<1> SUFFICES ASSUME NEW w \in Widgets, Visible(w), w \in Flagged \/ Whole(w), NEW v \in Path[w]
             PROVE  Enters(v, redraw, clipped)
  <2>1. \A w \in Widgets : Path[w] \subseteq active \ clipped => Visible(w)
    BY DEF Visible
  <2> QED  BY <2>1 DEF Rendered, Reaches, Flagged
<1>1. v \in Widgets /\ v \in active \ clipped /\ Visible(v)
  BY PathFacts DEF Visible
<1>2. v \in Flagged \/ Whole(v)
  <2>1. CASE v = w
    BY <2>1
  <2>2. CASE v # w /\ w \in Flagged
    BY <2>2, PathFacts DEF FlagsAreReached
  <2>3. CASE v # w /\ Whole(w)
    <3>1. PICK u \in Above[w] : u \in redraw_children
      BY <2>3 DEF Whole
    <3>2. u \in Widgets /\ Visible(u) /\ u \in Flagged
      BY <3>1, PathFacts DEF Visible, ChildrenAreFlagged, Flagged
    <3>3. v = u \/ v \in Above[u] \/ u \in Above[v]
      BY <2>3, <3>1, PathFacts
    <3> QED  BY <3>1, <3>2, <3>3 DEF Whole, FlagsAreReached
  <2> QED  BY <2>1, <2>2, <2>3
<1>3. ~GridSkips(v, redraw)
  <2> SUFFICES ASSUME v # Root, Kind[Parent[v]] = "grid", v \notin Flagged, ~Whole(Parent[v])
               PROVE  FALSE
    BY DEF GridSkips, Flagged
  <2>1. Above[v] = Above[Parent[v]] \cup {Parent[v]}
    BY <1>1, TreeAssumption
  <2>2. Parent[v] \in redraw_children
    BY <1>2, <2>1 DEF Whole
  <2> QED  BY <2>2 DEF ChildrenAreFlagged
<1> QED  BY <1>1, <1>2, <1>3 DEF Enters, Flagged

(* Rendering, wherever it is called from, keeps the inductive invariant and*)
(* paints everything visible.                                              *)
LEMMA RenderInv ==
  ASSUME IInv, NEW new_wh, NEW before \in SUBSET Widgets, gp_widget_render(new_wh, before),
         ~new_wh /\ Root \in no_resize => before = stale /\ front = "app",
         active' = active, rendering' \in BOOLEAN,
         front' \in {"app", "dialog"}, back_from_dialog' \in BOOLEAN
  PROVE  IInv' /\ \A w \in Widgets : Visible(w)' => w \notin stale'
<1> USE DEF gp_widget_render
<1>0. Meanwhile
  BY DEF Meanwhile
<1>1. CASE ~(~new_wh /\ Root \in no_resize)
  <2>1. PICK out \in Views : gp_widget_ops_render(Widgets, out, before)
    BY <1>1
  <2> QED  BY <1>0, <2>1, WholeWalk, WalkInv
<1>2. CASE ~new_wh /\ Root \in no_resize
  <2>1. gp_widget_ops_render(redraw, clipped, before)
    BY <1>2
  <2>2. \A w \in Widgets : Path[w] \subseteq active \ clipped => Visible(w)
    BY DEF Visible
  <2>3. IsTold(redraw, clipped, before)
    BY <1>2, <2>2 DEF IInv, StaleIsMarked, IsTold, TypeOK
  <2> QED  BY <1>0, <2>1, <2>3, FlagsWalk, WalkInv
<1> QED  BY <1>1, <1>2

(* gp_widgets_redraw() keeps the inductive invariant and paints everything.*)
LEMMA RedrawInv ==
  ASSUME IInv, gp_widgets_redraw
  PROVE  IInv' /\ \A w \in Widgets : Visible(w)' => w \notin stale'
<1>1. stale \in SUBSET Widgets /\ rendering' \in BOOLEAN /\ front' \in {"app", "dialog"}
      /\ back_from_dialog' \in BOOLEAN
  BY DEF IInv, TypeOK, gp_widgets_redraw
<1> QED  BY <1>1, RenderInv DEF gp_widgets_redraw

(* Every other step of the loop keeps it.                                  *)
LEMMA LoopInv == IInv /\ Loop => IInv'
<1> SUFFICES ASSUME IInv, Loop PROVE IInv'
  OBVIOUS
<1> USE DEF IInv
<1>1. CASE gp_widgets_redraw
  BY <1>1, RedrawInv
<1>2. CASE ResizeAfterDialog
  BY <1>2, PathFacts DEF ResizeAfterDialog, TypeOK, FlagsAreReached, ChildrenAreFlagged, StaleIsMarked,
     ResizeIsReached, Flagged
<1>3. CASE RenderStop \/ gp_dialog_run
  BY <1>3 DEF RenderStop, gp_dialog_run, flags, view, TypeOK, FlagsAreReached, ChildrenAreFlagged,
     StaleIsMarked, ResizeIsReached, Flagged, Visible, Whole
<1>4. CASE RenderStart
  <2>1. CASE front = "app"
    BY <1>4, <2>1, RenderInv DEF RenderStart, TypeOK
  <2>2. CASE front = "dialog"
    BY <1>4, <2>2 DEF RenderStart, flags, TypeOK, FlagsAreReached, ChildrenAreFlagged,
       StaleIsMarked, ResizeIsReached, Flagged, Visible, Whole
  <2> QED  BY <2>1, <2>2 DEF TypeOK
<1>5. CASE widget_render_refresh
  <2>1. rendering' \in BOOLEAN /\ front' \in {"app", "dialog"} /\ back_from_dialog' \in BOOLEAN
        /\ UNCHANGED active
    BY <1>5 DEF widget_render_refresh, loop, TypeOK
  <2>2. CASE Root \notin no_resize
    BY <1>5, <2>1, <2>2, RenderInv DEF widget_render_refresh
  <2>3. CASE Root \in no_resize
    <3>1. gp_widget_ops_render(Widgets, clipped, Widgets) /\ clipped \in Views
      BY <1>5, <2>3 DEF widget_render_refresh, TypeOK
    <3>2. Meanwhile
      BY <1>5, <2>1, <2>3 DEF widget_render_refresh, Meanwhile
    <3> QED  BY <3>1, <3>2, WholeWalk, WalkInv
  <2> QED  BY <2>2, <2>3
<1>6. CASE DialogReturns
  BY <1>6, PathFacts, TreeAssumption DEF DialogReturns, TypeOK, FlagsAreReached, ChildrenAreFlagged,
     StaleIsMarked, ResizeIsReached, Flagged
<1> QED  BY <1>1, <1>2, <1>3, <1>4, <1>5, <1>6 DEF Loop

(* The inductive invariant holds of a new layout.                          *)
LEMMA InitInv == Init => IInv
  BY PathFacts DEF Init, IInv, TypeOK, FlagsAreReached, ChildrenAreFlagged, StaleIsMarked,
     ResizeIsReached, Flagged

(* It holds in every state of every program.                               *)
LEMMA SpecInv == Spec => []IInv
<1>1. IInv /\ [Next]_vars => IInv'
  <2> SUFFICES ASSUME IInv, [Next]_vars PROVE IInv'
    OBVIOUS
  <2>1. CASE UNCHANGED vars
    BY <2>1 DEF vars, flags, view, loop, IInv, TypeOK, FlagsAreReached, ChildrenAreFlagged,
       StaleIsMarked, ResizeIsReached, Flagged, Visible, Whole
  <2> QED  BY <2>1, AsksInv, LoopInv DEF Next
<1> QED  BY <1>1, InitInv, PTL DEF Spec

(* With it, something visible that is out of date is known at the root.    *)
LEMMA MarkedAtRoot == IInv => NoLostRedraw
<1> SUFFICES ASSUME IInv, front = "app", NEW w \in stale, Visible(w) PROVE Pending
  BY DEF NoLostRedraw
<1> USE DEF IInv
<1>1. w \in Widgets /\ Whole(Root) = FALSE
  BY TreeAssumption DEF TypeOK, Whole
<1>2. CASE w \in Flagged
  BY <1>1, <1>2, LineAssumption DEF FlagsAreReached, Pending, Flagged
<1>3. CASE w \notin Flagged
  <2>1. PICK u \in Above[w] : u \in redraw_children
    BY <1>3 DEF StaleIsMarked, Whole, Flagged
  <2>2. u \in Widgets /\ Visible(u) /\ u \in Flagged
    BY <1>1, <2>1, PathFacts DEF Visible, ChildrenAreFlagged, Flagged
  <2> QED  BY <1>1, <2>2, LineAssumption DEF FlagsAreReached, Pending, Flagged
<1> QED  BY <1>2, <1>3

(* gp_widget_redraw(), gp_widget_redraw_children() and gp_widgets_redraw():*)
(* the flags are typed, for every layout.                                  *)
THEOREM TypeCorrect == Spec => []TypeOK
  BY SpecInv, PTL DEF IInv

(* gp_widgets_redraw() never returns early while something visible is out  *)
(* of date, whatever was hidden, scrolled, flagged or cleared before.      *)
THEOREM NoRedrawIsLost == Spec => []NoLostRedraw
  BY SpecInv, MarkedAtRoot, PTL

(* gp_widget_ops_render() gets to all that is visible and out of date.     *)
THEOREM RedrawReachesAll == Spec => RedrawPaintsAll
<1>1. IInv /\ [Next]_vars => [gp_widgets_redraw => \A w \in Widgets : Visible(w)' => w \notin stale']_vars
  BY RedrawInv
<1> QED  BY <1>1, SpecInv, PTL DEF Spec, RedrawPaintsAll

(* gp_widget_calc_size() returns early at a root with no_resize only when  *)
(* no widget of the layout asked for a new size.                           *)
THEOREM NoResizeIsLost == Spec => []NoLostResize
<1>1. IInv => NoLostResize
  <2> SUFFICES ASSUME IInv, no_resize # Widgets PROVE Root \notin no_resize
    BY DEF NoLostResize
  <2>1. PICK w \in Widgets : w \notin no_resize
    BY DEF IInv, TypeOK
  <2> QED  BY <2>1, LineAssumption DEF IInv, ResizeIsReached
<1> QED  BY <1>1, SpecInv, PTL
=============================================================================
