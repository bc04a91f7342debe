--------------------------- MODULE WidgetRedraw ---------------------------
(***************************************************************************)
(* The repaint and layout flags of the widgets (gp_widget_ops.c), the      *)
(* containers that hide some of their children (tabs, layout switch,       *)
(* overlay, scroll area), and the two places that render a layout          *)
(* (gp_widget_render.c): the main loop and the start of rendering.         *)
(*                                                                         *)
(* A widget that has to be painted only leaves flags on its way up to the  *)
(* root, each step returning early where a flag is set already; rendering  *)
(* follows the flags down, skips what is hidden or clipped together with   *)
(* the flags below, and clears the flags it passed.                        *)
(*                                                                         *)
(* What painting one widget does to the pixels of others is not modelled:  *)
(* `stale` is what asked to be painted or came into view.                  *)
(***************************************************************************)
CONSTANTS
  Widgets,    \* all widgets of the layout
  Root,       \* the layout, the widget without a parent
  Parent,     \* the parent of each other widget
  Above,      \* the ancestors of each widget
  Kind,       \* what a widget is
  Asked       \* the widgets the program changes, disables and resizes

Containers == {"grid", "frame", "tabs", "layout_switch", "overlay", "scroll_area"}

ASSUME KindsAssumption == Kind \in [Widgets -> Containers \cup {"leaf"}]

ASSUME TreeAssumption ==
  /\ Root \in Widgets
  /\ Parent \in [Widgets \ {Root} -> Widgets]
  /\ Above \in [Widgets -> SUBSET Widgets]
  /\ Above[Root] = {}
  /\ \A w \in Widgets \ {Root} : Above[w] = Above[Parent[w]] \cup {Parent[w]}
  /\ \A w \in Widgets : w \notin Above[w]

\* Two consequences of a tree being finite: ancestors of ancestors are
\* ancestors, and the ancestors of a widget are in line.
ASSUME LineAssumption ==
  /\ \A w \in Widgets : \A a \in Above[w] : Above[a] \subseteq Above[w]
  /\ \A w \in Widgets : \A u, v \in Above[w] : u = v \/ u \in Above[v] \/ v \in Above[u]
  /\ \A w \in Widgets \ {Root} : Root \in Above[w]

ASSUME LeavesAssumption == \A w \in Widgets \ {Root} : Kind[Parent[w]] # "leaf"

VARIABLES
  redraw, redraw_child, redraw_children, no_resize,  \* the flags: who has them set
  active,     \* widgets their container shows: active tab, layout, not hidden
  clipped,    \* widgets outside of the view of a scroll area above them
  rendering,  \* there is a pixmap: between RENDER_START and RENDER_STOP
  front,      \* whose loop runs: "app", or "dialog" (gp_dialog_run)
  back_from_dialog,
  stale       \* history: asked to be painted, or came into view, and was not

flags == <<redraw, redraw_child, redraw_children>>
view == <<active, clipped>>
loop == <<rendering, front, back_from_dialog>>
vars == <<flags, no_resize, view, loop, stale>>

Path == [w \in Widgets |-> Above[w] \cup {w}]
Below == [w \in Widgets |-> {v \in Widgets : w \in Above[v]}]
ChildrenOf == [w \in Widgets |-> {v \in Widgets \ {Root} : Parent[v] = w}]
Clippable == {w \in Widgets : \E a \in Above[w] : Kind[a] = "scroll_area"}

\* What the views of the scroll areas may leave out: with a container all in it.
Views == {out \in SUBSET Clippable : \A w \in out : Below[w] \subseteq out}

Visible(w) == Path[w] \subseteq active /\ Path[w] \cap clipped = {}

\* The widgets from w up to, and without, the first that is in set already.
UpTo(w, set) ==
  {v \in Path[w] : \A u \in Path[w] : (u = v \/ v \in Above[u]) => u \notin set}

\* The flags are flags of widgets of this layout.
TypeOK ==
  /\ redraw \subseteq Widgets /\ redraw_child \subseteq Widgets
  /\ redraw_children \subseteq Widgets
  /\ no_resize \subseteq Widgets
  /\ active \subseteq Widgets /\ Root \in active
  /\ clipped \in Views
  /\ rendering \in BOOLEAN /\ front \in {"app", "dialog"} /\ back_from_dialog \in BOOLEAN
  /\ stale \subseteq Widgets

---------------------------------------------------------------------------
(* Asking for a repaint. *)

gp_widget_redraw_child(rc, w) == rc \cup UpTo(w, rc)

RedrawUp(rc, w) ==
  IF w \in redraw \/ w = Root THEN rc ELSE gp_widget_redraw_child(rc, Parent[w])

gp_widget_redraw(w) ==
  /\ redraw' = redraw \cup {w}
  /\ redraw_child' = RedrawUp(redraw_child, w)
  /\ UNCHANGED redraw_children

\* Mutated form: the children are to be painted and nobody further up knows.
ChildrenOnly(w) ==
  /\ redraw_children' = redraw_children \cup {w}
  /\ UNCHANGED <<redraw, redraw_child>>

gp_widget_redraw_children(w) ==
  /\ redraw_children' = redraw_children \cup {w}
  /\ redraw_child' = gp_widget_redraw_child(redraw_child, w)
  /\ UNCHANGED redraw

RedrawAll(w) ==
  /\ redraw' = redraw \cup {w}
  /\ redraw_children' = redraw_children \cup {w}
  /\ redraw_child' = gp_widget_redraw_child(RedrawUp(redraw_child, w), w)

\* The content of a widget changes: a label, a progress bar, the focus.
Change(w) ==
  /\ gp_widget_redraw(w)
  /\ stale' = stale \cup {w}
  /\ UNCHANGED <<no_resize, view, loop>>

\* gp_widget_disable() and gp_widget_enable() change how all below is painted.
Disable(w) ==
  /\ RedrawAll(w)
  /\ stale' = stale \cup Below[w] \cup {w}
  /\ UNCHANGED <<no_resize, view, loop>>

---------------------------------------------------------------------------
(* Containers that show, hide and move their children. *)

\* Mutated form: the switch is painted, and only those below it that have flags.
SwitchRedrawsItself(w, c) ==
  /\ Kind[w] = "layout_switch" /\ c \in ChildrenOf[w]
  /\ active' = (active \ ChildrenOf[w]) \cup {c}
  /\ gp_widget_redraw(w)
  /\ stale' = stale \cup Below[w]
  /\ UNCHANGED <<no_resize, clipped, loop>>

gp_widget_layout_switch_layout(w, c) ==
  /\ Kind[w] = "layout_switch" /\ c \in ChildrenOf[w]
  /\ active' = (active \ ChildrenOf[w]) \cup {c}
  /\ gp_widget_redraw_children(w)
  /\ stale' = stale \cup Below[w]
  /\ UNCHANGED <<no_resize, clipped, loop>>

set_tab(w, c) ==
  /\ Kind[w] = "tabs" /\ c \in ChildrenOf[w] \ active
  /\ active' = (active \ ChildrenOf[w]) \cup {c}
  /\ RedrawAll(w)
  /\ stale' = stale \cup Below[w] \cup {w}
  /\ UNCHANGED <<no_resize, clipped, loop>>

gp_widget_overlay_hide(w, c) ==
  /\ Kind[w] = "overlay" /\ c \in ChildrenOf[w] \cap active
  /\ active' = active \ {c}
  /\ gp_widget_redraw_children(w)
  /\ stale' = stale \cup Below[w]
  /\ UNCHANGED <<no_resize, clipped, loop>>

gp_widget_overlay_show(w, c) ==
  /\ Kind[w] = "overlay" /\ c \in ChildrenOf[w] \ active
  /\ active' = active \cup {c}
  /\ gp_widget_redraw_children(w)
  /\ stale' = stale \cup Below[w]
  /\ UNCHANGED <<no_resize, clipped, loop>>

\* set_x_off() and set_y_off(): anything below may enter or leave the view.
set_off(w) ==
  /\ Kind[w] = "scroll_area"
  /\ clipped' \in Views /\ clipped' \ Below[w] = clipped \ Below[w]
  /\ RedrawAll(w)
  /\ stale' = stale \cup Below[w] \cup {w}
  /\ UNCHANGED <<no_resize, active, loop>>

---------------------------------------------------------------------------
(* Layout and rendering. *)

\* A leaf whose minimal size is the same asks nobody; a container always does.
gp_widget_resize(w) ==
  /\ w \in no_resize
  /\ no_resize' = no_resize \ UpTo(w, Widgets \ no_resize)
  /\ UNCHANGED <<flags, view, loop, stale>>

\* The flag GP_WIDGET_REDRAW, inherited from a redraw_children further up.
Whole(w) == Above[w] \cap redraw_children # {}

\* A grid looks at its children itself, before the flag GP_WIDGET_REDRAW_CHILDREN
\* it was given is turned into GP_WIDGET_REDRAW.
GridSkips(w, r) ==
  /\ w # Root /\ Kind[Parent[w]] = "grid"
  /\ w \notin r \cup redraw_child /\ ~Whole(Parent[w])

\* A walk with the widgets r to be repainted, and with out outside of the views.
Enters(w, r, out) ==
  /\ w \in active \ out
  /\ w \in r \cup redraw_child \/ Whole(w)
  /\ ~GridSkips(w, r)

Rendered(r, out) == {w \in Widgets : \A v \in Path[w] : Enters(v, r, out)}
Painted(r, out) == {w \in Rendered(r, out) : w \in r \/ Whole(w)}

\* gp_widget_ops_render() from the root down, over what was stale before it.
gp_widget_ops_render(r, out, before) ==
  /\ redraw' = r \ Rendered(r, out)
  /\ redraw_child' = redraw_child \ Rendered(r, out)
  /\ redraw_children' = redraw_children \ Rendered(r, out)
  /\ clipped' = out
  /\ stale' = before \ Painted(r, out)

\* Mutated form: hidden children are not laid out, and keep their requests.
LaysOutShown(new_wh, before) ==
  \/ /\ new_wh \/ Root \notin no_resize
     /\ no_resize' = no_resize \cup {w \in Widgets : Path[w] \subseteq active}
     /\ \E out \in Views : gp_widget_ops_render(Widgets, out, before)
  \/ /\ ~new_wh /\ Root \in no_resize
     /\ gp_widget_ops_render(redraw, clipped, before)
     /\ UNCHANGED no_resize

\* gp_widget_render(): gp_widget_calc_size() marks everything it lays out, and
\* moves it.
gp_widget_render(new_wh, before) ==
  \/ /\ new_wh \/ Root \notin no_resize
     /\ no_resize' = Widgets
     /\ \E out \in Views : gp_widget_ops_render(Widgets, out, before)
  \/ /\ ~new_wh /\ Root \in no_resize
     /\ gp_widget_ops_render(redraw, clipped, before)
     /\ UNCHANGED no_resize

---------------------------------------------------------------------------
(* The program's loop. *)

Pending == Root \in redraw \cup redraw_child

\* gp_widgets_redraw(), with a pixmap that is large enough.
gp_widgets_redraw ==
  /\ front = "app" /\ rendering /\ Pending
  /\ gp_widget_render(back_from_dialog, stale)
  /\ back_from_dialog' = FALSE
  /\ UNCHANGED <<active, rendering, front>>

\* gp_widgets_redraw() asks for a window of the right size after a dialog.
ResizeAfterDialog ==
  /\ front = "app" /\ rendering /\ Pending /\ back_from_dialog
  /\ redraw' = Widgets /\ no_resize' = Widgets /\ clipped' \in Views
  /\ back_from_dialog' = FALSE
  /\ UNCHANGED <<redraw_child, redraw_children, active, rendering, front, stale>>

\* GP_EV_SYS_RENDER_STOP, with the pixmap given back.
RenderStop ==
  /\ rendering /\ rendering' = FALSE
  /\ UNCHANGED <<flags, no_resize, view, front, back_from_dialog, stale>>

\* GP_EV_SYS_RENDER_START: the pixmap is filled, the layout in front rendered.
RenderStart ==
  /\ ~rendering /\ rendering' = TRUE
  /\ \/ front = "app" /\ gp_widget_render(TRUE, Widgets)
     \/ front = "dialog" /\ stale' = Widgets /\ UNCHANGED <<flags, no_resize, clipped>>
  /\ UNCHANGED <<active, front, back_from_dialog>>

\* A new color scheme: the root is rendered with GP_WIDGET_REDRAW.
widget_render_refresh ==
  /\ rendering /\ front = "app"
  /\ \/ Root \notin no_resize /\ gp_widget_render(FALSE, Widgets)
     \/ /\ Root \in no_resize
        /\ gp_widget_ops_render(Widgets, clipped, Widgets)
        /\ UNCHANGED no_resize
  /\ UNCHANGED <<active, loop>>

\* The dialog's own widgets are not modelled, the application's change below it.
gp_dialog_run ==
  /\ front = "app" /\ front' = "dialog"
  /\ UNCHANGED <<flags, no_resize, view, rendering, back_from_dialog, stale>>

\* gp_widget_layout_replace() of the saved layout when the dialog ends.
DialogReturns ==
  /\ front = "dialog" /\ front' = "app" /\ back_from_dialog' = TRUE
  /\ redraw' = Widgets /\ clipped' \in Views
  /\ no_resize' = Widgets \ {Root}
  /\ stale' = Widgets
  /\ UNCHANGED <<redraw_child, redraw_children, active, rendering>>

---------------------------------------------------------------------------
\* A new layout, every widget at its first calc_size(): all to be painted.
Init ==
  /\ redraw = Widgets /\ redraw_child = {} /\ redraw_children = {}
  /\ no_resize = Widgets
  /\ active \in SUBSET Widgets /\ Root \in active
  /\ \A w \in Widgets :
       LET shown == ChildrenOf[w] \cap active IN
       CASE Kind[w] \in {"tabs", "layout_switch"} -> ChildrenOf[w] = {} \/ \E c \in Widgets : shown = {c}
         [] Kind[w] = "overlay" -> TRUE
         [] OTHER -> shown = ChildrenOf[w]
  /\ clipped \in Views
  /\ rendering = TRUE /\ front = "app" /\ back_from_dialog = FALSE
  /\ stale = Widgets

\* What the program asks of one widget. Not gp_widget_disable() of a grid: the flag
\* redraw_children of a grid is lost, see GridSkips.
Asks(w) ==
  \/ w \in Asked /\ (Change(w) \/ gp_widget_resize(w))
  \/ w \in Asked /\ Kind[w] # "grid" /\ Disable(w)
  \/ set_off(w)
  \/ \E c \in Widgets :
       \/ gp_widget_layout_switch_layout(w, c) \/ set_tab(w, c)
       \/ gp_widget_overlay_hide(w, c) \/ gp_widget_overlay_show(w, c)

Loop ==
  \/ gp_widgets_redraw \/ ResizeAfterDialog
  \/ RenderStop \/ RenderStart \/ widget_render_refresh
  \/ gp_dialog_run \/ DialogReturns

Next == Loop \/ \E w \in Widgets : Asks(w)

Spec == Init /\ [][Next]_vars

---------------------------------------------------------------------------
\* Whatever was changed, shown, moved into view or uncovered while the flags were
\* partly set, hidden or cleared: as long as something visible is out of date, the
\* root says so, and gp_widgets_redraw() will not return early.
NoLostRedraw ==
  front = "app" => \A w \in stale : Visible(w) => Pending

\* A repaint reaches all that is out of date and visible by then: no early return
\* of the flags on the way up cuts off the walk on the way down.
RedrawPaintsAll ==
  [][gp_widgets_redraw => \A w \in Widgets : Visible(w)' => w \notin stale']_vars

\* gp_widget_calc_size() looks at the root alone: a layout asked for anywhere below,
\* in a hidden tab as well, is in its flag until the next repaint does it.
NoLostResize == no_resize # Widgets => Root \notin no_resize
=============================================================================
