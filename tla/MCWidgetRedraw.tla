-------------------------- MODULE MCWidgetRedraw --------------------------
(* A layout with a container of each kind that hides its children, nested: *)
(* tabs > layout switch > overlay > scroll area > grid > a leaf.           *)
EXTENDS WidgetRedraw

MCWidgets == {"tabs", "page", "switch", "overlay", "scroll", "grid", "label"}
MCKind == [w \in MCWidgets |->
  CASE w = "switch" -> "layout_switch" [] w = "scroll" -> "scroll_area"
    [] w \in {"tabs", "overlay", "grid"} -> w [] OTHER -> "leaf"]
MCParent ==
  [page |-> "tabs", switch |-> "tabs", overlay |-> "switch", scroll |-> "overlay",
   grid |-> "scroll", label |-> "grid"]
MCAbove ==
  LET pane == {"tabs", "switch", "overlay"}
  IN [tabs |-> {}, page |-> {"tabs"}, switch |-> {"tabs"},
      overlay |-> {"tabs", "switch"}, scroll |-> pane,
      grid |-> pane \cup {"scroll"}, label |-> pane \cup {"scroll", "grid"}]
=============================================================================
