------------------------------- MODULE Proxy -------------------------------
(***************************************************************************)
(* The proxy backend: a server that owns the display and a shared memory   *)
(* buffer (proxy_backend.c), an application that draws into the buffer     *)
(* (gp_backend_proxy.c, under the main loop of gp_widget_render.c), and    *)
(* the two streams of messages between them.                               *)
(*                                                                         *)
(* The server's user shows and hides the application, the display changes  *)
(* its size, either side may go away. What the server sends in one go may  *)
(* arrive in pieces: the application reads one message after the other and *)
(* may stop after each.                                                    *)
(*                                                                         *)
(* The application draws from one thread, as the widgets do. Its user is   *)
(* patient: see Patient. Input events, names, cursors and the resize event *)
(* are left out.                                                           *)
(***************************************************************************)
EXTENDS Naturals, Sequences, FiniteSets

CONSTANTS
  Sizes,               \* sizes of the display, and so of the buffer
  UPDATE_COOKIES_MAX,  \* slots for answers to updates
  MaxHides,            \* bound: how often the user hides the application
  MaxResizes           \* bound: how often the display is resized

ASSUME ProxyAssumption ==
  /\ Sizes \subseteq Nat \ {0}
  /\ UPDATE_COOKIES_MAX \in Nat \ {0}
  /\ MaxHides \in Nat /\ MaxResizes \in Nat

VARIABLES
  cli_shown, listed,     \* the application is shown; the server knows it
  screen, shm,           \* sizes of the display and of the shared buffer
  alive,                 \* the server runs
  owes,                  \* history: an UNMAP was sent and is not answered
  hides, resizes,        \* how often, for the bounds
  toCli, toSrv,          \* messages on their way
  map,                   \* the size that is mapped, 0 for none
  pixmap,                \* backend->pixmap: "none", "dummy" or "shm"
  shm_pixmap, pixels,    \* its size; whether its pixels are in the mapping
  visible, unmap_requested, sys_quit_requested,
  update_cookies,        \* answers to updates that nobody took
  evs,                   \* the system events in the event queue
  buf,                   \* ctx.buf is set
  pc,                    \* where the application is
  cookie                 \* of the update it waits for

server == <<cli_shown, listed, screen, shm, alive, owes, hides, resizes>>
buffer == <<map, pixmap, shm_pixmap, pixels>>
client == <<buffer, visible, unmap_requested, sys_quit_requested, update_cookies, evs, buf, pc, cookie>>
vars == <<server, toCli, toSrv, client>>

Msg(type) == [type |-> type, val |-> 0]
MsgOf(type, val) == [type |-> type, val |-> val]

\* The application handles events, polls, waits in proxy_update_rect(), has left
\* its loop after a QUIT, was killed, by exit() or by SIGPIPE, or has crashed.
Where == {"events", "poll", "wait", "left", "killed", "crashed"}
Gone == pc \in {"left", "killed", "crashed"}

TypeOK ==
  /\ cli_shown \in BOOLEAN /\ listed \in BOOLEAN /\ alive \in BOOLEAN /\ owes \in BOOLEAN
  /\ screen \in Sizes /\ shm \in Sizes /\ map \in Sizes \cup {0} /\ shm_pixmap \in Sizes \cup {0}
  /\ pixmap \in {"none", "dummy", "shm"} /\ pixels \in BOOLEAN
  /\ visible \in BOOLEAN /\ unmap_requested \in BOOLEAN /\ sys_quit_requested \in BOOLEAN
  /\ buf \in BOOLEAN /\ pc \in Where
  /\ evs \in Seq({"start", "stop", "quit"})
  /\ hides \in Nat /\ resizes \in Nat /\ cookie \in Nat /\ update_cookies \subseteq Nat
  /\ toCli \in Seq([type : {"MAP", "PIXMAP"}, val : Sizes] \cup [type : {"UPDATE"}, val : Nat]
                   \cup {Msg(t) : t \in {"SHOW", "HIDE", "UNMAP", "EXIT"}})
  /\ toSrv \in Seq([type : {"UPDATE"}, val : Nat] \cup {Msg(t) : t \in {"MAP", "UNMAP", "EXIT"}})

---------------------------------------------------------------------------
(* The server. *)

ShowMsgs(size) == <<MsgOf("MAP", size), MsgOf("PIXMAP", size), Msg("SHOW")>>

\* The user shows the application again, and resizes the display with nothing
\* shown, only when it has dealt with having been hidden: the code does not wait.
Patient == ~owes /\ toCli = <<>> /\ \A i \in DOMAIN evs : evs[i] # "stop"

show_client ==
  /\ alive /\ listed /\ ~cli_shown /\ Patient
  /\ cli_shown' = TRUE
  /\ toCli' = toCli \o ShowMsgs(shm)
  /\ UNCHANGED <<listed, screen, shm, alive, owes, hides, resizes, toSrv, client>>

hide_client ==
  /\ alive /\ cli_shown /\ hides < MaxHides
  /\ cli_shown' = FALSE /\ owes' = TRUE /\ hides' = hides + 1
  /\ toCli' = toCli \o <<Msg("HIDE"), Msg("UNMAP")>>
  /\ UNCHANGED <<listed, screen, shm, alive, resizes, toSrv, client>>

\* Mutated form: the buffer has its new size before the client has unmapped it.
ResizesAtOnce ==
  /\ alive /\ resizes < MaxResizes
  /\ resizes' = resizes + 1
  /\ screen' \in Sizes /\ shm' = screen'
  /\ toCli' = IF cli_shown THEN Append(toCli, Msg("UNMAP")) ELSE toCli
  /\ owes' = (owes \/ cli_shown)
  /\ UNCHANGED <<cli_shown, listed, alive, hides, toSrv, client>>

resize_shown_client ==
  /\ alive /\ resizes < MaxResizes
  /\ resizes' = resizes + 1
  /\ screen' \in Sizes
  /\ \/ /\ ~cli_shown /\ Patient
        /\ shm' = screen'
        /\ UNCHANGED <<toCli, owes>>
     \/ /\ cli_shown
        /\ toCli' = Append(toCli, Msg("UNMAP")) /\ owes' = TRUE
        /\ UNCHANGED shm
  /\ UNCHANGED <<cli_shown, listed, alive, hides, toSrv, client>>

\* Ctrl+q
RequestExit ==
  /\ alive /\ cli_shown /\ ~sys_quit_requested /\ Msg("EXIT") \notin {toCli[i] : i \in DOMAIN toCli}
  /\ toCli' = Append(toCli, Msg("EXIT"))
  /\ UNCHANGED <<server, toSrv, client>>

on_unmap ==
  /\ owes' = FALSE
  /\ \/ cli_shown /\ shm' = screen /\ toCli' = toCli \o ShowMsgs(screen)
     \/ ~cli_shown /\ UNCHANGED <<shm, toCli>>

shm_update(rect) ==
  /\ \/ cli_shown /\ toCli' = Append(toCli, rect)
     \/ ~cli_shown /\ UNCHANGED toCli
  /\ UNCHANGED <<shm, owes>>

client_event ==
  /\ alive /\ listed /\ toSrv # <<>>
  /\ toSrv' = Tail(toSrv)
  /\ LET msg == Head(toSrv) IN
       \/ msg.type = "UNMAP" /\ on_unmap
       \/ msg.type = "UPDATE" /\ shm_update(msg)
       \/ msg.type \in {"MAP", "EXIT"} /\ UNCHANGED <<shm, owes, toCli>>
  /\ UNCHANGED <<cli_shown, listed, screen, alive, hides, resizes, client>>

\* The application closed its end.
err_rem_cli ==
  /\ alive /\ listed /\ Gone /\ toSrv = <<>>
  /\ listed' = FALSE /\ cli_shown' = FALSE /\ owes' = FALSE
  /\ UNCHANGED <<screen, shm, alive, hides, resizes, toCli, toSrv, client>>

ServerDies ==
  /\ alive /\ alive' = FALSE
  /\ UNCHANGED <<cli_shown, listed, screen, shm, owes, hides, resizes, toCli, toSrv, client>>

---------------------------------------------------------------------------
(* The application reads from the server: gp_poll_wait() runs              *)
(* proxy_process_fd(), and proxy_update_rect() waits for an answer.        *)

Reading == pc \in {"poll", "wait"}

Receives(type) ==
  /\ Reading /\ toCli # <<>> /\ Head(toCli).type = type
  /\ toCli' = Tail(toCli)
  /\ UNCHANGED server

Push(ev) == evs' = Append(evs, ev)

\* Nobody reads any more: SIGPIPE, which only the server ignores, kills.
Send(msg, next) ==
  /\ pc' = IF alive THEN next ELSE "killed"
  /\ toSrv' = IF alive THEN Append(toSrv, msg) ELSE toSrv

map_buffer ==
  /\ Receives("MAP")
  /\ map' = Head(toCli).val /\ pixels' = FALSE
  /\ Send(Msg("MAP"), pc)
  /\ UNCHANGED <<pixmap, shm_pixmap, visible, unmap_requested, sys_quit_requested, update_cookies,
                 evs, buf, cookie>>

init_pixmap ==
  /\ Receives("PIXMAP")
  /\ \/ map = 0 /\ UNCHANGED <<shm_pixmap, pixels>>
     \/ map # 0 /\ shm_pixmap' = Head(toCli).val /\ pixels' = TRUE
  /\ UNCHANGED <<toSrv, map, pixmap, visible, unmap_requested, sys_quit_requested, update_cookies,
                 evs, buf, pc, cookie>>

Visible ==
  /\ Receives("SHOW")
  /\ pixmap' = "shm" /\ visible' = TRUE
  /\ Push("start")
  /\ UNCHANGED <<toSrv, map, shm_pixmap, pixels, unmap_requested, sys_quit_requested,
                 update_cookies, buf, pc, cookie>>

hidden ==
  /\ Receives("HIDE")
  /\ visible' = FALSE
  /\ Push("stop")
  /\ UNCHANGED <<toSrv, buffer, unmap_requested, sys_quit_requested, update_cookies, buf, pc, cookie>>

\* Mutated form: the client unmaps when it is asked to, whatever is drawn.
UnmapsAtOnce ==
  /\ Receives("UNMAP") /\ map' = 0 /\ pixels' = FALSE /\ Push("stop")
  /\ Send(Msg("UNMAP"), pc)
  /\ UNCHANGED <<pixmap, shm_pixmap, visible, unmap_requested, sys_quit_requested, update_cookies,
                 buf, cookie>>

unmap_buffer ==
  /\ Receives("UNMAP")
  /\ \/ map = 0 /\ UNCHANGED <<unmap_requested, evs>>
     \/ map # 0 /\ unmap_requested' = TRUE /\ Push("stop")
  /\ UNCHANGED <<toSrv, buffer, visible, sys_quit_requested, update_cookies, buf, pc, cookie>>

update_cookie_add ==
  /\ Receives("UPDATE")
  /\ update_cookies' = IF Cardinality(update_cookies) < UPDATE_COOKIES_MAX
                       THEN update_cookies \cup {Head(toCli).val} ELSE update_cookies
  /\ UNCHANGED <<toSrv, buffer, visible, unmap_requested, sys_quit_requested, evs, buf, pc, cookie>>

QuitRequested ==
  /\ Receives("EXIT")
  /\ Push("quit") /\ sys_quit_requested' = TRUE
  /\ UNCHANGED <<toSrv, buffer, visible, unmap_requested, update_cookies, buf, pc, cookie>>

\* Mutated form: an update goes on to wait where nothing will come.
WaitsForNobody ==
  /\ pc = "poll" /\ toCli = <<>> /\ ~alive /\ ~sys_quit_requested
  /\ sys_quit_requested' = TRUE /\ Push("quit")
  /\ UNCHANGED <<server, toCli, toSrv, buffer, visible, unmap_requested, update_cookies, buf, pc, cookie>>

\* recv() returns 0: the program gets one QUIT event, and is killed the next time.
ConnectionClosed ==
  /\ Reading /\ toCli = <<>> /\ ~alive
  /\ sys_quit_requested' = TRUE
  /\ \/ ~sys_quit_requested /\ Push("quit") /\ UNCHANGED pc
     \/ sys_quit_requested /\ pc' = "killed" /\ UNCHANGED evs
  /\ UNCHANGED <<server, toCli, toSrv, buffer, visible, unmap_requested, update_cookies, buf, cookie>>

proxy_recv_events ==
  \/ map_buffer \/ init_pixmap \/ Visible \/ hidden \/ unmap_buffer
  \/ update_cookie_add \/ QuitRequested \/ ConnectionClosed

PollDone ==
  /\ pc = "poll" /\ evs # <<>>
  /\ pc' = "events"
  /\ UNCHANGED <<server, toCli, toSrv, buffer, visible, unmap_requested, sys_quit_requested,
                 update_cookies, evs, buf, cookie>>

---------------------------------------------------------------------------
(* The application draws. *)

Loop(queued) == IF queued = <<>> THEN "poll" ELSE "events"

\* The counter, which is unique for 2^32 updates: one that is not in use.
InUse == update_cookies \cup {toCli[i].val : i \in DOMAIN toCli} \cup {toSrv[i].val : i \in DOMAIN toSrv}
NewCookie == CHOOSE c \in 1 .. UPDATE_COOKIES_MAX + Len(toCli) + Len(toSrv) + 1 : c \notin InUse

\* Sends UPDATE and starts to wait, if visible.
proxy_update_rect(queued) ==
  \/ /\ visible
     /\ cookie' = NewCookie
     /\ Send(MsgOf("UPDATE", NewCookie), "wait")
  \/ /\ ~visible
     /\ pc' = Loop(queued)
     /\ UNCHANGED <<cookie, toSrv>>

\* Mutated form: only the answer ends the wait, which a hidden client never gets.
NoFakeCompletion ==
  /\ pc = "wait" /\ cookie \in update_cookies
  /\ update_cookies' = update_cookies \ {cookie}
  /\ pc' = Loop(evs) /\ cookie' = 0
  /\ UNCHANGED <<server, toCli, toSrv, buffer, visible, unmap_requested, sys_quit_requested, evs, buf>>

\* The wait ends: hidden, or with the answer, which only then is taken out.
update_cookie_clear ==
  /\ pc = "wait" /\ (~visible \/ cookie \in update_cookies)
  /\ update_cookies' = IF visible THEN update_cookies \ {cookie} ELSE update_cookies
  /\ pc' = Loop(evs) /\ cookie' = 0
  /\ UNCHANGED <<server, toCli, toSrv, buffer, visible, unmap_requested, sys_quit_requested, evs, buf>>

Handles(ev) ==
  /\ pc = "events" /\ Head(evs) = ev
  /\ evs' = Tail(evs)
  /\ UNCHANGED <<server, toCli, visible, sys_quit_requested, update_cookies>>

\* Mutated form: the buffer is given back only when the application is hidden.
KeepsWhileVisible ==
  /\ Handles("stop") /\ buf' = FALSE
  /\ \/ /\ unmap_requested /\ ~visible /\ unmap_requested' = FALSE
        /\ map' = 0 /\ pixmap' = "none" /\ pixels' = FALSE
        /\ Send(Msg("UNMAP"), Loop(Tail(evs)))
     \/ /\ ~unmap_requested \/ visible
        /\ pc' = Loop(Tail(evs))
        /\ UNCHANGED <<unmap_requested, map, pixmap, pixels, toSrv>>
  /\ UNCHANGED <<shm_pixmap, cookie>>

proxy_render_stopped ==
  /\ Handles("stop") /\ buf' = FALSE
  /\ \/ /\ unmap_requested /\ unmap_requested' = FALSE
        /\ map' = 0 /\ pixmap' = "none" /\ pixels' = FALSE
        /\ Send(Msg("UNMAP"), Loop(Tail(evs)))
     \/ /\ ~unmap_requested /\ pc' = Loop(Tail(evs))
        /\ UNCHANGED <<unmap_requested, map, pixmap, pixels, toSrv>>
  /\ UNCHANGED <<shm_pixmap, cookie>>

RenderStart ==
  /\ Handles("start") /\ buf' = (pixmap # "none")
  /\ proxy_update_rect(Tail(evs))
  /\ UNCHANGED <<buffer, unmap_requested>>

Quit ==
  /\ Handles("quit")
  /\ pc' = "left" /\ toSrv' = IF alive THEN Append(toSrv, Msg("EXIT")) ELSE toSrv
  /\ UNCHANGED <<buffer, unmap_requested, buf, cookie>>

\* A widget changed, and gp_widgets_redraw() draws it if there is a pixmap: it asks
\* for backend->pixmap, which stays until an UNMAP was answered, and draws to
\* ctx.buf, which a RENDER_STOP has set to NULL. It dereferences that.
Redraw ==
  /\ pc = "poll" /\ evs = <<>> /\ pixmap = "shm"
  /\ \/ buf /\ proxy_update_rect(<<>>)
     \/ ~buf /\ pc' = "crashed" /\ UNCHANGED <<cookie, toSrv>>
  /\ UNCHANGED <<server, toCli, buffer, visible, unmap_requested, sys_quit_requested, update_cookies,
                 evs, buf>>

---------------------------------------------------------------------------
Init ==
  /\ cli_shown = FALSE /\ listed = TRUE /\ alive = TRUE /\ owes = FALSE
  /\ screen \in Sizes /\ shm = screen /\ hides = 0 /\ resizes = 0
  /\ toCli = <<>> /\ toSrv = <<>>
  /\ map = 0 /\ pixmap = "dummy" /\ shm_pixmap = 0 /\ pixels = FALSE
  /\ visible = FALSE /\ unmap_requested = FALSE /\ sys_quit_requested = FALSE
  /\ update_cookies = {} /\ evs = <<>> /\ buf = FALSE /\ pc = "poll" /\ cookie = 0

Server ==
  \/ show_client \/ hide_client \/ resize_shown_client \/ RequestExit
  \/ client_event \/ err_rem_cli \/ ServerDies

HandlesEvents == proxy_render_stopped \/ RenderStart \/ Quit

Next == Server \/ proxy_recv_events \/ PollDone \/ update_cookie_clear \/ HandlesEvents \/ Redraw

\* The server reads what it gets. The application's loop goes on, and in each turn
\* reads what is there before it draws; its wait in an update blocks on nothing else.
Fairness ==
  /\ WF_vars(client_event)
  /\ WF_vars(PollDone) /\ WF_vars(HandlesEvents) /\ WF_vars(update_cookie_clear)
  /\ SF_vars(proxy_recv_events)

Spec == Init /\ [][Next]_vars
FairSpec == Spec /\ Fairness

---------------------------------------------------------------------------
Drawable == pixmap = "shm" /\ pixels /\ shm_pixmap <= map /\ map <= shm

\* Whenever the application may draw, or is about to start, the pixmap is in memory
\* that is mapped, and the buffer behind it was not cut under it. The one render
\* into nothing, which ends the program, is that of an application that has handled
\* its HIDE and has still to read the UNMAP the server sent next: it was told to
\* stop rendering, and does not. With any other hide, resize or show it does.
RendersIntoMappedBuffer ==
  /\ buf /\ ~Gone => Drawable
  /\ pc = "events" /\ evs # <<>> => (Head(evs) = "start" => Drawable)
  /\ pc = "crashed" => ~visible /\ \E i \in DOMAIN toCli : toCli[i].type = "UNMAP"

Mappings == (IF map = 0 THEN 0 ELSE 1) + Cardinality({i \in DOMAIN toCli : toCli[i].type = "MAP"})

\* The messages keep to the lease: one mapping at a time, and a new size of the
\* buffer only while the application has none and none is on its way.
Lease == INSTANCE BufferLease WITH size <- shm, lent <- IF Gone THEN 0 ELSE Mappings
ImplementsLease == Lease!Spec

\* proxy_update_rect() returns, whatever happens to its answer: it is hidden, the
\* buffer is taken away, the server dies.
UpdateReturns == pc = "wait" ~> pc # "wait"

\* Every UNMAP is answered, however many were sent, as long as both sides run.
UnmapIsAnswered == owes ~> ~owes \/ ~alive \/ Gone

\* An application whose server died does not stay behind.
ServerDeathEndsApp == ~alive ~> Gone
=============================================================================
