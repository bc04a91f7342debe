# TLA+ models of GFXprim

GFXprim is a C library for 2D graphics with a widget toolkit on top. This
directory models the parts of it that have state which outlives a call: the
queues of the main loop, the loop itself, what runs beside it, and what is built
on it: the proxy display, the widgets' repaints and an image viewer. TLC checks
the models on small instances; TLAPS proves the main results for every value of
the constants.

    tlc -workers 2 -config MCTaskQueue.cfg MCTaskQueue     # one run
    tlapm TaskQueue_proofs.tla                             # one proof

`PROJECT.json` lists the runs, the theorems, the source lines each definition
models, a mutated definition that breaks each property, the hazards of the code
and the findings.

## 1. The system

A program opens a *backend* (X11, Wayland, SDL, framebuffer, DRM, an e-ink
panel, or a proxy to another process), draws into its pixmap and loops over
`gp_backend_ev_wait()` or `gp_backend_wait()`. Everything runs in that one
thread, apart from repaints of e-ink and proxy displays, which any thread may
ask for, and threads programs start themselves.

| part | state | operations | interacts by |
|---|---|---|---|
| task queue, `libs/input/gp_task.c` | a doubly linked list per priority, `task_cnt`, `min_prio`, flags in the tasks | ins, rem, process | task callbacks, which call back into it |
| heap, `include/utils/gp_heap.h` | `left`, `right`, `up`, `children` in each node | ins, pop, rem | a comparison callback |
| timer queue, `libs/utils/gp_timer.c` | the heap, the user's root pointer, flags in the timers, the list of timers to put back | ins, rem, process, free | timer callbacks, `stopped()` callbacks |
| event queue, `libs/input/gp_event_queue.c` | a ring of events, a cursor at either end, pressed keys | push (8 kinds), get, peek, put, put back, resize, set cursor | drivers push, the program gets |
| main loop, `libs/backends/gp_backend.c` | the three queues, descriptors, the task timer | get, poll, wait, timers, tasks, fds | callbacks of all of them; `epoll`, `usleep` |
| descriptors, `libs/utils/linux/gp_poll.c` | the `epoll` instance and a list | add, rem, wait | callbacks |
| e-ink repaints, `libs/backends/linux/gp_display_eink.c` | flags of what runs and what is queued, a merged rectangle, a counter, a lock | update, update_rect, edge handler, exit | threads, the busy line of the panel |
| proxy, `libs/backends/linux/gp_backend_proxy*.c`, `demos/c_simple/proxy_backend.c` | mapped buffer, visibility, update cookies, message buffer | eleven messages, update, render stopped | two byte streams, shared memory, threads |
| widgets, `libs/widgets` | the tree with its redraw flags, ten timers, dialogs | render, event, timers, tasks | callbacks, the main loop |
| spiv, `demos/spiv` | two image caches, the loader thread, the list of images | show, seek, resize, drop | a thread with an abort flag |

### What is hard in them

* Nothing preempts the main thread, so the interleavings are those of
  **callbacks with the function that calls them**: a task or timer callback
  restarts, stops or frees its own timer, inserts others, or pushes events, while
  the caller is half way through. Correct means that the caller's cached values
  (`min_prio`, `*queue`, `task_cnt`) still hold when the callback returns.
* **Representation**: three pointers and a count in each heap node, two pointers
  and a count per list, a ring with one free slot. Correct means that they
  represent the set or sequence the user thinks of after any sequence of calls.
* **Two ends of a queue**: the driver's cursor and the program's, the keys that
  are held and those the program thinks are. Correct means that they agree once
  the queue is drained, unless an event was dropped.
* **Starvation and lost wake-ups** in the main loop: a sleep must end for timers,
  descriptors, events and tasks; none may hold back the others for ever.
* **Real concurrency** with a display that takes seconds to repaint: requests from
  any thread merge and wait, and none may be lost, nor cut off by the exit.
* **Two processes and shared memory** (proxy): messages that cross, notices that
  are handled long after they were read (HIDE and UNMAP become events, answered
  when the program gets to them), a peer that dies. Correct means that nobody
  touches memory that is not mapped, that is cut or given to another, and that
  nobody waits for an answer that will not come.
* **Early returns on the way up, skipped subtrees on the way down** (widgets): the
  flags of a tree are set with "stop where it is set already" and cleared with
  "skip what is hidden". Correct means that the two agree in every mixture of
  hidden, moved, half repainted and replaced.
* **An unlocked thread stopped by a flag** (spiv): parameters change under the
  loader, which is joined later, and caches free what it may hold.

The hazards in `PROJECT.json` name the lines.

## 2. The modules

| module | models | implements | checked by | proofs |
|---|---|---|---|---|
| `TaskSched` | a FIFO per priority (abstract) | | | |
| `TaskQueue` | `gp_task.c` on the pointers of `gp_list.h` | `TaskSched` | `MCTaskQueue` | `TaskQueue_proofs` |
| `GpHeap` | `gp_heap.h`, as operators on a record of links | | | |
| `HeapUser` | any user of the heap: inserts, removes and pops in any order | | `MCGpHeap` | `TimerQueue_proofs` |
| `TimerSched` | which timers run when (abstract) | | | |
| `TimerQueue` | `gp_timer.c` on `GpHeap` | `TimerSched` | `MCTimerQueue` | `TimerQueue_proofs` |
| `EventFifo` | a bounded FIFO (abstract) | | | |
| `EventQueue` | `gp_event_queue.c` | `EventFifo` | `MCEventQueue` | `EventQueue_proofs` |
| `Backend` | `gp_backend.c`, on `TimerSched`, `TaskSched`, `EventFifo` | | `MCBackend` | `Backend_proofs` |
| `DisplayEink` | `gp_display_eink.c` and what a panel driver does for it | | `MCDisplayEink` | `DisplayEink_proofs` |
| `BufferLease` | a buffer that is lent, returned and resized (abstract) | | | |
| `Proxy` | `gp_backend_proxy.c` and `proxy_backend.c`, with the render events of the main loop | `BufferLease` | `MCProxy` | `Proxy_proofs` |
| `WidgetRedraw` | `gp_widget_ops.c`, `gp_widget_render.c` and the containers, as far as they repaint and lay out | | `MCWidgetRedraw` | `WidgetRedraw_proofs` |
| `Spiv` | `demos/spiv`: `spiv.c`, `image_loader.c`, `image_cache.c` | | `MCSpiv` | `Spiv_proofs` |

Names of variables and actions are those of the source. A function is one action;
a function that calls back into the program is cut at the callback, and nowhere
else, because nothing else runs in between. `TaskQueue`, `TimerQueue` and
`EventQueue` each implement a short abstract specification, and `Backend` uses
those, not the pointers: what is proved or checked below justifies what is
assumed above.

### TaskQueue
`head`, `tail`, `cnt` are the `gp_dlist` of each priority, `next` and `prev` the
links in the tasks. `gp_task_queue_process()` is `ProcessBegin` (pop and call)
and `ProcessDone` or `ProcessYield` (the callback returned zero or not); between
them the task is in no list, and still `queued` and counted. `order` is auxiliary,
the sequence each list stands for; `ListsAreLinked` ties the pointers to it and
`TaskSched` is stated about it. The priority is a three bit field, so a task may
have one the queue rejects. `gp_task_queue_rem()` unlinks from
`queues[task->prio]`, the list behind the right one, and behind the array for the
last priority (list `Behind`); the program of `Spec` does not call it, that of
`SpecRem` does.

### GpHeap and TimerQueue
`GpHeap` gives each function of `gp_heap.h` as an operator that takes the links
and returns them as the function leaves them. A function that calls itself is
its body with `rec` in the place of the calls, and a recursive function over the
depth that puts the one into the other; a heap is never deeper than it has nodes.
`gp_heap_well_balanced()` tests a bit pattern in the code and that there is a
power of two in the model. `HeapUser` drives the heap alone;
`TimerQueue` uses it for the queue. `gp_timer_queue_process()` is `ProcessStart`,
then `ProcessTop` (pop, and call `timer->callback()`) and `CallbackReturns` for
each timer that is due, then `ProcessEnd` (put back what was rescheduled). As in
the code `queue` is the popped timer until the callback returned. The program may
at any time free a timer, and from its callback restart or stop it; `uaf` records
an access to freed memory. `TimerSched` says what a call does: everything due at
its start, earliest first, each once, and what is rescheduled waits for the next
call.

### EventQueue
The ring with its two indices, the cursor that moves when an event is pushed
(`cursor_x`) and the one that moves when it is taken out (`saved_cursor_x`), and
the pressed keys. One axis: the other one has the same code. `held`, `keys_lost`
and `synced` are auxiliary, what the drivers know. `gp_ev_queue_put_back()` is
wrong when `queue_first` is 0 (it goes to `queue_last - 1`), so the program calls
it only elsewhere.

### Backend
`pc` is where the loop is: the four entry points are `Call`, timers are processed
from `Enter` on, the sleeps are `"sleep"` (`epoll_wait()` or `self->wait()`),
`"usleep"` (backends with only a `poll()`) and `"program_sleep"` (a program with
a `poll()` of its own, on `gp_backend_fd()`). The task timer is a timer whose
callback runs one task. `batch` is what `epoll_wait()` returned; handlers read
their source and push events, start and stop timers and insert tasks. Left out:
removing tasks (see above), and starting timers or inserting the first task from a
callback of another timer, which loses the timer (finding
`timer_queue_others`), the task timer included. A clock that stopped at `MaxNow`
still lets sleeps end, and a timer of period 0 is due in every turn whatever the
clock does.

### DisplayEink
Every function runs under `repaint_lock`, hence as one action; `eink_exit()`
takes and releases it, then polls, hence two. `hw` is the panel: busy, or an edge
that nobody has read yet, or ready. `unsent` (auxiliary) are the columns an update
was asked for whose contents were not sent since. `eink_exit()` returns with the
lock held when the display is idle; users of the display after the exit are left
out.

### Proxy
Both processes and the two streams between them. The server's user shows and
hides the application (`show_client()`, `hide_client()`), the display is resized,
Ctrl+q sends EXIT; `client_event()` answers what the application sends. Each
message the application reads is an action: `map_buffer`, `init_pixmap`,
`Visible`, `hidden`, `unmap_buffer`, `update_cookie_add`, `QuitRequested`;
`ConnectionClosed` is the end of the stream. They are read in the poll of the main
loop or inside `proxy_update_rect()` while it waits for its answer (`pc`), one at
a time: a batch may end after any of them. HIDE, UNMAP and SHOW become events
(`evs`); `proxy_render_stopped` is the answer of the widgets to the first two,
where the buffer is unmapped in the end. `screen` and `shm` are what the display
measures and what the buffer has, which differ while an UNMAP is out. Whoever
sends to a dead server is killed by SIGPIPE (`Send`); the second end-of-stream
calls `exit()`.

`Redraw` is `gp_widgets_redraw()`, which asks only whether `backend->pixmap` is
there (`pixmap = "shm"`). That is not enough: the handler of the RENDER_STOP of a
HIDE sets the buffer of the drawing context to NULL and leaves the pixmap, which
goes with the UNMAP, a message of its own. A redraw between the two draws on NULL
and crashes (`pc = "crashed"`), although `gp_event.h` and `gp_proxy_proto.h` have
it that the application stops rendering. `RendersIntoMappedBuffer` says that it
happens there and nowhere else.

The code relies on a patient user, and `Patient` says where: an application that
has not yet handled its RENDER_STOP must not be shown again, nor the buffer be
resized while it is hidden. Nothing in the code waits for that; a HIDE, UNMAP,
MAP, PIXMAP, SHOW in one batch breaks what is proved here. It is in the list of
hazards, as one that no property covers.

`BufferLease` is what the messages are for: one mapping at a time, and a new size
only when nobody has the buffer. It is shown to be implemented with
`lent <- Mappings`, the mapping there is plus those on their way.

### WidgetRedraw
The flags of all widgets as sets (`redraw`, `redraw_child`, `redraw_children`,
`no_resize`), what containers show (`active`) and what scroll areas move out of
view (`clipped`). `gp_widget_redraw_child` climbs up to the first widget that has
the flag (`UpTo`); `gp_widget_ops_render` is the whole walk down: `Enters` is what
the dispatch of a widget asks before it goes on, `Rendered` the widgets it gets
to, whose flags it clears, `Painted` those it paints. `gp_widgets_redraw`,
`RenderStart`, `widget_render_refresh` and a dialog's return are the places that
start one. `stale` is a history of what asked to be painted or came into view. A
walk may move what is in view: the new `clipped` is any view the scroll areas can
have. A full repaint gives every widget the flag at once, hidden ones too, where
the code passes it down to the widgets in view; what comes into view later is
repainted for its parent's `redraw_children` in both.
A grid looks at its children's flags before its own were inherited
(`GridSkips`), so a disabled grid keeps its old look; the program does not
disable grids.

### Spiv
The two threads. The main thread's operations are keys, ticks of the slideshow
timer and window changes; each runs up to the `pthread_join()` in `stop_loader()`
and goes on in `Joined` when the loader has ended, as `main.op` says. The loader
goes through `image_loader()` in the steps between which the other thread can be
noticed: `loader.pc`, and what it holds (`orig`, `src`, `img`). The caches are
lists with the image used last in front, with `cur_size` as the code counts it:
meta data, and the zero at the end of the key of a resized image, are added and not
subtracted. `abort_flag` is seen by `update_display()`
always, by the progress callback only when there is a progress to show. The C
key, which drops the caches without stopping the loader, is pressed only when
none runs.

A draw on a pixmap that is not there ends the program, by the handler of the
signal: `main.op` is `"crashed"`, which is never a normal end. Two steps come to
it. `DecodeFails` with no pixmap: `load_image()` draws its message before
`image_loader()` looks at the pixmap, so hiding the window and going to a file that
does not load is enough. `UsesExitedBackend`: `GP_EV_SYS_QUIT` (`SysQuit`, the
window is closed) frees the backend and returns from `main()` without
`stop_loader()`, which ESC and Q call, and what the loader does with freed memory
until the process ends is open: it crashes or goes on.

`asked`, `zoom_lost` and `mislabelled` are histories. `asked` is the ratio of the
last zoom key; the key is lost (`zoom_lost`) when it comes while the old loader has
figured out a ratio and not written it yet, because that one is written over
it. The loader reads the method four times, for the lookup, the blur, the
resampling and the key it stores the image under, and the ratio again for the blur;
when a key changes them in between, the image is stored under a key it was not made
for (`mislabelled`), and is shown whenever that key is looked up. Each picture says
by which method it was made and whether it is one of those (`mixed`).

## 3. The runs

| run | distinct states | shows |
|---|---|---|
| `task_queue` | 4 thousand | six tasks over three priorities and one the queue rejects: lists, flags, counter and minimum are consistent, `TaskSched` is implemented, and a queued task runs unless more urgent ones keep coming |
| `heap` | 1.8 thousand, up to symmetry | every heap of up to seven nodes is linked and complete (`HeapIsIntact`) and ordered |
| `timer_queue` | 288 thousand | three timers, restarted, stopped and freed in any order, callbacks included: none is lost, no freed one is touched, `TimerSched` is implemented, due timers run |
| `event_queue` | 588 thousand | the ring implements `EventFifo`, the event the program holds is stable, cursors stay on the screen, both ends catch up with each other |
| `display_eink` | 3.7 thousand | no update is lost, at most five partial repaints run in a row, exits wait for repaints and return, every update is sent |
| `backend` | 98 thousand | the task timer runs while there are tasks, no sleep on work, tasks and timers are served, and input when no timer is due |
| `proxy` | 340 thousand | no drawing outside of a mapped buffer but for the crash between a HIDE and its UNMAP, `BufferLease` is implemented, updates return, an UNMAP is answered, an application outlives its server only to exit |
| `widgets_redraw` | 245 thousand | while something visible is out of date the root says so, a repaint leaves nothing of it, a request for a layout reaches the root |
| `spiv` | 1.7 million | no image is used after its cache freed it, no painting on a dead pixmap and two known crashes only, bounded caches, and the image selected last is shown in the end as it was asked for, but for a lost zoom and a mislabelled image |

**Bounds.** Three tasks of one priority give a list a middle; two other priorities
make the scan skip an empty list and find a far one. Seven heap nodes fill three
levels, so that a replacement from the other side of the tree has to move up; four
keys have ties. Three timers, delays 0 and 2 and clock 0 to 2 give
timers that are due together, at once and in the wrong order; `UINT32_MAX` 7
keeps `GP_TIMER_STOP` apart from every time. A ring of three slots is full with
two events and wraps; two widths, one of them 1, and moves beyond both edges reach
every branch of the clipping. Two tasks, one timer of each kind, one descriptor
and a `poll()`, and two slots of events bring every pair of work sources
of the main loop together; the periods are none, 0 (due in every turn) and 1. Four columns let rectangles be disjoint, overlap and
contain each other; the counter of partial repaints runs over its real range.

Three hides (`MaxHides`) and three resizes (`MaxResizes`) of a display of two
sizes let an UNMAP of a hide and those of two resizes be on their way together,
with the buffer growing and shrinking; the sixteen `UPDATE_COOKIES_MAX` are the
real ones and not used up in three hides: `MCProxyCookies.cfg` has seventeen. The
layout of `MCWidgetRedraw` nests one container of each kind that hides, moves or
skips children: tabs over a switch over an overlay over a scroll area over a grid
over a leaf, with a second tab; what the program changes is the leaf at the bottom
and a container in the middle. `MCSpiv` has an image that fits into the caches, one
that is larger than a cache and one that does not load, a method that shows a
rough picture first and one that does not. Three inputs (`MaxInputs`) are a change, another one while its
loader works, and a third while the main thread is through with the second; one
tick of waiting (`MaxRetries`) instead of a hundred changes how long, not what.

**Deadlock** is checked except where the system may stop: clocks that reached
their bound with nothing to do, a display or proxy application whose program has
exited, a viewer whose user is done.

**Fairness.** Callbacks return and the main loop goes on: that is how programs
are told to use it (`doc/backends_api.txt`, `doc/tasks.txt`). In `TaskQueue`
dispatch is fair because of `backend_task_dispatch()`, whose own run shows that
the task timer is running. In `TimerQueue` the queue keeps being processed. In
`Backend` time passes and the loop is weakly fair as a whole: nothing is assumed
about any branch in it, about the program's operations, or about arriving
data. In `DisplayEink` a repaint ends and the polling thread polls; nobody has to
ask for anything. In `Proxy` the server reads what it gets (its poll loop), and
the application's loop goes on; reading is strongly fair, because between two
reads the application may be busy with events, and it reads in every turn of its
loop. The user, resizes and deaths are never assumed. In `Spiv` the loader is a
thread that runs, and the main thread takes the events that are in its queue and
comes back from a join of a thread that ended. Whether tasks yield, timers are rescheduled, or events come is
always open.

**What liveness is conditional on.** `QueuedTaskRuns` allows starvation by more
urgent tasks, which is the policy. `InputIsRead` holds only for a loop that comes,
again and again, to a turn in which no timer is due (`NoTimerIsDue`): both
`gp_backend_poll()` and `gp_backend_wait_timeout()` return after they ran a timer,
before they look at a descriptor. While tasks are queued the task timer is always
due, so a task that yields for a minute keeps input unread for a minute; and a
periodic timer whose period is zero, or shorter than a turn of the loop takes, keeps
it unread for ever. `SelectedIsShown` names its two exceptions, described in section 2.

**Mutants.** Each property has a mutated definition beside the real one (section
"Mutated forms" of the module): a dropped update, a bound off by one, a stale
minimum. Put in place of the original it makes the property fail.

### Runs that show a disagreement

| run | the code | a text says |
|---|---|---|
| `task_queue_rem` | unlinks from the wrong list, `gp_task.c:108` | "Removes a task from a queue." (`doc/tasks.txt`) |
| `timer_queue_others` | loses a timer inserted from another timer's callback, `gp_timer.c:165` | "It's safe to call insert from the timer callback." (`gp_timer.h`) |
| `proxy_cookies` | keeps the answers to updates that a hide ended, `gp_backend_proxy.c:211`; the table fills up and the next answer is dropped | "After client receives this event it can resume drawing to the area for which update was pending." (`gp_proxy_cli.h`) |

The passing runs and the proofs are about programs that stay clear of these: no
task is removed, callbacks insert their own timer only, an application is hidden
less often than there are cookies. They also stay clear of five places where the
code does what it should not and that no run shows: an event put back at slot 0,
a `stopped()` callback that frees its timer (`input_dev_timer_free()` does),
`gp_widget_disable()` of a grid, the C key of spiv while an image loads, and an
application that is shown again before it handled its HIDE.

Six more are in the models, and the properties that hold name them as exceptions:

| the code | what comes of it | named in |
|---|---|---|
| `gp_backend.c:277` and `336` return when a timer ran | a timer that is due in every turn starves input | `InputIsRead` |
| `gp_widgets_redraw()` looks at `backend->pixmap` only, `gp_widget_render.c:385` | a redraw between HIDE and UNMAP draws on NULL | `RendersIntoMappedBuffer` |
| `load_image()` draws its message unasked, `spiv.c:145` | a hidden viewer crashes on a file that does not load | `RendersIntoLivePixmap` |
| `GP_EV_SYS_QUIT` does not stop the loader, `spiv.c:1182` | the loader goes on with a backend that was freed | `RendersIntoLivePixmap` |
| `zoom_rat` is written by both threads, `spiv.c:648` and `727` to `737` | a zoom key is lost | `SelectedIsShown` |
| the key of a resized image is made of the parameters as they are when it is stored, `spiv.c:472` | the cache has it under a method it was not made by | `SelectedIsShown` |

`gp_backend_ev_wait_timeout()`, which starts its timeout again when it woke up for
a timer, is modelled as it is, and nothing is claimed about when it returns.

## 4. The proofs

All for arbitrary constants, under the named assumptions of the modules only.

* `TaskQueue_proofs` (`TaskAssumption`: NULL is no task, priorities are three bits).
  The inductive invariant is the conjunction of the four invariants of the run, the
  types, and `DispatchFindsATask`, which only the proof states: the
  shape of the lists needs that a task is in one place (`QueuedIsAccurate`), the
  pop needs that the list of `min_prio` is not empty (`MinPrioIsMinimal`,
  `DispatchFindsATask`), and that in turn needs `cnt` to be the length of the list
  (`ListsAreLinked`). The steps rest on what a push and a pop do to a linked list
  (`PushKeepsLinked`, `PopKeepsLinked`, `OtherListStaysLinked`) and on the scan
  (`FindMinPrio`). `Refinement` proves `Spec => Sched!Spec` from it.
* `EventQueue_proofs` (`QueueAssumption`: a ring of at least two slots, widths of at
  least one). Types, `CursorsAreOnScreen`, the refinement of `EventFifo` for any
  ring size (`PutAppends`, `GetTakesTheFirst`, `PutBackPrepends` say what the
  index arithmetic does to the sequence of waiting events), and
  `ReturnedEventIsStable`, whose invariant is that the slot handed out is the one
  before `queue_first`, the slot `event_put()` never fills. `CursorCatchesUp` and
  `KeysCatchUp` are about what is left when all waiting events were taken out, one
  after the other: a walk over them (`Walks`), of which a push adds the last step,
  a get takes the first, and a put back gives back the first one that was taken,
  which the keys have counted already (`ReturnedIsCounted`). That the width is at
  least one is what the clipping needs: on a screen of width zero `max - 1` wraps.
* `DisplayEink_proofs` (`WidthAssumption`). Besides the safety properties of the
  run the invariant needs `CountIsHonest`: a queued partial repaint leaves room in
  the counter, which is behind the real number only while a full repaint is
  queued, and none is queued behind a full one.

* `Backend_proofs` (`BackendAssumption`: the task timer is not one of the program's,
  times are naturals). `TaskTimerRuns` and `NoSleepOnWork` for any tasks, timers
  and descriptors. That no sleep is entered with tasks waiting needs that the task
  timer, which is always armed for "now", was found by the pass over the timers
  just before (`TaskTimerIsDue`), and that callbacks, the only ones that push
  events on the way, make the loop return instead of wait (`NoEventsYet`);
  `CallIsOpen` says at which places of the loop the timer queue is half way.
* `WidgetRedraw_proofs` (`TreeAssumption`, `LineAssumption`, `KindsAssumption`,
  `LeavesAssumption`: the widgets are a tree, in which ancestors are in line, and
  leaves have no children). All three properties of the run, for every tree. The
  tempting invariant "above a flag there are flags" is false: a flag left behind
  in a hidden tab loses those above it. What holds, `FlagsAreReached`, is about
  visible widgets only, and every container that shows, hides or moves its
  children has to establish it for what comes into view, by `redraw_children`
  (`Whole`). `ChildrenAreFlagged` and `StaleIsMarked` lead the walk from there to
  what is out of date; `ResizeIsReached` is the counterpart for layouts, where
  nothing is hidden.
* `Proxy_proofs` (`ProxyAssumption`: sizes are positive). `RendersIntoMappedBuffer`
  and the refinement of `BufferLease`, for any sizes and any number of hides,
  resizes and messages on their way. The buffer is in one of five states, by what
  of a MAP, PIXMAP, SHOW is still to be read: `Unmapped`, `Offered`, `Mapped`,
  `Painted`, `Shown`, each with what may be in the event queue then. The steps rest
  on what reading and sending do to a stream (`AddFacts`, `TakeFacts`, `ReadFacts`,
  `ShowFacts`). The other half is what the server knows: `LeaseIsKnown`, somebody
  is shown or owes an answer exactly while the buffer is lent or an UNMAP is on
  its way back, of which there is one, and `HidesAreRead`, that a HIDE is read
  before the next show, which is where the patience of the user is needed. That an
  application without a buffer knows it, except after a HIDE, is `KnowsItsBuffer`:
  the pixmap is there only while its buffer is, or an UNMAP follows the HIDE that
  took it (`UnmapsFollow`).
* `Spiv_proofs` (`SpivAssumption`). `NoUseAfterFree` and `RendersIntoLivePixmap` for
  any images, caches and number of inputs. The loader works on the selected image
  only (`HoldsSelected`), which changes only after a join; what it put last is in
  front of its cache, and an eviction, however large the image, ends before the
  front (`AtHandIsSelected` says the same of the image at hand).
  `CachesAreBounded` needs what `cur_size` is the sum of (`Accounted`): the sizes of
  the images in the cache, and the meta data of all that ever were. What an
  insertion evicts is taken off from the back, and the sum of the rest is the sum
  of a prefix (`SumOfPrefix`, `SumToFront`). A loader past its
  check of the pixmap was started with one (`PixmapIsThere`), and a rough picture
  returns to the resampling, not to the end (`RoughIsBrief`). From that it follows
  which steps can crash the program, and in which states (`CrashIsKnown`).

* `TimerQueue_proofs` (`NullAssumption`, `TimersAssumption`, finite timers). The heap and
  the timer queue on top of it, for any number of nodes and timers. A heap is
  described by the node `at` each position, counted level by level from the root
  as if it were in an array: the children of position i are at 2i and 2i + 1. The
  pointers are those of the positions (`Linked`), and so are the counts
  (`Counted`), the nodes are in order (`Ordered`), and the positions in use are
  1 to n without a hole (`Filled`). Every function is one on positions: a swap
  exchanges two of them (`SwapLinked`), with one edge out of order while a node
  moves up or down (`OrderedAround`), and a removed node's place is taken by the
  last one. That the code finds the last place and the first free one from the
  counts alone is the hard part: the positions below i, d levels down, are a block
  (`First`, `Above`), so the counts of two neighbours say in which of them the last
  level ends (`LevelSizes`, `InsertSideIs`, `LastSideIs`). The recursion is taken
  apart by depth (`DepthInduction`, on the smallest counterexample). From it
  follow `HeapIsOrdered` and `HeapIsIntact` for any user of the heap, and for the
  timers the invariant `QueueInv`: types, what is true inside of a callback
  (`Frames`), what is freed (`Memory`), and that every running timer is in the
  heap, in its callback or in the list of those to put back (`Placed`).
  `QueueImplementsSched` proves the refinement of `TimerSched`. It has one
  hypothesis more than the invariants, `TimesFit`: the clock and the delays stay
  below 2^32 milliseconds, because what a callback asks is cut to 32 bits, and
  beyond them the queue does not do what the abstract schedule says.

Only model-checked: all liveness, which is outside of this prover's reach, as is
ENABLED. Every other property of the passing runs has a theorem. Every detailed
module states its types in `TypeOK`, which is a theorem for all of them and left
out of the runs. For `Backend`, `Proxy` and `Spiv` the main invariant has the part
it needs (`Typed`), and the rest follows from that: in `Proxy` that there is always
a number for the next update, because the table of answers keeps to its size
(`CookiesFit`, `CookieIsFree`).

## 5. Not modelled

* Pixels, text, fonts, filters, image formats, JSON, markup, keymap and character
  tables: sequential code and data, which is most of the repository's lines (the
  font tables alone are tens of thousands). There is no state that outlives a call
  and nothing a model would find that a test against images does not.
* The glue to X11, Wayland, SDL, DRM and the kernel's input devices: what they
  push into the event queue is in `EventQueue` and `Backend` as any sequence of
  pushes; keymaps and dead keys are not.
* Attributes of backends, clipping of `gp_backend_update_rect()`, the commands of
  display controllers.
* `gp_task_queue_process()` called from a task callback, and removal of tasks from
  one: nobody does that. `stopped()` callbacks, and clocks past 2^32 ms.
* `gp_poll_add()` and `gp_poll_rem()`, and with them handlers that remove another
  descriptor of the same batch: no handler in the repository does.
* Proxy: input events, names, the cursor, the resize event, how the bytes of
  messages are cut out of the receive buffer, more than one application (the
  server shows one at a time), updates from several threads, and two places that
  draw without looking at the pixmap at all, `widget_render_refresh()`
  (`gp_widget_render.c:295`) and `gp_widget_render_zoom()` (`302`).
* Widgets: the pool of ten widget timers with its stale events, application and
  key repeat timers, focus, sizes and positions, the widgets of a dialog, what a
  widget paints over its neighbours.
* Spiv: containers and directories, rotation, offsets of large pictures, text and
  progress bars, saving; the keys F, H (`draw_help()` draws from the main thread
  while a loader may paint) and F1 to F10.

## 6. What is left

In the order of what it would add:

1. **Widget timers**: the pool of ten with cancel and timer events that arrive after
   one, on `TimerSched` and `EventFifo`.
2. **Updates from several threads** of a proxy application, with the static cookie.
3. **Poll**: descriptors added and removed by handlers of the same batch.
4. `stopped()` callbacks that call back into the timer queue, and a clock that
   passes 2^32 milliseconds.
5. The bit pattern of `gp_heap_well_balanced()` as the code has it,
   `(c + 2) & (c + 1)`, against the powers of two of the model.
