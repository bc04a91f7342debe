-------------------------------- MODULE Spiv --------------------------------
(***************************************************************************)
(* spiv, the image viewer: the main thread handles keys, the slideshow     *)
(* timer and the events of the window; a loader thread loads, resizes and  *)
(* shows the selected image (spiv.c). Whatever changes the picture stops   *)
(* the loader, by a flag and a join, and starts another one.               *)
(*                                                                         *)
(* The two share the parameters of the loader and its flags, the selected  *)
(* image and two caches, of images as loaded and resized (image_loader.c,  *)
(* image_cache.c), without a lock: parameters are changed before the old   *)
(* loader was stopped, and it may still read and write them.               *)
(*                                                                         *)
(* The list is one of plain files. Containers, directories, rotation,      *)
(* offsets, text and progress bars are left out, and so are the keys H (a  *)
(* help screen drawn by the main thread), F and the function keys.         *)
(***************************************************************************)
EXTENDS Integers, Sequences, SequencesExt, FiniteSets, FiniteSetsExt

CONSTANTS
  N,                      \* files in the list
  Corrupt,                \* those that do not load
  FitRatio,               \* the ratio that fits an image into the window
  Ratios, FULL,           \* resize ratios; the one of the image's own size
  Methods,                \* of resampling, with a low pass filter or without
  NnFirst,                \* those that show a rough picture first
  LowPass,                \* those that blur an image before they shrink it
  OrigSize, META,         \* size of an image, and of its meta data
  ResizedSize,            \* size of an image after it was resized
  OrigMax, ResizedMax,    \* sizes of the two caches
  MaxRetries,             \* ticks that a slideshow waits for an image, 100
  MaxInputs,              \* bound: keys, ticks and changes of the window
  NULL

Images == 0 .. N - 1
ResizedKeys == [img : Images, ratio : Ratios, method : Methods]

ASSUME SpivAssumption ==
  /\ N \in Nat \ {0}
  /\ Corrupt \subseteq Images
  /\ FULL \in Ratios
  /\ FitRatio \in [Images -> Ratios]
  /\ NnFirst \subseteq Methods /\ LowPass \subseteq Methods
  /\ OrigSize \in [Images -> Nat] /\ ResizedSize \in [Images \X Ratios -> Nat] /\ META \in Nat
  /\ OrigMax \in Nat /\ ResizedMax \in Nat
  /\ MaxRetries \in Nat /\ MaxInputs \in Nat
  /\ NULL \notin Images \cup ResizedKeys \cup Ratios \cup Methods \cup {1, 2}

VARIABLES
  main,                        \* what the main thread does: see Ops
  thread,                      \* there is a loader_thread to join
  timer, retries,              \* the slideshow is on; ticks it has waited
  inputs,                      \* for the bound
  pixmap,                      \* backend->pixmap: NULL, or one of two in turn
  sys,                         \* the window: see Sys
  config,                      \* settings that change the picture
  config_progress,             \* config.show_progress
  method, zoom_manual, zoom_rat, show_progress_once,  \* the loader_params
  abort_flag, loader_running, show_progress,
  cur,                         \* the selected file in the list
  cur_img,                     \* image_loader.c: the image it has at hand
  img_cache, img_resized_cache,
  loader,                      \* the loader thread: see Loaders
  screen,                      \* the picture on the screen, NULL for none
  asked,                       \* history: the ratio the last zoom key asked for,
                               \* NULL when zoom_manual is off
  zoom_lost,                   \* history: that key came when its ratio is lost
  mislabelled                  \* history: the resized images in the cache that
                               \* were not made the way their key says

asks == <<asked, zoom_lost>>
params == <<config, config_progress, method, zoom_manual, zoom_rat, asks>>
window == <<pixmap, sys>>
slideshow == <<timer, retries>>
images == <<cur, cur_img, img_cache, img_resized_cache, mislabelled>>
vars == <<main, thread, slideshow, inputs, window, params, show_progress_once,
          abort_flag, loader_running, show_progress, images, loader, screen>>

\* The main thread waits for input, or for the loader in stop_loader() before it
\* goes on with op; or main() has closed the backend and returns; or the program
\* has ended, in one way or the other.
Ops == {"show", "seek", "tick", "stopped", "quit"}
Doings == Ops \cup {"wait", "closed", "exited", "crashed"}
Ended == main.op \in {"exited", "crashed"}

\* Nothing, RENDER_STOP in the queue for a window that was hidden or resized,
\* hidden, RENDER_START in the queue; the backend was freed.
Sys == {"none", "hide", "resize", "hidden", "start", "gone"}

\* method: how a picture was resized, NULL when it was not, or not for good; mixed:
\* that is what its key in the cache says, and it was made in another way.
Pictures == [img : Images, ratio : Ratios \cup {NULL}, method : Methods \cup {NULL},
             mixed : BOOLEAN, config : BOOLEAN, rough : BOOLEAN]
Failed(img) == [img |-> img, ratio |-> NULL, method |-> NULL,
                mixed |-> FALSE, config |-> FALSE, rough |-> FALSE]

Caches(keys) == [imgs : Seq(keys), cur_size : Int]

(* pc is the step the loader is at; drawable: it started with a pixmap; orig,
   src and img: the images it holds, the one it was started for, the same one
   to be resized, and what the cache of resized images has of it; made: how it
   was resized, until it is stored; to: the pixmap update_display() draws to. *)
Steps == {"start", "load", "decode", "zoom", "write_zoom", "size", "lookup", "load_again",
          "decode_again", "blur", "resample", "store", "update", "paint", "flip", "done"}
Loaders ==
  [pc : Steps, drawable : BOOLEAN, orig : Images \cup {NULL}, src : Images \cup {NULL},
   img : ResizedKeys \cup {NULL}, ratio : Ratios, rough : BOOLEAN, made : Methods \cup {NULL},
   to : {NULL, 1, 2}, picture : Pictures \cup {NULL}]

NewLoader == [pc |-> "start", drawable |-> FALSE, orig |-> NULL, src |-> NULL,
              img |-> NULL, ratio |-> FULL, rough |-> FALSE, made |-> NULL,
              to |-> NULL, picture |-> NULL]
Running == thread /\ loader.pc # "done"

TypeOK ==
  /\ main \in [op : Doings, to : Images]
  /\ thread \in BOOLEAN /\ timer \in BOOLEAN /\ retries \in 0 .. MaxRetries
  /\ inputs \in 0 .. MaxInputs
  /\ pixmap \in {NULL, 1, 2} /\ sys \in Sys
  /\ config \in BOOLEAN /\ config_progress \in BOOLEAN /\ method \in Methods
  /\ zoom_manual \in BOOLEAN /\ zoom_rat \in Ratios /\ show_progress_once \in BOOLEAN
  /\ abort_flag \in BOOLEAN /\ loader_running \in BOOLEAN /\ show_progress \in BOOLEAN
  /\ cur \in Images /\ cur_img \in Images \cup {NULL}
  /\ img_cache \in Caches(Images) /\ img_resized_cache \in Caches(ResizedKeys)
  /\ loader \in Loaders
  /\ screen \in Pictures \cup {NULL}
  /\ asked \in Ratios \cup {NULL} /\ zoom_lost \in BOOLEAN /\ mislabelled \subseteq ResizedKeys

---------------------------------------------------------------------------
(* image_cache.c: a list with the image used last in front. *)

EmptyCache == [imgs |-> <<>>, cur_size |-> 0]
Keys(cache) == {cache.imgs[i] : i \in DOMAIN cache.imgs}

\* remove_img(), add_img()
Elevate(cache, key) ==
  [cache EXCEPT !.imgs = <<key>> \o RemoveFirst(cache.imgs, key)]

\* The size of the first n images, as image_size() has it: without the meta data.
SizeUpTo(imgs, sizes) ==
  LET sum[n \in 0 .. Len(imgs)] == IF n = 0 THEN 0 ELSE sum[n - 1] + sizes[imgs[n]]
  IN sum

\* The size of those behind the first n.
SizeFrom(imgs, n, sizes) == SizeUpTo(imgs, sizes)[Len(imgs)] - SizeUpTo(imgs, sizes)[n]

\* The oldest images make way, all of them if that is not enough.
assert_size(cache, size, max, sizes) ==
  LET Left(n) == cache.cur_size - SizeFrom(cache.imgs, n, sizes)
      Fits == {n \in 0 .. Len(cache.imgs) : Left(n) + size <= max}
      kept == IF Fits = {} THEN 0 ELSE Max(Fits)
  IN [imgs |-> SubSeq(cache.imgs, 1, kept), cur_size |-> Left(kept)]

\* Mutated forms: room is made after the image was added; one image makes way,
\* whatever its size.
MakesRoomAfter(cache, key, meta, max, sizes) ==
  assert_size([imgs |-> <<key>> \o cache.imgs, cur_size |-> cache.cur_size + sizes[key] + meta],
              0, max, sizes)
EvictsOne(cache, key, meta, max, sizes) ==
  LET n == Len(cache.imgs)
      full == n > 0 /\ cache.cur_size + sizes[key] + meta > max
  IN [imgs |-> <<key>> \o (IF full THEN SubSeq(cache.imgs, 1, n - 1) ELSE cache.imgs),
      cur_size |-> cache.cur_size + sizes[key] + meta
                     - (IF full THEN sizes[cache.imgs[n]] ELSE 0)]

image_cache_put(cache, key, meta, max, sizes) ==
  LET room == assert_size(cache, sizes[key] + meta, max, sizes)
  IN [imgs |-> <<key>> \o room.imgs, cur_size |-> room.cur_size + sizes[key] + meta]

ResizedSizes == [key \in ResizedKeys |-> ResizedSize[key.img, key.ratio]]

---------------------------------------------------------------------------
(* The loader thread. *)

At(pc) == thread /\ loader.pc = pc
GoOn(pc) == loader' = [loader EXCEPT !.pc = pc]
Ends == GoOn("done") /\ loader_running' = FALSE

loaderOnly == <<main, thread, slideshow, inputs, window, config, config_progress, method, zoom_manual, asks,
                abort_flag>>

\* What the progress callback tells a loader or a filter: stop. It looks at the
\* flag only when there is a progress to show, and may be called too late.
Aborted == abort_flag /\ show_progress /\ pixmap # NULL

\* image_loader()
LoaderStarts ==
  /\ At("start")
  /\ show_progress' = (config_progress \/ show_progress_once)
  /\ show_progress_once' = FALSE
  /\ loader' = [loader EXCEPT !.pc = "load", !.drawable = (pixmap # NULL)]
  /\ UNCHANGED <<loaderOnly, zoom_rat, loader_running, images, screen>>

\* An image was found or loaded: by image_loader(), or by load_resized_image(),
\* which may show a rough picture of it first.
Loaded(img) ==
  loader' = IF loader.pc \in {"load", "decode"}
            THEN [loader EXCEPT !.pc = "zoom", !.orig = img]
            ELSE [loader EXCEPT !.pc = IF method \in NnFirst THEN "update" ELSE "blur",
                                !.src = img, !.rough = (method \in NnFirst)]

\* At hand, in the cache, or in neither.
image_loader_get_image ==
  /\ At("load") \/ At("load_again")
  /\ \/ /\ cur_img # NULL
        /\ Loaded(cur_img)
        /\ UNCHANGED <<cur_img, img_cache>>
     \/ /\ cur_img = NULL /\ cur \in Keys(img_cache)
        /\ cur_img' = cur
        /\ img_cache' = IF At("load_again") THEN Elevate(img_cache, cur) ELSE img_cache
        /\ Loaded(cur)
     \/ /\ cur_img = NULL /\ cur \notin Keys(img_cache)
        /\ GoOn(IF At("load") THEN "decode" ELSE "decode_again")
        /\ UNCHANGED <<cur_img, img_cache>>
  /\ UNCHANGED <<loaderOnly, zoom_rat, show_progress_once, show_progress, loader_running,
                 cur, img_resized_cache, mislabelled, screen>>

Decoded ==
  /\ At("decode") \/ At("decode_again")
  /\ cur \notin Corrupt
  /\ img_cache' = image_cache_put(img_cache, cur, META, OrigMax, OrigSize)
  /\ Loaded(cur)
  /\ UNCHANGED <<loaderOnly, zoom_rat, show_progress_once, show_progress, loader_running,
                 cur, cur_img, img_resized_cache, mislabelled, screen>>

\* load_image() says so on the screen. With no pixmap it dereferences NULL, and
\* the handler of the signal ends the program.
DecodeFails ==
  /\ At("decode") \/ At("decode_again")
  /\ cur \in Corrupt \/ Aborted
  /\ Ends
  /\ IF pixmap = NULL
     THEN main' = [main EXCEPT !.op = "crashed"] /\ UNCHANGED screen
     ELSE screen' = Failed(cur) /\ UNCHANGED main
  /\ UNCHANGED <<thread, slideshow, inputs, window, params, show_progress_once, abort_flag,
                 show_progress, images>>

\* calc_img_size() reads the parameters; its result is written in a step of its
\* own, and read again.
FigureZoom ==
  /\ At("zoom")
  /\ IF loader.drawable
     THEN /\ loader' = [loader EXCEPT !.pc = "write_zoom",
                                      !.ratio = IF zoom_manual THEN zoom_rat ELSE FitRatio[cur]]
          /\ UNCHANGED loader_running
     ELSE Ends
  /\ UNCHANGED <<loaderOnly, zoom_rat, show_progress_once, show_progress, images, screen>>

WriteZoom ==
  /\ At("write_zoom")
  /\ zoom_rat' = loader.ratio
  /\ GoOn("size")
  /\ UNCHANGED <<loaderOnly, show_progress_once, show_progress, loader_running, images, screen>>

FigureSize ==
  /\ At("size")
  /\ loader' = [loader EXCEPT !.ratio = zoom_rat,
                              !.pc = IF zoom_rat = FULL THEN "update" ELSE "lookup"]
  /\ UNCHANGED <<loaderOnly, zoom_rat, show_progress_once, show_progress, loader_running, images, screen>>

\* The key says how the image is resized by what the parameters are now.
ResizedKey == [img |-> cur, ratio |-> loader.ratio, method |-> method]

\* load_resized_image()
LookUpResized ==
  /\ At("lookup")
  /\ IF ResizedKey \in Keys(img_resized_cache)
     THEN /\ img_resized_cache' = Elevate(img_resized_cache, ResizedKey)
          /\ loader' = [loader EXCEPT !.pc = "update", !.img = ResizedKey]
     ELSE /\ GoOn("load_again")
          /\ UNCHANGED img_resized_cache
  /\ UNCHANGED <<loaderOnly, zoom_rat, show_progress_once, show_progress, loader_running,
                 cur, cur_img, img_cache, mislabelled, screen>>

\* The low pass filter takes the parameters as they are by now: an image may be
\* blurred for another ratio than the one it is resized to.
Blur ==
  /\ At("blur")
  /\ \/ /\ loader' = [loader EXCEPT !.pc = "resample",
                           !.made = IF method \in LowPass /\ zoom_rat # loader.ratio THEN NULL ELSE method]
        /\ UNCHANGED loader_running
     \/ Aborted /\ Ends
  /\ UNCHANGED <<loaderOnly, zoom_rat, show_progress_once, show_progress, images, screen>>

\* And so does the resampling, of an image that was blurred or not.
Resample ==
  /\ At("resample")
  /\ \/ /\ loader' = [loader EXCEPT !.pc = "store",
                           !.made = IF loader.made # NULL /\ (loader.made \in LowPass <=> method \in LowPass)
                                    THEN method ELSE NULL]
        /\ UNCHANGED loader_running
     \/ Aborted /\ Ends
  /\ UNCHANGED <<loaderOnly, zoom_rat, show_progress_once, show_progress, images, screen>>

\* image_cache_put2() counts the zero at the end of the key too, which is never
\* counted out again.
StoreResized ==
  /\ At("store")
  /\ img_resized_cache' = image_cache_put(img_resized_cache, ResizedKey, 1, ResizedMax, ResizedSizes)
  /\ mislabelled' = Keys(img_resized_cache') \cap
       (IF loader.made = method THEN mislabelled \ {ResizedKey} ELSE mislabelled \cup {ResizedKey})
  /\ loader' = [loader EXCEPT !.pc = "update", !.src = NULL, !.img = ResizedKey, !.made = NULL]
  /\ UNCHANGED <<loaderOnly, zoom_rat, show_progress_once, show_progress, loader_running,
                 cur, cur_img, img_cache, screen>>

\* update_display() returns: to load_resized_image() after a rough picture.
Updated ==
  IF loader.rough
  THEN /\ loader' = [loader EXCEPT !.pc = "blur", !.rough = FALSE, !.to = NULL]
       /\ UNCHANGED loader_running
  ELSE Ends

UpdateDisplay ==
  /\ At("update")
  /\ IF abort_flag THEN Updated
     ELSE loader' = [loader EXCEPT !.pc = "paint", !.to = pixmap] /\ UNCHANGED loader_running
  /\ UNCHANGED <<loaderOnly, zoom_rat, show_progress_once, show_progress, images, screen>>

MethodOf(img) == IF img = NULL THEN NULL ELSE img.method

Paint ==
  /\ At("paint")
  /\ IF abort_flag THEN Updated
     ELSE /\ loader' = [loader EXCEPT !.pc = "flip",
                          !.picture = [img |-> cur, ratio |-> loader.ratio, method |-> MethodOf(loader.img),
                                       mixed |-> loader.img \in mislabelled, config |-> config,
                                       rough |-> loader.rough]]
          /\ UNCHANGED loader_running
  /\ UNCHANGED <<loaderOnly, zoom_rat, show_progress_once, show_progress, images, screen>>

Flip ==
  /\ At("flip")
  /\ screen' = IF abort_flag THEN screen ELSE loader.picture
  /\ Updated
  /\ UNCHANGED <<loaderOnly, zoom_rat, show_progress_once, show_progress, images>>

\* The backend was freed while the loader is at work. What it does with it is
\* undefined: it goes on with what the memory still holds, or the program ends.
UsesExitedBackend ==
  /\ sys = "gone" /\ Running
  /\ loader.pc \in {"start", "decode", "zoom", "decode_again", "blur", "resample", "update",
                   "paint", "flip"}
  /\ main' = [main EXCEPT !.op = "crashed"]
  /\ UNCHANGED <<thread, slideshow, inputs, window, params, show_progress_once, abort_flag,
                 loader_running, show_progress, images, loader, screen>>

image_loader ==
  \/ LoaderStarts \/ image_loader_get_image \/ Decoded \/ DecodeFails
  \/ FigureZoom \/ WriteZoom \/ FigureSize
  \/ LookUpResized \/ Blur \/ Resample \/ StoreResized
  \/ UpdateDisplay \/ Paint \/ Flip \/ UsesExitedBackend

---------------------------------------------------------------------------
(* The main thread. *)

mainOnly == <<show_progress, img_cache, img_resized_cache, mislabelled, loader, screen>>

\* A key, a tick or a change of the window, while the main thread waits for one.
Input == main.op = "wait" /\ inputs < MaxInputs /\ inputs' = inputs + 1

\* stop_loader() raises the flag and joins; what comes after it is in Joined.
stop_loader(op, to) ==
  /\ main' = [op |-> op, to |-> to]
  /\ abort_flag' = thread

ShowProgressOnce == show_progress_once' \in {show_progress_once, TRUE}

\* A, I, R, E, W, U, D, \, ' and ;
KeySetting ==
  /\ Input
  /\ config' = ~config
  /\ ShowProgressOnce
  /\ stop_loader("show", cur)
  /\ UNCHANGED <<thread, slideshow, window, config_progress, method, zoom_manual, zoom_rat, asks,
                 loader_running, cur, cur_img, mainOnly>>

\* [, ] and L
KeyMethod ==
  /\ Input
  /\ method' \in Methods \ {method}
  /\ show_progress_once' = TRUE
  /\ stop_loader("show", cur)
  /\ UNCHANGED <<thread, slideshow, window, config, config_progress, zoom_manual, zoom_rat, asks,
                 loader_running, cur, cur_img, mainOnly>>

\* zoom_mul(), zoom_set(), set_zoom_offset(). The old loader writes over the ratio
\* if it has one that it figured out before.
KeyZoom ==
  /\ Input
  /\ zoom_manual' = TRUE
  /\ zoom_rat' \in Ratios
  /\ asked' = zoom_rat' /\ zoom_lost' = At("write_zoom")
  /\ ShowProgressOnce
  /\ stop_loader("show", cur)
  /\ UNCHANGED <<thread, slideshow, window, config, config_progress, method,
                 loader_running, cur, cur_img, mainOnly>>

\* image_seek()
KeySeek ==
  /\ Input
  /\ show_progress_once' = TRUE
  /\ \E to \in Images : stop_loader("seek", to)
  /\ UNCHANGED <<thread, slideshow, window, params, loader_running, cur, cur_img, mainOnly>>

\* P and S
KeyProgress ==
  /\ Input
  /\ config_progress' = ~config_progress
  /\ UNCHANGED <<main, thread, slideshow, window, config, method, zoom_manual, zoom_rat, asks,
                 show_progress_once, abort_flag, loader_running, cur, cur_img, mainOnly>>

KeySlideshow ==
  /\ Input
  /\ timer' = ~timer
  /\ UNCHANGED <<main, thread, retries, window, params, show_progress_once, abort_flag,
                 loader_running, cur, cur_img, mainOnly>>

\* C. The key does not stop the loader; it is pressed here when there is none.
image_loader_drop_cache ==
  /\ Input /\ ~Running
  /\ img_resized_cache' = EmptyCache /\ img_cache' = EmptyCache /\ cur_img' = NULL
  /\ mislabelled' = {}
  /\ UNCHANGED <<main, thread, slideshow, window, params, show_progress_once, abort_flag,
                 loader_running, show_progress, cur, loader, screen>>

\* ESC and Q
KeyQuit ==
  /\ Input
  /\ stop_loader("quit", cur)
  /\ UNCHANGED <<thread, slideshow, window, params, show_progress_once, loader_running,
                 cur, cur_img, mainOnly>>

\* GP_EV_SYS_QUIT, the window is closed: the backend is freed with the loader at
\* work, and main() returns. What it pointed to stays in the pointers.
SysQuit ==
  /\ Input
  /\ main' = [main EXCEPT !.op = "closed"]
  /\ sys' = "gone" /\ UNCHANGED pixmap
  /\ UNCHANGED <<thread, slideshow, params, show_progress_once, abort_flag, loader_running,
                 cur, cur_img, mainOnly>>

ProcessEnds ==
  /\ main.op = "closed"
  /\ main' = [main EXCEPT !.op = "exited"]
  /\ UNCHANGED <<thread, slideshow, inputs, window, params, show_progress_once, abort_flag,
                 loader_running, cur, cur_img, mainOnly>>

\* The slideshow waits for a loader that is busy, up to a limit.
timer_callback ==
  /\ Input /\ timer
  /\ IF loader_running /\ retries < MaxRetries
     THEN retries' = retries + 1 /\ UNCHANGED <<main, abort_flag>>
     ELSE retries' = 0 /\ stop_loader("tick", (cur + 1) % N)
  /\ UNCHANGED <<thread, timer, window, params, show_progress_once, loader_running,
                 cur, cur_img, mainOnly>>

\* The backend: the window is hidden or resized, and shown again.
WindowChanges ==
  /\ Input
  /\ \/ sys = "none" /\ sys' \in {"hide", "resize"} /\ UNCHANGED pixmap
     \/ sys = "hidden" /\ sys' = "start" /\ pixmap' = 1
  /\ UNCHANGED <<main, thread, slideshow, params, show_progress_once, abort_flag,
                 loader_running, cur, cur_img, mainOnly>>

\* Mutated form: the event is answered with the loader still at work.
AnswersAtOnce ==
  /\ main.op = "wait" /\ sys \in {"hide", "resize"}
  /\ sys' = IF sys = "resize" THEN "start" ELSE "hidden"
  /\ pixmap' = IF sys = "resize" THEN 3 - pixmap ELSE NULL
  /\ screen' = NULL
  /\ UNCHANGED <<main, thread, slideshow, inputs, params, show_progress_once, abort_flag, loader_running,
                 show_progress, images, loader>>

RenderStop ==
  /\ main.op = "wait" /\ sys \in {"hide", "resize"}
  /\ stop_loader("stopped", cur)
  /\ UNCHANGED <<thread, slideshow, inputs, window, params, show_progress_once, loader_running,
                 cur, cur_img, mainOnly>>

RenderStart ==
  /\ main.op = "wait" /\ sys = "start"
  /\ sys' = "none"
  /\ show_progress_once' = TRUE
  /\ stop_loader("show", cur)
  /\ UNCHANGED <<thread, slideshow, inputs, pixmap, params, loader_running, cur, cur_img, mainOnly>>

\* show_image() after its stop_loader()
show_image ==
  /\ thread' = TRUE /\ loader' = NewLoader /\ loader_running' = TRUE

\* image_loader_seek(): drop_cur_img() frees an image at hand that is not cached.
image_loader_seek(to) == cur' = to /\ cur_img' = NULL

\* gp_backend_render_stopped(): the pixmap is another one or there is none.
render_stopped ==
  /\ sys' = IF sys = "resize" THEN "start" ELSE "hidden"
  /\ pixmap' = IF sys = "resize" THEN 3 - pixmap ELSE NULL
  /\ screen' = NULL

\* Mutated form: the flag stays up.
FlagStays == UNCHANGED abort_flag

\* The end of stop_loader()
flag_down == abort_flag' = FALSE

\* The loader was joined, and the main thread goes on.
Joined ==
  /\ main.op \in Ops /\ ~Running
  /\ flag_down
  /\ main' = [main EXCEPT !.op = IF main.op = "quit" THEN "exited" ELSE "wait"]
  /\ IF main.op \in {"show", "seek", "tick"}
     THEN show_image
     ELSE thread' = FALSE /\ UNCHANGED <<loader, loader_running>>
  /\ IF main.op \in {"seek", "tick"}
     THEN image_loader_seek(main.to)
     ELSE UNCHANGED cur /\ IF main.op = "quit" THEN cur_img' = NULL ELSE UNCHANGED cur_img
  /\ IF main.op = "seek"
     THEN zoom_manual' = FALSE /\ asked' = NULL /\ zoom_lost' = FALSE
     ELSE UNCHANGED <<zoom_manual, asks>>
  /\ IF main.op = "stopped" THEN render_stopped ELSE UNCHANGED <<window, screen>>
  /\ IF main.op = "quit"
     THEN img_cache' = EmptyCache /\ img_resized_cache' = EmptyCache /\ mislabelled' = {}
     ELSE UNCHANGED <<img_cache, img_resized_cache, mislabelled>>
  /\ UNCHANGED <<slideshow, inputs, config, config_progress, method, zoom_rat,
                 show_progress_once, show_progress>>

Init ==
  /\ main = [op |-> "wait", to |-> 0] /\ thread = FALSE
  /\ timer \in BOOLEAN /\ retries = 0 /\ inputs = 0
  /\ pixmap = 1 /\ sys = "start"
  /\ config = FALSE /\ config_progress \in BOOLEAN
  /\ method \in Methods \ NnFirst /\ zoom_manual = FALSE /\ zoom_rat = FULL /\ show_progress_once = FALSE
  /\ abort_flag = FALSE /\ loader_running = FALSE /\ show_progress = FALSE
  /\ cur = 0 /\ cur_img = NULL /\ img_cache = EmptyCache /\ img_resized_cache = EmptyCache
  /\ loader = NewLoader /\ screen = NULL
  /\ asked = NULL /\ zoom_lost = FALSE /\ mislabelled = {}

main_thread ==
  \/ KeySetting \/ KeyMethod \/ KeyZoom \/ KeySeek \/ KeyProgress \/ KeySlideshow
  \/ image_loader_drop_cache \/ KeyQuit \/ SysQuit \/ ProcessEnds \/ timer_callback
  \/ WindowChanges \/ RenderStop \/ RenderStart \/ Joined

Next == ~Ended /\ (main_thread \/ image_loader)

Spec == Init /\ [][Next]_vars

\* The loader is a thread of its own, and the main thread gets the events that
\* are in the queue. Nobody has to press a key.
FairSpec ==
  Spec /\ WF_vars(~Ended /\ image_loader) /\ WF_vars(Joined) /\ WF_vars(RenderStop \/ RenderStart)

---------------------------------------------------------------------------
(* Properties. *)

\* Images are freed by the caches, to make room and when they are dropped. What
\* the loader works with stays in its cache until it is done, and the image at
\* hand is the selected one, which its cache still has: drop_cur_img() would free
\* it a second time.
NoUseAfterFree ==
  /\ Running =>
       /\ loader.orig # NULL => loader.orig \in Keys(img_cache)
       /\ loader.src # NULL => loader.src \in Keys(img_cache)
       /\ loader.img # NULL => loader.img \in Keys(img_resized_cache)
  /\ cur_img # NULL => cur_img = cur /\ cur \in Keys(img_cache)

\* The loader draws only to the pixmap the backend has: it was stopped before a
\* pixmap was given back to be resized or taken away. Two things the code does not
\* prevent, and they are all that can crash the program. A loader that is started
\* while the window is hidden, and cannot load its image, says so on a pixmap that
\* is not there; and when the window is closed, a loader that is at work goes on
\* with a backend that was freed.
RendersIntoLivePixmap ==
  /\ Running /\ loader.pc \in {"paint", "flip"} /\ sys # "gone" =>
       loader.to # NULL /\ loader.to = pixmap
  /\ main.op = "crashed" =>
       \/ sys = "hidden" /\ ~loader.drawable /\ cur \in Corrupt
       \/ sys = "gone"

\* image_cache.c: more than the limit is kept only for the sake of the newest
\* image, although meta data is counted in and not out.
Total(cache, sizes) == SizeFrom(cache.imgs, 0, sizes)
CachesAreBounded ==
  /\ Len(img_cache.imgs) > 1 => Total(img_cache, OrigSize) <= OrigMax
  /\ Len(img_resized_cache.imgs) > 1 => Total(img_resized_cache, ResizedSizes) <= ResizedMax

\* However often the loader was stopped half way, once the user lets the program
\* be and the window is visible, the screen comes to show the selected image in
\* full quality, with the settings asked for last, and keeps showing it. It is
\* resized to the ratio that was asked for, unless the zoom key was pressed after
\* the old loader had figured out a ratio and before it wrote it down; and by the
\* method that was asked for, unless it comes from a cache that has it under a key
\* it was not made for, as the parameters were changed while it was being made.
WantedRatio == IF ~zoom_manual THEN FitRatio[cur] ELSE IF zoom_lost THEN zoom_rat ELSE asked
Wanted(mixed) ==
  IF cur \in Corrupt THEN Failed(cur)
  ELSE [img |-> cur, ratio |-> WantedRatio, method |-> IF WantedRatio = FULL THEN NULL ELSE method,
        mixed |-> mixed, config |-> config, rough |-> FALSE]
Settled == main.op = "wait" /\ sys = "none"
SelectedIsShown == <>[]Settled => <>[](screen \in {Wanted(mixed) : mixed \in BOOLEAN})
=============================================================================
