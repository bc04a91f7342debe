---------------------------- MODULE Spiv_proofs ----------------------------
(***************************************************************************)
(* Proofs about spiv, for any list, any sizes of images and caches and any *)
(* number of inputs: neither thread uses an image that was freed, the      *)
(* loader paints only to the pixmap the backend has, only two things can   *)
(* crash the program, and the caches keep their limits.                    *)
(***************************************************************************)
EXTENDS Spiv, TLAPS, WellFoundedInduction, NaturalsInduction, SequenceTheorems

(* The part of the type invariant the rest needs. The cur_size of a cache  *)
(* has an invariant of its own, CachesAccounted.                           *)
Typed ==
  /\ main \in [op : Doings, to : Images]
  /\ thread \in BOOLEAN /\ sys \in Sys /\ pixmap \in {NULL, 1, 2}
  /\ config \in BOOLEAN /\ method \in Methods /\ zoom_rat \in Ratios
  /\ cur \in Images /\ cur_img \in Images \cup {NULL}
  /\ img_cache.imgs \in Seq(Images) /\ img_resized_cache.imgs \in Seq(ResizedKeys)
  /\ loader \in Loaders

(* A running loader holds the selected image only, from when it has it.    *)
HoldsSelected ==
  Running =>
    /\ loader.pc \in {"start", "load", "decode"} => loader.orig = NULL /\ loader.src = NULL
    /\ loader.orig # NULL => loader.orig = cur /\ cur \in Keys(img_cache)
    /\ loader.src # NULL => loader.src = cur /\ cur \in Keys(img_cache)
    /\ loader.img # NULL => /\ loader.img \in Keys(img_resized_cache)
                            /\ loader.pc \in {"update", "paint", "flip"} /\ ~loader.rough

(* The image at hand is the selected one, and there is none while a loader *)
(* decodes it.                                                             *)
AtHandIsSelected ==
  /\ cur_img # NULL => cur_img = cur /\ cur \in Keys(img_cache)
  /\ Running /\ loader.pc \in {"decode", "decode_again"} => cur_img = NULL

(* There is no pixmap while the window is hidden, and a loader that came   *)
(* past its check was started with one. (What is left of the backend in    *)
(* the end points to what it did.)                                         *)
PixmapIsThere ==
  /\ sys # "gone" => (pixmap = NULL <=> sys = "hidden")
  /\ Running =>
       /\ loader.drawable => pixmap # NULL
       /\ loader.pc \notin {"start", "load", "decode", "zoom"} => loader.drawable
       /\ loader.pc \in {"paint", "flip"} => loader.to = pixmap

(* There is a rough picture only while it is shown.                        *)
RoughIsBrief == Running /\ loader.rough => loader.pc \in {"update", "paint", "flip"}

IInv == Typed /\ RoughIsBrief /\ HoldsSelected /\ AtHandIsSelected /\ PixmapIsThere

-----------------------------------------------------------------------------
(* The caches.                                                             *)

(* A set of numbers that is not empty has a smallest one.                  *)
LEMMA SmallestExists ==
  ASSUME NEW T, T \subseteq Nat, T # {}
  PROVE  \E x \in T : \A y \in T : x =< y
<1>1. PICK x \in T : \A y \in T : ~ (<<y, x>> \in OpToRel(<, Nat))
  BY NatLessThanWellFounded, WFMin
<1>2. \A y \in T : ~ (y < x)
  BY <1>1 DEF OpToRel
<1> QED  BY <1>2

(* And a bounded one has a largest.                                        *)
LEMMA LargestExists ==
  ASSUME NEW n \in Nat, NEW T, T \subseteq 0 .. n, T # {}
  PROVE  \E x \in T : \A y \in T : x >= y
<1> DEFINE U == {n - t : t \in T}
<1>1. U \subseteq Nat /\ U # {}
  <2>1. \A t \in T : t \in Nat /\ n - t \in Nat
    OBVIOUS
  <2> QED  BY <2>1
<1>2. PICK u \in U : \A v \in U : u =< v
  BY <1>1, SmallestExists
<1>3. PICK t \in T : u = n - t
  BY <1>2
<1>4. \A y \in T : n - y \in U
  OBVIOUS
<1>5. \A y \in T : t >= y
  <2> SUFFICES ASSUME NEW y \in T PROVE t >= y
    OBVIOUS
  <2>1. n - t =< n - y
    BY <1>2, <1>3, <1>4
  <2>2. t \in Int /\ y \in Int
    BY <1>3
  <2> QED  BY <2>1, <2>2
<1> QED  BY <1>5

(* One entry in front of a sequence.                                       *)
LEMMA FrontFacts ==
  ASSUME NEW S, NEW s \in Seq(S), NEW e \in S
  PROVE  /\ <<e>> \o s \in Seq(S)
         /\ e \in {(<<e>> \o s)[i] : i \in DOMAIN (<<e>> \o s)}
<1>1. <<e>> \in Seq(S) /\ Len(<<e>>) = 1 /\ Len(s) \in Nat
  OBVIOUS
<1>2. <<e>> \o s \in Seq(S) /\ Len(<<e>> \o s) = 1 + Len(s)
  BY <1>1, ConcatProperties
<1>3. 1 \in DOMAIN (<<e>> \o s) /\ (<<e>> \o s)[1] = e
  BY <1>1, <1>2
<1> QED  BY <1>2, <1>3

(* What is left after room was made is a sequence of images.               *)
LEMMA RoomFacts ==
  ASSUME NEW S, NEW cache, cache.imgs \in Seq(S), NEW size, NEW max, NEW sizes
  PROVE  assert_size(cache, size, max, sizes).imgs \in Seq(S)
<1> DEFINE s == cache.imgs
           Left(n) == cache.cur_size - SizeFrom(cache.imgs, n, sizes)
           Fits == {n \in 0 .. Len(cache.imgs) : Left(n) + size <= max}
           kept == IF Fits = {} THEN 0 ELSE Max(Fits)
<1>1. assert_size(cache, size, max, sizes) = [imgs |-> SubSeq(s, 1, kept), cur_size |-> Left(kept)]
  BY DEF assert_size
<1>2. Len(s) \in Nat
  OBVIOUS
<1> HIDE DEF Left
<1>3. kept \in 0 .. Len(s)
  <2>1. CASE Fits = {}
    BY <2>1, <1>2
  <2>2. CASE Fits # {}
    <3>1. Fits \subseteq 0 .. Len(s)
      OBVIOUS
    <3> HIDE DEF Fits
    <3>2. \E x \in Fits : \A y \in Fits : x >= y
      BY <3>1, <2>2, <1>2, LargestExists
    <3>3. Max(Fits) \in Fits
      BY <3>2 DEF Max
    <3> QED  BY <3>1, <3>3, <2>2
  <2> QED  BY <2>1, <2>2
<1> HIDE DEF kept
<1>4. SubSeq(s, 1, kept) \in Seq(S)
  BY <1>2, <1>3, SubSeqProperties, ElementOfSeq
<1> QED  BY <1>1, <1>4

(* An image that was put into a cache is in it.                            *)
LEMMA PutFacts ==
  ASSUME NEW S, NEW cache, cache.imgs \in Seq(S), NEW key \in S,
         NEW meta, NEW max, NEW sizes
  PROVE  LET after == image_cache_put(cache, key, meta, max, sizes)
         IN after.imgs \in Seq(S) /\ key \in Keys(after)
<1> DEFINE room == assert_size(cache, sizes[key] + meta, max, sizes)
           after == image_cache_put(cache, key, meta, max, sizes)
<1>1. room.imgs \in Seq(S)
  BY RoomFacts
<1>2. after.imgs = <<key>> \o room.imgs
  BY DEF image_cache_put
<1> HIDE DEF room, after
<1>3. <<key>> \o room.imgs \in Seq(S)
  BY <1>1, FrontFacts
<1>4. key \in {(<<key>> \o room.imgs)[i] : i \in DOMAIN (<<key>> \o room.imgs)}
  BY <1>1, FrontFacts
<1>5. Keys(after) = {after.imgs[i] : i \in DOMAIN after.imgs}
  BY DEF Keys
<1>6. after.imgs \in Seq(S) /\ key \in Keys(after)
  BY <1>2, <1>3, <1>4, <1>5
<1> QED  BY <1>6 DEF after

(* An image that was looked up stays in its cache.                         *)
LEMMA ElevateFacts ==
  ASSUME NEW S, NEW cache, cache.imgs \in Seq(S), NEW key \in S
  PROVE  Elevate(cache, key).imgs \in Seq(S) /\ key \in Keys(Elevate(cache, key))
<1> DEFINE s == cache.imgs
           At_(v) == v = key
           I == {i \in 1 .. Len(s) : At_(s[i])}
<1>1. Len(s) \in Nat
  OBVIOUS
<1>2. RemoveFirst(s, key) \in Seq(S)
  <2>1. CASE I = {}
    <3>1. ~ \E i \in 1 .. Len(s) : s[i] = key
      BY <2>1
    <3> QED  BY <3>1 DEF RemoveFirst
  <2>2. CASE I # {}
    <3>1. I \subseteq Nat
      BY <1>1
    <3>2. PICK m \in I : \A j \in I : m =< j
      BY <3>1, <2>2, SmallestExists
    <3>3. Min(I) \in I
      BY <3>2 DEF Min
    <3>4. SelectInSeq(s, At_) = Min(I)
      BY <2>2 DEF SelectInSeq
    <3>5. RemoveFirst(s, key) = RemoveAt(s, Min(I))
      BY <2>2, <3>4 DEF RemoveFirst
    <3>6. PICK k \in 1 .. Len(s) : k = Min(I)
      BY <3>3
    <3>7. SubSeq(s, 1, k - 1) \in Seq(S) /\ SubSeq(s, k + 1, Len(s)) \in Seq(S)
      BY <1>1, SubSeqProperties, ElementOfSeq
    <3> QED  BY <3>5, <3>6, <3>7, ConcatProperties DEF RemoveAt
  <2> QED  BY <2>1, <2>2
<1>3. Elevate(cache, key).imgs = <<key>> \o RemoveFirst(s, key)
  BY DEF Elevate
<1> QED  BY <1>2, <1>3, FrontFacts DEF Keys

-----------------------------------------------------------------------------
(* What the images of a cache add up to.                                   *)

(* A walk of k steps exists from any start, whatever the steps do.         *)
Walk(f, start, k, F) == f[0] = start /\ \A i \in 1 .. k : f[i] = F[i][f[i - 1]]

LEMMA WalkExists ==
  ASSUME NEW S, NEW start \in S, NEW k \in Nat, NEW F \in [1 .. k -> [S -> S]]
  PROVE  \E f \in [0 .. k -> S] : Walk(f, start, k, F)
<1> DEFINE Good(m) == \E f \in [0 .. m -> S] : Walk(f, start, m, F)
           Bad == {m \in 0 .. k : ~ Good(m)}
<1>1. Good(0)
  <2>1. [i \in 0 .. 0 |-> start] \in [0 .. 0 -> S]
    OBVIOUS
  <2>2. Walk([i \in 0 .. 0 |-> start], start, 0, F)
    BY DEF Walk
  <2>3. QED
    BY <2>1, <2>2
<1>2. ASSUME NEW m \in 1 .. k, Good(m - 1) PROVE Good(m)
  <2>1. PICK f \in [0 .. m - 1 -> S] : Walk(f, start, m - 1, F)
    BY <1>2
  <2> DEFINE g == [i \in 0 .. m |-> IF i = m THEN F[m][f[m - 1]] ELSE f[i]]
  <2>2. m - 1 \in 0 .. m - 1 /\ m \in 0 .. m /\ 0 \in 0 .. m - 1 /\ m \in 1 .. k
    OBVIOUS
  <2>3. F[m][f[m - 1]] \in S
    BY <2>2
  <2>4. g \in [0 .. m -> S]
    BY <2>3
  <2>5. \A i \in 0 .. m - 1 : g[i] = f[i]
    OBVIOUS
  <2>6. g[m] = F[m][g[m - 1]]
    <3>1. g[m] = F[m][f[m - 1]]
      BY <2>2
    <3>2. QED
      BY <2>2, <2>5, <3>1
  <2> HIDE DEF g
  <2>7. ASSUME NEW i \in 1 .. m PROVE g[i] = F[i][g[i - 1]]
    <3>1. CASE i = m
      BY <3>1, <2>6
    <3>2. CASE i # m
      <4>1. i \in 1 .. m - 1 /\ i \in 0 .. m - 1 /\ i - 1 \in 0 .. m - 1
        BY <3>2
      <4>2. f[i] = F[i][f[i - 1]]
        BY <2>1, <4>1 DEF Walk
      <4>3. QED
        BY <2>5, <4>1, <4>2
    <3>3. QED
      BY <3>1, <3>2
  <2>8. g[0] = start
    BY <2>1, <2>2, <2>5 DEF Walk
  <2>9. Walk(g, start, m, F)
    BY <2>7, <2>8 DEF Walk
  <2>10. QED
    BY <2>4, <2>9
<1> HIDE DEF Good
<1>3. Bad = {}
  <2> SUFFICES ASSUME Bad # {} PROVE FALSE
    OBVIOUS
  <2>1. Bad \subseteq Nat
    OBVIOUS
  <2>2. PICK m \in Bad : \A y \in Bad : m =< y
    BY <2>1, SmallestExists
  <2>3. m \in 1 .. k /\ ~ Good(m)
    BY <1>1, <2>2
  <2>4. m - 1 \in 0 .. k /\ m - 1 \notin Bad
    BY <2>2, <2>3
  <2>5. Good(m - 1)
    BY <2>4
  <2>6. QED
    BY <1>2, <2>3, <2>5
<1>4. k \in 0 .. k
  OBVIOUS
<1>5. Good(k)
  BY <1>3, <1>4
<1>6. QED
  BY <1>5 DEF Good

(* Two walks that start together and take the same steps stay together.    *)
InStep(f, g, k) ==
  f[0] = g[0] /\ \A i \in 1 .. k : f[i - 1] = g[i - 1] => f[i] = g[i]

LEMMA SameWalk ==
  ASSUME NEW k \in Nat, NEW f, NEW g, InStep(f, g, k)
  PROVE  f[k] = g[k]
<1> DEFINE Bad == {i \in 0 .. k : f[i] # g[i]}
<1>1. Bad = {}
  <2> SUFFICES ASSUME Bad # {} PROVE FALSE
    OBVIOUS
  <2>1. Bad \subseteq Nat
    OBVIOUS
  <2>2. PICK m \in Bad : \A y \in Bad : m =< y
    BY <2>1, SmallestExists
  <2>3. m \in 1 .. k /\ f[m] # g[m]
    BY <2>2 DEF InStep
  <2>4. m - 1 \in 0 .. k /\ m - 1 \notin Bad
    BY <2>2, <2>3
  <2>5. f[m - 1] = g[m - 1]
    BY <2>4
  <2>6. QED
    BY <2>3, <2>5 DEF InStep
<1>2. k \in 0 .. k
  OBVIOUS
<1>3. QED
  BY <1>1, <1>2

(* The sums over a list are what their definition says, and nothing else.  *)
IsSum(f, s, sizes) == f[0] = 0 /\ \A i \in 1 .. Len(s) : f[i] = f[i - 1] + sizes[s[i]]

LEMMA SumExists ==
  ASSUME NEW S, NEW s \in Seq(S), NEW sizes \in [S -> Nat]
  PROVE  /\ SizeUpTo(s, sizes) \in [0 .. Len(s) -> Nat]
         /\ IsSum(SizeUpTo(s, sizes), s, sizes)
<1> DEFINE k == Len(s)
           F == [i \in 1 .. k |-> [x \in Nat |-> x + sizes[s[i]]]]
<1>1. k \in Nat /\ \A i \in 1 .. k : s[i] \in S /\ sizes[s[i]] \in Nat
  BY ElementOfSeq
<1>2. F \in [1 .. k -> [Nat -> Nat]]
  BY <1>1
<1>3. \A i \in 1 .. k, x \in Nat : F[i][x] = x + sizes[s[i]]
  OBVIOUS
<1> HIDE DEF k, F
<1>4. PICK f \in [0 .. k -> Nat] : Walk(f, 0, k, F)
  BY <1>1, <1>2, WalkExists
<1>5. \A i \in 1 .. k : i - 1 \in 0 .. k /\ i \in 0 .. k /\ i # 0
  BY <1>1
<1>6. \A i \in 1 .. k : f[i] = f[i - 1] + sizes[s[i]]
  BY <1>3, <1>4, <1>5 DEF Walk
<1>7. \A i \in 0 .. k : f[i] = IF i = 0 THEN 0 ELSE f[i - 1] + sizes[s[i]]
  BY <1>1, <1>4, <1>6 DEF Walk
<1>8. f = [i \in 0 .. k |-> IF i = 0 THEN 0 ELSE f[i - 1] + sizes[s[i]]]
  BY <1>4, <1>7
<1> DEFINE sum == SizeUpTo(s, sizes)
<1>9. sum = [i \in 0 .. k |-> IF i = 0 THEN 0 ELSE sum[i - 1] + sizes[s[i]]]
  BY <1>8 DEF SizeUpTo, k
<1> HIDE DEF sum
<1>10. sum[0] = 0 /\ \A i \in 1 .. k : sum[i] = sum[i - 1] + sizes[s[i]]
  BY <1>1, <1>5, <1>9
<1>11. \A i \in 0 .. k : sum[i] = f[i]
  <2> SUFFICES ASSUME NEW j \in 0 .. k PROVE sum[j] = f[j]
    OBVIOUS
  <2>1. j \in Nat /\ \A i \in 1 .. j : i \in 1 .. k
    BY <1>1
  <2>2. InStep(sum, f, j)
    BY <1>4, <1>6, <1>10, <2>1 DEF InStep, Walk
  <2> QED  BY <2>1, <2>2, SameWalk
<1>12. sum \in [0 .. k -> Nat]
  BY <1>9, <1>11
<1>13. IsSum(sum, s, sizes)
  BY <1>10 DEF k, IsSum
<1> QED  BY <1>12, <1>13 DEF sum, k

LEMMA SumIsUnique ==
  ASSUME NEW S, NEW s \in Seq(S), NEW sizes \in [S -> Nat], NEW f, IsSum(f, s, sizes),
         NEW j \in 0 .. Len(s)
  PROVE  f[j] = SizeUpTo(s, sizes)[j]
<1>1. Len(s) \in Nat
  OBVIOUS
<1>2. j \in Nat /\ \A i \in 1 .. j : i \in 1 .. Len(s)
  BY <1>1
<1> DEFINE g == SizeUpTo(s, sizes)
<1>3. IsSum(g, s, sizes)
  BY SumExists
<1> HIDE DEF g
<1>4. InStep(f, g, j)
  BY <1>2, <1>3 DEF IsSum, InStep
<1>5. f[j] = g[j]
  BY <1>2, <1>4, SameWalk
<1> QED  BY <1>5 DEF g

(* The beginning of a list adds up to what it did.                         *)
LEMMA SumOfPrefix ==
  ASSUME NEW S, NEW s \in Seq(S), NEW sizes \in [S -> Nat], NEW k \in 0 .. Len(s)
  PROVE  /\ SubSeq(s, 1, k) \in Seq(S) /\ Len(SubSeq(s, 1, k)) = k
         /\ SizeUpTo(SubSeq(s, 1, k), sizes)[k] = SizeUpTo(s, sizes)[k]
<1> DEFINE t == SubSeq(s, 1, k)
<1>1. Len(s) \in Nat /\ k \in Nat
  OBVIOUS
<1>2. t \in Seq(S) /\ Len(t) = k /\ \A i \in 1 .. k : t[i] = s[i]
  BY <1>1, SubSeqProperties, ElementOfSeq
<1> HIDE DEF t
<1>3. \A i \in 1 .. k : i \in 1 .. Len(s)
  BY <1>1
<1> DEFINE sum == SizeUpTo(s, sizes)
<1>4. IsSum(sum, s, sizes)
  BY SumExists
<1> HIDE DEF sum
<1>5. IsSum(sum, t, sizes)
  BY <1>2, <1>3, <1>4 DEF IsSum
<1>6. k \in 0 .. Len(t)
  BY <1>1, <1>2
<1>7. sum[k] = SizeUpTo(t, sizes)[k]
  BY <1>2, <1>5, <1>6, SumIsUnique
<1> QED  BY <1>2, <1>7 DEF t, sum

(* An image in front adds its size.                                        *)
LEMMA SumWithFront ==
  ASSUME NEW S, NEW s \in Seq(S), NEW sizes \in [S -> Nat], NEW e \in S
  PROVE  /\ <<e>> \o s \in Seq(S) /\ Len(<<e>> \o s) = Len(s) + 1
         /\ SizeUpTo(<<e>> \o s, sizes)[Len(s) + 1] = sizes[e] + SizeUpTo(s, sizes)[Len(s)]
<1> DEFINE t == <<e>> \o s
           k == Len(s)
           sum == SizeUpTo(s, sizes)
           f == [i \in 0 .. k + 1 |-> IF i = 0 THEN 0 ELSE sizes[e] + sum[i - 1]]
<1>1. k \in Nat /\ sizes[e] \in Nat
  OBVIOUS
<1>2. /\ t \in Seq(S) /\ Len(t) = k + 1 /\ t[1] = e
      /\ \A i \in 2 .. k + 1 : t[i] = s[i - 1]
  <2>1. <<e>> \in Seq(S) /\ Len(<<e>>) = 1 /\ <<e>>[1] = e
    OBVIOUS
  <2>2. /\ t \in Seq(S) /\ Len(t) = 1 + k
        /\ \A i \in 1 .. 1 + k : t[i] = IF i <= 1 THEN <<e>>[i] ELSE s[i - 1]
    BY <2>1, ConcatProperties
  <2> HIDE DEF t, k
  <2> QED  BY <1>1, <2>1, <2>2
<1>3. /\ sum[0] = 0 /\ \A i \in 0 .. k : sum[i] \in Nat
      /\ \A i \in 1 .. k : sum[i] = sum[i - 1] + sizes[s[i]]
  <2>1. sum \in [0 .. k -> Nat] /\ IsSum(sum, s, sizes)
    BY SumExists
  <2> HIDE DEF sum
  <2> QED  BY <2>1 DEF IsSum
<1>4. \A i \in 1 .. k : sizes[s[i]] \in Nat
  BY ElementOfSeq
<1> HIDE DEF t, k, sum
<1>5. f[0] = 0 /\ \A i \in 1 .. k + 1 : f[i] = sizes[e] + sum[i - 1]
  BY <1>1
<1> HIDE DEF f
<1>6. ASSUME NEW i \in 1 .. k + 1 PROVE f[i] = f[i - 1] + sizes[t[i]]
  <2>1. CASE i = 1
    BY <1>1, <1>2, <1>3, <1>5, <2>1
  <2>2. CASE i # 1
    <3>1. i \in 2 .. k + 1 /\ i - 1 \in 1 .. k /\ i - 1 \in 1 .. k + 1 /\ (i - 1) - 1 \in 0 .. k
      BY <1>1, <2>2
    <3>2. sum[i - 1] = sum[(i - 1) - 1] + sizes[s[i - 1]]
      BY <1>3, <3>1
    <3>3. f[i - 1] = sizes[e] + sum[(i - 1) - 1] /\ f[i] = sizes[e] + sum[i - 1]
      BY <1>5, <3>1
    <3>4. sum[(i - 1) - 1] \in Nat /\ sizes[s[i - 1]] \in Nat /\ t[i] = s[i - 1]
      BY <1>2, <1>3, <1>4, <3>1
    <3> QED  BY <1>1, <3>2, <3>3, <3>4
  <2> QED  BY <2>1, <2>2
<1>7. IsSum(f, t, sizes)
  BY <1>2, <1>5, <1>6 DEF IsSum
<1>8. k + 1 \in 0 .. Len(t) /\ k + 1 \in 1 .. k + 1 /\ (k + 1) - 1 = k
  BY <1>1, <1>2
<1>9. f[k + 1] = SizeUpTo(t, sizes)[k + 1]
  <2>1. t \in Seq(S) /\ IsSum(f, t, sizes) /\ k + 1 \in 0 .. Len(t)
    BY <1>2, <1>7, <1>8
  <2> QED  BY <2>1, SumIsUnique
<1>10. f[k + 1] = sizes[e] + sum[k]
  BY <1>5, <1>8
<1> QED  BY <1>2, <1>9, <1>10 DEF t, k, sum

(* An image taken to the front leaves the sum as it was.                   *)
ToFront(s, k) == <<s[k]>> \o (SubSeq(s, 1, k - 1) \o SubSeq(s, k + 1, Len(s)))

LEMMA ToFrontFacts ==
  ASSUME NEW S, NEW s \in Seq(S), NEW k \in 1 .. Len(s)
  PROVE  /\ ToFront(s, k) \in Seq(S) /\ Len(ToFront(s, k)) = Len(s)
         /\ ToFront(s, k)[1] = s[k]
         /\ \A i \in 2 .. k : ToFront(s, k)[i] = s[i - 1]
         /\ \A i \in k + 1 .. Len(s) : ToFront(s, k)[i] = s[i]
<1> DEFINE n == Len(s)
           a == SubSeq(s, 1, k - 1)
           b == SubSeq(s, k + 1, n)
           c == a \o b
           t == <<s[k]>> \o c
<1>1. n \in Nat /\ k \in 1 .. n /\ s[k] \in S
  BY ElementOfSeq
<1>2. a \in Seq(S) /\ Len(a) = k - 1 /\ \A i \in 1 .. k - 1 : a[i] = s[i]
  BY <1>1, SubSeqProperties, ElementOfSeq
<1>3. b \in Seq(S) /\ Len(b) = n - k /\ \A i \in 1 .. n - k : b[i] = s[k + i]
  <2>1. k + 1 \in 1 .. n + 1
    BY <1>1
  <2> QED  BY <1>1, <2>1, SubSeqProperties, ElementOfSeq
<1>4. <<s[k]>> \in Seq(S) /\ Len(<<s[k]>>) = 1 /\ <<s[k]>>[1] = s[k]
  BY <1>1
<1> HIDE DEF a, b, n
<1>5. /\ c \in Seq(S) /\ Len(c) = (k - 1) + (n - k)
      /\ \A i \in 1 .. (k - 1) + (n - k) : c[i] = IF i <= k - 1 THEN a[i] ELSE b[i - (k - 1)]
  <2>1. a \in Seq(S) /\ b \in Seq(S) /\ Len(a) = k - 1 /\ Len(b) = n - k
    BY <1>2, <1>3
  <2>2. /\ a \o b \in Seq(S) /\ Len(a \o b) = Len(a) + Len(b)
        /\ \A i \in 1 .. Len(a) + Len(b) :
             (a \o b)[i] = IF i <= Len(a) THEN a[i] ELSE b[i - Len(a)]
    BY <2>1, ConcatProperties
  <2> QED  BY <2>1, <2>2
<1> HIDE DEF c
<1>6. /\ Len(c) = n - 1
      /\ \A i \in 1 .. k - 1 : c[i] = s[i]
      /\ \A i \in k .. n - 1 : c[i] = s[i + 1]
  <2>1. Len(c) = n - 1
    BY <1>1, <1>5
  <2>2. ASSUME NEW i \in 1 .. k - 1 PROVE c[i] = s[i]
    <3>1. i \in 1 .. (k - 1) + (n - k) /\ i <= k - 1
      BY <1>1
    <3> QED  BY <1>2, <1>5, <3>1
  <2>3. ASSUME NEW i \in k .. n - 1 PROVE c[i] = s[i + 1]
    <3>1. i \in 1 .. (k - 1) + (n - k) /\ ~(i <= k - 1)
      BY <1>1
    <3>2. i - (k - 1) \in 1 .. n - k /\ k + (i - (k - 1)) = i + 1
      BY <1>1
    <3>3. c[i] = b[i - (k - 1)]
      BY <1>5, <3>1
    <3> QED  BY <1>3, <3>2, <3>3
  <2> QED  BY <2>1, <2>2, <2>3
<1>7. /\ t \in Seq(S) /\ Len(t) = 1 + (n - 1)
      /\ \A i \in 1 .. 1 + (n - 1) : t[i] = IF i <= 1 THEN <<s[k]>>[i] ELSE c[i - 1]
  BY <1>4, <1>5, <1>6, ConcatProperties
<1> HIDE DEF t
<1>8. t \in Seq(S) /\ Len(t) = n /\ t[1] = s[k]
  BY <1>1, <1>4, <1>7
<1>9. ASSUME NEW i \in 2 .. k PROVE t[i] = s[i - 1]
  <2>1. i \in 1 .. 1 + (n - 1) /\ ~(i <= 1) /\ i - 1 \in 1 .. k - 1
    BY <1>1
  <2> QED  BY <1>6, <1>7, <2>1
<1>10. ASSUME NEW i \in k + 1 .. n PROVE t[i] = s[i]
  <2>1. i \in 1 .. 1 + (n - 1) /\ ~(i <= 1) /\ i - 1 \in k .. n - 1 /\ (i - 1) + 1 = i
    BY <1>1
  <2> QED  BY <1>6, <1>7, <2>1
<1>11. t = ToFront(s, k)
  BY DEF t, c, a, b, n, ToFront
<1> QED  BY <1>8, <1>9, <1>10, <1>11 DEF n

LEMMA SumToFront ==
  ASSUME NEW S, NEW s \in Seq(S), NEW sizes \in [S -> Nat], NEW k \in 1 .. Len(s)
  PROVE  SizeUpTo(ToFront(s, k), sizes)[Len(s)] = SizeUpTo(s, sizes)[Len(s)]
<1> DEFINE t == ToFront(s, k)
           n == Len(s)
           sum == SizeUpTo(s, sizes)
           first == sizes[s[k]]
           f == [i \in 0 .. n |-> IF i = 0 THEN 0 ELSE IF i < k THEN first + sum[i - 1] ELSE sum[i]]
<1>1. n \in Nat /\ k \in 1 .. n /\ first \in Nat /\ \A i \in 1 .. n : sizes[s[i]] \in Nat
  BY ElementOfSeq
<1>2. /\ t \in Seq(S) /\ Len(t) = n /\ t[1] = s[k]
      /\ \A i \in 2 .. k : t[i] = s[i - 1]
      /\ \A i \in k + 1 .. n : t[i] = s[i]
  BY ToFrontFacts
<1>3. /\ sum[0] = 0 /\ \A i \in 0 .. n : sum[i] \in Nat
      /\ \A i \in 1 .. n : sum[i] = sum[i - 1] + sizes[s[i]]
  <2>1. sum \in [0 .. n -> Nat] /\ IsSum(sum, s, sizes)
    BY SumExists
  <2> HIDE DEF sum
  <2> QED  BY <2>1 DEF IsSum
<1>4. sum[k] = sum[k - 1] + first
  BY <1>1, <1>3
<1> HIDE DEF t, n, sum
<1>5. /\ f[0] = 0
      /\ \A i \in 1 .. n : i < k => f[i] = first + sum[i - 1]
      /\ \A i \in 1 .. n : i >= k => f[i] = sum[i]
  BY <1>1
<1> HIDE DEF f
<1>6. ASSUME NEW i \in 1 .. n PROVE f[i] = f[i - 1] + sizes[t[i]]
  <2>1. CASE i = 1
    <3>1. CASE k = 1
      BY <1>1, <1>2, <1>3, <1>4, <1>5, <2>1, <3>1
    <3>2. CASE k # 1
      <4>1. f[1] = first + sum[0] /\ t[1] = s[k]
        BY <1>1, <1>2, <1>5, <2>1, <3>2
      <4> QED  BY <1>1, <1>3, <1>5, <2>1, <4>1
    <3> QED  BY <3>1, <3>2
  <2>2. CASE i # 1 /\ i < k
    <3>1. i - 1 \in 1 .. n /\ i - 1 < k /\ i \in 2 .. k /\ (i - 1) - 1 \in 0 .. n
      BY <1>1, <2>2
    <3>2. f[i] = first + sum[i - 1] /\ f[i - 1] = first + sum[(i - 1) - 1] /\ t[i] = s[i - 1]
      BY <1>2, <1>5, <2>2, <3>1
    <3>3. sum[i - 1] = sum[(i - 1) - 1] + sizes[s[i - 1]] /\ sizes[s[i - 1]] \in Nat
          /\ sum[(i - 1) - 1] \in Nat
      BY <1>1, <1>3, <3>1
    <3> QED  BY <1>1, <3>2, <3>3
  <2>3. CASE i # 1 /\ i = k
    <3>1. i - 1 \in 1 .. n /\ i - 1 < k /\ i \in 2 .. k /\ (i - 1) - 1 \in 0 .. n /\ i - 1 \in 0 .. n
      BY <1>1, <2>3
    <3>2. f[i] = sum[k] /\ f[i - 1] = first + sum[(i - 1) - 1] /\ t[i] = s[i - 1]
      BY <1>1, <1>2, <1>5, <2>3, <3>1
    <3>3. sum[i - 1] = sum[(i - 1) - 1] + sizes[s[i - 1]] /\ sizes[s[i - 1]] \in Nat
          /\ sum[(i - 1) - 1] \in Nat /\ sum[i - 1] \in Nat
      BY <1>1, <1>3, <3>1
    <3> QED  BY <1>1, <1>4, <2>3, <3>2, <3>3
  <2>4. CASE i # 1 /\ i > k
    <3>1. i - 1 \in 1 .. n /\ i - 1 >= k /\ i \in k + 1 .. n
      BY <1>1, <2>4
    <3>2. f[i] = sum[i] /\ f[i - 1] = sum[i - 1] /\ t[i] = s[i]
      BY <1>1, <1>2, <1>5, <2>4, <3>1
    <3> QED  BY <1>3, <3>2
  <2> QED  BY <1>1, <2>1, <2>2, <2>3, <2>4
<1>7. IsSum(f, t, sizes)
  BY <1>2, <1>5, <1>6 DEF IsSum
<1>8. f[n] = SizeUpTo(t, sizes)[n]
  <2>1. t \in Seq(S) /\ IsSum(f, t, sizes) /\ n \in 0 .. Len(t)
    BY <1>1, <1>2, <1>7
  <2> QED  BY <2>1, SumIsUnique
<1>9. f[n] = sum[n]
  BY <1>1, <1>5
<1> QED  BY <1>8, <1>9 DEF t, n, sum

(* What a cache counts covers its images, and when there are several it is *)
(* within the limit.                                                       *)
Accounted(cache, sizes, max) ==
  /\ cache.cur_size \in Nat
  /\ Total(cache, sizes) <= cache.cur_size
  /\ Len(cache.imgs) > 1 => cache.cur_size <= max

(* The total is the sum over all of the images.                            *)
LEMMA TotalIsSum ==
  ASSUME NEW S, NEW cache, cache.imgs \in Seq(S), NEW sizes \in [S -> Nat]
  PROVE  /\ Total(cache, sizes) = SizeUpTo(cache.imgs, sizes)[Len(cache.imgs)]
         /\ Total(cache, sizes) \in Nat
<1> DEFINE s == cache.imgs
           sum == SizeUpTo(s, sizes)
           n == Len(s)
<1>1. sum \in [0 .. n -> Nat] /\ IsSum(sum, s, sizes) /\ n \in Nat
  BY SumExists
<1>2. Total(cache, sizes) = sum[n] - sum[0]
  BY DEF Total, SizeFrom
<1> HIDE DEF sum, n
<1>3. sum[0] = 0 /\ sum[n] \in Nat
  BY <1>1 DEF IsSum
<1>4. Total(cache, sizes) = sum[n] /\ Total(cache, sizes) \in Nat
  BY <1>2, <1>3
<1> QED  BY <1>4 DEF sum, n

LEMMA EmptyAccounted ==
  ASSUME NEW S, NEW sizes \in [S -> Nat], NEW max
  PROVE  EmptyCache.imgs \in Seq(S) /\ Accounted(EmptyCache, sizes, max)
<1>1. EmptyCache.imgs = <<>> /\ EmptyCache.cur_size = 0
  BY DEF EmptyCache
<1>2. EmptyCache.imgs \in Seq(S) /\ Len(EmptyCache.imgs) = 0
  BY <1>1
<1>3. Total(EmptyCache, sizes) = SizeUpTo(<<>>, sizes)[0]
  BY <1>1, <1>2, TotalIsSum
<1>4. SizeUpTo(<<>>, sizes)[0] = 0
  <2>1. <<>> \in Seq(S)
    OBVIOUS
  <2> QED  BY <2>1, SumExists DEF IsSum
<1> QED  BY <1>1, <1>2, <1>3, <1>4 DEF Accounted

(* An image that was looked up is counted as it was.                       *)
LEMMA ElevateAccounted ==
  ASSUME NEW S, NEW cache, cache.imgs \in Seq(S), NEW sizes \in [S -> Nat], NEW max,
         NEW key, key \in Keys(cache), Accounted(cache, sizes, max)
  PROVE  Accounted(Elevate(cache, key), sizes, max)
<1> DEFINE s == cache.imgs
           At_(v) == v = key
           I == {i \in 1 .. Len(s) : At_(s[i])}
           after == Elevate(cache, key)
<1>1. Len(s) \in Nat
  OBVIOUS
<1>2. I # {} /\ I \subseteq Nat /\ \E i \in 1 .. Len(s) : s[i] = key
  BY <1>1 DEF Keys
<1>3. PICK m \in I : \A j \in I : m =< j
  <2> HIDE DEF I
  <2> QED  BY <1>2, SmallestExists
<1>4. Min(I) \in I
  BY <1>3 DEF Min
<1>5. SelectInSeq(s, At_) = Min(I)
  BY <1>2 DEF SelectInSeq
<1>6. RemoveFirst(s, key) = RemoveAt(s, Min(I))
  BY <1>2, <1>5 DEF RemoveFirst
<1>7. PICK k \in 1 .. Len(s) : k = Min(I) /\ s[k] = key
  BY <1>4
<1>8. after.imgs = <<key>> \o RemoveFirst(s, key) /\ after.cur_size = cache.cur_size
  <2>1. cache.imgs \in Seq(S)
    OBVIOUS
  <2> QED  BY DEF Elevate
<1>9. after.imgs = ToFront(s, k)
  BY <1>6, <1>7, <1>8 DEF ToFront, RemoveAt
<1> HIDE DEF after, I
<1>10. after.imgs \in Seq(S) /\ Len(after.imgs) = Len(s)
  BY <1>9, ToFrontFacts
<1>11. SizeUpTo(after.imgs, sizes)[Len(s)] = SizeUpTo(s, sizes)[Len(s)]
  BY <1>9, SumToFront
<1>12. Total(after, sizes) = SizeUpTo(after.imgs, sizes)[Len(s)]
  BY <1>10, TotalIsSum
<1>13. Total(cache, sizes) = SizeUpTo(s, sizes)[Len(s)]
  BY TotalIsSum
<1>14. Total(after, sizes) = Total(cache, sizes)
  BY <1>11, <1>12, <1>13
<1>15. Accounted(after, sizes, max)
  BY <1>8, <1>10, <1>14 DEF Accounted
<1> QED  BY <1>15 DEF after

(* The oldest images make way until the new one fits, or all of them do.   *)
LEMMA PutAccounted ==
  ASSUME NEW S, NEW cache, cache.imgs \in Seq(S), NEW sizes \in [S -> Nat], NEW max \in Nat,
         NEW key \in S, NEW meta \in Nat, Accounted(cache, sizes, max)
  PROVE  Accounted(image_cache_put(cache, key, meta, max, sizes), sizes, max)
<1> DEFINE s == cache.imgs
           n == Len(s)
           sum == SizeUpTo(s, sizes)
           size == sizes[key] + meta
           Left(j) == cache.cur_size - SizeFrom(cache.imgs, j, sizes)
           Fits == {j \in 0 .. Len(cache.imgs) : Left(j) + size <= max}
           kept == IF Fits = {} THEN 0 ELSE Max(Fits)
           room == assert_size(cache, size, max, sizes)
           after == image_cache_put(cache, key, meta, max, sizes)
<1>1. n \in Nat /\ sizes[key] \in Nat /\ size \in Nat
  OBVIOUS
<1>2. room.imgs = SubSeq(s, 1, kept) /\ room.cur_size = Left(kept)
  BY DEF assert_size
<1>3. after.imgs = <<key>> \o room.imgs /\ after.cur_size = room.cur_size + sizes[key] + meta
  BY DEF image_cache_put
<1> HIDE DEF after, room
<1>4. /\ kept \in 0 .. n
      /\ kept # 0 => Left(kept) + size <= max
  <2>1. CASE Fits = {}
    BY <2>1, <1>1
  <2>2. CASE Fits # {}
    <3>1. Fits \subseteq 0 .. n /\ \A j \in Fits : Left(j) + size <= max
      OBVIOUS
    <3> HIDE DEF Fits, Left
    <3>2. \E x \in Fits : \A y \in Fits : x >= y
      BY <3>1, <2>2, <1>1, LargestExists
    <3>3. Max(Fits) \in Fits
      BY <3>2 DEF Max
    <3> QED  BY <3>1, <3>3, <2>2
  <2> QED  BY <2>1, <2>2
<1>5. sum \in [0 .. n -> Nat]
  BY SumExists
<1>6. Total(cache, sizes) = sum[n]
  BY TotalIsSum
<1>7. Left(kept) = cache.cur_size - (sum[n] - sum[kept])
  BY DEF SizeFrom
<1>8. cache.cur_size \in Nat /\ sum[n] <= cache.cur_size
  BY <1>6 DEF Accounted
<1>9. SubSeq(s, 1, kept) \in Seq(S) /\ Len(SubSeq(s, 1, kept)) = kept
      /\ SizeUpTo(SubSeq(s, 1, kept), sizes)[kept] = sum[kept]
  <2>1. kept \in 0 .. Len(s)
    BY <1>4
  <2> HIDE DEF kept
  <2> QED  BY <2>1, SumOfPrefix
<1> HIDE DEF kept, Left, sum, n, size
<1>10. /\ room.imgs \in Seq(S) /\ Len(room.imgs) = kept
       /\ SizeUpTo(room.imgs, sizes)[Len(room.imgs)] = sum[kept]
  BY <1>2, <1>9
<1>11. /\ after.imgs \in Seq(S) /\ Len(after.imgs) = kept + 1
       /\ SizeUpTo(after.imgs, sizes)[Len(after.imgs)] = sizes[key] + sum[kept]
  <2> DEFINE r == room.imgs
  <2>1. r \in Seq(S) /\ key \in S /\ sizes \in [S -> Nat]
    BY <1>10
  <2> HIDE DEF r
  <2>2. /\ <<key>> \o r \in Seq(S) /\ Len(<<key>> \o r) = Len(r) + 1
        /\ SizeUpTo(<<key>> \o r, sizes)[Len(r) + 1] = sizes[key] + SizeUpTo(r, sizes)[Len(r)]
    BY <2>1, SumWithFront
  <2>3. after.imgs = <<key>> \o r
    BY <1>3 DEF r
  <2>4. Len(r) = kept /\ SizeUpTo(r, sizes)[Len(r)] = sum[kept]
    BY <1>10 DEF r
  <2> QED  BY <2>2, <2>3, <2>4
<1>12. Total(after, sizes) = sizes[key] + sum[kept]
  BY <1>11, TotalIsSum
<1>13. sum[n] \in Nat /\ sum[kept] \in Nat /\ kept \in Nat
  BY <1>1, <1>4, <1>5
<1>14. after.cur_size = Left(kept) + sizes[key] + meta /\ size = sizes[key] + meta
  BY <1>2, <1>3 DEF size
<1> DEFINE left == Left(kept)
           first == sizes[key]
           kept_size == sum[kept]
<1>15. left \in Nat /\ kept_size \in Nat /\ first \in Nat /\ kept_size <= left
  BY <1>1, <1>7, <1>8, <1>13
<1>16. /\ after.cur_size = left + first + meta /\ Total(after, sizes) = first + kept_size
       /\ kept # 0 => left + (first + meta) <= max
  BY <1>4, <1>12, <1>14
<1> HIDE DEF left, first, kept_size
<1>18. after.cur_size \in Nat /\ Total(after, sizes) <= after.cur_size
  BY <1>15, <1>16
<1>19. Len(after.imgs) > 1 => kept # 0
  BY <1>11, <1>13
<1>20. Len(after.imgs) > 1 => after.cur_size <= max
  BY <1>15, <1>16, <1>19
<1>17. Accounted(after, sizes, max)
  BY <1>18, <1>20 DEF Accounted
<1> QED  BY <1>17 DEF after

-----------------------------------------------------------------------------
(* The invariant holds at the start.                                       *)
LEMMA InitInv == Init => IInv
<1> SUFFICES ASSUME Init PROVE IInv
  OBVIOUS
<1> USE SpivAssumption
<1>1. NewLoader \in Loaders
  BY DEF NewLoader, Loaders, Steps
<1>2. Typed
  <2>1. main \in [op : Doings, to : Images] /\ cur \in Images
    BY DEF Init, Images, Doings
  <2>2. img_cache.imgs \in Seq(Images) /\ img_resized_cache.imgs \in Seq(ResizedKeys)
    BY EmptySeq DEF Init, EmptyCache
  <2> QED  BY <1>1, <2>1, <2>2 DEF Init, Typed, Sys
<1>3. HoldsSelected /\ AtHandIsSelected /\ PixmapIsThere /\ RoughIsBrief
  BY DEF Init, RoughIsBrief, HoldsSelected, AtHandIsSelected, PixmapIsThere, Running, Images, ResizedKeys
<1> QED  BY <1>2, <1>3 DEF IInv

-----------------------------------------------------------------------------
(* The loader thread keeps the invariant.                                  *)

(* What no step of the loader changes, but the one that ends the program.  *)
Frame == UNCHANGED <<thread, sys, pixmap, config, method, cur>>
SameImages == UNCHANGED <<cur_img, img_cache, img_resized_cache>>
SameHeld == loader'.orig = loader.orig /\ loader'.src = loader.src /\ loader'.img = loader.img

LEMMA LoaderFields ==
  ASSUME loader \in Loaders
  PROVE  /\ loader.pc \in Steps /\ loader.drawable \in BOOLEAN /\ loader.rough \in BOOLEAN
         /\ loader.orig \in Images \cup {NULL} /\ loader.src \in Images \cup {NULL}
         /\ loader.img \in ResizedKeys \cup {NULL} /\ loader.ratio \in Ratios
         /\ loader.made \in Methods \cup {NULL}
         /\ loader.to \in {NULL, 1, 2} /\ loader.picture \in Pictures \cup {NULL}
BY DEF Loaders

(* A step that only moves on, with the images it holds.                    *)
LEMMA MovesOn ==
  ASSUME IInv, Running, Frame, SameImages, SameHeld,
         main' \in [op : Doings, to : Images],
         zoom_rat' \in Ratios, loader' \in Loaders,
         loader'.drawable = loader.drawable,
         loader'.pc \notin {"start", "load", "decode", "decode_again"},
         loader'.pc # "done" /\ loader.img # NULL =>
           loader'.pc \in {"update", "paint", "flip"} /\ ~loader'.rough,
         loader'.pc # "done" => loader.drawable,
         loader'.pc # "done" /\ loader'.rough => loader'.pc \in {"update", "paint", "flip"},
         loader'.pc \in {"paint", "flip"} => loader'.to = pixmap
  PROVE  IInv'
<1> USE DEF IInv, Frame, SameImages
<1>1. Typed'
  BY DEF Typed
<1>2. HoldsSelected'
  BY DEF HoldsSelected, SameHeld, Running, Keys
<1>3. AtHandIsSelected'
  BY DEF AtHandIsSelected, Running, Keys
<1>4. PixmapIsThere'
  BY DEF PixmapIsThere, Running
<1>5. RoughIsBrief'
  BY DEF RoughIsBrief, Running
<1> QED  BY <1>1, <1>2, <1>3, <1>4, <1>5

(* The thread ends.                                                        *)
LEMMA LoaderEnds ==
  ASSUME IInv, Running, Frame, SameImages, Ends,
         main' \in [op : Doings, to : Images], zoom_rat' \in Ratios
  PROVE  IInv'
<1>1. loader \in Loaders
  BY DEF IInv, Typed
<1>2. /\ loader' = [loader EXCEPT !.pc = "done"]
      /\ "done" \in Steps
  BY DEF Ends, GoOn, Steps
<1>3. /\ loader' \in Loaders /\ loader'.pc = "done"
      /\ loader'.drawable = loader.drawable /\ SameHeld
  BY <1>1, <1>2 DEF Loaders, SameHeld
<1> QED  BY <1>3, MovesOn

(* update_display() returns.                                               *)
LEMMA UpdateReturns ==
  ASSUME IInv, Running, Frame, SameImages, Updated, UNCHANGED <<main, zoom_rat>>,
         loader.pc \in {"update", "paint", "flip"}
  PROVE  IInv'
<1>1. loader \in Loaders
  BY DEF IInv, Typed
<1>2. CASE loader.rough
  <2>1. /\ loader' = [loader EXCEPT !.pc = "blur", !.rough = FALSE, !.to = NULL]
        /\ "blur" \in Steps
    BY <1>2 DEF Updated, Steps
  <2>2. /\ loader' \in Loaders /\ loader'.pc = "blur" /\ ~loader'.rough
        /\ loader'.drawable = loader.drawable /\ SameHeld
    BY <1>1, <2>1 DEF Loaders, SameHeld
  <2>3. loader.img = NULL /\ loader.drawable
    BY <1>2 DEF IInv, HoldsSelected, PixmapIsThere
  <2> QED  BY <2>2, <2>3, MovesOn DEF IInv, Typed
<1>3. CASE ~loader.rough
  BY <1>3, LoaderEnds DEF Updated, IInv, Typed
<1> QED  BY <1>2, <1>3

(* An image was found or loaded: it is the selected one, and cached.       *)
LEMMA LoadedKeeps ==
  ASSUME IInv, Running, Frame, UNCHANGED <<main, zoom_rat, img_resized_cache>>,
         loader.pc \in {"load", "decode", "load_again", "decode_again"},
         Loaded(cur), img_cache'.imgs \in Seq(Images), cur \in Keys(img_cache'),
         cur_img' \in {NULL, cur}
  PROVE  IInv'
<1> USE SpivAssumption
<1>a. loader \in Loaders /\ cur \in Images
  BY DEF IInv, Typed
<1>1. CASE loader.pc \in {"load", "decode"}
  <2>1. loader' = [loader EXCEPT !.pc = "zoom", !.orig = cur] /\ "zoom" \in Steps
    BY <1>1 DEF Loaded, Steps
  <2>2. /\ loader' \in Loaders /\ loader'.pc = "zoom" /\ loader'.orig = cur
        /\ loader'.src = loader.src /\ loader'.img = loader.img
        /\ loader'.drawable = loader.drawable /\ loader'.rough = loader.rough
    BY <1>a, <2>1 DEF Loaders
  <2>3. Typed'
    BY <1>a, <2>2 DEF IInv, Typed, Frame
  <2>4. loader.src = NULL /\ loader.img = NULL
    BY <1>1 DEF IInv, HoldsSelected
  <2>5. HoldsSelected'
    BY <1>a, <2>2, <2>4 DEF HoldsSelected, Frame, Running, Keys
  <2>6. AtHandIsSelected'
    BY <1>a, <2>2 DEF AtHandIsSelected, Frame, Running, Keys
  <2>7. PixmapIsThere'
    BY <2>2 DEF IInv, PixmapIsThere, Frame, Running
  <2>8. RoughIsBrief'
    BY <1>1, <2>2 DEF IInv, RoughIsBrief, Running
  <2> QED  BY <2>3, <2>5, <2>6, <2>7, <2>8 DEF IInv
<1>2. CASE loader.pc \in {"load_again", "decode_again"}
  <2> DEFINE rough == method \in NnFirst
             pc == IF rough THEN "update" ELSE "blur"
  <2>1. /\ loader' = [loader EXCEPT !.pc = pc, !.src = cur, !.rough = rough]
        /\ pc \in Steps /\ pc \in {"update", "blur"} /\ rough \in BOOLEAN
        /\ rough => pc = "update"
    BY <1>2 DEF Loaded, Steps
  <2> HIDE DEF rough, pc
  <2>2. /\ loader' \in Loaders /\ loader'.pc = pc /\ loader'.src = cur
        /\ loader'.orig = loader.orig /\ loader'.img = loader.img
        /\ loader'.drawable = loader.drawable /\ loader'.rough = rough
    BY <1>a, <2>1 DEF Loaders
  <2>3. Typed'
    BY <1>a, <2>2 DEF IInv, Typed, Frame
  <2>4. loader.img = NULL /\ loader.drawable /\ loader.orig \in {NULL, cur}
    BY <1>2 DEF IInv, HoldsSelected, PixmapIsThere
  <2>5. HoldsSelected'
    BY <1>a, <2>1, <2>2, <2>4 DEF HoldsSelected, Frame, Running, Keys
  <2>6. AtHandIsSelected'
    BY <1>a, <2>1, <2>2 DEF AtHandIsSelected, Frame, Running, Keys
  <2>7. PixmapIsThere'
    BY <2>1, <2>2, <2>4 DEF IInv, PixmapIsThere, Frame, Running
  <2>8. RoughIsBrief'
    BY <2>1, <2>2 DEF RoughIsBrief
  <2> QED  BY <2>3, <2>5, <2>6, <2>7, <2>8 DEF IInv
<1> QED  BY <1>1, <1>2

(* A resized image was found or stored.                                    *)
LEMMA ResizedKeeps ==
  ASSUME IInv, Running, Frame, UNCHANGED <<main, zoom_rat, cur_img, img_cache>>,
         loader.pc \in {"lookup", "store"}, ~loader.rough,
         \/ loader' = [loader EXCEPT !.pc = "update", !.img = ResizedKey]
         \/ loader' = [loader EXCEPT !.pc = "update", !.src = NULL, !.img = ResizedKey, !.made = NULL],
         img_resized_cache'.imgs \in Seq(ResizedKeys), ResizedKey \in Keys(img_resized_cache')
  PROVE  IInv'
<1> USE SpivAssumption
<1>1. loader \in Loaders /\ cur \in Images /\ method \in Methods /\ loader.ratio \in Ratios
  BY LoaderFields DEF IInv, Typed
<1>2. ResizedKey \in ResizedKeys /\ "update" \in Steps
  BY <1>1 DEF ResizedKey, ResizedKeys, Steps
<1>3. /\ loader' \in Loaders /\ loader'.pc = "update" /\ loader'.src \in {loader.src, NULL}
      /\ loader'.img = ResizedKey /\ loader'.orig = loader.orig
      /\ loader'.drawable = loader.drawable /\ loader'.rough = loader.rough
  <2> DEFINE key == ResizedKey
  <2>1. /\ key \in ResizedKeys
        /\ \/ loader' = [loader EXCEPT !.pc = "update", !.img = key]
           \/ loader' = [loader EXCEPT !.pc = "update", !.src = NULL, !.img = key, !.made = NULL]
    BY <1>2
  <2> HIDE DEF key
  <2>2. CASE loader' = [loader EXCEPT !.pc = "update", !.img = key]
    BY <1>1, <1>2, <2>1, <2>2 DEF Loaders, key
  <2>3. CASE loader' = [loader EXCEPT !.pc = "update", !.src = NULL, !.img = key, !.made = NULL]
    BY <1>1, <1>2, <2>1, <2>3 DEF Loaders, key
  <2> QED  BY <2>1, <2>2, <2>3
<1>4. loader.drawable
  BY DEF IInv, PixmapIsThere
<1>5. Typed'
  BY <1>3 DEF IInv, Typed, Frame
<1>6. HoldsSelected'
  BY <1>3 DEF IInv, HoldsSelected, Frame, Running, Keys
<1>7. AtHandIsSelected'
  BY <1>3 DEF IInv, AtHandIsSelected, Frame, Running, Keys
<1>8. PixmapIsThere'
  BY <1>3, <1>4 DEF IInv, PixmapIsThere, Frame, Running
<1>9. RoughIsBrief'
  BY <1>3 DEF RoughIsBrief
<1> QED  BY <1>5, <1>6, <1>7, <1>8, <1>9 DEF IInv

(* A loader that shows nothing has no rough picture.                       *)
LEMMA NotRough ==
  ASSUME IInv, Running, loader.pc \notin {"update", "paint", "flip"}
  PROVE  ~loader.rough
BY DEF IInv, RoughIsBrief

LEMMA LoaderKeepsInv ==
  ASSUME IInv, image_loader
  PROVE  IInv'
<1> USE SpivAssumption
<1>a. loader \in Loaders /\ cur \in Images /\ zoom_rat \in Ratios /\ method \in Methods
      /\ main \in [op : Doings, to : Images]
      /\ cur_img \in Images \cup {NULL} /\ pixmap \in {NULL, 1, 2} /\ config \in BOOLEAN
      /\ img_cache.imgs \in Seq(Images) /\ img_resized_cache.imgs \in Seq(ResizedKeys)
      /\ NULL \notin Images
  BY DEF IInv, Typed
<1>b. /\ loader.pc \in Steps /\ loader.orig \in Images \cup {NULL}
      /\ loader.src \in Images \cup {NULL} /\ loader.ratio \in Ratios
      /\ loader.drawable \in BOOLEAN /\ loader.rough \in BOOLEAN
      /\ loader.made \in Methods \cup {NULL}
  BY <1>a, LoaderFields
<1>1. CASE LoaderStarts
  <2>1. /\ loader' = [loader EXCEPT !.pc = "load", !.drawable = (pixmap # NULL)]
        /\ "load" \in Steps /\ loader.pc = "start" /\ thread
        /\ Frame /\ SameImages /\ UNCHANGED <<main, zoom_rat>>
    BY <1>1 DEF LoaderStarts, At, Steps, Frame, SameImages, loaderOnly, window, images
  <2>2. /\ loader' \in Loaders /\ loader'.pc = "load" /\ SameHeld
        /\ loader'.drawable = (pixmap # NULL) /\ loader'.rough = loader.rough
    BY <1>a, <2>1 DEF Loaders, SameHeld
  <2>3. Typed'
    BY <2>1, <2>2 DEF IInv, Typed, Frame, SameImages
  <2>4. HoldsSelected'
    BY <2>1, <2>2 DEF IInv, HoldsSelected, Running, SameHeld, Frame, SameImages
  <2>5. AtHandIsSelected'
    BY <2>1, <2>2 DEF IInv, AtHandIsSelected, Running, Frame, SameImages, Keys
  <2>6. PixmapIsThere'
    BY <2>1, <2>2 DEF IInv, PixmapIsThere, Running, Frame
  <2>7. RoughIsBrief'
    BY <2>1, <2>2, NotRough DEF RoughIsBrief, Running
  <2> QED  BY <2>3, <2>4, <2>5, <2>6, <2>7 DEF IInv
<1>4. CASE DecodeFails
  <2>1. /\ Running /\ Frame /\ SameImages /\ Ends /\ zoom_rat' = zoom_rat
        /\ main' = main \/ main' = [main EXCEPT !.op = "crashed"]
    BY <1>4 DEF DecodeFails, At, Running, Frame, SameImages, window, images, params
  <2>2. main' \in [op : Doings, to : Images]
    BY <1>a, <2>1 DEF Doings
  <2> QED  BY <1>a, <2>1, <2>2, LoaderEnds
<1>5. CASE FigureZoom
  <2> DEFINE r == IF zoom_manual THEN zoom_rat ELSE FitRatio[cur]
  <2>1. /\ Running /\ Frame /\ SameImages /\ UNCHANGED <<main, zoom_rat>>
    BY <1>5 DEF FigureZoom, At, Running, Frame, SameImages, loaderOnly, window, images
  <2>2. CASE ~loader.drawable
    BY <1>a, <1>5, <2>1, <2>2, LoaderEnds DEF FigureZoom
  <2>3. CASE loader.drawable
    <3>1. r \in Ratios /\ "write_zoom" \in Steps
      BY <1>a DEF Steps
    <3>2. loader' = [loader EXCEPT !.pc = "write_zoom", !.ratio = r] /\ loader.pc = "zoom"
      BY <1>5, <2>3 DEF FigureZoom, At
    <3> HIDE DEF r
    <3>3. /\ loader' \in Loaders /\ loader'.pc = "write_zoom" /\ SameHeld
          /\ loader'.drawable = loader.drawable /\ loader'.rough = loader.rough
      BY <1>a, <3>1, <3>2 DEF Loaders, SameHeld
    <3>4. loader.img = NULL /\ ~loader.rough
      BY <2>1, <3>2, NotRough DEF IInv, HoldsSelected
    <3> QED  BY <1>a, <2>1, <2>3, <3>3, <3>4, MovesOn
  <2> QED  BY <2>2, <2>3
<1>6. CASE WriteZoom
  <2>1. /\ Running /\ Frame /\ SameImages /\ UNCHANGED main /\ zoom_rat' \in Ratios
        /\ loader' = [loader EXCEPT !.pc = "size"] /\ loader.pc = "write_zoom" /\ "size" \in Steps
    BY <1>b, <1>6 DEF WriteZoom, At, GoOn, Running, Frame, SameImages, loaderOnly, window, images, Steps
  <2>2. /\ loader' \in Loaders /\ loader'.pc = "size" /\ SameHeld
        /\ loader'.drawable = loader.drawable /\ loader'.rough = loader.rough
    BY <1>a, <2>1 DEF Loaders, SameHeld
  <2>3. loader.img = NULL /\ loader.drawable /\ ~loader.rough
    BY <2>1, NotRough DEF IInv, HoldsSelected, PixmapIsThere
  <2> QED  BY <1>a, <2>1, <2>2, <2>3, MovesOn
<1>14. CASE Blur
  <2> DEFINE made == IF method \in LowPass /\ zoom_rat # loader.ratio THEN NULL ELSE method
  <2>1. /\ Running /\ Frame /\ SameImages /\ UNCHANGED <<main, zoom_rat>>
        /\ loader.pc = "blur"
    BY <1>14 DEF Blur, At, Running, Frame, SameImages, loaderOnly, window, images
  <2>2. CASE loader' = [loader EXCEPT !.pc = "resample", !.made = made]
    <3>1. made \in Methods \cup {NULL} /\ "resample" \in Steps
      BY <1>a, <1>b DEF Steps
    <3> HIDE DEF made
    <3>2. /\ loader' \in Loaders /\ loader'.pc = "resample" /\ SameHeld
          /\ loader'.drawable = loader.drawable /\ loader'.rough = loader.rough
      BY <1>a, <2>2, <3>1 DEF Loaders, SameHeld
    <3>3. loader.img = NULL /\ loader.drawable /\ ~loader.rough
      BY <2>1, NotRough DEF IInv, HoldsSelected, PixmapIsThere
    <3> QED  BY <1>a, <2>1, <3>2, <3>3, MovesOn
  <2>3. CASE Ends
    BY <1>a, <2>1, <2>3, LoaderEnds
  <2> QED  BY <1>14, <2>2, <2>3 DEF Blur
<1>9. CASE Resample
  <2> DEFINE made == IF loader.made # NULL /\ (loader.made \in LowPass <=> method \in LowPass)
                     THEN method ELSE NULL
  <2>1. /\ Running /\ Frame /\ SameImages /\ UNCHANGED <<main, zoom_rat>>
        /\ loader.pc = "resample"
    BY <1>9 DEF Resample, At, Running, Frame, SameImages, loaderOnly, window, images
  <2>2. CASE loader' = [loader EXCEPT !.pc = "store", !.made = made]
    <3>1. made \in Methods \cup {NULL} /\ "store" \in Steps
      BY <1>a, <1>b DEF Steps
    <3> HIDE DEF made
    <3>2. /\ loader' \in Loaders /\ loader'.pc = "store" /\ SameHeld
          /\ loader'.drawable = loader.drawable /\ loader'.rough = loader.rough
      BY <1>a, <2>2, <3>1 DEF Loaders, SameHeld
    <3>3. loader.img = NULL /\ loader.drawable /\ ~loader.rough
      BY <2>1, NotRough DEF IInv, HoldsSelected, PixmapIsThere
    <3> QED  BY <1>a, <2>1, <3>2, <3>3, MovesOn
  <2>3. CASE Ends
    BY <1>a, <2>1, <2>3, LoaderEnds
  <2> QED  BY <1>9, <2>2, <2>3 DEF Resample
<1>2. CASE image_loader_get_image
  <2>1. /\ Running /\ Frame /\ UNCHANGED <<main, zoom_rat, img_resized_cache>>
        /\ loader.pc \in {"load", "load_again"}
    BY <1>2 DEF image_loader_get_image, At, Running, Frame, loaderOnly, window
  <2>2. CASE cur_img # NULL /\ Loaded(cur_img) /\ UNCHANGED <<cur_img, img_cache>>
    <3>1. cur_img = cur /\ cur \in Keys(img_cache')
      BY <2>2 DEF IInv, AtHandIsSelected, Keys
    <3> QED  BY <1>a, <2>1, <2>2, <3>1, LoadedKeeps
  <2>3. CASE /\ cur \in Keys(img_cache) /\ cur_img' = cur /\ Loaded(cur)
             /\ img_cache' = IF At("load_again") THEN Elevate(img_cache, cur) ELSE img_cache
    <3>1. img_cache'.imgs \in Seq(Images) /\ cur \in Keys(img_cache')
      BY <1>a, <2>3, ElevateFacts
    <3> QED  BY <2>1, <2>3, <3>1, LoadedKeeps
  <2>4. CASE /\ cur_img = NULL /\ GoOn(IF At("load") THEN "decode" ELSE "decode_again")
             /\ UNCHANGED <<cur_img, img_cache>>
    <3> DEFINE pc == IF At("load") THEN "decode" ELSE "decode_again"
    <3>1. /\ pc \in {"decode", "decode_again"} /\ pc \in Steps
          /\ pc = "decode" => loader.pc = "load"
          /\ pc = "decode_again" => loader.pc = "load_again"
      BY <2>1 DEF At, Steps, Running
    <3>2. loader' = [loader EXCEPT !.pc = pc]
      BY <2>4 DEF GoOn
    <3> HIDE DEF pc
    <3>3. /\ loader' \in Loaders /\ loader'.pc = pc /\ SameHeld
          /\ loader'.drawable = loader.drawable /\ loader'.rough = loader.rough
      BY <1>a, <3>1, <3>2 DEF Loaders, SameHeld
    <3>4. Typed'
      BY <1>a, <2>1, <2>4, <3>3 DEF IInv, Typed, Frame
    <3>5. HoldsSelected'
      BY <2>1, <2>4, <3>1, <3>3 DEF IInv, HoldsSelected, Frame, Running, Keys, SameHeld
    <3>6. AtHandIsSelected'
      BY <2>4 DEF AtHandIsSelected
    <3>7. PixmapIsThere'
      BY <2>1, <3>1, <3>3 DEF IInv, PixmapIsThere, Frame, Running
    <3>8. RoughIsBrief'
      BY <2>1, <3>3, NotRough DEF RoughIsBrief
    <3> QED  BY <3>4, <3>5, <3>6, <3>7, <3>8 DEF IInv
  <2> QED  BY <1>2, <2>2, <2>3, <2>4 DEF image_loader_get_image
<1>3. CASE Decoded
  <2>1. /\ Running /\ Frame /\ UNCHANGED <<main, zoom_rat, img_resized_cache, cur_img>>
        /\ loader.pc \in {"decode", "decode_again"} /\ Loaded(cur)
        /\ img_cache' = image_cache_put(img_cache, cur, META, OrigMax, OrigSize)
    BY <1>3 DEF Decoded, At, Running, Frame, loaderOnly, window
  <2>2. img_cache'.imgs \in Seq(Images) /\ cur \in Keys(img_cache')
    BY <1>a, <2>1, PutFacts
  <2>3. cur_img = NULL
    BY <2>1 DEF IInv, AtHandIsSelected
  <2> QED  BY <2>1, <2>2, <2>3, LoadedKeeps
<1>7. CASE FigureSize
  <2> DEFINE pc == IF zoom_rat = FULL THEN "update" ELSE "lookup"
  <2>1. /\ Running /\ Frame /\ SameImages /\ UNCHANGED <<main, zoom_rat>>
        /\ loader' = [loader EXCEPT !.ratio = zoom_rat, !.pc = pc] /\ loader.pc = "size"
        /\ pc \in Steps /\ pc \in {"update", "lookup"}
    BY <1>7 DEF FigureSize, At, Running, Frame, SameImages, loaderOnly, window, images, Steps
  <2> HIDE DEF pc
  <2>2. /\ loader' \in Loaders /\ loader'.pc = pc /\ SameHeld
        /\ loader'.drawable = loader.drawable /\ loader'.rough = loader.rough
    BY <1>a, <2>1 DEF Loaders, SameHeld
  <2>3. loader.img = NULL /\ loader.drawable /\ ~loader.rough
    BY <2>1, NotRough DEF IInv, HoldsSelected, PixmapIsThere
  <2> QED  BY <1>a, <2>1, <2>2, <2>3, MovesOn
<1>8. CASE LookUpResized
  <2>1. /\ Running /\ Frame /\ UNCHANGED <<main, zoom_rat, cur_img, img_cache>>
        /\ loader.pc = "lookup"
    BY <1>8 DEF LookUpResized, At, Running, Frame, loaderOnly, window
  <2>2. loader.img = NULL /\ loader.drawable /\ ~loader.rough
    BY <2>1, NotRough DEF IInv, HoldsSelected, PixmapIsThere
  <2>3. CASE ResizedKey \in Keys(img_resized_cache)
    <3>1. ResizedKey \in ResizedKeys
      BY <1>a, <1>b DEF ResizedKey, ResizedKeys
    <3>2. /\ img_resized_cache' = Elevate(img_resized_cache, ResizedKey)
          /\ loader' = [loader EXCEPT !.pc = "update", !.img = ResizedKey]
      BY <1>8, <2>3 DEF LookUpResized
    <3>3. /\ img_resized_cache'.imgs \in Seq(ResizedKeys)
          /\ ResizedKey \in Keys(img_resized_cache')
      BY <1>a, <3>1, <3>2, ElevateFacts
    <3> QED  BY <2>1, <2>2, <3>2, <3>3, ResizedKeeps
  <2>4. CASE ResizedKey \notin Keys(img_resized_cache)
    <3>1. /\ loader' = [loader EXCEPT !.pc = "load_again"] /\ UNCHANGED img_resized_cache
          /\ "load_again" \in Steps
      BY <1>8, <2>4 DEF LookUpResized, GoOn, Steps
    <3>2. /\ loader' \in Loaders /\ loader'.pc = "load_again" /\ SameHeld
          /\ loader'.drawable = loader.drawable /\ loader'.rough = loader.rough
      BY <1>a, <3>1 DEF Loaders, SameHeld
    <3> QED  BY <1>a, <2>1, <2>2, <3>1, <3>2, MovesOn DEF SameImages
  <2> QED  BY <2>3, <2>4
<1>10. CASE StoreResized
  <2>1. /\ Running /\ Frame /\ UNCHANGED <<main, zoom_rat, cur_img, img_cache>>
        /\ loader.pc = "store"
        /\ loader' = [loader EXCEPT !.pc = "update", !.src = NULL, !.img = ResizedKey, !.made = NULL]
        /\ img_resized_cache' =
             image_cache_put(img_resized_cache, ResizedKey, 1, ResizedMax, ResizedSizes)
    BY <1>10 DEF StoreResized, At, Running, Frame, loaderOnly, window
  <2>2. ResizedKey \in ResizedKeys
    BY <1>a, <1>b DEF ResizedKey, ResizedKeys
  <2>3. /\ img_resized_cache'.imgs \in Seq(ResizedKeys)
        /\ ResizedKey \in Keys(img_resized_cache')
    BY <1>a, <2>1, <2>2, PutFacts
  <2>4. ~loader.rough
    BY <2>1, NotRough
  <2> QED  BY <2>1, <2>3, <2>4, ResizedKeeps
<1>11. CASE UpdateDisplay
  <2>1. /\ Running /\ Frame /\ SameImages /\ UNCHANGED <<main, zoom_rat>>
        /\ loader.pc = "update"
    BY <1>11 DEF UpdateDisplay, At, Running, Frame, SameImages, loaderOnly, window, images
  <2>2. CASE Updated
    BY <2>1, <2>2, UpdateReturns
  <2>3. CASE loader' = [loader EXCEPT !.pc = "paint", !.to = pixmap]
    <3>1. /\ loader' \in Loaders /\ loader'.pc = "paint" /\ loader'.to = pixmap /\ SameHeld
          /\ loader'.drawable = loader.drawable /\ loader'.rough = loader.rough
      BY <1>a, <2>3 DEF Loaders, SameHeld, Steps
    <3>2. loader.drawable /\ (loader.img # NULL => ~loader.rough)
      BY <2>1 DEF IInv, PixmapIsThere, HoldsSelected
    <3> QED  BY <1>a, <2>1, <3>1, <3>2, MovesOn
  <2> QED  BY <1>11, <2>2, <2>3 DEF UpdateDisplay
<1>12. CASE Paint
  <2> DEFINE picture == [img |-> cur, ratio |-> loader.ratio, method |-> MethodOf(loader.img),
                         mixed |-> loader.img \in mislabelled, config |-> config,
                         rough |-> loader.rough]
  <2>1. /\ Running /\ Frame /\ SameImages /\ UNCHANGED <<main, zoom_rat>>
        /\ loader.pc = "paint"
    BY <1>12 DEF Paint, At, Running, Frame, SameImages, loaderOnly, window, images
  <2>4. picture \in Pictures
    <3>1. MethodOf(loader.img) \in Methods \cup {NULL}
      BY <1>a, LoaderFields DEF MethodOf, ResizedKeys
    <3>2. (loader.img \in mislabelled) \in BOOLEAN
      OBVIOUS
    <3> QED  BY <1>a, <1>b, <3>1, <3>2 DEF Pictures
  <2>2. CASE Updated
    BY <2>1, <2>2, UpdateReturns
  <2>3. CASE loader' = [loader EXCEPT !.pc = "flip", !.picture = picture]
    <3> HIDE DEF picture
    <3>1. /\ loader' \in Loaders /\ loader'.pc = "flip" /\ loader'.to = loader.to /\ SameHeld
          /\ loader'.drawable = loader.drawable /\ loader'.rough = loader.rough
      BY <1>a, <2>1, <2>3, <2>4 DEF Loaders, SameHeld, Steps
    <3>2. loader.drawable /\ (loader.img # NULL => ~loader.rough) /\ loader.to = pixmap
      BY <2>1 DEF IInv, PixmapIsThere, HoldsSelected
    <3> QED  BY <1>a, <2>1, <3>1, <3>2, MovesOn
  <2> QED  BY <1>12, <2>2, <2>3 DEF Paint
<1>13. CASE Flip
  <2>1. /\ Running /\ Frame /\ SameImages /\ UNCHANGED <<main, zoom_rat>>
        /\ loader.pc = "flip" /\ Updated
    BY <1>13 DEF Flip, At, Running, Frame, SameImages, loaderOnly, window, images
  <2> QED  BY <2>1, UpdateReturns
<1>15. CASE UsesExitedBackend
  <2>1. /\ UNCHANGED <<loader, zoom_rat>> /\ Frame /\ SameImages
        /\ main' = [main EXCEPT !.op = "crashed"]
    BY <1>15 DEF UsesExitedBackend, Frame, SameImages, window, images, params
  <2>2. main' \in [op : Doings, to : Images]
    BY <1>a, <2>1 DEF Doings
  <2> QED  BY <2>1, <2>2 DEF IInv, Typed, RoughIsBrief, HoldsSelected, AtHandIsSelected,
                             PixmapIsThere, Running, Keys, Frame, SameImages
<1> QED  BY <1>1, <1>2, <1>3, <1>4, <1>5, <1>6, <1>7, <1>8, <1>9, <1>10, <1>11, <1>12, <1>13,
            <1>14, <1>15
         DEF image_loader
-----------------------------------------------------------------------------
(* The main thread keeps the invariant.                                    *)

(* What a step of the main thread that waits for the loader leaves alone.  *)
LEMMA AsksKeepsInv ==
  ASSUME IInv, UNCHANGED <<thread, loader, cur, cur_img, img_cache, img_resized_cache>>,
         main' \in [op : Doings, to : Images],
         config' \in BOOLEAN, method' \in Methods, zoom_rat' \in Ratios,
         \/ UNCHANGED <<sys, pixmap>>
         \/ sys \notin {"hidden", "gone"} /\ sys' \in Sys \ {"hidden"} /\ UNCHANGED pixmap
         \/ sys' = "gone" /\ UNCHANGED pixmap
         \/ sys = "hidden" /\ sys' = "start" /\ pixmap' = 1
  PROVE  IInv'
<1> USE SpivAssumption DEF IInv
<1>1. Typed'
  BY DEF Typed, Sys
<1>2. HoldsSelected'
  BY DEF HoldsSelected, Running, Keys
<1>3. AtHandIsSelected'
  BY DEF AtHandIsSelected, Running, Keys
<1>4. PixmapIsThere'
  BY DEF PixmapIsThere, Running
<1>5. RoughIsBrief'
  BY DEF RoughIsBrief, Running
<1> QED  BY <1>1, <1>2, <1>3, <1>4, <1>5

(* What is asked for is in the list.                                       *)
LEMMA StopTyped ==
  ASSUME NEW op \in Ops, NEW to \in Images, stop_loader(op, to)
  PROVE  main' \in [op : Doings, to : Images]
BY DEF stop_loader, Doings

(* With no loader at work whatever becomes of the caches, the selection    *)
(* and the window keeps the invariant, if nothing is left at hand that is  *)
(* not cached.                                                             *)
LEMMA JoinedKeepsInv ==
  ASSUME IInv, Joined
  PROVE  IInv'
<1> USE SpivAssumption DEF IInv
<1>1. /\ main.op \in Ops /\ main.to \in Images /\ ~Running
      /\ main' = [main EXCEPT !.op = IF main.op = "quit" THEN "exited" ELSE "wait"]
      /\ UNCHANGED <<config, method, zoom_rat>>
  BY DEF Joined, Typed
<1>2. \/ thread' = TRUE /\ loader' = NewLoader
      \/ thread' = FALSE /\ loader' = loader
  BY DEF Joined, show_image
<1>3. \/ cur_img' = NULL /\ cur' \in Images
      \/ UNCHANGED <<cur, cur_img, img_cache>>
  BY <1>1 DEF Joined, image_loader_seek, Typed
<1>4. /\ img_cache'.imgs \in Seq(Images)
      /\ img_resized_cache'.imgs \in Seq(ResizedKeys)
  <2>1. CASE main.op = "quit"
    <3>1. img_cache'.imgs = <<>> /\ img_resized_cache'.imgs = <<>>
      BY <2>1 DEF Joined, EmptyCache
    <3> QED  BY <3>1, EmptySeq
  <2>2. CASE main.op # "quit"
    BY <2>2 DEF Joined, Typed
  <2> QED  BY <2>1, <2>2
<1>5. /\ sys' \in Sys /\ pixmap' \in {NULL, 1, 2}
      /\ sys' # "gone" => (pixmap' = NULL <=> sys' = "hidden")
  <2>1. CASE main.op = "stopped"
    BY <2>1 DEF Joined, render_stopped, Typed, Sys, PixmapIsThere
  <2>2. CASE main.op # "stopped"
    BY <2>2 DEF Joined, window, Typed, PixmapIsThere
  <2> QED  BY <2>1, <2>2
<1>6. NewLoader \in Loaders
  BY DEF NewLoader, Loaders, Steps
<1>7. Typed'
  <2>1. main' \in [op : Doings, to : Images]
    BY <1>1 DEF Typed, Doings
  <2>2. thread' \in BOOLEAN /\ loader' \in Loaders
    BY <1>2, <1>6 DEF Typed
  <2> QED  BY <1>1, <1>3, <1>4, <1>5, <2>1, <2>2 DEF Typed
<1>8. HoldsSelected'
  BY <1>1, <1>2 DEF HoldsSelected, Running, NewLoader
<1>9. AtHandIsSelected'
  BY <1>1, <1>2, <1>3 DEF AtHandIsSelected, Running, NewLoader, Keys
<1>10. PixmapIsThere'
  BY <1>1, <1>2, <1>5 DEF PixmapIsThere, Running, NewLoader
<1>11. RoughIsBrief'
  BY <1>1, <1>2 DEF RoughIsBrief, Running, NewLoader
<1> QED  BY <1>7, <1>8, <1>9, <1>10, <1>11

LEMMA MainKeepsInv ==
  ASSUME IInv, main_thread
  PROVE  IInv'
<1> USE SpivAssumption
<1>a. /\ main \in [op : Doings, to : Images]
      /\ cur \in Images /\ config \in BOOLEAN /\ method \in Methods /\ zoom_rat \in Ratios
      /\ {"show", "seek", "tick", "stopped", "quit"} \subseteq Ops
  BY DEF IInv, Typed, Ops
<1> USE DEF window, params, mainOnly, slideshow
<1>1. CASE KeySetting
  BY <1>1, <1>a, StopTyped, AsksKeepsInv DEF KeySetting
<1>2. CASE KeyMethod
  BY <1>2, <1>a, StopTyped, AsksKeepsInv DEF KeyMethod
<1>3. CASE KeyZoom
  BY <1>3, <1>a, StopTyped, AsksKeepsInv DEF KeyZoom
<1>4. CASE KeySeek
  <2>1. PICK to \in Images : stop_loader("seek", to)
    BY <1>4 DEF KeySeek
  <2> QED  BY <1>4, <2>1, <1>a, StopTyped, AsksKeepsInv DEF KeySeek
<1>5. CASE KeyProgress
  BY <1>5, <1>a, AsksKeepsInv DEF KeyProgress
<1>6. CASE KeySlideshow
  BY <1>6, <1>a, AsksKeepsInv DEF KeySlideshow
<1>7. CASE image_loader_drop_cache
  <2>1. /\ ~Running /\ cur_img' = NULL
        /\ img_cache'.imgs = <<>> /\ img_resized_cache'.imgs = <<>>
        /\ UNCHANGED <<main, thread, loader, cur, sys, pixmap, config, method, zoom_rat>>
    BY <1>7 DEF image_loader_drop_cache, EmptyCache
  <2>2. Typed'
    BY <2>1, EmptySeq DEF IInv, Typed
  <2>3. HoldsSelected' /\ AtHandIsSelected' /\ PixmapIsThere' /\ RoughIsBrief'
    BY <2>1 DEF IInv, HoldsSelected, AtHandIsSelected, PixmapIsThere, RoughIsBrief, Running
  <2> QED  BY <2>2, <2>3 DEF IInv
<1>8. CASE KeyQuit
  BY <1>8, <1>a, StopTyped, AsksKeepsInv DEF KeyQuit
<1>9. CASE timer_callback
  <2>1. (cur + 1) % N \in Images
    BY <1>a DEF Images
  <2>2. main' \in [op : Doings, to : Images]
    BY <1>9, <1>a, <2>1, StopTyped DEF timer_callback
  <2> QED  BY <1>9, <1>a, <2>2, AsksKeepsInv DEF timer_callback
<1>10. CASE WindowChanges
  BY <1>10, <1>a, AsksKeepsInv DEF WindowChanges, Sys
<1>11. CASE RenderStop
  BY <1>11, <1>a, StopTyped, AsksKeepsInv DEF RenderStop
<1>12. CASE RenderStart
  BY <1>12, <1>a, StopTyped, AsksKeepsInv DEF RenderStart, Sys
<1>13. CASE Joined
  BY <1>13, JoinedKeepsInv
<1>14. CASE SysQuit
  <2>1. main' \in [op : Doings, to : Images]
    BY <1>14, <1>a DEF SysQuit, Doings
  <2> QED  BY <1>14, <1>a, <2>1, AsksKeepsInv DEF SysQuit
<1>15. CASE ProcessEnds
  <2>1. main' \in [op : Doings, to : Images]
    BY <1>15, <1>a DEF ProcessEnds, Doings
  <2> QED  BY <1>15, <1>a, <2>1, AsksKeepsInv DEF ProcessEnds
<1> QED  BY <1>1, <1>2, <1>3, <1>4, <1>5, <1>6, <1>7, <1>8, <1>9, <1>10, <1>11, <1>12, <1>13,
            <1>14, <1>15
         DEF main_thread

-----------------------------------------------------------------------------
(* The invariant holds in every state of every behaviour.                  *)
LEMMA InductiveInvariant == Spec => []IInv
<1>1. IInv /\ [Next]_vars => IInv'
  <2> SUFFICES ASSUME IInv, [Next]_vars PROVE IInv'
    OBVIOUS
  <2>1. CASE main_thread
    BY <2>1, MainKeepsInv
  <2>2. CASE image_loader
    BY <2>2, LoaderKeepsInv
  <2>3. CASE UNCHANGED vars
    <3>1. UNCHANGED <<main, thread, sys, pixmap, config, method, zoom_rat, cur, cur_img,
                      img_cache, img_resized_cache, loader>>
      BY <2>3 DEF vars, window, params, images
    <3> QED  BY <3>1 DEF IInv, Typed, RoughIsBrief, HoldsSelected, AtHandIsSelected,
                         PixmapIsThere, Running, Keys
  <2> QED  BY <2>1, <2>2, <2>3 DEF Next
<1> QED  BY <1>1, InitInv, PTL DEF Spec

(* No thread uses an image that the caches freed, and the image at hand is *)
(* freed once (image_loader.c, image_cache.c, stop_loader() in spiv.c).    *)
THEOREM ImagesOutliveTheirUse == Spec => []NoUseAfterFree
<1>1. IInv => NoUseAfterFree
  BY DEF IInv, HoldsSelected, AtHandIsSelected, NoUseAfterFree
<1> QED  BY <1>1, InductiveInvariant, PTL

(* A crash is one of the two that RendersIntoLivePixmap names. The loader  *)
(* and nobody else comes to one, and it ends the program.                  *)
CrashIsKnown ==
  main.op = "crashed" =>
    \/ sys = "hidden" /\ ~loader.drawable /\ cur \in Corrupt
    \/ sys = "gone"

LEMMA LoaderKeepsCrash ==
  ASSUME IInv, ~Ended, image_loader
  PROVE  CrashIsKnown'
<1>1. CASE UNCHANGED main
  BY <1>1 DEF Ended, CrashIsKnown
<1>2. CASE DecodeFails
  <2>1. CASE pixmap = NULL
    <3>1. /\ (At("decode") \/ At("decode_again")) /\ cur \in Corrupt
          /\ loader' = [loader EXCEPT !.pc = "done"] /\ UNCHANGED <<sys, cur>>
      BY <1>2, <2>1 DEF DecodeFails, Aborted, Ends, GoOn, window, images
    <3>2. thread /\ loader \in Loaders /\ Running
      BY <3>1 DEF IInv, Typed, At, Running
    <3>3. ~loader.drawable /\ (sys = "gone" \/ sys = "hidden")
      BY <2>1, <3>2 DEF IInv, PixmapIsThere
    <3>4. loader'.drawable = loader.drawable
      BY <3>1, <3>2 DEF Loaders
    <3> QED  BY <3>1, <3>3, <3>4 DEF CrashIsKnown
  <2>2. CASE pixmap # NULL
    BY <1>1, <1>2, <2>2 DEF DecodeFails
  <2> QED  BY <2>1, <2>2
<1>3. CASE UsesExitedBackend
  BY <1>3 DEF UsesExitedBackend, window, CrashIsKnown
<1> QED  BY <1>1, <1>2, <1>3
         DEF image_loader, LoaderStarts, image_loader_get_image, Decoded, FigureZoom, WriteZoom,
             FigureSize, LookUpResized, Blur, Resample, StoreResized, UpdateDisplay, Paint, Flip,
             loaderOnly

LEMMA MainKeepsCrash ==
  ASSUME IInv, ~Ended, main_thread
  PROVE  CrashIsKnown'
<1>1. main \in [op : Doings, to : Images] /\ main.op # "crashed"
  BY DEF IInv, Typed, Ended
<1>2. CASE UNCHANGED main
  BY <1>1, <1>2 DEF CrashIsKnown
<1>3. CASE \E op \in Ops : \E to : stop_loader(op, to)
  BY <1>3 DEF stop_loader, Ops, CrashIsKnown
<1>4. CASE SysQuit \/ ProcessEnds \/ Joined
  <2>1. \E op \in {"closed", "exited", "wait"} : main' = [main EXCEPT !.op = op]
    BY <1>4 DEF SysQuit, ProcessEnds, Joined
  <2> QED  BY <1>1, <2>1 DEF CrashIsKnown
<1>5. {"show", "seek", "tick", "stopped", "quit"} \subseteq Ops
  BY DEF Ops
<1> QED  BY <1>2, <1>3, <1>4, <1>5
         DEF main_thread, KeySetting, KeyMethod, KeyZoom, KeySeek, KeyProgress, KeySlideshow,
             image_loader_drop_cache, KeyQuit, timer_callback, WindowChanges, RenderStop, RenderStart

LEMMA CrashStaysKnown == Spec => []CrashIsKnown
<1>1. Init => CrashIsKnown
  BY DEF Init, CrashIsKnown
<1>2. IInv /\ CrashIsKnown /\ [Next]_vars => CrashIsKnown'
  <2>1. CASE UNCHANGED vars
    BY <2>1 DEF vars, window, images, CrashIsKnown
  <2> QED  BY <2>1, LoaderKeepsCrash, MainKeepsCrash DEF Next
<1> QED  BY <1>1, <1>2, InductiveInvariant, PTL DEF Spec

(* However many times the window is hidden, shown and resized, and the     *)
(* files and the settings changed, the loader paints only to the pixmap    *)
(* the backend has, and all that can crash the program is the message of a *)
(* loader that was started with the window hidden and cannot load its      *)
(* image, and a loader at work when the window is closed (load_image() and *)
(* main() in spiv.c).                                                      *)
THEOREM DrawsToLivePixmap == Spec => []RendersIntoLivePixmap
<1>1. IInv /\ CrashIsKnown => RendersIntoLivePixmap
  BY DEF IInv, PixmapIsThere, CrashIsKnown, RendersIntoLivePixmap
<1> QED  BY <1>1, InductiveInvariant, CrashStaysKnown, PTL
-----------------------------------------------------------------------------
(* Both caches are accounted for, from the sizes they are given.           *)
CachesAccounted ==
  /\ Accounted(img_cache, OrigSize, OrigMax)
  /\ Accounted(img_resized_cache, ResizedSizes, ResizedMax)

LEMMA SizesTyped == OrigSize \in [Images -> Nat] /\ ResizedSizes \in [ResizedKeys -> Nat]
<1>1. ASSUME NEW key \in ResizedKeys PROVE ResizedSize[key.img, key.ratio] \in Nat
  <2>1. <<key.img, key.ratio>> \in Images \X Ratios
    BY DEF ResizedKeys
  <2>2. ResizedSize[<<key.img, key.ratio>>] \in Nat
    BY <2>1, SpivAssumption
  <2> QED  BY <2>2
<1> QED  BY <1>1, SpivAssumption DEF ResizedSizes

LEMMA CachesEmptied ==
  ASSUME img_cache' = EmptyCache, img_resized_cache' = EmptyCache
  PROVE  CachesAccounted'
<1>1. Accounted(EmptyCache, OrigSize, OrigMax) /\ Accounted(EmptyCache, ResizedSizes, ResizedMax)
  BY SizesTyped, EmptyAccounted
<1> QED  BY <1>1 DEF CachesAccounted

LEMMA StepKeepsAccounts ==
  ASSUME IInv, CachesAccounted, [Next]_vars
  PROVE  CachesAccounted'
<1> USE SpivAssumption
<1>a. /\ cur \in Images /\ method \in Methods /\ loader.ratio \in Ratios
      /\ img_cache.imgs \in Seq(Images) /\ img_resized_cache.imgs \in Seq(ResizedKeys)
  BY LoaderFields DEF IInv, Typed
<1>b. ResizedKey \in ResizedKeys
  BY <1>a DEF ResizedKey, ResizedKeys
<1>1. CASE UNCHANGED <<img_cache, img_resized_cache>>
  BY <1>1 DEF CachesAccounted
<1>2. CASE image_loader_get_image
  <2>1. UNCHANGED img_resized_cache
    BY <1>2 DEF image_loader_get_image
  <2>2. CASE cur \in Keys(img_cache) /\ img_cache' = Elevate(img_cache, cur)
    <3>1. Accounted(Elevate(img_cache, cur), OrigSize, OrigMax)
      BY <1>a, <2>2, SizesTyped, ElevateAccounted DEF CachesAccounted
    <3> QED  BY <2>1, <2>2, <3>1 DEF CachesAccounted
  <2> QED  BY <1>1, <1>2, <2>1, <2>2 DEF image_loader_get_image
<1>3. CASE Decoded
  <2>1. Accounted(image_cache_put(img_cache, cur, META, OrigMax, OrigSize), OrigSize, OrigMax)
    BY <1>a, SizesTyped, PutAccounted DEF CachesAccounted
  <2> QED  BY <1>3, <2>1 DEF Decoded, CachesAccounted
<1>4. CASE LookUpResized
  <2>1. UNCHANGED img_cache
    BY <1>4 DEF LookUpResized
  <2>2. CASE /\ ResizedKey \in Keys(img_resized_cache)
             /\ img_resized_cache' = Elevate(img_resized_cache, ResizedKey)
    <3>1. Accounted(Elevate(img_resized_cache, ResizedKey), ResizedSizes, ResizedMax)
      BY <1>a, <2>2, SizesTyped, ElevateAccounted DEF CachesAccounted
    <3> QED  BY <2>1, <2>2, <3>1 DEF CachesAccounted
  <2> QED  BY <1>1, <1>4, <2>1, <2>2 DEF LookUpResized
<1>5. CASE StoreResized
  <2>1. Accounted(image_cache_put(img_resized_cache, ResizedKey, 1, ResizedMax, ResizedSizes),
                  ResizedSizes, ResizedMax)
    BY <1>a, <1>b, SizesTyped, PutAccounted DEF CachesAccounted
  <2> QED  BY <1>5, <2>1 DEF StoreResized, CachesAccounted
<1>6. CASE image_loader_drop_cache
  BY <1>6, CachesEmptied DEF image_loader_drop_cache
<1>7. CASE Joined
  <2>1. CASE main.op = "quit"
    BY <1>7, <2>1, CachesEmptied DEF Joined
  <2>2. CASE main.op # "quit"
    BY <1>7, <1>1, <2>2 DEF Joined
  <2> QED  BY <2>1, <2>2
<1>8. CASE UNCHANGED vars
  BY <1>1, <1>8 DEF vars, images
<1>9. CASE \/ LoaderStarts \/ DecodeFails \/ FigureZoom \/ WriteZoom \/ FigureSize
           \/ Blur \/ Resample \/ UpdateDisplay \/ Paint \/ Flip \/ UsesExitedBackend
  BY <1>1, <1>9 DEF LoaderStarts, DecodeFails, FigureZoom, WriteZoom, FigureSize, Blur, Resample,
                    UpdateDisplay, Paint, Flip, UsesExitedBackend, images
<1>10. CASE main_thread /\ ~image_loader_drop_cache /\ ~Joined
  BY <1>1, <1>10 DEF main_thread, KeySetting, KeyMethod, KeyZoom, KeySeek, KeyProgress,
                     KeySlideshow, KeyQuit, SysQuit, ProcessEnds, timer_callback, WindowChanges,
                     RenderStop, RenderStart, mainOnly
<1> QED  BY <1>2, <1>3, <1>4, <1>5, <1>6, <1>7, <1>8, <1>9, <1>10 DEF Next, image_loader

LEMMA CachesStayAccounted == Spec => []CachesAccounted
<1>1. Init => CachesAccounted
  <2>1. Accounted(EmptyCache, OrigSize, OrigMax) /\ Accounted(EmptyCache, ResizedSizes, ResizedMax)
    BY SizesTyped, EmptyAccounted
  <2> QED  BY <2>1 DEF Init, CachesAccounted
<1>2. IInv /\ CachesAccounted /\ [Next]_vars => CachesAccounted'
  BY StepKeepsAccounts
<1> QED  BY <1>1, <1>2, InductiveInvariant, PTL DEF Spec

(* Whatever is loaded, resized, looked up and stored, and however large the *)
(* images are, a cache goes over its limit only for the sake of the newest *)
(* image, although meta data is counted in and not out (image_cache.c).    *)
THEOREM CachesKeepTheirLimits == Spec => []CachesAreBounded
<1>1. IInv /\ CachesAccounted => CachesAreBounded
  <2> SUFFICES ASSUME IInv, CachesAccounted PROVE CachesAreBounded
    OBVIOUS
  <2>1. img_cache.imgs \in Seq(Images) /\ img_resized_cache.imgs \in Seq(ResizedKeys)
    BY DEF IInv, Typed
  <2>2. Total(img_cache, OrigSize) \in Nat /\ Total(img_resized_cache, ResizedSizes) \in Nat
    BY <2>1, SizesTyped, TotalIsSum
  <2> QED  BY <2>2, SpivAssumption DEF CachesAccounted, Accounted, CachesAreBounded
<1> QED  BY <1>1, CachesStayAccounted, InductiveInvariant, PTL

-----------------------------------------------------------------------------
(* The types of what the other proofs do not need.                         *)
IsCache(cache) == cache = [imgs |-> cache.imgs, cur_size |-> cache.cur_size]

FlagsTyped ==
  /\ timer \in BOOLEAN /\ config_progress \in BOOLEAN /\ zoom_manual \in BOOLEAN
  /\ show_progress_once \in BOOLEAN /\ abort_flag \in BOOLEAN
  /\ loader_running \in BOOLEAN /\ show_progress \in BOOLEAN

RestTyped ==
  /\ FlagsTyped
  /\ retries \in 0 .. MaxRetries /\ inputs \in 0 .. MaxInputs
  /\ IsCache(img_cache) /\ IsCache(img_resized_cache)
  /\ screen \in Pictures \cup {NULL}
  /\ asked \in Ratios \cup {NULL} /\ zoom_lost \in BOOLEAN /\ mislabelled \subseteq ResizedKeys

LEMMA CachesAreRecords ==
  /\ IsCache(EmptyCache)
  /\ \A cache, key : IsCache(cache) => IsCache(Elevate(cache, key))
  /\ \A cache, key, meta, max, sizes : IsCache(image_cache_put(cache, key, meta, max, sizes))
<1>1. IsCache(EmptyCache)
  BY DEF IsCache, EmptyCache
<1>2. ASSUME NEW cache, NEW key, IsCache(cache)
      PROVE  IsCache(Elevate(cache, key))
  <2> DEFINE s == <<key>> \o RemoveFirst(cache.imgs, key)
             c == [imgs |-> cache.imgs, cur_size |-> cache.cur_size]
  <2>1. cache = c
    BY <1>2 DEF IsCache
  <2> HIDE DEF s
  <2>2. [c EXCEPT !.imgs = s] = [imgs |-> s, cur_size |-> cache.cur_size]
    OBVIOUS
  <2>3. Elevate(cache, key) = [cache EXCEPT !.imgs = s]
    BY DEF Elevate, s
  <2>4. Elevate(cache, key) = [imgs |-> s, cur_size |-> cache.cur_size]
    BY <2>1, <2>2, <2>3, Zenon
  <2> HIDE DEF c
  <2> QED  BY <2>4 DEF IsCache
<1>3. ASSUME NEW cache, NEW key, NEW meta, NEW max, NEW sizes
      PROVE  IsCache(image_cache_put(cache, key, meta, max, sizes))
  <2> DEFINE room == assert_size(cache, sizes[key] + meta, max, sizes)
  <2>1. image_cache_put(cache, key, meta, max, sizes)
          = [imgs |-> <<key>> \o room.imgs, cur_size |-> room.cur_size + sizes[key] + meta]
    BY DEF image_cache_put
  <2> HIDE DEF room
  <2> QED  BY <2>1 DEF IsCache
<1> QED  BY <1>1, <1>2, <1>3

LEMMA RestAtFirst == Init => RestTyped
<1> SUFFICES ASSUME Init PROVE RestTyped
  OBVIOUS
<1>1. FlagsTyped
  BY DEF Init, FlagsTyped
<1>2. retries \in 0 .. MaxRetries /\ inputs \in 0 .. MaxInputs
  BY SpivAssumption DEF Init
<1> QED  BY <1>1, <1>2, CachesAreRecords DEF Init, RestTyped

(* What a loader paints is a picture.                                      *)
LEMMA PicturesTyped ==
  ASSUME IInv
  PROVE  loader.picture \in Pictures \cup {NULL} /\ Failed(cur) \in Pictures
<1>1. loader \in Loaders /\ cur \in Images
  BY DEF IInv, Typed
<1>2. loader.picture \in Pictures \cup {NULL}
  BY <1>1 DEF Loaders
<1>3. Failed(cur) \in Pictures
  BY <1>1 DEF Failed, Pictures
<1> QED  BY <1>2, <1>3

LEMMA LoaderKeepsRest == ASSUME IInv, RestTyped, image_loader PROVE RestTyped'
<1>1. UNCHANGED <<timer, retries, inputs, config_progress, zoom_manual, abort_flag, asked, zoom_lost>>
  BY DEF image_loader, LoaderStarts, image_loader_get_image, Decoded, DecodeFails, FigureZoom, WriteZoom,
         FigureSize, LookUpResized, Blur, Resample, StoreResized, UpdateDisplay, Paint, Flip, UsesExitedBackend, loaderOnly,
         slideshow, params, asks
<1>2. show_progress_once' \in BOOLEAN /\ show_progress' \in BOOLEAN
  <2>1. CASE LoaderStarts
    BY <2>1 DEF LoaderStarts, RestTyped, FlagsTyped
  <2>2. CASE UNCHANGED <<show_progress_once, show_progress>>
    BY <2>2 DEF RestTyped, FlagsTyped
  <2> QED  BY <2>1, <2>2
           DEF image_loader, image_loader_get_image, Decoded, DecodeFails, FigureZoom, WriteZoom,
               FigureSize, LookUpResized, Blur, Resample, StoreResized, UpdateDisplay, Paint, Flip, UsesExitedBackend
<1>3. loader_running' \in BOOLEAN
  <2>1. loader_running' = FALSE \/ UNCHANGED loader_running
    BY DEF image_loader, LoaderStarts, image_loader_get_image, Decoded, DecodeFails, FigureZoom, WriteZoom,
           FigureSize, LookUpResized, Blur, Resample, StoreResized, UpdateDisplay, Paint, Flip, UsesExitedBackend, Updated, Ends
  <2> QED  BY <2>1 DEF RestTyped, FlagsTyped
<1>4. FlagsTyped'
  BY <1>1, <1>2, <1>3, Zenon DEF RestTyped, FlagsTyped
<1>5. screen' \in Pictures \cup {NULL}
  <2>1. screen \in Pictures \cup {NULL}
    BY DEF RestTyped
  <2>2. screen' \in {screen, loader.picture, Failed(cur)}
    BY DEF image_loader, LoaderStarts, image_loader_get_image, Decoded, DecodeFails, FigureZoom, WriteZoom,
           FigureSize, LookUpResized, Blur, Resample, StoreResized, UpdateDisplay, Paint, Flip, UsesExitedBackend
  <2> QED  BY <2>1, <2>2, PicturesTyped
<1>6. IsCache(img_cache)' /\ IsCache(img_resized_cache)'
  <2>1. IsCache(img_cache) /\ IsCache(img_resized_cache)
    BY DEF RestTyped
  <2>2. \/ UNCHANGED img_cache \/ img_cache' = Elevate(img_cache, cur)
        \/ img_cache' = image_cache_put(img_cache, cur, META, OrigMax, OrigSize)
    BY DEF image_loader, LoaderStarts, image_loader_get_image, Decoded, DecodeFails, FigureZoom, WriteZoom,
           FigureSize, LookUpResized, Blur, Resample, StoreResized, UpdateDisplay, Paint, Flip, UsesExitedBackend, images
  <2>3. \/ UNCHANGED img_resized_cache \/ img_resized_cache' = Elevate(img_resized_cache, ResizedKey)
        \/ img_resized_cache' = image_cache_put(img_resized_cache, ResizedKey, 1, ResizedMax, ResizedSizes)
    BY DEF image_loader, LoaderStarts, image_loader_get_image, Decoded, DecodeFails, FigureZoom, WriteZoom,
           FigureSize, LookUpResized, Blur, Resample, StoreResized, UpdateDisplay, Paint, Flip, UsesExitedBackend, images
  <2>4. IsCache(img_cache')
    BY <2>1, <2>2, CachesAreRecords, Zenon
  <2>5. IsCache(img_resized_cache')
    BY <2>1, <2>3, CachesAreRecords, Zenon
  <2> QED  BY <2>4, <2>5 DEF IsCache
<1>7. mislabelled' \subseteq ResizedKeys
  <2>1. ResizedKey \in ResizedKeys
    BY LoaderFields DEF IInv, Typed, ResizedKey, ResizedKeys
  <2>2. mislabelled' \subseteq mislabelled \cup {ResizedKey}
    BY DEF image_loader, LoaderStarts, image_loader_get_image, Decoded, DecodeFails, FigureZoom, WriteZoom,
           FigureSize, LookUpResized, Blur, Resample, StoreResized, UpdateDisplay, Paint, Flip,
           UsesExitedBackend, images
  <2> QED  BY <2>1, <2>2 DEF RestTyped
<1> QED  BY <1>1, <1>4, <1>5, <1>6, <1>7 DEF RestTyped

LEMMA MainKeepsRest == ASSUME IInv, RestTyped, main_thread PROVE RestTyped'
<1> USE DEF RestTyped, FlagsTyped
<1>0. /\ thread \in BOOLEAN /\ MaxInputs \in Nat /\ MaxRetries \in Nat
      /\ timer \in BOOLEAN /\ config_progress \in BOOLEAN /\ zoom_manual \in BOOLEAN
      /\ show_progress_once \in BOOLEAN /\ abort_flag \in BOOLEAN
      /\ loader_running \in BOOLEAN /\ show_progress \in BOOLEAN
  BY SpivAssumption DEF IInv, Typed
<1>1. inputs' \in 0 .. MaxInputs
  <2>1. inputs' = inputs \/ (inputs < MaxInputs /\ inputs' = inputs + 1)
    BY DEF main_thread, KeySetting, KeyMethod, KeyZoom, KeySeek, KeyProgress, KeySlideshow,
           image_loader_drop_cache, KeyQuit, SysQuit, ProcessEnds, timer_callback, WindowChanges, RenderStop, RenderStart, Joined, Input
  <2> QED  BY <1>0, <2>1
<1>2. retries' \in 0 .. MaxRetries
  <2>1. retries' \in {retries, 0} \/ (retries < MaxRetries /\ retries' = retries + 1)
    BY DEF main_thread, KeySetting, KeyMethod, KeyZoom, KeySeek, KeyProgress, KeySlideshow, slideshow,
           image_loader_drop_cache, KeyQuit, SysQuit, ProcessEnds, timer_callback, WindowChanges, RenderStop, RenderStart, Joined
  <2> QED  BY <1>0, <2>1
<1>3. timer' \in BOOLEAN /\ config_progress' \in BOOLEAN
  <2>1. timer' = timer \/ timer' = ~ timer
    BY DEF main_thread, KeySetting, KeyMethod, KeyZoom, KeySeek, KeyProgress, KeySlideshow, slideshow,
           image_loader_drop_cache, KeyQuit, SysQuit, ProcessEnds, timer_callback, WindowChanges, RenderStop, RenderStart, Joined
  <2>2. config_progress' = config_progress \/ config_progress' = ~ config_progress
    BY DEF main_thread, KeySetting, KeyMethod, KeyZoom, KeySeek, KeyProgress, KeySlideshow, params,
           image_loader_drop_cache, KeyQuit, SysQuit, ProcessEnds, timer_callback, WindowChanges, RenderStop, RenderStart, Joined
  <2> QED  BY <1>0, <2>1, <2>2
<1>4. zoom_manual' \in BOOLEAN
  <2>1. zoom_manual' = zoom_manual \/ zoom_manual' = TRUE \/ zoom_manual' = FALSE
    BY DEF main_thread, KeySetting, KeyMethod, KeyZoom, KeySeek, KeyProgress, KeySlideshow, params,
           image_loader_drop_cache, KeyQuit, SysQuit, ProcessEnds, timer_callback, WindowChanges, RenderStop, RenderStart, Joined
  <2> QED  BY <1>0, <2>1
<1>5. show_progress_once' \in BOOLEAN
  <2>1. show_progress_once' = show_progress_once \/ show_progress_once' = TRUE
    BY DEF main_thread, KeySetting, KeyMethod, KeyZoom, KeySeek, KeyProgress, KeySlideshow, ShowProgressOnce,
           image_loader_drop_cache, KeyQuit, SysQuit, ProcessEnds, timer_callback, WindowChanges, RenderStop, RenderStart, Joined
  <2> QED  BY <1>0, <2>1
<1>6. abort_flag' \in BOOLEAN
  <2>1. abort_flag' = abort_flag \/ abort_flag' = thread \/ abort_flag' = FALSE
    BY DEF main_thread, KeySetting, KeyMethod, KeyZoom, KeySeek, KeyProgress, KeySlideshow, stop_loader, flag_down,
           image_loader_drop_cache, KeyQuit, SysQuit, ProcessEnds, timer_callback, WindowChanges, RenderStop, RenderStart, Joined
  <2> QED  BY <1>0, <2>1
<1>7. loader_running' \in BOOLEAN /\ show_progress' = show_progress
  <2>1. loader_running' = loader_running \/ loader_running' = TRUE
    BY DEF main_thread, KeySetting, KeyMethod, KeyZoom, KeySeek, KeyProgress, KeySlideshow, show_image,
           image_loader_drop_cache, KeyQuit, SysQuit, ProcessEnds, timer_callback, WindowChanges, RenderStop, RenderStart, Joined
  <2>2. show_progress' = show_progress
    BY DEF main_thread, KeySetting, KeyMethod, KeyZoom, KeySeek, KeyProgress, KeySlideshow, mainOnly,
           image_loader_drop_cache, KeyQuit, SysQuit, ProcessEnds, timer_callback, WindowChanges, RenderStop, RenderStart, Joined
  <2> QED  BY <1>0, <2>1, <2>2
<1>8. screen' \in Pictures \cup {NULL}
  <2>1. screen' = screen \/ screen' = NULL
    BY DEF main_thread, KeySetting, KeyMethod, KeyZoom, KeySeek, KeyProgress, KeySlideshow, mainOnly, render_stopped,
           image_loader_drop_cache, KeyQuit, SysQuit, ProcessEnds, timer_callback, WindowChanges, RenderStop, RenderStart, Joined
  <2> QED  BY <2>1
<1>9. IsCache(img_cache)' /\ IsCache(img_resized_cache)'
  <2>1. /\ UNCHANGED img_cache \/ img_cache' = EmptyCache
        /\ UNCHANGED img_resized_cache \/ img_resized_cache' = EmptyCache
    BY DEF main_thread, KeySetting, KeyMethod, KeyZoom, KeySeek, KeyProgress, KeySlideshow, mainOnly,
           image_loader_drop_cache, KeyQuit, SysQuit, ProcessEnds, timer_callback, WindowChanges, RenderStop, RenderStart, Joined
  <2> QED  BY <2>1, CachesAreRecords DEF IsCache
<1>10. asked' \in Ratios \cup {NULL} /\ zoom_lost' \in BOOLEAN
  <2>1. asked' \in {asked, NULL} \/ asked' \in Ratios
    BY DEF main_thread, KeySetting, KeyMethod, KeyZoom, KeySeek, KeyProgress, KeySlideshow, params, asks,
           image_loader_drop_cache, KeyQuit, SysQuit, ProcessEnds, timer_callback, WindowChanges, RenderStop,
           RenderStart, Joined
  <2>2. zoom_lost' = zoom_lost \/ zoom_lost' = FALSE \/ zoom_lost' = At("write_zoom")
    BY DEF main_thread, KeySetting, KeyMethod, KeyZoom, KeySeek, KeyProgress, KeySlideshow, params, asks,
           image_loader_drop_cache, KeyQuit, SysQuit, ProcessEnds, timer_callback, WindowChanges, RenderStop,
           RenderStart, Joined
  <2>3. At("write_zoom") \in BOOLEAN
    BY DEF At
  <2> QED  BY <2>1, <2>2, <2>3
<1>11. mislabelled' \subseteq ResizedKeys
  <2>1. mislabelled' = mislabelled \/ mislabelled' = {}
    BY DEF main_thread, KeySetting, KeyMethod, KeyZoom, KeySeek, KeyProgress, KeySlideshow, mainOnly,
           image_loader_drop_cache, KeyQuit, SysQuit, ProcessEnds, timer_callback, WindowChanges, RenderStop,
           RenderStart, Joined
  <2> QED  BY <2>1
<1> QED  BY <1>0, <1>1, <1>2, <1>3, <1>4, <1>5, <1>6, <1>7, <1>8, <1>9, <1>10, <1>11

(* No count runs over, and no picture is shown that was not painted.       *)
THEOREM TypeCorrect == Spec => []TypeOK
<1>1. IInv /\ RestTyped /\ [Next]_vars => RestTyped'
  <2> SUFFICES ASSUME IInv, RestTyped, [Next]_vars PROVE RestTyped'
    OBVIOUS
  <2>1. CASE UNCHANGED vars
    BY <2>1 DEF vars, slideshow, params, asks, images, RestTyped, FlagsTyped, IsCache
  <2> QED  BY <2>1, LoaderKeepsRest, MainKeepsRest DEF Next
<1>2. IInv /\ RestTyped /\ CachesAccounted => TypeOK
  <2> SUFFICES ASSUME IInv, RestTyped, CachesAccounted PROVE TypeOK
    OBVIOUS
  <2>1. img_cache.cur_size \in Int /\ img_resized_cache.cur_size \in Int
    BY DEF CachesAccounted, Accounted
  <2>2. img_cache \in Caches(Images) /\ img_resized_cache \in Caches(ResizedKeys)
    BY <2>1 DEF IInv, Typed, RestTyped, IsCache, Caches
  <2> QED  BY <2>2, Zenon DEF IInv, Typed, RestTyped, FlagsTyped, TypeOK
<1> QED  BY <1>1, <1>2, RestAtFirst, CachesStayAccounted, InductiveInvariant, PTL DEF Spec
=============================================================================
