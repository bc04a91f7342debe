----------------------------- MODULE Proxy_proofs -----------------------------
(***************************************************************************)
(* Proofs about the shared buffer of the proxy, for displays of any sizes, *)
(* any number of hides, resizes and messages on their way, and a server or *)
(* an application that goes away at any point: a buffer the application    *)
(* has to draw into is memory that is mapped, a repaint without a buffer   *)
(* is the crash between a HIDE and its UNMAP and nothing else, and both    *)
(* sides keep to the lease.                                                *)
(***************************************************************************)
EXTENDS Proxy, SequenceTheorems, FiniteSetTheorems, TLAPS

(* What is on its way is a sequence, of messages nobody has to count.      *)
IsSeq(q) == \E S : q \in Seq(S)

Typed ==
  /\ map \in Sizes \cup {0} /\ shm \in Sizes /\ screen \in Sizes
  /\ evs \in Seq({"start", "stop", "quit"})
  /\ IsSeq(toCli) /\ IsSeq(toSrv)

(* Three messages show an application. The rest of them on the way to it:  *)
(* none, all three somewhere, or the last ones in front.                   *)
IsShowing(msg) == msg.type \in {"MAP", "PIXMAP", "SHOW"}
ShowsAt(q, i, j) == \A n \in 1 .. Len(q) : IsShowing(q[n]) => i <= n /\ n <= j

Quiet(q) == ShowsAt(q, 1, 0)
AllOnTheWay(q, k, size) ==
  /\ k \in Nat \ {0} /\ k + 2 <= Len(q) /\ ShowsAt(q, k, k + 2)
  /\ q[k] = MsgOf("MAP", size) /\ q[k + 1] = MsgOf("PIXMAP", size) /\ q[k + 2] = Msg("SHOW")
  /\ \A n \in 1 .. Len(q) : n < k => q[n].type # "HIDE"
LastTwo(q, size) ==
  /\ 2 <= Len(q) /\ ShowsAt(q, 1, 2)
  /\ q[1] = MsgOf("PIXMAP", size) /\ q[2] = Msg("SHOW")
LastOne(q) == 1 <= Len(q) /\ ShowsAt(q, 1, 1) /\ q[1] = Msg("SHOW")

(* The application has the buffer, or is about to have it.                 *)
Lent == map # 0 \/ ~ Quiet(toCli)

Has(q, x) == \E i \in 1 .. Len(q) : q[i] = x
StopsLast(q) == \A i, j \in 1 .. Len(q) : i < j /\ q[i] = "stop" => q[j] # "start"
DoesNotDraw == ~ buf /\ ~ Has(evs, "start") /\ ~ unmap_requested /\ pc # "wait"
HasPixels == map # 0 /\ pixels /\ shm_pixmap = map

(* The five states of the buffer, with what the events in the queue may be *)
(* in each: a stop event of the last mapping never stays until the next.   *)
Unmapped ==
  /\ map = 0 /\ Quiet(toCli) /\ DoesNotDraw
  /\ cli_shown /\ pc = "poll" => ~ Has(evs, "stop")
Offered ==
  /\ map = 0 /\ DoesNotDraw
  /\ \E k \in Nat, size \in Sizes : AllOnTheWay(toCli, k, size) /\ (listed => size = shm)
  /\ pc = "poll" => ~ Has(evs, "stop")
Mapped == map # 0 /\ LastTwo(toCli, map) /\ DoesNotDraw /\ ~ Has(evs, "stop")
Painted == HasPixels /\ LastOne(toCli) /\ DoesNotDraw /\ ~ Has(evs, "stop")
Shown == HasPixels /\ pixmap = "shm" /\ Quiet(toCli) /\ StopsLast(evs)

BufferState == Unmapped \/ Offered \/ Mapped \/ Painted \/ Shown

(* The buffer is not cut while the server knows who has it.                *)
SizeIsKept == listed /\ map # 0 => map = shm

(* A shown application was not told to hide since.                         *)
NoHide(q) == \A n \in 1 .. Len(q) : q[n].type # "HIDE"
HidesAreRead == cli_shown => NoHide(toCli)

(* The server knows who has the buffer: the application, or an UNMAP on    *)
(* its way back, of which there is one.                                    *)
Returning(q) == \E i \in 1 .. Len(q) : q[i].type = "UNMAP"
ReturnsOnce(q) == \A i, j \in 1 .. Len(q) : q[i].type = "UNMAP" /\ q[j].type = "UNMAP" => i = j
LeaseIsKnown ==
  alive /\ listed =>
    /\ cli_shown \/ owes <=> Lent \/ Returning(toSrv)
    /\ Lent => ~ Returning(toSrv)
    /\ ReturnsOnce(toSrv)

Sides ==
  /\ ~ listed => Gone /\ ~ cli_shown
  /\ pc = "events" => evs # <<>>

IInv ==
  /\ Typed
  /\ BufferState
  /\ SizeIsKept
  /\ HidesAreRead
  /\ LeaseIsKnown
  /\ Sides

-----------------------------------------------------------------------------
(* Sequences of messages.                                                  *)

LEMMA SeqFacts ==
  ASSUME NEW q, IsSeq(q)
  PROVE  /\ Len(q) \in Nat
         /\ \A m : /\ IsSeq(Append(q, m)) /\ Len(Append(q, m)) = Len(q) + 1
                   /\ Append(q, m)[Len(q) + 1] = m
                   /\ \A i \in 1 .. Len(q) : Append(q, m)[i] = q[i]
         /\ q # <<>> => /\ IsSeq(Tail(q)) /\ Len(q) > 0 /\ Len(Tail(q)) = Len(q) - 1
                        /\ Head(q) = q[1]
                        /\ \A i \in 1 .. Len(q) - 1 : Tail(q)[i] = q[i + 1]
<1>1. PICK S : q \in Seq(S)
  BY DEF IsSeq
<1>2. ASSUME NEW m
      PROVE  /\ IsSeq(Append(q, m)) /\ Len(Append(q, m)) = Len(q) + 1
             /\ Append(q, m)[Len(q) + 1] = m
             /\ \A i \in 1 .. Len(q) : Append(q, m)[i] = q[i]
  <2>1. q \in Seq(S \cup {m}) /\ m \in S \cup {m}
    BY <1>1
  <2>2. Append(q, m) \in Seq(S \cup {m})
    BY <2>1
  <2> QED  BY <2>1, <2>2 DEF IsSeq
<1>3. ASSUME q # <<>>
      PROVE  /\ IsSeq(Tail(q)) /\ Len(q) > 0 /\ Len(Tail(q)) = Len(q) - 1
             /\ Head(q) = q[1]
             /\ \A i \in 1 .. Len(q) - 1 : Tail(q)[i] = q[i + 1]
  <2>1. Tail(q) \in Seq(S)
    BY <1>1, <1>3
  <2> QED  BY <1>1, <1>3, <2>1 DEF IsSeq
<1>4. Len(q) \in Nat
  BY <1>1
<1> QED  BY <1>2, <1>3, <1>4

(* A message that shows nothing is added behind the others.                *)
LEMMA AddFacts ==
  ASSUME NEW q, IsSeq(q), NEW m, ~ IsShowing(m)
  PROVE  /\ IsSeq(Append(q, m))
         /\ Quiet(Append(q, m)) <=> Quiet(q)
         /\ \A k, size : AllOnTheWay(q, k, size) => AllOnTheWay(Append(q, m), k, size)
         /\ \A size : LastTwo(q, size) => LastTwo(Append(q, m), size)
         /\ LastOne(q) => LastOne(Append(q, m))
<1> DEFINE r == Append(q, m)
<1>1. /\ IsSeq(r) /\ Len(q) \in Nat /\ Len(r) = Len(q) + 1 /\ r[Len(q) + 1] = m
      /\ \A i \in 1 .. Len(q) : r[i] = q[i]
  BY SeqFacts
<1> HIDE DEF r
<1>2. \A i, j : ShowsAt(r, i, j) <=> ShowsAt(q, i, j)
  <2> SUFFICES ASSUME NEW i, NEW j PROVE ShowsAt(r, i, j) <=> ShowsAt(q, i, j)
    OBVIOUS
  <2>1. \A n \in 1 .. Len(r) : n \in 1 .. Len(q) \/ n = Len(q) + 1
    BY <1>1
  <2>2. \A n \in 1 .. Len(q) : n \in 1 .. Len(r)
    BY <1>1
  <2> QED  BY <1>1, <2>1, <2>2 DEF ShowsAt
<1>3. Quiet(r) <=> Quiet(q)
  BY <1>2 DEF Quiet
<1>4. ASSUME NEW k, NEW size, AllOnTheWay(q, k, size)
      PROVE  AllOnTheWay(r, k, size)
  <2>1. k \in 1 .. Len(q) /\ k + 1 \in 1 .. Len(q) /\ k + 2 \in 1 .. Len(q)
    BY <1>1, <1>4 DEF AllOnTheWay
  <2>2. r[k] = q[k] /\ r[k + 1] = q[k + 1] /\ r[k + 2] = q[k + 2]
    BY <1>1, <2>1
  <2>3. \A n \in 1 .. Len(r) : n < k => r[n].type # "HIDE"
    <3>1. \A n \in 1 .. Len(r) : n < k => n \in 1 .. Len(q) /\ r[n] = q[n]
      BY <1>1, <2>1
    <3> QED  BY <1>4, <3>1 DEF AllOnTheWay
  <2> QED  BY <1>1, <1>2, <1>4, <2>2, <2>3 DEF AllOnTheWay
<1>5. ASSUME NEW size, LastTwo(q, size)
      PROVE  LastTwo(r, size)
  BY <1>1, <1>2, <1>5 DEF LastTwo
<1>6. LastOne(q) => LastOne(r)
  BY <1>1, <1>2 DEF LastOne
<1> QED  BY <1>1, <1>3, <1>4, <1>5, <1>6 DEF r

(* One is taken from the front.                                            *)
LEMMA TakeFacts ==
  ASSUME NEW q, IsSeq(q), q # <<>>, ~ IsShowing(Head(q))
  PROVE  /\ IsSeq(Tail(q))
         /\ Quiet(Tail(q)) <=> Quiet(q)
         /\ \A k, size : AllOnTheWay(q, k, size) => k > 1 /\ AllOnTheWay(Tail(q), k - 1, size)
         /\ \A size : ~ LastTwo(q, size)
         /\ ~ LastOne(q)
<1> DEFINE r == Tail(q)
<1>1. /\ IsSeq(r) /\ Len(q) \in Nat /\ Len(q) > 0 /\ Len(r) = Len(q) - 1 /\ Head(q) = q[1]
      /\ \A i \in 1 .. Len(q) - 1 : r[i] = q[i + 1]
  BY SeqFacts
<1> HIDE DEF r
<1>2. ~ IsShowing(q[1])
  BY <1>1
<1>3. \A n \in 1 .. Len(q) : n = 1 \/ (n - 1 \in 1 .. Len(r) /\ r[n - 1] = q[n])
  BY <1>1
<1>4. \A n \in 1 .. Len(r) : n + 1 \in 1 .. Len(q) /\ r[n] = q[n + 1]
  BY <1>1
<1>5. Quiet(r) <=> Quiet(q)
  <2>1. ASSUME Quiet(q) PROVE Quiet(r)
    BY <1>4, <2>1 DEF Quiet, ShowsAt
  <2>2. ASSUME Quiet(r) PROVE Quiet(q)
    BY <1>2, <1>3, <2>2 DEF Quiet, ShowsAt
  <2> QED  BY <2>1, <2>2
<1>6. ASSUME NEW k, NEW size, AllOnTheWay(q, k, size)
      PROVE  k > 1 /\ AllOnTheWay(r, k - 1, size)
  <2>1. k # 1
    BY <1>2, <1>6 DEF AllOnTheWay, IsShowing, MsgOf
  <2>2. k \in Nat /\ k > 1 /\ k - 1 \in Nat \ {0} /\ (k - 1) + 2 <= Len(r)
    BY <1>1, <1>6, <2>1 DEF AllOnTheWay
  <2>3. r[k - 1] = q[k] /\ r[(k - 1) + 1] = q[k + 1] /\ r[(k - 1) + 2] = q[k + 2]
    BY <1>1, <1>3, <1>6, <2>2 DEF AllOnTheWay
  <2>4. ShowsAt(r, k - 1, (k - 1) + 2)
    BY <1>4, <1>6, <2>2 DEF AllOnTheWay, ShowsAt
  <2>5. \A n \in 1 .. Len(r) : n < k - 1 => r[n].type # "HIDE"
    <3> SUFFICES ASSUME NEW n \in 1 .. Len(r), n < k - 1 PROVE r[n].type # "HIDE"
      OBVIOUS
    <3>1. n + 1 \in 1 .. Len(q) /\ r[n] = q[n + 1] /\ n + 1 < k
      <4>1. n + 1 < k
        BY <1>1, <2>2
      <4> QED  BY <1>4, <4>1
    <3> QED  BY <1>6, <3>1 DEF AllOnTheWay
  <2> QED  BY <1>6, <2>2, <2>3, <2>4, <2>5 DEF AllOnTheWay
<1>7. \A size : ~ LastTwo(q, size)
  BY <1>2 DEF LastTwo, IsShowing, MsgOf
<1>8. ~ LastOne(q)
  BY <1>2 DEF LastOne, IsShowing, Msg
<1> QED  BY <1>1, <1>5, <1>6, <1>7, <1>8 DEF r

(* The three messages follow when nothing was on the way.                  *)
LEMMA ShowFacts ==
  ASSUME NEW q, IsSeq(q), Quiet(q), \A n \in 1 .. Len(q) : q[n].type # "HIDE",
         NEW size
  PROVE  /\ IsSeq(q \o ShowMsgs(size)) /\ ~ Quiet(q \o ShowMsgs(size))
         /\ \E k \in Nat : AllOnTheWay(q \o ShowMsgs(size), k, size)
         /\ \A n \in 1 .. Len(q \o ShowMsgs(size)) : (q \o ShowMsgs(size))[n].type # "HIDE"
<1> DEFINE r == q \o ShowMsgs(size)
           k == Len(q) + 1
<1>1. Len(q) \in Nat
  BY SeqFacts
<1>2. /\ IsSeq(r) /\ Len(r) = Len(q) + 3
      /\ \A i \in 1 .. Len(q) : r[i] = q[i]
      /\ r[k] = MsgOf("MAP", size) /\ r[k + 1] = MsgOf("PIXMAP", size) /\ r[k + 2] = Msg("SHOW")
  <2>1. PICK S : q \in Seq(S)
    BY DEF IsSeq
  <2> DEFINE T == S \cup {MsgOf("MAP", size), MsgOf("PIXMAP", size), Msg("SHOW")}
  <2>2. q \in Seq(T) /\ ShowMsgs(size) \in Seq(T) /\ Len(ShowMsgs(size)) = 3
    BY <2>1 DEF ShowMsgs
  <2>3. /\ r \in Seq(T) /\ Len(r) = Len(q) + 3
        /\ \A i \in 1 .. Len(r) : r[i] = IF i <= Len(q) THEN q[i] ELSE ShowMsgs(size)[i - Len(q)]
    <3> HIDE DEF T
    <3>1. /\ r \in Seq(T) /\ Len(r) = Len(q) + Len(ShowMsgs(size))
          /\ \A i \in 1 .. Len(q) + Len(ShowMsgs(size)) :
                r[i] = IF i <= Len(q) THEN q[i] ELSE ShowMsgs(size)[i - Len(q)]
      BY <2>2, ConcatProperties, Zenon
    <3> QED  BY <2>2, <3>1
  <2>4. \A i \in 1 .. Len(q) : r[i] = q[i]
    BY <1>1, <2>3
  <2>5. \A i \in {1, 2, 3} : r[Len(q) + i] = ShowMsgs(size)[i]
    <3> SUFFICES ASSUME NEW i \in {1, 2, 3} PROVE r[Len(q) + i] = ShowMsgs(size)[i]
      OBVIOUS
    <3>1. i \in Nat /\ 1 <= i /\ i <= 3
      OBVIOUS
    <3>2. Len(q) + i \in 1 .. Len(r) /\ ~ (Len(q) + i <= Len(q)) /\ (Len(q) + i) - Len(q) = i
      BY <1>1, <2>3, <3>1
    <3> QED  BY <2>3, <3>2
  <2>6. r[Len(q) + 1] = ShowMsgs(size)[1] /\ r[Len(q) + 2] = ShowMsgs(size)[2] /\ r[Len(q) + 3] = ShowMsgs(size)[3]
    BY <2>5
  <2>7. ShowMsgs(size)[1] = MsgOf("MAP", size) /\ ShowMsgs(size)[2] = MsgOf("PIXMAP", size) /\ ShowMsgs(size)[3] = Msg("SHOW")
    BY DEF ShowMsgs
  <2>8. k + 1 = Len(q) + 2 /\ k + 2 = Len(q) + 3
    BY <1>1
  <2> QED  BY <2>3, <2>4, <2>6, <2>7, <2>8 DEF IsSeq
<1> HIDE DEF r
<1>3. \A n \in 1 .. Len(r) : n \in 1 .. Len(q) \/ n = k \/ n = k + 1 \/ n = k + 2
  BY <1>1, <1>2
<1>4. \A n \in 1 .. Len(q) : ~ IsShowing(q[n])
  BY DEF Quiet, ShowsAt
<1>5. ShowsAt(r, k, k + 2)
  BY <1>1, <1>2, <1>3, <1>4 DEF ShowsAt
<1>6. \A n \in 1 .. Len(r) : r[n].type # "HIDE"
  BY <1>2, <1>3 DEF MsgOf, Msg
<1>7. AllOnTheWay(r, k, size)
  BY <1>1, <1>2, <1>5, <1>6 DEF AllOnTheWay
<1>8. ~ Quiet(r)
  BY <1>1, <1>2 DEF Quiet, ShowsAt, IsShowing, MsgOf
<1> QED  BY <1>1, <1>2, <1>6, <1>7, <1>8 DEF r

(* The messages of a show are read in their order.                         *)
LEMMA ReadFacts ==
  ASSUME NEW q, IsSeq(q), q # <<>>, IsShowing(Head(q))
  PROVE  /\ IsSeq(Tail(q)) /\ ~ Quiet(q)
         /\ \A k, size : AllOnTheWay(q, k, size) => Head(q) = MsgOf("MAP", size) /\ LastTwo(Tail(q), size)
         /\ \A size : LastTwo(q, size) => Head(q) = MsgOf("PIXMAP", size) /\ LastOne(Tail(q))
         /\ LastOne(q) => Head(q) = Msg("SHOW") /\ Quiet(Tail(q))
<1> DEFINE r == Tail(q)
<1>1. /\ IsSeq(r) /\ Len(q) \in Nat /\ Len(q) > 0 /\ Len(r) = Len(q) - 1 /\ Head(q) = q[1]
      /\ \A i \in 1 .. Len(q) - 1 : r[i] = q[i + 1]
  BY SeqFacts
<1> HIDE DEF r
<1>2. IsShowing(q[1]) /\ 1 \in 1 .. Len(q)
  BY <1>1
<1>3. \A n \in 1 .. Len(r) : n + 1 \in 1 .. Len(q) /\ r[n] = q[n + 1]
  BY <1>1
<1>4. ~ Quiet(q)
  BY <1>2 DEF Quiet, ShowsAt
<1>5. ASSUME NEW k, NEW size, AllOnTheWay(q, k, size)
      PROVE  Head(q) = MsgOf("MAP", size) /\ LastTwo(r, size)
  <2>1. k = 1
    BY <1>2, <1>5 DEF AllOnTheWay, ShowsAt
  <2>2. 3 <= Len(q) /\ ShowsAt(q, 1, 3)
    BY <1>5, <2>1 DEF AllOnTheWay
  <2>3. q[1] = MsgOf("MAP", size) /\ q[2] = MsgOf("PIXMAP", size) /\ q[3] = Msg("SHOW")
    BY <1>5, <2>1 DEF AllOnTheWay
  <2>4. r[1] = q[2] /\ r[2] = q[3]
    BY <1>1, <2>2
  <2>5. ShowsAt(r, 1, 2)
    BY <1>3, <2>2 DEF ShowsAt
  <2>6. 2 <= Len(r)
    BY <1>1, <2>2
  <2> QED  BY <1>1, <2>3, <2>4, <2>5, <2>6 DEF LastTwo
<1>6. ASSUME NEW size, LastTwo(q, size)
      PROVE  Head(q) = MsgOf("PIXMAP", size) /\ LastOne(r)
  <2>1. 2 <= Len(q) /\ ShowsAt(q, 1, 2) /\ q[1] = MsgOf("PIXMAP", size) /\ q[2] = Msg("SHOW")
    BY <1>6 DEF LastTwo
  <2>2. r[1] = q[2] /\ 1 <= Len(r)
    BY <1>1, <2>1
  <2>3. ShowsAt(r, 1, 1)
    BY <1>3, <2>1 DEF ShowsAt
  <2> QED  BY <1>1, <2>1, <2>2, <2>3 DEF LastOne
<1>7. ASSUME LastOne(q)
      PROVE  Head(q) = Msg("SHOW") /\ Quiet(r)
  <2>1. ShowsAt(q, 1, 1) /\ q[1] = Msg("SHOW")
    BY <1>7 DEF LastOne
  <2>2. Quiet(r)
    BY <1>3, <2>1 DEF Quiet, ShowsAt
  <2> QED  BY <1>1, <2>1, <2>2
<1> QED  BY <1>1, <1>4, <1>5, <1>6, <1>7 DEF r

(* Two sequences in which a show is in the same state.                     *)
Follows(r, q) ==
  /\ IsSeq(r) /\ (Quiet(r) <=> Quiet(q))
  /\ \A k \in Nat : \A size : AllOnTheWay(q, k, size) => \E l \in Nat : AllOnTheWay(r, l, size)
  /\ \A size : LastTwo(q, size) => LastTwo(r, size)
  /\ LastOne(q) => LastOne(r)

LEMMA FollowsSame == \A q : IsSeq(q) => Follows(q, q)
  BY DEF Follows

LEMMA FollowsAppend ==
  ASSUME NEW q, IsSeq(q), NEW m, ~ IsShowing(m)
  PROVE  /\ Follows(Append(q, m), q)
         /\ NoHide(q) /\ m.type # "HIDE" => NoHide(Append(q, m))
<1>1. Follows(Append(q, m), q)
  BY AddFacts DEF Follows
<1>2. ASSUME NoHide(q), m.type # "HIDE"
      PROVE  NoHide(Append(q, m))
  <2>1. \A n \in 1 .. Len(Append(q, m)) : n \in 1 .. Len(q) \/ n = Len(q) + 1
    BY SeqFacts
  <2> QED  BY <1>2, <2>1, SeqFacts DEF NoHide
<1> QED  BY <1>1, <1>2

LEMMA FollowsTail ==
  ASSUME NEW q, IsSeq(q), q # <<>>, ~ IsShowing(Head(q))
  PROVE  Follows(Tail(q), q)
<1>1. ASSUME NEW k \in Nat, NEW size, AllOnTheWay(q, k, size)
      PROVE  \E l \in Nat : AllOnTheWay(Tail(q), l, size)
  <2>1. k > 1 /\ AllOnTheWay(Tail(q), k - 1, size)
    BY <1>1, TakeFacts
  <2>2. k - 1 \in Nat
    BY <2>1
  <2> QED  BY <2>1, <2>2
<1> QED  BY <1>1, TakeFacts DEF Follows

LEMMA NoHideTail ==
  ASSUME NEW q, IsSeq(q), q # <<>>, NoHide(q)
  PROVE  NoHide(Tail(q)) /\ Head(q).type # "HIDE"
  BY SeqFacts DEF NoHide

LEMMA AppendTwo ==
  ASSUME NEW q, IsSeq(q), NEW a, NEW b
  PROVE  q \o <<a, b>> = Append(Append(q, a), b)
<1>1. PICK S : q \in Seq(S)
  BY DEF IsSeq
<1> DEFINE T == S \cup {a, b}
           c == <<a, b>>
<1>2. q \in Seq(T) /\ c \in Seq(T) /\ a \in T /\ b \in T /\ Len(c) = 2 /\ c[1] = a /\ c[2] = b
  BY <1>1
<1> DEFINE r == q \o c
           s == Append(Append(q, a), b)
<1> HIDE DEF T, c
<1>3. /\ r \in Seq(T) /\ Len(r) = Len(q) + Len(c)
      /\ \A i \in 1 .. Len(q) + Len(c) : r[i] = IF i <= Len(q) THEN q[i] ELSE c[i - Len(q)]
  BY <1>2, ConcatProperties, Zenon
<1>4. s \in Seq(T)
  BY <1>2
<1>5. /\ Len(q) \in Nat /\ Len(s) = Len(q) + 2 /\ s[Len(q) + 1] = a /\ s[Len(q) + 2] = b
      /\ \A i \in 1 .. Len(q) : s[i] = q[i]
  BY <1>2
<1> HIDE DEF r, s
<1>6. Len(r) = Len(s)
  BY <1>2, <1>3, <1>5
<1>7. ASSUME NEW i \in 1 .. Len(r)
      PROVE  r[i] = s[i]
  <2>1. CASE i \in 1 .. Len(q)
    BY <1>2, <1>3, <1>5, <2>1
  <2>2. CASE i = Len(q) + 1
    <3>1. i - Len(q) = 1 /\ ~ (i <= Len(q))
      BY <1>5, <2>2
    <3> QED  BY <1>2, <1>3, <1>5, <2>2, <3>1
  <2>3. CASE i = Len(q) + 2
    <3>1. i - Len(q) = 2 /\ ~ (i <= Len(q))
      BY <1>5, <2>3
    <3> QED  BY <1>2, <1>3, <1>5, <2>3, <3>1
  <2>4. i \in 1 .. Len(q) \/ i = Len(q) + 1 \/ i = Len(q) + 2
    BY <1>2, <1>3, <1>5
  <2> QED  BY <2>1, <2>2, <2>3, <2>4
<1>8. r = s
  BY <1>3, <1>4, <1>6, <1>7, SeqEqual
<1> QED  BY <1>8 DEF r, s, c

(* The events in the queue.                                                *)
LEMMA EventFacts ==
  ASSUME NEW S, NEW q \in Seq(S)
  PROVE  /\ \A x \in S : \A y : Has(Append(q, x), y) <=> Has(q, y) \/ x = y
         /\ \A x \in S : StopsLast(q) /\ (x = "start" => ~ Has(q, "stop")) => StopsLast(Append(q, x))
         /\ q # <<>> => /\ Has(q, Head(q))
                        /\ \A y : Has(Tail(q), y) => Has(q, y)
                        /\ StopsLast(q) => StopsLast(Tail(q))
                        /\ StopsLast(q) /\ Head(q) = "stop" => ~ Has(Tail(q), "start")
<1>1. Len(q) \in Nat /\ IsSeq(q)
  BY DEF IsSeq
<1>2. ASSUME NEW x \in S, NEW y
      PROVE  Has(Append(q, x), y) <=> Has(q, y) \/ x = y
  <2>1. \A i \in 1 .. Len(q) + 1 : i \in 1 .. Len(q) \/ i = Len(q) + 1
    BY <1>1
  <2>2. Len(q) + 1 \in 1 .. Len(q) + 1 /\ \A i \in 1 .. Len(q) : i \in 1 .. Len(q) + 1
    BY <1>1
  <2> QED  BY <1>1, <2>1, <2>2, SeqFacts DEF Has
<1>3. ASSUME NEW x \in S, StopsLast(q), x = "start" => ~ Has(q, "stop")
      PROVE  StopsLast(Append(q, x))
  <2> DEFINE r == Append(q, x)
  <2> SUFFICES ASSUME NEW i \in 1 .. Len(r), NEW j \in 1 .. Len(r), i < j, r[i] = "stop"
               PROVE  r[j] # "start"
    BY DEF StopsLast
  <2>1. /\ Len(r) = Len(q) + 1 /\ r[Len(q) + 1] = x
        /\ \A n \in 1 .. Len(q) : r[n] = q[n]
    BY <1>1, SeqFacts
  <2> HIDE DEF r
  <2>2. i \in 1 .. Len(q) /\ (j \in 1 .. Len(q) \/ j = Len(q) + 1)
    BY <1>1, <2>1
  <2> QED  BY <1>3, <2>1, <2>2 DEF StopsLast, Has
<1>4. ASSUME q # <<>>
      PROVE  /\ Has(q, Head(q))
             /\ \A y : Has(Tail(q), y) => Has(q, y)
             /\ StopsLast(q) => StopsLast(Tail(q))
             /\ StopsLast(q) /\ Head(q) = "stop" => ~ Has(Tail(q), "start")
  <2> DEFINE r == Tail(q)
  <2>1. /\ Len(q) > 0 /\ Len(r) = Len(q) - 1 /\ Head(q) = q[1]
        /\ \A i \in 1 .. Len(q) - 1 : r[i] = q[i + 1]
    BY <1>1, <1>4, SeqFacts
  <2> HIDE DEF r
  <2>2. 1 \in 1 .. Len(q)
    BY <1>1, <2>1
  <2>3. \A i \in 1 .. Len(r) : i + 1 \in 1 .. Len(q) /\ 1 < i + 1 /\ r[i] = q[i + 1]
    BY <1>1, <2>1
  <2>4. Has(q, Head(q))
    BY <2>1, <2>2 DEF Has
  <2>5. \A y : Has(r, y) => Has(q, y)
    BY <2>3 DEF Has
  <2>6. StopsLast(q) => StopsLast(r)
    <3> SUFFICES ASSUME StopsLast(q), NEW i \in 1 .. Len(r), NEW j \in 1 .. Len(r), i < j, r[i] = "stop"
                 PROVE  r[j] # "start"
      BY DEF StopsLast
    <3>1. i + 1 < j + 1
      OBVIOUS
    <3> QED  BY <2>3, <3>1 DEF StopsLast
  <2>7. StopsLast(q) /\ Head(q) = "stop" => ~ Has(r, "start")
    BY <2>1, <2>2, <2>3 DEF StopsLast, Has
  <2> QED  BY <2>4, <2>5, <2>6, <2>7 DEF r
<1> QED  BY <1>2, <1>3, <1>4

(* The messages to the server.                                             *)
LEMMA SentFacts ==
  ASSUME NEW q, IsSeq(q), NEW m
  PROVE  /\ m.type # "UNMAP" => /\ Returning(Append(q, m)) <=> Returning(q)
                                /\ ReturnsOnce(q) => ReturnsOnce(Append(q, m))
         /\ m.type = "UNMAP" /\ ~ Returning(q) => /\ Returning(Append(q, m))
                                                /\ ReturnsOnce(Append(q, m))
<1>0. Len(q) \in Nat
  BY SeqFacts
<1> DEFINE r == Append(q, m)
<1>1. /\ Len(r) = Len(q) + 1 /\ r[Len(q) + 1] = m
      /\ \A i \in 1 .. Len(q) : r[i] = q[i]
  BY SeqFacts
<1> HIDE DEF r
<1>2. /\ \A i \in 1 .. Len(r) : i \in 1 .. Len(q) \/ i = Len(q) + 1
      /\ \A i \in 1 .. Len(q) : i \in 1 .. Len(r)
      /\ Len(q) + 1 \in 1 .. Len(r)
  BY <1>0, <1>1
<1>3. m.type # "UNMAP" => (Returning(r) <=> Returning(q))
  BY <1>1, <1>2 DEF Returning
<1>4. m.type # "UNMAP" => (ReturnsOnce(q) => ReturnsOnce(r))
  BY <1>1, <1>2 DEF ReturnsOnce
<1>5. m.type = "UNMAP" /\ ~ Returning(q) => Returning(r) /\ ReturnsOnce(r)
  BY <1>1, <1>2 DEF Returning, ReturnsOnce
<1> QED  BY <1>3, <1>4, <1>5 DEF r

LEMMA TakenFacts ==
  ASSUME NEW q, IsSeq(q), q # <<>>
  PROVE  /\ Head(q).type # "UNMAP" => (Returning(Tail(q)) <=> Returning(q))
         /\ ReturnsOnce(q) => ReturnsOnce(Tail(q))
         /\ Head(q).type = "UNMAP" => Returning(q) /\ (ReturnsOnce(q) => ~ Returning(Tail(q)))
<1>0. Len(q) \in Nat
  BY SeqFacts
<1> DEFINE r == Tail(q)
<1>1. /\ Len(q) > 0 /\ Len(r) = Len(q) - 1 /\ Head(q) = q[1]
      /\ \A i \in 1 .. Len(q) - 1 : r[i] = q[i + 1]
  BY SeqFacts
<1> HIDE DEF r
<1>2. 1 \in 1 .. Len(q)
  BY <1>0, <1>1
<1>3. /\ \A i \in 1 .. Len(r) : i + 1 \in 1 .. Len(q) /\ 1 # i + 1 /\ r[i] = q[i + 1]
      /\ \A i, j \in 1 .. Len(r) : i + 1 = j + 1 => i = j
  BY <1>0, <1>1
<1>4. \A i \in 1 .. Len(q) : i = 1 \/ (i - 1 \in 1 .. Len(r) /\ r[i - 1] = q[i])
  BY <1>0, <1>1
<1>5. q[1].type # "UNMAP" => (Returning(r) <=> Returning(q))
  <2>1. Returning(r) => Returning(q)
    BY <1>3 DEF Returning
  <2>2. q[1].type # "UNMAP" /\ Returning(q) => Returning(r)
    BY <1>4 DEF Returning
  <2> QED  BY <2>1, <2>2
<1>6. ReturnsOnce(q) => ReturnsOnce(r)
  BY <1>3 DEF ReturnsOnce
<1>7. q[1].type = "UNMAP" => Returning(q) /\ (ReturnsOnce(q) => ~ Returning(r))
  BY <1>2, <1>3 DEF Returning, ReturnsOnce
<1> QED  BY <1>1, <1>5, <1>6, <1>7 DEF r

-----------------------------------------------------------------------------
(* The buffer from one state to the next.                                  *)

LEMMA Stages ==
  ASSUME Typed, BufferState
  PROVE  /\ ~ Lent => Unmapped
         /\ Unmapped \/ Offered => map = 0
         /\ Unmapped => ~ Lent
         /\ ~ Unmapped => Lent
<1>1. Offered => ~ Quiet(toCli)
  <2> SUFFICES ASSUME Offered PROVE ~ Quiet(toCli)
    OBVIOUS
  <2>1. PICK k \in Nat, size \in Sizes : AllOnTheWay(toCli, k, size)
    BY DEF Offered
  <2>2. k \in 1 .. Len(toCli) /\ IsShowing(toCli[k])
    <3>1. Len(toCli) \in Nat
      BY SeqFacts DEF Typed
    <3> QED  BY <2>1, <3>1 DEF AllOnTheWay, IsShowing, MsgOf
  <2> QED  BY <2>2 DEF Quiet, ShowsAt
<1> QED  BY <1>1 DEF BufferState, Lent, Unmapped, Offered, Mapped, Painted, Shown, HasPixels

(* Nothing of what a state says of the events and the messages is undone.  *)
LEMMA StaysThere ==
  ASSUME Typed, BufferState,
         Follows(toCli', toCli), UNCHANGED <<buffer, shm>>,
         listed' => listed, cli_shown' => cli_shown,
         unmap_requested' => unmap_requested, buf' => buf,
         Has(evs', "start") => Has(evs, "start"),
         Has(evs', "stop") => Has(evs, "stop"),
         StopsLast(evs) => StopsLast(evs'),
         pc' = "wait" => pc = "wait",
         pc' = "poll" => pc = "poll" \/ ~ Has(evs', "stop")
  PROVE  BufferState' /\ (Lent' <=> Lent)
<1> USE DEF buffer
<1>1. Lent' <=> Lent
  BY DEF Lent, Follows
<1>2. DoesNotDraw => DoesNotDraw'
  BY DEF DoesNotDraw
<1>3. HasPixels => HasPixels'
  BY DEF HasPixels
<1>4. Unmapped => Unmapped'
  BY <1>2 DEF Unmapped, Follows
<1>5. ASSUME Offered PROVE Offered'
  <2>1. PICK k \in Nat, size \in Sizes : AllOnTheWay(toCli, k, size) /\ (listed => size = shm)
    BY <1>5 DEF Offered
  <2>2. PICK l \in Nat : AllOnTheWay(toCli', l, size)
    BY <2>1 DEF Follows
  <2>3. listed' => size = shm'
    BY <2>1
  <2>4. \E n \in Nat, z \in Sizes : AllOnTheWay(toCli', n, z) /\ (listed' => z = shm')
    BY <2>2, <2>3
  <2>5. pc' = "poll" => ~ Has(evs', "stop")
    BY <1>5 DEF Offered
  <2> QED  BY <1>2, <1>5, <2>4, <2>5 DEF Offered
<1>6. Mapped => Mapped'
  BY <1>2 DEF Mapped, Follows
<1>7. Painted => Painted'
  BY <1>2, <1>3 DEF Painted, Follows
<1>8. Shown => Shown'
  BY <1>3 DEF Shown, Follows
<1> QED  BY <1>1, <1>4, <1>5, <1>6, <1>7, <1>8 DEF BufferState

(* A shown application does what it likes with its events.                 *)
LEMMA StaysShown ==
  ASSUME Shown, Follows(toCli', toCli), UNCHANGED buffer, StopsLast(evs')
  PROVE  BufferState' /\ Lent /\ Lent'
BY DEF Shown, Follows, buffer, BufferState, HasPixels, Lent

(* A show is sent when nothing is lent.                                    *)
LEMMA ShowIsOffered ==
  ASSUME Typed, Unmapped, NEW size \in Sizes,
         toCli' = toCli \o ShowMsgs(size), NoHide(toCli),
         UNCHANGED client, shm' = size, pc = "poll" => ~ Has(evs, "stop")
  PROVE  BufferState' /\ Lent' /\ IsSeq(toCli)' /\ NoHide(toCli')
<1> USE DEF client, buffer
<1>1. /\ IsSeq(toCli') /\ ~ Quiet(toCli') /\ NoHide(toCli')
      /\ \E k \in Nat : AllOnTheWay(toCli', k, size)
  BY ShowFacts DEF Typed, Unmapped, NoHide
<1>2. Offered'
  BY <1>1 DEF Offered, Unmapped, DoesNotDraw
<1>3. Lent'
  BY <1>1 DEF Lent
<1> QED  BY <1>1, <1>2, <1>3 DEF BufferState

(* What is sent to the server arrives, unless it is gone.                  *)
LEMMA SendFacts ==
  ASSUME Typed, NEW msg, NEW next, Send(msg, next)
  PROVE  /\ IsSeq(toSrv') /\ (alive => toSrv' = Append(toSrv, msg) /\ pc' = next)
         /\ pc' \in {next, "killed"}
  BY SeqFacts DEF Typed, Send

LEMMA KnownWhenSent ==
  ASSUME Typed, LeaseIsKnown, NEW msg, msg.type # "UNMAP", UNCHANGED server,
         alive => toSrv' \in {toSrv, Append(toSrv, msg)}, Lent' <=> Lent
  PROVE  LeaseIsKnown'
<1>1. /\ Returning(Append(toSrv, msg)) <=> Returning(toSrv)
      /\ ReturnsOnce(toSrv) => ReturnsOnce(Append(toSrv, msg))
  BY SentFacts DEF Typed
<1> QED  BY <1>1 DEF LeaseIsKnown, server

LEMMA KnownWhenKept ==
  ASSUME LeaseIsKnown, UNCHANGED <<toSrv, alive>>, listed' => listed,
         listed' => (cli_shown' \/ owes' <=> cli_shown \/ owes), Lent' <=> Lent
  PROVE  LeaseIsKnown'
  BY DEF LeaseIsKnown

-----------------------------------------------------------------------------
(* The steps of the server.                                                *)

LEMMA Messages == /\ \A t : Msg(t).type = t
                  /\ \A t, v : MsgOf(t, v).type = t
  BY DEF Msg, MsgOf

LEMMA show_clientKeeps == ASSUME IInv, show_client PROVE IInv'
<1> USE DEF IInv
<1>1. /\ alive /\ listed /\ ~ cli_shown /\ ~ owes /\ toCli = <<>> /\ cli_shown'
      /\ toCli' = toCli \o ShowMsgs(shm)
      /\ UNCHANGED <<listed, screen, shm, alive, owes, hides, resizes, toSrv, client>>
      /\ ~ Has(evs, "stop")
  BY DEF show_client, Patient, Has
<1>2. ~ Lent /\ ~ Returning(toSrv) /\ ReturnsOnce(toSrv)
  BY <1>1 DEF LeaseIsKnown
<1>3. Unmapped
  BY <1>2, Stages
<1>4. NoHide(toCli)
  BY <1>1 DEF NoHide
<1>5. BufferState' /\ Lent' /\ IsSeq(toCli)' /\ NoHide(toCli')
  BY <1>1, <1>3, <1>4, ShowIsOffered DEF Typed
<1>6. Typed'
  BY <1>1, <1>5 DEF Typed, client, buffer
<1>7. SizeIsKept' /\ HidesAreRead' /\ Sides'
  BY <1>1, <1>5 DEF SizeIsKept, HidesAreRead, Sides, Gone, client, buffer
<1>8. LeaseIsKnown'
  BY <1>1, <1>2, <1>5 DEF LeaseIsKnown
<1> QED  BY <1>5, <1>6, <1>7, <1>8

LEMMA hide_clientKeeps == ASSUME IInv, hide_client PROVE IInv'
<1> USE DEF IInv
<1> DEFINE q == Append(toCli, Msg("HIDE"))
<1>1. /\ cli_shown /\ ~ cli_shown' /\ owes'
      /\ toCli' = toCli \o <<Msg("HIDE"), Msg("UNMAP")>>
      /\ UNCHANGED <<listed, screen, shm, alive, toSrv, client>>
  BY DEF hide_client
<1>2. IsSeq(toCli) /\ ~ IsShowing(Msg("HIDE")) /\ ~ IsShowing(Msg("UNMAP"))
  BY Messages DEF Typed, IsShowing
<1>3. Follows(q, toCli) /\ IsSeq(q)
  BY <1>2, FollowsAppend DEF Follows
<1>4. toCli' = Append(q, Msg("UNMAP"))
  BY <1>1, <1>2, AppendTwo
<1>5. Follows(toCli', toCli)
  <2> HIDE DEF q
  <2>1. Follows(toCli', q)
    BY <1>2, <1>3, <1>4, FollowsAppend
  <2> QED  BY <1>3, <2>1 DEF Follows
<1>6. BufferState' /\ (Lent' <=> Lent)
  BY <1>1, <1>5, StaysThere DEF client
<1>7. Typed'
  BY <1>1, <1>5 DEF Typed, Follows, client, buffer
<1>8. SizeIsKept' /\ HidesAreRead' /\ Sides'
  BY <1>1 DEF SizeIsKept, HidesAreRead, Sides, Gone, client, buffer
<1>9. LeaseIsKnown'
  BY <1>1, <1>6, KnownWhenKept
<1> QED  BY <1>6, <1>7, <1>8, <1>9

(* A message that shows nothing is sent to a shown application.            *)
LEMMA SendingKeeps ==
  ASSUME IInv, NEW m, ~ IsShowing(m), m.type # "HIDE", toCli' = Append(toCli, m),
         UNCHANGED <<listed, cli_shown, shm, client>>
  PROVE  /\ BufferState' /\ (Lent' <=> Lent) /\ IsSeq(toCli')
         /\ SizeIsKept' /\ HidesAreRead' /\ Sides'
<1> USE DEF IInv
<1>1. Follows(toCli', toCli) /\ (NoHide(toCli) => NoHide(toCli'))
  BY FollowsAppend DEF Typed
<1>2. BufferState' /\ (Lent' <=> Lent)
  BY <1>1, StaysThere DEF client
<1>3. SizeIsKept' /\ HidesAreRead' /\ Sides'
  BY <1>1 DEF SizeIsKept, HidesAreRead, Sides, Gone, client, buffer
<1> QED  BY <1>1, <1>2, <1>3 DEF Follows

LEMMA resize_shown_clientKeeps == ASSUME IInv, resize_shown_client PROVE IInv'
<1> USE DEF IInv
<1>1. /\ alive /\ screen' \in Sizes
      /\ UNCHANGED <<cli_shown, listed, alive, toSrv, client>>
      /\ \/ ~ cli_shown /\ Patient /\ shm' = screen' /\ UNCHANGED <<toCli, owes>>
         \/ cli_shown /\ toCli' = Append(toCli, Msg("UNMAP")) /\ owes' /\ UNCHANGED shm
  BY DEF resize_shown_client
<1>2. CASE cli_shown
  <2>1. toCli' = Append(toCli, Msg("UNMAP")) /\ owes' /\ UNCHANGED shm
    BY <1>1, <1>2
  <2>2. ~ IsShowing(Msg("UNMAP")) /\ Msg("UNMAP").type # "HIDE"
    BY Messages DEF IsShowing
  <2>3. /\ BufferState' /\ (Lent' <=> Lent) /\ IsSeq(toCli')
        /\ SizeIsKept' /\ HidesAreRead' /\ Sides'
    BY <1>1, <2>1, <2>2, SendingKeeps
  <2>4. LeaseIsKnown'
    BY <1>1, <1>2, <2>1, <2>3, KnownWhenKept
  <2> QED  BY <1>1, <2>1, <2>3, <2>4 DEF Typed, client, buffer
<1>3. CASE ~ cli_shown
  <2>1. ~ owes /\ shm' = screen' /\ UNCHANGED <<toCli, owes>>
    BY <1>1, <1>3 DEF Patient
  <2>2. Lent' <=> Lent
    BY <1>1, <2>1 DEF Lent, client, buffer
  <2>3. listed => Unmapped
    BY <1>1, <1>3, <2>1, Stages DEF LeaseIsKnown
  <2>4. Unmapped => Unmapped'
    BY <1>1, <2>1 DEF Unmapped, DoesNotDraw, client, buffer
  <2>5. ~ listed => BufferState'
    BY <1>1, <2>1 DEF BufferState, Unmapped, Offered, Mapped, Painted, Shown, DoesNotDraw, HasPixels, client, buffer
  <2>6. SizeIsKept' /\ HidesAreRead' /\ Sides'
    BY <1>1, <1>3, <2>1, <2>3 DEF SizeIsKept, HidesAreRead, Sides, Gone, Unmapped, client, buffer
  <2>7. LeaseIsKnown'
    BY <1>1, <2>1, <2>2, KnownWhenKept
  <2>8. Typed'
    BY <1>1, <2>1 DEF Typed, client, buffer
  <2> QED  BY <2>3, <2>4, <2>5, <2>6, <2>7, <2>8 DEF BufferState
<1> QED  BY <1>2, <1>3

LEMMA RequestExitKeeps == ASSUME IInv, RequestExit PROVE IInv'
<1> USE DEF IInv
<1>1. toCli' = Append(toCli, Msg("EXIT")) /\ UNCHANGED <<server, toSrv, client>>
  BY DEF RequestExit
<1>2. ~ IsShowing(Msg("EXIT")) /\ Msg("EXIT").type # "HIDE"
  BY Messages DEF IsShowing
<1>3. /\ BufferState' /\ (Lent' <=> Lent) /\ IsSeq(toCli')
      /\ SizeIsKept' /\ HidesAreRead' /\ Sides'
  BY <1>1, <1>2, SendingKeeps DEF server
<1>4. LeaseIsKnown'
  BY <1>1, <1>3, KnownWhenKept DEF server
<1> QED  BY <1>1, <1>3, <1>4 DEF Typed, server, client, buffer

LEMMA client_eventKeeps == ASSUME IInv, client_event PROVE IInv'
<1> USE DEF IInv
<1>1. /\ alive /\ listed /\ toSrv # <<>> /\ toSrv' = Tail(toSrv)
      /\ UNCHANGED <<cli_shown, listed, screen, alive, hides, resizes, client>>
      /\ \/ Head(toSrv).type = "UNMAP" /\ on_unmap
         \/ Head(toSrv).type = "UPDATE" /\ shm_update(Head(toSrv))
         \/ Head(toSrv).type \in {"MAP", "EXIT"} /\ UNCHANGED <<shm, owes, toCli>>
  BY DEF client_event
<1>2. IsSeq(toSrv) /\ IsSeq(toSrv')
  BY <1>1, SeqFacts DEF Typed
<1> DEFINE m == Head(toSrv)
<1>5. /\ Head(toSrv).type # "UNMAP" => (Returning(toSrv') <=> Returning(toSrv))
      /\ ReturnsOnce(toSrv) => ReturnsOnce(toSrv')
      /\ Head(toSrv).type = "UNMAP" => Returning(toSrv) /\ (ReturnsOnce(toSrv) => ~ Returning(toSrv'))
  <2>1. toSrv' = Tail(toSrv) /\ toSrv # <<>>
    BY <1>1
  <2> QED  BY <1>2, <2>1, TakenFacts
<1>3. CASE Head(toSrv).type = "UNMAP"
  <2>1. Returning(toSrv) /\ ~ Lent /\ ReturnsOnce(toSrv)
    BY <1>1, <1>3, <1>5 DEF LeaseIsKnown
  <2>2. ~ Returning(toSrv')
    BY <1>3, <1>5, <2>1
  <2>3. ReturnsOnce(toSrv')
    BY <2>2 DEF Returning, ReturnsOnce
  <2>4. Unmapped
    BY <2>1, Stages
  <2>5. /\ ~ owes'
        /\ \/ cli_shown /\ shm' = screen /\ toCli' = toCli \o ShowMsgs(screen)
           \/ ~ cli_shown /\ UNCHANGED <<shm, toCli>>
    BY <1>1, <1>3 DEF on_unmap
  <2>6. CASE cli_shown
    <3>1. /\ shm' = screen /\ toCli' = toCli \o ShowMsgs(screen) /\ NoHide(toCli) /\ screen \in Sizes
          /\ pc = "poll" => ~ Has(evs, "stop")
      BY <2>4, <2>5, <2>6 DEF HidesAreRead, Typed, Unmapped
    <3>2. BufferState' /\ Lent' /\ IsSeq(toCli)' /\ NoHide(toCli')
      BY <1>1, <2>4, <3>1, ShowIsOffered
    <3>3. SizeIsKept' /\ HidesAreRead' /\ Sides'
      BY <1>1, <2>4, <3>2 DEF SizeIsKept, HidesAreRead, Sides, Gone, Unmapped, client, buffer
    <3>4. LeaseIsKnown'
      BY <1>1, <2>2, <2>3, <2>6, <3>2 DEF LeaseIsKnown
    <3>5. Typed'
      BY <1>1, <1>2, <3>1, <3>2 DEF Typed, client, buffer
    <3> QED  BY <3>2, <3>3, <3>4, <3>5
  <2>7. CASE ~ cli_shown
    <3>1. UNCHANGED <<shm, toCli>>
      BY <2>5, <2>7
    <3>2. Unmapped'
      BY <1>1, <2>4, <3>1 DEF Unmapped, DoesNotDraw, client, buffer
    <3>3. ~ Lent'
      BY <3>2 DEF Lent, Unmapped
    <3>4. SizeIsKept' /\ HidesAreRead' /\ Sides'
      BY <1>1, <2>7, <3>1 DEF SizeIsKept, HidesAreRead, Sides, Gone, client, buffer
    <3>5. LeaseIsKnown'
      BY <1>1, <2>2, <2>3, <2>5, <2>7, <3>3 DEF LeaseIsKnown
    <3>6. Typed'
      BY <1>1, <1>2, <3>1 DEF Typed, client, buffer
    <3> QED  BY <3>2, <3>4, <3>5, <3>6 DEF BufferState
  <2> QED  BY <2>6, <2>7
<1>4. CASE Head(toSrv).type # "UNMAP"
  <2>1. UNCHANGED <<shm, owes>> /\ (UNCHANGED toCli \/ (toCli' = Append(toCli, m) /\ m.type = "UPDATE"))
    BY <1>1, <1>4 DEF shm_update
  <2>2. /\ BufferState' /\ (Lent' <=> Lent) /\ IsSeq(toCli')
        /\ SizeIsKept' /\ HidesAreRead' /\ Sides'
    <3>1. CASE UNCHANGED toCli
      <4>1. Follows(toCli', toCli) /\ IsSeq(toCli')
        BY <3>1, FollowsSame DEF Typed
      <4>2. BufferState' /\ (Lent' <=> Lent)
        BY <1>1, <2>1, <4>1, StaysThere DEF client
      <4> QED  BY <1>1, <2>1, <3>1, <4>1, <4>2 DEF SizeIsKept, HidesAreRead, Sides, Gone, client, buffer
    <3>2. CASE toCli' = Append(toCli, m) /\ m.type = "UPDATE"
      <4>1. ~ IsShowing(m) /\ m.type # "HIDE"
        BY <3>2 DEF IsShowing
      <4> QED  BY <1>1, <2>1, <3>2, <4>1, SendingKeeps
    <3> QED  BY <2>1, <3>1, <3>2
  <2>3. /\ Returning(toSrv') <=> Returning(toSrv)
        /\ ReturnsOnce(toSrv) => ReturnsOnce(toSrv')
    BY <1>4, <1>5
  <2>4. LeaseIsKnown'
    BY <1>1, <2>1, <2>2, <2>3 DEF LeaseIsKnown
  <2>5. Typed'
    BY <1>1, <1>2, <2>1, <2>2 DEF Typed, client, buffer
  <2> QED  BY <2>2, <2>4, <2>5
<1> QED  BY <1>3, <1>4

LEMMA SidesGoAway == ASSUME IInv, err_rem_cli \/ ServerDies PROVE IInv'
<1> USE DEF IInv
<1>1. /\ UNCHANGED <<screen, shm, toCli, toSrv, client>>
      /\ listed' => listed
      /\ cli_shown' => cli_shown
      /\ alive' => (alive /\ ~ listed')
      /\ ~ listed' => ~ listed \/ (Gone /\ ~ cli_shown')
      /\ ~ listed => ~ cli_shown'
  BY DEF err_rem_cli, ServerDies, Sides
<1>2. Follows(toCli', toCli)
  BY <1>1, FollowsSame DEF Typed
<1>3. BufferState'
  BY <1>1, <1>2, StaysThere DEF client
<1>4. Sides'
  BY <1>1 DEF Sides, Gone, client
<1>5. SizeIsKept' /\ HidesAreRead' /\ LeaseIsKnown'
  BY <1>1 DEF SizeIsKept, HidesAreRead, LeaseIsKnown, client, buffer
<1> QED  BY <1>1, <1>3, <1>4, <1>5 DEF Typed, client, buffer

-----------------------------------------------------------------------------
(* The application reads.                                                  *)

LEMMA Reads ==
  ASSUME IInv, NEW type, Receives(type)
  PROVE  /\ ~ Gone /\ pc # "events" /\ toCli # <<>> /\ IsSeq(toCli) /\ Head(toCli).type = type
         /\ toCli' = Tail(toCli) /\ IsSeq(toCli') /\ UNCHANGED server /\ listed
         /\ HidesAreRead'
         /\ type \notin {"MAP", "PIXMAP", "SHOW"} =>
              /\ Follows(toCli', toCli) /\ ~ Mapped /\ ~ Painted
              /\ type = "HIDE" => ~ cli_shown /\ ~ Offered
<1> USE DEF IInv
<1>1. /\ pc \in {"poll", "wait"} /\ toCli # <<>> /\ Head(toCli).type = type
      /\ toCli' = Tail(toCli) /\ UNCHANGED server
  BY DEF Receives, Reading
<1>2. ~ Gone /\ pc # "events" /\ listed
  BY <1>1 DEF Gone, Sides
<1>3. IsSeq(toCli) /\ IsSeq(toCli')
  BY <1>1, SeqFacts DEF Typed
<1>4. HidesAreRead' /\ (type = "HIDE" => ~ cli_shown)
  BY <1>1, <1>3, NoHideTail DEF HidesAreRead, server
<1>5. ASSUME type \notin {"MAP", "PIXMAP", "SHOW"}
      PROVE  /\ Follows(toCli', toCli) /\ ~ Mapped /\ ~ Painted
             /\ type = "HIDE" => ~ Offered
  <2>1. ~ IsShowing(Head(toCli))
    BY <1>1, <1>5 DEF IsShowing
  <2>2. Follows(toCli', toCli)
    BY <1>1, <1>3, <2>1, FollowsTail
  <2>3. ~ Mapped /\ ~ Painted
    BY <1>1, <1>3, <2>1, TakeFacts DEF Mapped, Painted
  <2>4. ASSUME type = "HIDE", Offered PROVE FALSE
    <3>1. PICK k \in Nat, size \in Sizes : AllOnTheWay(toCli, k, size)
      BY <2>4 DEF Offered
    <3>2. k > 1
      BY <1>1, <1>3, <2>1, <3>1, TakeFacts
    <3>3. Head(toCli) = toCli[1] /\ 1 \in 1 .. Len(toCli)
      BY <1>1, <1>3, SeqFacts
    <3> QED  BY <1>1, <2>4, <3>1, <3>2, <3>3 DEF AllOnTheWay
  <2> QED  BY <2>2, <2>3, <2>4
<1> QED  BY <1>1, <1>2, <1>3, <1>4, <1>5

(* What is read says in which state the buffer is.                         *)
LEMMA ReadStages ==
  ASSUME IInv
  PROVE  /\ Receives("MAP") => Offered
         /\ Receives("SHOW") => Painted
<1> USE DEF IInv
<1>1. ASSUME NEW type \in {"MAP", "SHOW"}, Receives(type)
      PROVE  /\ toCli # <<>> /\ IsSeq(toCli) /\ Head(toCli).type = type
             /\ IsShowing(Head(toCli)) /\ ~ Unmapped /\ ~ Shown
  <2>1. toCli # <<>> /\ IsSeq(toCli) /\ Head(toCli).type = type
    BY <1>1, Reads
  <2>2. IsShowing(Head(toCli))
    BY <1>1, <2>1 DEF IsShowing
  <2>3. ~ Quiet(toCli)
    BY <2>1, <2>2, ReadFacts
  <2> QED  BY <2>1, <2>2, <2>3 DEF Unmapped, Shown
<1>2. ASSUME Receives("MAP") PROVE Offered
  <2>1. ~ Mapped /\ ~ Painted
    BY <1>1, <1>2, ReadFacts, Messages DEF Mapped, Painted
  <2> QED  BY <1>1, <1>2, <2>1 DEF BufferState
<1>3. ASSUME Receives("SHOW") PROVE Painted
  <2>1. \A k, size : ~ AllOnTheWay(toCli, k, size)
    BY <1>1, <1>3, ReadFacts, Messages
  <2>2. ~ Offered
    BY <2>1 DEF Offered
  <2>3. ~ Mapped
    BY <1>1, <1>3, ReadFacts, Messages DEF Mapped
  <2> QED  BY <1>1, <1>3, <2>2, <2>3 DEF BufferState
<1> QED  BY <1>2, <1>3

LEMMA map_bufferKeeps == ASSUME IInv, map_buffer PROVE IInv'
<1> USE DEF IInv
<1>1. /\ Receives("MAP") /\ map' = Head(toCli).val /\ Send(Msg("MAP"), pc)
      /\ UNCHANGED <<pixmap, shm_pixmap, visible, unmap_requested, sys_quit_requested, update_cookies,
                     evs, buf, cookie>>
  BY DEF map_buffer
<1>2. /\ ~ Gone /\ pc # "events" /\ toCli # <<>> /\ IsSeq(toCli) /\ Head(toCli).type = "MAP"
      /\ toCli' = Tail(toCli) /\ IsSeq(toCli') /\ UNCHANGED server /\ listed /\ HidesAreRead'
  BY <1>1, Reads
<1>3. IsShowing(Head(toCli))
  BY <1>2 DEF IsShowing
<1>4. Offered
  BY <1>1, ReadStages
<1>5. PICK k \in Nat, size \in Sizes : AllOnTheWay(toCli, k, size) /\ (listed => size = shm)
  BY <1>4 DEF Offered
<1>6. Head(toCli) = MsgOf("MAP", size) /\ LastTwo(toCli', size)
  BY <1>2, <1>3, <1>5, ReadFacts
<1>7. map' = size /\ map' = shm /\ map' # 0 /\ map' \in Sizes
  <2>1. map' = size
    BY <1>1, <1>6 DEF MsgOf
  <2> QED  BY <1>2, <1>5, <2>1, ProxyAssumption
<1>8. /\ IsSeq(toSrv') /\ (alive => toSrv' = Append(toSrv, Msg("MAP")))
      /\ pc' \in {pc, "killed"}
  BY <1>1, SendFacts
<1>9. DoesNotDraw' /\ ~ Has(evs, "stop")
  BY <1>1, <1>2, <1>4, <1>8, Reads DEF Offered, DoesNotDraw, Gone, Receives, Reading
<1>10. Mapped'
  BY <1>1, <1>6, <1>7, <1>9 DEF Mapped
<1>11. Lent /\ Lent'
  BY <1>2, <1>3, <1>7, ReadFacts DEF Lent
<1>12. LeaseIsKnown'
  BY <1>2, <1>8, <1>11, Messages, KnownWhenSent
<1>13. Typed'
  BY <1>1, <1>2, <1>7, <1>8 DEF Typed, server
<1>14. SizeIsKept' /\ Sides'
  BY <1>1, <1>2, <1>7, <1>8 DEF SizeIsKept, Sides, Gone, server
<1> QED  BY <1>2, <1>10, <1>12, <1>13, <1>14 DEF BufferState

(* A step that reads a message, and leaves the mapping as it is.           *)
LEMMA ReadingKeeps ==
  ASSUME IInv, ~ Gone, UNCHANGED <<server, toSrv, map>>, IsSeq(toCli'), HidesAreRead',
         BufferState', Lent' <=> Lent, pc' \in {pc, "killed"}, pc # "events",
         evs' \in Seq({"start", "stop", "quit"})
  PROVE  IInv'
<1> USE DEF IInv
<1>1. Typed'
  BY DEF Typed, server
<1>2. SizeIsKept' /\ Sides'
  BY DEF SizeIsKept, Sides, Gone, server
<1>3. LeaseIsKnown'
  BY KnownWhenKept DEF server
<1> QED  BY <1>1, <1>2, <1>3

LEMMA init_pixmapKeeps == ASSUME IInv, init_pixmap PROVE IInv'
<1> USE DEF IInv
<1>1. /\ Receives("PIXMAP")
      /\ map # 0 => shm_pixmap' = Head(toCli).val /\ pixels'
      /\ UNCHANGED <<toSrv, map, pixmap, visible, unmap_requested, sys_quit_requested, update_cookies,
                     evs, buf, pc, cookie>>
  BY DEF init_pixmap
<1>2. /\ ~ Gone /\ pc # "events" /\ toCli # <<>> /\ IsSeq(toCli) /\ Head(toCli).type = "PIXMAP"
      /\ toCli' = Tail(toCli) /\ IsSeq(toCli') /\ UNCHANGED server /\ HidesAreRead'
  BY <1>1, Reads
<1>3. IsShowing(Head(toCli))
  BY <1>2 DEF IsShowing
<1>4. Mapped
  <2>1. ~ Quiet(toCli)
    BY <1>2, <1>3, ReadFacts
  <2>2. ~ Offered
    <3>1. \A k, size : ~ AllOnTheWay(toCli, k, size)
      BY <1>2, <1>3, ReadFacts, Messages
    <3> QED  BY <3>1 DEF Offered
  <2>3. ~ Painted
    BY <1>2, <1>3, ReadFacts, Messages DEF Painted
  <2> QED  BY <2>1, <2>2, <2>3 DEF BufferState, Unmapped, Shown
<1>5. Head(toCli) = MsgOf("PIXMAP", map) /\ LastOne(toCli')
  BY <1>2, <1>3, <1>4, ReadFacts DEF Mapped
<1>6. HasPixels'
  BY <1>1, <1>4, <1>5 DEF HasPixels, Mapped, MsgOf
<1>7. Painted' /\ Lent /\ Lent'
  BY <1>1, <1>4, <1>5, <1>6 DEF Painted, Mapped, DoesNotDraw, Lent
<1> QED  BY <1>1, <1>2, <1>7, ReadingKeeps DEF BufferState, Typed

LEMMA VisibleKeeps == ASSUME IInv, Visible PROVE IInv'
<1> USE DEF IInv
<1>1. /\ Receives("SHOW") /\ pixmap' = "shm" /\ evs' = Append(evs, "start")
      /\ UNCHANGED <<toSrv, map, shm_pixmap, pixels, unmap_requested, sys_quit_requested,
                     update_cookies, buf, pc, cookie>>
  BY DEF Visible, Push
<1>2. /\ ~ Gone /\ pc # "events" /\ toCli # <<>> /\ IsSeq(toCli) /\ Head(toCli).type = "SHOW"
      /\ toCli' = Tail(toCli) /\ IsSeq(toCli') /\ UNCHANGED server /\ HidesAreRead'
  BY <1>1, Reads
<1>3. IsShowing(Head(toCli))
  BY <1>2 DEF IsShowing
<1>4. Painted
  BY <1>1, ReadStages
<1>5. Quiet(toCli')
  BY <1>2, <1>3, <1>4, ReadFacts DEF Painted
<1>6. evs' \in Seq({"start", "stop", "quit"})
  BY <1>1 DEF Typed
<1>7. StopsLast(evs)
  BY <1>4 DEF Painted, Has, StopsLast
<1>8. StopsLast(evs')
  BY <1>1, <1>4, <1>7, EventFacts DEF Painted, Typed
<1>9. Shown' /\ Lent /\ Lent'
  BY <1>1, <1>4, <1>5, <1>8 DEF Shown, Painted, HasPixels, Lent
<1> QED  BY <1>1, <1>2, <1>6, <1>9, ReadingKeeps DEF BufferState

(* An event is queued.                                                     *)
LEMMA PushFacts ==
  ASSUME Typed, NEW ev \in {"stop", "quit"}, Push(ev)
  PROVE  /\ evs' \in Seq({"start", "stop", "quit"})
         /\ Has(evs', "start") => Has(evs, "start")
         /\ ev = "quit" => (Has(evs', "stop") => Has(evs, "stop"))
         /\ StopsLast(evs) => StopsLast(evs')
<1>1. evs' = Append(evs, ev) /\ ev \in {"start", "stop", "quit"} /\ ev # "start"
  BY DEF Push
<1> QED  BY <1>1, EventFacts DEF Typed

LEMMA hiddenKeeps == ASSUME IInv, hidden PROVE IInv'
<1> USE DEF IInv
<1>1. Receives("HIDE") /\ Push("stop") /\ UNCHANGED <<toSrv, buffer, unmap_requested, buf, pc>>
  BY DEF hidden
<1>2. /\ ~ Gone /\ pc # "events" /\ IsSeq(toCli') /\ UNCHANGED server /\ HidesAreRead'
      /\ Follows(toCli', toCli) /\ ~ Mapped /\ ~ Painted /\ ~ Offered /\ ~ cli_shown
  BY <1>1, Reads
<1>3. /\ evs' \in Seq({"start", "stop", "quit"})
      /\ Has(evs', "start") => Has(evs, "start")
      /\ StopsLast(evs) => StopsLast(evs')
  BY <1>1, PushFacts
<1>4. BufferState' /\ (Lent' <=> Lent)
  <2>1. CASE Unmapped
    BY <1>1, <1>2, <1>3, <2>1 DEF Unmapped, DoesNotDraw, BufferState, Follows, Lent, buffer, server
  <2>2. CASE Shown
    BY <1>1, <1>2, <1>3, <2>2, StaysShown DEF Shown
  <2> QED  BY <1>2, <2>1, <2>2 DEF BufferState
<1> QED  BY <1>1, <1>2, <1>3, <1>4, ReadingKeeps DEF buffer

LEMMA unmap_bufferKeeps == ASSUME IInv, unmap_buffer PROVE IInv'
<1> USE DEF IInv
<1>1. /\ Receives("UNMAP") /\ UNCHANGED <<toSrv, buffer, buf, pc>>
      /\ \/ map = 0 /\ UNCHANGED <<unmap_requested, evs>>
         \/ map # 0 /\ Push("stop")
  BY DEF unmap_buffer
<1>2. /\ ~ Gone /\ pc # "events" /\ IsSeq(toCli') /\ UNCHANGED server /\ HidesAreRead'
      /\ Follows(toCli', toCli) /\ ~ Mapped /\ ~ Painted
  BY <1>1, Reads
<1>3. BufferState' /\ (Lent' <=> Lent) /\ evs' \in Seq({"start", "stop", "quit"})
  <2>1. CASE map = 0 /\ UNCHANGED <<unmap_requested, evs>>
    <3>1. BufferState' /\ (Lent' <=> Lent)
      BY <1>1, <1>2, <2>1, StaysThere DEF server
    <3> QED  BY <2>1, <3>1 DEF Typed
  <2>2. CASE map # 0 /\ Push("stop")
    <3>1. evs' \in Seq({"start", "stop", "quit"}) /\ (StopsLast(evs) => StopsLast(evs'))
      BY <2>2, PushFacts
    <3>2. Shown
      BY <1>2, <2>2 DEF BufferState, Unmapped, Offered
    <3> QED  BY <1>1, <1>2, <3>1, <3>2, StaysShown DEF Shown
  <2> QED  BY <1>1, <2>1, <2>2
<1> QED  BY <1>1, <1>2, <1>3, ReadingKeeps DEF buffer

LEMMA OthersKeep == ASSUME IInv, update_cookie_add \/ QuitRequested PROVE IInv'
<1> USE DEF IInv
<1>1. PICK type \in {"UPDATE", "EXIT"} : Receives(type)
  BY DEF update_cookie_add, QuitRequested
<1>2. /\ UNCHANGED <<toSrv, buffer, unmap_requested, buf, pc>>
      /\ UNCHANGED evs \/ Push("quit")
  BY DEF update_cookie_add, QuitRequested
<1>3. /\ ~ Gone /\ pc # "events" /\ IsSeq(toCli') /\ UNCHANGED server /\ HidesAreRead'
      /\ Follows(toCli', toCli)
  BY <1>1, Reads
<1>4. /\ evs' \in Seq({"start", "stop", "quit"})
      /\ Has(evs', "start") => Has(evs, "start")
      /\ Has(evs', "stop") => Has(evs, "stop")
      /\ StopsLast(evs) => StopsLast(evs')
  BY <1>2, PushFacts DEF Typed
<1>5. BufferState' /\ (Lent' <=> Lent)
  BY <1>2, <1>3, <1>4, StaysThere DEF server
<1> QED  BY <1>2, <1>3, <1>4, <1>5, ReadingKeeps DEF buffer

LEMMA ConnectionClosedKeeps == ASSUME IInv, ConnectionClosed PROVE IInv'
<1> USE DEF IInv
<1>1. /\ pc \in {"poll", "wait"} /\ pc' \in {pc, "killed"}
      /\ UNCHANGED <<server, toCli, toSrv, buffer, unmap_requested, buf>>
      /\ UNCHANGED evs \/ Push("quit")
  BY DEF ConnectionClosed, Reading
<1>2. /\ evs' \in Seq({"start", "stop", "quit"})
      /\ Has(evs', "start") => Has(evs, "start")
      /\ Has(evs', "stop") => Has(evs, "stop")
      /\ StopsLast(evs) => StopsLast(evs')
  BY <1>1, PushFacts DEF Typed
<1>3. Follows(toCli', toCli) /\ IsSeq(toCli')
  BY <1>1, FollowsSame DEF Typed
<1>4. BufferState' /\ (Lent' <=> Lent)
  BY <1>1, <1>2, <1>3, StaysThere DEF server
<1>5. HidesAreRead' /\ ~ Gone
  BY <1>1 DEF HidesAreRead, server, Gone
<1> QED  BY <1>1, <1>2, <1>3, <1>4, <1>5, ReadingKeeps DEF buffer

-----------------------------------------------------------------------------
(* The application's loop.                                                 *)

LEMMA ActingKeeps ==
  ASSUME IInv, ~ Gone, UNCHANGED <<server, toCli>>, evs' \in Seq({"start", "stop", "quit"}),
         IsSeq(toSrv'), map' \in {map, 0}, BufferState', LeaseIsKnown',
         pc' = "events" => evs' # <<>>
  PROVE  IInv'
<1> USE DEF IInv
<1>1. Typed'
  BY DEF Typed, server
<1>2. SizeIsKept' /\ Sides' /\ HidesAreRead'
  BY DEF SizeIsKept, Sides, HidesAreRead, server
<1> QED  BY <1>1, <1>2

LEMMA PollDoneKeeps == ASSUME IInv, PollDone PROVE IInv'
<1> USE DEF IInv
<1>1. /\ pc = "poll" /\ evs # <<>> /\ pc' = "events"
      /\ UNCHANGED <<server, toCli, toSrv, buffer, unmap_requested, evs, buf>>
  BY DEF PollDone
<1>2. Follows(toCli', toCli)
  BY <1>1, FollowsSame DEF Typed
<1>3. BufferState' /\ (Lent' <=> Lent)
  BY <1>1, <1>2, StaysThere DEF server
<1>4. LeaseIsKnown'
  BY <1>1, <1>3, KnownWhenKept DEF server
<1> QED  BY <1>1, <1>3, <1>4, ActingKeeps DEF Typed, Gone, buffer

LEMMA update_cookie_clearKeeps == ASSUME IInv, update_cookie_clear PROVE IInv'
<1> USE DEF IInv
<1>1. /\ pc = "wait" /\ pc' = Loop(evs)
      /\ UNCHANGED <<server, toCli, toSrv, buffer, evs>>
  BY DEF update_cookie_clear
<1>2. Shown /\ Follows(toCli', toCli)
  BY <1>1, FollowsSame DEF BufferState, Unmapped, Offered, Mapped, Painted, DoesNotDraw, Typed
<1>3. BufferState' /\ Lent /\ Lent'
  BY <1>1, <1>2, StaysShown DEF Shown
<1>4. LeaseIsKnown'
  BY <1>1, <1>3, KnownWhenKept DEF server
<1>5. pc' = "events" => evs' # <<>>
  BY <1>1 DEF Loop
<1> QED  BY <1>1, <1>3, <1>4, <1>5, ActingKeeps DEF Typed, Gone, buffer

LEMMA HandlesFacts ==
  ASSUME IInv, NEW ev, Handles(ev)
  PROVE  /\ pc = "events" /\ ~ Gone /\ listed /\ Has(evs, ev) /\ evs' \in Seq({"start", "stop", "quit"})
         /\ evs' = Tail(evs) /\ UNCHANGED <<server, toCli>> /\ Follows(toCli', toCli)
         /\ \A y : Has(evs', y) => Has(evs, y)
         /\ StopsLast(evs) => StopsLast(evs') /\ (ev = "stop" => ~ Has(evs', "start"))
         /\ Loop(evs') = "events" => evs' # <<>>
         /\ Loop(evs') = "poll" => \A y : ~ Has(evs', y)
         /\ Loop(evs') \in {"poll", "events"}
<1> USE DEF IInv
<1>1. /\ pc = "events" /\ evs # <<>> /\ Head(evs) = ev /\ evs' = Tail(evs)
      /\ UNCHANGED <<server, toCli>>
  BY DEF Handles, Sides
<1>2. ~ Gone /\ listed
  BY <1>1 DEF Gone, Sides
<1>3. /\ Has(evs, ev)
      /\ \A y : Has(evs', y) => Has(evs, y)
      /\ StopsLast(evs) => StopsLast(evs') /\ (ev = "stop" => ~ Has(evs', "start"))
  BY <1>1, EventFacts DEF Typed
<1>4. evs' \in Seq({"start", "stop", "quit"})
  BY <1>1 DEF Typed
<1>5. Follows(toCli', toCli)
  BY <1>1, FollowsSame DEF Typed
<1>6. /\ Loop(evs') = "events" => evs' # <<>>
      /\ Loop(evs') = "poll" => \A y : ~ Has(evs', y)
      /\ Loop(evs') \in {"poll", "events"}
  BY DEF Loop, Has
<1> QED  BY <1>1, <1>2, <1>3, <1>4, <1>5, <1>6

LEMMA proxy_render_stoppedKeeps == ASSUME IInv, proxy_render_stopped PROVE IInv'
<1> USE DEF IInv
<1>1. /\ Handles("stop") /\ ~ buf'
      /\ \/ /\ unmap_requested /\ ~ unmap_requested' /\ map' = 0
            /\ Send(Msg("UNMAP"), Loop(evs'))
         \/ /\ ~ unmap_requested /\ pc' = Loop(evs')
            /\ UNCHANGED <<unmap_requested, map, pixmap, pixels, toSrv>>
      /\ UNCHANGED shm_pixmap
  <2>1. evs' = Tail(evs)
    BY DEF proxy_render_stopped, Handles
  <2> QED  BY <2>1 DEF proxy_render_stopped
<1>2. /\ pc = "events" /\ ~ Gone /\ listed /\ Has(evs, "stop") /\ evs' \in Seq({"start", "stop", "quit"})
      /\ UNCHANGED <<server, toCli>> /\ Follows(toCli', toCli)
      /\ \A y : Has(evs', y) => Has(evs, y)
      /\ StopsLast(evs) => StopsLast(evs') /\ ~ Has(evs', "start")
      /\ Loop(evs') = "events" => evs' # <<>>
      /\ Loop(evs') = "poll" => \A y : ~ Has(evs', y)
      /\ Loop(evs') \in {"poll", "events"}
  BY <1>1, HandlesFacts
<1>3. CASE unmap_requested
  <2>1. ~ unmap_requested' /\ map' = 0 /\ Send(Msg("UNMAP"), Loop(evs'))
    BY <1>1, <1>3
  <2>2. Shown
    BY <1>3 DEF BufferState, Unmapped, Offered, Mapped, Painted, DoesNotDraw
  <2>3. /\ IsSeq(toSrv') /\ (alive => toSrv' = Append(toSrv, Msg("UNMAP")))
        /\ pc' \in {Loop(evs'), "killed"}
    BY <2>1, SendFacts
  <2>4. Quiet(toCli')
    BY <1>2, <2>2 DEF Shown, Follows
  <2>5. DoesNotDraw'
    <3>1. pc' # "wait"
      BY <1>2, <2>3
    <3>2. ~ Has(evs', "start")
      BY <1>2, <2>2 DEF Shown
    <3> QED  BY <1>1, <2>1, <3>1, <3>2 DEF DoesNotDraw
  <2>6. Unmapped'
    BY <1>2, <2>1, <2>3, <2>4, <2>5 DEF Unmapped
  <2>7. Lent /\ ~ Lent'
    BY <2>1, <2>2, <2>4 DEF Lent, Shown, HasPixels
  <2>8. LeaseIsKnown'
    <3> SUFFICES ASSUME alive, listed PROVE LeaseIsKnown'
      BY <1>2 DEF LeaseIsKnown, server
    <3>1. (cli_shown \/ owes) /\ ~ Returning(toSrv)
      BY <2>7 DEF LeaseIsKnown
    <3>2. Returning(toSrv') /\ ReturnsOnce(toSrv')
      BY <2>3, <3>1, Messages, SentFacts DEF Typed
    <3> QED  BY <1>2, <2>7, <3>1, <3>2 DEF LeaseIsKnown, server
  <2> QED  BY <1>2, <2>1, <2>3, <2>6, <2>8, ActingKeeps DEF BufferState
<1>4. CASE ~ unmap_requested
  <2>1. pc' = Loop(evs') /\ UNCHANGED <<unmap_requested, buffer, toSrv>>
    BY <1>1, <1>4 DEF buffer
  <2>2. BufferState' /\ (Lent' <=> Lent)
    BY <1>1, <1>2, <2>1, StaysThere DEF server
  <2>3. LeaseIsKnown'
    BY <1>2, <2>1, <2>2, KnownWhenKept DEF server
  <2>4. IsSeq(toSrv') /\ map' = map
    BY <2>1 DEF Typed, buffer
  <2> QED  BY <1>2, <2>1, <2>2, <2>3, <2>4, ActingKeeps
<1> QED  BY <1>3, <1>4

LEMMA UpdateFacts ==
  ASSUME Typed, NEW queued, proxy_update_rect(queued)
  PROVE  /\ IsSeq(toSrv')
         /\ \E msg : msg.type # "UNMAP" /\ (alive => toSrv' \in {toSrv, Append(toSrv, msg)})
         /\ pc' \in {"wait", "killed", Loop(queued)}
<1>1. CASE visible
  <2>1. Send(MsgOf("UPDATE", NewCookie), "wait")
    BY <1>1 DEF proxy_update_rect
  <2>2. MsgOf("UPDATE", NewCookie).type # "UNMAP"
    BY Messages
  <2> QED  BY <2>1, <2>2, SendFacts
<1>2. CASE ~ visible
  <2>1. UNCHANGED toSrv /\ pc' = Loop(queued)
    BY <1>2 DEF proxy_update_rect
  <2>2. Msg("MAP").type # "UNMAP"
    BY Messages
  <2> QED  BY <2>1, <2>2 DEF Typed
<1> QED  BY <1>1, <1>2

LEMMA RenderStartKeeps == ASSUME IInv, RenderStart PROVE IInv'
<1> USE DEF IInv
<1>1. /\ Handles("start") /\ UNCHANGED buffer /\ proxy_update_rect(evs')
  <2>1. evs' = Tail(evs)
    BY DEF RenderStart, Handles
  <2> QED  BY <2>1 DEF RenderStart
<1>2. /\ ~ Gone /\ Has(evs, "start") /\ evs' \in Seq({"start", "stop", "quit"})
      /\ UNCHANGED <<server, toCli>> /\ Follows(toCli', toCli)
      /\ StopsLast(evs) => StopsLast(evs')
      /\ Loop(evs') = "events" => evs' # <<>>
  BY <1>1, HandlesFacts
<1>3. Shown
  BY <1>2 DEF BufferState, Unmapped, Offered, Mapped, Painted, DoesNotDraw
<1>4. BufferState' /\ Lent /\ Lent'
  BY <1>1, <1>2, <1>3, StaysShown DEF Shown
<1>5. PICK msg : msg.type # "UNMAP" /\ (alive => toSrv' \in {toSrv, Append(toSrv, msg)})
  BY <1>1, UpdateFacts
<1>6. LeaseIsKnown'
  BY <1>2, <1>4, <1>5, KnownWhenSent
<1>7. IsSeq(toSrv') /\ pc' \in {"wait", "killed", Loop(evs')}
  BY <1>1, UpdateFacts
<1> QED  BY <1>1, <1>2, <1>4, <1>6, <1>7, ActingKeeps DEF buffer

LEMMA RedrawKeeps == ASSUME IInv, Redraw PROVE IInv'
<1> USE DEF IInv
<1>1. /\ pc = "poll" /\ evs = <<>> /\ UNCHANGED <<server, toCli, buffer, unmap_requested, evs, buf>>
      /\ (buf /\ proxy_update_rect(<<>>)) \/ (~ buf /\ pc' = "crashed" /\ UNCHANGED toSrv)
  BY DEF Redraw
<1>2. Follows(toCli', toCli)
  BY <1>1, FollowsSame DEF Typed
<1>3. CASE buf /\ proxy_update_rect(<<>>)
  <2>1. Shown
    BY <1>3 DEF BufferState, Unmapped, Offered, Mapped, Painted, DoesNotDraw
  <2>2. BufferState' /\ Lent /\ Lent'
    BY <1>1, <1>2, <2>1, StaysShown DEF Shown
  <2>3. PICK msg : msg.type # "UNMAP" /\ (alive => toSrv' \in {toSrv, Append(toSrv, msg)})
    BY <1>3, UpdateFacts
  <2>4. LeaseIsKnown'
    BY <1>1, <2>2, <2>3, KnownWhenSent
  <2>5. IsSeq(toSrv') /\ pc' # "events"
    BY <1>3, UpdateFacts DEF Loop
  <2> QED  BY <1>1, <2>2, <2>4, <2>5, ActingKeeps DEF Typed, Gone, buffer
<1>4. CASE ~ buf /\ pc' = "crashed" /\ UNCHANGED toSrv
  <2>1. BufferState' /\ (Lent' <=> Lent)
    BY <1>1, <1>2, <1>4, StaysThere DEF server
  <2>2. LeaseIsKnown'
    BY <1>1, <1>4, <2>1, KnownWhenKept DEF server
  <2> QED  BY <1>1, <1>4, <2>1, <2>2, ActingKeeps DEF Typed, Gone, buffer
<1> QED  BY <1>1, <1>3, <1>4

LEMMA QuitKeeps == ASSUME IInv, Quit PROVE IInv'
<1> USE DEF IInv
<1>1. /\ Handles("quit") /\ pc' = "left" /\ toSrv' = (IF alive THEN Append(toSrv, Msg("EXIT")) ELSE toSrv)
      /\ UNCHANGED <<buffer, unmap_requested, buf>>
  BY DEF Quit
<1>2. /\ ~ Gone /\ evs' \in Seq({"start", "stop", "quit"})
      /\ UNCHANGED <<server, toCli>> /\ Follows(toCli', toCli)
      /\ \A y : Has(evs', y) => Has(evs, y)
      /\ StopsLast(evs) => StopsLast(evs')
  BY <1>1, HandlesFacts
<1>3. BufferState' /\ (Lent' <=> Lent)
  BY <1>1, <1>2, StaysThere DEF server
<1>4. IsSeq(toSrv')
  BY <1>1, SeqFacts DEF Typed
<1>5. LeaseIsKnown'
  BY <1>1, <1>2, <1>3, Messages, KnownWhenSent
<1> QED  BY <1>1, <1>2, <1>3, <1>4, <1>5, ActingKeeps DEF buffer

-----------------------------------------------------------------------------
(* The inductive invariant.                                                *)

LEMMA InitEstablishes == Init => IInv
<1> SUFFICES ASSUME Init PROVE IInv
  OBVIOUS
<1> USE DEF Init
<1>1. IsSeq(<<>>) /\ Len(<<>>) = 0
  <2>1. <<>> \in Seq({})
    OBVIOUS
  <2> QED  BY <2>1 DEF IsSeq
<1>2. Typed
  BY <1>1 DEF Typed
<1>3. Unmapped
  BY DEF Unmapped, Quiet, ShowsAt, DoesNotDraw, Has
<1>4. SizeIsKept /\ HidesAreRead /\ Sides
  BY DEF SizeIsKept, HidesAreRead, Sides
<1>5. LeaseIsKnown
  BY DEF LeaseIsKnown, Lent, Quiet, ShowsAt, Returning, ReturnsOnce
<1> QED  BY <1>2, <1>3, <1>4, <1>5 DEF IInv, BufferState

LEMMA StepPreserves == IInv /\ [Next]_vars => IInv'
<1> SUFFICES ASSUME IInv, [Next]_vars PROVE IInv'
  OBVIOUS
<1>1. CASE UNCHANGED vars
  BY <1>1 DEF vars, server, client, buffer, IInv, Typed, BufferState, Unmapped, Offered, Mapped, Painted,
     Shown, DoesNotDraw, HasPixels, SizeIsKept, HidesAreRead, LeaseIsKnown, Lent, Sides, Gone
<1>2. CASE Server
  BY <1>2, show_clientKeeps, hide_clientKeeps, resize_shown_clientKeeps, RequestExitKeeps,
     client_eventKeeps, SidesGoAway DEF Server
<1>3. CASE proxy_recv_events
  BY <1>3, map_bufferKeeps, init_pixmapKeeps, VisibleKeeps, hiddenKeeps, unmap_bufferKeeps, OthersKeep,
     ConnectionClosedKeeps DEF proxy_recv_events
<1>4. CASE PollDone \/ update_cookie_clear \/ HandlesEvents \/ Redraw
  BY <1>4, PollDoneKeeps, update_cookie_clearKeeps, proxy_render_stoppedKeeps, RenderStartKeeps, QuitKeeps,
     RedrawKeeps DEF HandlesEvents
<1> QED  BY <1>1, <1>2, <1>3, <1>4 DEF Next

(* Every reachable state is one of the five, and both sides know which.    *)
THEOREM InductiveInvariant == Spec => []IInv
  BY InitEstablishes, StepPreserves, PTL DEF Spec

-----------------------------------------------------------------------------
(* What the application knows of its buffer. While it is visible and has a *)
(* pixmap it draws, or will be told to; a stop event that takes the buffer *)
(* from it is in the queue as long as it owes the answer; and behind each  *)
(* HIDE there is an UNMAP.                                                 *)

Comes(q, type) == \E i \in 1 .. Len(q) : q[i].type = type
UnmapsFollow(q) == \A i \in 1 .. Len(q) : q[i].type = "HIDE" => \E j \in 1 .. Len(q) : i < j /\ q[j].type = "UNMAP"

KnowsItsBuffer ==
  /\ UnmapsFollow(toCli)
  /\ pixmap = "shm" => map # 0
  /\ ~ Gone => /\ unmap_requested => Has(evs, "stop")
               /\ pixmap = "shm" /\ visible => /\ buf \/ Has(evs, "start")
                                               /\ Has(evs, "stop") => unmap_requested
               /\ pixmap = "shm" /\ ~ visible => unmap_requested \/ Comes(toCli, "UNMAP")
  /\ pc = "crashed" => ~ visible /\ Comes(toCli, "UNMAP")

LEMMA MoreFollows ==
  ASSUME NEW q, IsSeq(q), NEW S, NEW r \in Seq(S), UnmapsFollow(q), UnmapsFollow(r)
  PROVE  /\ UnmapsFollow(q \o r)
         /\ \A type : Comes(q, type) => Comes(q \o r, type)
<1>1. PICK T : q \in Seq(T)
  BY DEF IsSeq
<1> DEFINE U == S \cup T
           c == q \o r
<1>2. q \in Seq(U) /\ r \in Seq(U) /\ Len(q) \in Nat /\ Len(r) \in Nat
  BY <1>1
<1>3. /\ Len(c) = Len(q) + Len(r)
      /\ \A i \in 1 .. Len(q) + Len(r) : c[i] = IF i <= Len(q) THEN q[i] ELSE r[i - Len(q)]
  <2> HIDE DEF U
  <2> QED  BY <1>2, ConcatProperties, Zenon
<1> HIDE DEF c
<1>4. \A i \in 1 .. Len(q) : i \in 1 .. Len(c) /\ c[i] = q[i]
  BY <1>2, <1>3
<1>5. \A i \in 1 .. Len(r) : i + Len(q) \in 1 .. Len(c) /\ c[i + Len(q)] = r[i]
  <2> SUFFICES ASSUME NEW i \in 1 .. Len(r)
               PROVE  i + Len(q) \in 1 .. Len(c) /\ c[i + Len(q)] = r[i]
    OBVIOUS
  <2>1. i + Len(q) \in 1 .. Len(q) + Len(r) /\ ~ (i + Len(q) <= Len(q)) /\ (i + Len(q)) - Len(q) = i
    BY <1>2
  <2> QED  BY <1>3, <2>1
<1>6. UnmapsFollow(c)
  <2> SUFFICES ASSUME NEW i \in 1 .. Len(c), c[i].type = "HIDE"
               PROVE  \E j \in 1 .. Len(c) : i < j /\ c[j].type = "UNMAP"
    BY DEF UnmapsFollow
  <2>1. CASE i <= Len(q)
    <3>1. i \in 1 .. Len(q) /\ q[i].type = "HIDE"
      BY <1>2, <1>3, <1>4, <2>1
    <3>2. PICK j \in 1 .. Len(q) : i < j /\ q[j].type = "UNMAP"
      BY <3>1 DEF UnmapsFollow
    <3> QED  BY <1>4, <3>2
  <2>2. CASE ~ (i <= Len(q))
    <3>1. i - Len(q) \in 1 .. Len(r) /\ r[i - Len(q)].type = "HIDE"
      BY <1>2, <1>3, <2>2
    <3>2. PICK j \in 1 .. Len(r) : i - Len(q) < j /\ r[j].type = "UNMAP"
      BY <3>1 DEF UnmapsFollow
    <3>3. j + Len(q) \in 1 .. Len(c) /\ i < j + Len(q) /\ c[j + Len(q)].type = "UNMAP"
      BY <1>2, <1>5, <3>1, <3>2
    <3> QED  BY <3>3
  <2> QED  BY <2>1, <2>2
<1>7. \A type : Comes(q, type) => Comes(c, type)
  BY <1>4 DEF Comes
<1> QED  BY <1>6, <1>7 DEF c

LEMMA OneMoreFollows ==
  ASSUME NEW q, IsSeq(q), NEW m, m.type # "HIDE", UnmapsFollow(q)
  PROVE  /\ UnmapsFollow(Append(q, m))
         /\ \A type : Comes(q, type) => Comes(Append(q, m), type)
<1>1. /\ Len(q) \in Nat /\ Len(Append(q, m)) = Len(q) + 1 /\ Append(q, m)[Len(q) + 1] = m
      /\ \A i \in 1 .. Len(q) : Append(q, m)[i] = q[i]
  BY SeqFacts
<1> DEFINE r == Append(q, m)
<1> HIDE DEF r
<1>2. /\ \A i \in 1 .. Len(r) : i \in 1 .. Len(q) \/ i = Len(q) + 1
      /\ \A i \in 1 .. Len(q) : i \in 1 .. Len(r)
  BY <1>1 DEF r
<1>3. UnmapsFollow(r)
  BY <1>1, <1>2 DEF UnmapsFollow, r
<1>4. \A type : Comes(q, type) => Comes(r, type)
  BY <1>1, <1>2 DEF Comes, r
<1> QED  BY <1>3, <1>4 DEF r

LEMMA OneFewerFollows ==
  ASSUME NEW q, IsSeq(q), q # <<>>, UnmapsFollow(q)
  PROVE  /\ UnmapsFollow(Tail(q))
         /\ Head(q).type = "HIDE" => Comes(Tail(q), "UNMAP")
         /\ \A type : Head(q).type # type /\ Comes(q, type) => Comes(Tail(q), type)
<1> DEFINE r == Tail(q)
<1>1. /\ Len(q) \in Nat /\ Len(q) > 0 /\ Len(r) = Len(q) - 1 /\ Head(q) = q[1]
      /\ \A i \in 1 .. Len(q) - 1 : r[i] = q[i + 1]
  BY SeqFacts
<1> HIDE DEF r
<1>2. \A i \in 1 .. Len(r) : i + 1 \in 1 .. Len(q) /\ r[i] = q[i + 1]
  BY <1>1
<1>3. \A i \in 1 .. Len(q) : i = 1 \/ (i - 1 \in 1 .. Len(r) /\ r[i - 1] = q[i])
  BY <1>1
<1>4. UnmapsFollow(r)
  <2> SUFFICES ASSUME NEW i \in 1 .. Len(r), r[i].type = "HIDE"
               PROVE  \E j \in 1 .. Len(r) : i < j /\ r[j].type = "UNMAP"
    BY DEF UnmapsFollow
  <2>1. PICK j \in 1 .. Len(q) : i + 1 < j /\ q[j].type = "UNMAP"
    BY <1>2 DEF UnmapsFollow
  <2>2. j - 1 \in 1 .. Len(r) /\ i < j - 1 /\ r[j - 1].type = "UNMAP"
    BY <1>1, <1>3, <2>1
  <2> QED  BY <2>2
<1>5. ASSUME Head(q).type = "HIDE" PROVE Comes(r, "UNMAP")
  <2>1. 1 \in 1 .. Len(q) /\ q[1].type = "HIDE"
    BY <1>1, <1>5
  <2>2. PICK j \in 1 .. Len(q) : 1 < j /\ q[j].type = "UNMAP"
    BY <2>1 DEF UnmapsFollow
  <2>3. j - 1 \in 1 .. Len(r) /\ r[j - 1].type = "UNMAP"
    BY <1>3, <2>2
  <2> QED  BY <2>3 DEF Comes
<1>6. \A type : Head(q).type # type /\ Comes(q, type) => Comes(r, type)
  BY <1>1, <1>3 DEF Comes
<1> QED  BY <1>4, <1>5, <1>6 DEF r

LEMMA KnownAtFirst == Init => KnowsItsBuffer
  BY DEF Init, KnowsItsBuffer, UnmapsFollow

(* The server only adds to the messages, and a HIDE has its UNMAP.         *)
LEMMA ServerKeepsKnown == ASSUME IInv, KnowsItsBuffer, Server PROVE KnowsItsBuffer'
<1> USE DEF IInv
<1>1. UNCHANGED client
  BY DEF Server, show_client, hide_client, resize_shown_client, RequestExit, client_event, err_rem_cli,
         ServerDies
<1>2. IsSeq(toCli) /\ UnmapsFollow(toCli)
  BY DEF Typed, KnowsItsBuffer
<1>3. ASSUME UnmapsFollow(toCli'), \A type : Comes(toCli, type) => Comes(toCli', type)
      PROVE  KnowsItsBuffer'
  BY <1>1, <1>3 DEF KnowsItsBuffer, client, buffer, Gone
<1>4. ASSUME NEW m, m.type # "HIDE", toCli' = Append(toCli, m)
      PROVE  KnowsItsBuffer'
  BY <1>2, <1>3, <1>4, OneMoreFollows
<1>5. ASSUME NEW size, toCli' = toCli \o ShowMsgs(size)
      PROVE  KnowsItsBuffer'
  <2>1. ShowMsgs(size) \in Seq({MsgOf("MAP", size), MsgOf("PIXMAP", size), Msg("SHOW")})
    BY DEF ShowMsgs
  <2>2. UnmapsFollow(ShowMsgs(size))
    BY DEF UnmapsFollow, ShowMsgs, MsgOf, Msg
  <2> QED  BY <1>2, <1>3, <1>5, <2>1, <2>2, MoreFollows
<1>6. ASSUME UNCHANGED toCli PROVE KnowsItsBuffer'
  BY <1>2, <1>3, <1>6
<1>7. CASE show_client
  BY <1>5, <1>7 DEF show_client
<1>8. CASE hide_client
  <2> DEFINE r == <<Msg("HIDE"), Msg("UNMAP")>>
  <2>1. r \in Seq({Msg("HIDE"), Msg("UNMAP")}) /\ toCli' = toCli \o r
    BY <1>8 DEF hide_client
  <2>2. UnmapsFollow(r)
    <3>1. Len(r) = 2 /\ r[1].type = "HIDE" /\ r[2].type = "UNMAP"
      BY DEF Msg
    <3> QED  BY <3>1 DEF UnmapsFollow
  <2> HIDE DEF r
  <2> QED  BY <1>2, <1>3, <2>1, <2>2, MoreFollows
<1>9. CASE resize_shown_client
  BY <1>4, <1>6, <1>9, Messages DEF resize_shown_client
<1>10. CASE RequestExit
  BY <1>4, <1>10, Messages DEF RequestExit
<1>11. CASE client_event
  BY <1>4, <1>5, <1>6, <1>11 DEF client_event, on_unmap, shm_update
<1>12. CASE err_rem_cli \/ ServerDies
  BY <1>6, <1>12 DEF err_rem_cli, ServerDies
<1> QED  BY <1>7, <1>8, <1>9, <1>10, <1>11, <1>12 DEF Server

(* What is left of the messages when one was read.                         *)
LEMMA ReadsKnown ==
  ASSUME IInv, KnowsItsBuffer, NEW t, Receives(t)
  PROVE  /\ ~ Gone /\ pc \in {"poll", "wait"} /\ UnmapsFollow(toCli')
         /\ t = "HIDE" => Comes(toCli', "UNMAP")
         /\ t # "UNMAP" /\ Comes(toCli, "UNMAP") => Comes(toCli', "UNMAP")
<1>1. /\ toCli # <<>> /\ Head(toCli).type = t /\ toCli' = Tail(toCli) /\ pc \in {"poll", "wait"}
  BY DEF Receives, Reading
<1>2. IsSeq(toCli) /\ UnmapsFollow(toCli)
  BY DEF IInv, Typed, KnowsItsBuffer
<1> QED  BY <1>1, <1>2, OneFewerFollows DEF Gone

LEMMA PushKnown ==
  ASSUME IInv, NEW e \in {"start", "stop", "quit"}, Push(e)
  PROVE  /\ \A y : Has(evs, y) => Has(evs', y)
         /\ Has(evs', e)
         /\ \A y : y # e /\ Has(evs', y) => Has(evs, y)
BY EventFacts DEF Push, IInv, Typed

LEMMA MessagesKeepKnown == ASSUME IInv, KnowsItsBuffer, proxy_recv_events PROVE KnowsItsBuffer'
<1>1. CASE map_buffer
  <2>1. Receives("MAP") /\ UNCHANGED <<pixmap, visible, unmap_requested, evs, buf>>
    BY <1>1 DEF map_buffer
  <2>2. map = 0
    BY <2>1, ReadStages DEF Offered
  <2>3. pixmap' # "shm"
    BY <2>1, <2>2 DEF KnowsItsBuffer
  <2>4. pc' \in {pc, "killed"}
    BY <1>1 DEF map_buffer, Send
  <2> QED  BY <2>1, <2>3, <2>4, ReadsKnown DEF KnowsItsBuffer, Gone
<1>2. CASE init_pixmap \/ update_cookie_add
  <2>1. PICK t \in {"PIXMAP", "UPDATE"} : Receives(t)
    BY <1>2 DEF init_pixmap, update_cookie_add
  <2>2. UNCHANGED <<map, pixmap, visible, unmap_requested, evs, buf, pc>>
    BY <1>2 DEF init_pixmap, update_cookie_add, buffer
  <2> QED  BY <2>1, <2>2, ReadsKnown DEF KnowsItsBuffer, Gone
<1>3. CASE Visible
  <2>1. Receives("SHOW") /\ visible' /\ Push("start") /\ UNCHANGED <<map, unmap_requested, buf, pc>>
    BY <1>3 DEF Visible
  <2>2. map # 0 /\ ~ Has(evs, "stop")
    BY <2>1, ReadStages DEF Painted, HasPixels
  <2>3. Has(evs', "start") /\ ~ Has(evs', "stop")
    BY <2>1, <2>2, PushKnown
  <2>4. ~ unmap_requested
    BY <2>1, <2>2, ReadsKnown DEF KnowsItsBuffer
  <2> QED  BY <2>1, <2>2, <2>3, <2>4, ReadsKnown DEF KnowsItsBuffer, Gone
<1>4. CASE hidden
  <2>1. Receives("HIDE") /\ ~ visible' /\ Push("stop") /\ UNCHANGED <<buffer, unmap_requested, buf, pc>>
    BY <1>4 DEF hidden
  <2>2. Has(evs', "stop")
    BY <2>1, PushKnown
  <2> QED  BY <2>1, <2>2, ReadsKnown DEF KnowsItsBuffer, Gone, buffer
<1>5. CASE unmap_buffer
  <2>1. Receives("UNMAP") /\ UNCHANGED <<buffer, visible, buf, pc>>
    BY <1>5 DEF unmap_buffer
  <2>2. CASE map = 0 /\ UNCHANGED <<unmap_requested, evs>>
    BY <2>1, <2>2, ReadsKnown DEF KnowsItsBuffer, Gone, buffer
  <2>3. CASE map # 0 /\ unmap_requested' /\ Push("stop")
    <3>1. Has(evs', "stop") /\ (Has(evs, "start") => Has(evs', "start"))
      BY <2>3, PushKnown
    <3> QED  BY <2>1, <2>3, <3>1, ReadsKnown DEF KnowsItsBuffer, Gone, buffer
  <2> QED  BY <1>5, <2>2, <2>3 DEF unmap_buffer
<1>6. CASE QuitRequested
  <2>1. Receives("EXIT") /\ Push("quit") /\ UNCHANGED <<buffer, visible, unmap_requested, buf, pc>>
    BY <1>6 DEF QuitRequested
  <2>2. \A y \in {"start", "stop"} : Has(evs', y) <=> Has(evs, y)
    BY <2>1, PushKnown
  <2> QED  BY <2>1, <2>2, ReadsKnown DEF KnowsItsBuffer, Gone, buffer
<1>7. CASE ConnectionClosed
  <2>1. /\ pc \in {"poll", "wait"} /\ pc' \in {pc, "killed"}
        /\ UNCHANGED <<toCli, buffer, visible, unmap_requested, buf>>
        /\ UNCHANGED evs \/ Push("quit")
    BY <1>7 DEF ConnectionClosed, Reading
  <2>2. \A y \in {"start", "stop"} : Has(evs', y) <=> Has(evs, y)
    <3>1. CASE UNCHANGED evs
      BY <3>1 DEF Has
    <3>2. CASE Push("quit")
      BY <3>2, PushKnown
    <3> QED  BY <2>1, <3>1, <3>2
  <2> QED  BY <2>1, <2>2 DEF KnowsItsBuffer, Gone, buffer
<1> QED  BY <1>1, <1>2, <1>3, <1>4, <1>5, <1>6, <1>7 DEF proxy_recv_events

(* The other events stay in the queue when one is handled.                 *)
LEMMA OthersStay ==
  ASSUME IInv, NEW ev, Handles(ev)
  PROVE  \A y : y # ev /\ Has(evs, y) => Has(evs', y)
<1>1. evs # <<>> /\ Head(evs) = ev /\ evs' = Tail(evs) /\ IsSeq(evs)
  BY DEF IInv, Sides, Handles, Typed, IsSeq
<1>2. /\ Len(evs) \in Nat /\ Len(evs) > 0 /\ Len(evs') = Len(evs) - 1 /\ evs[1] = ev
      /\ \A i \in 1 .. Len(evs) - 1 : evs'[i] = evs[i + 1]
  BY <1>1, SeqFacts
<1>3. \A i \in 1 .. Len(evs) : i = 1 \/ (i - 1 \in 1 .. Len(evs') /\ evs'[i - 1] = evs[i])
  BY <1>2
<1> QED  BY <1>2, <1>3 DEF Has

LEMMA ActingKeepsKnown ==
  ASSUME IInv, KnowsItsBuffer, PollDone \/ update_cookie_clear \/ HandlesEvents \/ Redraw
  PROVE  KnowsItsBuffer'
<1>1. CASE PollDone
  BY <1>1 DEF PollDone, KnowsItsBuffer, Gone, buffer
<1>2. CASE update_cookie_clear
  BY <1>2 DEF update_cookie_clear, KnowsItsBuffer, Gone, Loop, buffer
<1>3. ASSUME NEW ev, Handles(ev)
      PROVE  /\ ~ Gone /\ Has(evs, ev) /\ UNCHANGED <<toCli, visible>>
             /\ \A y : Has(evs', y) => Has(evs, y)
             /\ \A y : y # ev /\ Has(evs, y) => Has(evs', y)
             /\ Loop(Tail(evs)) \in {"poll", "events"}
  BY <1>3, HandlesFacts, OthersStay DEF Handles
<1>4. CASE proxy_render_stopped
  <2>1. Handles("stop")
    BY <1>4 DEF proxy_render_stopped
  <2>2. pc' # "crashed"
    BY <1>3, <1>4, <2>1 DEF proxy_render_stopped, Send
  <2>3. CASE unmap_requested
    <3>1. ~ unmap_requested' /\ pixmap' = "none"
      BY <1>4, <2>3 DEF proxy_render_stopped
    <3> QED  BY <1>3, <2>1, <2>2, <3>1 DEF KnowsItsBuffer
  <2>4. CASE ~ unmap_requested
    <3>1. UNCHANGED <<unmap_requested, map, pixmap>>
      BY <1>4, <2>4 DEF proxy_render_stopped
    <3>2. pixmap = "shm" => ~ visible /\ Comes(toCli, "UNMAP")
      BY <1>3, <2>1, <2>4 DEF KnowsItsBuffer
    <3> QED  BY <1>3, <2>1, <2>2, <2>4, <3>1, <3>2 DEF KnowsItsBuffer
  <2> QED  BY <2>3, <2>4
<1>5. CASE RenderStart
  <2>1. /\ Handles("start") /\ (pixmap = "shm" => buf') /\ UNCHANGED <<unmap_requested, map, pixmap>>
    BY <1>5 DEF RenderStart, buffer
  <2>2. pc' # "crashed"
    BY <1>3, <1>5, <2>1 DEF RenderStart, proxy_update_rect, Send
  <2> QED  BY <1>3, <2>1, <2>2 DEF KnowsItsBuffer
<1>6. CASE Quit
  <2>1. /\ Handles("quit") /\ pc' = "left" /\ UNCHANGED <<map, pixmap>>
    BY <1>6 DEF Quit, buffer
  <2> QED  BY <1>3, <2>1 DEF KnowsItsBuffer, Gone
<1>7. CASE Redraw
  <2>1. /\ pc = "poll" /\ evs = <<>> /\ pixmap = "shm"
        /\ UNCHANGED <<toCli, buffer, visible, unmap_requested, evs, buf>>
        /\ (buf /\ proxy_update_rect(<<>>)) \/ (~ buf /\ pc' = "crashed")
    BY <1>7 DEF Redraw
  <2>2. ~ Gone /\ ~ Has(evs, "start") /\ ~ Has(evs, "stop")
    BY <2>1 DEF Gone, Has
  <2>3. CASE buf /\ proxy_update_rect(<<>>)
    <3>1. pc' # "crashed"
      BY <2>3 DEF proxy_update_rect, Send, Loop
    <3> QED  BY <2>1, <2>2, <3>1 DEF KnowsItsBuffer, buffer
  <2>4. CASE ~ buf /\ pc' = "crashed"
    <3>1. ~ visible /\ ~ unmap_requested /\ Comes(toCli, "UNMAP")
      BY <2>1, <2>2, <2>4 DEF KnowsItsBuffer
    <3> QED  BY <2>1, <2>4, <3>1 DEF KnowsItsBuffer, Gone, buffer
  <2> QED  BY <2>1, <2>3, <2>4
<1> QED  BY <1>1, <1>2, <1>4, <1>5, <1>6, <1>7 DEF HandlesEvents

LEMMA StepKeepsKnown == IInv /\ KnowsItsBuffer /\ [Next]_vars => KnowsItsBuffer'
<1> SUFFICES ASSUME IInv, KnowsItsBuffer, [Next]_vars PROVE KnowsItsBuffer'
  OBVIOUS
<1>1. CASE UNCHANGED vars
  BY <1>1 DEF vars, client, buffer, KnowsItsBuffer, Gone
<1> QED  BY <1>1, ServerKeepsKnown, MessagesKeepKnown, ActingKeepsKnown DEF Next

LEMMA AlwaysKnown == Spec => []KnowsItsBuffer
  BY KnownAtFirst, StepKeepsKnown, InductiveInvariant, PTL DEF Spec

LEMMA ImpliesRenders == IInv /\ KnowsItsBuffer => RendersIntoMappedBuffer
<1> SUFFICES ASSUME IInv, KnowsItsBuffer PROVE RendersIntoMappedBuffer
  OBVIOUS
<1> USE DEF IInv
<1>1. Shown /\ ~ Gone => Drawable
  <2> SUFFICES ASSUME Shown, ~ Gone PROVE Drawable
    OBVIOUS
  <2>1. map = shm /\ shm_pixmap = map /\ shm \in Nat
    BY ProxyAssumption DEF Sides, SizeIsKept, Shown, HasPixels, Typed
  <2> QED  BY <2>1 DEF Drawable, Shown, HasPixels
<1>2. buf => Shown
  BY DEF BufferState, Unmapped, Offered, Mapped, Painted, DoesNotDraw
<1>3. ASSUME pc = "events", evs # <<>>, Head(evs) = "start"
      PROVE  Shown /\ ~ Gone
  <2>1. Has(evs, "start")
    BY <1>3, EventFacts DEF Typed
  <2> QED  BY <1>3, <2>1 DEF BufferState, Unmapped, Offered, Mapped, Painted, DoesNotDraw, Gone
<1>4. DOMAIN toCli = 1 .. Len(toCli)
  BY DEF Typed, IsSeq
<1>5. pc = "crashed" => ~ visible /\ \E n \in DOMAIN toCli : toCli[n].type = "UNMAP"
  BY <1>4 DEF KnowsItsBuffer, Comes
<1> QED  BY <1>1, <1>2, <1>3, <1>5 DEF RendersIntoMappedBuffer

(* Whatever the user, the server and the application do, and whenever one  *)
(* of them goes away, the application draws only into memory that is       *)
(* mapped, and behind which the buffer was not cut; and it renders without *)
(* a buffer, and crashes, only after a HIDE and before its UNMAP was read. *)
THEOREM DrawsIntoMappedBuffer == Spec => []RendersIntoMappedBuffer
  BY InductiveInvariant, AlwaysKnown, ImpliesRenders, PTL

-----------------------------------------------------------------------------
(* The refinement.                                                         *)

LentIs(n) == (IF Gone THEN 0 ELSE Mappings) = n

LEMMA LentOnce == IInv => LentIs(IF Gone \/ ~ Lent THEN 0 ELSE 1)
<1> SUFFICES ASSUME IInv PROVE LentIs(IF Gone \/ ~ Lent THEN 0 ELSE 1)
  OBVIOUS
<1> USE DEF IInv
<1> DEFINE M == {i \in DOMAIN toCli : toCli[i].type = "MAP"}
<1>1. DOMAIN toCli = 1 .. Len(toCli)
  BY DEF Typed, IsSeq
<1>2. \A i \in M : i \in 1 .. Len(toCli) /\ IsShowing(toCli[i])
  BY <1>1 DEF IsShowing
<1>3. Quiet(toCli) => M = {}
  BY <1>2 DEF Quiet, ShowsAt
<1>4. Mapped \/ Painted => M = {}
  <2>1. Mapped => M = {}
    <3> SUFFICES ASSUME Mapped, NEW i \in M PROVE FALSE
      OBVIOUS
    <3>1. i = 1 \/ i = 2
      BY <1>2 DEF Mapped, LastTwo, ShowsAt
    <3> QED  BY <3>1 DEF Mapped, LastTwo, MsgOf, Msg
  <2>2. Painted => M = {}
    <3> SUFFICES ASSUME Painted, NEW i \in M PROVE FALSE
      OBVIOUS
    <3>1. i = 1
      BY <1>2 DEF Painted, LastOne, ShowsAt
    <3> QED  BY <3>1 DEF Painted, LastOne, Msg
  <2> QED  BY <2>1, <2>2
<1>5. Offered => \E k : M = {k}
  <2> SUFFICES ASSUME Offered PROVE \E k : M = {k}
    OBVIOUS
  <2>1. PICK k \in Nat, size \in Sizes : AllOnTheWay(toCli, k, size)
    BY DEF Offered
  <2>2. k \in M
    <3>1. k \in 1 .. Len(toCli)
      <4>1. Len(toCli) \in Nat
        BY SeqFacts DEF Typed
      <4> QED  BY <2>1, <4>1 DEF AllOnTheWay
    <3>2. toCli[k].type = "MAP"
      BY <2>1, Messages DEF AllOnTheWay
    <3> QED  BY <1>1, <3>1, <3>2
  <2>3. ASSUME NEW i \in M PROVE i = k
    <3>1. i = k \/ i = k + 1 \/ i = k + 2
      BY <1>2, <2>1 DEF AllOnTheWay, ShowsAt
    <3> QED  BY <2>1, <3>1 DEF AllOnTheWay, MsgOf, Msg
  <2> QED  BY <2>2, <2>3
<1>6. Cardinality({}) = 0 /\ \A k : Cardinality({k}) = 1
  BY FS_EmptySet, FS_Singleton
<1>7. Offered => Cardinality(M) = 1
  BY <1>5, <1>6
<1>8. ~ Offered => Cardinality(M) = 0
  BY <1>3, <1>4, <1>6 DEF BufferState, Unmapped, Shown
<1>9. Mappings = (IF map = 0 THEN 0 ELSE 1) + Cardinality(M)
  BY DEF Mappings
<1> HIDE DEF M
<1>10. Unmapped => Mappings = 0
  <2>1. Unmapped => ~ Offered
    <3> SUFFICES ASSUME Unmapped, Offered PROVE FALSE
      OBVIOUS
    <3> QED  BY <1>3, <1>6, <1>7 DEF Unmapped, M
  <2> QED  BY <1>8, <1>9, <2>1 DEF Unmapped
<1>11. ~ Unmapped => Mappings = 1
  <2>1. CASE Offered
    BY <1>7, <1>9, <2>1 DEF Offered
  <2>2. CASE Mapped \/ Painted \/ Shown
    <3>1. map # 0 /\ ~ Offered
      BY <2>2 DEF Mapped, Painted, Shown, HasPixels, Offered
    <3> QED  BY <1>8, <1>9, <3>1
  <2> QED  BY <2>1, <2>2 DEF BufferState
<1> QED  BY <1>10, <1>11, Stages DEF LentIs

LEMMA SizeOfLent ==
  ASSUME IInv, [Next]_vars, Lent, ~ Gone
  PROVE  shm' = shm
<1> USE DEF IInv
<1>1. listed
  BY DEF Sides
<1>2. CASE resize_shown_client
  <2>1. ~ cli_shown => alive /\ ~ owes
    BY <1>2 DEF resize_shown_client, Patient
  <2>2. cli_shown
    BY <1>1, <2>1 DEF LeaseIsKnown
  <2> QED  BY <1>2, <2>2 DEF resize_shown_client
<1>3. CASE client_event
  <2>1. alive /\ toSrv # <<>>
    BY <1>3 DEF client_event
  <2>2. Head(toSrv).type # "UNMAP"
    BY <1>1, <2>1, TakenFacts DEF LeaseIsKnown, Typed
  <2> QED  BY <1>3, <2>2 DEF client_event, shm_update
<1>4. CASE show_client \/ hide_client \/ RequestExit \/ err_rem_cli \/ ServerDies
  BY <1>4 DEF show_client, hide_client, RequestExit, err_rem_cli, ServerDies, server
<1>5. CASE proxy_recv_events
  BY <1>5 DEF proxy_recv_events, map_buffer, init_pixmap, Visible, hidden, unmap_buffer, update_cookie_add,
     QuitRequested, ConnectionClosed, Receives, server
<1>6. CASE PollDone \/ update_cookie_clear \/ HandlesEvents \/ Redraw
  BY <1>6 DEF PollDone, update_cookie_clear, HandlesEvents, proxy_render_stopped, RenderStart, Quit, Handles,
     Redraw, server
<1>7. CASE UNCHANGED vars
  BY <1>7 DEF vars, server
<1> QED  BY <1>2, <1>3, <1>4, <1>5, <1>6, <1>7 DEF Next, Server

(* The messages about the buffer keep to the lease: one mapping at a time, *)
(* and a new size only while nobody has the buffer.                        *)
THEOREM Refinement == Spec => ImplementsLease
<1>1. Init => Lease!Init
  <2> SUFFICES ASSUME Init PROVE Lease!Init
    OBVIOUS
  <2>1. IInv /\ ~ Lent
    BY InitEstablishes DEF Init, Lent, Quiet, ShowsAt
  <2>2. (IF Gone THEN 0 ELSE Mappings) = 0
    BY <2>1, LentOnce DEF LentIs
  <2>3. shm \in Sizes
    BY DEF Init
  <2> QED  BY <2>2, <2>3 DEF Lease!Init
<1>2. IInv' => LentIs(IF Gone \/ ~ Lent THEN 0 ELSE 1)'
  BY LentOnce, PTL
<1>3. IInv /\ IInv' /\ [Next]_vars => [Lease!Next]_Lease!vars
  <2> SUFFICES ASSUME IInv, IInv', [Next]_vars PROVE [Lease!Next]_Lease!vars
    OBVIOUS
  <2> DEFINE lent == IF Gone THEN 0 ELSE Mappings
  <2>1. lent = IF Gone \/ ~ Lent THEN 0 ELSE 1
    BY LentOnce DEF LentIs
  <2>2. lent' = (IF Gone \/ ~ Lent THEN 0 ELSE 1)'
    BY <1>2 DEF LentIs
  <2>3. lent \in {0, 1} /\ lent' \in {0, 1}
    BY <2>1, <2>2
  <2>4. lent = 1 => shm' = shm
    <3> HIDE DEF lent
    <3>1. lent = 1 => Lent /\ ~ Gone
      BY <2>1
    <3> QED  BY <3>1, SizeOfLent
  <2>5. shm' \in Sizes
    BY DEF IInv, Typed
  <2> HIDE DEF lent
  <2>6. CASE lent = 0 /\ lent' = 1
    BY <2>5, <2>6 DEF Lease!Next, Lease!Lend, lent
  <2>7. CASE lent = 1 /\ lent' = 0
    BY <2>4, <2>7 DEF Lease!Next, Lease!Return, lent
  <2>8. CASE lent = 0 /\ lent' = 0
    BY <2>5, <2>8 DEF Lease!Next, Lease!Resize, lent
  <2>9. CASE lent = 1 /\ lent' = 1
    BY <2>4, <2>9 DEF Lease!vars, lent
  <2> QED  BY <2>3, <2>6, <2>7, <2>8, <2>9
<1> QED  BY <1>1, <1>3, InductiveInvariant, PTL DEF Spec, ImplementsLease, Lease!Spec

-----------------------------------------------------------------------------
(* The types of everything that is sent.                                   *)
CliMsg == [type : {"MAP", "PIXMAP"}, val : Sizes] \cup [type : {"UPDATE"}, val : Nat]
            \cup {Msg(t) : t \in {"SHOW", "HIDE", "UNMAP", "EXIT"}}
SrvMsg == [type : {"UPDATE"}, val : Nat] \cup {Msg(t) : t \in {"MAP", "UNMAP", "EXIT"}}
SysEvent == {"start", "stop", "quit"}

(* The table of answers has a fixed number of slots.                       *)
CookiesFit ==
  /\ IsFiniteSet(update_cookies)
  /\ Cardinality(update_cookies) <= UPDATE_COOKIES_MAX

ServerTyped ==
  /\ cli_shown \in BOOLEAN /\ listed \in BOOLEAN /\ alive \in BOOLEAN /\ owes \in BOOLEAN
  /\ screen \in Sizes /\ shm \in Sizes /\ hides \in Nat /\ resizes \in Nat

BufferTyped ==
  /\ map \in Sizes \cup {0} /\ shm_pixmap \in Sizes \cup {0}
  /\ pixmap \in {"none", "dummy", "shm"} /\ pixels \in BOOLEAN

ClientTyped ==
  /\ visible \in BOOLEAN /\ unmap_requested \in BOOLEAN /\ sys_quit_requested \in BOOLEAN
  /\ buf \in BOOLEAN /\ pc \in Where
  /\ evs \in Seq(SysEvent)
  /\ cookie \in Nat /\ update_cookies \subseteq Nat

StreamsTyped == toCli \in Seq(CliMsg) /\ toSrv \in Seq(SrvMsg)

LEMMA TypesByPart == TypeOK <=> ServerTyped /\ BufferTyped /\ ClientTyped /\ StreamsTyped
BY Zenon DEF TypeOK, ServerTyped, BufferTyped, ClientTyped, StreamsTyped, CliMsg, SrvMsg, SysEvent

LEMMA MsgKinds ==
  /\ \A m \in CliMsg : /\ m.type \in {"MAP", "PIXMAP"} => m.val \in Sizes
                       /\ m.type = "UPDATE" => m.val \in Nat
                       /\ m.val \in Nat
  /\ \A m \in SrvMsg : (m.type = "UPDATE" => m \in CliMsg) /\ m.val \in Nat
  /\ \A t \in {"SHOW", "HIDE", "UNMAP", "EXIT"} : Msg(t) \in CliMsg
  /\ \A t \in {"MAP", "PIXMAP"} : \A s \in Sizes : MsgOf(t, s) \in CliMsg
  /\ \A t \in {"MAP", "UNMAP", "EXIT"} : Msg(t) \in SrvMsg
  /\ \A c \in Nat : MsgOf("UPDATE", c) \in SrvMsg
<1>1. ASSUME NEW m \in CliMsg
      PROVE  /\ m.type \in {"MAP", "PIXMAP"} => m.val \in Sizes
             /\ m.type = "UPDATE" => m.val \in Nat
             /\ m.val \in Nat
  <2>1. CASE m \in [type : {"MAP", "PIXMAP"}, val : Sizes]
    BY <2>1, ProxyAssumption
  <2>2. CASE m \in [type : {"UPDATE"}, val : Nat]
    BY <2>2
  <2>3. CASE m \in {Msg(t) : t \in {"SHOW", "HIDE", "UNMAP", "EXIT"}}
    BY <2>3 DEF Msg
  <2> QED  BY <2>1, <2>2, <2>3 DEF CliMsg
<1>2. ASSUME NEW m \in SrvMsg PROVE (m.type = "UPDATE" => m \in CliMsg) /\ m.val \in Nat
  BY DEF SrvMsg, CliMsg, Msg
<1>3. \A t \in {"SHOW", "HIDE", "UNMAP", "EXIT"} : Msg(t) \in CliMsg
  BY DEF CliMsg
<1>4. \A t \in {"MAP", "PIXMAP"} : \A s \in Sizes : MsgOf(t, s) \in CliMsg
  BY DEF CliMsg, MsgOf
<1>5. \A t \in {"MAP", "UNMAP", "EXIT"} : Msg(t) \in SrvMsg
  BY DEF SrvMsg
<1>6. \A c \in Nat : MsgOf("UPDATE", c) \in SrvMsg
  BY DEF SrvMsg, MsgOf
<1> QED  BY <1>1, <1>2, <1>3, <1>4, <1>5, <1>6

LEMMA ValuesOf ==
  ASSUME NEW S, NEW q \in Seq(S)
  PROVE  /\ IsFiniteSet({q[i].val : i \in DOMAIN q}) /\ Len(q) \in Nat
         /\ Cardinality({q[i].val : i \in DOMAIN q}) <= Len(q)
         /\ Cardinality({q[i].val : i \in DOMAIN q}) \in Nat
<1> DEFINE V == {q[i].val : i \in DOMAIN q}
           f == [i \in 1 .. Len(q) |-> q[i].val]
<1>1. Len(q) \in Nat /\ DOMAIN q = 1 .. Len(q)
  OBVIOUS
<1>2. f \in Surjection(1 .. Len(q), V)
  <2>1. f \in [1 .. Len(q) -> V]
    BY <1>1
  <2>2. \A v \in V : \E i \in 1 .. Len(q) : f[i] = v
    BY <1>1
  <2> QED  BY <2>1, <2>2 DEF Surjection
<1>3. IsFiniteSet(1 .. Len(q)) /\ Cardinality(1 .. Len(q)) = Len(q)
  BY <1>1, FS_Interval
<1> HIDE DEF f, V
<1>4. IsFiniteSet(V) /\ Cardinality(V) <= Cardinality(1 .. Len(q))
  BY <1>2, <1>3, FS_Surjection
<1>5. Cardinality(V) \in Nat
  BY <1>4, FS_CardinalityType
<1> QED  BY <1>1, <1>3, <1>4, <1>5 DEF V

(* There always is a number left for the next update, one that no answer   *)
(* has, on its way or in the table.                                        *)
LEMMA CookieIsFree ==
  ASSUME TypeOK, CookiesFit
  PROVE  NewCookie \in Nat /\ NewCookie \notin InUse
<1> DEFINE k == UPDATE_COOKIES_MAX + Len(toCli) + Len(toSrv)
           A == {toCli[i].val : i \in DOMAIN toCli}
           B == {toSrv[i].val : i \in DOMAIN toSrv}
<1>1. toCli \in Seq(CliMsg) /\ toSrv \in Seq(SrvMsg)
  BY TypesByPart DEF StreamsTyped
<1>2. /\ IsFiniteSet(A) /\ Cardinality(A) <= Len(toCli) /\ Cardinality(A) \in Nat
      /\ IsFiniteSet(B) /\ Cardinality(B) <= Len(toSrv) /\ Cardinality(B) \in Nat
      /\ Len(toCli) \in Nat /\ Len(toSrv) \in Nat
  BY <1>1, ValuesOf
<1>3. InUse = (update_cookies \cup A) \cup B
  BY DEF InUse
<1>4. k \in Nat
  BY <1>2, ProxyAssumption
<1> HIDE DEF A, B
<1>5. IsFiniteSet(InUse) /\ Cardinality(InUse) \in Nat /\ Cardinality(InUse) <= k
  <2>1. /\ IsFiniteSet(update_cookies \cup A)
        /\ Cardinality(update_cookies \cup A) <= Cardinality(update_cookies) + Cardinality(A)
    <3>1. /\ IsFiniteSet(update_cookies \cup A)
          /\ Cardinality(update_cookies \cup A)
               = Cardinality(update_cookies) + Cardinality(A) - Cardinality(update_cookies \cap A)
      BY <1>2, FS_Union DEF CookiesFit
    <3>2. Cardinality(update_cookies \cap A) \in Nat /\ Cardinality(update_cookies) \in Nat
      BY <1>2, FS_Intersection, FS_CardinalityType DEF CookiesFit
    <3> QED  BY <1>2, <3>1, <3>2
  <2>2. /\ IsFiniteSet(InUse)
        /\ Cardinality(InUse) <= Cardinality(update_cookies \cup A) + Cardinality(B)
    <3>1. /\ IsFiniteSet(InUse)
          /\ Cardinality(InUse) = Cardinality(update_cookies \cup A) + Cardinality(B)
                                    - Cardinality((update_cookies \cup A) \cap B)
      BY <1>2, <1>3, <2>1, FS_Union
    <3>2. Cardinality((update_cookies \cup A) \cap B) \in Nat /\ Cardinality(update_cookies \cup A) \in Nat
      BY <1>2, <2>1, FS_Intersection, FS_CardinalityType
    <3> QED  BY <1>2, <3>1, <3>2
  <2>3. /\ Cardinality(InUse) \in Nat /\ Cardinality(update_cookies \cup A) \in Nat
        /\ Cardinality(update_cookies) \in Nat
    BY <2>1, <2>2, FS_CardinalityType DEF CookiesFit
  <2> QED  BY <1>2, <2>1, <2>2, <2>3, ProxyAssumption DEF CookiesFit
<1> DEFINE C == 1 .. k + 1
<1>6. IsFiniteSet(C) /\ Cardinality(C) = k + 1
  <2> HIDE DEF k
  <2>1. k + 1 \in Int /\ 1 \in Int /\ ~ (1 > k + 1)
    BY <1>4
  <2>2. IsFiniteSet(1 .. k + 1) /\ Cardinality(1 .. k + 1) = (k + 1) - 1 + 1
    BY <2>1, FS_Interval
  <2> QED  BY <1>4, <2>2
<1>7. \E c \in C : c \notin InUse
  <2> SUFFICES ASSUME C \subseteq InUse PROVE FALSE
    OBVIOUS
  <2>1. Cardinality(C) <= Cardinality(InUse)
    BY <1>5, FS_Subset
  <2> HIDE DEF C, k
  <2> QED  BY <1>4, <1>5, <1>6, <2>1
<1>8. NewCookie \in C /\ NewCookie \notin InUse
  BY <1>7 DEF NewCookie
<1> QED  BY <1>4, <1>8

-----------------------------------------------------------------------------
TypesKept == ServerTyped /\ BufferTyped /\ ClientTyped /\ StreamsTyped /\ CookiesFit

LEMMA StreamSteps ==
  /\ \A q \in Seq(CliMsg) : /\ \A m \in CliMsg : Append(q, m) \in Seq(CliMsg)
                            /\ \A s \in Sizes : q \o ShowMsgs(s) \in Seq(CliMsg)
                            /\ q \o <<Msg("HIDE"), Msg("UNMAP")>> \in Seq(CliMsg)
                            /\ q # <<>> => Head(q) \in CliMsg /\ Tail(q) \in Seq(CliMsg)
  /\ \A q \in Seq(SrvMsg) : /\ \A m \in SrvMsg : Append(q, m) \in Seq(SrvMsg)
                            /\ q # <<>> => Head(q) \in SrvMsg /\ Tail(q) \in Seq(SrvMsg)
  /\ \A q \in Seq(SysEvent) : /\ \A e \in SysEvent : Append(q, e) \in Seq(SysEvent)
                              /\ q # <<>> => Head(q) \in SysEvent /\ Tail(q) \in Seq(SysEvent)
<1>1. \A S : \A q \in Seq(S) : /\ \A m \in S : Append(q, m) \in Seq(S)
                              /\ \A r \in Seq(S) : q \o r \in Seq(S)
                              /\ q # <<>> => Head(q) \in S /\ Tail(q) \in Seq(S)
  OBVIOUS
<1>2. <<Msg("HIDE"), Msg("UNMAP")>> \in Seq(CliMsg)
  BY MsgKinds
<1>3. \A s \in Sizes : ShowMsgs(s) \in Seq(CliMsg)
  BY MsgKinds DEF ShowMsgs
<1> QED  BY <1>1, <1>2, <1>3

LEMMA TypesAtFirst == Init => TypesKept
<1> SUFFICES ASSUME Init PROVE TypesKept
  OBVIOUS
<1>1. ServerTyped /\ BufferTyped
  BY DEF Init, ServerTyped, BufferTyped
<1>2. ClientTyped
  <2>1. evs \in Seq(SysEvent) /\ cookie \in Nat /\ update_cookies \subseteq Nat /\ pc \in Where
    BY DEF Init, Where
  <2> QED  BY <2>1, Zenon DEF Init, ClientTyped
<1>3. StreamsTyped
  BY DEF Init, StreamsTyped
<1>4. CookiesFit
  BY FS_EmptySet, ProxyAssumption DEF Init, CookiesFit
<1> QED  BY <1>1, <1>2, <1>3, <1>4 DEF TypesKept

LEMMA ServerKeepsTypes == ASSUME TypesKept, Server PROVE TypesKept'
<1>1. UNCHANGED client
  BY DEF Server, show_client, hide_client, resize_shown_client, RequestExit, client_event, err_rem_cli,
         ServerDies
<1>2. BufferTyped' /\ ClientTyped' /\ CookiesFit'
  BY <1>1 DEF TypesKept, BufferTyped, ClientTyped, CookiesFit, client, buffer
<1>3. toCli \in Seq(CliMsg) /\ toSrv \in Seq(SrvMsg) /\ ServerTyped
  BY DEF TypesKept, StreamsTyped
<1>4. CASE show_client
  BY <1>3, <1>4, StreamSteps, <1>2 DEF TypesKept, ServerTyped, StreamsTyped, show_client
<1>5. CASE hide_client
  <2>1. toCli' \in Seq(CliMsg) /\ toSrv' \in Seq(SrvMsg)
    BY <1>3, <1>5, StreamSteps DEF hide_client
  <2>2. cli_shown' = FALSE /\ owes' = TRUE /\ hides' \in Nat /\ UNCHANGED <<listed, screen, shm, alive, resizes>>
    BY <1>3, <1>5 DEF ServerTyped, hide_client
  <2>3. ServerTyped'
    BY <1>3, <2>2, Zenon DEF ServerTyped
  <2> QED  BY <1>2, <2>1, <2>3 DEF TypesKept, StreamsTyped
<1>6. CASE resize_shown_client
  <2>1. toCli' \in Seq(CliMsg) /\ toSrv' \in Seq(SrvMsg)
    BY <1>3, <1>6, StreamSteps, MsgKinds DEF resize_shown_client
  <2>2. /\ resizes' \in Nat /\ screen' \in Sizes /\ shm' \in Sizes
        /\ UNCHANGED <<cli_shown, listed, alive, hides>>
    BY <1>3, <1>6 DEF ServerTyped, resize_shown_client
  <2>3. owes' = owes \/ owes' = TRUE
    BY <1>6 DEF resize_shown_client
  <2>4. ServerTyped'
    BY <1>3, <2>2, <2>3, Zenon DEF ServerTyped
  <2> QED  BY <1>2, <2>1, <2>4 DEF TypesKept, StreamsTyped
<1>7. CASE RequestExit
  BY <1>3, <1>7, StreamSteps, MsgKinds, <1>2 DEF TypesKept, ServerTyped, StreamsTyped, RequestExit, server
<1>8. CASE client_event
  <2>1. toSrv' \in Seq(SrvMsg) /\ Head(toSrv) \in SrvMsg
    BY <1>3, <1>8, StreamSteps DEF client_event
  <2>2. CASE Head(toSrv).type = "UNMAP" /\ on_unmap
    BY <1>2, <1>3, <1>8, <2>1, <2>2, StreamSteps DEF TypesKept, ServerTyped, StreamsTyped, client_event, on_unmap
  <2>3. CASE Head(toSrv).type = "UPDATE" /\ shm_update(Head(toSrv))
    BY <1>2, <1>3, <1>8, <2>1, <2>3, StreamSteps, MsgKinds
       DEF TypesKept, ServerTyped, StreamsTyped, client_event, shm_update
  <2>4. CASE UNCHANGED <<shm, owes, toCli>>
    BY <1>2, <1>3, <1>8, <2>1, <2>4 DEF TypesKept, ServerTyped, StreamsTyped, client_event
  <2> QED  BY <1>8, <2>2, <2>3, <2>4 DEF client_event
<1>9. CASE err_rem_cli \/ ServerDies
  BY <1>2, <1>3, <1>9 DEF TypesKept, ServerTyped, StreamsTyped, err_rem_cli, ServerDies
<1> QED  BY <1>4, <1>5, <1>6, <1>7, <1>8, <1>9 DEF Server

(* What a message that is read leaves typed.                               *)
LEMMA ReadingKeepsTypes ==
  ASSUME TypesKept, NEW t, Receives(t)
  PROVE  /\ ServerTyped' /\ toCli' \in Seq(CliMsg)
         /\ Head(toCli) \in CliMsg /\ Head(toCli).type = t
<1>1. ServerTyped /\ UNCHANGED server /\ toCli \in Seq(CliMsg)
  BY DEF TypesKept, StreamsTyped, Receives
<1>2. ServerTyped'
  BY <1>1 DEF ServerTyped, server
<1> QED  BY <1>1, <1>2, StreamSteps DEF Receives

LEMMA SendKeepsTypes ==
  ASSUME TypesKept, NEW m \in SrvMsg, NEW next \in Where, Send(m, next)
  PROVE  pc' \in Where /\ toSrv' \in Seq(SrvMsg)
BY StreamSteps DEF TypesKept, StreamsTyped, Send, Where

LEMMA PushKeepsTypes ==
  ASSUME TypesKept, NEW e \in SysEvent, Push(e)
  PROVE  evs' \in Seq(SysEvent)
BY StreamSteps DEF TypesKept, ClientTyped, Push

LEMMA MessagesKeepTypes == ASSUME TypesKept, proxy_recv_events PROVE TypesKept'
<1> USE DEF TypesKept
<1>0. pc \in Where /\ toSrv \in Seq(SrvMsg)
  BY DEF ClientTyped, StreamsTyped
<1>1. CASE map_buffer
  <2>1. ServerTyped' /\ toCli' \in Seq(CliMsg) /\ map' \in Sizes
    BY <1>1, ReadingKeepsTypes, MsgKinds DEF map_buffer
  <2>2. pc' \in Where /\ toSrv' \in Seq(SrvMsg)
    BY <1>0, <1>1, SendKeepsTypes, MsgKinds DEF map_buffer
  <2> QED  BY <1>1, <2>1, <2>2 DEF map_buffer, BufferTyped, ClientTyped, StreamsTyped, CookiesFit
<1>2. CASE init_pixmap
  <2>1. ServerTyped' /\ toCli' \in Seq(CliMsg) /\ Head(toCli).val \in Sizes
    BY <1>2, ReadingKeepsTypes, MsgKinds DEF init_pixmap
  <2> QED  BY <1>2, <2>1 DEF init_pixmap, BufferTyped, ClientTyped, StreamsTyped, CookiesFit
<1>3. CASE Visible
  <2>1. ServerTyped' /\ toCli' \in Seq(CliMsg) /\ evs' \in Seq(SysEvent)
    BY <1>3, ReadingKeepsTypes, PushKeepsTypes DEF Visible, SysEvent
  <2> QED  BY <1>3, <2>1 DEF Visible, BufferTyped, ClientTyped, StreamsTyped, CookiesFit
<1>4. CASE hidden
  <2>1. ServerTyped' /\ toCli' \in Seq(CliMsg) /\ evs' \in Seq(SysEvent)
    BY <1>4, ReadingKeepsTypes, PushKeepsTypes DEF hidden, SysEvent
  <2> QED  BY <1>4, <2>1 DEF hidden, buffer, BufferTyped, ClientTyped, StreamsTyped, CookiesFit
<1>5. CASE unmap_buffer
  <2>1. ServerTyped' /\ toCli' \in Seq(CliMsg) /\ evs' \in Seq(SysEvent)
    <3>1. ServerTyped' /\ toCli' \in Seq(CliMsg)
      BY <1>5, ReadingKeepsTypes DEF unmap_buffer
    <3>2. evs' = evs \/ Push("stop")
      BY <1>5 DEF unmap_buffer
    <3>3. evs \in Seq(SysEvent) /\ "stop" \in SysEvent
      BY DEF ClientTyped, SysEvent
    <3> QED  BY <3>1, <3>2, <3>3, PushKeepsTypes
  <2> QED  BY <1>5, <2>1 DEF unmap_buffer, buffer, BufferTyped, ClientTyped, StreamsTyped, CookiesFit
<1>6. CASE update_cookie_add
  <2>1. ServerTyped' /\ toCli' \in Seq(CliMsg) /\ Head(toCli).val \in Nat
    BY <1>6, ReadingKeepsTypes, MsgKinds DEF update_cookie_add
  <2>2. update_cookies' \subseteq Nat
    BY <1>6, <2>1 DEF update_cookie_add, ClientTyped
  <2>3. CookiesFit'
    <3>1. CASE Cardinality(update_cookies) < UPDATE_COOKIES_MAX
      <4>1. update_cookies' = update_cookies \cup {Head(toCli).val}
        BY <1>6, <3>1 DEF update_cookie_add
      <4>2. /\ IsFiniteSet(update_cookies')
            /\ Cardinality(update_cookies') <= Cardinality(update_cookies) + 1
            /\ Cardinality(update_cookies) \in Nat /\ Cardinality(update_cookies') \in Nat
        BY <4>1, FS_AddElement, FS_CardinalityType DEF CookiesFit
      <4> QED  BY <3>1, <4>2, ProxyAssumption DEF CookiesFit
    <3>2. CASE ~ (Cardinality(update_cookies) < UPDATE_COOKIES_MAX)
      BY <1>6, <3>2 DEF update_cookie_add, CookiesFit
    <3> QED  BY <3>1, <3>2
  <2> QED  BY <1>6, <2>1, <2>2, <2>3 DEF update_cookie_add, buffer, BufferTyped, ClientTyped, StreamsTyped
<1>7. CASE QuitRequested
  <2>1. ServerTyped' /\ toCli' \in Seq(CliMsg) /\ evs' \in Seq(SysEvent)
    BY <1>7, ReadingKeepsTypes, PushKeepsTypes DEF QuitRequested, SysEvent
  <2> QED  BY <1>7, <2>1 DEF QuitRequested, buffer, BufferTyped, ClientTyped, StreamsTyped, CookiesFit
<1>8. CASE ConnectionClosed
  <2>1. evs' \in Seq(SysEvent) /\ pc' \in Where
    <3>1. evs' = evs \/ Push("quit")
      BY <1>8 DEF ConnectionClosed
    <3>2. evs \in Seq(SysEvent) /\ "quit" \in SysEvent
      BY DEF ClientTyped, SysEvent
    <3>3. evs' \in Seq(SysEvent)
      BY <3>1, <3>2, PushKeepsTypes
    <3>4. pc' \in Where
      BY <1>0, <1>8 DEF ConnectionClosed, Where
    <3> QED  BY <3>3, <3>4
  <2> QED  BY <1>8, <2>1
           DEF ConnectionClosed, server, buffer, ServerTyped, BufferTyped, ClientTyped, StreamsTyped, CookiesFit
<1> QED  BY <1>1, <1>2, <1>3, <1>4, <1>5, <1>6, <1>7, <1>8 DEF proxy_recv_events

LEMMA UpdateKeepsTypes ==
  ASSUME TypesKept, NEW q, proxy_update_rect(q)
  PROVE  cookie' \in Nat /\ pc' \in Where /\ toSrv' \in Seq(SrvMsg)
<1>1. NewCookie \in Nat
  BY CookieIsFree, TypesByPart DEF TypesKept
<1>2. CASE visible
  <2>1. MsgOf("UPDATE", NewCookie) \in SrvMsg /\ "wait" \in Where
    BY <1>1, MsgKinds DEF Where
  <2>2. cookie' = NewCookie /\ Send(MsgOf("UPDATE", NewCookie), "wait")
    BY <1>2 DEF proxy_update_rect
  <2> QED  BY <1>1, <2>1, <2>2, SendKeepsTypes
<1>3. CASE ~ visible
  BY <1>3 DEF proxy_update_rect, Loop, Where, TypesKept, ClientTyped, StreamsTyped
<1> QED  BY <1>2, <1>3

LEMMA ActingKeepsTypes ==
  ASSUME IInv, TypesKept, PollDone \/ update_cookie_clear \/ HandlesEvents \/ Redraw
  PROVE  TypesKept'
<1> USE DEF TypesKept
<1>0. /\ evs \in Seq(SysEvent) /\ toCli \in Seq(CliMsg) /\ toSrv \in Seq(SrvMsg) /\ cookie \in Nat
      /\ \A q : Loop(q) \in Where
  BY DEF ClientTyped, StreamsTyped, Loop, Where
<1>1. CASE PollDone
  BY <1>1 DEF PollDone, server, buffer, ServerTyped, BufferTyped, ClientTyped, StreamsTyped, CookiesFit, Where
<1>2. CASE update_cookie_clear
  <2>1. CookiesFit'
    <3>1. update_cookies' \in SUBSET update_cookies
      BY <1>2 DEF update_cookie_clear
    <3>2. /\ IsFiniteSet(update_cookies') /\ Cardinality(update_cookies') <= Cardinality(update_cookies)
          /\ Cardinality(update_cookies) \in Nat /\ Cardinality(update_cookies') \in Nat
      BY <3>1, FS_Subset, FS_CardinalityType DEF CookiesFit
    <3> QED  BY <3>2, ProxyAssumption DEF CookiesFit
  <2> QED  BY <1>0, <1>2, <2>1
           DEF update_cookie_clear, server, buffer, ServerTyped, BufferTyped, ClientTyped, StreamsTyped
<1>3. ASSUME NEW e, Handles(e)
      PROVE  /\ evs' \in Seq(SysEvent) /\ ServerTyped' /\ CookiesFit' /\ toCli' \in Seq(CliMsg)
             /\ visible' = visible /\ sys_quit_requested' = sys_quit_requested
             /\ update_cookies' = update_cookies
  <2>1. evs # <<>>
    BY <1>3 DEF IInv, Sides, Handles
  <2> QED  BY <1>0, <1>3, <2>1, StreamSteps DEF Handles, server, ServerTyped, CookiesFit
<1>4. CASE proxy_render_stopped
  <2>1. pc' \in Where /\ toSrv' \in Seq(SrvMsg)
    <3>1. Msg("UNMAP") \in SrvMsg
      BY MsgKinds
    <3> QED  BY <1>0, <1>4, <3>1, SendKeepsTypes DEF proxy_render_stopped
  <2> QED  BY <1>3, <1>4, <2>1 DEF proxy_render_stopped, BufferTyped, ClientTyped, StreamsTyped
<1>5. CASE RenderStart
  <2>1. cookie' \in Nat /\ pc' \in Where /\ toSrv' \in Seq(SrvMsg)
    BY <1>5, UpdateKeepsTypes DEF RenderStart
  <2> QED  BY <1>3, <1>5, <2>1 DEF RenderStart, buffer, BufferTyped, ClientTyped, StreamsTyped
<1>6. CASE Quit
  <2>1. toSrv' \in Seq(SrvMsg) /\ pc' \in Where
    BY <1>0, <1>6, MsgKinds, StreamSteps DEF Quit, Where
  <2> QED  BY <1>3, <1>6, <2>1 DEF Quit, buffer, BufferTyped, ClientTyped, StreamsTyped
<1>7. CASE Redraw
  <2>1. cookie' \in Nat /\ pc' \in Where /\ toSrv' \in Seq(SrvMsg)
    BY <1>0, <1>7, UpdateKeepsTypes DEF Redraw, Where
  <2> QED  BY <1>0, <1>7, <2>1
           DEF Redraw, server, buffer, ServerTyped, BufferTyped, ClientTyped, StreamsTyped, CookiesFit
<1> QED  BY <1>1, <1>2, <1>4, <1>5, <1>6, <1>7 DEF HandlesEvents

LEMMA StepKeepsTypes == IInv /\ TypesKept /\ [Next]_vars => TypesKept'
<1> SUFFICES ASSUME IInv, TypesKept, [Next]_vars PROVE TypesKept'
  OBVIOUS
<1>1. CASE Server
  BY <1>1, ServerKeepsTypes
<1>2. CASE proxy_recv_events
  BY <1>2, MessagesKeepTypes
<1>3. CASE PollDone \/ update_cookie_clear \/ HandlesEvents \/ Redraw
  BY <1>3, ActingKeepsTypes
<1>4. CASE UNCHANGED vars
  BY <1>4 DEF vars, server, client, buffer, TypesKept, ServerTyped, BufferTyped, ClientTyped, StreamsTyped,
              CookiesFit
<1> QED  BY <1>1, <1>2, <1>3, <1>4 DEF Next

LEMMA TypesAlwaysKept == Spec => []TypesKept
BY TypesAtFirst, StepKeepsTypes, InductiveInvariant, PTL DEF Spec

(* Every message that is read has the size or the cookie its handler takes *)
(* from it, no event is taken from an empty queue, and the numbers of      *)
(* updates do not run out.                                                 *)
THEOREM TypeCorrect == Spec => []TypeOK
<1>1. TypesKept => TypeOK
  BY TypesByPart DEF TypesKept
<1> QED  BY <1>1, TypesAlwaysKept, PTL
=============================================================================
