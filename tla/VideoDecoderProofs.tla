------------------------- MODULE VideoDecoderProofs -------------------------
(***************************************************************************)
(* What a title may count on of cellVdec, proved for any number of         *)
(* decoders, size of ring and delay of the MFT, whatever calls fail and    *)
(* whether or not a decoder is closed inside a call on it.                 *)
(*                                                                         *)
(* The pictures fetched from a slot, the frames in its ring and the units  *)
(* in its MFT are, end to end, one increasing line of units fed to it      *)
(* (Line).  A slot that is not in use holds nothing (Held), so a call that *)
(* outlives its decoder finds no frame in the next one of the slot until   *)
(* it is over: no other decoding of that slot begins before (OwnUnits).    *)
(* Each decoding looks at the ring once its frames are in (AnnounceStep).  *)
(***************************************************************************)
EXTENDS VideoDecoder, SequenceTheorems, TLAPS

USE VideoAssumption

Increasing(s) == \A i, j \in DOMAIN s : i < j => s[i] < s[j]
Below(s, t) == \A i \in DOMAIN s, j \in DOMAIN t : s[i] < t[j]
From(s, f) == \A i \in DOMAIN s : s[i] \in ToSet(f)
UpTo(s, d) == \A i \in DOMAIN s : s[i] <= d

\* g was fetched, r is in the ring and w in the MFT; f was fed, d decoded.
Line(g, r, w, f, d) ==
  /\ Increasing(g) /\ Increasing(r) /\ Increasing(w)
  /\ Below(g, r) /\ Below(g, w) /\ Below(r, w)
  /\ From(g, f) /\ From(r, f) /\ From(w, f)
  /\ UpTo(g, d) /\ UpTo(r, d) /\ UpTo(w, d)

-----------------------------------------------------------------------------
(* Sequences.                                                              *)

LEMMA AllIn ==
  ASSUME NEW S, NEW T, NEW s \in Seq(S), \A i \in DOMAIN s : s[i] \in T
  PROVE  s \in Seq(T)
<1>1. Len(s) \in Nat /\ s = [i \in 1 .. Len(s) |-> s[i]] /\ DOMAIN s = 1 .. Len(s)
  OBVIOUS
<1>2. s \in [1 .. Len(s) -> T]
  BY <1>1
<1> QED
  BY <1>1, <1>2

LEMMA ToSetAppend ==
  ASSUME NEW f \in Seq(Nat), NEW d \in Nat
  PROVE  ToSet(Append(f, d)) = ToSet(f) \cup {d}
<1>1. DOMAIN Append(f, d) = DOMAIN f \cup {Len(f) + 1}
  OBVIOUS
<1>2. \A i \in DOMAIN f : Append(f, d)[i] = f[i]
  OBVIOUS
<1>3. Append(f, d)[Len(f) + 1] = d
  OBVIOUS
<1> QED
  BY <1>1, <1>2, <1>3 DEF ToSet

\* A part of a line is as the line is.
LEMMA PartOf ==
  ASSUME NEW s \in Seq(Nat), NEW a \in 1 .. Len(s) + 1, NEW b \in a - 1 .. Len(s)
  PROVE  /\ SubSeq(s, a, b) \in Seq(Nat)
         /\ Len(SubSeq(s, a, b)) = b - a + 1
         /\ \A i \in DOMAIN SubSeq(s, a, b) :
              /\ i \in Nat /\ a + i - 1 \in DOMAIN s
              /\ SubSeq(s, a, b)[i] = s[a + i - 1]
         /\ Increasing(s) => Increasing(SubSeq(s, a, b))
<1>1. /\ SubSeq(s, a, b) \in Seq(Nat)
      /\ Len(SubSeq(s, a, b)) = b - a + 1
      /\ \A i \in 1 .. b - a + 1 : SubSeq(s, a, b)[i] = s[a + i - 1]
  BY SubSeqProperties
<1>2. \A i \in DOMAIN SubSeq(s, a, b) :
        /\ i \in 1 .. b - a + 1 /\ i \in Nat /\ a + i - 1 \in DOMAIN s
        /\ SubSeq(s, a, b)[i] = s[a + i - 1]
  BY <1>1
<1>3. \A i, j \in Nat : i < j => a + i - 1 < a + j - 1
  OBVIOUS
<1> QED
  BY <1>1, <1>2, <1>3 DEF Increasing

LEMMA Joined ==
  ASSUME NEW s \in Seq(Nat), NEW t \in Seq(Nat)
  PROVE  /\ s \o t \in Seq(Nat)
         /\ \A i \in DOMAIN (s \o t) :
              \/ i \in DOMAIN s /\ (s \o t)[i] = s[i]
              \/ /\ i \notin DOMAIN s /\ i - Len(s) \in DOMAIN t
                 /\ (s \o t)[i] = t[i - Len(s)]
         /\ Increasing(s) /\ Increasing(t) /\ Below(s, t) => Increasing(s \o t)
<1>1. s \o t \in Seq(Nat) /\ Len(s \o t) = Len(s) + Len(t)
  BY ConcatProperties
<1>2. \A i \in DOMAIN (s \o t) :
        \/ i \in DOMAIN s /\ (s \o t)[i] = s[i]
        \/ /\ i \notin DOMAIN s /\ i - Len(s) \in DOMAIN t
           /\ (s \o t)[i] = t[i - Len(s)]
  BY <1>1, ConcatProperties
<1>3. ASSUME Increasing(s), Increasing(t), Below(s, t),
             NEW i \in DOMAIN (s \o t), NEW j \in DOMAIN (s \o t), i < j
      PROVE  (s \o t)[i] < (s \o t)[j]
  <2>1. i \in Nat /\ j \in Nat /\ Len(s) \in Nat
    BY <1>1
  <2>2. CASE i \in DOMAIN s /\ j \in DOMAIN s
    BY <1>2, <1>3, <2>2 DEF Increasing
  <2>3. CASE i \in DOMAIN s /\ j \notin DOMAIN s
    BY <1>2, <1>3, <2>3 DEF Below
  <2>4. CASE i \notin DOMAIN s
    <3>1. j \notin DOMAIN s
      BY <1>1, <1>3, <2>1, <2>4
    <3>2. i - Len(s) < j - Len(s)
      BY <1>3, <2>1
    <3> QED
      BY <1>2, <1>3, <2>4, <3>1, <3>2 DEF Increasing
  <2> QED
    BY <2>2, <2>3, <2>4
<1> QED
  BY <1>1, <1>2, <1>3 DEF Increasing

\* What is kept of some frames is of them, in their order.
LEMMA KeptPart ==
  ASSUME NEW s \in Seq(Nat), NEW k \in Kept(s)
  PROVE  /\ k \in Seq(Nat)
         /\ \A i \in DOMAIN k : \E j \in DOMAIN s : k[i] = s[j]
         /\ Increasing(s) => Increasing(k)
<1>1. CASE k = s
  BY <1>1
<1>2. CASE k # s
  <2>1. PICK at \in Picks(Len(s)) : k = [i \in DOMAIN at |-> s[at[i]]]
    BY <1>2 DEF Kept
  <2>2. PICK n \in 0 .. Len(s) : at \in [1 .. n -> 1 .. Len(s)]
    BY <2>1 DEF Picks
  <2>3. \A i, j \in DOMAIN at : i < j => at[i] < at[j]
    BY <2>1 DEF Picks
  <2>4. DOMAIN k = 1 .. n /\ DOMAIN at = 1 .. n /\ DOMAIN s = 1 .. Len(s)
    BY <2>1, <2>2
  <2>5. \A i \in 1 .. n : at[i] \in DOMAIN s /\ k[i] = s[at[i]] /\ k[i] \in Nat
    BY <2>1, <2>2, <2>4
  <2>6. k \in Seq(Nat)
    BY <2>1, <2>2, <2>5
  <2> QED
    BY <2>3, <2>4, <2>5, <2>6 DEF Increasing
<1> QED
  BY <1>1, <1>2

\* The newest frames are a part of the frames that the ring has room for.
LEMMA NewestPart ==
  ASSUME NEW s \in Seq(Nat)
  PROVE  /\ Newest(s) \in Seq(Nat) /\ Len(Newest(s)) < RING
         /\ \A i \in DOMAIN Newest(s) : \E j \in DOMAIN s : Newest(s)[i] = s[j]
         /\ Increasing(s) => Increasing(Newest(s))
<1>1. CASE Len(s) < RING
  BY <1>1 DEF Newest
<1>2. CASE ~(Len(s) < RING)
  <2>1. PICK a : a = Len(s) - RING + 2
    OBVIOUS
  <2>2. Newest(s) = SubSeq(s, a, Len(s)) /\ a \in 1 .. Len(s) + 1
        /\ Len(s) \in a - 1 .. Len(s) /\ Len(s) - a + 1 < RING
    BY <1>2, <2>1 DEF Newest
  <2> QED
    BY <2>2, PartOf
<1> QED
  BY <1>1, <1>2

\* So is any ring that pushing frames leaves.
LEMMA RingsPart ==
  ASSUME NEW s \in Seq(Nat), NEW q \in Rings(s, TRUE)
  PROVE  /\ q \in Seq(Nat) /\ Len(q) < RING
         /\ \A i \in DOMAIN q : \E j \in DOMAIN s : q[i] = s[j]
         /\ Increasing(s) => Increasing(q)
<1>1. PICK n : n = Newest(s)
  OBVIOUS
<1>2. /\ n \in Seq(Nat) /\ Len(n) < RING
      /\ \A i \in DOMAIN n : \E j \in DOMAIN s : n[i] = s[j]
      /\ Increasing(s) => Increasing(n)
  BY <1>1, NewestPart
<1>3. CASE q = n
  BY <1>2, <1>3
<1>4. CASE q # n
  <2>1. q = Tail(n) /\ Len(s) >= RING - 1
    BY <1>1, <1>4 DEF Rings
  <2>2. Len(n) > 0
    <3>1. CASE Len(s) < RING
      BY <1>1, <2>1, <3>1 DEF Newest
    <3>2. CASE ~(Len(s) < RING)
      <4>1. PICK a : a = Len(s) - RING + 2
        OBVIOUS
      <4>2. n = SubSeq(s, a, Len(s)) /\ a \in 1 .. Len(s) + 1
            /\ Len(s) \in a - 1 .. Len(s) /\ Len(s) - a + 1 > 0
        BY <1>1, <3>2, <4>1 DEF Newest
      <4> QED
        BY <4>2, PartOf
    <3> QED
      BY <3>1, <3>2
  <2>3. /\ q \in Seq(Nat) /\ Len(q) = Len(n) - 1
        /\ \A i \in DOMAIN q : i + 1 \in DOMAIN n /\ i \in Nat /\ q[i] = n[i + 1]
    BY <1>2, <2>1, <2>2, HeadTailProperties
  <2>4. Increasing(n) => Increasing(q)
    <3> SUFFICES ASSUME Increasing(n), NEW i \in DOMAIN q, NEW j \in DOMAIN q, i < j
                 PROVE  q[i] < q[j]
      BY DEF Increasing
    <3>1. i + 1 < j + 1 /\ i + 1 \in DOMAIN n /\ j + 1 \in DOMAIN n
      BY <2>3
    <3> QED
      BY <2>3, <3>1 DEF Increasing
  <2> QED
    BY <1>2, <2>3, <2>4
<1> QED
  BY <1>3, <1>4

-----------------------------------------------------------------------------
(* The line of a slot, an operation at a time.                             *)

LEMMA LineNew ==
  ASSUME NEW d
  PROVE  Line(<<>>, <<>>, <<>>, <<>>, d)
BY DEF Line, Increasing, Below, From, UpTo

LEMMA LineCut ==
  ASSUME NEW g, NEW r, NEW w, NEW f, NEW d, Line(g, r, w, f, d)
  PROVE  Line(g, <<>>, <<>>, f, d)
BY DEF Line, Increasing, Below, From, UpTo

\* Another slot decodes.
LEMMA LineLater ==
  ASSUME NEW g \in Seq(Nat), NEW r \in Seq(Nat), NEW w \in Seq(Nat), NEW f,
         NEW d \in Nat, NEW e \in Nat, d <= e, Line(g, r, w, f, d)
  PROVE  Line(g, r, w, f, e)
<1>1. ASSUME NEW s \in Seq(Nat), UpTo(s, d)
      PROVE  UpTo(s, e)
  BY <1>1 DEF UpTo
<1> QED
  BY <1>1 DEF Line

\* The slot decodes a unit.
LEMMA LineFed ==
  ASSUME NEW g \in Seq(Nat), NEW r \in Seq(Nat), NEW w \in Seq(Nat), NEW f \in Seq(Nat),
         NEW d \in Nat, Line(g, r, w, f, d)
  PROVE  Line(g, r, w, Append(f, d + 1), d + 1)
<1>1. Line(g, r, w, f, d + 1)
  BY LineLater
<1>2. ToSet(f) \subseteq ToSet(Append(f, d + 1))
  BY ToSetAppend
<1> QED
  BY <1>1, <1>2 DEF Line, From

LEMMA LineTaken ==
  ASSUME NEW g \in Seq(Nat), NEW r \in Seq(Nat), NEW w \in Seq(Nat), NEW f,
         NEW d \in Nat, Line(g, r, w, f, d), Len(r) > 0
  PROVE  Line(Append(g, Head(r)), Tail(r), w, f, d)
<1>1. /\ Tail(r) \in Seq(Nat) /\ Head(r) = r[1] /\ 1 \in DOMAIN r
      /\ \A i \in DOMAIN Tail(r) : i + 1 \in DOMAIN r /\ i \in Nat /\ 1 < i + 1
                                   /\ Tail(r)[i] = r[i + 1]
  BY HeadTailProperties
<1>2. PICK h \in Nat : h = r[1]
  BY <1>1
<1>3. /\ Append(g, h) \in Seq(Nat)
      /\ \A i \in DOMAIN Append(g, h) :
           \/ i \in DOMAIN g /\ Append(g, h)[i] = g[i]
           \/ i = Len(g) + 1 /\ Append(g, h)[i] = h
  OBVIOUS
<1>4. h \in ToSet(f) /\ h <= d /\ \A i \in DOMAIN g : g[i] < h
  BY <1>1, <1>2 DEF Line, From, UpTo, Below
<1>5. Increasing(Append(g, h))
  <2> SUFFICES ASSUME NEW i \in DOMAIN Append(g, h), NEW j \in DOMAIN Append(g, h), i < j
               PROVE  Append(g, h)[i] < Append(g, h)[j]
    BY DEF Increasing
  <2>1. i \in DOMAIN g
    BY <1>3
  <2> QED
    BY <1>3, <1>4, <2>1 DEF Line, Increasing
<1>6. Increasing(Tail(r))
  BY <1>1 DEF Line, Increasing
<1>7. Below(Append(g, h), Tail(r)) /\ Below(Append(g, h), w) /\ Below(Tail(r), w)
  BY <1>1, <1>2, <1>3 DEF Line, Increasing, Below
<1>8. From(Append(g, h), f) /\ From(Tail(r), f)
  BY <1>1, <1>3, <1>4 DEF Line, From
<1>9. UpTo(Append(g, h), d) /\ UpTo(Tail(r), d)
  BY <1>1, <1>3, <1>4 DEF Line, UpTo
<1> QED
  BY <1>1, <1>2, <1>5, <1>6, <1>7, <1>8, <1>9 DEF Line

\* The units in the MFT, and perhaps the next, in front of it.
LEMMA LineUnits ==
  ASSUME NEW g \in Seq(Nat), NEW r \in Seq(Nat), NEW w \in Seq(Nat), NEW f \in Seq(Nat),
         NEW d \in Nat, Line(g, r, w, f, d), NEW u \in {w, Append(w, d + 1)}
  PROVE  Line(g, r, u, Append(f, d + 1), d + 1)
<1>1. Line(g, r, w, Append(f, d + 1), d + 1)
  BY LineFed
<1>2. CASE u = w
  BY <1>1, <1>2
<1>3. CASE u = Append(w, d + 1)
  <2>1. /\ u \in Seq(Nat)
        /\ \A i \in DOMAIN u : \/ i \in DOMAIN w /\ u[i] = w[i]
                               \/ i = Len(w) + 1 /\ u[i] = d + 1
    BY <1>3
  <2>2. d + 1 \in ToSet(Append(f, d + 1))
    BY ToSetAppend
  <2>3. \A s \in Seq(Nat) : UpTo(s, d) => \A i \in DOMAIN s : s[i] < d + 1
    BY DEF UpTo
  <2>4. Increasing(u)
    <3> SUFFICES ASSUME NEW i \in DOMAIN u, NEW j \in DOMAIN u, i < j
                 PROVE  u[i] < u[j]
      BY DEF Increasing
    <3>1. i \in DOMAIN w
      BY <1>3, <2>1
    <3> QED
      BY <1>1, <2>1, <2>3, <3>1 DEF Line, Increasing
  <2>5. Below(g, u) /\ Below(r, u)
    BY <1>1, <2>1, <2>3 DEF Line, Below
  <2>6. From(u, Append(f, d + 1))
    BY <1>1, <2>1, <2>2 DEF Line, From
  <2>7. UpTo(u, d + 1)
    BY <1>1, <2>1 DEF Line, UpTo
  <2> QED
    BY <1>1, <2>4, <2>5, <2>6, <2>7 DEF Line
<1> QED
  BY <1>2, <1>3

\* Frames go from the MFT to the ring, which keeps the newest.
LEMMA LineDrained ==
  ASSUME NEW g \in Seq(Nat), NEW r \in Seq(Nat), NEW u \in Seq(Nat), NEW f,
         NEW d \in Nat, Line(g, r, u, f, d),
         NEW n \in 0 .. Len(u), NEW k \in Kept(SubSeq(u, 1, n)),
         NEW q \in Rings(r \o k, TRUE)
  PROVE  /\ Line(g, q, SubSeq(u, n + 1, Len(u)), f, d)
         /\ q \in Seq(Nat) /\ Len(q) < RING
         /\ SubSeq(u, n + 1, Len(u)) \in Seq(Nat)
<1>1. PICK a : a = SubSeq(u, 1, n)
  OBVIOUS
<1>2. PICK b : b = SubSeq(u, n + 1, Len(u))
  OBVIOUS
<1>3. /\ a \in Seq(Nat)
      /\ \A i \in DOMAIN a : i \in DOMAIN u /\ i <= n /\ a[i] = u[i]
      /\ Increasing(a)
  <2>1. n \in 1 - 1 .. Len(u) /\ 1 \in 1 .. Len(u) + 1
    OBVIOUS
  <2>2. a \in Seq(Nat) /\ Increasing(a)
    BY <1>1, <2>1, PartOf DEF Line
  <2>3. \A i \in DOMAIN a : i \in 1 .. n /\ i \in Nat /\ 1 + i - 1 \in DOMAIN u /\ a[i] = u[1 + i - 1]
    BY <1>1, <2>1, PartOf
  <2> QED
    BY <2>2, <2>3
<1>4. /\ b \in Seq(Nat)
      /\ \A i \in DOMAIN b : n + i \in DOMAIN u /\ i \in Nat /\ i > 0 /\ b[i] = u[n + i]
      /\ Increasing(b)
  <2>1. n + 1 \in 1 .. Len(u) + 1 /\ Len(u) \in (n + 1) - 1 .. Len(u)
    OBVIOUS
  <2>2. b \in Seq(Nat) /\ Increasing(b)
    BY <1>2, <2>1, PartOf DEF Line
  <2>3. \A i \in DOMAIN b : i \in Nat /\ i > 0 /\ (n + 1) + i - 1 \in DOMAIN u /\ b[i] = u[(n + 1) + i - 1]
    BY <1>2, <2>1, <2>2, PartOf
  <2> QED
    BY <2>2, <2>3
<1>5. k \in Seq(Nat) /\ Increasing(k) /\ \A i \in DOMAIN k : \E j \in DOMAIN a : k[i] = a[j]
  BY <1>1, <1>3, KeptPart
<1>6. \A i \in DOMAIN k : \E j \in DOMAIN u : j <= n /\ k[i] = u[j]
  BY <1>3, <1>5
<1>7. Below(r, k) /\ Below(g, k) /\ From(k, f) /\ UpTo(k, d)
  BY <1>6 DEF Line, Below, From, UpTo
<1>8. Below(k, b) /\ Below(g, b) /\ Below(r, b) /\ From(b, f) /\ UpTo(b, d)
  <2>1. Below(k, b)
    <3> SUFFICES ASSUME NEW i \in DOMAIN k, NEW j \in DOMAIN b
                 PROVE  k[i] < b[j]
      BY DEF Below
    <3>1. PICK p \in DOMAIN u : p <= n /\ k[i] = u[p]
      BY <1>6
    <3>2. p \in Nat /\ n \in Nat /\ n + j \in DOMAIN u /\ j \in Nat /\ j > 0 /\ b[j] = u[n + j]
      BY <1>4
    <3>3. p < n + j
      BY <3>1, <3>2
    <3> QED
      BY <3>1, <3>2, <3>3 DEF Line, Increasing
  <2> QED
    BY <2>1, <1>4 DEF Line, Below, From, UpTo
<1>9. PICK c : c = r \o k
  OBVIOUS
<1>10. /\ c \in Seq(Nat) /\ Increasing(c)
       /\ \A i \in DOMAIN c : \/ \E j \in DOMAIN r : c[i] = r[j]
                              \/ \E j \in DOMAIN k : c[i] = k[j]
  <2>1. Increasing(r) /\ Increasing(k) /\ Below(r, k)
    BY <1>5, <1>7 DEF Line
  <2>2. c \in Seq(Nat) /\ Increasing(c)
    BY <1>5, <1>9, <2>1, Joined
  <2>3. \A i \in DOMAIN c : \/ i \in DOMAIN r /\ c[i] = r[i]
                            \/ i - Len(r) \in DOMAIN k /\ c[i] = k[i - Len(r)]
    BY <1>5, <1>9, Joined
  <2> QED
    BY <2>2, <2>3
<1>11. /\ q \in Seq(Nat) /\ Increasing(q) /\ Len(q) < RING
       /\ \A i \in DOMAIN q : \/ \E j \in DOMAIN r : q[i] = r[j]
                              \/ \E j \in DOMAIN k : q[i] = k[j]
  <2>1. /\ q \in Seq(Nat) /\ Increasing(q) /\ Len(q) < RING
        /\ \A i \in DOMAIN q : \E j \in DOMAIN c : q[i] = c[j]
    BY <1>9, <1>10, RingsPart
  <2>2. ASSUME NEW i \in DOMAIN q
        PROVE  (\E j \in DOMAIN r : q[i] = r[j]) \/ (\E j \in DOMAIN k : q[i] = k[j])
    <3>1. PICK j \in DOMAIN c : q[i] = c[j]
      BY <2>1
    <3> QED
      BY <1>10, <3>1
  <2> QED
    BY <2>1, <2>2
<1>12. Below(g, q) /\ Below(q, b) /\ From(q, f) /\ UpTo(q, d)
  BY <1>7, <1>8, <1>11 DEF Line, Below, From, UpTo
<1> QED
  BY <1>2, <1>4, <1>8, <1>9, <1>11, <1>12 DEF Line

-----------------------------------------------------------------------------
(* Types.                                                                  *)

\* One call of tm_vdec_feed, as the state sees it.
LEMMA FeedEffect ==
  ASSUME TypeOK, NEW h \in Slot, NEW au \in Au, FeedUnit(h, au)
  PROVE  \E u \in {mf[h].mft, Append(mf[h].mft, au)} : \E n \in 0 .. Len(u) :
           \E k \in Kept(SubSeq(u, 1, n)) : \E q \in Rings(mf[h].ring \o k, TRUE) :
             mf' = [mf EXCEPT ![h].mft = SubSeq(u, n + 1, Len(u)), ![h].ring = q]
<1>1. PICK u \in Units(mf[h], au) :
        \E n \in FramesGiven(u) : \E k \in Kept(SubSeq(u, 1, n)) :
          LET lastLost == Len(k) < n /\ (k = <<>> \/ Last(k) # u[n])
          IN  \E q \in Rings(mf[h].ring \o k, lastLost) :
                mf' = [mf EXCEPT ![h].mft = SubSeq(u, n + 1, Len(u)), ![h].ring = q]
  BY DEF FeedUnit
<1>2. PICK n \in FramesGiven(u) :
        \E k \in Kept(SubSeq(u, 1, n)) :
          LET lastLost == Len(k) < n /\ (k = <<>> \/ Last(k) # u[n])
          IN  \E q \in Rings(mf[h].ring \o k, lastLost) :
                mf' = [mf EXCEPT ![h].mft = SubSeq(u, n + 1, Len(u)), ![h].ring = q]
  BY <1>1
<1>k. PICK k \in Kept(SubSeq(u, 1, n)) :
        \E lost \in BOOLEAN : \E q \in Rings(mf[h].ring \o k, lost) :
          mf' = [mf EXCEPT ![h].mft = SubSeq(u, n + 1, Len(u)), ![h].ring = q]
  BY <1>2
<1>3. PICK lost \in BOOLEAN : \E q \in Rings(mf[h].ring \o k, lost) :
        mf' = [mf EXCEPT ![h].mft = SubSeq(u, n + 1, Len(u)), ![h].ring = q]
  BY <1>k
<1>4. PICK q \in Rings(mf[h].ring \o k, lost) :
        mf' = [mf EXCEPT ![h].mft = SubSeq(u, n + 1, Len(u)), ![h].ring = q]
  BY <1>3
<1>5. q \in Rings(mf[h].ring \o k, TRUE)
  BY <1>4 DEF Rings
<1>6. u \in {mf[h].mft, Append(mf[h].mft, au)}
  BY <1>1 DEF Units
<1>7. u \in Seq(Au)
  <2>1. mf[h].mft \in Seq(Au)
    BY DEF TypeOK
  <2> QED
    BY <1>6, <2>1
<1>8. n \in 0 .. Len(u)
  BY <1>2, <1>7 DEF FramesGiven
<1> QED
  BY <1>4, <1>5, <1>6, <1>8

\* It is a call on one decoder, which stays open.
LEMMA FedAlone ==
  ASSUME TypeOK, NEW h \in Slot, NEW au \in Au, FeedUnit(h, au)
  PROVE  mf'[h].open = mf[h].open /\ \A g \in Slot \ {h} : mf'[g] = mf[g]
<1>1. \E w, q : mf' = [mf EXCEPT ![h].mft = w, ![h].ring = q]
  BY FeedEffect
<1>2. PICK w, q : mf' = [mf EXCEPT ![h].mft = w, ![h].ring = q]
  BY <1>1
<1>3. mf \in [Slot -> [open : BOOLEAN, mft : Seq(Au), ring : Seq(Au)]]
  BY DEF TypeOK
<1> QED
  BY ONLY <1>2, <1>3, h \in Slot

LEMMA UnitsAreNumbers ==
  ASSUME NEW s \in Seq(Au)
  PROVE  s \in Seq(Nat)
<1>1. \A i \in DOMAIN s : s[i] \in Au
  OBVIOUS
<1>2. \A i \in DOMAIN s : s[i] \in Nat
  BY <1>1 DEF Au
<1> QED
  BY <1>2, AllIn

\* No access unit beyond those there are gets into the MFT or the ring.
LEMMA FedUnits ==
  ASSUME NEW r \in Seq(Au), NEW u \in Seq(Au), NEW n \in 0 .. Len(u),
         NEW k \in Kept(SubSeq(u, 1, n)), NEW q \in Rings(r \o k, TRUE)
  PROVE  /\ SubSeq(u, n + 1, Len(u)) \in Seq(Au)
         /\ q \in Seq(Au) /\ Len(q) < RING
<1>2. \A s \in Seq(Au) : s \in Seq(Nat)
  BY UnitsAreNumbers
<1>3. PICK a : a = SubSeq(u, 1, n)
  OBVIOUS
<1>4. a \in Seq(Au) /\ SubSeq(u, n + 1, Len(u)) \in Seq(Au)
  BY <1>3, SubSeqProperties
<1>5. k \in Seq(Nat) /\ \A i \in DOMAIN k : \E j \in DOMAIN a : k[i] = a[j]
  BY <1>2, <1>3, <1>4, KeptPart
<1>6. k \in Seq(Au)
  <2>1. \A i \in DOMAIN k : k[i] \in Au
    BY <1>4, <1>5
  <2> QED
    BY <1>5, <2>1, AllIn
<1>7. PICK c : c = r \o k
  OBVIOUS
<1>8. c \in Seq(Au)
  BY <1>6, <1>7
<1>9. /\ q \in Seq(Nat) /\ Len(q) < RING
      /\ \A i \in DOMAIN q : \E j \in DOMAIN c : q[i] = c[j]
  BY <1>2, <1>7, <1>8, RingsPart
<1>10. q \in Seq(Au)
  <2>1. \A i \in DOMAIN q : q[i] \in Au
    BY <1>8, <1>9
  <2> QED
    BY <1>9, <2>1, AllIn
<1> QED
  BY <1>4, <1>7, <1>9, <1>10

LEMMA TypeInit == Init => TypeOK
BY DEF Init, TypeOK, Closed, Au, NoAu

LEMMA TypeStep == TypeOK /\ [Next]_vars => TypeOK'
<1> SUFFICES ASSUME TypeOK, [Next]_vars PROVE TypeOK'
  OBVIOUS
<1>1. CASE UNCHANGED vars
  BY <1>1 DEF vars, slotVars, callVars, histVars, TypeOK, Pending
<1>2. CASE Next
  <2> PICK h \in Slot :
        \/ \E hasCb, hasScratch, ok \in BOOLEAN : OpenEx(h, hasCb, hasScratch, ok)
        \/ StartSeq(h) \/ EndSeq(h) \/ Close(h)
        \/ \E empty \in BOOLEAN : DecodeAu(h, empty)
        \/ AuDone(h) \/ PicOut(h) \/ CallbackReturns(h)
        \/ GetPicItem(h) \/ GetPicture(h)
    BY <1>2 DEF Next
  <2>1. ASSUME NEW hasCb \in BOOLEAN, NEW hasScratch \in BOOLEAN, NEW ok \in BOOLEAN,
               OpenEx(h, hasCb, hasScratch, ok)
        PROVE  TypeOK'
    <3>1. /\ {in_use', seq', cb', scratch', raced'} \subseteq [Slot -> BOOLEAN]
          /\ UNCHANGED <<stage, told>>
      BY <2>1 DEF OpenEx, TypeOK
    <3>2. {pic', auOf', item'} \subseteq [Slot -> Au \cup {NoAu}]
      BY <2>1 DEF OpenEx, FreshPic, TypeOK
    <3>3. /\ mf' \in [Slot -> [open : BOOLEAN, mft : Seq(Au), ring : Seq(Au)]]
          /\ \A g \in Slot : Len(mf'[g].ring) < RING
      <4>1. PICK m : m = Opened(mf[h], ok)
        OBVIOUS
      <4>2. m \in [open : BOOLEAN, mft : Seq(Au), ring : Seq(Au)] /\ Len(m.ring) < RING
        <5>1. CASE m = mf[h]
          BY <5>1 DEF TypeOK
        <5>2. CASE m # mf[h]
          <6>1. m = [open |-> TRUE, mft |-> <<>>, ring |-> <<>>]
            BY <4>1, <5>2 DEF Opened, Closed
          <6>2. <<>> \in Seq(Au) /\ Len(<<>>) = 0
            OBVIOUS
          <6> QED
            BY <6>1, <6>2
        <5> QED
          BY <5>1, <5>2
      <4>3. mf' = [mf EXCEPT ![h] = m]
        BY <2>1, <4>1 DEF OpenEx, TypeOK
      <4> QED
        BY <4>2, <4>3 DEF TypeOK
    <3>4. {fed', got'} \subseteq [Slot -> Seq(Au)]
      BY <2>1 DEF OpenEx, TypeOK
    <3>5. decoded' \in 0 .. MaxAu /\ openings' \in 0 .. MaxOpen
      BY <2>1 DEF OpenEx, TypeOK
    <3> QED
      BY <3>1, <3>2, <3>3, <3>4, <3>5 DEF TypeOK
  <2>2. CASE StartSeq(h)
    BY <2>2 DEF StartSeq, callVars, histVars, TypeOK
  <2>3. CASE EndSeq(h)
    BY <2>3 DEF EndSeq, histVars, TypeOK
  <2>4. CASE Close(h)
    BY <2>4 DEF Close, Closed, callVars, histVars, TypeOK
  <2>5. ASSUME NEW empty \in BOOLEAN, DecodeAu(h, empty)
        PROVE  TypeOK'
    <3>1. decoded' \in Au /\ decoded' \in 0 .. MaxAu
      BY <2>5 DEF DecodeAu, TypeOK, Au
    <3>2. /\ mf' \in [Slot -> [open : BOOLEAN, mft : Seq(Au), ring : Seq(Au)]]
          /\ \A g \in Slot : Len(mf'[g].ring) < RING
      <4>1. CASE UNCHANGED mf
        BY <4>1 DEF TypeOK
      <4>2. CASE FeedUnit(h, decoded')
        <5>1. PICK u \in {mf[h].mft, Append(mf[h].mft, decoded')} :
                \E n \in 0 .. Len(u) : \E k \in Kept(SubSeq(u, 1, n)) :
                  \E q \in Rings(mf[h].ring \o k, TRUE) :
                    mf' = [mf EXCEPT ![h].mft = SubSeq(u, n + 1, Len(u)), ![h].ring = q]
          BY <3>1, <4>2, FeedEffect
        <5>2. PICK n \in 0 .. Len(u) : \E k \in Kept(SubSeq(u, 1, n)) :
                \E q \in Rings(mf[h].ring \o k, TRUE) :
                  mf' = [mf EXCEPT ![h].mft = SubSeq(u, n + 1, Len(u)), ![h].ring = q]
          BY <5>1
        <5>k. PICK k \in Kept(SubSeq(u, 1, n)) : \E q \in Rings(mf[h].ring \o k, TRUE) :
                mf' = [mf EXCEPT ![h].mft = SubSeq(u, n + 1, Len(u)), ![h].ring = q]
          BY <5>2
        <5>3. PICK q \in Rings(mf[h].ring \o k, TRUE) :
                mf' = [mf EXCEPT ![h].mft = SubSeq(u, n + 1, Len(u)), ![h].ring = q]
          BY <5>k
        <5>4. u \in Seq(Au) /\ mf[h].ring \in Seq(Au)
          <6>1. mf[h].mft \in Seq(Au) /\ mf[h].ring \in Seq(Au)
            BY DEF TypeOK
          <6>2. Append(mf[h].mft, decoded') \in Seq(Au)
            BY <3>1, <6>1
          <6> QED
            BY <5>1, <6>1, <6>2
        <5>5. PICK w : w = SubSeq(u, n + 1, Len(u))
          OBVIOUS
        <5>6. w \in Seq(Au) /\ q \in Seq(Au) /\ Len(q) < RING
          BY <5>4, <5>5, FedUnits
        <5>7. mf' = [mf EXCEPT ![h].mft = w, ![h].ring = q]
          BY <5>3, <5>5
        <5> QED
          BY <5>6, <5>7 DEF TypeOK
      <4> QED
        BY <2>5, <4>1, <4>2 DEF DecodeAu
    <3> QED
      <4>1. /\ {in_use', seq', cb', scratch', raced'} \subseteq [Slot -> BOOLEAN]
            /\ stage' \in [Slot -> {"none", "audone", "announce", "picout", "seqdone"}]
            /\ told' = told
        BY <2>5 DEF DecodeAu, slotVars, TypeOK
      <4>2. {pic', auOf', item'} \subseteq [Slot -> Au \cup {NoAu}]
        BY <2>5, <3>1 DEF DecodeAu, slotVars, TypeOK
      <4>3. {fed', got'} \subseteq [Slot -> Seq(Au)] /\ openings' \in 0 .. MaxOpen
        BY <2>5, <3>1 DEF DecodeAu, TypeOK
      <4> QED
        BY <3>1, <3>2, <4>1, <4>2, <4>3 DEF TypeOK
  <2>6. CASE AuDone(h)
    <3>1. {pic', auOf', item'} \subseteq [Slot -> Au \cup {NoAu}]
      BY <2>6 DEF AuDone, slotVars, TypeOK
    <3>2. stage' \in [Slot -> {"none", "audone", "announce", "picout", "seqdone"}]
      BY <2>6 DEF AuDone, TypeOK
    <3> QED
      BY <2>6, <3>1, <3>2 DEF AuDone, slotVars, histVars, TypeOK
  <2>10. CASE PicOut(h)
    <3>1. {pic', auOf', item'} \subseteq [Slot -> Au \cup {NoAu}]
      BY <2>10 DEF PicOut, TypeOK
    <3>2. stage' \in [Slot -> {"none", "audone", "announce", "picout", "seqdone"}]
      BY <2>10 DEF PicOut, TypeOK
    <3>3. told' \in [Slot -> SUBSET Au]
      <4>1. mf[h].ring \in Seq(Au)
        BY DEF TypeOK
      <4>2. ToSet(mf[h].ring) \subseteq Au
        BY <4>1 DEF ToSet
      <4> QED
        BY <2>10, <4>2 DEF PicOut, TypeOK
    <3> QED
      BY <2>10, <3>1, <3>2, <3>3 DEF PicOut, histVars, TypeOK
  <2>7. CASE CallbackReturns(h)
    BY <2>7 DEF CallbackReturns, slotVars, histVars, TypeOK
  <2>8. CASE GetPicItem(h)
    <3>1. {pic', auOf', item'} \subseteq [Slot -> Au \cup {NoAu}]
      BY <2>8 DEF GetPicItem, slotVars, callVars, TypeOK
    <3> QED
      BY <2>8, <3>1 DEF GetPicItem, slotVars, callVars, histVars, TypeOK
  <2>9. CASE GetPicture(h)
    <3>1. mf[h].ring \in Seq(Au) /\ Len(mf[h].ring) > 0
      BY <2>9 DEF GetPicture, Pending, TypeOK
    <3>2. /\ Head(mf[h].ring) \in Au /\ Tail(mf[h].ring) \in Seq(Au)
          /\ Len(Tail(mf[h].ring)) < RING
      BY <3>1, HeadTailProperties DEF TypeOK
    <3> QED
      <4>1. /\ {in_use', seq', cb', scratch', raced'} \subseteq [Slot -> BOOLEAN]
            /\ {pic', auOf', item'} \subseteq [Slot -> Au \cup {NoAu}]
            /\ UNCHANGED <<stage, told>>
        BY <2>9 DEF GetPicture, slotVars, callVars, TypeOK
      <4>2. /\ mf' \in [Slot -> [open : BOOLEAN, mft : Seq(Au), ring : Seq(Au)]]
            /\ \A g \in Slot : Len(mf'[g].ring) < RING
        <5>1. PICK r : r = Tail(mf[h].ring)
          OBVIOUS
        <5>2. r \in Seq(Au) /\ Len(r) < RING
          BY <3>2, <5>1
        <5>3. /\ mf \in [Slot -> [open : BOOLEAN, mft : Seq(Au), ring : Seq(Au)]]
              /\ \A g \in Slot : Len(mf[g].ring) < RING
          BY DEF TypeOK
        <5>4. mf' = [mf EXCEPT ![h].ring = r]
          BY <2>9, <5>1, <5>3 DEF GetPicture
        <5> QED
          BY <5>2, <5>3, <5>4
      <4>3. {fed', got'} \subseteq [Slot -> Seq(Au)]
        BY <2>9, <3>2 DEF GetPicture, TypeOK
      <4> QED
        BY <2>9, <4>1, <4>2, <4>3 DEF GetPicture, TypeOK
  <2> QED
    BY <2>1, <2>2, <2>3, <2>4, <2>5, <2>6, <2>7, <2>8, <2>9, <2>10
<1> QED
  BY <1>1, <1>2

\* The slots, the calls on them and their histories keep their types, and a
\* ring of RING slots never holds as many frames.
THEOREM TypeCorrect == Spec => []TypeOK
BY TypeInit, TypeStep, PTL DEF Spec

-----------------------------------------------------------------------------
(* Slots that are not in use, and pictures.                                *)

\* A slot that is not in use has no frame and no unit.
Held ==
  \A h \in Slot :
    /\ mf[h].open => in_use[h]
    /\ ~mf[h].open => mf[h] = Closed

LineOf(h) == Line(got[h], mf[h].ring, mf[h].mft, fed[h], decoded)
Lines == \A h \in Slot : LineOf(h)

\* The unit a call will store, and the ones already stored, are of this opening.
OwnUnits ==
  \A h \in Slot :
    /\ stage[h] = "audone" /\ Len(mf[h].ring) > 0 => auOf[h] \in ToSet(fed[h])
    /\ in_use[h] /\ ~raced[h] =>
         /\ stage[h] = "announce" => auOf[h] \in ToSet(fed[h])
         /\ {pic[h], item[h]} \subseteq ToSet(fed[h]) \cup {NoAu}

DecoderInv == TypeOK /\ Held /\ Lines /\ OwnUnits /\ NoneUnannounced

\* The slot's own state is as it was: its line is, and later units are beyond it.
LEMMA LineKept ==
  ASSUME TypeOK, TypeOK', NEW h \in Slot, LineOf(h), decoded <= decoded',
         got'[h] = got[h], mf'[h] = mf[h], fed'[h] = fed[h]
  PROVE  LineOf(h)'
<1>1. /\ got[h] \in Seq(Au) /\ mf[h].ring \in Seq(Au) /\ mf[h].mft \in Seq(Au)
      /\ decoded \in Nat /\ decoded' \in Nat
  BY DEF TypeOK
<1>2. got[h] \in Seq(Nat) /\ mf[h].ring \in Seq(Nat) /\ mf[h].mft \in Seq(Nat)
  BY <1>1, UnitsAreNumbers
<1> QED
  BY <1>1, <1>2, LineLater DEF LineOf

LEMMA DecoderInit == Init => DecoderInv
<1> SUFFICES ASSUME Init PROVE DecoderInv
  OBVIOUS
<1>1. TypeOK
  BY TypeInit
<1>2. Held
  BY DEF Init, Held, Closed
<1>3. Lines
  BY LineNew DEF Init, Lines, LineOf, Closed
<1>4. OwnUnits
  BY DEF Init, OwnUnits
<1>5. NoneUnannounced
  BY DEF Init, NoneUnannounced
<1> QED
  BY <1>1, <1>2, <1>3, <1>4, <1>5 DEF DecoderInv

LEMMA HeldStep == TypeOK /\ Held /\ [Next]_vars => Held'
<1> SUFFICES ASSUME TypeOK, Held, [Next]_vars PROVE Held'
  OBVIOUS
<1>1. CASE UNCHANGED vars
  BY <1>1 DEF vars, slotVars, Held
<1>2. CASE Next
  <2> PICK h \in Slot :
        \/ \E hasCb, hasScratch, ok \in BOOLEAN : OpenEx(h, hasCb, hasScratch, ok)
        \/ StartSeq(h) \/ EndSeq(h) \/ Close(h)
        \/ \E empty \in BOOLEAN : DecodeAu(h, empty)
        \/ AuDone(h) \/ PicOut(h) \/ CallbackReturns(h)
        \/ GetPicItem(h) \/ GetPicture(h)
    BY <1>2 DEF Next
  <2>1. ASSUME NEW hasCb \in BOOLEAN, NEW hasScratch \in BOOLEAN, NEW ok \in BOOLEAN,
               OpenEx(h, hasCb, hasScratch, ok)
        PROVE  Held'
    <3>1. mf[h] = Closed
      BY <2>1 DEF OpenEx, FirstFree, Free, Held
    <3>2. mf'[h] \in {Closed, [Closed EXCEPT !.open = TRUE]}
      BY <2>1, <3>1 DEF OpenEx, Opened, TypeOK
    <3>3. ~mf'[h].open => mf'[h] = Closed
      <4>1. CASE mf'[h] = [Closed EXCEPT !.open = TRUE]
        <5>1. [Closed EXCEPT !.open = TRUE].open = TRUE
          BY DEF Closed
        <5> QED
          BY <4>1, <5>1
      <4> QED
        BY <3>2, <4>1
    <3>4. in_use'[h] /\ \A g \in Slot \ {h} : mf'[g] = mf[g] /\ in_use'[g] = in_use[g]
      BY <2>1 DEF OpenEx, TypeOK
    <3> QED
      BY <3>3, <3>4 DEF Held
  <2>2. CASE Close(h)
    <3>1. mf'[h] = Closed /\ \A g \in Slot \ {h} : mf'[g] = mf[g] /\ in_use'[g] = in_use[g]
      BY <2>2 DEF Close, TypeOK, Held
    <3> QED
      BY <3>1 DEF Held, Closed
  <2>3. ASSUME NEW empty \in BOOLEAN, DecodeAu(h, empty)
        PROVE  Held'
    <3>1. in_use[h] /\ in_use' = in_use
      BY <2>3 DEF DecodeAu, slotVars
    <3>2. CASE UNCHANGED mf
      BY <3>1, <3>2 DEF Held
    <3>3. CASE mf[h].open /\ FeedUnit(h, decoded')
      <4>1. mf'[h].open = mf[h].open /\ \A g \in Slot \ {h} : mf'[g] = mf[g]
        <5>1. decoded' \in Au
          BY <2>3 DEF DecodeAu, TypeOK, Au
        <5> QED
          BY <3>3, <5>1, FedAlone
      <4> QED
        BY <3>1, <3>3, <4>1 DEF Held
    <3> QED
      BY <2>3, <3>2, <3>3 DEF DecodeAu
  <2>4. CASE GetPicture(h)
    <3>1. mf[h].open
      BY <2>4 DEF GetPicture, Pending
    <3>2. mf'[h].open = mf[h].open /\ \A g \in Slot \ {h} : mf'[g] = mf[g]
      BY <2>4 DEF GetPicture, TypeOK
    <3>3. in_use' = in_use
      BY <2>4 DEF GetPicture, slotVars
    <3> QED
      BY <3>1, <3>2, <3>3 DEF Held
  <2>5. CASE StartSeq(h) \/ EndSeq(h) \/ AuDone(h) \/ PicOut(h)
         \/ CallbackReturns(h) \/ GetPicItem(h)
    <3>1. UNCHANGED <<mf, in_use>>
      BY <2>5 DEF StartSeq, EndSeq, AuDone, PicOut, CallbackReturns, GetPicItem, slotVars
    <3> QED
      BY <3>1 DEF Held
  <2> QED
    BY <2>1, <2>2, <2>3, <2>4, <2>5
<1> QED
  BY <1>1, <1>2

LEMMA LinesStep == TypeOK /\ TypeOK' /\ Held /\ Lines /\ [Next]_vars => Lines'
<1> SUFFICES ASSUME TypeOK, TypeOK', Held, Lines, [Next]_vars PROVE Lines'
  OBVIOUS
<1>0. decoded \in Nat /\ decoded' \in Nat
  BY DEF TypeOK
<1>1. CASE UNCHANGED vars
  <2>1. decoded <= decoded' /\ UNCHANGED <<got, mf, fed>>
    BY <1>0, <1>1 DEF vars, histVars
  <2> QED
    BY <2>1, LineKept DEF Lines
<1>2. CASE Next
  <2> PICK h \in Slot :
        \/ \E hasCb, hasScratch, ok \in BOOLEAN : OpenEx(h, hasCb, hasScratch, ok)
        \/ StartSeq(h) \/ EndSeq(h) \/ Close(h)
        \/ \E empty \in BOOLEAN : DecodeAu(h, empty)
        \/ AuDone(h) \/ PicOut(h) \/ CallbackReturns(h)
        \/ GetPicItem(h) \/ GetPicture(h)
    BY <1>2 DEF Next
  <2>0. /\ got[h] \in Seq(Nat) /\ mf[h].ring \in Seq(Nat) /\ mf[h].mft \in Seq(Nat)
        /\ fed[h] \in Seq(Nat)
    <3>1. /\ got[h] \in Seq(Au) /\ mf[h].ring \in Seq(Au) /\ mf[h].mft \in Seq(Au)
          /\ fed[h] \in Seq(Au)
      BY DEF TypeOK
    <3> QED
      BY <3>1, UnitsAreNumbers
  <2>o. ASSUME \A g \in Slot \ {h} : got'[g] = got[g] /\ mf'[g] = mf[g] /\ fed'[g] = fed[g],
               decoded <= decoded', LineOf(h)'
        PROVE  Lines'
    <3>1. \A g \in Slot \ {h} : LineOf(g)'
      BY <2>o, LineKept DEF Lines
    <3> QED
      BY <2>o, <3>1 DEF Lines
  <2>1. ASSUME NEW hasCb \in BOOLEAN, NEW hasScratch \in BOOLEAN, NEW ok \in BOOLEAN,
               OpenEx(h, hasCb, hasScratch, ok)
        PROVE  Lines'
    <3>1. mf[h] = Closed
      BY <2>1 DEF OpenEx, FirstFree, Free, Held
    <3>2. mf'[h] \in {Closed, [Closed EXCEPT !.open = TRUE]}
      BY <2>1, <3>1 DEF OpenEx, Opened, TypeOK
    <3>3. mf'[h].ring = <<>> /\ mf'[h].mft = <<>>
      BY <3>2 DEF Closed
    <3>4. got'[h] = <<>> /\ fed'[h] = <<>> /\ decoded' = decoded
      BY <2>1 DEF OpenEx, TypeOK
    <3>5. LineOf(h)'
      BY <3>3, <3>4, LineNew DEF LineOf
    <3>6. \A g \in Slot \ {h} : got'[g] = got[g] /\ mf'[g] = mf[g] /\ fed'[g] = fed[g]
      BY <2>1 DEF OpenEx, TypeOK
    <3> QED
      BY <1>0, <2>o, <3>4, <3>5, <3>6
  <2>2. CASE Close(h)
    <3>1. /\ mf'[h] = Closed /\ \A g \in Slot \ {h} : mf'[g] = mf[g]
          /\ UNCHANGED <<got, fed, decoded>>
      BY <2>2 DEF Close, TypeOK, Held, histVars
    <3>2. mf'[h].ring = <<>> /\ mf'[h].mft = <<>>
      BY <3>1 DEF Closed
    <3>3. LineOf(h)'
      BY <3>1, <3>2, LineCut DEF LineOf, Lines
    <3> QED
      BY <1>0, <2>o, <3>1, <3>3
  <2>3. ASSUME NEW empty \in BOOLEAN, DecodeAu(h, empty)
        PROVE  Lines'
    <3>1. /\ decoded' = decoded + 1 /\ got' = got
          /\ fed'[h] = Append(fed[h], decoded + 1)
          /\ \A g \in Slot \ {h} : fed'[g] = fed[g]
      BY <2>3 DEF DecodeAu, TypeOK
    <3>2. CASE UNCHANGED mf
      <4>1. LineOf(h)'
        BY <1>0, <2>0, <3>1, <3>2, LineFed DEF LineOf, Lines
      <4> QED
        BY <1>0, <2>o, <3>1, <3>2, <4>1
    <3>3. CASE FeedUnit(h, decoded')
      <4>0. decoded' \in Au
        BY <2>3 DEF DecodeAu, TypeOK, Au
      <4>1. PICK u \in {mf[h].mft, Append(mf[h].mft, decoded')} :
              \E n \in 0 .. Len(u) : \E k \in Kept(SubSeq(u, 1, n)) :
                \E q \in Rings(mf[h].ring \o k, TRUE) :
                  mf' = [mf EXCEPT ![h].mft = SubSeq(u, n + 1, Len(u)), ![h].ring = q]
        BY <3>3, <4>0, FeedEffect
      <4>2. PICK n \in 0 .. Len(u) : \E k \in Kept(SubSeq(u, 1, n)) :
              \E q \in Rings(mf[h].ring \o k, TRUE) :
                mf' = [mf EXCEPT ![h].mft = SubSeq(u, n + 1, Len(u)), ![h].ring = q]
        BY <4>1
      <4>k. PICK k \in Kept(SubSeq(u, 1, n)) : \E q \in Rings(mf[h].ring \o k, TRUE) :
              mf' = [mf EXCEPT ![h].mft = SubSeq(u, n + 1, Len(u)), ![h].ring = q]
        BY <4>2
      <4>3. PICK q \in Rings(mf[h].ring \o k, TRUE) :
              mf' = [mf EXCEPT ![h].mft = SubSeq(u, n + 1, Len(u)), ![h].ring = q]
        BY <4>k
      <4>4. /\ mf'[h].mft = SubSeq(u, n + 1, Len(u)) /\ mf'[h].ring = q
            /\ \A g \in Slot \ {h} : mf'[g] = mf[g]
        BY <4>3 DEF TypeOK
      <4>5. u \in Seq(Nat) /\ u \in {mf[h].mft, Append(mf[h].mft, decoded + 1)}
        <5>1. u \in {mf[h].mft, Append(mf[h].mft, decoded + 1)}
          BY <3>1, <4>1
        <5>2. mf[h].mft \in Seq(Nat) /\ decoded + 1 \in Nat
          BY <1>0, <2>0
        <5>3. Append(mf[h].mft, decoded + 1) \in Seq(Nat)
          BY <5>2
        <5> QED
          BY <5>1, <5>2, <5>3
      <4>6. Line(got[h], mf[h].ring, u, Append(fed[h], decoded + 1), decoded + 1)
        BY <1>0, <2>0, <4>5, LineUnits DEF Lines, LineOf
      <4>7. Line(got[h], q, SubSeq(u, n + 1, Len(u)), Append(fed[h], decoded + 1), decoded + 1)
        <5>0. PICK r, g : r = mf[h].ring /\ g = got[h]
          OBVIOUS
        <5>1. PICK f, d : f = Append(fed[h], decoded + 1) /\ d = decoded + 1
          OBVIOUS
        <5>2. Line(g, r, u, f, d) /\ q \in Rings(r \o k, TRUE)
          BY <4>6, <5>0, <5>1
        <5>3. u \in Seq(Nat) /\ n \in 0 .. Len(u) /\ k \in Kept(SubSeq(u, 1, n))
          BY <4>5
        <5>4. r \in Seq(Nat) /\ g \in Seq(Nat) /\ d \in Nat
          BY <1>0, <2>0, <5>0, <5>1
        <5>5. Line(g, q, SubSeq(u, n + 1, Len(u)), f, d)
          BY ONLY <5>2, <5>3, <5>4, LineDrained
        <5> QED
          BY <5>0, <5>1, <5>5
      <4>8. LineOf(h)'
        BY <3>1, <4>4, <4>7 DEF LineOf
      <4> QED
        BY <1>0, <2>o, <3>1, <4>4, <4>8
    <3> QED
      BY <2>3, <3>2, <3>3 DEF DecodeAu
  <2>4. CASE GetPicture(h)
    <3>1. mf[h].open /\ Len(mf[h].ring) > 0
      BY <2>4 DEF GetPicture, Pending, TypeOK
    <3>2. /\ got'[h] = Append(got[h], Head(mf[h].ring))
          /\ mf'[h].ring = Tail(mf[h].ring) /\ mf'[h].mft = mf[h].mft
          /\ UNCHANGED <<fed, decoded>>
          /\ \A g \in Slot \ {h} : got'[g] = got[g] /\ mf'[g] = mf[g]
      BY <2>4 DEF GetPicture, TypeOK
    <3>3. LineOf(h)'
      BY <1>0, <2>0, <3>1, <3>2, LineTaken DEF LineOf, Lines
    <3> QED
      BY <1>0, <2>o, <3>2, <3>3
  <2>5. CASE StartSeq(h) \/ EndSeq(h) \/ AuDone(h) \/ PicOut(h)
         \/ CallbackReturns(h) \/ GetPicItem(h)
    <3>1. UNCHANGED <<mf, got, fed, decoded>>
      BY <2>5 DEF StartSeq, EndSeq, AuDone, PicOut, CallbackReturns, GetPicItem, slotVars, histVars
    <3> QED
      BY <1>0, <3>1, LineKept DEF Lines
  <2> QED
    BY <2>1, <2>2, <2>3, <2>4, <2>5
<1> QED
  BY <1>1, <1>2

LEMMA OwnUnitsStep ==
  TypeOK /\ Held /\ OwnUnits /\ [Next]_vars => OwnUnits'
<1> SUFFICES ASSUME TypeOK, Held, OwnUnits, [Next]_vars PROVE OwnUnits'
  OBVIOUS
<1>1. CASE UNCHANGED vars
  BY <1>1 DEF vars, slotVars, callVars, histVars, OwnUnits
<1>2. CASE Next
  <2> PICK h \in Slot :
        \/ \E hasCb, hasScratch, ok \in BOOLEAN : OpenEx(h, hasCb, hasScratch, ok)
        \/ StartSeq(h) \/ EndSeq(h) \/ Close(h)
        \/ \E empty \in BOOLEAN : DecodeAu(h, empty)
        \/ AuDone(h) \/ PicOut(h) \/ CallbackReturns(h)
        \/ GetPicItem(h) \/ GetPicture(h)
    BY <1>2 DEF Next
  <2>1. ASSUME NEW hasCb \in BOOLEAN, NEW hasScratch \in BOOLEAN, NEW ok \in BOOLEAN,
               OpenEx(h, hasCb, hasScratch, ok)
        PROVE  OwnUnits'
    <3>1. mf[h] = Closed
      BY <2>1 DEF OpenEx, FirstFree, Free, Held
    <3>2. mf'[h] \in {Closed, [Closed EXCEPT !.open = TRUE]}
      BY <2>1, <3>1 DEF OpenEx, Opened, TypeOK
    <3>3. ~(Len(mf'[h].ring) > 0)
      <4>1. mf'[h].ring = <<>>
        BY <3>2 DEF Closed
      <4> QED
        BY <4>1
    <3>4. pic'[h] = NoAu /\ item'[h] = NoAu
      BY <2>1 DEF OpenEx, FreshPic, TypeOK
    <3>5. /\ UNCHANGED <<stage, auOf>> /\ raced'[h] = (stage[h] = "announce")
          /\ \A g \in Slot \ {h} :
               /\ mf'[g] = mf[g] /\ fed'[g] = fed[g] /\ in_use'[g] = in_use[g]
               /\ pic'[g] = pic[g] /\ item'[g] = item[g] /\ raced'[g] = raced[g]
      BY <2>1 DEF OpenEx, FreshPic, TypeOK
    <3> QED
      BY <3>3, <3>4, <3>5 DEF OwnUnits
  <2>2. CASE Close(h)
    <3>1. /\ mf'[h] = Closed /\ in_use'[h] = FALSE
          /\ UNCHANGED <<stage, auOf, raced, fed, pic, item>>
          /\ \A g \in Slot \ {h} : mf'[g] = mf[g] /\ in_use'[g] = in_use[g]
      BY <2>2 DEF Close, Held, callVars, histVars, TypeOK
    <3>2. ~(Len(mf'[h].ring) > 0)
      <4>1. mf'[h].ring = <<>>
        BY <3>1 DEF Closed
      <4> QED
        BY <4>1
    <3> QED
      BY <3>1, <3>2 DEF OwnUnits
  <2>3. ASSUME NEW empty \in BOOLEAN, DecodeAu(h, empty)
        PROVE  OwnUnits'
    <3>1. /\ decoded' = decoded + 1 /\ decoded \in Nat
          /\ auOf'[h] = decoded' /\ fed'[h] = Append(fed[h], decoded')
          /\ UNCHANGED <<in_use, pic, item, raced>> /\ stage'[h] = "audone"
          /\ \A g \in Slot \ {h} :
               fed'[g] = fed[g] /\ auOf'[g] = auOf[g] /\ stage'[g] = stage[g]
      BY <2>3 DEF DecodeAu, slotVars, TypeOK
    <3>2. \A g \in Slot \ {h} : mf'[g] = mf[g]
      <4>1. decoded' \in Au
        BY <2>3 DEF DecodeAu, TypeOK, Au
      <4> QED
        BY <2>3, <4>1, FedAlone DEF DecodeAu
    <3>3. fed[h] \in Seq(Nat)
      BY UnitsAreNumbers DEF TypeOK
    <3>4. ToSet(fed'[h]) = ToSet(fed[h]) \cup {decoded'}
      BY <3>1, <3>3, ToSetAppend
    <3> QED
      BY <3>1, <3>2, <3>4 DEF OwnUnits
  <2>4. CASE AuDone(h)
    <3>1. /\ stage[h] = "audone" /\ UNCHANGED <<in_use, pic, mf, item, fed, raced>>
          /\ \A g \in Slot \ {h} : auOf'[g] = auOf[g] /\ stage'[g] = stage[g]
      BY <2>4 DEF AuDone, slotVars, histVars, TypeOK
    <3>2. /\ stage'[h] # "audone"
          /\ stage'[h] = "announce" => Len(mf[h].ring) > 0 /\ auOf'[h] = auOf[h]
      BY <2>4 DEF AuDone, Pending, TypeOK
    <3> QED
      BY <3>1, <3>2 DEF OwnUnits
  <2>10. CASE PicOut(h)
    <3>1. /\ stage[h] = "announce" /\ pic'[h] = auOf[h]
          /\ stage'[h] \notin {"audone", "announce"}
          /\ UNCHANGED <<in_use, mf, item, fed, raced>>
          /\ \A g \in Slot \ {h} :
               auOf'[g] = auOf[g] /\ stage'[g] = stage[g] /\ pic'[g] = pic[g]
      BY <2>10 DEF PicOut, histVars, TypeOK
    <3> QED
      BY <3>1 DEF OwnUnits
  <2>5. CASE GetPicItem(h)
    <3>1. /\ item'[h] = pic[h] /\ UNCHANGED <<in_use, mf, pic, fed, stage, auOf, raced>>
          /\ \A g \in Slot \ {h} : item'[g] = item[g]
      BY <2>5 DEF GetPicItem, slotVars, callVars, histVars, TypeOK
    <3> QED
      BY <3>1 DEF OwnUnits
  <2>6. CASE GetPicture(h)
    <3>1. mf[h].ring \in Seq(Nat) /\ Len(mf[h].ring) > 0
      BY <2>6, UnitsAreNumbers DEF GetPicture, Pending, TypeOK
    <3>2. /\ UNCHANGED <<in_use, pic, item, fed, stage, auOf, raced>>
          /\ \A g \in Slot \ {h} : mf'[g] = mf[g]
      BY <2>6 DEF GetPicture, slotVars, callVars, TypeOK
    <3> QED
      BY <3>1, <3>2 DEF OwnUnits
  <2>7. CASE CallbackReturns(h)
    <3>1. /\ stage'[h] = "none" /\ UNCHANGED <<in_use, mf, pic, item, fed, auOf, raced>>
          /\ \A g \in Slot \ {h} : stage'[g] = stage[g]
      BY <2>7 DEF CallbackReturns, slotVars, histVars, TypeOK
    <3> QED
      BY <3>1 DEF OwnUnits
  <2>8. CASE EndSeq(h)
    <3>1. /\ stage'[h] \notin {"audone", "announce"}
          /\ UNCHANGED <<in_use, mf, pic, item, fed, auOf, raced>>
          /\ \A g \in Slot \ {h} : stage'[g] = stage[g]
      BY <2>8 DEF EndSeq, histVars, TypeOK
    <3> QED
      BY <3>1 DEF OwnUnits
  <2>9. CASE StartSeq(h)
    BY <2>9 DEF StartSeq, callVars, histVars, OwnUnits
  <2> QED
    BY <2>1, <2>2, <2>3, <2>4, <2>5, <2>6, <2>7, <2>8, <2>9, <2>10
<1> QED
  BY <1>1, <1>2

LEMMA AnnounceStep ==
  TypeOK /\ Held /\ NoneUnannounced /\ [Next]_vars => NoneUnannounced'
<1> SUFFICES ASSUME TypeOK, Held, NoneUnannounced, [Next]_vars PROVE NoneUnannounced'
  OBVIOUS
<1> DEFINE Over(h) == in_use[h] /\ cb[h] /\ stage[h] \notin {"audone", "announce"}
<1>1. CASE UNCHANGED vars
  BY <1>1 DEF vars, slotVars, callVars, NoneUnannounced
<1>2. CASE Next
  <2> PICK h \in Slot :
        \/ \E hasCb, hasScratch, ok \in BOOLEAN : OpenEx(h, hasCb, hasScratch, ok)
        \/ StartSeq(h) \/ EndSeq(h) \/ Close(h)
        \/ \E empty \in BOOLEAN : DecodeAu(h, empty)
        \/ AuDone(h) \/ PicOut(h) \/ CallbackReturns(h)
        \/ GetPicItem(h) \/ GetPicture(h)
    BY <1>2 DEF Next
  <2>o. ASSUME \A g \in Slot \ {h} :
                 /\ mf'[g] = mf[g] /\ told'[g] = told[g] /\ stage'[g] = stage[g]
                 /\ in_use'[g] = in_use[g] /\ cb'[g] = cb[g],
               Over(h)' => ToSet(mf'[h].ring) \subseteq told'[h]
        PROVE  NoneUnannounced'
    BY <2>o DEF NoneUnannounced
  <2>e. ASSUME NEW m, m.ring = <<>>
        PROVE  ToSet(m.ring) = {}
    BY <2>e DEF ToSet
  <2>1. ASSUME NEW hasCb \in BOOLEAN, NEW hasScratch \in BOOLEAN, NEW ok \in BOOLEAN,
               OpenEx(h, hasCb, hasScratch, ok)
        PROVE  NoneUnannounced'
    <3>1. mf[h] = Closed
      BY <2>1 DEF OpenEx, FirstFree, Free, Held
    <3>2. mf'[h] \in {Closed, [Closed EXCEPT !.open = TRUE]}
      BY <2>1, <3>1 DEF OpenEx, Opened, TypeOK
    <3>3. mf'[h].ring = <<>>
      BY <3>2 DEF Closed
    <3>4. \A g \in Slot \ {h} :
            /\ mf'[g] = mf[g] /\ told'[g] = told[g] /\ stage'[g] = stage[g]
            /\ in_use'[g] = in_use[g] /\ cb'[g] = cb[g]
      BY <2>1 DEF OpenEx, TypeOK
    <3>5. ToSet(mf'[h].ring) = {}
      BY <2>e, <3>3
    <3> HIDE DEF Over
    <3> QED
      BY <2>o, <3>4, <3>5
  <2>2. CASE Close(h)
    <3>1. ~in_use'[h]
      BY <2>2 DEF Close, TypeOK
    <3>2. \A g \in Slot \ {h} :
            /\ mf'[g] = mf[g] /\ told'[g] = told[g] /\ stage'[g] = stage[g]
            /\ in_use'[g] = in_use[g] /\ cb'[g] = cb[g]
      BY <2>2 DEF Close, callVars, TypeOK
    <3> QED
      BY <2>o, <3>1, <3>2
  <2>3. ASSUME NEW empty \in BOOLEAN, DecodeAu(h, empty)
        PROVE  NoneUnannounced'
    <3>1. stage'[h] = "audone"
      BY <2>3 DEF DecodeAu, TypeOK
    <3>2. \A g \in Slot \ {h} : mf'[g] = mf[g]
      <4>1. CASE UNCHANGED mf
        BY <4>1
      <4>2. CASE FeedUnit(h, decoded')
        <5>1. decoded' \in Au
          BY <2>3 DEF DecodeAu, TypeOK, Au
        <5> QED
          BY <4>2, <5>1, FedAlone
      <4> QED
        BY <2>3, <4>1, <4>2 DEF DecodeAu
    <3>3. \A g \in Slot \ {h} :
            /\ told'[g] = told[g] /\ stage'[g] = stage[g]
            /\ in_use'[g] = in_use[g] /\ cb'[g] = cb[g]
      BY <2>3 DEF DecodeAu, slotVars, TypeOK
    <3> QED
      BY <2>o, <3>1, <3>2, <3>3
  <2>4. CASE AuDone(h)
    <3>1. /\ UNCHANGED <<mf, told, in_use, cb>>
          /\ \A g \in Slot \ {h} : stage'[g] = stage[g]
      BY <2>4 DEF AuDone, slotVars, TypeOK
    <3>2. stage'[h] \notin {"audone", "announce"} => ~(Pending(h) > 0)
      BY <2>4 DEF AuDone, TypeOK
    <3>3. ~(Pending(h) > 0) => ToSet(mf[h].ring) = {}
      <4>1. mf[h].ring \in Seq(Au)
        BY DEF TypeOK
      <4>2. ~(Pending(h) > 0) => mf[h].ring = <<>>
        <5>1. CASE mf[h].open
          BY <4>1, <5>1 DEF Pending
        <5>2. CASE ~mf[h].open
          BY <5>2 DEF Held, Closed
        <5> QED
          BY <5>1, <5>2
      <4> QED
        BY <2>e, <4>2
    <3> QED
      BY <2>o, <3>1, <3>2, <3>3
  <2>5. CASE PicOut(h)
    <3>1. /\ UNCHANGED <<mf, in_use, cb>>
          /\ \A g \in Slot \ {h} : stage'[g] = stage[g] /\ told'[g] = told[g]
          /\ cb[h] => told'[h] = ToSet(mf[h].ring)
      BY <2>5 DEF PicOut, TypeOK
    <3> QED
      BY <2>o, <3>1
  <2>6. CASE GetPicture(h)
    <3>1. /\ mf'[h].ring = Tail(mf[h].ring) /\ \A g \in Slot \ {h} : mf'[g] = mf[g]
          /\ UNCHANGED <<told, stage, in_use, cb>>
      BY <2>6 DEF GetPicture, slotVars, callVars, TypeOK
    <3>2. mf[h].ring \in Seq(Au) /\ Len(mf[h].ring) > 0
      BY <2>6 DEF GetPicture, Pending, TypeOK
    <3>3. ToSet(Tail(mf[h].ring)) \subseteq ToSet(mf[h].ring)
      <4>1. PICK r : r = mf[h].ring
        OBVIOUS
      <4>2. \A i \in DOMAIN Tail(r) : i + 1 \in DOMAIN r /\ Tail(r)[i] = r[i + 1]
        BY <3>2, <4>1, HeadTailProperties
      <4> QED
        BY <4>1, <4>2 DEF ToSet
    <3> QED
      BY <2>o, <3>1, <3>3 DEF NoneUnannounced
  <2>7. CASE CallbackReturns(h)
    <3>1. /\ stage[h] \notin {"audone", "announce"}
          /\ UNCHANGED <<mf, told, in_use, cb>>
          /\ \A g \in Slot \ {h} : stage'[g] = stage[g]
      BY <2>7 DEF CallbackReturns, slotVars, TypeOK
    <3> QED
      BY <2>o, <3>1 DEF NoneUnannounced
  <2>8. CASE EndSeq(h)
    <3>1. /\ stage[h] = "none" /\ UNCHANGED <<mf, told, in_use, cb>>
          /\ \A g \in Slot \ {h} : stage'[g] = stage[g]
      BY <2>8 DEF EndSeq, TypeOK
    <3> QED
      BY <2>o, <3>1 DEF NoneUnannounced
  <2>9. CASE StartSeq(h) \/ GetPicItem(h)
    <3>1. UNCHANGED <<mf, stage, told, in_use, cb>>
      BY <2>9 DEF StartSeq, GetPicItem, slotVars, callVars
    <3> QED
      BY <3>1 DEF NoneUnannounced
  <2> QED
    BY <2>1, <2>2, <2>3, <2>4, <2>5, <2>6, <2>7, <2>8, <2>9
<1> QED
  BY <1>1, <1>2

LEMMA DecoderStep == DecoderInv /\ [Next]_vars => DecoderInv'
BY TypeStep, HeldStep, LinesStep, OwnUnitsStep, AnnounceStep DEF DecoderInv

LEMMA DecoderInvariant == Spec => []DecoderInv
BY DecoderInit, DecoderStep, PTL DEF Spec

-----------------------------------------------------------------------------
\* Pictures fetched from a decoder are of units fed to it since it was opened,
\* each at most once and in decode order: GetPicture hands out of the ring what
\* DecodeAu put there, and Close empties both.
THEOREM PicturesAreOwn == Spec => []OwnPictures
<1>1. ASSUME DecoderInv PROVE OwnPictures
  BY <1>1 DEF DecoderInv, Lines, LineOf, Line, Increasing, From, OwnPictures, ToSet
<1>2. DecoderInv => OwnPictures
  BY <1>1
<1> QED
  BY <1>2, DecoderInvariant, PTL

\* A picture item describes a unit of the decoder that has the slot, whatever
\* the AUDONE callback did to the slot before DecodeAu looked at the ring.
THEOREM ItemIsOwn == Spec => []OwnItem
<1>1. ASSUME DecoderInv PROVE OwnItem
  BY <1>1 DEF DecoderInv, OwnUnits, OwnItem
<1>2. DecoderInv => OwnItem
  BY <1>1
<1> QED
  BY <1>2, DecoderInvariant, PTL

\* No picture waits that PICOUT was not sent for since it came: the call that
\* feeds looks at the ring after its AUDONE, and nothing else adds to the ring.
THEOREM AllAnnounced == Spec => []NoneUnannounced
<1>1. DecoderInv => NoneUnannounced
  BY DEF DecoderInv
<1> QED
  BY <1>1, DecoderInvariant, PTL

-----------------------------------------------------------------------------
(* The ring, a frame at a time. *)

\* One push of vdec_mf.cpp: a full ring drops its oldest frame, then takes f.
\* These are DropOldest and Put of FrameQueueSpec, of capacity RING - 1.
Pushed(q, f) == IF Len(q) = RING - 1 THEN Append(Tail(q), f) ELSE Append(q, f)

LEMMA NewestPushes ==
  ASSUME NEW q \in Seq(Nat), NEW f \in Nat
  PROVE  Newest(Append(q, f)) = Pushed(Newest(q), f)
<1>1. RING \in Nat /\ RING >= 2
  OBVIOUS
<1>2. CASE Len(q) < RING - 1
  BY <1>1, <1>2 DEF Newest, Pushed
<1>3. CASE Len(q) = RING - 1
  <2>1. Newest(q) = q /\ Len(Append(q, f)) = RING
    BY <1>1, <1>3 DEF Newest
  <2>2. Newest(Append(q, f)) = SubSeq(Append(q, f), 2, RING)
    BY <1>1, <2>1 DEF Newest
  <2>3. Tail(Append(q, f)) = SubSeq(Append(q, f), 2, RING)
    BY <2>1
  <2>4. Tail(Append(q, f)) = Append(Tail(q), f)
    BY <1>1, <1>3
  <2> QED
    BY <1>3, <2>1, <2>2, <2>3, <2>4 DEF Pushed
<1>4. CASE Len(q) >= RING
  <2> DEFINE a == Len(q) - RING + 2
             p == SubSeq(q, a, Len(q))
  <2>1. /\ Newest(q) = p /\ p \in Seq(Nat) /\ Len(p) = RING - 1
        /\ \A i \in 1 .. RING - 1 : p[i] = q[a + i - 1]
    BY <1>1, <1>4 DEF Newest
  <2>2. Newest(Append(q, f)) = SubSeq(Append(q, f), a + 1, Len(q) + 1)
    BY <1>1, <1>4 DEF Newest
  <2> HIDE DEF p
  <2>3. SubSeq(Append(q, f), a + 1, Len(q) + 1) = Append(Tail(p), f)
    <3> DEFINE x == SubSeq(Append(q, f), a + 1, Len(q) + 1)
               y == Append(Tail(p), f)
    <3>1. /\ x \in Seq(Nat) /\ Len(x) = RING - 1
          /\ \A i \in 1 .. RING - 1 : x[i] = Append(q, f)[a + i]
      BY <1>1, <1>4
    <3>2. /\ y \in Seq(Nat) /\ Len(y) = RING - 1
          /\ \A i \in 1 .. RING - 2 : y[i] = p[i + 1]
          /\ y[RING - 1] = f
      BY <1>1, <2>1
    <3>3. ASSUME NEW i \in 1 .. RING - 1 PROVE x[i] = y[i]
      <4>1. CASE i = RING - 1
        BY <1>1, <1>4, <3>1, <3>2, <4>1
      <4>2. CASE i # RING - 1
        <5>1. i \in 1 .. RING - 2 /\ i + 1 \in 1 .. RING - 1 /\ a + i \in 1 .. Len(q)
          BY <1>1, <1>4, <4>2
        <5>2. x[i] = q[a + i]
          BY <3>1, <5>1
        <5>3. y[i] = q[a + (i + 1) - 1]
          BY <2>1, <3>2, <5>1
        <5>4. a + (i + 1) - 1 = a + i
          BY <1>1
        <5> HIDE DEF a, x, y
        <5> QED
          BY <5>2, <5>3, <5>4
      <4> QED
        BY <4>1, <4>2
    <3> HIDE DEF x, y
    <3>4. x = y
      BY <3>1, <3>2, <3>3, SeqEqual
    <3> QED
      BY <3>4 DEF x, y
  <2> QED
    BY <1>1, <2>1, <2>2, <2>3 DEF Pushed
<1> QED
  BY <1>1, <1>2, <1>3, <1>4

LEMMA JoinedOne ==
  ASSUME NEW p \in Seq(Nat), NEW q \in Seq(Nat), NEW e \in Nat
  PROVE  p \o Append(q, e) = Append(p \o q, e)
OBVIOUS

\* FeedUnit appends all frames it keeps at once.  The ring it leaves is the one
\* that pushing them one by one leaves, by which the sequence stands for the
\* ring FrameRing models: with none pushed it is the ring as it was, and each
\* frame further is a push.  Where a last frame finds no memory, the ring that is
\* left was full and has dropped its oldest.
THEOREM FeedPushesEach ==
  ASSUME NEW ring \in Seq(Nat), Len(ring) < RING, NEW kept \in Seq(Nat)
  PROVE  /\ Newest(ring \o SubSeq(kept, 1, 0)) = ring
         /\ \A n \in 0 .. Len(kept) - 1 :
              Newest(ring \o SubSeq(kept, 1, n + 1))
                = Pushed(Newest(ring \o SubSeq(kept, 1, n)), kept[n + 1])
         /\ Newest(ring \o SubSeq(kept, 1, Len(kept))) = Newest(ring \o kept)
         /\ \A q \in Rings(ring \o kept, TRUE) :
              \/ q = Newest(ring \o kept)
              \/ /\ Len(Newest(ring \o kept)) = RING - 1
                 /\ q = Tail(Newest(ring \o kept))
<1>1. Newest(ring \o SubSeq(kept, 1, 0)) = ring
  <2>1. SubSeq(kept, 1, 0) = <<>>
    OBVIOUS
  <2>2. ring \o <<>> = ring
    OBVIOUS
  <2> QED
    BY <2>1, <2>2 DEF Newest
<1>2. ASSUME NEW n \in 0 .. Len(kept) - 1
      PROVE  Newest(ring \o SubSeq(kept, 1, n + 1))
               = Pushed(Newest(ring \o SubSeq(kept, 1, n)), kept[n + 1])
  <2> DEFINE k == SubSeq(kept, 1, n)
  <2>1. /\ n \in Nat /\ n + 1 \in 1 .. Len(kept)
        /\ k \in Seq(Nat) /\ Len(k) = n /\ \A i \in 1 .. n : k[i] = kept[i]
        /\ kept[n + 1] \in Nat
    OBVIOUS
  <2>2. SubSeq(kept, 1, n + 1) = Append(k, kept[n + 1])
    <3> DEFINE x == SubSeq(kept, 1, n + 1)
               y == Append(k, kept[n + 1])
    <3>1. x \in Seq(Nat) /\ Len(x) = n + 1 /\ \A i \in 1 .. n + 1 : x[i] = kept[i]
      BY <2>1
    <3> HIDE DEF k
    <3>2. /\ y \in Seq(Nat) /\ Len(y) = n + 1
          /\ \A i \in 1 .. n + 1 : y[i] = IF i = n + 1 THEN kept[n + 1] ELSE k[i]
      BY <2>1
    <3>3. \A i \in 1 .. n + 1 : x[i] = y[i]
      <4> TAKE i \in 1 .. n + 1
      <4> HIDE DEF x, y
      <4>1. CASE i = n + 1
        BY <3>1, <3>2, <4>1
      <4>2. CASE i # n + 1
        <5>1. i \in 1 .. n
          BY <2>1, <4>2
        <5> QED
          BY <2>1, <3>1, <3>2, <4>2, <5>1
      <4> QED
        BY <4>1, <4>2
    <3> HIDE DEF x, y
    <3>4. x = y
      BY <3>1, <3>2, <3>3, SeqEqual
    <3> QED
      BY <3>4 DEF x, y
  <2> HIDE DEF k
  <2>3. ring \o Append(k, kept[n + 1]) = Append(ring \o k, kept[n + 1])
    BY <2>1, JoinedOne
  <2>4. ring \o k \in Seq(Nat)
    BY <2>1
  <2>5. Newest(ring \o SubSeq(kept, 1, n + 1)) = Pushed(Newest(ring \o k), kept[n + 1])
    <3>1. Newest(Append(ring \o k, kept[n + 1])) = Pushed(Newest(ring \o k), kept[n + 1])
      BY <2>1, <2>4, NewestPushes
    <3> QED
      BY <2>2, <2>3, <3>1
  <2> QED
    BY <2>5 DEF k
<1>3. Newest(ring \o SubSeq(kept, 1, Len(kept))) = Newest(ring \o kept)
  <2>1. SubSeq(kept, 1, Len(kept)) = kept
    OBVIOUS
  <2> QED
    BY <2>1
<1>4. PICK c : c = ring \o kept
  OBVIOUS
<1>c. c \in Seq(Nat)
  BY <1>4, ConcatProperties
<1>5. Len(c) >= RING - 1 => Len(Newest(c)) = RING - 1
  <2>1. RING \in Nat /\ RING >= 2 /\ Len(c) \in Nat
    BY <1>c
  <2>2. CASE Len(c) < RING
    BY <2>1, <2>2 DEF Newest
  <2>3. CASE Len(c) >= RING
    <3>1. Newest(c) = SubSeq(c, Len(c) - RING + 2, Len(c))
      BY <2>1, <2>3 DEF Newest
    <3>2. Len(c) - RING + 2 \in 1 .. Len(c) + 1 /\ Len(c) \in (Len(c) - RING + 2) - 1 .. Len(c)
      BY <2>1, <2>3
    <3> QED
      BY <1>c, <2>1, <3>1, <3>2, PartOf
  <2> QED
    BY <2>1, <2>2, <2>3
<1>6. \A q \in Rings(c, TRUE) :
        \/ q = Newest(c)
        \/ Len(Newest(c)) = RING - 1 /\ q = Tail(Newest(c))
  BY <1>5 DEF Rings
<1> QED
  BY ONLY <1>1, <1>2, <1>3, <1>4, <1>6
=============================================================================
