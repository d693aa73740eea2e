---------------------------- MODULE VlessProofs ----------------------------
(***************************************************************************)
(* Proofs about the functions of Vless.                                    *)
(***************************************************************************)
EXTENDS Vless, DataInduction, SequenceTheorems, TLAPS

(* Two bytes hold a number below ByteMod squared. *)
LEMMA Be16Inverse ==
    ASSUME NEW n \in 0..(ByteMod * ByteMod - 1)
    PROVE  /\ (n \div ByteMod) % ByteMod = n \div ByteMod
           /\ n \div ByteMod \in Byte /\ n % ByteMod \in Byte
           /\ Un16(n \div ByteMod, n % ByteMod) = n
<1>1. PICK b, h, l : b = ByteMod /\ h = n \div b /\ l = n % b
  OBVIOUS
<1>2. b \in Nat \ {0} /\ b * b \in Nat /\ n \in Nat
  BY <1>1, VlessAssumption
<1>3. h \in Nat /\ l \in 0..(b - 1) /\ n = b * h + l
  <2>1. h = n \div b /\ l = n % b
    BY <1>1
  <2>2. h \in Int /\ l \in 0..(b - 1) /\ h >= 0
    BY <1>2, <2>1
  <2>3. n = b * h + l
    BY <1>2, <2>1
  <2> QED
    BY <1>2, <2>2, <2>3
<1>4. h < b
  <2> SUFFICES ASSUME h >= b PROVE FALSE
    BY <1>2, <1>3
  <2>1. b * h >= b * b
    BY <1>2, <1>3
  <2> QED
    BY <1>1, <1>2, <1>3, <2>1
<1>5. h % b = h
  BY <1>2, <1>3, <1>4
<1>6. h * b + l = n
  BY <1>2, <1>3
<1> QED
  BY <1>1, <1>2, <1>3, <1>4, <1>5, <1>6 DEF Un16, Byte

-----------------------------------------------------------------------------
(* VisionReader, byte by byte. *)
ReadStep(a, b) ==
    IF ~a.ok THEN a
    ELSE LET next == UnpadByte(a.rd, b) IN
         IF ~next.ok THEN next
         ELSE [ok |-> TRUE, rd |-> next.rd,
               out |-> IF a.rd.state \in {"Content", "Direct"} THEN Append(a.out, b) ELSE a.out]

Start(rd) == [ok |-> TRUE, rd |-> rd, out |-> <<>>]

(* g has the reader's results after 0 to n bytes of w. *)
Results(n, g, rd, w) ==
    g = [i \in 0..n |-> IF i = 0 THEN Start(rd) ELSE ReadStep(g[i - 1], w[i])]

(* The record of the reader's results exists for any number of bytes. *)
LEMMA ResultsExist ==
    ASSUME NEW rd, NEW w
    PROVE  \A n \in Nat : \E g : Results(n, g, rd, w)
<1> DEFINE T == {n \in Nat : \E g : Results(n, g, rd, w)}
<1>1. 0 \in T
  <2>1. PICK g : g = [i \in 0..0 |-> Start(rd)]
    OBVIOUS
  <2>2. Results(0, g, rd, w)
    BY <2>1 DEF Results
  <2> QED
    BY <2>2
<1>2. ASSUME NEW n \in Nat, n \in T PROVE n + 1 \in T
  <2>1. PICK g : Results(n, g, rd, w)
    BY <1>2
  <2>2. PICK h : h = [i \in 0..(n + 1) |-> IF i = 0 THEN Start(rd) ELSE ReadStep(g[i - 1], w[i])]
    OBVIOUS
  <2>3. \A i \in 0..n : h[i] = g[i]
    BY <2>1, <2>2 DEF Results
  <2>4. \A i \in 0..(n + 1) : i # 0 => h[i - 1] = g[i - 1]
    BY <2>3
  <2>5. Results(n + 1, h, rd, w)
    BY <2>2, <2>4 DEF Results
  <2> QED
    BY <2>5
<1>3. Nat \subseteq T
  <2> HIDE DEF T
  <2> QED
    BY <1>1, <1>2, SetInduction
<1> QED
  BY <1>3

(* UnpadBytes gives the last of these results. *)
LEMMA UnpadIsResult ==
    ASSUME NEW rd, NEW w, Len(w) \in Nat
    PROVE  \E g : Results(Len(w), g, rd, w) /\ UnpadBytes(rd, w) = g[Len(w)]
<1> DEFINE g == CHOOSE h : Results(Len(w), h, rd, w)
<1>1. Results(Len(w), g, rd, w)
  BY ResultsExist
<1>2. UnpadBytes(rd, w) = g[Len(w)]
  BY DEF UnpadBytes, Results, Start, ReadStep
<1> QED
  BY <1>1, <1>2

(* No bytes leave the reader where it was. *)
LEMMA UnpadEmpty ==
    ASSUME NEW rd
    PROVE  UnpadBytes(rd, <<>>) = Start(rd)
<1>1. Len(<<>>) = 0
  OBVIOUS
<1>2. PICK g : Results(0, g, rd, <<>>) /\ UnpadBytes(rd, <<>>) = g[0]
  BY <1>1, UnpadIsResult
<1> QED
  BY <1>2 DEF Results

(* One more byte is one more step. *)
LEMMA UnpadAppend ==
    ASSUME NEW S, NEW w \in Seq(S), NEW b \in S, NEW rd
    PROVE  UnpadBytes(rd, Append(w, b)) = ReadStep(UnpadBytes(rd, w), b)
<1>1. PICK v : v = Append(w, b)
  OBVIOUS
<1>2. PICK n \in Nat : n = Len(w)
  OBVIOUS
<1>3. /\ v \in Seq(S) /\ Len(v) = n + 1 /\ v[n + 1] = b
      /\ \A i \in 1..n : v[i] = w[i]
  BY <1>1, <1>2
<1>4. PICK g : Results(n, g, rd, w) /\ UnpadBytes(rd, w) = g[n]
  BY <1>2, UnpadIsResult
<1>5. PICK h : Results(n + 1, h, rd, v) /\ UnpadBytes(rd, v) = h[n + 1]
  BY <1>3, UnpadIsResult, SMTT(60)
<1>6. \A i \in Nat : i <= n => h[i] = g[i]
  <2> DEFINE T == {i \in Nat : i <= n => h[i] = g[i]}
  <2>1. 0 \in T
    BY <1>4, <1>5 DEF Results
  <2>2. ASSUME NEW i \in Nat, i \in T PROVE i + 1 \in T
    <3> SUFFICES ASSUME i + 1 <= n PROVE h[i + 1] = g[i + 1]
      OBVIOUS
    <3>1. h[i] = g[i]
      BY <2>2
    <3>2. g[i + 1] = ReadStep(g[i], w[i + 1])
      BY <1>4 DEF Results
    <3>3. h[i + 1] = ReadStep(h[i], v[i + 1])
      BY <1>5 DEF Results
    <3>4. v[i + 1] = w[i + 1]
      BY <1>3
    <3> QED
      BY <3>1, <3>2, <3>3, <3>4, Zenon
  <2>3. Nat \subseteq T
    <3> HIDE DEF T
    <3> QED
      BY <2>1, <2>2, SetInduction
  <2> QED
    BY <2>3
<1>7. h[n] = g[n]
  BY <1>6
<1>8. h[n + 1] = ReadStep(h[n], v[n + 1])
  BY <1>5 DEF Results
<1> QED
  BY <1>1, <1>3, <1>4, <1>5, <1>7, <1>8, Zenon

(* From rd, the bytes w lead to the reader next and give out. *)
Reads(rd, w, next, out) == UnpadBytes(rd, w) = [ok |-> TRUE, rd |-> next, out |-> out]

(* No bytes lead nowhere and give nothing. *)
LEMMA ReadsNothing ==
    ASSUME NEW rd
    PROVE  Reads(rd, <<>>, rd, <<>>)
BY UnpadEmpty DEF Reads, Start

(* A byte the reader accepts is given out inside a content or past the padding. *)
LEMMA ReadsByte ==
    ASSUME NEW S, NEW w \in Seq(S), NEW b \in S, NEW rd, NEW r, NEW o, NEW next,
           Reads(rd, w, r, o), UnpadByte(r, b) = [ok |-> TRUE, rd |-> next]
    PROVE  Reads(rd, Append(w, b), next,
                 IF r.state \in {"Content", "Direct"} THEN Append(o, b) ELSE o)
<1>1. PICK a, p : a = [ok |-> TRUE, rd |-> r, out |-> o] /\ p = [ok |-> TRUE, rd |-> next]
  OBVIOUS
<1>2. a.ok /\ a.rd = r /\ a.out = o /\ p.ok /\ p.rd = next
  BY <1>1
<1>3. UnpadBytes(rd, Append(w, b)) = ReadStep(a, b)
  BY <1>1, UnpadAppend DEF Reads
<1>4. ReadStep(a, b) = [ok |-> TRUE, rd |-> next,
                        out |-> IF r.state \in {"Content", "Direct"} THEN Append(o, b) ELSE o]
  <2>1. UnpadByte(a.rd, b) = p
    BY <1>1, <1>2, Zenon
  <2> QED
    BY <1>2, <2>1, Zenon DEF ReadStep
<1> QED
  BY <1>3, <1>4, Zenon DEF Reads

(* A reader, and what the reader's updates make of it. *)
Rd(state, n, c, p, h, u, within, first) ==
    [state |-> state, remaining |-> n, command |-> c, padding |-> p, header |-> h,
     uuid |-> u, within |-> within, first |-> first]

(* The fields of a reader. *)
LEMMA RdFields ==
    ASSUME NEW state, NEW n, NEW c, NEW p, NEW h, NEW u, NEW wi, NEW fi, NEW r,
           r = Rd(state, n, c, p, h, u, wi, fi)
    PROVE  /\ r.state = state /\ r.remaining = n /\ r.command = c /\ r.padding = p
           /\ r.header = h /\ r.uuid = u /\ r.within = wi /\ r.first = fi
BY DEF Rd

Moved(r, x, y)     == [r EXCEPT !.state = x, !.remaining = y]
Entered(r, x, y)   == [r EXCEPT !.state = x, !.within = y]
Left(r, x, y, z)   == [r EXCEPT !.state = x, !.remaining = y, !.within = z]
Framed(r, x, y, z) == [r EXCEPT !.header = x, !.command = y, !.padding = z]
Counted(r, x)      == [r EXCEPT !.remaining = x]
Headed(r, x)       == [r EXCEPT !.header = x]
Seen(r, x)         == [r EXCEPT !.first = x]

(* One field of a reader replaced. *)
LEMMA RdSingle ==
    ASSUME NEW state, NEW n, NEW c, NEW p, NEW h, NEW u, NEW wi, NEW fi, NEW r,
           r = Rd(state, n, c, p, h, u, wi, fi), NEW x
    PROVE  /\ Counted(r, x) = Rd(state, x, c, p, h, u, wi, fi)
           /\ Headed(r, x) = Rd(state, n, c, p, x, u, wi, fi)
           /\ Seen(r, x) = Rd(state, n, c, p, h, u, wi, x)
BY DEF Rd, Counted, Headed, Seen

(* A reader in another state with another count. *)
LEMMA RdMoved ==
    ASSUME NEW state, NEW n, NEW c, NEW p, NEW h, NEW u, NEW wi, NEW fi, NEW r,
           r = Rd(state, n, c, p, h, u, wi, fi), NEW x, NEW y
    PROVE  Moved(r, x, y) = Rd(x, y, c, p, h, u, wi, fi)
<1>1. PICK q, v : q = [r EXCEPT !.state = x] /\ v = [q EXCEPT !.remaining = y]
  OBVIOUS
<1>2. q = Rd(x, n, c, p, h, u, wi, fi)
  BY <1>1 DEF Rd
<1>3. v = Rd(x, y, c, p, h, u, wi, fi)
  BY <1>1, <1>2 DEF Rd
<1>4. Moved(r, x, y) = v
  BY <1>1 DEF Moved
<1> QED
  BY <1>3, <1>4

(* A reader that has met the identity. *)
LEMMA RdEntered ==
    ASSUME NEW state, NEW n, NEW c, NEW p, NEW h, NEW u, NEW wi, NEW fi, NEW r,
           r = Rd(state, n, c, p, h, u, wi, fi), NEW x, NEW y
    PROVE  Entered(r, x, y) = Rd(x, n, c, p, h, u, y, fi)
<1>1. PICK q, v : q = [r EXCEPT !.state = x] /\ v = [q EXCEPT !.within = y]
  OBVIOUS
<1>2. q = Rd(x, n, c, p, h, u, wi, fi)
  BY <1>1 DEF Rd
<1>3. v = Rd(x, n, c, p, h, u, y, fi)
  BY <1>1, <1>2 DEF Rd
<1>4. Entered(r, x, y) = v
  BY <1>1 DEF Entered
<1> QED
  BY <1>3, <1>4

(* A reader that leaves the padded part. *)
LEMMA RdLeft ==
    ASSUME NEW state, NEW n, NEW c, NEW p, NEW h, NEW u, NEW wi, NEW fi, NEW r,
           r = Rd(state, n, c, p, h, u, wi, fi), NEW x, NEW y, NEW z
    PROVE  Left(r, x, y, z) = Rd(x, y, c, p, h, u, z, fi)
<1>1. PICK q, v, w : q = [r EXCEPT !.state = x] /\ v = [q EXCEPT !.remaining = y] /\ w = [v EXCEPT !.within = z]
  OBVIOUS
<1>2. q = Rd(x, n, c, p, h, u, wi, fi)
  BY <1>1 DEF Rd
<1>3. v = Rd(x, y, c, p, h, u, wi, fi)
  BY <1>1, <1>2 DEF Rd
<1>4. w = Rd(x, y, c, p, h, u, z, fi)
  BY <1>1, <1>3 DEF Rd
<1>5. Left(r, x, y, z) = w
  BY <1>1 DEF Left
<1> QED
  BY <1>4, <1>5

(* A reader that has read a frame header. *)
LEMMA RdFramed ==
    ASSUME NEW state, NEW n, NEW c, NEW p, NEW h, NEW u, NEW wi, NEW fi, NEW r,
           r = Rd(state, n, c, p, h, u, wi, fi), NEW x, NEW y, NEW z
    PROVE  Framed(r, x, y, z) = Rd(state, n, y, z, x, u, wi, fi)
<1>1. PICK q, v, w : q = [r EXCEPT !.header = x] /\ v = [q EXCEPT !.command = y] /\ w = [v EXCEPT !.padding = z]
  OBVIOUS
<1>2. q = Rd(state, n, c, p, x, u, wi, fi)
  BY <1>1 DEF Rd
<1>3. v = Rd(state, n, y, p, x, u, wi, fi)
  BY <1>1, <1>2 DEF Rd
<1>4. w = Rd(state, n, y, z, x, u, wi, fi)
  BY <1>1, <1>3 DEF Rd
<1>5. Framed(r, x, y, z) = w
  BY <1>1 DEF Framed
<1> QED
  BY <1>4, <1>5

(* A reader inside the padded part, and one past it. *)
Padded(state, n, c, p, h, u) == Rd(state, n, c, p, h, u, TRUE, FALSE)
Past(c, p, u) == Rd("Direct", 0, c, p, <<>>, u, FALSE, FALSE)
AfterFrame(c, p, u) == IF c = PADDING_CONTINUE THEN Padded("Header", 0, c, p, <<>>, u)
                       ELSE Past(c, p, u)
AfterContent(c, p, u) == IF p = 0 THEN AfterFrame(c, p, u)
                         ELSE Padded("Padding", p, c, p, <<>>, u)
AfterHeader(n, c, p, u) == IF n = 0 THEN AfterContent(c, p, u)
                           ELSE Padded("Content", n, c, p, <<>>, u)

Ok(r) == [ok |-> TRUE, rd |-> r]

(* finish_frame: on to the next header after CONTINUE, past the padding after END. *)
LEMMA FrameDoneIs ==
    ASSUME NEW c \in {PADDING_CONTINUE, PADDING_END}, NEW p, NEW u, NEW n, NEW s
    PROVE  FrameDone(Padded(s, n, c, p, <<>>, u)) = Ok(AfterFrame(c, p, u))
<1>1. PICK r, t, f : r = Padded(s, n, c, p, <<>>, u) /\ t = TRUE /\ f = FALSE
  OBVIOUS
<1>2. r = Rd(s, n, c, p, <<>>, u, t, f)
  BY <1>1, Zenon DEF Padded
<1>3. r.command = c
  BY <1>2, RdFields
<1>4. CASE c = PADDING_CONTINUE
  <2>1. Moved(r, "Header", 0) = Rd("Header", 0, c, p, <<>>, u, t, f)
    BY <1>2, RdMoved
  <2>2. FrameDone(r) = Ok([r EXCEPT !.state = "Header", !.remaining = 0])
    <3>1. PICK q : q = [r EXCEPT !.state = "Header", !.remaining = 0]
      OBVIOUS
    <3>2. PADDING_CONTINUE # PADDING_END /\ PADDING_CONTINUE # PADDING_DIRECT
      BY DEF PADDING_END, PADDING_CONTINUE, PADDING_DIRECT
    <3>3. FrameDone(r) = [ok |-> TRUE, rd |-> q]
      BY <1>3, <1>4, <3>1, <3>2 DEF FrameDone
    <3> QED
      BY <3>1, <3>3, Zenon DEF Ok
  <2> QED
    BY <1>1, <1>4, <2>1, <2>2, Zenon DEF AfterFrame, Padded, Moved
<1>5. CASE c = PADDING_END
  <2>1. Left(r, "Direct", 0, f) = Rd("Direct", 0, c, p, <<>>, u, f, f)
    BY <1>2, RdLeft
  <2>2. c # PADDING_CONTINUE
    BY <1>5 DEF PADDING_END, PADDING_CONTINUE
  <2>3. FrameDone(r) = Ok([r EXCEPT !.state = "Direct", !.remaining = 0, !.within = FALSE])
    BY <1>3, <1>5, <2>2 DEF FrameDone, Ok
  <2> QED
    BY <1>1, <2>1, <2>2, <2>3, Zenon DEF AfterFrame, Past, Left
<1> QED
  BY <1>4, <1>5

(* Once the content is read, the padding is next, or the end of the frame. *)
LEMMA SkipIs ==
    ASSUME NEW c \in {PADDING_CONTINUE, PADDING_END}, NEW p \in Nat, NEW u, NEW n, NEW s
    PROVE  Skip(Padded(s, n, c, p, <<>>, u), p) = Ok(AfterContent(c, p, u))
<1>1. PICK r, t, f : r = Padded(s, n, c, p, <<>>, u) /\ t = TRUE /\ f = FALSE
  OBVIOUS
<1>2. r = Rd(s, n, c, p, <<>>, u, t, f)
  BY <1>1, Zenon DEF Padded
<1>3. Moved(r, "Padding", p) = Rd("Padding", p, c, p, <<>>, u, t, f)
  BY <1>2, RdMoved
<1>4. FrameDone(r) = Ok(AfterFrame(c, p, u))
  BY <1>1, FrameDoneIs
<1> QED
  BY <1>1, <1>3, <1>4, Zenon DEF Skip, AfterContent, Ok, Padded, Moved

(* The five bytes of a frame header: one that leaves it open, and the last. *)
Grows(g, h, b) == g = Append(h, b) /\ Len(g) < 5
Fills(g, h, b, n, c, m) == /\ g = Append(h, b) /\ Len(g) = 5 /\ g[1] = c
                           /\ Un16(g[2], g[3]) = n /\ Un16(g[4], g[5]) = m

(* A byte that leaves the header open is collected. *)
LEMMA HeaderByteIs ==
    ASSUME NEW h, NEW b, NEW c, NEW p, NEW u, NEW n, NEW g, Grows(g, h, b)
    PROVE  UnpadByte(Padded("Header", n, c, p, h, u), b) = Ok(Padded("Header", n, c, p, g, u))
<1>1. PICK r, t, f : r = Padded("Header", n, c, p, h, u) /\ t = TRUE /\ f = FALSE
  OBVIOUS
<1>2. r = Rd("Header", n, c, p, h, u, t, f)
  BY <1>1, Zenon DEF Padded
<1>3. r.state = "Header" /\ r.header = h
  BY <1>2, RdFields
<1>4. Headed(r, g) = Rd("Header", n, c, p, g, u, t, f)
  BY <1>2, RdSingle
<1>5. UnpadByte(r, b) = HeaderByte(r, b)
  BY <1>3 DEF UnpadByte
<1>6. HeaderByte(r, b) = Ok([r EXCEPT !.header = g])
  BY <1>3, Zenon DEF HeaderByte, Ok, Grows
<1> QED
  BY <1>1, <1>4, <1>5, <1>6, Zenon DEF Padded, Headed

(* The fifth byte of a header leads to the content, the padding or the next frame. *)
LEMMA LastHeaderByteIs ==
    ASSUME NEW c \in {PADDING_CONTINUE, PADDING_END}, NEW n \in 0..MaxFrameBody,
           NEW m \in 0..MaxFrameBody, NEW h, NEW b, NEW c0, NEW p0, NEW n0, NEW u, NEW g,
           Fills(g, h, b, n, c, m)
    PROVE  UnpadByte(Padded("Header", n0, c0, p0, h, u), b) = Ok(AfterHeader(n, c, m, u))
<1>1. PICK r, t, f : r = Padded("Header", n0, c0, p0, h, u) /\ t = TRUE /\ f = FALSE
  OBVIOUS
<1>2. r = Rd("Header", n0, c0, p0, h, u, t, f)
  BY <1>1, Zenon DEF Padded
<1>3. r.state = "Header" /\ r.header = h
  BY <1>2, RdFields
<1>4. PICK full : full = [r EXCEPT !.header = <<>>, !.command = c, !.padding = m]
  OBVIOUS
<1>5. full = Rd("Header", n0, c, m, <<>>, u, t, f)
  <2>1. full = Framed(r, <<>>, c, m)
    BY <1>4, Zenon DEF Framed
  <2> QED
    BY <1>2, <2>1, RdFramed
<1>6. UnpadByte(r, b) = HeaderByte(r, b)
  BY <1>3 DEF UnpadByte
<1>7. HeaderByte(r, b) = IF n = 0 THEN Skip(full, m)
                         ELSE Ok([full EXCEPT !.state = "Content", !.remaining = n])
  <2>1. ~(n > MaxFrameBody \/ m > MaxFrameBody) /\ ~(Len(g) < 5)
    BY VlessAssumption DEF Fills
  <2>2. Append(r.header, b) = g
    BY <1>3, Zenon DEF Fills
  <2> QED
    BY <1>4, <2>1, <2>2, Zenon DEF HeaderByte, Ok, Fills
<1>8. Moved(full, "Content", n) = Rd("Content", n, c, m, <<>>, u, t, f)
  BY <1>5, RdMoved
<1>9. Skip(full, m) = Ok(AfterContent(c, m, u))
  <2>1. full = Padded("Header", n0, c, m, <<>>, u)
    BY <1>1, <1>5, Zenon DEF Padded
  <2>2. m \in Nat
    BY VlessAssumption
  <2> QED
    BY <2>1, <2>2, SkipIs
<1> QED
  BY <1>1, <1>6, <1>7, <1>8, <1>9, Zenon DEF AfterHeader, Padded, Moved

-----------------------------------------------------------------------------
(* What the parts of a frame do to a reader that has read w and given o. *)
(* w and the first k elements of c. *)
Upto(w, c, k) == w \o SubSeq(c, 1, k)

(* One more element of c is one more element of Upto. *)
LEMMA PrefixGrows ==
    ASSUME NEW S, NEW w \in Seq(S), NEW c \in Seq(S), NEW k \in Nat, k < Len(c)
    PROVE  /\ Upto(w, c, k) \in Seq(S) /\ c[k + 1] \in S
           /\ Upto(w, c, k + 1) = Append(Upto(w, c, k), c[k + 1])
BY DEF Upto

(* Upto begins with w and ends with all of c. *)
LEMMA PrefixEnds ==
    ASSUME NEW S, NEW w \in Seq(S), NEW c \in Seq(S)
    PROVE  Upto(w, c, 0) = w /\ Upto(w, c, Len(c)) = w \o c
BY DEF Upto

(* A byte that is not the last of a content or padding only counts down. *)
LEMMA BodyByteIs ==
    ASSUME NEW state \in {"Content", "Padding"}, NEW n \in Nat, n > 1, NEW c, NEW p, NEW u, NEW b
    PROVE  UnpadByte(Padded(state, n, c, p, <<>>, u), b) = Ok(Padded(state, n - 1, c, p, <<>>, u))
<1>1. PICK r, t, f : r = Padded(state, n, c, p, <<>>, u) /\ t = TRUE /\ f = FALSE
  OBVIOUS
<1>2. r = Rd(state, n, c, p, <<>>, u, t, f)
  BY <1>1, Zenon DEF Padded
<1>3. r.state = state /\ r.remaining = n
  BY <1>2, RdFields
<1>4. Counted(r, n - 1) = Rd(state, n - 1, c, p, <<>>, u, t, f)
  BY <1>2, RdSingle
<1>5. UnpadByte(r, b) = Ok([r EXCEPT !.remaining = r.remaining - 1])
  <2>1. r.state \notin {"Header", "Direct"} /\ r.remaining # 1
    BY <1>3
  <2> QED
    BY <2>1, Zenon DEF UnpadByte, Ok
<1>6. Counted(r, n - 1) = [r EXCEPT !.remaining = r.remaining - 1]
  BY <1>3, Zenon DEF Counted
<1> QED
  BY <1>1, <1>4, <1>5, <1>6, Zenon DEF Padded

(* The last byte of a content leads to the padding. *)
LEMMA ContentByteIs ==
    ASSUME NEW c \in {PADDING_CONTINUE, PADDING_END}, NEW p \in Nat, NEW u, NEW b
    PROVE  UnpadByte(Padded("Content", 1, c, p, <<>>, u), b) = Ok(AfterContent(c, p, u))
<1>1. PICK r, t, f : r = Padded("Content", 1, c, p, <<>>, u) /\ t = TRUE /\ f = FALSE
  OBVIOUS
<1>2. r = Rd("Content", 1, c, p, <<>>, u, t, f)
  BY <1>1, Zenon DEF Padded
<1>3. r.state = "Content" /\ r.remaining = 1 /\ r.padding = p
  BY <1>2, RdFields
<1>4. UnpadByte(r, b) = Skip(r, p)
  BY <1>3 DEF UnpadByte
<1> QED
  BY <1>1, <1>4, SkipIs

(* The last byte of a padding ends the frame. *)
LEMMA PaddingByteIs ==
    ASSUME NEW c \in {PADDING_CONTINUE, PADDING_END}, NEW p, NEW u, NEW b
    PROVE  UnpadByte(Padded("Padding", 1, c, p, <<>>, u), b) = Ok(AfterFrame(c, p, u))
<1>1. PICK r, t, f : r = Padded("Padding", 1, c, p, <<>>, u) /\ t = TRUE /\ f = FALSE
  OBVIOUS
<1>2. r = Rd("Padding", 1, c, p, <<>>, u, t, f)
  BY <1>1, Zenon DEF Padded
<1>3. r.state = "Padding" /\ r.remaining = 1
  BY <1>2, RdFields
<1>4. UnpadByte(r, b) = FrameDone(r)
  BY <1>3 DEF UnpadByte
<1> QED
  BY <1>1, <1>4, FrameDoneIs

(* A byte read as content is given out. *)
LEMMA ReadsGives ==
    ASSUME NEW S, NEW w \in Seq(S), NEW b \in S, NEW rd, NEW r, NEW o, NEW next,
           Reads(rd, w, r, o), UnpadByte(r, b) = Ok(next), r.state \in {"Content", "Direct"}
    PROVE  Reads(rd, Append(w, b), next, Append(o, b))
<1>1. UnpadByte(r, b) = [ok |-> TRUE, rd |-> next]
  BY Zenon DEF Ok
<1>2. Reads(rd, Append(w, b), next,
            IF r.state \in {"Content", "Direct"} THEN Append(o, b) ELSE o)
  BY <1>1, ReadsByte, Zenon
<1> QED
  BY <1>2, Zenon

(* A byte read as header or padding is dropped. *)
LEMMA ReadsDrops ==
    ASSUME NEW S, NEW w \in Seq(S), NEW b \in S, NEW rd, NEW r, NEW o, NEW next,
           Reads(rd, w, r, o), UnpadByte(r, b) = Ok(next), r.state \in {"Header", "Padding"}
    PROVE  Reads(rd, Append(w, b), next, o)
<1>1. UnpadByte(r, b) = [ok |-> TRUE, rd |-> next]
  BY Zenon DEF Ok
<1>2. Reads(rd, Append(w, b), next,
            IF r.state \in {"Content", "Direct"} THEN Append(o, b) ELSE o)
  BY <1>1, ReadsByte, Zenon
<1>3. r.state \notin {"Content", "Direct"}
  OBVIOUS
<1> QED
  BY <1>2, <1>3, Zenon

(* The state of a reader in the padded part. *)
LEMMA PaddedState ==
    ASSUME NEW s, NEW n, NEW c, NEW p, NEW h, NEW u
    PROVE  Padded(s, n, c, p, h, u).state = s
<1>1. PICK r, t, f : r = Padded(s, n, c, p, h, u) /\ t = TRUE /\ f = FALSE
  OBVIOUS
<1>2. r = Rd(s, n, c, p, h, u, t, f)
  BY <1>1, Zenon DEF Padded
<1>3. r.state = s
  BY <1>2, RdFields
<1> QED
  BY <1>1, <1>3, Zenon

(* A whole content is given out, by induction on its bytes. *)
LEMMA ContentReads ==
    ASSUME NEW c \in {PADDING_CONTINUE, PADDING_END}, NEW p \in Nat, NEW u, NEW S,
           NEW w \in Seq(S), NEW body \in Seq(S), NEW o \in Seq(S), NEW rd,
           NEW n \in Nat \ {0}, n = Len(body), Reads(rd, w, Padded("Content", n, c, p, <<>>, u), o)
    PROVE  Reads(rd, w \o body, AfterContent(c, p, u), o \o body)
<1> DEFINE At(k) == Reads(rd, Upto(w, body, k), Padded("Content", n - k, c, p, <<>>, u),
                          Upto(o, body, k))
           T == {k \in Nat : k < n => At(k)}
<1>1. 0 \in T
  <2>1. Upto(w, body, 0) = w /\ Upto(o, body, 0) = o
    BY PrefixEnds
  <2>2. n - 0 = n
    OBVIOUS
  <2>3. At(0)
    BY <2>1, <2>2
  <2> QED
    BY <2>3
<1>2. ASSUME NEW k \in Nat, k \in T PROVE k + 1 \in T
  <2> SUFFICES ASSUME k + 1 < n PROVE At(k + 1)
    OBVIOUS
  <2>1. At(k)
    BY <1>2
  <2>2. PICK m : m = n - k
    OBVIOUS
  <2>3. m \in Nat /\ m > 1 /\ n - (k + 1) = m - 1 /\ k < Len(body)
    BY <2>2
  <2>4. PICK v, q, b : v = Upto(w, body, k) /\ q = Upto(o, body, k) /\ b = body[k + 1]
    OBVIOUS
  <2>5. v \in Seq(S) /\ b \in S /\ Upto(w, body, k + 1) = Append(v, b)
        /\ Upto(o, body, k + 1) = Append(q, b)
    <3> HIDE DEF At, T
    <3>1. /\ Upto(w, body, k) \in Seq(S) /\ body[k + 1] \in S
          /\ Upto(w, body, k + 1) = Append(Upto(w, body, k), body[k + 1])
      BY <2>3, PrefixGrows, SMTT(60)
    <3>2. Upto(o, body, k + 1) = Append(Upto(o, body, k), body[k + 1])
      BY <2>3, PrefixGrows, SMTT(60)
    <3> QED
      BY <2>4, <3>1, <3>2, Zenon
  <2>6. Reads(rd, v, Padded("Content", m, c, p, <<>>, u), q)
    BY <2>1, <2>2, <2>4, Zenon
  <2>7. UnpadByte(Padded("Content", m, c, p, <<>>, u), b) = Ok(Padded("Content", m - 1, c, p, <<>>, u))
    BY <2>3, BodyByteIs
  <2>8. Reads(rd, Append(v, b), Padded("Content", m - 1, c, p, <<>>, u), Append(q, b))
    BY <2>5, <2>6, <2>7, PaddedState, ReadsGives
  <2> QED
    BY <2>3, <2>5, <2>8
<1>3. Nat \subseteq T
  <2> HIDE DEF T
  <2> QED
    BY <1>1, <1>2, SetInduction
<1>4. At(n - 1)
  BY <1>3
<1>5. PICK k \in Nat : k = n - 1
  OBVIOUS
<1>6. n - k = 1 /\ k < Len(body) /\ k + 1 = Len(body)
  BY <1>5
<1>7. PICK v, q, b : v = Upto(w, body, k) /\ q = Upto(o, body, k) /\ b = body[k + 1]
  OBVIOUS
<1>8. v \in Seq(S) /\ b \in S /\ Upto(w, body, k + 1) = Append(v, b)
      /\ Upto(o, body, k + 1) = Append(q, b)
  BY <1>6, <1>7, PrefixGrows
<1>9. w \o body = Append(v, b) /\ o \o body = Append(q, b)
  BY <1>6, <1>8, PrefixEnds, ZenonT(60)
<1>10. Reads(rd, v, Padded("Content", 1, c, p, <<>>, u), q)
  BY <1>4, <1>5, <1>6, <1>7
<1>11. Reads(rd, Append(v, b), AfterContent(c, p, u), Append(q, b))
  <2>1. PICK r : r = Padded("Content", 1, c, p, <<>>, u)
    OBVIOUS
  <2>2. UnpadByte(r, b) = Ok(AfterContent(c, p, u))
    BY <2>1, ContentByteIs
  <2>3. r.state \in {"Content", "Direct"}
    BY <2>1, PaddedState
  <2> QED
    BY <1>8, <1>10, <2>1, <2>2, <2>3, ReadsGives
<1> QED
  BY <1>9, <1>11

(* A whole padding is dropped, by induction on its bytes. *)
LEMMA PaddingReads ==
    ASSUME NEW c \in {PADDING_CONTINUE, PADDING_END}, NEW p \in Nat, NEW u, NEW S,
           NEW w \in Seq(S), NEW body \in Seq(S), NEW o, NEW rd,
           NEW n \in Nat \ {0}, n = Len(body), Reads(rd, w, Padded("Padding", n, c, p, <<>>, u), o)
    PROVE  Reads(rd, w \o body, AfterFrame(c, p, u), o)
<1> DEFINE At(k) == Reads(rd, Upto(w, body, k), Padded("Padding", n - k, c, p, <<>>, u), o)
           T == {k \in Nat : k < n => At(k)}
<1>1. 0 \in T
  <2>1. Upto(w, body, 0) = w
    BY PrefixEnds
  <2>2. n - 0 = n
    OBVIOUS
  <2>3. At(0)
    BY <2>1, <2>2
  <2> QED
    BY <2>3
<1>2. ASSUME NEW k \in Nat, k \in T PROVE k + 1 \in T
  <2> SUFFICES ASSUME k + 1 < n PROVE At(k + 1)
    OBVIOUS
  <2>1. At(k)
    BY <1>2
  <2>2. PICK m : m = n - k
    OBVIOUS
  <2>3. m \in Nat /\ m > 1 /\ n - (k + 1) = m - 1 /\ k < Len(body)
    BY <2>2
  <2>4. PICK v, b : v = Upto(w, body, k) /\ b = body[k + 1]
    OBVIOUS
  <2>5. v \in Seq(S) /\ b \in S /\ Upto(w, body, k + 1) = Append(v, b)
    BY <2>3, <2>4, PrefixGrows, SMTT(60)
  <2>6. Reads(rd, v, Padded("Padding", m, c, p, <<>>, u), o)
    BY <2>1, <2>2, <2>4, Zenon
  <2>7. UnpadByte(Padded("Padding", m, c, p, <<>>, u), b) = Ok(Padded("Padding", m - 1, c, p, <<>>, u))
    BY <2>3, BodyByteIs
  <2>8. Reads(rd, Append(v, b), Padded("Padding", m - 1, c, p, <<>>, u), o)
    BY <2>5, <2>6, <2>7, PaddedState, ReadsDrops
  <2> QED
    BY <2>3, <2>5, <2>8
<1>3. Nat \subseteq T
  <2> HIDE DEF T
  <2> QED
    BY <1>1, <1>2, SetInduction
<1>4. At(n - 1)
  BY <1>3
<1>5. PICK k \in Nat : k = n - 1
  OBVIOUS
<1>6. n - k = 1 /\ k < Len(body) /\ k + 1 = Len(body)
  BY <1>5
<1>7. PICK v, b : v = Upto(w, body, k) /\ b = body[k + 1]
  OBVIOUS
<1>8. v \in Seq(S) /\ b \in S /\ Upto(w, body, k + 1) = Append(v, b)
  BY <1>6, <1>7, PrefixGrows
<1>9. w \o body = Append(v, b)
  BY <1>6, <1>8, PrefixEnds
<1>10. Reads(rd, v, Padded("Padding", 1, c, p, <<>>, u), o)
  BY <1>4, <1>5, <1>6, <1>7
<1>11. Reads(rd, Append(v, b), AfterFrame(c, p, u), o)
  BY <1>8, <1>10, PaddingByteIs, PaddedState, ReadsDrops
<1> QED
  BY <1>9, <1>11

(* A byte that leaves the header open gives nothing. *)
LEMMA HeaderByteReads ==
    ASSUME NEW S, NEW w \in Seq(S), NEW b \in S, NEW rd, NEW o, NEW n, NEW c, NEW p, NEW u,
           NEW h, NEW g, Grows(g, h, b),
           Reads(rd, w, Padded("Header", n, c, p, h, u), o)
    PROVE  Reads(rd, Append(w, b), Padded("Header", n, c, p, g, u), o)
<1>1. PICK r : r = Padded("Header", n, c, p, h, u)
  OBVIOUS
<1>2. UnpadByte(r, b) = Ok(Padded("Header", n, c, p, g, u))
  BY <1>1, HeaderByteIs
<1>3. r.state \in {"Header", "Padding"}
  BY <1>1, PaddedState
<1> QED
  BY <1>1, <1>2, <1>3, ReadsDrops

(* Sequences with the same elements are the same. *)
LEMMA SameSeq ==
    ASSUME NEW S, NEW s \in Seq(S), NEW t \in Seq(S), Len(s) = Len(t),
           \A i \in 1..Len(s) : s[i] = t[i]
    PROVE  s = t
BY SeqEqual

(* The length of a concatenation. *)
LEMMA ConcatLen ==
    ASSUME NEW S, NEW s \in Seq(S), NEW t \in Seq(S)
    PROVE  s \o t \in Seq(S) /\ Len(s \o t) = Len(s) + Len(t)
OBVIOUS

(* t, over S, is s and one more element. *)
Extends(S, s, t, n, e) == /\ s \in Seq(S) /\ t \in Seq(S) /\ n \in Nat /\ e \in S
                          /\ Len(s) = n /\ Len(t) = n + 1 /\ t[n + 1] = e
                          /\ \A i \in 1..n : t[i] = s[i]

(* A sequence that is s and one more element is Append of s. *)
LEMMA AppendsTo ==
    ASSUME NEW S, NEW s, NEW t, NEW n, NEW e, Extends(S, s, t, n, e)
    PROVE  t = Append(s, e)
<1>1. PICK z : z = Append(s, e)
  OBVIOUS
<1>2. z \in Seq(S) /\ Len(z) = n + 1 /\ (\A i \in 1..n : z[i] = t[i]) /\ z[n + 1] = e
  BY <1>1 DEF Extends
<1>3. \A i \in 1..Len(z) : z[i] = t[i]
  <2>1. n \in Nat /\ t[n + 1] = e
    BY DEF Extends
  <2> QED
    BY <1>2, <2>1
<1>4. z = t
  BY <1>2, <1>3, SameSeq DEF Extends
<1> QED
  BY <1>1, <1>4

(* Five bytes fill a header one after the other. *)
LEMMA HeaderParts ==
    ASSUME NEW S, NEW a \in S, NEW b \in S, NEW c \in S, NEW d \in S, NEW e \in S
    PROVE  \E h1, h2, h3, h4 :
              /\ Grows(h1, <<>>, a) /\ Grows(h2, h1, b) /\ Grows(h3, h2, c) /\ Grows(h4, h3, d)
              /\ Fills(<<a, b, c, d, e>>, h4, e, Un16(b, c), a, Un16(d, e))
<1>1. PICK h1, h2, h3, h4, h5 : /\ h1 = <<a>> /\ h2 = <<a, b>> /\ h3 = <<a, b, c>>
                                /\ h4 = <<a, b, c, d>> /\ h5 = <<a, b, c, d, e>>
  OBVIOUS
<1>2. /\ h1 \in Seq(S) /\ Len(h1) = 1 /\ h1[1] = a
      /\ h2 \in Seq(S) /\ Len(h2) = 2 /\ h2[1] = a /\ h2[2] = b
      /\ h3 \in Seq(S) /\ Len(h3) = 3 /\ h3[1] = a /\ h3[2] = b /\ h3[3] = c
  BY <1>1
<1>3. /\ h4 \in Seq(S) /\ Len(h4) = 4 /\ h4[1] = a /\ h4[2] = b /\ h4[3] = c /\ h4[4] = d
      /\ h5 \in Seq(S) /\ Len(h5) = 5 /\ h5[1] = a /\ h5[2] = b /\ h5[3] = c /\ h5[4] = d
      /\ h5[5] = e
  BY <1>1
<1>4. Append(<<>>, a) = h1
  BY <1>1
<1>5. h2 = Append(h1, b)
  <2>1. Extends(S, h1, h2, 1, b)
    BY <1>2 DEF Extends
  <2> QED
    BY <2>1, AppendsTo, Zenon
<1>6. h3 = Append(h2, c)
  <2>1. Extends(S, h2, h3, 2, c)
    BY <1>2 DEF Extends
  <2> QED
    BY <2>1, AppendsTo, Zenon
<1>7. h4 = Append(h3, d)
  <2>1. Extends(S, h3, h4, 3, d)
    BY <1>2, <1>3 DEF Extends
  <2> QED
    BY <2>1, AppendsTo, Zenon
<1>8. h5 = Append(h4, e)
  <2>1. Extends(S, h4, h5, 4, e)
    BY <1>3 DEF Extends
  <2> QED
    BY <2>1, AppendsTo, Zenon
<1>9. Grows(h1, <<>>, a) /\ Grows(h2, h1, b) /\ Grows(h3, h2, c) /\ Grows(h4, h3, d)
  BY <1>2, <1>3, <1>4, <1>5, <1>6, <1>7 DEF Grows
<1>10. Fills(h5, h4, e, Un16(b, c), a, Un16(d, e))
  BY <1>3, <1>8, Zenon DEF Fills
<1> QED
  BY <1>1, <1>9, <1>10, Zenon

(* v is w with five bytes more. *)
FiveMore(v, w, a, b, c, d, e) == v = w \o <<a, b, c, d, e>>

(* Five appended bytes are a concatenation. *)
LEMMA AppendsFive ==
    ASSUME NEW S, NEW w \in Seq(S), NEW a \in S, NEW b \in S, NEW c \in S, NEW d \in S, NEW e \in S,
           NEW w1, NEW w2, NEW w3, NEW w4, w1 = Append(w, a), w2 = Append(w1, b),
           w3 = Append(w2, c), w4 = Append(w3, d)
    PROVE  FiveMore(Append(w4, e), w, a, b, c, d, e)
BY SMTT(30) DEF FiveMore

(* A whole frame header gives nothing and sets the two counts. *)
LEMMA HeaderReads ==
    ASSUME NEW c \in {PADDING_CONTINUE, PADDING_END}, NEW n \in 0..MaxFrameBody,
           NEW m \in 0..MaxFrameBody, NEW S, NEW w \in Seq(S), c \in S, NEW b2 \in S,
           NEW b3 \in S, NEW b4 \in S, NEW b5 \in S, Un16(b2, b3) = n, Un16(b4, b5) = m,
           NEW rd, NEW o, NEW n0, NEW c0, NEW p0, NEW u,
           Reads(rd, w, Padded("Header", n0, c0, p0, <<>>, u), o)
    PROVE  Reads(rd, w \o <<c, b2, b3, b4, b5>>, AfterHeader(n, c, m, u), o)
<1> DEFINE At(v, h) == Reads(rd, v, Padded("Header", n0, c0, p0, h, u), o)
<1>1. PICK w1, w2, w3, w4 : /\ w1 = Append(w, c) /\ w2 = Append(w1, b2)
                           /\ w3 = Append(w2, b3) /\ w4 = Append(w3, b4)
  OBVIOUS
<1>2. w1 \in Seq(S) /\ w2 \in Seq(S) /\ w3 \in Seq(S) /\ w4 \in Seq(S)
  BY <1>1
<1>3. PICK h1, h2, h3, h4 :
          /\ Grows(h1, <<>>, c) /\ Grows(h2, h1, b2) /\ Grows(h3, h2, b3) /\ Grows(h4, h3, b4)
          /\ Fills(<<c, b2, b3, b4, b5>>, h4, b5, n, c, m)
  BY HeaderParts
<1>4. Append(w4, b5) = w \o <<c, b2, b3, b4, b5>>
  <2>1. FiveMore(Append(w4, b5), w, c, b2, b3, b4, b5)
    BY <1>1, AppendsFive
  <2> QED
    BY <2>1, Zenon DEF FiveMore
<1>6. Reads(rd, w1, Padded("Header", n0, c0, p0, h1, u), o)
  BY <1>1, <1>3, HeaderByteReads
<1>7. Reads(rd, w2, Padded("Header", n0, c0, p0, h2, u), o)
  BY <1>1, <1>2, <1>3, <1>6, HeaderByteReads
<1>8. Reads(rd, w3, Padded("Header", n0, c0, p0, h3, u), o)
  BY <1>1, <1>2, <1>3, <1>7, HeaderByteReads
<1>9. Reads(rd, w4, Padded("Header", n0, c0, p0, h4, u), o)
  BY <1>1, <1>2, <1>3, <1>8, HeaderByteReads
<1>10. PICK r : r = Padded("Header", n0, c0, p0, h4, u)
  OBVIOUS
<1>11. UnpadByte(r, b5) = Ok(AfterHeader(n, c, m, u))
  BY <1>3, <1>10, LastHeaderByteIs
<1>12. r.state \in {"Header", "Padding"}
  BY <1>10, PaddedState
<1>13. Reads(rd, Append(w4, b5), AfterHeader(n, c, m, u), o)
  BY <1>2, <1>9, <1>10, <1>11, <1>12, ReadsDrops
<1> QED
  BY <1>4, <1>13, Zenon

-----------------------------------------------------------------------------
(* A whole frame, without the identity before it. *)
FrameHead(c, n, m) == <<c>> \o Be16(n) \o Be16(m)
Zeros(m) == [i \in 1..m |-> 0]
FrameBytes(c, body, m) == FrameHead(c, Len(body), m) \o body \o Zeros(m)

(* v is x, of n elements, and then y, of m. *)
Joined(S, x, y, v, n, m) ==
    /\ v \in Seq(S) /\ Len(v) = n + m
    /\ (\A i \in 1..n : v[i] = x[i]) /\ (\A i \in 1..m : v[n + i] = y[i])

(* A concatenation, element by element. *)
LEMMA Joins ==
    ASSUME NEW S, NEW x \in Seq(S), NEW y \in Seq(S), NEW n, NEW m, n = Len(x), m = Len(y)
    PROVE  Joined(S, x, y, x \o y, n, m)
BY DEF Joined

(* The header the writer writes: the command and two big-endian counts. *)
LEMMA FrameHeadIs ==
    ASSUME NEW c \in {PADDING_CONTINUE, PADDING_END}, NEW n \in 0..MaxFrameBody,
           NEW m \in 0..MaxFrameBody
    PROVE  \E b2, b3, b4, b5 \in Byte :
              /\ FrameHead(c, n, m) = <<c, b2, b3, b4, b5>> /\ c \in Byte
              /\ Un16(b2, b3) = n /\ Un16(b4, b5) = m
<1>1. n \in 0..(ByteMod * ByteMod - 1) /\ m \in 0..(ByteMod * ByteMod - 1)
  BY VlessAssumption
<1>2. PICK b2, b3 \in Byte : Be16(n) = <<b2, b3>> /\ Un16(b2, b3) = n
  <2>1. (n \div ByteMod) % ByteMod = n \div ByteMod
    BY <1>1, Be16Inverse
  <2>2. n \div ByteMod \in Byte /\ n % ByteMod \in Byte /\ Un16(n \div ByteMod, n % ByteMod) = n
    BY <1>1, Be16Inverse
  <2> QED
    BY <2>1, <2>2, Zenon DEF Be16
<1>3. PICK b4, b5 \in Byte : Be16(m) = <<b4, b5>> /\ Un16(b4, b5) = m
  <2>1. (m \div ByteMod) % ByteMod = m \div ByteMod
    BY <1>1, Be16Inverse
  <2>2. m \div ByteMod \in Byte /\ m % ByteMod \in Byte /\ Un16(m \div ByteMod, m % ByteMod) = m
    BY <1>1, Be16Inverse
  <2> QED
    BY <2>1, <2>2, Zenon DEF Be16
<1>4. c \in Byte
  BY VlessAssumption DEF Byte, PADDING_CONTINUE, PADDING_END
<1>5. <<c>> \o <<b2, b3>> \o <<b4, b5>> = <<c, b2, b3, b4, b5>>
  <2>1. PICK x, y, z : x = <<c>> /\ y = <<b2, b3>> /\ z = <<b4, b5>>
    OBVIOUS
  <2>2. /\ x \in Seq(Byte) /\ Len(x) = 1 /\ x[1] = c
        /\ y \in Seq(Byte) /\ Len(y) = 2 /\ y[1] = b2 /\ y[2] = b3
        /\ z \in Seq(Byte) /\ Len(z) = 2 /\ z[1] = b4 /\ z[2] = b5
    BY <1>4, <2>1
  <2>3. PICK v, t : v = x \o y /\ t = v \o z
    OBVIOUS
  <2>4. v \in Seq(Byte) /\ Len(v) = 3 /\ v[1] = c /\ v[2] = b2 /\ v[3] = b3
    <3>1. Joined(Byte, x, y, v, 1, 2)
      BY <2>2, <2>3, Joins, Zenon
    <3>2. v[1] = x[1] /\ v[1 + 1] = y[1] /\ v[1 + 2] = y[2]
      BY <3>1 DEF Joined
    <3> QED
      BY <2>2, <3>1, <3>2 DEF Joined
  <2>6. /\ t \in Seq(Byte) /\ Len(t) = 5 /\ t[1] = c /\ t[2] = b2 /\ t[3] = b3
        /\ t[4] = b4 /\ t[5] = b5
    <3>1. Joined(Byte, v, z, t, 3, 2)
      BY <2>2, <2>3, <2>4, Joins, Zenon
    <3>2. t[1] = v[1] /\ t[2] = v[2] /\ t[3] = v[3] /\ t[3 + 1] = z[1] /\ t[3 + 2] = z[2]
      BY <3>1 DEF Joined
    <3> QED
      BY <2>2, <2>4, <3>1, <3>2 DEF Joined
  <2>7. PICK g : g = <<c, b2, b3, b4, b5>>
    OBVIOUS
  <2>8. /\ g \in Seq(Byte) /\ Len(g) = 5 /\ g[1] = c /\ g[2] = b2 /\ g[3] = b3
        /\ g[4] = b4 /\ g[5] = b5
    BY <1>4, <2>7
  <2>9. \A i \in 1..Len(t) : t[i] = g[i]
    BY <2>6, <2>8
  <2>10. t = g
    BY <2>6, <2>8, <2>9, SameSeq
  <2> QED
    BY <2>1, <2>3, <2>7, <2>10, Zenon
<1>6. FrameHead(c, n, m) = <<c, b2, b3, b4, b5>>
  BY <1>2, <1>3, <1>5, Zenon DEF FrameHead
<1> QED
  BY <1>2, <1>3, <1>4, <1>6, Zenon

(* A whole frame gives its content. *)
LEMMA FrameReads ==
    ASSUME NEW c \in {PADDING_CONTINUE, PADDING_END}, NEW body \in Seq(Byte),
           Len(body) <= MaxFrameBody, NEW m \in 0..MaxFrameBody, NEW w \in Seq(Byte),
           NEW o \in Seq(Byte), NEW rd, NEW n0, NEW c0, NEW p0, NEW u,
           Reads(rd, w, Padded("Header", n0, c0, p0, <<>>, u), o)
    PROVE  /\ FrameBytes(c, body, m) \in Seq(Byte) /\ Len(FrameBytes(c, body, m)) >= 5
           /\ Reads(rd, w \o FrameBytes(c, body, m), AfterFrame(c, m, u), o \o body)
<1>1. PICK n : n = Len(body)
  OBVIOUS
<1>2. n \in 0..MaxFrameBody /\ n \in Nat /\ m \in Nat
  BY <1>1, VlessAssumption
<1>3. PICK b2, b3, b4, b5 \in Byte :
          /\ FrameHead(c, n, m) = <<c, b2, b3, b4, b5>> /\ c \in Byte
          /\ Un16(b2, b3) = n /\ Un16(b4, b5) = m
  BY <1>2, FrameHeadIs
<1>4. PICK h : h = <<c, b2, b3, b4, b5>>
  OBVIOUS
<1>5. h \in Seq(Byte) /\ Len(h) = 5
  BY <1>3, <1>4
<1>6. PICK z : z = Zeros(m)
  OBVIOUS
<1>7. z \in Seq(Byte) /\ Len(z) = m
  BY <1>2, <1>6, VlessAssumption DEF Zeros, Byte
<1>8. FrameBytes(c, body, m) = (h \o body) \o z
  BY <1>1, <1>3, <1>4, <1>6, Zenon DEF FrameBytes
<1>9. FrameBytes(c, body, m) \in Seq(Byte) /\ Len(FrameBytes(c, body, m)) >= 5
  <2>1. PICK x : x = h \o body
    OBVIOUS
  <2>2. x \in Seq(Byte) /\ Len(x) = 5 + n
    BY <1>1, <1>5, <2>1, ConcatLen
  <2>3. x \o z \in Seq(Byte) /\ Len(x \o z) >= 5
    BY <1>2, <1>7, <2>2, ConcatLen
  <2> QED
    BY <1>8, <2>1, <2>3
<1>10. w \o FrameBytes(c, body, m) = ((w \o h) \o body) \o z
  <2>1. w \o ((h \o body) \o z) = ((w \o h) \o body) \o z
    BY <1>5, <1>7, SMTT(60)
  <2> QED
    BY <1>8, <2>1
<1>11. Reads(rd, w \o h, AfterHeader(n, c, m, u), o)
  BY <1>2, <1>3, <1>4, HeaderReads
<1>12. PICK v, q, x, y : v = w \o h /\ q = o \o body /\ x = v \o body /\ y = x \o z
  OBVIOUS
<1>13. v \in Seq(Byte) /\ q \in Seq(Byte) /\ x \in Seq(Byte)
  BY <1>5, <1>12
<1>14. Reads(rd, x, AfterContent(c, m, u), q)
  <2>1. CASE n = 0
    <3>1. body = <<>>
      BY <1>1, <2>1, EmptySeq
    <3>2. v \o <<>> = v /\ o \o <<>> = o
      BY <1>13
    <3>3. x = v /\ q = o
      BY <1>12, <3>1, <3>2, Zenon
    <3>4. AfterHeader(n, c, m, u) = AfterContent(c, m, u)
      BY <2>1, Zenon DEF AfterHeader
    <3> QED
      BY <1>11, <1>12, <3>3, <3>4, Zenon
  <2>2. CASE n # 0
    <3>1. Reads(rd, v, Padded("Content", n, c, m, <<>>, u), o)
      BY <1>11, <1>12, <2>2, Zenon DEF AfterHeader
    <3>2. n \in Nat \ {0}
      BY <1>2, <2>2
    <3> QED
      BY <1>1, <1>2, <1>12, <1>13, <3>1, <3>2, ContentReads, Zenon
  <2> QED
    BY <2>1, <2>2
<1>15. Reads(rd, y, AfterFrame(c, m, u), q)
  <2>1. CASE m = 0
    <3>1. y = x
      BY <1>7, <1>12, <1>13, <2>1, SMTT(60)
    <3>2. AfterContent(c, m, u) = AfterFrame(c, m, u)
      BY <2>1, Zenon DEF AfterContent
    <3> QED
      BY <1>14, <3>1, <3>2, Zenon
  <2>2. CASE m # 0
    <3>1. Reads(rd, x, Padded("Padding", m, c, m, <<>>, u), q)
      BY <1>14, <2>2, Zenon DEF AfterContent
    <3>2. m \in Nat \ {0}
      BY <1>2, <2>2
    <3> QED
      BY <1>2, <1>7, <1>12, <1>13, <3>1, <3>2, PaddingReads, Zenon
  <2> QED
    BY <2>1, <2>2
<1> QED
  BY <1>9, <1>10, <1>12, <1>15, Zenon

-----------------------------------------------------------------------------
(* VisionWriter: the frames a payload is cut into. *)
PadFrame(uuid, payload, long, end, rnd, count, i) ==
    XtlsPadding(FrameContent(payload, i), IF i = count /\ end THEN PADDING_END ELSE PADDING_CONTINUE,
                IF i = 1 THEN uuid ELSE <<>>, long, rnd[i])

(* g has what the writer has put out after 0 to n frames. *)
Outs(n, g, uuid, payload, long, end, rnd, count) ==
    g = [i \in 0..n |-> IF i = 0 THEN <<>>
                        ELSE g[i - 1] \o PadFrame(uuid, payload, long, end, rnd, count, i)]

(* The record of what the writer has put out exists for any number of frames. *)
LEMMA OutsExist ==
    ASSUME NEW uuid, NEW payload, NEW long, NEW end, NEW rnd, NEW count
    PROVE  \A n \in Nat : \E g : Outs(n, g, uuid, payload, long, end, rnd, count)
<1> DEFINE F(a, i) == a \o PadFrame(uuid, payload, long, end, rnd, count, i)
           T == {n \in Nat : \E g : Outs(n, g, uuid, payload, long, end, rnd, count)}
<1>1. 0 \in T
  <2>1. PICK g : g = [i \in 0..0 |-> <<>>]
    OBVIOUS
  <2>2. Outs(0, g, uuid, payload, long, end, rnd, count)
    BY <2>1 DEF Outs
  <2> QED
    BY <2>2
<1>2. ASSUME NEW n \in Nat, n \in T PROVE n + 1 \in T
  <2>1. PICK g : Outs(n, g, uuid, payload, long, end, rnd, count)
    BY <1>2
  <2> HIDE DEF F
  <2>2. PICK h : h = [i \in 0..(n + 1) |-> IF i = 0 THEN <<>> ELSE F(g[i - 1], i)]
    OBVIOUS
  <2>3. g = [i \in 0..n |-> IF i = 0 THEN <<>> ELSE F(g[i - 1], i)]
    BY <2>1 DEF Outs, F
  <2>4. \A i \in 0..n : h[i] = g[i]
    BY <2>2, <2>3
  <2>5. \A i \in 0..(n + 1) : i # 0 => h[i - 1] = g[i - 1]
    BY <2>4
  <2>6. h = [i \in 0..(n + 1) |-> IF i = 0 THEN <<>> ELSE F(h[i - 1], i)]
    BY <2>2, <2>5
  <2>7. Outs(n + 1, h, uuid, payload, long, end, rnd, count)
    BY <2>6 DEF Outs, F
  <2> QED
    BY <2>7
<1>3. Nat \subseteq T
  <2> HIDE DEF T
  <2> QED
    BY <1>1, <1>2, SetInduction
<1> QED
  BY <1>3

(* A payload has at least one frame, and no frame more than it needs. *)
LEMMA CountPositive ==
    ASSUME NEW n \in Nat, NEW M, NEW c, M = MaxFrameBody, c = FrameCount(n)
    PROVE  c \in Nat \ {0} /\ (c - 1) * M <= n /\ c * M >= n
<1>1. M \in Nat \ {0}
  BY VlessAssumption
<1>2. CASE n = 0
  <2>1. c = 1
    BY <1>2 DEF FrameCount
  <2> QED
    BY <1>1, <1>2, <2>1
<1>3. CASE n # 0
  <2>1. PICK a, q, r : a = n + M - 1 /\ q = a \div M /\ r = a % M
    OBVIOUS
  <2>2. a \in Nat /\ a >= M
    BY <1>1, <1>3, <2>1
  <2>3. q \in Int /\ r \in 0..(M - 1) /\ a = M * q + r
    BY <1>1, <2>1, <2>2
  <2>4. q >= 1
    <3> SUFFICES ASSUME q <= 0 PROVE FALSE
      BY <2>3
    <3>1. M * q <= 0
      BY <1>1, <2>3
    <3> QED
      BY <1>1, <2>2, <2>3, <3>1
  <2>5. c = q
    BY <1>3, <2>1 DEF FrameCount
  <2>6. M * q = q * M /\ (q - 1) * M = q * M - M
    BY <1>1, <2>3
  <2>7. q * M \in Int
    BY <1>1, <2>3
  <2> QED
    BY <1>1, <2>1, <2>3, <2>4, <2>5, <2>6, <2>7
<1> QED
  BY <1>2, <1>3

(* The frames cover the payload: each starts inside it, none is too long. *)
LEMMA FrameBounds ==
    ASSUME NEW n \in Nat, NEW i \in 1..FrameCount(n)
    PROVE  /\ FrameCount(n) \in Nat \ {0}
           /\ (i - 1) * MaxFrameBody \in 0..n
           /\ Least(i * MaxFrameBody, n) \in ((i - 1) * MaxFrameBody)..n
           /\ Least(i * MaxFrameBody, n) - (i - 1) * MaxFrameBody <= MaxFrameBody
           /\ i = FrameCount(n) => Least(i * MaxFrameBody, n) = n
           /\ i # FrameCount(n) => i + 1 \in 1..FrameCount(n)
<1>1. PICK M, c : M = MaxFrameBody /\ c = FrameCount(n)
  OBVIOUS
<1>2. M \in Nat \ {0}
  BY <1>1, VlessAssumption
<1>3. c \in Nat \ {0} /\ (c - 1) * M <= n /\ c * M >= n
  BY <1>1, CountPositive
<1>4. i \in 1..c
  BY <1>1
<1>5. /\ i * M \in Int /\ (i - 1) * M = i * M - M /\ (c - 1) * M = c * M - M /\ c * M \in Int
      /\ i * M <= c * M /\ (i - 1) * M >= 0
  BY <1>2, <1>3, <1>4
<1>6. PICK x, y : x = i * M /\ y = (i - 1) * M
  OBVIOUS
<1>7. y \in 0..n /\ x = y + M /\ x \in Int
  BY <1>2, <1>3, <1>5, <1>6
<1>8. Least(x, n) \in y..n /\ Least(x, n) - y <= M /\ (i = c => Least(x, n) = n)
  <2>1. i = c => x >= n
    BY <1>3, <1>6
  <2> QED
    BY <1>2, <1>7, <2>1 DEF Least
<1>9. c \in Nat \ {0} /\ (i # c => i + 1 \in 1..c)
  BY <1>3, <1>4
<1> QED
  BY <1>1, <1>6, <1>7, <1>8, <1>9

(* The contents of the first i frames are the payload up to the end of the i-th. *)
LEMMA FrameContentIs ==
    ASSUME NEW payload \in Seq(Byte), NEW n, n = Len(payload), NEW i \in 1..FrameCount(n)
    PROVE  /\ FrameContent(payload, i) \in Seq(Byte)
           /\ Len(FrameContent(payload, i)) <= MaxFrameBody
           /\ SubSeq(payload, 1, (i - 1) * MaxFrameBody) \o FrameContent(payload, i)
                  = SubSeq(payload, 1, Least(i * MaxFrameBody, n))
<1>1. PICK x, y : x = (i - 1) * MaxFrameBody /\ y = Least(i * MaxFrameBody, n)
  OBVIOUS
<1>2. n \in Nat
  OBVIOUS
<1>3. x \in 0..n /\ y \in x..n /\ y - x <= MaxFrameBody
  BY <1>1, <1>2, FrameBounds
<1>4. FrameContent(payload, i) = SubSeq(payload, x + 1, y)
  BY <1>1 DEF FrameContent, Slice
<1>5. SubSeq(payload, x + 1, y) \in Seq(Byte) /\ Len(SubSeq(payload, x + 1, y)) = y - x
  BY <1>2, <1>3
<1>6. SubSeq(payload, 1, x) \o SubSeq(payload, x + 1, y) = SubSeq(payload, 1, y)
  BY <1>2, <1>3
<1> QED
  BY <1>1, <1>3, <1>4, <1>5, <1>6

(* A padding fits a frame, whatever is drawn. *)
LEMMA PaddingLenIs ==
    ASSUME NEW n \in 0..MaxFrameBody, NEW long, NEW r \in Nat
    PROVE  PaddingLen(n, long, r) \in 0..MaxFrameBody
<1>1. PICK x : x = IF n < TestSeed[1] /\ long THEN (r % TestSeed[2]) + TestSeed[3] - n
                   ELSE r % TestSeed[4]
  OBVIOUS
<1>2. /\ TestSeed[1] \in Nat /\ TestSeed[2] \in Nat \ {0} /\ TestSeed[3] \in Nat
      /\ TestSeed[4] \in Nat \ {0} /\ TestSeed[1] <= TestSeed[3]
  BY VlessAssumption
<1>3. r % TestSeed[2] \in Nat /\ r % TestSeed[4] \in Nat
  BY <1>2
<1>4. (r % TestSeed[2]) + TestSeed[3] - n \in Nat \/ ~(n < TestSeed[1])
  BY <1>2, <1>3, VlessAssumption
<1>5. x \in Nat
  BY <1>1, <1>3, <1>4, Zenon
<1>6. Least(MaxFrameBody - n, x) \in 0..MaxFrameBody
  BY <1>5, VlessAssumption DEF Least
<1>7. PaddingLen(n, long, r) = Least(MaxFrameBody - n, x)
  BY <1>1, Zenon DEF PaddingLen
<1> QED
  BY <1>6, <1>7

Assoc(s, t, u) == (s \o t) \o u = s \o (t \o u)

(* Concatenation is associative. *)
LEMMA ConcatAssoc ==
    ASSUME NEW s \in Seq(Byte), NEW t \in Seq(Byte), NEW u \in Seq(Byte)
    PROVE  Assoc(s, t, u)
BY DEF Assoc

Regrouped(p, c, a, b, x, z) ==
    ((((p \o c) \o a) \o b) \o x) \o z = p \o ((((c \o a) \o b) \o x) \o z)

(* The parts of a frame regrouped. *)
LEMMA Regroup ==
    ASSUME NEW p \in Seq(Byte), NEW c \in Seq(Byte), NEW a \in Seq(Byte), NEW b \in Seq(Byte),
           NEW x \in Seq(Byte), NEW z \in Seq(Byte)
    PROVE  Regrouped(p, c, a, b, x, z)
<1>1. PICK d, e, f : d = c \o a /\ e = d \o b /\ f = e \o x
  OBVIOUS
<1>2. d \in Seq(Byte) /\ e \in Seq(Byte) /\ f \in Seq(Byte)
  BY <1>1, ConcatLen
<1>3. Assoc(p, c, a) /\ Assoc(p, d, b) /\ Assoc(p, e, x) /\ Assoc(p, f, z)
  BY <1>2, ConcatAssoc
<1> QED
  BY <1>1, <1>3, Zenon DEF Assoc, Regrouped

Cmd(end, i, count) == IF i = count /\ end THEN PADDING_END ELSE PADDING_CONTINUE

Framing(uuid, c, body, m, i, out) == out = (IF i = 1 THEN uuid ELSE <<>>) \o FrameBytes(c, body, m)

(* xtls_padding writes a frame, with the identity before the first. *)
LEMMA PadFrameHas ==
    ASSUME NEW uuid \in Seq(Byte), NEW payload \in Seq(Byte), NEW long, NEW end, NEW rnd,
           NEW n, n = Len(payload), NEW count, count = FrameCount(n), NEW i \in 1..count,
           rnd[i] \in Nat, NEW m, m = PaddingLen(Len(FrameContent(payload, i)), long, rnd[i])
    PROVE  /\ m \in 0..MaxFrameBody
           /\ Framing(uuid, Cmd(end, i, count), FrameContent(payload, i), m, i,
                      PadFrame(uuid, payload, long, end, rnd, count, i))
<1>1. PICK body, c, p : /\ body = FrameContent(payload, i) /\ c = Cmd(end, i, count)
                        /\ p = IF i = 1 THEN uuid ELSE <<>>
  OBVIOUS
<1>2. body \in Seq(Byte) /\ Len(body) \in 0..MaxFrameBody
  BY <1>1, FrameContentIs
<1>3. m = PaddingLen(Len(body), long, rnd[i])
  BY <1>1
<1>4. m \in 0..MaxFrameBody
  BY <1>2, <1>3, PaddingLenIs
<1>5. c \in Byte
  <2>1. c \in {PADDING_END, PADDING_CONTINUE}
    BY <1>1, Zenon DEF Cmd
  <2> QED
    BY <2>1, VlessAssumption DEF Byte, PADDING_END, PADDING_CONTINUE
<1>6. PICK x, a, b, z : x = <<c>> /\ a = Be16(Len(body)) /\ b = Be16(m) /\ z = Zeros(m)
  OBVIOUS
<1>7. x \in Seq(Byte) /\ z \in Seq(Byte)
  BY <1>4, <1>5, <1>6, VlessAssumption, SMTT(60) DEF Zeros, Byte
<1>8. a \in Seq(Byte) /\ b \in Seq(Byte)
  <2>1. ASSUME NEW k \in 0..MaxFrameBody PROVE Be16(k) \in Seq(Byte)
    <3>1. k \in 0..(ByteMod * ByteMod - 1)
      BY VlessAssumption
    <3>2. PICK h, l \in Byte : Be16(k) = <<h, l>>
      BY <3>1, Be16Inverse, Zenon DEF Be16
    <3> QED
      BY <3>2
  <2> QED
    BY <1>2, <1>4, <1>6, <2>1
<1>9. p \in Seq(Byte)
  BY <1>1
<1>10. PadFrame(uuid, payload, long, end, rnd, count, i)
          = ((((p \o x) \o a) \o b) \o body) \o z
  BY <1>1, <1>3, <1>6, Zenon DEF PadFrame, XtlsPadding, Zeros, Cmd
<1>11. FrameBytes(c, body, m) = (((x \o a) \o b) \o body) \o z
  BY <1>6, Zenon DEF FrameBytes, FrameHead
<1>12. Regrouped(p, x, a, b, body, z)
  BY <1>2, <1>7, <1>8, <1>9, Regroup
<1> QED
  BY <1>1, <1>4, <1>10, <1>11, <1>12, Zenon DEF Framing, Regrouped

(* The same with some padding, for what does not depend on its length. *)
LEMMA PadFrameIs ==
    ASSUME NEW uuid \in Seq(Byte), NEW payload \in Seq(Byte), NEW long, NEW end, NEW rnd,
           NEW n, n = Len(payload), NEW count, count = FrameCount(n), NEW i \in 1..count,
           rnd[i] \in Nat
    PROVE  \E m \in 0..MaxFrameBody :
              Framing(uuid, Cmd(end, i, count), FrameContent(payload, i), m, i,
                      PadFrame(uuid, payload, long, end, rnd, count, i))
<1>1. PICK m : m = PaddingLen(Len(FrameContent(payload, i)), long, rnd[i])
  OBVIOUS
<1>2. /\ m \in 0..MaxFrameBody
      /\ Framing(uuid, Cmd(end, i, count), FrameContent(payload, i), m, i,
                 PadFrame(uuid, payload, long, end, rnd, count, i))
  BY <1>1, PadFrameHas
<1> QED
  BY <1>2, Zenon

(* The reader that has just met the identity. *)
LockedOn(uuid) == Padded("Header", 0, 0, 0, <<>>, uuid)

(* A reader with the identity u at the head of a frame. *)
Ready(rd, u) == \E n, c, p : rd = Padded("Header", n, c, p, <<>>, u)

(* After k frames the reader rd has the payload up to the end of the k-th. *)
FramesRead(rd, u, uuid, payload, n, c, k, out) ==
    \E w \in Seq(Byte) : \E p :
        /\ out = uuid \o w /\ Len(w) >= 5
        /\ Reads(rd, w, AfterFrame(c, p, u),
                 SubSeq(payload, 1, Least(k * MaxFrameBody, n)))

(* After the first frame the reader has the first content. *)
LEMMA FirstFrame ==
    ASSUME NEW uuid \in Seq(Byte), NEW payload \in Seq(Byte), NEW long, NEW end, NEW rnd,
           NEW n, n = Len(payload), NEW count, count = FrameCount(n), 1 \in 1..count,
           rnd[1] \in Nat, NEW rd, NEW u, Ready(rd, u)
    PROVE  FramesRead(rd, u, uuid, payload, n, Cmd(end, 1, count), 1,
                      <<>> \o PadFrame(uuid, payload, long, end, rnd, count, 1))
<1>1. PICK m \in 0..MaxFrameBody :
          Framing(uuid, Cmd(end, 1, count), FrameContent(payload, 1), m, 1,
                  PadFrame(uuid, payload, long, end, rnd, count, 1))
  BY PadFrameIs
<1>2. PICK body, c, f : /\ body = FrameContent(payload, 1) /\ c = Cmd(end, 1, count)
                        /\ f = FrameBytes(c, body, m)
  OBVIOUS
<1>3. c \in {PADDING_CONTINUE, PADDING_END}
  BY <1>2, Zenon DEF Cmd
<1>4. body \in Seq(Byte) /\ Len(body) <= MaxFrameBody
  BY <1>2, FrameContentIs
<1>5. SubSeq(payload, 1, (1 - 1) * MaxFrameBody) \o body
          = SubSeq(payload, 1, Least(1 * MaxFrameBody, n))
  BY <1>2, FrameContentIs
<1>6. SubSeq(payload, 1, (1 - 1) * MaxFrameBody) = <<>>
  <2>1. (1 - 1) * MaxFrameBody = 0
    BY VlessAssumption
  <2>2. SubSeq(payload, 1, 0) = <<>>
    OBVIOUS
  <2> QED
    BY <2>1, <2>2
<1>7. <<>> \in Seq(Byte)
  OBVIOUS
<1>80. PICK n0, c0, p0 : rd = Padded("Header", n0, c0, p0, <<>>, u)
  BY Zenon DEF Ready
<1>8. Reads(rd, <<>>, Padded("Header", n0, c0, p0, <<>>, u), <<>>)
  BY <1>80, ReadsNothing, Zenon
<1>9. /\ f \in Seq(Byte) /\ Len(f) >= 5
      /\ Reads(rd, <<>> \o f, AfterFrame(c, m, u), <<>> \o body)
  BY <1>2, <1>3, <1>4, <1>7, <1>8, FrameReads, Zenon
<1>10. <<>> \o f = f
  BY <1>9
<1>11. <<>> \o (uuid \o f) = uuid \o f
  BY <1>9
<1> QED
  BY <1>1, <1>2, <1>5, <1>6, <1>9, <1>10, <1>11, Zenon DEF FramesRead, Framing

(* Each further frame adds its content. *)
LEMMA NextFrame ==
    ASSUME NEW uuid \in Seq(Byte), NEW payload \in Seq(Byte), NEW long, NEW end, NEW rnd,
           NEW n, n = Len(payload), NEW count, count = FrameCount(n), NEW k \in 1..count,
           NEW j, j = k + 1, j \in 1..count, rnd[j] \in Nat, NEW out, NEW rd, NEW u,
           FramesRead(rd, u, uuid, payload, n, PADDING_CONTINUE, k, out)
    PROVE  FramesRead(rd, u, uuid, payload, n, Cmd(end, j, count), j,
                      out \o PadFrame(uuid, payload, long, end, rnd, count, j))
<1>0. n \in Nat
  OBVIOUS
<1>1. PICK m \in 0..MaxFrameBody :
          Framing(uuid, Cmd(end, j, count), FrameContent(payload, j), m, j,
                  PadFrame(uuid, payload, long, end, rnd, count, j))
  BY PadFrameIs
<1>2. PICK body, c, f : /\ body = FrameContent(payload, j) /\ c = Cmd(end, j, count)
                        /\ f = FrameBytes(c, body, m)
  OBVIOUS
<1>3. c \in {PADDING_CONTINUE, PADDING_END}
  BY <1>2, Zenon DEF Cmd
<1>4. body \in Seq(Byte) /\ Len(body) <= MaxFrameBody
  BY <1>2, FrameContentIs
<1>5. SubSeq(payload, 1, (j - 1) * MaxFrameBody) \o body
          = SubSeq(payload, 1, Least(j * MaxFrameBody, n))
  BY <1>2, FrameContentIs
<1>6. Least(k * MaxFrameBody, n) = (j - 1) * MaxFrameBody
  <2>1. PICK x : x = (j - 1) * MaxFrameBody
    OBVIOUS
  <2>2. x \in 0..n
    BY <1>0, <2>1, FrameBounds
  <2>3. k * MaxFrameBody = x
    <3>1. j - 1 = k
      OBVIOUS
    <3> QED
      BY <2>1, <3>1
  <2> QED
    BY <2>1, <2>2, <2>3 DEF Least
<1>7. PICK w \in Seq(Byte) : \E p :
          /\ out = uuid \o w /\ Len(w) >= 5
          /\ Reads(rd, w, AfterFrame(PADDING_CONTINUE, p, u),
                   SubSeq(payload, 1, Least(k * MaxFrameBody, n)))
  BY Zenon DEF FramesRead
<1>8. PICK p : Reads(rd, w, AfterFrame(PADDING_CONTINUE, p, u),
                     SubSeq(payload, 1, Least(k * MaxFrameBody, n)))
  BY <1>7
<1>9. PICK o : o = SubSeq(payload, 1, (j - 1) * MaxFrameBody)
  OBVIOUS
<1>10. o \in Seq(Byte)
  <2>1. (j - 1) * MaxFrameBody \in 0..n
    BY <1>0, FrameBounds
  <2> QED
    BY <1>9, <2>1
<1>11. Reads(rd, w, Padded("Header", 0, PADDING_CONTINUE, p, <<>>, u), o)
  BY <1>6, <1>8, <1>9, Zenon DEF AfterFrame
<1>12. /\ f \in Seq(Byte) /\ Len(f) >= 5
       /\ Reads(rd, w \o f, AfterFrame(c, m, u), o \o body)
  BY <1>2, <1>3, <1>4, <1>10, <1>11, FrameReads, Zenon
<1>13. PICK v : v = w \o f
  OBVIOUS
<1>14. v \in Seq(Byte) /\ Len(v) >= 5
  BY <1>7, <1>12, <1>13, ConcatLen
<1>15. out \o f = uuid \o v
  <2>1. Assoc(uuid, w, f)
    BY <1>12, ConcatAssoc
  <2> QED
    BY <1>7, <1>13, <2>1, Zenon DEF Assoc
<1>16. PadFrame(uuid, payload, long, end, rnd, count, j) = <<>> \o f
  <2>1. j # 1
    OBVIOUS
  <2> QED
    BY <1>1, <1>2, <2>1, Zenon DEF Framing
<1>17. <<>> \o f = f
  BY <1>12
<1>18. out \o PadFrame(uuid, payload, long, end, rnd, count, j) = uuid \o v
  BY <1>15, <1>16, <1>17, Zenon
<1>19. o \o body = SubSeq(payload, 1, Least(j * MaxFrameBody, n))
  BY <1>5, <1>9, Zenon
<1>20. Reads(rd, v, AfterFrame(c, m, u), SubSeq(payload, 1, Least(j * MaxFrameBody, n)))
  BY <1>12, <1>13, <1>19, Zenon
<1>21. FramesRead(rd, u, uuid, payload, n, c, j, uuid \o v)
  BY <1>14, <1>20, Zenon DEF FramesRead
<1> QED
  BY <1>2, <1>18, <1>21, Zenon

OneMore(a, b, f) == b = a \o f

(* The writer's output grows by one frame a step. *)
LEMMA OutStep ==
    ASSUME NEW n \in Nat, NEW g, NEW uuid, NEW payload, NEW long, NEW end, NEW rnd, NEW count,
           Outs(n, g, uuid, payload, long, end, rnd, count), NEW i \in 1..n
    PROVE  /\ g[0] = <<>>
           /\ OneMore(g[i - 1], g[i], PadFrame(uuid, payload, long, end, rnd, count, i))
<1> DEFINE F(a, k) == a \o PadFrame(uuid, payload, long, end, rnd, count, k)
<1>1. g = [k \in 0..n |-> IF k = 0 THEN <<>> ELSE F(g[k - 1], k)]
  BY DEF Outs
<1> HIDE DEF F
<1>2. g[0] = <<>> /\ g[i] = F(g[i - 1], i)
  BY <1>1
<1> QED
  BY <1>2 DEF F, OneMore

(* VisionWriter's pad gives the last of these outputs. *)
LEMMA PadIsOut ==
    ASSUME NEW uuid, NEW payload, NEW long, NEW end, NEW rnd, NEW count,
           count = FrameCount(Len(payload)), count \in Nat
    PROVE  \E g : /\ Outs(count, g, uuid, payload, long, end, rnd, count)
                  /\ Pad(NewWriter(uuid), payload, long, end, rnd).out = g[count]
<1>1. PICK wr, t : wr = NewWriter(uuid) /\ t = TRUE
  OBVIOUS
<1>2. wr = [uuid |-> uuid, is_padding |-> t]
  BY <1>1, Zenon DEF NewWriter
<1>3. wr.uuid = uuid /\ wr.is_padding = t
  BY <1>2
<1> DEFINE g == CHOOSE h : Outs(FrameCount(Len(payload)), h, wr.uuid, payload, long, end, rnd,
                                FrameCount(Len(payload)))
<1>4. Outs(FrameCount(Len(payload)), g, wr.uuid, payload, long, end, rnd, FrameCount(Len(payload)))
  BY OutsExist
<1>5. Pad(wr, payload, long, end, rnd)
          = IF wr.is_padding
            THEN [out |-> g[FrameCount(Len(payload))],
                  writer |-> [uuid |-> <<>>, is_padding |-> ~end]]
            ELSE [out |-> payload, writer |-> wr]
  BY DEF Pad, Outs, PadFrame
<1> HIDE DEF g
<1>6. PICK x : x = [uuid |-> <<>>, is_padding |-> ~end]
  OBVIOUS
<1>7. [out |-> g[count], writer |-> x].out = g[count]
  OBVIOUS
<1>8. Pad(wr, payload, long, end, rnd).out = g[count]
  BY <1>1, <1>3, <1>5, <1>6, <1>7, Zenon
<1>9. Outs(count, g, uuid, payload, long, end, rnd, count)
  BY <1>3, <1>4, Zenon
<1> QED
  BY <1>1, <1>8, <1>9

(* out is the identity and what the reader rd makes the payload of. *)
Carries(rd, u, uuid, payload, end, out) ==
    \E w \in Seq(Byte) : \E p :
        /\ out = uuid \o w /\ Len(w) >= 5
        /\ Reads(rd, w,
                 AfterFrame(IF end THEN PADDING_END ELSE PADDING_CONTINUE, p, u), payload)

(* What a writer makes of a payload, a reader at the head of a frame gives *)
(* back; a writer past its first payload is one without an identity.       *)
LEMMA PadReads ==
    ASSUME NEW uuid \in Seq(Byte), NEW payload \in Seq(Byte), NEW long, NEW end, NEW rnd,
           NEW count, count = FrameCount(Len(payload)), \A i \in 1..count : rnd[i] \in Nat,
           NEW rd, NEW u, Ready(rd, u)
    PROVE  Carries(rd, u, uuid, payload, end, Pad(NewWriter(uuid), payload, long, end, rnd).out)
<1>1. PICK n \in Nat : n = Len(payload)
  OBVIOUS
<1>2. count \in Nat \ {0} /\ 1 \in 1..count
  <2>1. MaxFrameBody \in Nat \ {0}
    BY VlessAssumption
  <2>2. FrameCount(n) \in Nat \ {0}
    BY <1>1, CountPositive
  <2> QED
    BY <1>1, <2>2
<1>3. PICK g : /\ Outs(count, g, uuid, payload, long, end, rnd, count)
               /\ Pad(NewWriter(uuid), payload, long, end, rnd).out = g[count]
  BY <1>2, PadIsOut
<1> DEFINE P(k) == k \in 1..count => FramesRead(rd, u, uuid, payload, n, Cmd(end, k, count), k, g[k])
           T == {i \in Nat : P(i + 1)}
<1>4. 0 \in T
  <2>1. g[0] = <<>> /\ OneMore(g[1 - 1], g[1], PadFrame(uuid, payload, long, end, rnd, count, 1))
    BY <1>2, <1>3, OutStep
  <2>2. FramesRead(rd, u, uuid, payload, n, Cmd(end, 1, count), 1,
                   <<>> \o PadFrame(uuid, payload, long, end, rnd, count, 1))
    BY <1>1, <1>2, FirstFrame
  <2>3. 1 - 1 = 0 /\ 0 + 1 = 1
    OBVIOUS
  <2>4. FramesRead(rd, u, uuid, payload, n, Cmd(end, 0 + 1, count), 0 + 1, g[0 + 1])
    BY <2>1, <2>2, <2>3, Zenon DEF OneMore
  <2> QED
    BY <2>4
<1>5. ASSUME NEW i \in Nat, i \in T PROVE i + 1 \in T
  <2>1. PICK k, j \in Nat : k = i + 1 /\ j = k + 1
    OBVIOUS
  <2> SUFFICES P(j)
    <3> HIDE DEF P
    <3> QED
      BY <2>1
  <2> SUFFICES ASSUME j \in 1..count
               PROVE  FramesRead(rd, u, uuid, payload, n, Cmd(end, j, count), j, g[j])
    OBVIOUS
  <2>2. k \in 1..count /\ k # count /\ j - 1 = k
    BY <1>2, <2>1
  <2>3. FramesRead(rd, u, uuid, payload, n, Cmd(end, k, count), k, g[k])
    BY <1>5, <2>1, <2>2
  <2>4. Cmd(end, k, count) = PADDING_CONTINUE
    BY <2>2, Zenon DEF Cmd
  <2>5. OneMore(g[j - 1], g[j], PadFrame(uuid, payload, long, end, rnd, count, j))
    BY <1>2, <1>3, OutStep
  <2>6. FramesRead(rd, u, uuid, payload, n, PADDING_CONTINUE, k, g[k])
    BY <2>3, <2>4, Zenon
  <2>7. rnd[j] \in Nat
    OBVIOUS
  <2>8. FramesRead(rd, u, uuid, payload, n, Cmd(end, j, count), j,
                   g[k] \o PadFrame(uuid, payload, long, end, rnd, count, j))
    BY <1>1, <2>1, <2>2, <2>6, <2>7, NextFrame
  <2> QED
    BY <2>2, <2>5, <2>8, Zenon DEF OneMore
<1>6. Nat \subseteq T
  <2> HIDE DEF T
  <2> QED
    BY <1>4, <1>5, SetInduction
<1>7. FramesRead(rd, u, uuid, payload, n, Cmd(end, count, count), count, g[count])
  <2>1. count - 1 \in T
    BY <1>2, <1>6
  <2>2. (count - 1) + 1 = count /\ count \in 1..count
    BY <1>2
  <2> QED
    BY <2>1, <2>2
<1>8. SubSeq(payload, 1, Least(count * MaxFrameBody, n)) = payload
  <2>1. Least(count * MaxFrameBody, n) = n
    BY <1>1, <1>2, FrameBounds
  <2>2. SubSeq(payload, 1, n) = payload
    BY <1>1
  <2> QED
    BY <2>1, <2>2
<1>9. Cmd(end, count, count) = IF end THEN PADDING_END ELSE PADDING_CONTINUE
  BY Zenon DEF Cmd
<1> QED
  BY <1>3, <1>7, <1>8, <1>9, Zenon DEF FramesRead, Carries

(* A fresh reader recognises its identity and goes on at the first header. *)
LEMMA NewReaderLocks ==
    ASSUME NEW uuid \in Seq(Byte), Len(uuid) = UuidLen, NEW w \in Seq(Byte), Len(w) >= 5
    PROVE  Unpad(NewReader(uuid), uuid \o w) = UnpadBytes(LockedOn(uuid), w)
<1>1. PICK rd, t, f : rd = NewReader(uuid) /\ t = TRUE /\ f = FALSE
  OBVIOUS
<1>2. rd = Rd("Initial", 0, 0, 0, <<>>, uuid, f, t)
  BY <1>1, Zenon DEF NewReader, Rd
<1>3. rd.state = "Initial" /\ rd.uuid = uuid
  BY <1>2, RdFields
<1>4. PICK seen : seen = Seen(rd, f)
  OBVIOUS
<1>5. seen = Rd("Initial", 0, 0, 0, <<>>, uuid, f, f)
  BY <1>2, <1>4, RdSingle
<1>6. Entered(seen, "Header", t) = Rd("Header", 0, 0, 0, <<>>, uuid, t, f)
  BY <1>5, RdEntered
<1>7. Entered(seen, "Header", t) = LockedOn(uuid)
  BY <1>1, <1>6, Zenon DEF LockedOn, Padded
<1>8. PICK v : v = uuid \o w
  OBVIOUS
<1>9. Len(v) >= UuidLen + 5 /\ Slice(v, 0, UuidLen) = uuid /\ Slice(v, UuidLen, Len(v)) = w
  <2>1. UuidLen \in Nat /\ Len(w) \in Nat
    BY VlessAssumption
  <2>2. Len(v) = UuidLen + Len(w)
    BY <1>8, ConcatLen
  <2>3. SubSeq(v, 1, Len(uuid)) = uuid
    BY <1>8
  <2>4. SubSeq(v, Len(uuid) + 1, Len(v)) = w
    BY <1>8
  <2>5. 0 + 1 = 1
    OBVIOUS
  <2>6. Slice(v, 0, UuidLen) = uuid /\ Slice(v, UuidLen, Len(v)) = w
    BY <2>3, <2>4, <2>5, Zenon DEF Slice
  <2> QED
    BY <2>1, <2>2, <2>6
<1>10. rd.state = "Initial" /\ Slice(v, 0, UuidLen) = rd.uuid
  BY <1>3, <1>9
<1>11. Unpad(rd, v) = UnpadBytes([seen EXCEPT !.state = "Header", !.within = TRUE],
                                 Slice(v, UuidLen, Len(v)))
  <2>1. seen = [rd EXCEPT !.first = FALSE]
    BY <1>1, <1>4, Zenon DEF Seen
  <2> QED
    BY <1>9, <1>10, <2>1, Zenon DEF Unpad
<1>12. [seen EXCEPT !.state = "Header", !.within = TRUE] = LockedOn(uuid)
  BY <1>1, <1>7, Zenon DEF Entered
<1> QED
  BY <1>1, <1>8, <1>9, <1>11, <1>12, Zenon

(* A fresh reader makes the payload of f. *)
Returned(uuid, payload, end, f) ==
    \E p : Unpad(NewReader(uuid), f)
              = [ok |-> TRUE, out |-> payload,
                 rd |-> AfterFrame(IF end THEN PADDING_END ELSE PADDING_CONTINUE, p, uuid)]

(* What a fresh writer makes of a payload, a fresh reader gives back. *)
LEMMA PadReturned ==
    ASSUME NEW uuid \in Seq(Byte), Len(uuid) = UuidLen, NEW payload \in Seq(Byte),
           NEW long, NEW end, NEW rnd,
           \A i \in 1..FrameCount(Len(payload)) : rnd[i] \in Nat
    PROVE  Returned(uuid, payload, end, Pad(NewWriter(uuid), payload, long, end, rnd).out)
<1>00. Ready(LockedOn(uuid), uuid)
  BY Zenon DEF Ready, LockedOn
<1>0. Carries(LockedOn(uuid), uuid, uuid, payload, end,
              Pad(NewWriter(uuid), payload, long, end, rnd).out)
  BY <1>00, PadReads
<1>1. PICK w \in Seq(Byte) : \E p :
          /\ Pad(NewWriter(uuid), payload, long, end, rnd).out = uuid \o w /\ Len(w) >= 5
          /\ Reads(LockedOn(uuid), w,
                   AfterFrame(IF end THEN PADDING_END ELSE PADDING_CONTINUE, p, uuid), payload)
  BY <1>0, Zenon DEF Carries
<1>2. PICK p :
          Reads(LockedOn(uuid), w,
                AfterFrame(IF end THEN PADDING_END ELSE PADDING_CONTINUE, p, uuid), payload)
  BY <1>1
<1>3. Unpad(NewReader(uuid), uuid \o w) = UnpadBytes(LockedOn(uuid), w)
  BY <1>1, NewReaderLocks, Zenon
<1>4. PICK r : r = AfterFrame(IF end THEN PADDING_END ELSE PADDING_CONTINUE, p, uuid)
  OBVIOUS
<1>5. [ok |-> TRUE, rd |-> r, out |-> payload] = [ok |-> TRUE, out |-> payload, rd |-> r]
  OBVIOUS
<1> QED
  BY <1>1, <1>2, <1>3, <1>4, <1>5, Zenon DEF Reads, Returned

(* VisionRoundTrip: whatever a VisionWriter makes of a first payload, cut  *)
(* into any number of frames and padded by any draws, a fresh VisionReader *)
(* of the same identity returns that payload, byte for byte, and is then   *)
(* past the padding when the writer ended it and at the next frame header  *)
(* when it did not.                                                        *)
THEOREM VisionRoundTrip ==
    ASSUME NEW uuid \in Seq(Byte), Len(uuid) = UuidLen, NEW payload \in Seq(Byte),
           NEW long, NEW end, NEW rnd,
           \A i \in 1..FrameCount(Len(payload)) : rnd[i] \in Nat
    PROVE  \E p : Unpad(NewReader(uuid), Pad(NewWriter(uuid), payload, long, end, rnd).out)
                     = [ok |-> TRUE, out |-> payload,
                        rd |-> AfterFrame(IF end THEN PADDING_END ELSE PADDING_CONTINUE, p, uuid)]
<1>1. Returned(uuid, payload, end, Pad(NewWriter(uuid), payload, long, end, rnd).out)
  BY PadReturned
<1> QED
  BY <1>1, Zenon DEF Returned

(* Past the padding every byte is given as it comes. *)
LEMMA DirectReads ==
    ASSUME NEW rd, rd.state = "Direct", NEW w \in Seq(Byte)
    PROVE  Unpad(rd, w) = [ok |-> TRUE, rd |-> rd, out |-> w]
<1> DEFINE T == {k \in Nat : k <= Len(w) => Reads(rd, Upto(<<>>, w, k), rd, Upto(<<>>, w, k))}
<1>1. <<>> \in Seq(Byte)
  OBVIOUS
<1>2. Upto(<<>>, w, 0) = <<>> /\ Upto(<<>>, w, Len(w)) = <<>> \o w
  BY <1>1, PrefixEnds
<1>3. 0 \in T
  <2>1. Reads(rd, Upto(<<>>, w, 0), rd, Upto(<<>>, w, 0))
    BY <1>2, ReadsNothing, Zenon
  <2> QED
    BY <2>1
<1>4. ASSUME NEW k \in Nat, k \in T PROVE k + 1 \in T
  <2> SUFFICES ASSUME k + 1 <= Len(w)
               PROVE  Reads(rd, Upto(<<>>, w, k + 1), rd, Upto(<<>>, w, k + 1))
    OBVIOUS
  <2>1. k < Len(w) /\ Reads(rd, Upto(<<>>, w, k), rd, Upto(<<>>, w, k))
    BY <1>4
  <2>2. PICK v, b : v = Upto(<<>>, w, k) /\ b = w[k + 1]
    OBVIOUS
  <2>3. v \in Seq(Byte) /\ b \in Byte /\ Upto(<<>>, w, k + 1) = Append(v, b)
    <3> HIDE DEF T
    <3> QED
      BY <1>1, <2>1, <2>2, PrefixGrows
  <2>4. UnpadByte(rd, b) = Ok(rd)
    BY DEF UnpadByte, Ok
  <2>5. Reads(rd, Append(v, b), rd, Append(v, b))
    BY <2>1, <2>2, <2>3, <2>4, ReadsGives
  <2> QED
    BY <2>3, <2>5
<1>5. Nat \subseteq T
  <2> HIDE DEF T
  <2> QED
    BY <1>3, <1>4, SetInduction
<1>6. Reads(rd, Upto(<<>>, w, Len(w)), rd, Upto(<<>>, w, Len(w)))
  BY <1>5
<1>7. <<>> \o w = w
  OBVIOUS
<1>8. Reads(rd, w, rd, w)
  BY <1>2, <1>6, <1>7, Zenon
<1>9. rd.state # "Initial"
  OBVIOUS
<1>10. Unpad(rd, w) = UnpadBytes(rd, w)
  BY <1>9, Zenon DEF Unpad
<1> QED
  BY <1>8, <1>10, Zenon DEF Reads

-----------------------------------------------------------------------------
(* v is x, of n bytes, and then y. *)
Parted(v, x, y, n) ==
    /\ v \in Seq(Byte) /\ x \in Seq(Byte) /\ y \in Seq(Byte) /\ n \in Nat
    /\ v = x \o y /\ Len(x) = n /\ Len(v) = n + Len(y)
    /\ Slice(v, 0, n) = x /\ Slice(v, n, Len(v)) = y
    /\ \A i \in 1..n : v[i] = x[i]
    /\ \A i \in 1..Len(y) : v[n + i] = y[i]

(* A concatenation of bytes has its two parts at their offsets. *)
LEMMA Parts ==
    ASSUME NEW x \in Seq(Byte), NEW y \in Seq(Byte), NEW n, n = Len(x)
    PROVE  Parted(x \o y, x, y, n)
<1>1. PICK v, m : v = x \o y /\ m = Len(y)
  OBVIOUS
<1>2. v \in Seq(Byte) /\ Len(v) = n + m /\ n \in Nat /\ m \in Nat
  BY <1>1, ConcatLen
<1>3. Joined(Byte, x, y, v, n, m)
  BY <1>1, Joins
<1>4. (\A i \in 1..n : v[i] = x[i]) /\ (\A i \in 1..m : v[n + i] = y[i])
  BY <1>3, Zenon DEF Joined
<1>5. SubSeq(v, 1, n) = x /\ SubSeq(v, n + 1, Len(v)) = y
  BY <1>1
<1>6. 0 + 1 = 1
  OBVIOUS
<1>7. Slice(v, 0, n) = x /\ Slice(v, n, Len(v)) = y
  BY <1>5, <1>6, Zenon DEF Slice
<1> QED
  BY <1>1, <1>2, <1>4, <1>7, Zenon DEF Parted

Sliced(v, n, m, k) ==
    /\ SubSeq(v, n + 1, k) \in Seq(Byte) /\ Len(SubSeq(v, n + 1, k)) = m
    /\ \A i \in 1..m : SubSeq(v, n + 1, k)[i] = v[n + i]

(* The elements of a slice. *)
LEMMA SliceElements ==
    ASSUME NEW v \in Seq(Byte), NEW n \in Nat, NEW m \in Nat, NEW k, k = n + m, k <= Len(v)
    PROVE  Sliced(v, n, m, k)
<1>0. PICK z : z = SubSeq(v, n + 1, k)
  OBVIOUS
<1>1. PICK a : a = n + 1
  OBVIOUS
<1>2. a \in 1..(Len(v) + 1) /\ k \in (a - 1)..Len(v) /\ k - a + 1 = m
  BY <1>1
<1>3. z = SubSeq(v, a, k)
  BY <1>0, <1>1
<1>4. z \in Seq(Byte)
  BY <1>2, <1>3
<1>5. Len(z) = k - a + 1
  BY <1>2, <1>3
<1>6. \A i \in 1..m : z[i] = v[a + i - 1]
  BY <1>2, <1>3
<1>7. \A i \in 1..m : a + i - 1 = n + i
  BY <1>1
<1>8. z \in Seq(Byte) /\ Len(z) = m /\ \A i \in 1..m : z[i] = v[n + i]
  BY <1>2, <1>4, <1>5, <1>6, <1>7
<1> QED
  BY <1>0, <1>8, Zenon DEF Sliced

Middle(v, n, k, s) == Slice(v, n, k) = s

(* What comes first in the second part can move to the first. *)
LEMMA PartsShift ==
    ASSUME NEW v, NEW x, NEW y, NEW s, NEW t, NEW n, NEW m, NEW k, k = n + m,
           Parted(v, x, y, n), Parted(y, s, t, m)
    PROVE  Parted(v, x \o s, t, k) /\ Middle(v, n, k, s)
<1>1. /\ x \in Seq(Byte) /\ y \in Seq(Byte) /\ s \in Seq(Byte) /\ t \in Seq(Byte)
      /\ v \in Seq(Byte) /\ n \in Nat /\ m \in Nat /\ v = x \o y /\ y = s \o t
      /\ Len(x) = n /\ Len(s) = m
  BY DEF Parted
<1>2. PICK a : a = x \o s
  OBVIOUS
<1>3. a \in Seq(Byte) /\ Len(a) = k
  BY <1>1, <1>2, ConcatLen
<1>4. Assoc(x, s, t)
  BY <1>1, ConcatAssoc
<1>5. v = a \o t
  BY <1>1, <1>2, <1>4, Zenon DEF Assoc
<1>6. Parted(a \o t, a, t, k)
  BY <1>1, <1>3, Parts
<1>7. Parted(v, a, t, k)
  BY <1>5, <1>6, Zenon
<1>8. Slice(v, n, k) = s
  <2>1. k \in Nat /\ Len(t) \in Nat /\ Len(v) = k + Len(t)
    BY <1>1, <1>7 DEF Parted
  <2>2. PICK z : z = SubSeq(v, n + 1, k)
    OBVIOUS
  <2>3. z \in Seq(Byte) /\ Len(z) = m /\ \A i \in 1..m : z[i] = v[n + i]
    <3>1. k <= Len(v)
      BY <2>1
    <3>2. Sliced(v, n, m, k)
      BY <1>1, <3>1, SliceElements
    <3> QED
      BY <2>2, <3>2, Zenon DEF Sliced
  <2>4. \A i \in 1..m : n + i \in 1..k /\ v[n + i] = a[n + i]
    <3>1. \A i \in 1..k : v[i] = a[i]
      BY <1>7, Zenon DEF Parted
    <3> QED
      BY <1>1, <3>1
  <2>5. Joined(Byte, x, s, a, n, m)
    BY <1>1, <1>2, Joins
  <2>6. \A i \in 1..m : a[n + i] = s[i]
    BY <2>5, Zenon DEF Joined
  <2>7. \A i \in 1..Len(z) : z[i] = s[i]
    BY <2>3, <2>4, <2>6
  <2>8. z = s
    BY <1>1, <2>3, <2>7, SameSeq
  <2> QED
    BY <2>2, <2>8 DEF Slice
<1> QED
  BY <1>2, <1>7, <1>8, Zenon DEF Middle

-----------------------------------------------------------------------------
(* Varints of one and of two bytes. *)
LEMMA VarBaseIs ==
           /\ VarBase \in Nat /\ VarBase >= 8 /\ 2 * VarBase <= ByteMod
           /\ ByteMod <= 2 * VarBase + 1 /\ ByteMod + 2 < VarBase * VarBase
<1>1. PICK b, m : b = VarBase /\ m = ByteMod
  OBVIOUS
<1>2. m \in Nat /\ m >= 16
  BY <1>1, VlessAssumption
<1>3. b = m \div 2
  BY <1>1 DEF VarBase
<1>4. b \in Nat /\ 2 * b <= m /\ m <= 2 * b + 1
  BY <1>2, <1>3
<1>5. b >= 8
  BY <1>2, <1>4
<1>6. b * b >= 8 * b
  BY <1>4, <1>5
<1>7. m + 2 < b * b
  BY <1>2, <1>4, <1>5, <1>6
<1> QED
  BY <1>1, <1>4, <1>5, <1>7

(* Two single bytes join to a pair. *)
LEMMA PairJoin ==
    ASSUME NEW a, NEW b
    PROVE  <<a>> \o <<b>> = <<a, b>>
<1>1. PICK S : S = {a, b}
  OBVIOUS
<1>2. PICK x, y, z, v : x = <<a>> /\ y = <<b>> /\ z = <<a, b>> /\ v = x \o y
  OBVIOUS
<1>3. /\ x \in Seq(S) /\ Len(x) = 1 /\ x[1] = a /\ y \in Seq(S) /\ Len(y) = 1 /\ y[1] = b
      /\ z \in Seq(S) /\ Len(z) = 2 /\ z[1] = a /\ z[2] = b
  BY <1>1, <1>2
<1>4. Joined(S, x, y, v, 1, 1)
  BY <1>2, <1>3, Joins
<1>5. v[1] = x[1] /\ v[1 + 1] = y[1]
  BY <1>4 DEF Joined
<1>6. v \in Seq(S) /\ Len(v) = 2
  BY <1>4 DEF Joined
<1>7. \A i \in 1..Len(v) : v[i] = z[i]
  BY <1>3, <1>5, <1>6
<1>8. v = z
  BY <1>3, <1>6, <1>7, SameSeq
<1> QED
  BY <1>2, <1>8, Zenon

Digits(v) == IF v < VarBase THEN <<v>> ELSE <<(v % VarBase) + VarBase, v \div VarBase>>

(* A varint below VarBase squared has one byte or two. *)
LEMMA VarintIs ==
    ASSUME NEW v \in Nat, v < VarBase * VarBase
    PROVE  EncodeVarint(v) = Digits(v)
<1> DEFINE Step(x, n) == <<(n % VarBase) + VarBase>> \o x
           E(f) == f = [n \in 0..v |-> IF n < VarBase THEN <<n>> ELSE Step(f[n \div VarBase], n)]
           g == CHOOSE f : E(f)
<1>1. PICK h : h = [n \in 0..v |-> Digits(n)]
  OBVIOUS
<1>2. ASSUME NEW n \in 0..v, n >= VarBase
      PROVE  /\ n \div VarBase \in 0..v /\ n \div VarBase < VarBase
             /\ n \div VarBase \in Nat
  <2>1. PICK b, q, r : b = VarBase /\ q = n \div b /\ r = n % b
    OBVIOUS
  <2>2. b \in Nat /\ b >= 8
    BY <2>1, VarBaseIs
  <2>3. q \in Int /\ r \in 0..(b - 1) /\ n = b * q + r /\ q >= 0
    BY <2>1, <2>2
  <2>4. b * q <= n /\ b * q >= q
    BY <2>2, <2>3
  <2>5. q < b
    <3> SUFFICES ASSUME q >= b PROVE FALSE
      BY <2>2, <2>3
    <3>1. b * q >= b * b
      BY <2>2, <2>3
    <3> QED
      BY <2>1, <2>2, <2>3, <2>4, <3>1
  <2> QED
    BY <2>1, <2>2, <2>3, <2>4, <2>5
<1>3. E(h)
  <2>1. ASSUME NEW n \in 0..v, n >= VarBase
        PROVE  h[n] = Step(h[n \div VarBase], n)
    <3>1. PICK q, d : q = n \div VarBase /\ d = (n % VarBase) + VarBase
      OBVIOUS
    <3>2. q \in 0..v /\ q < VarBase
      BY <1>2, <2>1, <3>1
    <3>3. h[q] = <<q>>
      BY <1>1, <3>2 DEF Digits
    <3>4. ~(n < VarBase)
      BY <2>1, VarBaseIs
    <3>5. h[n] = <<d, q>>
      BY <1>1, <3>1, <3>4, Zenon DEF Digits
    <3>6. <<d>> \o <<q>> = <<d, q>>
      BY PairJoin
    <3> QED
      BY <3>1, <3>3, <3>5, <3>6, Zenon
  <2>2. ASSUME NEW n \in 0..v, n < VarBase PROVE h[n] = <<n>>
    BY <1>1, <2>2 DEF Digits
  <2>3. \A n \in 0..v : n < VarBase \/ n >= VarBase
    BY VarBaseIs
  <2> HIDE DEF Step
  <2>4. \A n \in 0..v : h[n] = IF n < VarBase THEN <<n>> ELSE Step(h[n \div VarBase], n)
    BY <2>1, <2>2, <2>3
  <2>5. PICK k : k = [n \in 0..v |-> IF n < VarBase THEN <<n>> ELSE Step(h[n \div VarBase], n)]
    OBVIOUS
  <2>6. \A n \in 0..v : k[n] = h[n]
    BY <2>4, <2>5
  <2>7. h = k
    BY <1>1, <2>5, <2>6
  <2> QED
    BY <2>5, <2>7
<1>4. \A f : E(f) => f[v] = Digits(v)
  <2> SUFFICES ASSUME NEW f, E(f) PROVE f[v] = Digits(v)
    OBVIOUS
  <2>1. f = [n \in 0..v |-> IF n < VarBase THEN <<n>> ELSE Step(f[n \div VarBase], n)]
    OBVIOUS
  <2>2. v \in 0..v
    OBVIOUS
  <2> HIDE DEF Step
  <2>3. CASE v < VarBase
    BY <2>1, <2>2, <2>3 DEF Digits
  <2>4. CASE ~(v < VarBase)
    <3>1. PICK q, d : q = v \div VarBase /\ d = (v % VarBase) + VarBase
      OBVIOUS
    <3>2. q \in 0..v /\ q < VarBase
      BY <1>2, <2>2, <2>4, <3>1, VarBaseIs
    <3>3. f[q] = <<q>>
      BY <2>1, <3>2
    <3>4. f[v] = Step(f[q], v)
      BY <2>1, <2>2, <2>4, <3>1
    <3>5. Step(<<q>>, v) = <<d, q>>
      BY <3>1, PairJoin, Zenon DEF Step
    <3> QED
      BY <2>4, <3>1, <3>3, <3>4, <3>5, Zenon DEF Digits
  <2> QED
    BY <2>3, <2>4
<1>5. E(g)
  <2> HIDE DEF E
  <2> QED
    BY <1>3, Zenon
<1>6. g[v] = Digits(v)
  <2> HIDE DEF E
  <2> QED
    BY <1>4, <1>5, Zenon
<1> QED
  BY <1>6, Zenon DEF EncodeVarint

(* g has the value and the weight after 0 to n bytes of w. *)
AccStep(a, b) == [value |-> a.value + (b % VarBase) * a.shift, shift |-> a.shift * VarBase]
AccStart == [value |-> 0, shift |-> 1]
Accs(n, g, w) == g = [i \in 0..n |-> IF i = 0 THEN AccStart ELSE AccStep(g[i - 1], w[i])]

(* The record of the decoder's values exists for any number of bytes. *)
LEMMA AccsExist ==
    ASSUME NEW w
    PROVE  \A n \in Nat : \E g : Accs(n, g, w)
<1> DEFINE T == {n \in Nat : \E g : Accs(n, g, w)}
<1>1. 0 \in T
  <2>1. PICK g : g = [i \in 0..0 |-> AccStart]
    OBVIOUS
  <2>2. Accs(0, g, w)
    BY <2>1 DEF Accs
  <2> QED
    BY <2>2
<1>2. ASSUME NEW n \in Nat, n \in T PROVE n + 1 \in T
  <2>1. PICK g : Accs(n, g, w)
    BY <1>2
  <2>2. PICK h : h = [i \in 0..(n + 1) |-> IF i = 0 THEN AccStart ELSE AccStep(g[i - 1], w[i])]
    OBVIOUS
  <2>3. \A i \in 0..n : h[i] = g[i]
    BY <2>1, <2>2 DEF Accs
  <2>4. \A i \in 0..(n + 1) : i # 0 => h[i - 1] = g[i - 1]
    BY <2>3
  <2>5. Accs(n + 1, h, w)
    BY <2>2, <2>4 DEF Accs
  <2> QED
    BY <2>5
<1>3. Nat \subseteq T
  <2> HIDE DEF T
  <2> QED
    BY <1>1, <1>2, SetInduction
<1> QED
  BY <1>3

(* The position of the byte that ends the varint w starts with. *)
Stops(w, n) == /\ n \in 1..Least(10, Len(w)) /\ w[n] < VarBase
               /\ \A k \in 1..(n - 1) : ~(w[k] < VarBase)

(* decode_varint gives the value collected at the first byte below VarBase. *)
LEMMA DecodeIs ==
    ASSUME NEW w \in Seq(Byte), NEW n, Stops(w, n)
    PROVE  \E g : /\ Accs(Len(w), g, w)
                  /\ DecodeVarint(w) = [ok |-> TRUE, value |-> g[n].value, consumed |-> n]
<1> DEFINE g == CHOOSE h : Accs(Len(w), h, w)
           ends == {i \in 1..Least(10, Len(w)) :
                       w[i] < VarBase /\ \A k \in 1..(i - 1) : w[k] >= VarBase}
<1>1. Accs(Len(w), g, w)
  <2>1. Len(w) \in Nat
    OBVIOUS
  <2>2. \E h : Accs(Len(w), h, w)
    BY <2>1, AccsExist
  <2> QED
    BY <2>2, Zenon
<1>2. Len(w) \in Nat /\ Least(10, Len(w)) \in Nat /\ Least(10, Len(w)) <= Len(w)
  BY DEF Least
<1>3. \A k \in 1..Len(w) : w[k] \in Nat
  BY VlessAssumption DEF Byte
<1>4. VarBase \in Nat
  BY VarBaseIs
<1>5. n \in ends
  BY <1>2, <1>3, <1>4 DEF Stops
<1>6. \A i \in ends : i = n
  BY <1>2, <1>3, <1>4 DEF Stops
<1>7. ends = {n}
  BY <1>5, <1>6
<1>8. (CHOOSE i \in ends : TRUE) = n
  BY <1>7
<1>9. ends # {}
  BY <1>7
<1>10. DecodeVarint(w) = IF ends = {} THEN Err("Layout")
                         ELSE [ok |-> TRUE, value |-> g[CHOOSE i \in ends : TRUE].value,
                               consumed |-> CHOOSE i \in ends : TRUE]
  BY DEF DecodeVarint, Accs, AccStart, AccStep
<1> HIDE DEF g, ends
<1> QED
  BY <1>1, <1>8, <1>9, <1>10, Zenon

(* encode_varint and decode_varint. *)
LEMMA VarintRead ==
    ASSUME NEW v \in Nat, v < VarBase * VarBase, NEW y \in Seq(Byte)
    PROVE  /\ EncodeVarint(v) \in Seq(Byte) /\ Len(EncodeVarint(v)) \in {1, 2}
           /\ DecodeVarint(EncodeVarint(v) \o y)
                  = [ok |-> TRUE, value |-> v, consumed |-> Len(EncodeVarint(v))]
<1>1. PICK b, q, r : b = VarBase /\ q = v \div b /\ r = v % b
  OBVIOUS
<1>2. b \in Nat /\ b >= 8 /\ 2 * b <= ByteMod /\ ByteMod \in Nat
  BY <1>1, VarBaseIs, VlessAssumption
<1>3. q \in Nat /\ r \in 0..(b - 1) /\ v = b * q + r
  <2>1. q \in Int /\ r \in 0..(b - 1) /\ q >= 0 /\ v = b * q + r
    BY <1>1, <1>2
  <2> QED
    BY <2>1
<1>4. q < b
  <2> SUFFICES ASSUME q >= b PROVE FALSE
    BY <1>2, <1>3
  <2>1. b * q >= b * b
    BY <1>2, <1>3
  <2>2. b * q <= v /\ v < b * b
    BY <1>1, <1>2, <1>3
  <2>3. b * b \in Int /\ b * q \in Int
    BY <1>2, <1>3
  <2> QED
    BY <2>1, <2>2, <2>3
<1>5. PICK e, w : e = EncodeVarint(v) /\ w = e \o y
  OBVIOUS
<1>6. e = Digits(v)
  BY <1>5, VarintIs
<1>7. CASE v < b
  <2>1. e = <<v>>
    BY <1>1, <1>6, <1>7 DEF Digits
  <2>2. v \in Byte
    BY <1>2, <1>7 DEF Byte
  <2>3. e \in Seq(Byte) /\ Len(e) = 1 /\ e[1] = v
    BY <2>1, <2>2
  <2>4. Parted(w, e, y, 1)
    BY <1>5, <2>3, Parts, Zenon
  <2>5. w \in Seq(Byte) /\ Len(w) >= 1 /\ w[1] = v
    BY <2>3, <2>4 DEF Parted
  <2>6. Stops(w, 1)
    BY <1>1, <1>7, <2>5 DEF Stops, Least
  <2>7. PICK g : /\ Accs(Len(w), g, w)
                 /\ DecodeVarint(w) = [ok |-> TRUE, value |-> g[1].value, consumed |-> 1]
    BY <2>5, <2>6, DecodeIs
  <2>8. g[0] = AccStart /\ g[1] = AccStep(g[0], w[1])
    BY <2>5, <2>7 DEF Accs
  <2>9. g[0].value = 0 /\ g[0].shift = 1
    BY <2>8 DEF AccStart
  <2>10. g[1].value = 0 + (v % b) * 1
    BY <1>1, <2>5, <2>8, <2>9 DEF AccStep
  <2>11. g[1].value = v
    BY <1>2, <1>7, <2>10
  <2> QED
    BY <1>5, <2>3, <2>7, <2>11, Zenon
<1>8. CASE ~(v < b)
  <2>1. PICK d : d = r + b
    OBVIOUS
  <2>2. e = <<d, q>>
    BY <1>1, <1>6, <1>8, <2>1, Zenon DEF Digits
  <2>3. d \in Byte /\ q \in Byte /\ ~(d < b)
    BY <1>2, <1>3, <1>4, <2>1 DEF Byte
  <2>4. e \in Seq(Byte) /\ Len(e) = 2 /\ e[1] = d /\ e[2] = q
    BY <2>2, <2>3
  <2>5. Parted(w, e, y, 2)
    BY <1>5, <2>4, Parts, Zenon
  <2>6. w \in Seq(Byte) /\ Len(w) >= 2 /\ w[1] = d /\ w[2] = q
    BY <2>4, <2>5 DEF Parted
  <2>7. Stops(w, 2)
    BY <1>1, <1>4, <2>3, <2>6 DEF Stops, Least
  <2>8. PICK g : /\ Accs(Len(w), g, w)
                 /\ DecodeVarint(w) = [ok |-> TRUE, value |-> g[2].value, consumed |-> 2]
    BY <2>6, <2>7, DecodeIs
  <2>9. g[0] = AccStart /\ g[1] = AccStep(g[0], w[1]) /\ g[2] = AccStep(g[1], w[2])
    BY <2>6, <2>8 DEF Accs
  <2>10. g[0].value = 0 /\ g[0].shift = 1
    BY <2>9 DEF AccStart
  <2>11. g[1].value = 0 + (d % b) * 1 /\ g[1].shift = 1 * b
    BY <1>1, <2>6, <2>9, <2>10 DEF AccStep
  <2>12. d % b = r /\ q % b = q
    BY <1>2, <1>3, <1>4, <2>1
  <2>13. g[1].value = r /\ g[1].shift = b
    BY <1>2, <1>3, <2>11, <2>12
  <2>14. g[2].value = r + q * b
    BY <1>1, <2>6, <2>9, <2>12, <2>13 DEF AccStep
  <2>15. r + q * b = v
    BY <1>2, <1>3
  <2> QED
    BY <1>5, <2>4, <2>8, <2>14, <2>15, Zenon
<1> QED
  BY <1>7, <1>8

-----------------------------------------------------------------------------
(* What the server is to read. *)
Asked(q) == IF q.command = CMD_MUX THEN [q EXCEPT !.address = MuxAddress, !.port = 0] ELSE q

(* The addons: a tag, the length of the rest, and the rest. *)
FlowField(flow) == IF flow = <<>> THEN <<0>> ELSE <<1, Len(flow)>> \o flow

(* build_addons and decode_addons_flow: the flow is read back from the addons. *)
LEMMA FlowFieldIs ==
    ASSUME NEW flow \in Seq(Byte), Len(flow) < ByteMod, NEW s, s = FlowField(flow)
    PROVE  /\ s \in Seq(Byte) /\ Len(s) \in 1..(ByteMod + 1)
           /\ Addons(flow) = <<FlowTag>> \o EncodeVarint(Len(s)) \o s
           /\ ParseFlow(s) = [ok |-> TRUE, flow |-> flow]
<1>1. CASE flow = <<>>
  <2>1. s = <<0>>
    BY <1>1, Zenon DEF FlowField
  <2>2. 0 \in Byte /\ 1 \in Byte /\ FlowTag \in Byte
    BY VlessAssumption DEF Byte, FlowTag
  <2>3. s \in Seq(Byte) /\ Len(s) = 1 /\ s[1] = 0
    BY <2>1, <2>2
  <2>4. EncodeVarint(Len(s)) = <<1>>
    <3>1. EncodeVarint(1) = Digits(1) /\ 1 < VarBase
      <4>1. VarBase \in Nat /\ VarBase >= 8
        BY VarBaseIs
      <4>2. 1 < VarBase * VarBase
        BY VarBaseIs, VlessAssumption
      <4> QED
        BY <4>1, <4>2, VarintIs
    <3> QED
      BY <2>3, <3>1, Zenon DEF Digits
  <2>5. <<FlowTag>> \o <<1>> = <<FlowTag, 1>>
    BY PairJoin
  <2>6. <<FlowTag, 1>> \o <<0>> = <<FlowTag, 1, 0>>
    <3>1. PICK x, y, z, v : /\ x = <<FlowTag, 1>> /\ y = <<0>> /\ z = <<FlowTag, 1, 0>>
                            /\ v = x \o y
      OBVIOUS
    <3>2. /\ x \in Seq(Byte) /\ Len(x) = 2 /\ x[1] = FlowTag /\ x[2] = 1
          /\ y \in Seq(Byte) /\ Len(y) = 1 /\ y[1] = 0
          /\ z \in Seq(Byte) /\ Len(z) = 3 /\ z[1] = FlowTag /\ z[2] = 1 /\ z[3] = 0
      BY <2>2, <3>1
    <3>3. Joined(Byte, x, y, v, 2, 1)
      BY <3>1, <3>2, Joins
    <3>4. v[1] = x[1] /\ v[2] = x[2] /\ v[2 + 1] = y[1]
      BY <3>3 DEF Joined
    <3>5. v \in Seq(Byte) /\ Len(v) = 3
      BY <3>3 DEF Joined
    <3>6. \A i \in 1..Len(v) : v[i] = z[i]
      BY <3>2, <3>4, <3>5
    <3>7. v = z
      BY <3>2, <3>5, <3>6, SameSeq
    <3> QED
      BY <3>1, <3>7, Zenon
  <2>7. Addons(flow) = <<FlowTag>> \o EncodeVarint(Len(s)) \o s
    BY <1>1, <2>1, <2>4, <2>5, <2>6, Zenon DEF Addons
  <2>8. ParseFlow(s) = [ok |-> TRUE, flow |-> <<>>]
    <3>1. s[1] # 1
      BY <2>3
    <3> QED
      BY <3>1, Zenon DEF ParseFlow
  <2>9. Len(s) \in 1..(ByteMod + 1)
    BY <2>3, VlessAssumption
  <2> QED
    BY <1>1, <2>3, <2>7, <2>8, <2>9
<1>2. CASE flow # <<>>
  <2>1. PICK h, n : h = <<1, n>> /\ n = Len(flow)
    OBVIOUS
  <2>2. n \in Byte /\ 1 \in Byte /\ n \in Nat /\ n % ByteMod = n
    <3>1. n \in Nat /\ n < ByteMod
      BY <2>1
    <3>2. n \in Byte /\ 1 \in Byte
      BY <3>1, VlessAssumption DEF Byte
    <3>3. n % ByteMod = n
      BY <3>1, VlessAssumption
    <3> QED
      BY <3>1, <3>2, <3>3
  <2>3. h \in Seq(Byte) /\ Len(h) = 2 /\ h[1] = 1 /\ h[2] = n
    BY <2>1, <2>2
  <2>4. s = h \o flow
    BY <1>2, <2>1, Zenon DEF FlowField
  <2>5. Parted(s, h, flow, 2)
    BY <2>3, <2>4, Parts, Zenon
  <2>6. s \in Seq(Byte) /\ Len(s) = 2 + n /\ s[1] = 1 /\ s[2] = n
    BY <2>1, <2>3, <2>5 DEF Parted
  <2>7. Len(s) \in 1..(ByteMod + 1)
    BY <2>1, <2>2, <2>6, VlessAssumption
  <2>8. Addons(flow) = <<FlowTag>> \o EncodeVarint(Len(s)) \o s
    BY <1>2, <2>1, <2>2, <2>4, Zenon DEF Addons
  <2>9. Slice(s, 2, 2 + s[2]) = flow
    <3>1. Slice(s, 2, Len(s)) = flow
      BY <2>5, Zenon DEF Parted
    <3> QED
      BY <2>6, <3>1
  <2>10. s # <<>> /\ ~(Len(s) < 2 \/ Len(s) < 2 + s[2])
    BY <2>2, <2>6
  <2>11. ParseFlow(s) = [ok |-> TRUE, flow |-> flow]
    BY <2>6, <2>9, <2>10, Zenon DEF ParseFlow
  <2> QED
    BY <2>6, <2>7, <2>8, <2>11
<1> QED
  BY <1>1, <1>2

(* A message that begins as a request does, whatever follows the command.  *)
Opening(v, uuid, e, s, cmd, rest) ==
    v = <<VERSION>> \o (uuid \o (<<FlowTag>> \o (e \o (s \o (<<cmd>> \o rest)))))

(* The parts of such a message, at their offsets. *)
Opened(v, uuid, e, s, cmd, rest, f, t) ==
    /\ v \in Seq(Byte) /\ f \in Nat /\ t \in Nat /\ Len(v) = t + 1 + Len(rest)
    /\ v[1] = VERSION /\ Slice(v, 1, 1 + UuidLen) = uuid /\ v[2 + UuidLen] = FlowTag
    /\ Slice(v, 2 + UuidLen, Len(v)) = e \o (s \o (<<cmd>> \o rest))
    /\ Slice(v, f, t) = s /\ v[t + 1] = cmd
    /\ \E x : Parted(v, x, rest, t + 1)

(* The version, the identity, the addons and the command stand at their offsets. *)
LEMMA OpeningParts ==
    ASSUME NEW uuid \in Seq(Byte), Len(uuid) = UuidLen, NEW e \in Seq(Byte), NEW s \in Seq(Byte),
           NEW cmd \in Byte, NEW rest \in Seq(Byte), NEW v, Opening(v, uuid, e, s, cmd, rest),
           NEW f, NEW t, f = 2 + UuidLen + Len(e), t = f + Len(s)
    PROVE  Opened(v, uuid, e, s, cmd, rest, f, t)
<1>1. VERSION \in Byte /\ FlowTag \in Byte /\ UuidLen \in Nat
  BY VlessAssumption DEF Byte, VERSION, FlowTag
<1>2. PICK z, g, c : z = <<VERSION>> /\ g = <<FlowTag>> /\ c = <<cmd>>
  OBVIOUS
<1>3. /\ z \in Seq(Byte) /\ Len(z) = 1 /\ z[1] = VERSION
      /\ g \in Seq(Byte) /\ Len(g) = 1 /\ g[1] = FlowTag
      /\ c \in Seq(Byte) /\ Len(c) = 1 /\ c[1] = cmd
  BY <1>1, <1>2
<1>4. PICK y1, y2, y3, y4, y5 : /\ y5 = c \o rest /\ y4 = s \o y5 /\ y3 = e \o y4
                                /\ y2 = g \o y3 /\ y1 = uuid \o y2
  OBVIOUS
<1>5. Parted(y5, c, rest, 1)
  BY <1>3, <1>4, Parts
<1>6. Parted(y4, s, y5, Len(s))
  <2>1. y5 \in Seq(Byte)
    BY <1>5, Zenon DEF Parted
  <2> QED
    BY <1>4, <2>1, Parts
<1>7. Parted(y3, e, y4, Len(e))
  <2>1. y4 \in Seq(Byte)
    BY <1>6, Zenon DEF Parted
  <2> QED
    BY <1>4, <2>1, Parts
<1>8. Parted(y2, g, y3, 1)
  <2>1. y3 \in Seq(Byte)
    BY <1>7, Zenon DEF Parted
  <2> QED
    BY <1>3, <1>4, <2>1, Parts
<1>9. Parted(y1, uuid, y2, UuidLen)
  <2>1. y2 \in Seq(Byte)
    BY <1>8, Zenon DEF Parted
  <2> QED
    BY <1>4, <2>1, Parts
<1>10. Parted(v, z, y1, 1)
  <2>1. y1 \in Seq(Byte)
    BY <1>9, Zenon DEF Parted
  <2>2. v = z \o y1
    BY <1>2, <1>4, Zenon DEF Opening
  <2> QED
    BY <1>3, <2>1, <2>2, Parts
<1>11. Parted(v, z \o uuid, y2, 1 + UuidLen) /\ Slice(v, 1, 1 + UuidLen) = uuid
  <2>1. PICK k : k = 1 + UuidLen
    OBVIOUS
  <2>2. Parted(v, z \o uuid, y2, k) /\ Slice(v, 1, k) = uuid
    <3>1. Parted(v, z \o uuid, y2, k)
      BY <1>9, <1>10, <2>1, PartsShift
    <3>2. Middle(v, 1, k, uuid)
      BY <1>9, <1>10, <2>1, PartsShift
    <3> QED
      BY <3>1, <3>2 DEF Middle
  <2> QED
    BY <2>1, <2>2, Zenon
<1>12. PICK x1 : x1 = z \o uuid
  OBVIOUS
<1>13. (1 + UuidLen) + 1 = 2 + UuidLen
  BY <1>1
<1>14. Parted(v, x1 \o g, y3, 2 + UuidLen)
  BY <1>8, <1>11, <1>12, <1>13, PartsShift, Zenon
<1>15. PICK x2 : x2 = x1 \o g
  OBVIOUS
<1>16. Parted(v, x2 \o e, y4, f)
  BY <1>7, <1>14, <1>15, PartsShift
<1>17. PICK x3 : x3 = x2 \o e
  OBVIOUS
<1>18. Parted(v, x3 \o s, y5, t) /\ Middle(v, f, t, s)
  BY <1>6, <1>16, <1>17, PartsShift
<1>19. PICK x4 : x4 = x3 \o s
  OBVIOUS
<1>20. Parted(v, x4 \o c, rest, t + 1)
  BY <1>5, <1>18, <1>19, PartsShift, Zenon
<1>21. v \in Seq(Byte) /\ f \in Nat /\ t \in Nat /\ Len(v) = t + 1 + Len(rest)
  BY <1>16, <1>18, <1>20, Zenon DEF Parted
<1>22. v[1] = VERSION
  BY <1>3, <1>10 DEF Parted
<1>23. v[2 + UuidLen] = FlowTag
  <2>1. 1 \in 1..Len(y2) /\ y2[1] = FlowTag
    BY <1>3, <1>8, SMTT(60) DEF Parted
  <2>2. v[(1 + UuidLen) + 1] = y2[1]
    BY <1>11, <2>1, Zenon DEF Parted
  <2> QED
    BY <1>13, <2>1, <2>2, Zenon
<1>24. v[t + 1] = cmd
  <2>1. 1 \in 1..Len(y5) /\ y5[1] = cmd
    BY <1>3, <1>5 DEF Parted
  <2> QED
    BY <1>18, <2>1, Zenon DEF Parted
<1>25. Slice(v, 2 + UuidLen, Len(v)) = e \o (s \o (<<cmd>> \o rest))
  BY <1>2, <1>4, <1>14, Zenon DEF Parted
<1> QED
  BY <1>11, <1>18, <1>20, <1>21, <1>22, <1>23, <1>24, <1>25, Zenon DEF Opened, Middle

(* Where the addons end is found again. *)
Located(v, e, f, t) == /\ e \in Seq(Byte) /\ Len(e) \in {1, 2}
                       /\ AddonsAt(v) = [ok |-> TRUE, from |-> f, end |-> t]

(* The length of the addons is decoded to where they end. *)
LEMMA AddonsFound ==
    ASSUME NEW uuid \in Seq(Byte), Len(uuid) = UuidLen, NEW e, NEW s \in Seq(Byte),
           Len(s) \in 1..(ByteMod + 1), e = EncodeVarint(Len(s)),
           NEW cmd \in Byte, NEW rest \in Seq(Byte), NEW v, Opening(v, uuid, e, s, cmd, rest),
           NEW f, NEW t, f = 2 + UuidLen + Len(e), t = f + Len(s)
    PROVE  Located(v, e, f, t)
<1>1. PICK n : n = Len(s)
  OBVIOUS
<1>2. n \in Nat /\ n < VarBase * VarBase
  BY <1>1, VarBaseIs, VlessAssumption, SMTT(60)
<1>3. PICK c, y : c = <<cmd>> /\ y = s \o (c \o rest)
  OBVIOUS
<1>4. y \in Seq(Byte)
  <2>1. c \in Seq(Byte)
    BY <1>3
  <2>2. c \o rest \in Seq(Byte)
    BY <2>1, ConcatLen
  <2> QED
    BY <1>3, <2>2, ConcatLen
<1>5. /\ e \in Seq(Byte) /\ Len(e) \in {1, 2}
      /\ DecodeVarint(e \o y) = [ok |-> TRUE, value |-> n, consumed |-> Len(e)]
  BY <1>1, <1>2, <1>4, VarintRead, Zenon
<1>6. /\ f \in Nat /\ t \in Nat /\ Len(v) = t + 1 + Len(rest) /\ v[2 + UuidLen] = FlowTag
      /\ Slice(v, 2 + UuidLen, Len(v)) = e \o (s \o (<<cmd>> \o rest))
  <2>1. Opened(v, uuid, e, s, cmd, rest, f, t)
    BY <1>5, OpeningParts
  <2> QED
    BY <2>1, Zenon DEF Opened
<1>7. PICK d, b, l : /\ d = DecodeVarint(Slice(v, 2 + UuidLen, Len(v))) /\ b = TRUE
                     /\ l = Len(e)
  OBVIOUS
<1>8. d = [ok |-> b, value |-> n, consumed |-> l]
  BY <1>3, <1>5, <1>6, <1>7, Zenon
<1>9. d.ok = b /\ d.value = n /\ d.consumed = l
  BY <1>8
<1>10. 2 + UuidLen + d.consumed = f /\ 2 + UuidLen + d.consumed + d.value = t
  BY <1>1, <1>7, <1>9
<1>11. ~(t >= Len(v))
  <2>1. Len(rest) \in Nat
    OBVIOUS
  <2> QED
    BY <1>6, <2>1, SMTT(60)
<1>12. AddonsAt(v) = [ok |-> TRUE, from |-> f, end |-> t]
  BY <1>6, <1>7, <1>9, <1>10, <1>11, Zenon DEF AddonsAt
<1> QED
  BY <1>5, <1>12, Zenon DEF Located

-----------------------------------------------------------------------------
(* Addresses. *)
LEMMA AddressRead ==
    ASSUME NEW a, FitsAddress(a), NEW p \in Seq(Byte), NEW w, w = AddressBytes(a), NEW n, n = Len(w)
    PROVE  /\ w \in Seq(Byte) /\ n \in Nat \ {0} /\ AddressLen(w \o p) = n
           /\ ParseAddress(w) = [ok |-> TRUE, address |-> a]
<1>1. PICK k, b, m : k = a.atyp /\ b = a.bytes /\ m = Len(b)
  OBVIOUS
<1>2. /\ a = [atyp |-> k, bytes |-> b] /\ k \in {ATYP_IPV4, ATYP_DOMAIN, ATYP_IPV6}
      /\ b \in Seq(Byte) /\ m \in Nat
  BY <1>1 DEF FitsAddress, Address
<1>3. ByteMod \in Nat /\ ByteMod >= 16
  BY VlessAssumption
<1>4. k \in Byte /\ k \in 1..3
  BY <1>2, <1>3 DEF Byte, ATYP_IPV4, ATYP_DOMAIN, ATYP_IPV6
<1>5. PICK h : h = IF k = ATYP_DOMAIN THEN <<k, m>> ELSE <<k>>
  OBVIOUS
<1>6. PICK l : l = IF k = ATYP_DOMAIN THEN 2 ELSE 1
  OBVIOUS
<1>7. k = ATYP_DOMAIN => m \in Byte /\ m % ByteMod = m
  <2> SUFFICES ASSUME k = ATYP_DOMAIN PROVE m \in Byte /\ m % ByteMod = m
    OBVIOUS
  <2>1. m < ByteMod
    BY <1>1 DEF FitsAddress
  <2>2. m \in Byte
    BY <1>2, <1>3, <2>1 DEF Byte
  <2>3. m % ByteMod = m
    BY <1>2, <1>3, <2>1
  <2> QED
    BY <2>2, <2>3
<1>8. h \in Seq(Byte) /\ Len(h) = l /\ h[1] = k /\ (k = ATYP_DOMAIN => h[2] = m)
  <2>1. CASE k = ATYP_DOMAIN
    <3>1. h = <<k, m>> /\ l = 2
      BY <1>5, <1>6, <2>1
    <3> QED
      BY <1>4, <1>7, <2>1, <3>1
  <2>2. CASE k # ATYP_DOMAIN
    <3>1. h = <<k>> /\ l = 1
      BY <1>5, <1>6, <2>2
    <3> QED
      BY <1>4, <2>2, <3>1
  <2> QED
    BY <2>1, <2>2
<1>9. w = h \o b
  <2>1. CASE k = ATYP_DOMAIN
    <3>1. <<k>> \o <<m>> = <<k, m>>
      BY PairJoin
    <3> QED
      BY <1>1, <1>5, <1>7, <2>1, <3>1, Zenon DEF AddressBytes
  <2>2. CASE k # ATYP_DOMAIN
    <3>1. <<k>> \o <<>> = <<k>>
      <4>1. PICK x : x = <<k>>
        OBVIOUS
      <4>2. x \in Seq(Byte)
        BY <1>4, <4>1
      <4>3. x \o <<>> = x
        BY <4>2
      <4> QED
        BY <4>1, <4>3
    <3> QED
      BY <1>1, <1>5, <2>2, <3>1, Zenon DEF AddressBytes
  <2> QED
    BY <2>1, <2>2
<1>10. Parted(w, h, b, l)
  BY <1>2, <1>8, <1>9, Parts, Zenon
<1>11. /\ w \in Seq(Byte) /\ n = l + m /\ w[1] = k /\ (k = ATYP_DOMAIN => w[2] = m)
       /\ l \in {1, 2} /\ (k = ATYP_DOMAIN <=> l = 2)
  <2>1. l \in {1, 2} /\ (k = ATYP_DOMAIN <=> l = 2)
    BY <1>6
  <2>2. w \in Seq(Byte) /\ n = l + m
    BY <1>1, <1>10 DEF Parted
  <2>3. w[1] = h[1] /\ (l = 2 => w[2] = h[2])
    BY <1>10, <2>1 DEF Parted
  <2> QED
    BY <1>8, <2>1, <2>2, <2>3
<1>12. ASSUME NEW v, NEW r \in Seq(Byte), Parted(v, w, r, n)
       PROVE  AddressLen(v) = n
  <2>1. v \in Seq(Byte) /\ Len(v) = n + Len(r) /\ v[1] = k /\ (k = ATYP_DOMAIN => v[2] = m)
    <3>1. v \in Seq(Byte) /\ Len(v) = n + Len(r) /\ \A i \in 1..n : v[i] = w[i]
      BY <1>12, Zenon DEF Parted
    <3>2. 1 \in 1..n /\ (l = 2 => 2 \in 1..n)
      BY <1>2, <1>11
    <3> QED
      BY <1>11, <3>1, <3>2
  <2>2. Len(r) \in Nat
    OBVIOUS
  <2>3. v # <<>> /\ (k = ATYP_DOMAIN => Len(v) >= 2)
    BY <1>2, <1>11, <2>1, <2>2
  <2>4. CASE k = ATYP_IPV4
    <3>1. m = 4 /\ l = 1
      BY <1>1, <1>11, <2>4 DEF FitsAddress, ATYP_IPV4, ATYP_DOMAIN
    <3>2. AddressLen(v) = 5
      BY <2>1, <2>3, <2>4 DEF AddressLen, ATYP_IPV4, ATYP_IPV6, ATYP_DOMAIN
    <3> QED
      BY <1>11, <3>1, <3>2
  <2>5. CASE k = ATYP_IPV6
    <3>1. m = 16 /\ l = 1
      BY <1>1, <1>11, <2>5 DEF FitsAddress, ATYP_IPV6, ATYP_DOMAIN
    <3>2. AddressLen(v) = 17
      BY <2>1, <2>3, <2>5 DEF AddressLen, ATYP_IPV4, ATYP_IPV6, ATYP_DOMAIN
    <3> QED
      BY <1>11, <3>1, <3>2
  <2>6. CASE k = ATYP_DOMAIN
    <3>1. l = 2
      BY <1>11, <2>6
    <3>2. AddressLen(v) = 2 + m
      BY <2>1, <2>3, <2>6 DEF AddressLen, ATYP_IPV4, ATYP_IPV6, ATYP_DOMAIN
    <3> QED
      BY <1>11, <3>1, <3>2
  <2> QED
    BY <1>2, <2>4, <2>5, <2>6
<1>13. AddressLen(w \o p) = n
  <2>1. Parted(w \o p, w, p, n)
    BY <1>11, Parts
  <2> QED
    BY <1>12, <2>1
<1>14. AddressLen(w) = n
  <2>1. <<>> \in Seq(Byte) /\ w \o <<>> = w
    BY <1>11
  <2>2. Parted(w \o <<>>, w, <<>>, n)
    BY <1>11, <2>1, Parts
  <2> QED
    BY <1>12, <2>1, <2>2
<1>15. n \in Nat \ {0}
  BY <1>2, <1>11
<1>16. ParseAddress(w) = [ok |-> TRUE, address |-> a]
  <2>1. ~(n = 0 \/ Len(w) < n)
    BY <1>15
  <2>2. (IF w[1] = ATYP_DOMAIN THEN 2 ELSE 1) = l
    BY <1>6, <1>11
  <2>3. Slice(w, l, n) = b
    BY <1>10, Zenon DEF Parted
  <2>4. [atyp |-> w[1], bytes |-> Slice(w, IF w[1] = ATYP_DOMAIN THEN 2 ELSE 1, n)] = a
    BY <1>2, <1>11, <2>2, <2>3, Zenon
  <2> QED
    BY <1>14, <2>1, <2>4, Zenon DEF ParseAddress
<1> QED
  BY <1>11, <1>13, <1>15, <1>16

-----------------------------------------------------------------------------
(* The request header. *)
Nested(z, u, g, e, s, c, t) ==
    (((z \o u) \o ((g \o e) \o s)) \o c) \o t = z \o (u \o (g \o (e \o (s \o (c \o t)))))

(* The header regrouped, part by part. *)
LEMMA Nests ==
    ASSUME NEW z \in Seq(Byte), NEW u \in Seq(Byte), NEW g \in Seq(Byte), NEW e \in Seq(Byte),
           NEW s \in Seq(Byte), NEW c \in Seq(Byte), NEW t \in Seq(Byte)
    PROVE  Nested(z, u, g, e, s, c, t)
<1>1. PICK zu, ge, a, x, ct, sct, y, gy :
          /\ zu = z \o u /\ ge = g \o e /\ a = ge \o s /\ x = zu \o a /\ ct = c \o t
          /\ sct = s \o ct /\ y = e \o sct /\ gy = g \o y
  OBVIOUS
<1>2. /\ zu \in Seq(Byte) /\ ge \in Seq(Byte) /\ ct \in Seq(Byte)
  BY <1>1, ConcatLen
<1>3. a \in Seq(Byte) /\ sct \in Seq(Byte)
  BY <1>1, <1>2, ConcatLen
<1>4. x \in Seq(Byte) /\ y \in Seq(Byte)
  BY <1>1, <1>2, <1>3, ConcatLen
<1>5. gy \in Seq(Byte)
  BY <1>1, <1>4, ConcatLen
<1>6. /\ Assoc(x, c, t) /\ Assoc(zu, a, ct) /\ Assoc(ge, s, ct) /\ Assoc(g, e, sct)
      /\ Assoc(z, u, gy)
  BY <1>2, <1>3, <1>4, <1>5, ConcatAssoc
<1> QED
  BY <1>1, <1>6, ZenonT(60) DEF Nested, Assoc

RequestTail(q) == IF q.command = CMD_MUX THEN <<>> ELSE Be16(q.port) \o AddressBytes(q.address)

Follows(w, h, p) == w = h \o p
HeaderAt(q, h, w, e, s, tail, r) == /\ e \in Seq(Byte) /\ h \in Seq(Byte)
                                    /\ Opening(h, q.uuid, e, s, q.command, tail)
                                    /\ Opening(w, q.uuid, e, s, q.command, r)

(* The header, and the message it begins, open with these parts. *)
LEMMA HeaderOpens ==
    ASSUME NEW q, WellFormed(q), NEW p \in Seq(Byte), NEW h, h = BuildRequestHeader(q),
           NEW s, s = FlowField(q.flow), NEW e, e = EncodeVarint(Len(s)),
           NEW tail \in Seq(Byte), tail = RequestTail(q), NEW w, NEW r0, Follows(w, h, p),
           Follows(r0, tail, p)
    PROVE  HeaderAt(q, h, w, e, s, tail, r0)
<1>1. /\ q.uuid \in Seq(Byte) /\ q.flow \in Seq(Byte) /\ q.command \in Byte
      /\ Len(q.flow) < ByteMod
  BY DEF WellFormed
<1>2. /\ s \in Seq(Byte) /\ Len(s) \in 1..(ByteMod + 1)
      /\ Addons(q.flow) = <<FlowTag>> \o EncodeVarint(Len(s)) \o s
  BY <1>1, FlowFieldIs, Zenon
<1>3. e \in Seq(Byte)
  <2>1. PICK n : n = Len(s)
    OBVIOUS
  <2>2. n \in Nat /\ n < VarBase * VarBase
    BY <1>2, <2>1, VarBaseIs, VlessAssumption
  <2> QED
    BY <2>1, <2>2, VarintRead, Zenon
<1>4. PICK z, g, c, u : z = <<VERSION>> /\ g = <<FlowTag>> /\ c = <<q.command>> /\ u = q.uuid
  OBVIOUS
<1>5. z \in Seq(Byte) /\ g \in Seq(Byte) /\ c \in Seq(Byte)
  <2>1. VERSION \in Byte /\ FlowTag \in Byte
    BY VlessAssumption DEF VERSION, FlowTag, Byte
  <2> QED
    BY <1>1, <1>4, <2>1
<1>6. PICK x : x = ((z \o u) \o ((g \o e) \o s)) \o c
  OBVIOUS
<1>7. h = x \o tail
  BY <1>2, <1>4, <1>6, Zenon DEF BuildRequestHeader, RequestTail
<1>8. x \in Seq(Byte)
  <2>1. PICK zu, ge, a : zu = z \o u /\ ge = g \o e /\ a = ge \o s
    OBVIOUS
  <2>2. zu \in Seq(Byte) /\ ge \in Seq(Byte)
    BY <1>1, <1>3, <1>4, <1>5, <2>1, ConcatLen
  <2>3. a \in Seq(Byte)
    BY <1>2, <2>1, <2>2, ConcatLen
  <2>4. zu \o a \in Seq(Byte)
    BY <2>2, <2>3, ConcatLen
  <2>5. (zu \o a) \o c \in Seq(Byte)
    BY <1>5, <2>4, ConcatLen
  <2> QED
    BY <1>6, <2>1, <2>5, Zenon
<1>9. h \in Seq(Byte)
  BY <1>7, <1>8, ConcatLen
<1>10. PICK r : r = tail \o p
  OBVIOUS
<1>11. r \in Seq(Byte)
  BY <1>10, ConcatLen
<1>12. Nested(z, u, g, e, s, c, tail) /\ Nested(z, u, g, e, s, c, r)
  BY <1>1, <1>2, <1>3, <1>4, <1>5, <1>11, Nests
<1>13. Opening(h, u, e, s, q.command, tail)
  BY <1>4, <1>6, <1>7, <1>12, Zenon DEF Nested, Opening
<1>14. h \o p = x \o r
  <2>1. Assoc(x, tail, p)
    BY <1>8, ConcatAssoc
  <2> QED
    BY <1>7, <1>10, <2>1, Zenon DEF Assoc
<1>15. Opening(h \o p, u, e, s, q.command, r)
  BY <1>4, <1>6, <1>12, <1>14, Zenon DEF Nested, Opening
<1> QED
  BY <1>3, <1>4, <1>9, <1>10, <1>13, <1>15, Zenon DEF Follows, HeaderAt

(* The port and the address of a request with an address. *)
LEMMA TailIs ==
    ASSUME NEW q, WellFormed(q), q.command # CMD_MUX, NEW b, NEW a, b = Be16(q.port),
           a = AddressBytes(q.address)
    PROVE  /\ b \in Seq(Byte) /\ Len(b) = 2 /\ Un16(b[1], b[2]) = q.port
           /\ a \in Seq(Byte) /\ RequestTail(q) = b \o a
<1>1. FitsAddress(q.address) /\ q.port \in 0..(ByteMod * ByteMod - 1)
  BY DEF WellFormed
<1>2. PICK n : n = q.port
  OBVIOUS
<1>3. PICK x, y \in Byte : Be16(n) = <<x, y>> /\ Un16(x, y) = n
  <2>1. (n \div ByteMod) % ByteMod = n \div ByteMod
    BY <1>1, <1>2, Be16Inverse
  <2>2. n \div ByteMod \in Byte /\ n % ByteMod \in Byte /\ Un16(n \div ByteMod, n % ByteMod) = n
    BY <1>1, <1>2, Be16Inverse
  <2> QED
    BY <2>1, <2>2, Zenon DEF Be16
<1>4. b = <<x, y>>
  BY <1>2, <1>3
<1>5. b \in Seq(Byte) /\ Len(b) = 2 /\ b[1] = x /\ b[2] = y
  BY <1>4
<1>6. a \in Seq(Byte)
  <2>1. <<>> \in Seq(Byte)
    OBVIOUS
  <2> QED
    BY <1>1, <2>1, AddressRead
<1> QED
  BY <1>2, <1>3, <1>5, <1>6, Zenon DEF RequestTail

(* What follows the command is bytes. *)
LEMMA TailInSeq ==
    ASSUME NEW q, WellFormed(q)
    PROVE  RequestTail(q) \in Seq(Byte)
<1>1. CASE q.command = CMD_MUX
  BY <1>1 DEF RequestTail
<1>2. CASE q.command # CMD_MUX
  <2>1. PICK b, a : b = Be16(q.port) /\ a = AddressBytes(q.address)
    OBVIOUS
  <2>2. b \in Seq(Byte) /\ a \in Seq(Byte) /\ RequestTail(q) = b \o a
    BY <1>2, <2>1, TailIs, Zenon
  <2>3. b \o a \in Seq(Byte)
    BY <2>2, ConcatLen
  <2> QED
    BY <2>2, <2>3
<1> QED
  BY <1>1, <1>2

(* Offsets in a message that begins with the header of q. *)
Found(v, q, t, rest) ==
    /\ v \in Seq(Byte) /\ t \in Nat /\ t >= UuidLen + 4 /\ Len(v) = t + 1 + Len(rest)
    /\ v[1] = VERSION /\ Slice(v, 1, 1 + UuidLen) = q.uuid /\ v[t + 1] = q.command
    /\ \E f : /\ AddonsAt(v) = [ok |-> TRUE, from |-> f, end |-> t]
              /\ ParseFlow(Slice(v, f, t)) = [ok |-> TRUE, flow |-> q.flow]
    /\ \E x : Parted(v, x, rest, t + 1)

(* In a message that opens so, the parser finds the fields. *)
LEMMA HeaderFound ==
    ASSUME NEW q, WellFormed(q), NEW v, NEW s, s = FlowField(q.flow), NEW e,
           e = EncodeVarint(Len(s)), NEW rest \in Seq(Byte),
           Opening(v, q.uuid, e, s, q.command, rest), NEW t, t = 2 + UuidLen + Len(e) + Len(s)
    PROVE  Found(v, q, t, rest)
<1>1. /\ q.uuid \in Seq(Byte) /\ Len(q.uuid) = UuidLen /\ q.flow \in Seq(Byte)
      /\ q.command \in Byte /\ Len(q.flow) < ByteMod
  BY DEF WellFormed
<1>2. /\ s \in Seq(Byte) /\ Len(s) \in 1..(ByteMod + 1)
      /\ ParseFlow(s) = [ok |-> TRUE, flow |-> q.flow]
  BY <1>1, FlowFieldIs, Zenon
<1>3. PICK f : f = 2 + UuidLen + Len(e)
  OBVIOUS
<1>4. t = f + Len(s)
  BY <1>3
<1>5. PICK u, c : u = q.uuid /\ c = q.command
  OBVIOUS
<1>6. Opening(v, u, e, s, c, rest)
  BY <1>5, Zenon
<1>7. /\ e \in Seq(Byte) /\ Len(e) \in {1, 2}
      /\ AddonsAt(v) = [ok |-> TRUE, from |-> f, end |-> t]
  <2>1. Located(v, e, f, t)
    BY <1>1, <1>2, <1>3, <1>4, <1>5, <1>6, AddonsFound
  <2> QED
    BY <2>1 DEF Located
<1>8. Opened(v, u, e, s, c, rest, f, t)
  BY <1>1, <1>2, <1>3, <1>4, <1>5, <1>6, <1>7, OpeningParts
<1>9. t >= UuidLen + 4
  BY <1>2, <1>3, <1>4, <1>7, VlessAssumption, SMTT(60)
<1> QED
  BY <1>2, <1>5, <1>7, <1>8, <1>9, Zenon DEF Found, Opened

Measured(v, n) == RequestHeaderLen(v) = [ok |-> TRUE, len |-> n]

(* request_header_len stops at the first byte of the payload. *)
LEMMA LenFound ==
    ASSUME NEW q, WellFormed(q), NEW p \in Seq(Byte), NEW v, NEW t, NEW tail \in Seq(Byte),
           tail = RequestTail(q), NEW r0, Follows(r0, tail, p), Found(v, q, t, r0)
    PROVE  Measured(v, t + 1 + Len(tail))
<1>1. /\ v \in Seq(Byte) /\ t \in Nat /\ t >= UuidLen + 4 /\ Len(v) = t + 1 + Len(tail \o p)
      /\ v[t + 1] = q.command
  BY Zenon DEF Found, Follows
<1>2. PICK f : AddonsAt(v) = [ok |-> TRUE, from |-> f, end |-> t]
  BY Zenon DEF Found, Follows
<1>3. PICK x : Parted(v, x, tail \o p, t + 1)
  BY Zenon DEF Found, Follows
<1>4. PICK ad, b : ad = AddonsAt(v) /\ b = TRUE
  OBVIOUS
<1>5. ad = [ok |-> b, from |-> f, end |-> t]
  BY <1>2, <1>4, Zenon
<1>6. ad.ok = b /\ ad.end = t
  BY <1>5
<1>7. Len(tail \o p) \in Nat
  BY ConcatLen
<1>8. ~(Len(v) < UuidLen + 2)
  BY <1>1, <1>7, VlessAssumption
<1>9. CASE q.command = CMD_MUX
  <2>1. tail = <<>>
    BY <1>9, Zenon DEF RequestTail
  <2>2. t + 1 + Len(tail) = t + 1
    BY <1>1, <2>1
  <2>3. RequestHeaderLen(v) = [ok |-> TRUE, len |-> t + 1]
    BY <1>1, <1>4, <1>6, <1>8, <1>9, Zenon DEF RequestHeaderLen
  <2> QED
    BY <2>2, <2>3, Zenon DEF Measured
<1>10. CASE q.command # CMD_MUX
  <2>1. PICK c, a, n : c = Be16(q.port) /\ a = AddressBytes(q.address) /\ n = Len(a)
    OBVIOUS
  <2>2. c \in Seq(Byte) /\ Len(c) = 2 /\ a \in Seq(Byte) /\ tail = c \o a
    BY <1>10, <2>1, TailIs, Zenon
  <2>3. FitsAddress(q.address)
    BY DEF WellFormed
  <2>4. n \in Nat \ {0} /\ AddressLen(a \o p) = n
    BY <2>1, <2>3, AddressRead, Zenon
  <2>5. PICK y : y = a \o p
    OBVIOUS
  <2>6. y \in Seq(Byte)
    BY <2>2, <2>5, ConcatLen
  <2>7. tail \o p = c \o y
    <3>1. Assoc(c, a, p)
      BY <2>2, ConcatAssoc
    <3> QED
      BY <2>2, <2>5, <3>1, Zenon DEF Assoc
  <2>8. Parted(c \o y, c, y, 2)
    BY <2>2, <2>6, Parts
  <2>9. PICK r, k : r = tail \o p /\ k = t + 1
    OBVIOUS
  <2>10. Parted(v, x, r, k) /\ Parted(r, c, y, 2)
    BY <1>3, <2>7, <2>8, <2>9, Zenon
  <2>11. k + 2 = t + 3
    BY <1>1, <2>9
  <2>12. Parted(v, x \o c, y, t + 3)
    BY <2>10, <2>11, PartsShift
  <2>13. Slice(v, t + 3, Len(v)) = a \o p
    BY <2>5, <2>12, Zenon DEF Parted
  <2>14. Len(tail) = 2 + n
    BY <2>1, <2>2, ConcatLen
  <2>15. t + 1 + Len(tail) = t + 3 + n /\ n # 0
    BY <1>1, <2>4, <2>14
  <2>16. RequestHeaderLen(v) = [ok |-> TRUE, len |-> t + 3 + n]
    BY <1>1, <1>4, <1>6, <1>8, <1>10, <2>4, <2>13, <2>15, Zenon DEF RequestHeaderLen
  <2> QED
    BY <2>15, <2>16, Zenon DEF Measured
<1> QED
  BY <1>9, <1>10

(* parse_request_header reads what build_request_header wrote. *)
LEMMA HeaderParsed ==
    ASSUME NEW q, WellFormed(q), NEW v, NEW t, NEW tail \in Seq(Byte), tail = RequestTail(q),
           Found(v, q, t, tail)
    PROVE  ParseRequestHeader(v) = [ok |-> TRUE, req |-> Asked(q)]
<1>1. /\ v \in Seq(Byte) /\ t \in Nat /\ t >= UuidLen + 4 /\ Len(v) = t + 1 + Len(tail)
      /\ v[1] = VERSION /\ Slice(v, 1, 1 + UuidLen) = q.uuid /\ v[t + 1] = q.command
  BY Zenon DEF Found
<1>2. PICK f : /\ AddonsAt(v) = [ok |-> TRUE, from |-> f, end |-> t]
               /\ ParseFlow(Slice(v, f, t)) = [ok |-> TRUE, flow |-> q.flow]
  BY Zenon DEF Found
<1>3. PICK x : Parted(v, x, tail, t + 1)
  BY Zenon DEF Found
<1>4. PICK ad, b, fl, w : /\ ad = AddonsAt(v) /\ b = TRUE /\ fl = ParseFlow(Slice(v, f, t))
                          /\ w = q.flow
  OBVIOUS
<1>5. ad = [ok |-> b, from |-> f, end |-> t] /\ fl = [ok |-> b, flow |-> w]
  BY <1>2, <1>4, Zenon
<1>6. ad.ok = b /\ ad.end = t /\ ad.from = f
  BY <1>5
<1>7. fl.ok = b /\ fl.flow = w
  BY <1>5
<1>8. Len(tail) \in Nat /\ UuidLen \in Nat
  BY VlessAssumption
<1>9. ~(Len(v) < UuidLen + 5)
  BY <1>1, <1>8
<1>10. PICK u, c, a, n : u = q.uuid /\ c = q.command /\ a = q.address /\ n = q.port
  OBVIOUS
<1>11. q = [uuid |-> u, flow |-> w, command |-> c, address |-> a, port |-> n]
  BY <1>4, <1>10 DEF WellFormed
<1>12. CASE q.command = CMD_MUX
  <2>1. PICK m : m = MuxAddress
    OBVIOUS
  <2>2. ParseRequestHeader(v)
          = [ok |-> TRUE, req |-> [uuid |-> u, flow |-> w, command |-> c, address |-> m, port |-> 0]]
    BY <1>1, <1>4, <1>6, <1>7, <1>9, <1>10, <1>12, <2>1, Zenon DEF ParseRequestHeader
  <2>3. [q EXCEPT !.address = m, !.port = 0]
          = [uuid |-> u, flow |-> w, command |-> c, address |-> m, port |-> 0]
    <3>1. PICK r : r = [q EXCEPT !.address = m]
      OBVIOUS
    <3>2. r = [uuid |-> u, flow |-> w, command |-> c, address |-> m, port |-> n]
      BY <1>11, <3>1
    <3>3. [r EXCEPT !.port = 0] = [uuid |-> u, flow |-> w, command |-> c, address |-> m, port |-> 0]
      BY <3>2
    <3> QED
      BY <3>1, <3>3
  <2> QED
    BY <1>12, <2>1, <2>2, <2>3, Zenon DEF Asked
<1>13. CASE q.command # CMD_MUX
  <2>1. PICK d, y : d = Be16(q.port) /\ y = AddressBytes(q.address)
    OBVIOUS
  <2>2. /\ d \in Seq(Byte) /\ Len(d) = 2 /\ Un16(d[1], d[2]) = q.port
        /\ y \in Seq(Byte) /\ tail = d \o y
    BY <1>13, <2>1, TailIs, Zenon
  <2>3. Parted(tail, d, y, 2)
    BY <2>2, Parts, Zenon
  <2>4. PICK k : k = t + 1
    OBVIOUS
  <2>5. k + 2 = t + 3 /\ Parted(v, x, tail, k)
    BY <1>1, <1>3, <2>4
  <2>6. Parted(v, x \o d, y, t + 3)
    BY <2>3, <2>5, PartsShift
  <2>7. Slice(v, t + 3, Len(v)) = y /\ Len(v) = t + 3 + Len(y)
    BY <2>6, Zenon DEF Parted
  <2>8. ~(t + 3 > Len(v))
    <3>1. Len(y) \in Nat
      BY <2>2
    <3> QED
      BY <1>1, <2>7, <3>1
  <2>9. v[t + 2] = d[1] /\ v[t + 3] = d[2]
    <3>1. Len(tail) >= 2 /\ tail[1] = d[1] /\ tail[2] = d[2]
      BY <2>3 DEF Parted
    <3>2. v[k + 1] = tail[1] /\ v[k + 2] = tail[2]
      BY <1>8, <2>5, <3>1 DEF Parted
    <3>3. k + 1 = t + 2
      BY <1>1, <2>4
    <3> QED
      BY <2>5, <3>1, <3>2, <3>3
  <2>10. PICK pa : pa = ParseAddress(y)
    OBVIOUS
  <2>11. pa = [ok |-> b, address |-> a]
    <3>1. FitsAddress(q.address) /\ <<>> \in Seq(Byte)
      BY DEF WellFormed
    <3>2. ParseAddress(y) = [ok |-> TRUE, address |-> q.address]
      BY <2>1, <3>1, AddressRead, Zenon
    <3> QED
      BY <1>4, <1>10, <2>10, <3>2, Zenon
  <2>12. pa.ok = b /\ pa.address = a
    BY <2>11
  <2>13. Un16(v[t + 2], v[t + 3]) = n
    BY <1>10, <2>2, <2>9, Zenon
  <2>14. ParseRequestHeader(v)
          = [ok |-> TRUE, req |-> [uuid |-> u, flow |-> w, command |-> c, address |-> a, port |-> n]]
    BY <1>1, <1>4, <1>6, <1>7, <1>9, <1>10, <1>13, <2>7, <2>8, <2>10, <2>12, <2>13, Zenon
    DEF ParseRequestHeader
  <2> QED
    BY <1>11, <1>13, <2>14, Zenon DEF Asked
<1> QED
  BY <1>12, <1>13

(* Read on its own or before a payload, the header h is the request q. *)
ReadsAs(q, p, h, w) ==
    /\ RequestHeaderLen(w) = [ok |-> TRUE, len |-> Len(h)] /\ Len(h) <= Len(w)
    /\ ParseRequestHeader(Slice(w, 0, Len(h))) = [ok |-> TRUE, req |-> Asked(q)]
    /\ Slice(w, Len(h), Len(w)) = p

(* The two parsers agree with the builder. *)
LEMMA HeaderReadsAs ==
    ASSUME NEW q, WellFormed(q), NEW p \in Seq(Byte), NEW h, h = BuildRequestHeader(q),
           NEW w, w = h \o p
    PROVE  h \in Seq(Byte) /\ h # <<>> /\ ReadsAs(q, p, h, w)
<1>1. PICK s, e, tail, t : /\ s = FlowField(q.flow) /\ e = EncodeVarint(Len(s))
                           /\ tail = RequestTail(q) /\ t = 2 + UuidLen + Len(e) + Len(s)
  OBVIOUS
<1>2. tail \in Seq(Byte)
  BY <1>1, TailInSeq
<1>3. PICK r : r = tail \o p
  OBVIOUS
<1>4. r \in Seq(Byte)
  BY <1>2, <1>3, ConcatLen
<1>5. /\ h \in Seq(Byte) /\ Opening(h, q.uuid, e, s, q.command, tail)
      /\ Opening(w, q.uuid, e, s, q.command, r)
  <2>1. Follows(w, h, p) /\ Follows(r, tail, p)
    BY <1>3, Zenon DEF Follows
  <2>2. HeaderAt(q, h, w, e, s, tail, r)
    BY <1>1, <1>2, <2>1, HeaderOpens
  <2> QED
    BY <2>2, Zenon DEF HeaderAt
<1>6. Found(h, q, t, tail) /\ Found(w, q, t, r)
  BY <1>1, <1>2, <1>4, <1>5, HeaderFound
<1>7. ParseRequestHeader(h) = [ok |-> TRUE, req |-> Asked(q)]
  BY <1>1, <1>2, <1>6, HeaderParsed
<1>8. RequestHeaderLen(w) = [ok |-> TRUE, len |-> t + 1 + Len(tail)]
  <2>1. Follows(r, tail, p)
    BY <1>3, Zenon DEF Follows
  <2>2. Measured(w, t + 1 + Len(tail))
    BY <1>1, <1>2, <1>6, <2>1, LenFound
  <2> QED
    BY <2>2, Zenon DEF Measured
<1>9. Len(h) = t + 1 + Len(tail) /\ t \in Nat
  BY <1>6, Zenon DEF Found
<1>10. Parted(w, h, p, Len(h))
  BY <1>5, Parts
<1>11. Slice(w, 0, Len(h)) = h /\ Slice(w, Len(h), Len(w)) = p /\ Len(w) = Len(h) + Len(p)
  BY <1>10, Zenon DEF Parted
<1>12. Len(h) <= Len(w) /\ h # <<>>
  <2>1. Len(p) \in Nat /\ Len(tail) \in Nat /\ Len(h) \in Nat
    BY <1>2, <1>5
  <2> QED
    BY <1>9, <1>11, <2>1
<1> QED
  BY <1>5, <1>7, <1>8, <1>9, <1>11, <1>12, Zenon DEF ReadsAs

(* RequestRoundTrip: the header build_request_header writes for any        *)
(* request whose fields fit their bytes, followed by any payload, is       *)
(* measured exactly by request_header_len, parsed back field by field by   *)
(* parse_request_header (for CMD_MUX with the fixed mux address), and      *)
(* leaves the payload untouched behind it.                                 *)
THEOREM RequestRoundTrip ==
    ASSUME NEW q, WellFormed(q), NEW p \in Seq(Byte), NEW h, h = BuildRequestHeader(q),
           NEW w, w = h \o p
    PROVE  /\ h \in Seq(Byte) /\ h # <<>>
           /\ RequestHeaderLen(w) = [ok |-> TRUE, len |-> Len(h)] /\ Len(h) <= Len(w)
           /\ ParseRequestHeader(Slice(w, 0, Len(h))) = [ok |-> TRUE, req |-> Asked(q)]
           /\ Slice(w, Len(h), Len(w)) = p
<1>1. h \in Seq(Byte) /\ h # <<>> /\ ReadsAs(q, p, h, w)
  BY HeaderReadsAs
<1> QED
  BY <1>1, Zenon DEF ReadsAs

-----------------------------------------------------------------------------
(* What a reader makes of a stream, wherever it is cut. *)

(* A header byte that completes a header announcing content, whatever its  *)
(* command: too much is refused, or the content follows.                   *)
LEMMA ContentHeaderIs ==
    ASSUME NEW n \in Nat \ {0}, NEW m, NEW c, NEW h, NEW b, NEW c0, NEW p0, NEW n0, NEW u,
           NEW g, Fills(g, h, b, n, c, m)
    PROVE  \/ UnpadByte(Padded("Header", n0, c0, p0, h, u), b) = Err("BadFrame")
           \/ UnpadByte(Padded("Header", n0, c0, p0, h, u), b) = Ok(Padded("Content", n, c, m, <<>>, u))
<1>1. PICK r, t, f : r = Padded("Header", n0, c0, p0, h, u) /\ t = TRUE /\ f = FALSE
  OBVIOUS
<1>2. r = Rd("Header", n0, c0, p0, h, u, t, f)
  BY <1>1, Zenon DEF Padded
<1>3. r.state = "Header" /\ r.header = h
  BY <1>2, RdFields
<1>4. PICK full : full = [r EXCEPT !.header = <<>>, !.command = c, !.padding = m]
  OBVIOUS
<1>5. full = Rd("Header", n0, c, m, <<>>, u, t, f)
  <2>1. full = Framed(r, <<>>, c, m)
    BY <1>4, Zenon DEF Framed
  <2> QED
    BY <1>2, <2>1, RdFramed
<1>6. UnpadByte(r, b) = HeaderByte(r, b)
  BY <1>3 DEF UnpadByte
<1>7. HeaderByte(r, b) = IF n > MaxFrameBody \/ m > MaxFrameBody THEN Err("BadFrame")
                         ELSE Ok([full EXCEPT !.state = "Content", !.remaining = n])
  <2>1. ~(Len(g) < 5) /\ n # 0
    BY DEF Fills
  <2>2. Append(r.header, b) = g
    BY <1>3, Zenon DEF Fills
  <2> QED
    BY <1>4, <2>1, <2>2, Zenon DEF HeaderByte, Ok, Fills
<1>8. Moved(full, "Content", n) = Rd("Content", n, c, m, <<>>, u, t, f)
  BY <1>5, RdMoved
<1> QED
  BY <1>1, <1>6, <1>7, <1>8, Zenon DEF Padded, Moved

(* BodyByteIs, for any command. *)
LEMMA StillContent ==
    ASSUME NEW n \in Nat, n > 1, NEW k, k = n - 1, NEW c, NEW p, NEW u, NEW b
    PROVE  UnpadByte(Padded("Content", n, c, p, <<>>, u), b) = Ok(Padded("Content", k, c, p, <<>>, u))
BY BodyByteIs

(* Once refused, always refused. *)
LEMMA RefusedStays ==
    ASSUME NEW S, NEW w \in Seq(S), NEW b \in S, NEW rd, ~UnpadBytes(rd, w).ok
    PROVE  ~UnpadBytes(rd, Append(w, b)).ok
<1>1. UnpadBytes(rd, Append(w, b)) = ReadStep(UnpadBytes(rd, w), b)
  BY UnpadAppend
<1> QED
  BY <1>1, Zenon DEF ReadStep

(* A reader that refuses the byte after w refuses every stream that starts *)
(* with w and it.                                                          *)
LEMMA RefusedNow ==
    ASSUME NEW S, NEW w \in Seq(S), NEW b \in S, NEW rd, NEW r, NEW o, Reads(rd, w, r, o),
           UnpadByte(r, b) = Err("BadFrame")
    PROVE  ~UnpadBytes(rd, Append(w, b)).ok
<1>1. UnpadBytes(rd, Append(w, b)) = ReadStep(UnpadBytes(rd, w), b)
  BY UnpadAppend
<1>2. PICK a : a = UnpadBytes(rd, w)
  OBVIOUS
<1>3. a.ok /\ a.rd = r
  BY <1>2 DEF Reads
<1>4. PICK e : e = UnpadByte(r, b) /\ e = Err("BadFrame")
  OBVIOUS
<1>5. ~e.ok
  BY <1>4 DEF Err
<1> QED
  BY <1>1, <1>2, <1>3, <1>4, <1>5, Zenon DEF ReadStep

(* A reader that finds a mistake in the bytes w; and what has been given   *)
(* once the byte b is read.                                                *)
Refuses(rd, w) == ~UnpadBytes(rd, w).ok
Given(r, o, b) == IF r.state \in {"Content", "Direct"} THEN Append(o, b) ELSE o

(* A reader reads or refuses, and reads in one way only. *)
LEMMA ReadsOne ==
    ASSUME NEW rd, NEW w, NEW r, NEW o, Reads(rd, w, r, o)
    PROVE  /\ ~Refuses(rd, w)
           /\ \A r2, o2 : Reads(rd, w, r2, o2) => r2 = r /\ o2 = o
<1>1. PICK a, t : a = UnpadBytes(rd, w) /\ t = TRUE
  OBVIOUS
<1>2. a = [ok |-> t, rd |-> r, out |-> o]
  BY <1>1, Zenon DEF Reads
<1>3. a.ok = t /\ a.rd = r /\ a.out = o
  BY <1>2
<1>4. ASSUME NEW r2, NEW o2, Reads(rd, w, r2, o2) PROVE r2 = r /\ o2 = o
  <2>1. a = [ok |-> t, rd |-> r2, out |-> o2]
    BY <1>1, <1>4, Zenon DEF Reads
  <2>2. a.rd = r2 /\ a.out = o2
    BY <2>1
  <2> QED
    BY <1>3, <2>2
<1>5. ~Refuses(rd, w)
  BY <1>1, <1>3, Zenon DEF Refuses
<1> QED
  BY <1>4, <1>5, Zenon

(* What one more byte does to a reader that has read w. *)
LEMMA ByteOutcome ==
    ASSUME NEW w \in Seq(Byte), NEW b \in Byte, NEW rd, NEW r, NEW o, Reads(rd, w, r, o)
    PROVE  \/ ~UnpadByte(r, b).ok /\ Refuses(rd, Append(w, b))
           \/ /\ UnpadByte(r, b).ok
              /\ Reads(rd, Append(w, b), UnpadByte(r, b).rd, Given(r, o, b))
<1>1. UnpadBytes(rd, Append(w, b)) = ReadStep(UnpadBytes(rd, w), b)
  BY UnpadAppend
<1>2. PICK a, t : a = UnpadBytes(rd, w) /\ t = TRUE
  OBVIOUS
<1>3. a = [ok |-> t, rd |-> r, out |-> o]
  BY <1>2, Zenon DEF Reads
<1>4. a.ok = t /\ a.rd = r /\ a.out = o
  BY <1>3
<1>5. PICK n : n = UnpadByte(r, b)
  OBVIOUS
<1>6. CASE ~n.ok
  <2>1. UnpadBytes(rd, Append(w, b)) = n
    BY <1>1, <1>2, <1>4, <1>5, <1>6, Zenon DEF ReadStep
  <2> QED
    BY <1>5, <1>6, <2>1, Zenon DEF Refuses
<1>7. CASE n.ok
  <2>1. UnpadBytes(rd, Append(w, b)) = [ok |-> TRUE, rd |-> n.rd, out |-> Given(r, o, b)]
    BY <1>1, <1>2, <1>4, <1>5, <1>7, Zenon DEF ReadStep, Given
  <2> QED
    BY <1>5, <1>7, <2>1, Zenon DEF Reads
<1> QED
  BY <1>6, <1>7

(* What a reader gives are bytes it has read. *)
Outcome(rd, w) == Refuses(rd, w) \/ \E r : \E o \in Seq(Byte) : Reads(rd, w, r, o)

(* One more byte is read or refused. *)
LEMMA OutcomeStep ==
    ASSUME NEW w \in Seq(Byte), NEW b \in Byte, NEW rd, Outcome(rd, w)
    PROVE  Outcome(rd, Append(w, b))
<1>1. CASE Refuses(rd, w)
  <2>1. Refuses(rd, Append(w, b))
    BY <1>1, RefusedStays, Zenon DEF Refuses
  <2> QED
    BY <2>1 DEF Outcome
<1>2. ASSUME NEW r, NEW o \in Seq(Byte), Reads(rd, w, r, o) PROVE Outcome(rd, Append(w, b))
  <2>1. Given(r, o, b) \in Seq(Byte)
    BY DEF Given
  <2>2. \/ ~UnpadByte(r, b).ok /\ Refuses(rd, Append(w, b))
        \/ /\ UnpadByte(r, b).ok
           /\ Reads(rd, Append(w, b), UnpadByte(r, b).rd, Given(r, o, b))
    BY <1>2, ByteOutcome
  <2> QED
    BY <2>1, <2>2, Zenon DEF Outcome
<1> QED
  BY <1>1, <1>2, Zenon DEF Outcome

(* Every sequence of bytes is read or refused. *)
LEMMA ReadsOrRefuses ==
    ASSUME NEW rd, NEW w \in Seq(Byte)
    PROVE  Outcome(rd, w)
<1> DEFINE T == {k \in Nat : k <= Len(w) => Outcome(rd, Upto(<<>>, w, k))}
<1>1. <<>> \in Seq(Byte)
  OBVIOUS
<1>2. Upto(<<>>, w, 0) = <<>> /\ Upto(<<>>, w, Len(w)) = <<>> \o w
  BY <1>1, PrefixEnds
<1>3. 0 \in T
  <2>1. Reads(rd, Upto(<<>>, w, 0), rd, <<>>)
    BY <1>2, ReadsNothing, Zenon
  <2>2. Outcome(rd, Upto(<<>>, w, 0))
    BY <1>1, <2>1, Zenon DEF Outcome
  <2> QED
    BY <2>2
<1>4. ASSUME NEW k \in Nat, k \in T PROVE k + 1 \in T
  <2> SUFFICES ASSUME k + 1 <= Len(w) PROVE Outcome(rd, Upto(<<>>, w, k + 1))
    OBVIOUS
  <2>1. k < Len(w) /\ Outcome(rd, Upto(<<>>, w, k))
    BY <1>4
  <2>2. PICK v, b : v = Upto(<<>>, w, k) /\ b = w[k + 1]
    OBVIOUS
  <2>3. v \in Seq(Byte) /\ b \in Byte /\ Upto(<<>>, w, k + 1) = Append(v, b)
    <3> HIDE DEF T
    <3> QED
      BY <1>1, <2>1, <2>2, PrefixGrows
  <2> QED
    BY <2>1, <2>2, <2>3, OutcomeStep
<1>5. Nat \subseteq T
  <2> HIDE DEF T
  <2> QED
    BY <1>3, <1>4, SetInduction
<1>6. Outcome(rd, Upto(<<>>, w, Len(w)))
  BY <1>5
<1>7. <<>> \o w = w
  OBVIOUS
<1> QED
  BY <1>2, <1>6, <1>7, Zenon

(* An element behind two sequences is an element behind the second. *)
Tacked(s, t, e) == Append(s \o t, e) = s \o Append(t, e)

(* An element behind a concatenation. *)
LEMMA AppendConcat ==
    ASSUME NEW s \in Seq(Byte), NEW t \in Seq(Byte), NEW e \in Byte
    PROVE  Tacked(s, t, e)
BY DEF Tacked

(* Reading a and then b is reading both at once. *)
Chained(rd, a, r, o, b) ==
    /\ Refuses(r, b) => Refuses(rd, a \o b)
    /\ \A r2, o2 : Reads(r, b, r2, o2) => Reads(rd, a \o b, r2, o \o o2)

(* One more byte behind the second part. *)
LEMMA ChainStep ==
    ASSUME NEW rd, NEW a \in Seq(Byte), NEW v \in Seq(Byte), NEW r, NEW o \in Seq(Byte),
           NEW e \in Byte, Chained(rd, a, r, o, v)
    PROVE  Chained(rd, a, r, o, Append(v, e))
<1>1. PICK av, ave : av = a \o v /\ ave = a \o Append(v, e)
  OBVIOUS
<1>2. av \in Seq(Byte) /\ ave = Append(av, e)
  BY <1>1
<1>3. Outcome(r, v)
  BY ReadsOrRefuses
<1>4. CASE Refuses(r, v)
  <2>1. Refuses(rd, av)
    BY <1>1, <1>4, Zenon DEF Chained
  <2>2. Refuses(rd, ave) /\ Refuses(r, Append(v, e))
    BY <1>2, <1>4, <2>1, RefusedStays, Zenon DEF Refuses
  <2>3. ASSUME NEW r2, NEW o2 PROVE ~Reads(r, Append(v, e), r2, o2)
    BY <2>2, ReadsOne, Zenon
  <2> QED
    BY <1>1, <2>2, <2>3, Zenon DEF Chained
<1>5. ASSUME NEW r1, NEW o1 \in Seq(Byte), Reads(r, v, r1, o1)
      PROVE  Chained(rd, a, r, o, Append(v, e))
  <2>1. Reads(rd, av, r1, o \o o1)
    BY <1>1, <1>5, Zenon DEF Chained
  <2>2. \/ ~UnpadByte(r1, e).ok /\ Refuses(r, Append(v, e))
        \/ /\ UnpadByte(r1, e).ok
           /\ Reads(r, Append(v, e), UnpadByte(r1, e).rd, Given(r1, o1, e))
    BY <1>5, ByteOutcome
  <2>3. \/ ~UnpadByte(r1, e).ok /\ Refuses(rd, ave)
        \/ /\ UnpadByte(r1, e).ok
           /\ Reads(rd, ave, UnpadByte(r1, e).rd, Given(r1, o \o o1, e))
    BY <1>2, <2>1, ByteOutcome, Zenon
  <2>4. Given(r1, o \o o1, e) = o \o Given(r1, o1, e)
    <3>1. Tacked(o, o1, e)
      BY AppendConcat
    <3> QED
      BY <3>1, Zenon DEF Given, Tacked
  <2>5. CASE UnpadByte(r1, e).ok
    <3>1. /\ Reads(r, Append(v, e), UnpadByte(r1, e).rd, Given(r1, o1, e))
          /\ Reads(rd, ave, UnpadByte(r1, e).rd, o \o Given(r1, o1, e))
      BY <2>2, <2>3, <2>4, <2>5, Zenon
    <3>2. ~Refuses(r, Append(v, e))
      BY <3>1, ReadsOne, Zenon
    <3>3. ASSUME NEW r2, NEW o2, Reads(r, Append(v, e), r2, o2)
          PROVE  Reads(rd, ave, r2, o \o o2)
      <4>1. r2 = UnpadByte(r1, e).rd /\ o2 = Given(r1, o1, e)
        BY <3>1, <3>3, ReadsOne, Zenon
      <4> QED
        BY <3>1, <4>1, Zenon
    <3> QED
      BY <1>1, <3>2, <3>3, Zenon DEF Chained
  <2>6. CASE ~UnpadByte(r1, e).ok
    <3>1. Refuses(r, Append(v, e)) /\ Refuses(rd, ave)
      BY <2>2, <2>3, <2>6, Zenon
    <3>2. ASSUME NEW r2, NEW o2 PROVE ~Reads(r, Append(v, e), r2, o2)
      BY <3>1, ReadsOne, Zenon
    <3> QED
      BY <1>1, <3>1, <3>2, Zenon DEF Chained
  <2> QED
    BY <2>5, <2>6
<1> QED
  BY <1>3, <1>4, <1>5, Zenon DEF Outcome

(* Where the stream is cut makes no difference: the second part, read      *)
(* after the first, refuses or reads as it does behind the first.          *)
LEMMA ReadsChain ==
    ASSUME NEW rd, NEW a \in Seq(Byte), NEW b \in Seq(Byte), NEW r, NEW o \in Seq(Byte),
           Reads(rd, a, r, o)
    PROVE  Chained(rd, a, r, o, b)
<1> DEFINE T == {k \in Nat : k <= Len(b) => Chained(rd, a, r, o, Upto(<<>>, b, k))}
<1>1. <<>> \in Seq(Byte)
  OBVIOUS
<1>2. Upto(<<>>, b, 0) = <<>> /\ Upto(<<>>, b, Len(b)) = <<>> \o b
  BY <1>1, PrefixEnds
<1>3. 0 \in T
  <2>1. Reads(r, <<>>, r, <<>>)
    BY ReadsNothing
  <2>2. a \o <<>> = a /\ o \o <<>> = o
    OBVIOUS
  <2>3. ~Refuses(r, <<>>)
    BY <2>1, ReadsOne, Zenon
  <2>4. ASSUME NEW r2, NEW o2, Reads(r, <<>>, r2, o2) PROVE Reads(rd, a \o <<>>, r2, o \o o2)
    <3>1. r2 = r /\ o2 = <<>>
      BY <2>1, <2>4, ReadsOne, Zenon
    <3> QED
      BY <2>2, <3>1, Zenon
  <2>5. Chained(rd, a, r, o, Upto(<<>>, b, 0))
    BY <1>2, <2>3, <2>4, Zenon DEF Chained
  <2> QED
    BY <2>5
<1>4. ASSUME NEW k \in Nat, k \in T PROVE k + 1 \in T
  <2> SUFFICES ASSUME k + 1 <= Len(b) PROVE Chained(rd, a, r, o, Upto(<<>>, b, k + 1))
    OBVIOUS
  <2>1. k < Len(b) /\ Chained(rd, a, r, o, Upto(<<>>, b, k))
    BY <1>4
  <2>2. PICK v, e : v = Upto(<<>>, b, k) /\ e = b[k + 1]
    OBVIOUS
  <2>3. v \in Seq(Byte) /\ e \in Byte /\ Upto(<<>>, b, k + 1) = Append(v, e)
    <3> HIDE DEF T
    <3> QED
      BY <1>1, <2>1, <2>2, PrefixGrows
  <2> QED
    BY <2>1, <2>2, <2>3, ChainStep
<1>5. Nat \subseteq T
  <2> HIDE DEF T
  <2> QED
    BY <1>3, <1>4, SetInduction
<1>6. Chained(rd, a, r, o, Upto(<<>>, b, Len(b)))
  BY <1>5
<1>7. <<>> \o b = b
  OBVIOUS
<1> QED
  BY <1>2, <1>6, <1>7, Zenon

(* Refused bytes stay refused, whatever follows. *)
LEMMA RefusesMore ==
    ASSUME NEW rd, NEW a \in Seq(Byte), NEW b \in Seq(Byte), Refuses(rd, a)
    PROVE  Refuses(rd, a \o b)
<1> DEFINE T == {k \in Nat : k <= Len(b) => Refuses(rd, Upto(a, b, k))}
<1>2. Upto(a, b, 0) = a /\ Upto(a, b, Len(b)) = a \o b
  BY PrefixEnds
<1>3. 0 \in T
  <2>1. Refuses(rd, Upto(a, b, 0))
    BY <1>2, Zenon
  <2> QED
    BY <2>1
<1>4. ASSUME NEW k \in Nat, k \in T PROVE k + 1 \in T
  <2> SUFFICES ASSUME k + 1 <= Len(b) PROVE Refuses(rd, Upto(a, b, k + 1))
    OBVIOUS
  <2>1. k < Len(b) /\ Refuses(rd, Upto(a, b, k))
    BY <1>4
  <2>2. PICK v, e : v = Upto(a, b, k) /\ e = b[k + 1]
    OBVIOUS
  <2>3. v \in Seq(Byte) /\ e \in Byte /\ Upto(a, b, k + 1) = Append(v, e)
    <3> HIDE DEF T
    <3> QED
      BY <2>1, <2>2, PrefixGrows
  <2> QED
    BY <2>1, <2>2, <2>3, RefusedStays, Zenon DEF Refuses
<1>5. Nat \subseteq T
  <2> HIDE DEF T
  <2> QED
    BY <1>3, <1>4, SetInduction
<1>6. Refuses(rd, Upto(a, b, Len(b)))
  BY <1>5
<1> QED
  BY <1>2, <1>6, Zenon

(* Wherever a stream is cut, its first part is read and then its second. *)
Cut(rd, a, b, r, o) ==
    \E r1 : \E o1, o2 \in Seq(Byte) : Reads(rd, a, r1, o1) /\ Reads(r1, b, r, o2) /\ o = o1 \o o2

(* A stream that is read whole is read in two parts, wherever it is cut. *)
LEMMA ReadsCut ==
    ASSUME NEW rd, NEW a \in Seq(Byte), NEW b \in Seq(Byte), NEW r, NEW o,
           Reads(rd, a \o b, r, o)
    PROVE  Cut(rd, a, b, r, o)
<1>1. ~Refuses(rd, a \o b)
  BY ReadsOne, Zenon
<1>2. ~Refuses(rd, a)
  BY <1>1, RefusesMore
<1>3. Outcome(rd, a)
  BY ReadsOrRefuses
<1>4. PICK r1 : \E o1 \in Seq(Byte) : Reads(rd, a, r1, o1)
  BY <1>2, <1>3, Zenon DEF Outcome
<1>5. PICK o1 \in Seq(Byte) : Reads(rd, a, r1, o1)
  BY <1>4
<1>6. Chained(rd, a, r1, o1, b)
  BY <1>5, ReadsChain
<1>7. Outcome(r1, b)
  BY ReadsOrRefuses
<1>8. PICK r2 : \E o2 \in Seq(Byte) : Reads(r1, b, r2, o2)
  BY <1>1, <1>6, <1>7, Zenon DEF Outcome, Chained
<1>9. PICK o2 \in Seq(Byte) : Reads(r1, b, r2, o2)
  BY <1>8
<1>10. Reads(rd, a \o b, r2, o1 \o o2)
  BY <1>6, <1>9, Zenon DEF Chained
<1>11. r2 = r /\ o = o1 \o o2
  BY <1>10, ReadsOne, Zenon
<1> QED
  BY <1>5, <1>9, <1>11, Zenon DEF Cut

(* One stream after another. *)
LEMMA ReadsOn ==
    ASSUME NEW rd, NEW a \in Seq(Byte), NEW b \in Seq(Byte), NEW r, NEW o \in Seq(Byte),
           Reads(rd, a, r, o), NEW r2, NEW o2, Reads(r, b, r2, o2)
    PROVE  Reads(rd, a \o b, r2, o \o o2)
<1>1. Chained(rd, a, r, o, b)
  BY ReadsChain
<1> QED
  BY <1>1, Zenon DEF Chained

(* A reader gives no more bytes than it has read. *)
LEMMA GivesLess ==
    ASSUME NEW rd, NEW w \in Seq(Byte), NEW r, NEW o, Reads(rd, w, r, o)
    PROVE  o \in Seq(Byte) /\ Len(o) <= Len(w)
<1> DEFINE P(k) == \A q, z : Reads(rd, Upto(<<>>, w, k), q, z) => z \in Seq(Byte) /\ Len(z) <= k
           T == {k \in Nat : k <= Len(w) => P(k)}
<1>1. <<>> \in Seq(Byte)
  OBVIOUS
<1>2. Upto(<<>>, w, 0) = <<>> /\ Upto(<<>>, w, Len(w)) = <<>> \o w
  BY <1>1, PrefixEnds
<1>3. 0 \in T
  <2>0. PICK e : e = <<>>
    OBVIOUS
  <2>1. Reads(rd, e, rd, e)
    BY <2>0, ReadsNothing, Zenon
  <2>2. ASSUME NEW q, NEW z, Reads(rd, Upto(<<>>, w, 0), q, z) PROVE z \in Seq(Byte) /\ Len(z) <= 0
    <3>1. Reads(rd, e, q, z)
      BY <1>2, <2>0, <2>2, Zenon
    <3>a. z = e
      BY <2>1, <3>1, ReadsOne
    <3>2. z = <<>>
      BY <2>0, <3>a
    <3> QED
      BY <3>2
  <2>3. P(0)
    BY <2>2, Zenon
  <2> HIDE DEF P
  <2> QED
    BY <2>3
<1>4. ASSUME NEW k \in Nat, k \in T PROVE k + 1 \in T
  <2> SUFFICES ASSUME k + 1 <= Len(w) PROVE P(k + 1)
    <3> HIDE DEF P
    <3> QED
      OBVIOUS
  <2>1. k < Len(w) /\ P(k)
    <3> HIDE DEF P
    <3> QED
      BY <1>4
  <2>2. PICK v, b : v = Upto(<<>>, w, k) /\ b = w[k + 1]
    OBVIOUS
  <2>3. v \in Seq(Byte) /\ b \in Byte /\ Upto(<<>>, w, k + 1) = Append(v, b)
    <3> HIDE DEF T
    <3> QED
      BY <1>1, <2>1, <2>2, PrefixGrows
  <2>4. Outcome(rd, v)
    BY <2>3, ReadsOrRefuses
  <2>5. CASE Refuses(rd, v)
    <3>1. Refuses(rd, Append(v, b))
      BY <2>3, <2>5, RefusedStays, Zenon DEF Refuses
    <3> QED
      BY <2>3, <3>1, ReadsOne, ZenonT(60)
  <2>6. ASSUME NEW q, NEW z, Reads(rd, v, q, z) PROVE P(k + 1)
    <3>1. z \in Seq(Byte) /\ Len(z) <= k
      BY <2>1, <2>2, <2>6, Zenon
    <3>2. Given(q, z, b) \in Seq(Byte) /\ Len(Given(q, z, b)) <= k + 1
      <4>1. Append(z, b) \in Seq(Byte) /\ Len(Append(z, b)) <= k + 1 /\ Len(z) <= k + 1
        BY <2>3, <3>1
      <4> QED
        BY <3>1, <4>1, Zenon DEF Given
    <3>3. \/ ~UnpadByte(q, b).ok /\ Refuses(rd, Append(v, b))
          \/ /\ UnpadByte(q, b).ok
             /\ Reads(rd, Append(v, b), UnpadByte(q, b).rd, Given(q, z, b))
      BY <2>3, <2>6, ByteOutcome
    <3>4. ASSUME NEW q2, NEW z2, Reads(rd, Append(v, b), q2, z2)
          PROVE  z2 \in Seq(Byte) /\ Len(z2) <= k + 1
      <4>1. ~Refuses(rd, Append(v, b))
        BY <3>4, ReadsOne, Zenon
      <4>2. UnpadByte(q, b).ok /\ Reads(rd, Append(v, b), UnpadByte(q, b).rd, Given(q, z, b))
        BY <3>3, <4>1, Zenon
      <4>3. Given(q, z, b) = z2
        BY <3>4, <4>2, ReadsOne, Zenon
      <4> QED
        BY <3>2, <4>2, <4>3, Zenon
    <3> QED
      BY <2>3, <3>4, Zenon
  <2> QED
    BY <2>4, <2>5, <2>6, Zenon DEF Outcome
<1>5. Nat \subseteq T
  <2> HIDE DEF T
  <2> QED
    BY <1>3, <1>4, SetInduction
<1>6. P(Len(w))
  <2> HIDE DEF P
  <2> QED
    BY <1>5
<1>7. <<>> \o w = w
  OBVIOUS
<1> QED
  BY <1>2, <1>6, <1>7, Zenon

(* Where a Vision stream is cut into records makes no difference to what a *)
(* VisionReader makes of it, in whatever state the cut finds it, inside a  *)
(* frame header, a content or a padding included: VisionReader::unpad of a *)
(* and then of b gives what unpad of both at once gives, and refuses b     *)
(* exactly when it refuses the whole.                                      *)
THEOREM CutsInvisible ==
    ASSUME NEW rd, NEW a \in Seq(Byte), NEW b \in Seq(Byte), NEW r, NEW o,
           UnpadBytes(rd, a) = [ok |-> TRUE, rd |-> r, out |-> o]
    PROVE  IF UnpadBytes(r, b).ok
           THEN UnpadBytes(rd, a \o b) = [ok |-> TRUE, rd |-> UnpadBytes(r, b).rd,
                                         out |-> o \o UnpadBytes(r, b).out]
           ELSE ~UnpadBytes(rd, a \o b).ok
<1>1. Reads(rd, a, r, o)
  BY Zenon DEF Reads
<1>2. o \in Seq(Byte)
  BY <1>1, GivesLess
<1>3. Chained(rd, a, r, o, b)
  BY <1>1, <1>2, ReadsChain
<1>4. CASE Refuses(r, b)
  BY <1>3, <1>4, Zenon DEF Chained, Refuses
<1>5. CASE ~Refuses(r, b)
  <2>1. Outcome(r, b)
    BY ReadsOrRefuses
  <2>2. PICK r2, o2 : Reads(r, b, r2, o2)
    BY <1>5, <2>1, Zenon DEF Outcome
  <2>3. Reads(rd, a \o b, r2, o \o o2)
    BY <1>3, <2>2, Zenon DEF Chained
  <2>4. PICK x : x = UnpadBytes(r, b) /\ x = [ok |-> TRUE, rd |-> r2, out |-> o2]
    BY <2>2, Zenon DEF Reads
  <2>5. x.rd = r2 /\ x.out = o2
    BY <2>4
  <2>6. UnpadBytes(rd, a \o b) = [ok |-> TRUE, rd |-> x.rd, out |-> o \o x.out]
    BY <2>3, <2>5, Zenon DEF Reads
  <2> QED
    BY <1>5, <2>4, <2>6, Zenon DEF Refuses
<1> QED
  BY <1>4, <1>5

-----------------------------------------------------------------------------
(* A reader's counts stay within a frame, whatever it reads. *)

(* A reader past its first record: its counts fit a frame, and there is    *)
(* content or padding left where it waits for some.                        *)
Sized(s, n, p, h) ==
    /\ s \in {"Header", "Content", "Padding", "Direct"}
    /\ n \in 0..MaxFrameBody /\ p \in 0..MaxFrameBody /\ h \in Seq(Byte) /\ Len(h) < 5
    /\ s \in {"Content", "Padding"} => n > 0
Typed(r) == \E s, n, c, p, h, u, wi, fi : r = Rd(s, n, c, p, h, u, wi, fi) /\ Sized(s, n, p, h)

(* A reader written out field by field. *)
LEMMA RdTyped ==
    ASSUME NEW s, NEW n, NEW c, NEW p, NEW h, NEW u, NEW wi, NEW fi, NEW r,
           r = Rd(s, n, c, p, h, u, wi, fi), Sized(s, n, p, h)
    PROVE  Typed(r)
BY Zenon DEF Typed

(* Either no outcome, or a typed reader. *)
Keeps(x) == ~x.ok \/ Typed(x.rd)

(* A typed reader is a typed outcome. *)
LEMMA OkKeeps ==
    ASSUME NEW r, Typed(r), NEW x, x = [ok |-> TRUE, rd |-> r]
    PROVE  Keeps(x)
<1>1. PICK t : t = TRUE
  OBVIOUS
<1>2. x = [ok |-> t, rd |-> r]
  BY <1>1, Zenon
<1>3. x.rd = r
  BY <1>2
<1> QED
  BY <1>3, Zenon DEF Keeps

(* A refusal has no reader. *)
LEMMA ErrKeeps ==
    ASSUME NEW x, NEW e, x = Err(e)
    PROVE  Keeps(x)
<1>1. PICK f : f = FALSE
  OBVIOUS
<1>2. x = [ok |-> f, err |-> e]
  BY <1>1, Zenon DEF Err
<1>3. x.ok = f
  BY <1>2
<1> QED
  BY <1>1, <1>3, Zenon DEF Keeps

(* The end of a frame leaves a typed reader: direct after END, or a header *)
(* to read.                                                                *)
LEMMA FrameDoneKeeps ==
    ASSUME NEW s, NEW n, NEW c, NEW p, NEW h, NEW u, NEW wi, NEW fi, NEW r,
           r = Rd(s, n, c, p, h, u, wi, fi), Sized(s, n, p, h)
    PROVE  Keeps(FrameDone(r))
<1>0. r.command = c
  BY RdFields
<1>1. PICK f, q, v : /\ f = FALSE /\ q = Moved(r, "Header", 0) /\ v = Left(r, "Direct", 0, f)
  OBVIOUS
<1>2. q = Rd("Header", 0, c, p, h, u, wi, fi)
  BY <1>1, RdMoved
<1>3. v = Rd("Direct", 0, c, p, h, u, f, fi)
  BY <1>1, RdLeft
<1>4. Sized("Header", 0, p, h) /\ Sized("Direct", 0, p, h)
  BY VlessAssumption DEF Sized
<1>5. Typed(q) /\ Typed(v)
  BY <1>2, <1>3, <1>4, RdTyped
<1>6. \/ FrameDone(r) = [ok |-> TRUE, rd |-> q]
      \/ FrameDone(r) = [ok |-> TRUE, rd |-> v]
      \/ FrameDone(r) = Err("BadFrame")
  <2>1. CASE r.command = PADDING_CONTINUE
    <3>1. PADDING_CONTINUE # PADDING_END /\ PADDING_CONTINUE # PADDING_DIRECT
      BY DEF PADDING_END, PADDING_CONTINUE, PADDING_DIRECT
    <3>2. FrameDone(r) = [ok |-> TRUE, rd |-> [r EXCEPT !.state = "Header", !.remaining = 0]]
      BY <2>1, <3>1, Zenon DEF FrameDone
    <3> QED
      BY <1>1, <3>2, Zenon DEF Moved
  <2>2. CASE r.command # PADDING_CONTINUE /\ r.command \in {PADDING_END, PADDING_DIRECT}
    <3>2. FrameDone(r) = [ok |-> TRUE, rd |-> [r EXCEPT !.state = "Direct", !.remaining = 0,
                                                        !.within = FALSE]]
      BY <2>2, Zenon DEF FrameDone
    <3> QED
      BY <1>1, <3>2, Zenon DEF Left
  <2>3. CASE r.command # PADDING_CONTINUE /\ r.command \notin {PADDING_END, PADDING_DIRECT}
    BY <2>3, Zenon DEF FrameDone
  <2> QED
    BY <2>1, <2>2, <2>3, Zenon
<1> QED
  BY <1>5, <1>6, OkKeeps, ErrKeeps, Zenon

(* Skipping a padding, also one of no bytes, leaves a typed reader. *)
LEMMA SkipKeeps ==
    ASSUME NEW s, NEW n, NEW c, NEW p, NEW h, NEW u, NEW wi, NEW fi, NEW r,
           r = Rd(s, n, c, p, h, u, wi, fi), Sized(s, n, p, h), NEW m \in 0..MaxFrameBody
    PROVE  Keeps(Skip(r, m))
<1>1. CASE m = 0
  <2>1. Skip(r, m) = FrameDone(r)
    BY <1>1, Zenon DEF Skip
  <2> QED
    BY <2>1, FrameDoneKeeps
<1>2. CASE m # 0
  <2>1. PICK q : q = Moved(r, "Padding", m)
    OBVIOUS
  <2>2. q = Rd("Padding", m, c, p, h, u, wi, fi)
    BY <2>1, RdMoved
  <2>3. Sized("Padding", m, p, h)
    BY <1>2, VlessAssumption DEF Sized
  <2>4. Typed(q)
    BY <2>2, <2>3, RdTyped
  <2>5. Skip(r, m) = [ok |-> TRUE, rd |-> q]
    BY <1>2, <2>1, Zenon DEF Skip, Moved
  <2> QED
    BY <2>4, <2>5, OkKeeps
<1> QED
  BY <1>1, <1>2

(* A header byte leaves a typed reader: a header that announces more than  *)
(* a frame holds is refused.                                               *)
LEMMA HeaderKeeps ==
    ASSUME NEW s, NEW n, NEW c, NEW p, NEW h, NEW u, NEW wi, NEW fi, NEW r,
           r = Rd(s, n, c, p, h, u, wi, fi), Sized(s, n, p, h), s = "Header", NEW b \in Byte
    PROVE  Keeps(HeaderByte(r, b))
<1>1. r.header = h
  BY RdFields
<1>2. PICK g, x, y : g = Append(h, b) /\ x = Un16(g[2], g[3]) /\ y = Un16(g[4], g[5])
  OBVIOUS
<1>3. g \in Seq(Byte) /\ Len(g) \in Nat /\ Len(g) <= 5
  BY <1>2 DEF Sized
<1>4. CASE Len(g) < 5
  <2>1. PICK q : q = Headed(r, g)
    OBVIOUS
  <2>2. q = Rd(s, n, c, p, g, u, wi, fi)
    BY <2>1, RdSingle
  <2>3. Sized(s, n, p, g)
    BY <1>3, <1>4 DEF Sized
  <2>4. Typed(q)
    BY <2>2, <2>3, RdTyped
  <2>5. HeaderByte(r, b) = [ok |-> TRUE, rd |-> q]
    BY <1>1, <1>2, <1>4, <2>1, Zenon DEF HeaderByte, Headed
  <2> QED
    BY <2>4, <2>5, OkKeeps
<1>5. CASE ~(Len(g) < 5)
  <2>1. /\ g[1] \in Byte /\ g[2] \in Byte /\ g[3] \in Byte /\ g[4] \in Byte /\ g[5] \in Byte
    BY <1>3, <1>5
  <2>2. x \in Nat /\ y \in Nat
    <3>1. PICK g2, g3, g4, g5, B : g2 = g[2] /\ g3 = g[3] /\ g4 = g[4] /\ g5 = g[5] /\ B = ByteMod
      OBVIOUS
    <3>2. g2 \in Nat /\ g3 \in Nat /\ g4 \in Nat /\ g5 \in Nat /\ B \in Nat
      BY <2>1, <3>1, VlessAssumption DEF Byte
    <3>3. g2 * B + g3 \in Nat /\ g4 * B + g5 \in Nat
      BY <3>2
    <3> QED
      BY <1>2, <3>1, <3>3, Zenon DEF Un16
  <2>3. PICK full : full = Framed(r, <<>>, g[1], y)
    OBVIOUS
  <2>4. full = Rd(s, n, g[1], y, <<>>, u, wi, fi)
    BY <2>3, RdFramed
  <2>5. HeaderByte(r, b) = IF x > MaxFrameBody \/ y > MaxFrameBody THEN Err("BadFrame")
                           ELSE IF x = 0 THEN Skip(full, y)
                           ELSE [ok |-> TRUE, rd |-> [full EXCEPT !.state = "Content", !.remaining = x]]
    BY <1>1, <1>2, <1>5, <2>3, ZenonT(60) DEF HeaderByte, Framed
  <2>6. CASE x > MaxFrameBody \/ y > MaxFrameBody
    BY <2>5, <2>6, ErrKeeps, Zenon
  <2>7. CASE ~(x > MaxFrameBody \/ y > MaxFrameBody) /\ x = 0
    <3>1. y \in 0..MaxFrameBody
      BY <2>2, <2>7, VlessAssumption
    <3>2. Sized(s, n, y, <<>>)
      BY <3>1 DEF Sized
    <3>3. HeaderByte(r, b) = Skip(full, y)
      BY <2>5, <2>7, Zenon
    <3> QED
      BY <2>4, <3>1, <3>2, <3>3, SkipKeeps
  <2>8. CASE ~(x > MaxFrameBody \/ y > MaxFrameBody) /\ x # 0
    <3>1. x \in 0..MaxFrameBody /\ y \in 0..MaxFrameBody /\ x > 0
      BY <2>2, <2>8, VlessAssumption
    <3>2. Sized("Content", x, y, <<>>)
      BY <3>1 DEF Sized
    <3>3. PICK q : q = Moved(full, "Content", x)
      OBVIOUS
    <3>4. q = Rd("Content", x, g[1], y, <<>>, u, wi, fi)
      BY <2>4, <3>3, RdMoved
    <3>5. Typed(q)
      BY <3>2, <3>4, RdTyped
    <3>6. HeaderByte(r, b) = [ok |-> TRUE, rd |-> q]
      BY <2>5, <2>8, <3>3, Zenon DEF Moved
    <3> QED
      BY <3>5, <3>6, OkKeeps
  <2> QED
    BY <2>6, <2>7, <2>8
<1> QED
  BY <1>4, <1>5

(* Every byte leaves a typed reader or is refused. *)
LEMMA ByteKeeps ==
    ASSUME NEW r, Typed(r), NEW b \in Byte
    PROVE  Keeps(UnpadByte(r, b))
<1>1. PICK s, n, c, p, h, u, wi, fi : r = Rd(s, n, c, p, h, u, wi, fi) /\ Sized(s, n, p, h)
  BY Zenon DEF Typed
<1>2. r.state = s /\ r.remaining = n /\ r.padding = p
  BY <1>1, RdFields
<1>3. s \in {"Header", "Content", "Padding", "Direct"} /\ n \in 0..MaxFrameBody /\ p \in 0..MaxFrameBody
  BY <1>1 DEF Sized
<1>4. CASE s = "Header"
  <2>1. UnpadByte(r, b) = HeaderByte(r, b)
    BY <1>2, <1>4 DEF UnpadByte
  <2> QED
    BY <1>1, <1>4, <2>1, HeaderKeeps
<1>5. CASE s = "Direct"
  <2>1. UnpadByte(r, b) = [ok |-> TRUE, rd |-> r]
    BY <1>2, <1>5 DEF UnpadByte
  <2> QED
    BY <2>1, OkKeeps
<1>6. CASE s = "Content" /\ n = 1
  <2>1. UnpadByte(r, b) = Skip(r, p)
    BY <1>2, <1>6 DEF UnpadByte
  <2> QED
    BY <1>1, <1>3, <2>1, SkipKeeps
<1>7. CASE s = "Padding" /\ n = 1
  <2>1. UnpadByte(r, b) = FrameDone(r)
    BY <1>2, <1>7 DEF UnpadByte
  <2> QED
    BY <1>1, <2>1, FrameDoneKeeps
<1>8. CASE s \in {"Content", "Padding"} /\ n # 1
  <2>1. PICK k, q : k = n - 1 /\ q = Counted(r, k)
    OBVIOUS
  <2>2. Sized(s, k, p, h)
    BY <1>1, <1>8, <2>1, VlessAssumption DEF Sized
  <2>3. q = Rd(s, k, c, p, h, u, wi, fi)
    BY <1>1, <2>1, RdSingle
  <2>4. Typed(q)
    BY <2>2, <2>3, RdTyped
  <2>5. UnpadByte(r, b) = [ok |-> TRUE, rd |-> [r EXCEPT !.remaining = r.remaining - 1]]
    <3>1. r.state \notin {"Header", "Direct"} /\ r.remaining # 1
      BY <1>2, <1>8
    <3> QED
      BY <3>1, Zenon DEF UnpadByte
  <2>6. [r EXCEPT !.remaining = r.remaining - 1] = q
    BY <1>2, <2>1, Zenon DEF Counted
  <2> QED
    BY <2>4, <2>5, <2>6, OkKeeps, Zenon
<1> QED
  BY <1>3, <1>4, <1>5, <1>6, <1>7, <1>8

(* A typed reader stays one, whatever it reads. *)
LEMMA ReadsTyped ==
    ASSUME NEW rd, Typed(rd), NEW w \in Seq(Byte), NEW r, NEW o, Reads(rd, w, r, o)
    PROVE  Typed(r)
<1> DEFINE P(k) == \A q, z : Reads(rd, Upto(<<>>, w, k), q, z) => Typed(q)
           T == {k \in Nat : k <= Len(w) => P(k)}
<1>1. <<>> \in Seq(Byte)
  OBVIOUS
<1>2. Upto(<<>>, w, 0) = <<>> /\ Upto(<<>>, w, Len(w)) = <<>> \o w
  BY <1>1, PrefixEnds
<1>3. 0 \in T
  <2>1. Reads(rd, <<>>, rd, <<>>)
    BY ReadsNothing
  <2>2. ASSUME NEW q, NEW z, Reads(rd, Upto(<<>>, w, 0), q, z) PROVE Typed(q)
    <3>1. Reads(rd, <<>>, q, z)
      BY <1>2, <2>2, Zenon
    <3>2. q = rd
      BY <2>1, <3>1, ReadsOne, Zenon
    <3> QED
      BY <3>2, Zenon
  <2>3. P(0)
    BY <2>2, Zenon
  <2> HIDE DEF P
  <2> QED
    BY <2>3
<1>4. ASSUME NEW k \in Nat, k \in T PROVE k + 1 \in T
  <2> SUFFICES ASSUME k + 1 <= Len(w) PROVE P(k + 1)
    <3> HIDE DEF P
    <3> QED
      OBVIOUS
  <2>1. k < Len(w) /\ P(k)
    <3> HIDE DEF P
    <3> QED
      BY <1>4
  <2>2. PICK v, b : v = Upto(<<>>, w, k) /\ b = w[k + 1]
    OBVIOUS
  <2>3. v \in Seq(Byte) /\ b \in Byte /\ Upto(<<>>, w, k + 1) = Append(v, b)
    <3> HIDE DEF T
    <3> QED
      BY <1>1, <2>1, <2>2, PrefixGrows
  <2>4. Outcome(rd, v)
    BY <2>3, ReadsOrRefuses
  <2>5. CASE Refuses(rd, v)
    <3>1. Refuses(rd, Append(v, b))
      BY <2>3, <2>5, RefusedStays, Zenon DEF Refuses
    <3> QED
      BY <2>3, <3>1, ReadsOne, ZenonT(60)
  <2>6. ASSUME NEW q, NEW z, Reads(rd, v, q, z) PROVE P(k + 1)
    <3>1. Typed(q)
      BY <2>1, <2>2, <2>6, Zenon
    <3>2. Keeps(UnpadByte(q, b))
      BY <2>3, <3>1, ByteKeeps
    <3>3. \/ ~UnpadByte(q, b).ok /\ Refuses(rd, Append(v, b))
          \/ /\ UnpadByte(q, b).ok
             /\ Reads(rd, Append(v, b), UnpadByte(q, b).rd, Given(q, z, b))
      BY <2>3, <2>6, ByteOutcome
    <3>4. ASSUME NEW q2, NEW z2, Reads(rd, Append(v, b), q2, z2) PROVE Typed(q2)
      <4>1. ~Refuses(rd, Append(v, b))
        BY <3>4, ReadsOne, Zenon
      <4>2. UnpadByte(q, b).ok /\ Reads(rd, Append(v, b), UnpadByte(q, b).rd, Given(q, z, b))
        BY <3>3, <4>1, Zenon
      <4>3. UnpadByte(q, b).rd = q2
        BY <3>4, <4>2, ReadsOne, Zenon
      <4> QED
        BY <3>2, <4>2, <4>3, Zenon DEF Keeps
    <3> QED
      BY <2>3, <3>4, Zenon
  <2> QED
    BY <2>4, <2>5, <2>6, Zenon DEF Outcome
<1>5. Nat \subseteq T
  <2> HIDE DEF T
  <2> QED
    BY <1>3, <1>4, SetInduction
<1>6. P(Len(w))
  <2> HIDE DEF P
  <2> QED
    BY <1>5
<1>7. <<>> \o w = w
  OBVIOUS
<1> QED
  BY <1>2, <1>6, <1>7, Zenon

(* v is the first n of its bytes, one by one. *)
Bytewise(v, p0, p1, p2, p3, p4, p5) ==
    /\ p0 = <<>> /\ p1 = Append(p0, v[1]) /\ p2 = Append(p1, v[2]) /\ p3 = Append(p2, v[3])
    /\ p4 = Append(p3, v[4]) /\ p5 = Append(p4, v[5]) /\ p5 = SubSeq(v, 1, 5)
    /\ p0 \in Seq(Byte) /\ p1 \in Seq(Byte) /\ p2 \in Seq(Byte) /\ p3 \in Seq(Byte)
    /\ p4 \in Seq(Byte) /\ p5 \in Seq(Byte)
    /\ v[1] \in Byte /\ v[2] \in Byte /\ v[3] \in Byte /\ v[4] \in Byte /\ v[5] \in Byte

(* The first five bytes of a buffer, one by one. *)
LEMMA FirstFive ==
    ASSUME NEW v \in Seq(Byte), Len(v) >= 5
    PROVE  \E p0, p1, p2, p3, p4, p5 : Bytewise(v, p0, p1, p2, p3, p4, p5)
<1> DEFINE P(k) == Upto(<<>>, v, k)
<1>1. <<>> \in Seq(Byte) /\ Len(v) \in Nat
  OBVIOUS
<1>2. P(0) = <<>>
  BY <1>1, PrefixEnds
<1>3. ASSUME NEW k \in Nat, k < 5, NEW j, j = k + 1
      PROVE  P(k) \in Seq(Byte) /\ P(j) = Append(P(k), v[j]) /\ P(j) \in Seq(Byte) /\ v[j] \in Byte
  <2>1. k < Len(v)
    BY <1>3
  <2>2. P(k) \in Seq(Byte) /\ v[k + 1] \in Byte /\ P(k + 1) = Append(P(k), v[k + 1])
    BY <1>1, <2>1, PrefixGrows
  <2>3. Append(P(k), v[k + 1]) \in Seq(Byte)
    <3> HIDE DEF P
    <3> QED
      BY <2>2
  <2> QED
    BY <1>3, <2>2, <2>3, Zenon
<1>4. P(5) = SubSeq(v, 1, 5)
  <2>1. SubSeq(v, 1, 5) \in Seq(Byte)
    OBVIOUS
  <2>2. \A s \in Seq(Byte) : <<>> \o s = s
    OBVIOUS
  <2> QED
    BY <2>1, <2>2, Zenon DEF Upto
<1> HIDE DEF P
<1>5. P(0) \in Seq(Byte) /\ P(1) = Append(P(0), v[1]) /\ P(1) \in Seq(Byte) /\ v[1] \in Byte
  BY <1>3, SMTT(60)
<1>6. P(2) = Append(P(1), v[2]) /\ P(2) \in Seq(Byte) /\ v[2] \in Byte
  BY <1>3
<1>7. P(3) = Append(P(2), v[3]) /\ P(3) \in Seq(Byte) /\ v[3] \in Byte
  BY <1>3
<1>8. P(4) = Append(P(3), v[4]) /\ P(4) \in Seq(Byte) /\ v[4] \in Byte
  BY <1>3
<1>9. P(5) = Append(P(4), v[5]) /\ P(5) \in Seq(Byte) /\ v[5] \in Byte
  BY <1>3
<1>10. Bytewise(v, P(0), P(1), P(2), P(3), P(4), P(5))
  BY <1>2, <1>4, <1>5, <1>6, <1>7, <1>8, <1>9, Zenon DEF Bytewise
<1> QED
  BY <1>10, Zenon

(* The five bytes of a frame header give nothing, but for the last lead to *)
(* a header that is one byte short.                                        *)
Headful(u, v, a, p4, h4) ==
    /\ Reads(LockedOn(u), p4, Padded("Header", 0, 0, 0, h4, u), <<>>) /\ a = Append(p4, v[5])
    /\ p4 \in Seq(Byte) /\ a \in Seq(Byte) /\ a = SubSeq(v, 1, 5) /\ v[5] \in Byte
    /\ Fills(<<v[1], v[2], v[3], v[4], v[5]>>, h4, v[5], Un16(v[2], v[3]), v[1], Un16(v[4], v[5]))

(* A locked reader has read four of five bytes and given nothing. *)
LEMMA HeaderAhead ==
    ASSUME NEW v \in Seq(Byte), Len(v) >= 5, NEW u
    PROVE  \E a, p4, h4 : Headful(u, v, a, p4, h4)
<1>1. PICK p0, p1, p2, p3, p4, p5 : Bytewise(v, p0, p1, p2, p3, p4, p5)
  BY FirstFive
<1>2. /\ p0 = <<>> /\ p1 = Append(p0, v[1]) /\ p2 = Append(p1, v[2]) /\ p3 = Append(p2, v[3])
      /\ p4 = Append(p3, v[4]) /\ p0 \in Seq(Byte) /\ p1 \in Seq(Byte) /\ p2 \in Seq(Byte)
      /\ p3 \in Seq(Byte)
      /\ v[1] \in Byte /\ v[2] \in Byte /\ v[3] \in Byte /\ v[4] \in Byte /\ v[5] \in Byte
  BY <1>1, Zenon DEF Bytewise
<1>3. PICK h1, h2, h3, h4 :
        /\ Grows(h1, <<>>, v[1]) /\ Grows(h2, h1, v[2]) /\ Grows(h3, h2, v[3]) /\ Grows(h4, h3, v[4])
        /\ Fills(<<v[1], v[2], v[3], v[4], v[5]>>, h4, v[5], Un16(v[2], v[3]), v[1], Un16(v[4], v[5]))
  BY <1>2, HeaderParts
<1>4. Reads(LockedOn(u), p0, Padded("Header", 0, 0, 0, <<>>, u), <<>>)
  BY <1>2, ReadsNothing, Zenon DEF LockedOn
<1>5. Reads(LockedOn(u), p1, Padded("Header", 0, 0, 0, h1, u), <<>>)
  BY <1>2, <1>3, <1>4, HeaderByteReads
<1>6. Reads(LockedOn(u), p2, Padded("Header", 0, 0, 0, h2, u), <<>>)
  BY <1>2, <1>3, <1>5, HeaderByteReads
<1>7. Reads(LockedOn(u), p3, Padded("Header", 0, 0, 0, h3, u), <<>>)
  BY <1>2, <1>3, <1>6, HeaderByteReads
<1>8. Reads(LockedOn(u), p4, Padded("Header", 0, 0, 0, h4, u), <<>>)
  BY <1>2, <1>3, <1>7, HeaderByteReads
<1>9. Headful(u, v, p5, p4, h4)
  BY <1>1, <1>3, <1>8, Zenon DEF Headful, Bytewise
<1> QED
  BY <1>9, Zenon

(* A frame header is five bytes that are not given out. *)
LEMMA HeaderCosts ==
    ASSUME NEW u, NEW v \in Seq(Byte), Len(v) >= 5, NEW r, NEW o, Reads(LockedOn(u), v, r, o)
    PROVE  o \in Seq(Byte) /\ Len(o) <= Len(v) - 5
<1>1. PICK a, p4, h4 : Headful(u, v, a, p4, h4)
  BY HeaderAhead
<1>2. PICK b : b = SubSeq(v, 6, Len(v))
  OBVIOUS
<1>3. a \in Seq(Byte) /\ b \in Seq(Byte) /\ v = a \o b /\ Len(b) = Len(v) - 5
  <2>1. a = SubSeq(v, 1, 5) /\ a \in Seq(Byte)
    BY <1>1, Zenon DEF Headful
  <2>2. b \in Seq(Byte) /\ Len(b) = Len(v) - 5
    <3>1. PICK n \in Nat : n = Len(v)
      OBVIOUS
    <3>2. b = SubSeq(v, 6, n) /\ n >= 5
      BY <1>2, <3>1
    <3>3. \A i \in 6..n : v[i] \in Byte
      BY <3>1
    <3>4. b \in Seq(Byte)
      BY <3>1, <3>2, <3>3
    <3>5. Len(b) = n - 5
      BY <3>2
    <3> QED
      BY <3>1, <3>4, <3>5
  <2>3. PICK c : c = a \o b
    OBVIOUS
  <2>4. Len(a) = 5 /\ \A i \in 1..5 : a[i] = v[i]
    BY <2>1
  <2>5. \A i \in 1..Len(b) : b[i] = v[5 + i]
    BY <1>2
  <2>6. c \in Seq(Byte) /\ Len(c) = Len(v) /\ \A i \in 1..Len(c) : c[i] = v[i]
    <3>1. PICK n, m \in Nat : n = Len(v) /\ m = Len(b) /\ n = m + 5
      BY <2>2
    <3>2. Joined(Byte, a, b, c, 5, m)
      BY <2>1, <2>2, <2>3, <2>4, <3>1, Joins
    <3>3. c \in Seq(Byte) /\ Len(c) = 5 + m
      BY <3>2 DEF Joined
    <3>4. ASSUME NEW i \in 1..n PROVE c[i] = v[i]
      <4>1. CASE i <= 5
        BY <2>4, <3>2, <4>1 DEF Joined
      <4>2. CASE i > 5
        <5>1. PICK j : j = i - 5
          OBVIOUS
        <5>2. j \in 1..m /\ i = 5 + j
          BY <3>1, <4>2, <5>1
        <5> QED
          BY <2>5, <3>1, <3>2, <5>2 DEF Joined
      <4> QED
        BY <4>1, <4>2
    <3> QED
      BY <3>1, <3>3, <3>4
  <2>7. c = v
    BY <2>6, SameSeq
  <2> QED
    BY <2>1, <2>2, <2>3, <2>7
<1>4. Cut(LockedOn(u), a, b, r, o)
  <2>1. Reads(LockedOn(u), a \o b, r, o)
    BY <1>3, Zenon
  <2> QED
    BY <1>3, <2>1, ReadsCut
<1>5. PICK r1 : \E o1, o2 \in Seq(Byte) :
          Reads(LockedOn(u), a, r1, o1) /\ Reads(r1, b, r, o2) /\ o = o1 \o o2
  BY <1>4, Zenon DEF Cut
<1>6. PICK o1, o2 \in Seq(Byte) :
          Reads(LockedOn(u), a, r1, o1) /\ Reads(r1, b, r, o2) /\ o = o1 \o o2
  BY <1>5
<1>7. o1 = <<>>
  <2>1. PICK x, e : x = Padded("Header", 0, 0, 0, h4, u) /\ e = v[5]
    OBVIOUS
  <2>2. /\ Reads(LockedOn(u), p4, x, <<>>) /\ a = Append(p4, e) /\ p4 \in Seq(Byte) /\ e \in Byte
    BY <1>1, <2>1, Zenon DEF Headful
  <2>3. \/ ~UnpadByte(x, e).ok /\ Refuses(LockedOn(u), Append(p4, e))
        \/ /\ UnpadByte(x, e).ok
           /\ Reads(LockedOn(u), Append(p4, e), UnpadByte(x, e).rd, Given(x, <<>>, e))
    BY <2>2, ByteOutcome
  <2>4. Reads(LockedOn(u), Append(p4, e), r1, o1)
    BY <1>6, <2>2, Zenon
  <2>5. ~Refuses(LockedOn(u), Append(p4, e))
    BY <2>4, ReadsOne, Zenon
  <2>6. Reads(LockedOn(u), Append(p4, e), UnpadByte(x, e).rd, Given(x, <<>>, e))
    BY <2>3, <2>5, Zenon
  <2>7. o1 = Given(x, <<>>, e)
    <3>1. \A q, z : Reads(LockedOn(u), Append(p4, e), q, z) => q = r1 /\ z = o1
      BY <2>4, ReadsOne
    <3> QED
      BY <2>6, <3>1, Zenon
  <2>8. x.state = "Header"
    BY <2>1, PaddedState
  <2>9. x.state \notin {"Content", "Direct"}
    BY <2>8
  <2> QED
    BY <2>7, <2>9, Zenon DEF Given
<1>8. o2 \in Seq(Byte) /\ Len(o2) <= Len(b)
  BY <1>3, <1>6, GivesLess
<1>9. o = o2
  BY <1>6, <1>7
<1> QED
  BY <1>3, <1>8, <1>9

-----------------------------------------------------------------------------
(* What VlessIn's unwrap makes of a record. *)

(* An inbound end that has met the response. *)
SeenIn(rd) == [response_seen |-> TRUE, reader |-> rd]

(* A buffer cut in two. *)
Halves(f, n, a, b) ==
    /\ a = Slice(f, 0, n) /\ b = Slice(f, n, Len(f)) /\ a \in Seq(Byte) /\ b \in Seq(Byte)
    /\ Len(a) = n /\ Len(b) = Len(f) - n /\ f = a \o b

(* A buffer can be cut at every offset up to its length. *)
LEMMA CutsInTwo ==
    ASSUME NEW f \in Seq(Byte), NEW n \in 0..Len(f)
    PROVE  \E a, b : Halves(f, n, a, b)
<1>1. PICK k \in Nat : k = Len(f)
  OBVIOUS
<1>2. PICK a, b : a = SubSeq(f, 1, n) /\ b = SubSeq(f, n + 1, k)
  OBVIOUS
<1>3. n \in 0..k /\ \A i \in 1..k : f[i] \in Byte
  BY <1>1
<1>4. a \in Seq(Byte) /\ Len(a) = n /\ \A i \in 1..n : a[i] = f[i]
  BY <1>1, <1>2, <1>3
<1>5. b \in Seq(Byte) /\ Len(b) = k - n /\ \A i \in 1..(k - n) : b[i] = f[n + i]
  BY <1>1, <1>2, <1>3
<1>6. PICK m \in Nat : m = k - n /\ k = n + m
  BY <1>3
<1>7. PICK c : c = a \o b
  OBVIOUS
<1>8. Joined(Byte, a, b, c, n, m)
  BY <1>4, <1>5, <1>6, <1>7, Joins
<1>9. c \in Seq(Byte) /\ Len(c) = k
  BY <1>6, <1>8 DEF Joined
<1>10. ASSUME NEW i \in 1..k PROVE c[i] = f[i]
  <2>1. CASE i <= n
    BY <1>3, <1>4, <1>8, <2>1 DEF Joined
  <2>2. CASE i > n
    <3>1. PICK j : j = i - n
      OBVIOUS
    <3>2. j \in 1..m /\ i = n + j
      BY <1>3, <1>6, <2>2, <3>1
    <3> QED
      BY <1>5, <1>6, <1>8, <3>2 DEF Joined
  <2> QED
    BY <1>3, <2>1, <2>2
<1>11. c = f
  BY <1>1, <1>9, <1>10, SameSeq
<1>12. a = Slice(f, 0, n) /\ b = Slice(f, n, Len(f))
  <2>1. 0 + 1 = 1
    OBVIOUS
  <2> QED
    BY <1>1, <1>2, <2>1, Zenon DEF Slice
<1>13. Len(b) = Len(f) - n
  BY <1>1, <1>5
<1> QED
  BY <1>4, <1>5, <1>7, <1>11, <1>12, <1>13, Zenon DEF Halves

(* The reader that let a first record pass as it came. *)
Plainly(u) == Rd("Initial", 0, 0, 0, <<>>, u, FALSE, FALSE)

(* A reader that has no identity yet lets through what is no frame. *)
LEMMA Passes ==
    ASSUME NEW u, NEW f, NEW rd,
           \/ rd = NewReader(u) /\ ~(Len(f) >= UuidLen + 5)
           \/ rd = Plainly(u) /\ ~(Len(f) >= UuidLen + 5 /\ Slice(f, 0, UuidLen) = u)
    PROVE  Unpad(rd, f) = [ok |-> TRUE, rd |-> Plainly(u), out |-> f]
<1>1. PICK t, e : t = TRUE /\ e = FALSE
  OBVIOUS
<1>2. CASE rd = NewReader(u) /\ ~(Len(f) >= UuidLen + 5)
  <2>1. rd = Rd("Initial", 0, 0, 0, <<>>, u, e, t)
    BY <1>1, <1>2, Zenon DEF NewReader, Rd
  <2>2. rd.state = "Initial"
    BY <2>1, RdFields
  <2>3. Seen(rd, e) = Rd("Initial", 0, 0, 0, <<>>, u, e, e)
    BY <2>1, RdSingle
  <2>4. [rd EXCEPT !.first = FALSE] = Plainly(u)
    BY <1>1, <2>3, Zenon DEF Seen, Plainly
  <2> QED
    BY <1>2, <2>2, <2>4, Zenon DEF Unpad
<1>3. CASE rd = Plainly(u) /\ ~(Len(f) >= UuidLen + 5 /\ Slice(f, 0, UuidLen) = u)
  <2>1. rd = Rd("Initial", 0, 0, 0, <<>>, u, e, e)
    BY <1>1, <1>3, Zenon DEF Plainly
  <2>2. rd.state = "Initial" /\ rd.uuid = u
    BY <2>1, RdFields
  <2>5. rd.first = e
    BY <2>1, RdFields
  <2>6. ~rd.first
    BY <1>1, <2>5, Zenon
  <2>3. Seen(rd, e) = Rd("Initial", 0, 0, 0, <<>>, u, e, e)
    BY <2>1, RdSingle
  <2>4. [rd EXCEPT !.first = FALSE] = Plainly(u)
    BY <1>1, <2>3, Zenon DEF Seen, Plainly
  <2> QED
    BY <1>3, <2>2, <2>4, <2>6, Zenon DEF Unpad
<1> QED
  BY <1>2, <1>3

(* A fresh reader refuses a frame without its identity. *)
LEMMA Mismatch ==
    ASSUME NEW u, NEW f, Len(f) >= UuidLen + 5, Slice(f, 0, UuidLen) # u
    PROVE  ~Unpad(NewReader(u), f).ok
<1>1. PICK rd : rd = NewReader(u)
  OBVIOUS
<1>2. rd.state = "Initial" /\ rd.uuid = u /\ rd.first
  BY <1>1 DEF NewReader
<1>3. PICK x : x = Unpad(rd, f)
  OBVIOUS
<1>4. x = Err("UuidMismatch")
  BY <1>2, <1>3, Zenon DEF Unpad
<1>5. ~x.ok
  BY <1>4 DEF Err
<1> QED
  BY <1>1, <1>3, <1>5, Zenon

(* A reader at work takes every buffer for frames. *)
LEMMA TypedUnpads ==
    ASSUME NEW r, Typed(r), NEW f
    PROVE  Unpad(r, f) = UnpadBytes(r, f)
<1>1. r.state # "Initial"
  <2>1. PICK s, n, c, p, h, u, wi, fi : r = Rd(s, n, c, p, h, u, wi, fi) /\ Sized(s, n, p, h)
    BY Zenon DEF Typed
  <2>2. r.state = s
    BY <2>1, RdFields
  <2>3. s # "Initial"
    BY <2>1 DEF Sized
  <2> QED
    BY <2>2, <2>3
<1> QED
  BY <1>1, Zenon DEF Unpad

(* The reader that has just met its identity is typed. *)
LEMMA LockedTyped ==
    ASSUME NEW u
    PROVE  Typed(LockedOn(u))
<1>1. LockedOn(u) = Rd("Header", 0, 0, 0, <<>>, u, TRUE, FALSE)
  BY Zenon DEF LockedOn, Padded
<1>2. Sized("Header", 0, 0, <<>>)
  BY VlessAssumption DEF Sized
<1> QED
  BY <1>1, <1>2, Zenon DEF Typed

(* What the inbound end makes of a record: the reader it is left with and  *)
(* the payload.                                                            *)
Unwraps(vi, f, r, o) == Unwrap(vi, f) = [ok |-> TRUE, vi |-> SeenIn(r), out |-> o]
Unpads(rd, f, r, o) == Unpad(rd, f) = [ok |-> TRUE, rd |-> r, out |-> o]
Rejected(vi, f) == ~Unwrap(vi, f).ok
Responds(o) == Len(o) >= 4 /\ o[1] = VERSION

(* unwrap of a first record that unpads: the response header is cut off,   *)
(* and a content that does not begin with one is rejected.                 *)
LEMMA UnwrapFirst ==
    ASSUME NEW u, NEW f, NEW r, NEW o, Unpads(NewReader(u), f, r, o)
    PROVE  IF Responds(o) THEN Unwraps(NewIn(u), f, r, Slice(o, 4, Len(o)))
           ELSE Rejected(NewIn(u), f)
<1>1. PICK x, v : x = Unpad(NewReader(u), f) /\ v = Unwrap(NewIn(u), f)
  OBVIOUS
<1>2. x = [ok |-> TRUE, rd |-> r, out |-> o]
  BY <1>1, Zenon DEF Unpads
<1>3. x.ok /\ x.rd = r /\ x.out = o
  BY <1>2
<1>4. NewIn(u).response_seen = FALSE /\ NewIn(u).reader = NewReader(u)
  BY DEF NewIn
<1>5. CASE Responds(o)
  <2>1. Len(o) >= 4 /\ o[1] = VERSION
    BY <1>5, Zenon DEF Responds
  <2>2. ~(Len(o) < 4 \/ o[1] # VERSION)
    <3>1. PICK n : n = Len(o)
      OBVIOUS
    <3> QED
      BY <2>1
  <2>3. ParseResponseHeader(o) = [ok |-> TRUE]
    BY <2>2, Zenon DEF ParseResponseHeader
  <2>4. ParseResponseHeader(o).ok
    BY <2>3
  <2>5. v = [ok |-> TRUE, vi |-> SeenIn(r), out |-> Slice(o, 4, Len(o))]
    BY <1>1, <1>3, <1>4, <2>4, Zenon DEF Unwrap, SeenIn
  <2> QED
    BY <1>1, <1>5, <2>5, Zenon DEF Unwraps
<1>6. CASE ~Responds(o)
  <2>1. ParseResponseHeader(o) = Err("BadResponse")
    <3>1. Len(o) < 4 \/ o[1] # VERSION
      BY <1>6 DEF Responds
    <3> QED
      BY <3>1, Zenon DEF ParseResponseHeader
  <2>2. ~ParseResponseHeader(o).ok
    BY <2>1 DEF Err
  <2>3. v = ParseResponseHeader(o)
    BY <1>1, <1>3, <1>4, <2>2, Zenon DEF Unwrap
  <2> QED
    BY <1>1, <1>6, <2>2, <2>3, Zenon DEF Rejected
<1> QED
  BY <1>5, <1>6

(* unwrap rejects a first record that does not unpad. *)
LEMMA UnwrapRefused ==
    ASSUME NEW u, NEW f, ~Unpad(NewReader(u), f).ok
    PROVE  Rejected(NewIn(u), f)
<1>1. PICK x, v : x = Unpad(NewReader(u), f) /\ v = Unwrap(NewIn(u), f)
  OBVIOUS
<1>2. NewIn(u).reader = NewReader(u)
  BY DEF NewIn
<1>3. v = x
  BY <1>1, <1>2, Zenon DEF Unwrap
<1> QED
  BY <1>1, <1>3, Zenon DEF Rejected

(* unwrap of a later record is what it unpads to. *)
LEMMA UnwrapSeen ==
    ASSUME NEW rd, NEW f, NEW r, NEW o, Unpads(rd, f, r, o)
    PROVE  Unwraps(SeenIn(rd), f, r, o)
<1>1. PICK x, v : x = Unpad(rd, f) /\ v = Unwrap(SeenIn(rd), f)
  OBVIOUS
<1>2. x = [ok |-> TRUE, rd |-> r, out |-> o]
  BY <1>1, Zenon DEF Unpads
<1>3. x.ok /\ x.rd = r /\ x.out = o
  BY <1>2
<1>4. SeenIn(rd).response_seen = TRUE /\ SeenIn(rd).reader = rd
  BY DEF SeenIn
<1>5. v = [ok |-> TRUE, vi |-> SeenIn(r), out |-> o]
  BY <1>1, <1>3, <1>4, Zenon DEF Unwrap, SeenIn
<1> QED
  BY <1>1, <1>5, Zenon DEF Unwraps

(* A first record with no more than three bytes after a frame header holds *)
(* no response.                                                            *)
LEMMA ShortRefused ==
    ASSUME NEW u \in Seq(Byte), Len(u) = UuidLen, NEW f \in Seq(Byte),
           Len(f) \in (UuidLen + 5)..(UuidLen + 8)
    PROVE  Rejected(NewIn(u), f)
<1>1. UuidLen \in Nat
  BY VlessAssumption
<1>2. CASE Slice(f, 0, UuidLen) # u
  <2>1. Len(f) >= UuidLen + 5
    BY <1>1
  <2> QED
    BY <1>2, <2>1, Mismatch, UnwrapRefused
<1>3. CASE Slice(f, 0, UuidLen) = u
  <2>1. UuidLen \in 0..Len(f)
    BY <1>1
  <2>2. PICK a, w : Halves(f, UuidLen, a, w)
    BY <2>1, CutsInTwo
  <2>3. a = u /\ f = u \o w /\ w \in Seq(Byte)
    BY <1>3, <2>2, Zenon DEF Halves
  <2>4. Len(w) \in 5..8
    <3>1. Len(w) = Len(f) - UuidLen
      BY <2>2, Zenon DEF Halves
    <3> QED
      BY <1>1, <3>1
  <2>a. PICK k \in 5..8 : k = Len(w)
    BY <2>4
  <2>b. Len(w) >= 5
    BY <2>a
  <2>5. Unpad(NewReader(u), f) = UnpadBytes(LockedOn(u), w)
    <3>1. Unpad(NewReader(u), u \o w) = UnpadBytes(LockedOn(u), w)
      BY <2>3, <2>b, NewReaderLocks
    <3> QED
      BY <2>3, <3>1, Zenon
  <2>6. Outcome(LockedOn(u), w)
    BY <2>3, ReadsOrRefuses
  <2>7. CASE Refuses(LockedOn(u), w)
    <3>1. ~Unpad(NewReader(u), f).ok
      BY <2>5, <2>7, Zenon DEF Refuses
    <3> QED
      BY <3>1, UnwrapRefused
  <2>8. CASE ~Refuses(LockedOn(u), w)
    <3>1. PICK r : \E o \in Seq(Byte) : Reads(LockedOn(u), w, r, o)
      BY <2>6, <2>8, Zenon DEF Outcome
    <3>2. PICK o \in Seq(Byte) : Reads(LockedOn(u), w, r, o)
      BY <3>1
    <3>3. Len(o) <= Len(w) - 5
      BY <2>3, <2>b, <3>2, HeaderCosts
    <3>4. Unpads(NewReader(u), f, r, o)
      BY <2>5, <3>2, Zenon DEF Reads, Unpads
    <3>5. ~Responds(o)
      <4>1. PICK j \in Nat : j = Len(o)
        OBVIOUS
      <4>2. ~(j >= 4)
        <5>1. j <= k - 5
          BY <2>a, <3>3, <4>1
        <5> QED
          BY <5>1
      <4> QED
        BY <4>1, <4>2, Zenon DEF Responds
    <3> QED
      BY <3>4, <3>5, UnwrapFirst
  <2> QED
    BY <2>7, <2>8
<1> QED
  BY <1>2, <1>3

(* A frame whose command is none of the three is refused at its end. *)
LEMMA UnknownCommand ==
    ASSUME NEW c, c \notin {PADDING_CONTINUE, PADDING_END, PADDING_DIRECT}, NEW u, NEW b
    PROVE  UnpadByte(Padded("Content", 1, c, 0, <<>>, u), b) = Err("BadFrame")
<1>1. PICK r, t, f : r = Padded("Content", 1, c, 0, <<>>, u) /\ t = TRUE /\ f = FALSE
  OBVIOUS
<1>2. r = Rd("Content", 1, c, 0, <<>>, u, t, f)
  BY <1>1, Zenon DEF Padded
<1>3. r.state = "Content" /\ r.remaining = 1 /\ r.padding = 0 /\ r.command = c
  BY <1>2, RdFields
<1>4. UnpadByte(r, b) = Skip(r, 0)
  BY <1>3 DEF UnpadByte
<1>5. Skip(r, 0) = FrameDone(r)
  BY Zenon DEF Skip
<1>6. FrameDone(r) = Err("BadFrame")
  BY <1>3 DEF FrameDone
<1> QED
  BY <1>1, <1>4, <1>5, <1>6

(* A frame header with a command that does not exist. *)
Strange == <<3, 0, 4, 0, 0>>

(* Content under an unknown command is refused at its last byte. *)
LEMMA ContentRefused ==
    ASSUME NEW u, NEW y, y = Padded("Content", 4, 3, 0, <<>>, u)
    PROVE  Refuses(y, BuildResponseHeader)
<1>1. PICK y1, y2, y3 : /\ y1 = Padded("Content", 3, 3, 0, <<>>, u)
                        /\ y2 = Padded("Content", 2, 3, 0, <<>>, u)
                        /\ y3 = Padded("Content", 1, 3, 0, <<>>, u)
  OBVIOUS
<1>2. y.state = "Content" /\ y1.state = "Content" /\ y2.state = "Content"
  BY <1>1, PaddedState
<1>3. \A b : UnpadByte(y, b) = Ok(y1) /\ UnpadByte(y1, b) = Ok(y2) /\ UnpadByte(y2, b) = Ok(y3)
  <2> TAKE b
  <2>1. UnpadByte(Padded("Content", 4, 3, 0, <<>>, u), b) = Ok(Padded("Content", 3, 3, 0, <<>>, u))
    BY StillContent
  <2>2. UnpadByte(Padded("Content", 3, 3, 0, <<>>, u), b) = Ok(Padded("Content", 2, 3, 0, <<>>, u))
    BY StillContent
  <2>3. UnpadByte(Padded("Content", 2, 3, 0, <<>>, u), b) = Ok(Padded("Content", 1, 3, 0, <<>>, u))
    BY StillContent
  <2> QED
    BY <1>1, <2>1, <2>2, <2>3, Zenon
<1>4. \A b : UnpadByte(y3, b) = Err("BadFrame")
  <2>1. 3 \notin {PADDING_CONTINUE, PADDING_END, PADDING_DIRECT}
    BY DEF PADDING_CONTINUE, PADDING_END, PADDING_DIRECT
  <2> QED
    BY <1>1, <2>1, UnknownCommand
<1>5. PICK w0, w1, w2, w3, w4 :
        /\ w0 = <<>> /\ w1 = Append(w0, 0) /\ w2 = Append(w1, 10) /\ w3 = Append(w2, 1) /\ w4 = Append(w3, 0)
  OBVIOUS
<1>6. 0 \in Byte /\ 1 \in Byte /\ 10 \in Byte
  BY VlessAssumption DEF Byte
<1>7. w0 \in Seq(Byte) /\ w1 \in Seq(Byte) /\ w2 \in Seq(Byte) /\ w3 \in Seq(Byte) /\ w4 \in Seq(Byte)
  BY <1>5, <1>6
<1>8. w4 = BuildResponseHeader
  <2>1. Len(w1) = 1 /\ w1[1] = 0
    BY <1>5, <1>6, <1>7
  <2>2. Len(w2) = 2 /\ w2[1] = 0 /\ w2[2] = 10
    BY <1>5, <1>6, <1>7, <2>1
  <2>3. Len(w3) = 3 /\ w3[1] = 0 /\ w3[2] = 10 /\ w3[3] = 1
    BY <1>5, <1>6, <1>7, <2>2
  <2>4. Len(w4) = 4 /\ w4[1] = 0 /\ w4[2] = 10 /\ w4[3] = 1 /\ w4[4] = 0
    BY <1>5, <1>6, <1>7, <2>3
  <2>5. PICK x : x = BuildResponseHeader
    OBVIOUS
  <2>6. Len(x) = 4 /\ x[1] = 0 /\ x[2] = 10 /\ x[3] = 1 /\ x[4] = 0 /\ x \in Seq(Byte)
    BY <1>6, <2>5 DEF BuildResponseHeader, VERSION, FlowTag
  <2>8. Len(w4) = Len(x) /\ \A i \in 1..Len(w4) : w4[i] = x[i]
    BY <2>4, <2>6
  <2>7. w4 = x
    BY <1>7, <2>6, <2>8, SameSeq
  <2> QED
    BY <2>5, <2>7
<1>9. Reads(y, w0, y, <<>>)
  BY <1>5, ReadsNothing, Zenon
<1>10. PICK o1, o2, o3 : o1 = Append(<<>>, 0) /\ o2 = Append(o1, 10) /\ o3 = Append(o2, 1)
  OBVIOUS
<1>11. Reads(y, w1, y1, o1)
  BY <1>2, <1>3, <1>5, <1>6, <1>7, <1>9, <1>10, ReadsGives
<1>12. Reads(y, w2, y2, o2)
  BY <1>2, <1>3, <1>5, <1>6, <1>7, <1>11, <1>10, ReadsGives
<1>13. Reads(y, w3, y3, o3)
  BY <1>2, <1>3, <1>5, <1>6, <1>7, <1>12, <1>10, ReadsGives
<1>14. ~UnpadBytes(y, w4).ok
  BY <1>4, <1>5, <1>6, <1>7, <1>13, RefusedNow
<1> QED
  BY <1>8, <1>14, Zenon DEF Refuses

(* A frame of an unknown command is refused. *)
LEMMA StrangeRefused ==
    ASSUME NEW u, NEW w, w = Strange \o BuildResponseHeader
    PROVE  Refuses(LockedOn(u), w)
<1>1. PICK v : v = Strange
  OBVIOUS
<1>2. 0 \in Byte /\ 1 \in Byte /\ 3 \in Byte /\ 4 \in Byte /\ 10 \in Byte
  BY VlessAssumption DEF Byte
<1>3. v \in Seq(Byte) /\ Len(v) = 5 /\ v[1] = 3 /\ v[2] = 0 /\ v[3] = 4 /\ v[4] = 0 /\ v[5] = 0
  BY <1>1, <1>2 DEF Strange
<1>4. BuildResponseHeader \in Seq(Byte)
  BY <1>2 DEF BuildResponseHeader, VERSION, FlowTag
<1>5. PICK a, p4, h4 : Headful(u, v, a, p4, h4)
  <2>1. v \in Seq(Byte) /\ Len(v) >= 5
    BY <1>3
  <2> QED
    BY <2>1, HeaderAhead
<1>6. a = v
  <2>1. a = SubSeq(v, 1, 5) /\ a \in Seq(Byte)
    BY <1>5, Zenon DEF Headful
  <2> QED
    BY <1>3, <2>1
<1>7. PICK x, y : /\ x = Padded("Header", 0, 0, 0, h4, u)
                  /\ y = Padded("Content", 4, 3, 0, <<>>, u)
  OBVIOUS
<1>8. Reads(LockedOn(u), p4, x, <<>>) /\ a = Append(p4, v[5]) /\ p4 \in Seq(Byte)
  BY <1>5, <1>7, Zenon DEF Headful
<1>9. UnpadByte(x, v[5]) = Err("BadFrame") \/ UnpadByte(x, v[5]) = Ok(y)
  <2>1. Fills(<<v[1], v[2], v[3], v[4], v[5]>>, h4, v[5], Un16(v[2], v[3]), v[1], Un16(v[4], v[5]))
    BY <1>5, Zenon DEF Headful
  <2>2. Un16(v[2], v[3]) = 4 /\ Un16(v[4], v[5]) = 0
    BY <1>3, VlessAssumption DEF Un16
  <2>3. PICK g : Fills(g, h4, v[5], 4, 3, 0)
    BY <1>3, <2>1, <2>2, Zenon
  <2> QED
    BY <1>7, <2>3, ContentHeaderIs
<1>10. CASE UnpadByte(x, v[5]) = Err("BadFrame")
  <2>1. ~UnpadBytes(LockedOn(u), a).ok
    BY <1>2, <1>3, <1>8, <1>10, RefusedNow
  <2>2. Refuses(LockedOn(u), a)
    BY <2>1, Zenon DEF Refuses
  <2>3. Refuses(LockedOn(u), a \o BuildResponseHeader)
    BY <1>3, <1>4, <1>6, <2>2, RefusesMore
  <2> QED
    BY <1>1, <1>6, <2>3, Zenon
<1>11. CASE UnpadByte(x, v[5]) = Ok(y)
  <2>1. x.state = "Header"
    BY <1>7, PaddedState
  <2>2. PICK e : e = <<>>
    OBVIOUS
  <2>3. Reads(LockedOn(u), a, y, e)
    <3>1. Reads(LockedOn(u), p4, x, e) 
      BY <1>8, <2>2, Zenon
    <3> QED
      BY <1>2, <1>3, <1>8, <1>11, <2>1, <3>1, ReadsDrops
  <2>4. Refuses(y, BuildResponseHeader)
    BY <1>7, ContentRefused
  <2>5. e \in Seq(Byte)
    BY <2>2
  <2>6. Chained(LockedOn(u), a, y, e, BuildResponseHeader)
    BY <1>3, <1>4, <1>6, <2>3, <2>5, ReadsChain
  <2>7. Refuses(LockedOn(u), a \o BuildResponseHeader)
    BY <2>4, <2>6, Zenon DEF Chained
  <2> QED
    BY <1>1, <1>6, <2>7, Zenon
<1> QED
  BY <1>9, <1>10, <1>11
=============================================================================
