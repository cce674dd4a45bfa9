------------------------------ MODULE Hybi13Proofs ------------------------------
(***************************************************************************)
(* What the frame processor promises, for any frames, any limits and any   *)
(* cut of their bytes into reads: the messages it dispatches are those the *)
(* reference (Decoded) finds in the frames as wholes.                      *)
(*                                                                         *)
(* The argument: there are always a number k of complete frames and a      *)
(* number d of bytes of the next one (At) that account for the bytes       *)
(* processed, for what has been dispatched and for what consume() holds.   *)
(* A turn of the loop adds to d, or ends frame k + 1.  It needs that a     *)
(* field read in pieces is the field (slices), that the validator may be   *)
(* fed in pieces, and that what it rejects stays rejected, so that an      *)
(* error found early is an error of the whole frame.                       *)
(*                                                                         *)
(* Streams, traces and Decoded are recursive functions; that they are what *)
(* their definitions say is shown here, from the least-number principle.   *)
(***************************************************************************)
EXTENDS Hybi13, TLAPS, WellFoundedInduction, SequenceTheorems

-----------------------------------------------------------------------------
(* Induction and recursion over numbers.                                   *)

(* A nonempty set of numbers has a least one.                              *)
LEMMA Least ==
  ASSUME NEW T \in SUBSET Nat, T # {}
  PROVE  \E x \in T : \A y \in T : x <= y
<1> DEFINE R == OpToRel(<, Nat)
<1>1. IsWellFoundedOn(R, Nat)
  BY NatLessThanWellFounded
<1>2. \A x, y \in Nat : x < y => <<x, y>> \in R
  BY DEF OpToRel
<1> HIDE DEF R
<1>3. PICK x \in T : \A y \in T : ~(<<y, x>> \in R)
  BY <1>1, WFMin
<1>4. \A y \in T : ~ (y < x)
  BY <1>2, <1>3
<1>5. \A y \in T : x <= y
  BY <1>4
<1> QED
  BY <1>5

(* Induction over 0..m, for a property that is given as a set.             *)
LEMMA Induct ==
  ASSUME NEW S \in SUBSET Nat, NEW m \in Nat, 0 \in S,
         \A n \in 0..m-1 : n \in S => n + 1 \in S
  PROVE  0..m \subseteq S
<1> SUFFICES ASSUME ~(0..m \subseteq S) PROVE FALSE
  OBVIOUS
<1> DEFINE T == 0..m \ S
<1>1. T \in SUBSET Nat /\ T # {}
  OBVIOUS
<1> HIDE DEF T
<1>2. PICK x \in T : \A y \in T : x <= y
  BY <1>1, Least
<1>3. x \in 0..m /\ x \notin S
  BY DEF T
<1>4. x # 0 /\ x - 1 \in 0..m-1
  BY <1>3
<1>5. x - 1 \in S
  BY <1>2, <1>4 DEF T
<1> QED
  BY <1>3, <1>4, <1>5

(* f is the iteration of g from e, m times; g also takes the number of the *)
(* step.                                                                   *)
Iterates(f, m, e, g) ==
  f[0] = e /\ \A n \in 1..m : f[n] = g[<<f[n - 1], n>>]

(* There is a function on 0..m defined by recursion, with g the step.      *)
LEMMA Recursion ==
  ASSUME NEW X, NEW m \in Nat, NEW e \in X, NEW g \in [X \X (1..m) -> X]
  PROVE  \E f \in [0..m -> X] : Iterates(f, m, e, g)
<1> DEFINE S == {k \in 0..m : \E f \in [0..k -> X] : Iterates(f, k, e, g)}
<1>1. 0 \in S
  <2>1. [n \in 0..0 |-> e] \in [0..0 -> X] /\ Iterates([n \in 0..0 |-> e], 0, e, g)
    BY DEF Iterates
  <2> QED
    BY <2>1
<1>2. \A k \in 0..m-1 : k \in S => k + 1 \in S
  <2> TAKE k \in 0..m-1
  <2> HAVE k \in S
  <2>1. PICK f \in [0..k -> X] : Iterates(f, k, e, g)
    OBVIOUS
  <2> DEFINE h == [n \in 0..k+1 |-> IF n = k + 1 THEN g[<<f[k], k + 1>>] ELSE f[n]]
  <2>2. g[<<f[k], k + 1>>] \in X
    OBVIOUS
  <2>3. h \in [0..k+1 -> X]
    BY <2>2
  <2>4. Iterates(h, k + 1, e, g)
    <3>1. h[0] = e
      BY <2>1 DEF Iterates
    <3>2. ASSUME NEW n \in 1..k+1 PROVE h[n] = g[<<h[n - 1], n>>]
      <4>1. n - 1 \in 0..k+1 /\ n - 1 # k + 1 /\ h[n - 1] = f[n - 1]
        OBVIOUS
      <4>2. CASE n = k + 1
        BY <4>1, <4>2
      <4>3. CASE n # k + 1
        <5>1. n \in 1..k
          BY <4>3
        <5>2. h[n] = f[n]
          BY <4>3, <5>1
        <5> HIDE DEF h
        <5> QED
          BY <2>1, <4>1, <5>1, <5>2 DEF Iterates
      <4> QED
        BY <4>2, <4>3
    <3> QED
      BY <3>1, <3>2 DEF Iterates
  <2> QED
    BY <2>3, <2>4
<1> HIDE DEF S
<1>3. m \in S
  <2>1. S \in SUBSET Nat
    BY DEF S
  <2> QED
  BY <1>1, <1>2, <2>1, Induct
<1> QED
  BY <1>3 DEF S


-----------------------------------------------------------------------------
(* Sequences.  u is s, then t.                                             *)
Joins(u, s, t) ==
  /\ Len(s) \in Nat /\ Len(t) \in Nat /\ Len(u) = Len(s) + Len(t)
  /\ \A i \in 1..Len(s) : u[i] = s[i]
  /\ \A i \in 1..Len(t) : u[Len(s) + i] = t[i]

LEMMA ConcatParts ==
  ASSUME NEW S, NEW s \in Seq(S), NEW t \in Seq(S)
  PROVE  s \o t \in Seq(S) /\ Joins(s \o t, s, t)
<1>1. /\ s \o t \in Seq(S) /\ Len(s) \in Nat /\ Len(t) \in Nat
      /\ Len(s \o t) = Len(s) + Len(t)
      /\ \A i \in 1 .. Len(s) + Len(t) :
           (s \o t)[i] = IF i <= Len(s) THEN s[i] ELSE t[i - Len(s)]
  BY ConcatProperties, LenProperties
<1>2. ASSUME NEW i \in 1..Len(s) PROVE (s \o t)[i] = s[i]
  BY <1>1
<1>3. ASSUME NEW i \in 1..Len(t) PROVE (s \o t)[Len(s) + i] = t[i]
  <2>1. Len(s) + i \in 1..Len(s) + Len(t) /\ ~(Len(s) + i <= Len(s)) /\ (Len(s) + i) - Len(s) = i
    BY <1>1
  <2> DEFINE j == Len(s) + i
  <2>2. j \in 1..Len(s) + Len(t) /\ ~(j <= Len(s)) /\ j - Len(s) = i
    BY <2>1
  <2> HIDE DEF j
  <2>3. (s \o t)[j] = t[i]
    BY <1>1, <2>2
  <2> QED
    BY <2>3 DEF j
<1> QED
  BY <1>1, <1>2, <1>3 DEF Joins

-----------------------------------------------------------------------------
(* Frames and the stream of their bytes.                                   *)
Chars == {"a", "lead", "tail"}
Byte == [op : Ops, fin : BOOLEAN] \cup Nat \cup Chars

HeaderLen(f) == IF f.long THEN 4 ELSE 2
SizeCode(f) == IF f.long THEN Code16 ELSE Len(f.payload)

(* Where the fields of a frame are among its bytes.                        *)
LEMMA BytesParts ==
  ASSUME NEW f \in Frames
  PROVE  /\ Bytes(f) \in Seq(Byte)
         /\ HeaderLen(f) \in {2, 4} /\ Len(f.payload) \in Nat
         /\ Len(Bytes(f)) = HeaderLen(f) + Len(f.payload)
         /\ Bytes(f)[1] = [op |-> f.op, fin |-> f.fin] /\ Bytes(f)[2] = SizeCode(f)
         /\ f.long => Bytes(f)[4] = Len(f.payload)
         /\ \A i \in 1..Len(f.payload) : Bytes(f)[HeaderLen(f) + i] = f.payload[i]
<1> DEFINE h == <<[op |-> f.op, fin |-> f.fin], SizeCode(f)>>
           x == IF f.long THEN <<0, Len(f.payload)>> ELSE <<>>
<1>1. h \in Seq(Byte) /\ Len(h) = 2 /\ h[1] = [op |-> f.op, fin |-> f.fin] /\ h[2] = SizeCode(f)
  BY FramesAssumption DEF Byte, Frames, Code16, SizeCode
<1>2. f.payload \in Seq(Byte) /\ Len(f.payload) \in Nat
  BY DEF Frames, Byte, Chars
<1>3. x \in Seq(Byte) /\ Len(x) = HeaderLen(f) - 2 /\ (f.long => x[2] = Len(f.payload) /\ Len(x) = 2)
  <2>1. CASE f.long
    <3>1. <<0, Len(f.payload)>> \in Seq(Byte)
      BY <1>2 DEF Byte
    <3> QED
      BY <2>1, <3>1 DEF HeaderLen
  <2>2. CASE ~f.long
    BY <2>2 DEF HeaderLen
  <2> QED
    BY <2>1, <2>2
<1>4. Bytes(f) = (h \o x) \o f.payload
  BY DEF Bytes, SizeCode
<1>5. HeaderLen(f) \in {2, 4}
  BY DEF HeaderLen
<1> HIDE DEF h, x, Byte
<1> DEFINE hx == h \o x
<1>6. /\ hx \in Seq(Byte) /\ Len(hx) = Len(h) + Len(x) /\ Len(x) \in Nat
      /\ \A i \in 1..Len(h) : hx[i] = h[i]
      /\ \A i \in 1..Len(x) : hx[Len(h) + i] = x[i]
  <2>1. hx \in Seq(Byte) /\ Joins(hx, h, x)
    BY <1>1, <1>3, ConcatParts
  <2> HIDE DEF hx
  <2> QED
    BY <2>1 DEF Joins
<1>7. Len(hx) = HeaderLen(f) /\ hx[1] = h[1] /\ hx[2] = h[2] /\ (f.long => hx[4] = x[2])
  <2> HIDE DEF hx
  <2>1. 1 \in 1..Len(h) /\ 2 \in 1..Len(h) /\ (f.long => 2 \in 1..Len(x)) /\ Len(h) + 2 = 4
    BY <1>1, <1>3
  <2>2. f.long => hx[Len(h) + 2] = x[2]
    BY <1>6, <2>1
  <2> HIDE DEF hx
  <2> QED
    BY <1>1, <1>3, <1>5, <1>6, <2>1, <2>2
<1> HIDE DEF hx
<1>8. /\ Bytes(f) \in Seq(Byte) /\ Len(Bytes(f)) = Len(hx) + Len(f.payload)
      /\ \A i \in 1..Len(hx) : Bytes(f)[i] = hx[i]
      /\ \A i \in 1..Len(f.payload) : Bytes(f)[Len(hx) + i] = f.payload[i]
  <2>1. Bytes(f) = hx \o f.payload
    BY <1>4 DEF hx
  <2>2. Bytes(f) \in Seq(Byte) /\ Joins(Bytes(f), hx, f.payload)
    BY <1>2, <1>6, <2>1, ConcatParts
  <2> HIDE DEF hx
  <2> QED
    BY <2>1, <2>2 DEF Joins
<1>9. 1 \in 1..Len(hx) /\ 2 \in 1..Len(hx) /\ (f.long => 4 \in 1..Len(hx))
  BY <1>5, <1>7 DEF HeaderLen
<1> QED
  BY <1>1, <1>2, <1>3, <1>5, <1>7, <1>8, <1>9

(* StreamOf is what its recursive definition says.                         *)
LEMMA StreamRec ==
  ASSUME NEW fs \in [1..MaxFrames -> Inputs]
  PROVE  /\ StreamOf(fs) \in [0..MaxFrames -> Seq(Byte)]
         /\ StreamOf(fs)[0] = <<>>
         /\ \A n \in 0..MaxFrames-1 : /\ fs[n + 1] \in Frames
                                      /\ StreamOf(fs)[n + 1] = StreamOf(fs)[n] \o Bytes(fs[n + 1])
<1> DEFINE X == Seq(Byte)
           g == [p \in X \X (1..MaxFrames) |-> p[1] \o Bytes(fs[p[2]])]
           st == StreamOf(fs)
           S == {k \in 0..MaxFrames : st[k] \in X}
<1>1. \A n \in 1..MaxFrames : Bytes(fs[n]) \in X /\ fs[n] \in Frames
  BY BytesParts, FramesAssumption
<1>2. g \in [X \X (1..MaxFrames) -> X]
  BY <1>1
<1>3. <<>> \in X
  OBVIOUS
<1>4. PICK f \in [0..MaxFrames -> X] : Iterates(f, MaxFrames, <<>>, g)
  <2> HIDE DEF X, g
  <2> QED
    BY <1>2, <1>3, Recursion, FramesAssumption
<1>5. f = [n \in 0..MaxFrames |-> IF n = 0 THEN <<>> ELSE f[n - 1] \o Bytes(fs[n])]
  <2>1. \A n \in 1..MaxFrames : f[n] = f[n - 1] \o Bytes(fs[n])
    <3> TAKE n \in 1..MaxFrames
    <3>1. f[n] = g[<<f[n - 1], n>>]
      BY <1>4 DEF Iterates
    <3>2. n - 1 \in 0..MaxFrames
      BY FramesAssumption
    <3>3. f[n - 1] \in X
      BY <3>2
    <3> HIDE DEF X
    <3> QED
      BY <3>1, <3>3
  <2>2. f[0] = <<>>
    BY <1>4 DEF Iterates
  <2> HIDE DEF X, g
  <2>3. ASSUME NEW n \in 0..MaxFrames PROVE f[n] = IF n = 0 THEN <<>> ELSE f[n - 1] \o Bytes(fs[n])
    <3>1. n # 0 => n \in 1..MaxFrames
      BY FramesAssumption
    <3> QED
      BY <2>1, <2>2, <3>1
  <2> QED
    BY <2>3
<1>6. st = [n \in 0..MaxFrames |-> IF n = 0 THEN <<>> ELSE st[n - 1] \o Bytes(fs[n])]
  <2> HIDE DEF X, g
  <2> QED
    BY <1>5 DEF StreamOf
<1>7. \A k \in 0..MaxFrames-1 : st[k + 1] = st[k] \o Bytes(fs[k + 1])
  <2> TAKE k \in 0..MaxFrames-1
  <2> DEFINE n == k + 1
  <2>1. n \in 0..MaxFrames /\ n # 0 /\ n - 1 = k
    BY FramesAssumption
  <2> HIDE DEF n, st, X, g
  <2>2. st[n] = st[k] \o Bytes(fs[n])
    BY <1>6, <2>1
  <2> QED
    BY <2>2 DEF n
<1>8. st[0] = <<>> /\ st = [n \in 0..MaxFrames |-> st[n]]
  BY <1>6, FramesAssumption
<1> HIDE DEF g, st, X
<1>9. \A k \in 0..MaxFrames-1 : k + 1 \in 1..MaxFrames /\ (k \in S => k + 1 \in S)
  <2> TAKE k \in 0..MaxFrames-1
  <2>1. k + 1 \in 1..MaxFrames /\ k + 1 \in 0..MaxFrames
    BY FramesAssumption
  <2>2. st[k] \in X => st[k + 1] \in X
    <3>1. Bytes(fs[k + 1]) \in Seq(Byte)
      BY <1>1, <2>1 DEF X
    <3> QED
      BY <1>7, <3>1, ConcatParts DEF X
  <2> QED
    BY <2>1, <2>2
<1>10. 0 \in S /\ S \in SUBSET Nat
  BY <1>3, <1>8, FramesAssumption
<1>11. \A k \in 0..MaxFrames : k \in S
  <2> HIDE DEF S
  <2> QED
    BY <1>9, <1>10, Induct, FramesAssumption
<1> QED
  BY <1>1, <1>7, <1>8, <1>9, <1>11 DEF st, X

LEMMA StreamLen ==
  ASSUME NEW fs \in [1..MaxFrames -> Inputs], NEW k \in 0..MaxFrames-1
  PROVE  /\ Len(StreamOf(fs)[k]) \in Nat /\ Len(StreamOf(fs)[k + 1]) \in Nat
         /\ Len(Bytes(fs[k + 1])) \in Nat /\ Len(Bytes(fs[k + 1])) >= 2
         /\ Len(StreamOf(fs)[k + 1]) = Len(StreamOf(fs)[k]) + Len(Bytes(fs[k + 1]))
<1>1. k \in 0..MaxFrames
  BY FramesAssumption
<1>2. StreamOf(fs)[k] \in Seq(Byte) /\ fs[k + 1] \in Frames
      /\ StreamOf(fs)[k + 1] = StreamOf(fs)[k] \o Bytes(fs[k + 1])
  BY <1>1, StreamRec
<1>3. Bytes(fs[k + 1]) \in Seq(Byte) /\ Len(Bytes(fs[k + 1])) \in Nat /\ Len(Bytes(fs[k + 1])) >= 2
  <2> DEFINE f == fs[k + 1]
  <2> HIDE DEF f
  <2>1. f \in Frames
    BY <1>2 DEF f
  <2>2. /\ Bytes(f) \in Seq(Byte) /\ HeaderLen(f) \in {2, 4} /\ Len(f.payload) \in Nat
        /\ Len(Bytes(f)) = HeaderLen(f) + Len(f.payload)
    BY <2>1, BytesParts, Zenon
  <2>3. Len(Bytes(f)) \in Nat /\ Len(Bytes(f)) >= 2
    BY <2>2
  <2> QED
    BY <2>2, <2>3 DEF f
<1>4. /\ Len(StreamOf(fs)[k]) \in Nat
      /\ Len(StreamOf(fs)[k + 1]) = Len(StreamOf(fs)[k]) + Len(Bytes(fs[k + 1]))
  BY <1>2, <1>3, ConcatParts DEF Joins
<1> DEFINE x == Len(StreamOf(fs)[k])
           y == Len(StreamOf(fs)[k + 1])
           z == Len(Bytes(fs[k + 1]))
<1>5. y \in Nat
  <2>1. x \in Nat /\ z \in Nat /\ y = x + z
    BY <1>3, <1>4
  <2> HIDE DEF x, y, z
  <2> QED
    BY <2>1
<1> QED
  BY <1>3, <1>4, <1>5

(* More frames are more bytes.                                             *)
LEMMA StreamMono ==
  ASSUME NEW fs \in [1..MaxFrames -> Inputs], NEW j \in 0..MaxFrames, NEW i \in 0..j
  PROVE  /\ Len(StreamOf(fs)[i]) \in Nat /\ Len(StreamOf(fs)[j]) \in Nat
         /\ Len(StreamOf(fs)[i]) <= Len(StreamOf(fs)[j])
         /\ i < j => Len(StreamOf(fs)[i]) < Len(StreamOf(fs)[j])
<1> DEFINE L(n) == Len(StreamOf(fs)[n])
           S == {n \in 0..MaxFrames : \A m \in 0..n : m < n => L(m) < L(n)}
<1>1. \A n \in 0..MaxFrames : L(n) \in Nat
  BY StreamRec
<1>2. ASSUME NEW n \in 0..MaxFrames-1 PROVE L(n) < L(n + 1)
  <2>1. /\ L(n) \in Nat /\ Len(Bytes(fs[n + 1])) \in Nat /\ Len(Bytes(fs[n + 1])) >= 2
        /\ L(n + 1) = L(n) + Len(Bytes(fs[n + 1]))
    BY StreamLen
  <2> HIDE DEF L
  <2> QED
    BY <2>1
<1> HIDE DEF L
<1>3. 0 \in S /\ S \in SUBSET Nat
  BY FramesAssumption
<1>4. \A n \in 0..MaxFrames-1 : n \in S => n + 1 \in S
  <2> TAKE n \in 0..MaxFrames-1
  <2> HAVE n \in S
  <2>1. n + 1 \in 0..MaxFrames /\ n \in 0..MaxFrames
    BY FramesAssumption
  <2>2. ASSUME NEW m \in 0..n+1, m < n + 1 PROVE L(m) < L(n + 1)
    <3>1. m \in 0..n /\ (m = n \/ m < n)
      BY <2>2
    <3>2. m \in 0..MaxFrames
      BY <3>1, FramesAssumption
    <3>3. m = n \/ L(m) < L(n)
      BY <3>1
    <3>4. L(n) < L(n + 1) /\ L(n) \in Nat /\ L(m) \in Nat /\ L(n + 1) \in Nat
      BY <1>1, <1>2, <2>1, <3>2
    <3> QED
      BY <3>3, <3>4
  <2> QED
    BY <2>1, <2>2
<1>5. j \in S
  <2> HIDE DEF S
  <2> QED
    BY <1>3, <1>4, Induct, FramesAssumption
<1>6. L(i) \in Nat /\ L(j) \in Nat /\ (i < j => L(i) < L(j))
  <2>1. i \in 0..MaxFrames
    BY FramesAssumption
  <2> QED
    BY <1>1, <1>5, <2>1
<1>7. i = j \/ i < j
  OBVIOUS
<1>8. L(i) <= L(j)
  BY <1>6, <1>7
<1> QED
  BY <1>6, <1>8 DEF L

(* The bytes of a frame are in the whole stream after those of the frames  *)
(* before it.                                                              *)
LEMMA StreamAt ==
  ASSUME NEW fs \in [1..MaxFrames -> Inputs], NEW k \in 0..MaxFrames-1,
         NEW i \in 1..Len(Bytes(fs[k + 1]))
  PROVE  StreamOf(fs)[MaxFrames][Len(StreamOf(fs)[k]) + i] = Bytes(fs[k + 1])[i]
<1> DEFINE st == StreamOf(fs)
           p == Len(st[k]) + i
           S == {n \in Nat : k + 1 + n <= MaxFrames => st[k + 1 + n][p] = Bytes(fs[k + 1])[i]}
<1>1. k \in 0..MaxFrames /\ k + 1 \in 0..MaxFrames /\ MaxFrames - (k + 1) \in Nat
  BY FramesAssumption
<1>2. st[k] \in Seq(Byte) /\ fs[k + 1] \in Frames /\ st[k + 1] = st[k] \o Bytes(fs[k + 1])
  BY <1>1, StreamRec
<1>3. Bytes(fs[k + 1]) \in Seq(Byte)
  BY <1>2, BytesParts
<1>4. p \in 1..Len(st[k + 1]) /\ st[k + 1][p] = Bytes(fs[k + 1])[i] /\ p \in Nat
  <2>1. /\ Len(st[k]) \in Nat /\ Len(Bytes(fs[k + 1])) \in Nat
        /\ Len(st[k + 1]) = Len(st[k]) + Len(Bytes(fs[k + 1]))
        /\ st[k + 1][Len(st[k]) + i] = Bytes(fs[k + 1])[i]
    <3> HIDE DEF st
    <3> DEFINE b == Bytes(fs[k + 1])
    <3>1. Joins(st[k + 1], st[k], b)
      BY <1>2, <1>3, ConcatParts
    <3> QED
      BY <3>1 DEF Joins
  <2> HIDE DEF st
  <2> DEFINE x == Len(st[k])
             y == Len(st[k + 1])
             z == Len(Bytes(fs[k + 1]))
  <2>2. x \in Nat /\ z \in Nat /\ y = x + z /\ i \in 1..z /\ p = x + i
    BY <2>1
  <2>3. st[k + 1][p] = Bytes(fs[k + 1])[i]
    BY <2>1
  <2> HIDE DEF x, y, z, p
  <2>4. p \in 1..y /\ p \in Nat
    BY <2>2
  <2> QED
    BY <2>3, <2>4 DEF y
<1>5. 0 \in S /\ S \in SUBSET Nat
  BY <1>4, <1>1
<1>6. \A n \in 0..(MaxFrames - (k + 1))-1 : n \in S => n + 1 \in S
  <2> TAKE n \in 0..(MaxFrames - (k + 1))-1
  <2> HAVE n \in S
  <2> DEFINE m == k + 1 + n
  <2>1. m \in 0..MaxFrames-1 /\ m \in 0..MaxFrames /\ k + 1 \in 0..m /\ k + 1 + (n + 1) = m + 1
    BY <1>1, FramesAssumption
  <2>2. st[m + 1] = st[m] \o Bytes(fs[m + 1]) /\ st[m] \in Seq(Byte) /\ fs[m + 1] \in Frames
    BY <2>1, StreamRec
  <2>3. Bytes(fs[m + 1]) \in Seq(Byte)
    BY <2>2, BytesParts
  <2>4. Len(st[k + 1]) <= Len(st[m]) /\ Len(st[k + 1]) \in Nat
    BY <2>1, StreamMono
  <2>5. st[m][p] = Bytes(fs[k + 1])[i]
    BY <2>1
  <2>6. p \in 1..Len(st[m])
    BY <1>4, <2>2, <2>4
  <2>7. st[m + 1][p] = st[m][p]
    <3> HIDE DEF st, p, m
    <3> QED
      <4>1. Joins(st[m + 1], st[m], Bytes(fs[m + 1]))
        BY <2>2, <2>3, ConcatParts
      <4> QED
        BY <2>6, <4>1 DEF Joins
  <2> QED
    BY <2>1, <2>5, <2>7
<1>7. MaxFrames - (k + 1) \in S
  <2>1. MaxFrames - (k + 1) \in 0..(MaxFrames - (k + 1))
    BY <1>1
  <2> HIDE DEF S
  <2> QED
    BY <1>1, <1>5, <1>6, <2>1, Induct
<1> QED
  BY <1>7, FramesAssumption

(* u is the c elements of s after the first a.                             *)
Slice(u, s, a, c) == Len(u) = c /\ \A i \in 1..c : u[i] = s[a + i]

LEMMA SliceIs ==
  ASSUME NEW S, NEW s \in Seq(S), NEW a \in Nat, NEW c \in Nat, a + c <= Len(s)
  PROVE  SubSeq(s, a + 1, a + c) \in Seq(S) /\ Slice(SubSeq(s, a + 1, a + c), s, a, c)
<1> DEFINE m == a + 1
           n == a + c
           u == SubSeq(s, m, n)
           l == Len(s)
<1>1. \A i \in 1..l : s[i] \in S
  BY ElementOfSeq
<1>2. l \in Nat /\ n <= l
  BY LenProperties
<1>3. m \in Int /\ n \in Int /\ m <= n + 1 /\ n - m + 1 = c /\ (m <= n <=> c # 0)
  OBVIOUS
<1>4. \A i \in m..n : s[i] \in S
  <2> TAKE i \in m..n
  <2>1. i \in 1..l
    BY <1>2
  <2> QED
    BY <1>1, <2>1
<1>5. \A i \in 1..c : m + i - 1 = a + i
  OBVIOUS
<1> HIDE DEF m, n, l
<1>6. /\ u \in Seq(S) /\ Len(u) = (IF m <= n THEN n - m + 1 ELSE 0)
      /\ \A i \in 1..n - m + 1 : u[i] = s[m + i - 1]
  BY <1>3, <1>4, SubSeqProperties
<1> HIDE DEF u
<1>7. Len(u) = c
  BY <1>3, <1>6
<1>8. \A i \in 1..c : u[i] = s[a + i]
  BY <1>3, <1>5, <1>6
<1> QED
  BY <1>6, <1>7, <1>8 DEF Slice, u, m, n

LEMMA SliceUnique ==
  ASSUME NEW S, NEW u \in Seq(S), NEW v \in Seq(S), NEW c \in Nat, Len(u) = c, Len(v) = c,
         \A i \in 1..c : u[i] = v[i]
  PROVE  u = v
BY SeqEqual

(* Adjacent slices join: a field that is read in pieces is read whole.     *)
LEMMA SliceGrows ==
  ASSUME NEW S, NEW s \in Seq(S), NEW m \in Nat \ {0}, NEW a \in Nat, NEW c \in Nat,
         m <= a + 1, a + c <= Len(s)
  PROVE  SubSeq(s, m, a) \o SubSeq(s, a + 1, a + c) = SubSeq(s, m, a + c)
<1> DEFINE l == Len(s)
<1>1. l \in Nat
  BY LenProperties
<1>2. m \in 1..l+1 /\ a \in m-1..l /\ a + c \in a..l
  BY <1>1
<1> HIDE DEF l
<1> QED
  BY <1>2, ConcatAdjacentSubSeq DEF l

(* What the basic header, the extended header and a piece of the payload   *)
(* say, once their bytes are there.                                        *)
LEMMA HeaderSlice ==
  ASSUME NEW f \in Frames
  PROVE  /\ Len(SubSeq(Bytes(f), 1, 2)) = 2
         /\ SubSeq(Bytes(f), 1, 2)[1] = [op |-> f.op, fin |-> f.fin]
         /\ SubSeq(Bytes(f), 1, 2)[2] = SizeCode(f)
<1> DEFINE b == Bytes(f)
<1>1. b \in Seq(Byte) /\ 0 + 2 <= Len(b) /\ b[1] = [op |-> f.op, fin |-> f.fin] /\ b[2] = SizeCode(f)
  <2> DEFINE l == Len(f.payload)
             h == HeaderLen(f)
             z == Len(b)
  <2>1. b \in Seq(Byte) /\ h \in {2, 4} /\ l \in Nat /\ z = h + l
        /\ b[1] = [op |-> f.op, fin |-> f.fin] /\ b[2] = SizeCode(f)
    BY BytesParts
  <2> HIDE DEF l, h, z
  <2>2. 0 + 2 <= z
    BY <2>1
  <2> QED
    BY <2>1, <2>2 DEF z
<1> HIDE DEF b
<1>2. Slice(SubSeq(b, 0 + 1, 0 + 2), b, 0, 2)
  BY <1>1, SliceIs
<1>3. Slice(SubSeq(b, 1, 2), b, 0, 2)
  BY <1>2
<1> QED
  BY <1>1, <1>3 DEF Slice, b

LEMMA SizeSlice ==
  ASSUME NEW f \in Frames, f.long
  PROVE  SubSeq(Bytes(f), 3, 4)[2] = Len(f.payload)
<1> DEFINE b == Bytes(f)
<1>1. b \in Seq(Byte) /\ 2 + 2 <= Len(b) /\ b[4] = Len(f.payload)
  <2> DEFINE l == Len(f.payload)
             z == Len(b)
  <2>1. b \in Seq(Byte) /\ l \in Nat /\ z = 4 + l /\ b[4] = l
    BY BytesParts DEF HeaderLen
  <2> HIDE DEF l, z
  <2>2. 2 + 2 <= z
    BY <2>1
  <2> QED
    BY <2>1, <2>2 DEF z, l
<1> HIDE DEF b
<1>2. Slice(SubSeq(b, 2 + 1, 2 + 2), b, 2, 2)
  BY <1>1, SliceIs
<1>3. Slice(SubSeq(b, 3, 4), b, 2, 2)
  BY <1>2
<1>4. SubSeq(b, 3, 4)[2] = b[2 + 2]
  BY <1>3 DEF Slice
<1> QED
  BY <1>1, <1>4 DEF b

LEMMA PayloadSlice ==
  ASSUME NEW f \in Frames, NEW j \in Nat, NEW c \in Nat, j + c <= Len(f.payload)
  PROVE  SubSeq(Bytes(f), HeaderLen(f) + j + 1, HeaderLen(f) + j + c) = SubSeq(f.payload, j + 1, j + c)
<1> DEFINE b == Bytes(f)
           p == f.payload
           l == Len(p)
           h == HeaderLen(f)
           z == Len(b)
           a == h + j
<1>1. /\ b \in Seq(Byte) /\ h \in {2, 4} /\ l \in Nat /\ z = h + l /\ j + c <= l
      /\ \A i \in 1..l : b[h + i] = p[i]
  BY BytesParts
<1>2. p \in Seq(Byte)
  BY DEF Frames, Byte, Chars
<1> HIDE DEF b, p, l, h, z
<1>3. a \in Nat /\ a + c <= z
  BY <1>1
<1>4. \A i \in 1..c : j + i \in 1..l /\ a + i = h + (j + i)
  BY <1>1
<1> HIDE DEF a
<1>5. SubSeq(b, a + 1, a + c) \in Seq(Byte) /\ Slice(SubSeq(b, a + 1, a + c), b, a, c)
  BY <1>1, <1>3, SliceIs DEF z
<1>6. SubSeq(p, j + 1, j + c) \in Seq(Byte) /\ Slice(SubSeq(p, j + 1, j + c), p, j, c)
  BY <1>1, <1>2, SliceIs DEF l
<1>7. \A i \in 1..c : b[a + i] = p[j + i]
  BY <1>1, <1>4
<1>8. SubSeq(b, a + 1, a + c) = SubSeq(p, j + 1, j + c)
  BY <1>5, <1>6, <1>7, SliceUnique DEF Slice
<1> QED
  BY <1>8 DEF a, b, p, h

(* The next n bytes to process are bytes of the frame they belong to.      *)
LEMMA UpcomingIs ==
  ASSUME frames \in [1..MaxFrames -> Inputs], NEW k \in 0..MaxFrames-1, NEW d \in Nat, NEW n \in Nat,
         pos = BytesIn(k) + d, d + n <= Len(Bytes(frames[k + 1]))
  PROVE  Upcoming(n) = SubSeq(Bytes(frames[k + 1]), d + 1, d + n)
<1> DEFINE s == Stream
           b == Bytes(frames[k + 1])
           x == BytesIn(k)
           y == BytesIn(k + 1)
           z == Len(b)
           a == x + d
<1>1. x \in Nat /\ y = x + z /\ z \in Nat /\ d + n <= z
  BY StreamLen DEF BytesIn
<1>2. y <= Len(s) /\ s \in Seq(Byte) /\ y \in Nat /\ Len(s) \in Nat
  <2>1. k + 1 \in 0..MaxFrames /\ MaxFrames \in 0..MaxFrames
    BY FramesAssumption
  <2> QED
    BY <2>1, StreamMono, StreamRec DEF BytesIn, Stream
<1>3. b \in Seq(Byte)
  BY StreamRec, BytesParts
<1>4. \A i \in 1..z : s[x + i] = b[i]
  BY StreamAt DEF Stream, BytesIn
<1>5. pos = a
  OBVIOUS
<1> HIDE DEF s, b, x, y, z
<1>6. a \in Nat /\ a + n <= y /\ \A i \in 1..n : d + i \in 1..z /\ a + i = x + (d + i)
  BY <1>1
<1> HIDE DEF a
<1>7. a + n <= Len(s)
  BY <1>2, <1>6
<1>8. SubSeq(s, a + 1, a + n) \in Seq(Byte) /\ Slice(SubSeq(s, a + 1, a + n), s, a, n)
  BY <1>2, <1>6, <1>7, SliceIs
<1>9. SubSeq(b, d + 1, d + n) \in Seq(Byte) /\ Slice(SubSeq(b, d + 1, d + n), b, d, n)
  BY <1>1, <1>3, SliceIs DEF z
<1>10. \A i \in 1..n : s[a + i] = b[d + i]
  BY <1>4, <1>6
<1>11. SubSeq(s, a + 1, a + n) = SubSeq(b, d + 1, d + n)
  BY <1>8, <1>9, <1>10, SliceUnique DEF Slice
<1> QED
  BY <1>5, <1>11 DEF Upcoming, s, b

-----------------------------------------------------------------------------
(* The validator of UTF-8.                                                 *)
States == {"accept", "more", "reject"}

(* One turn of decode(): the state after one more byte. *)
Decode(u, ch) ==
  CASE u = "accept" /\ ch = "a"    -> "accept"
    [] u = "accept" /\ ch = "lead" -> "more"
    [] u = "more" /\ ch = "tail"   -> "accept"
    [] OTHER -> "reject"

(* The states of the validator over bytes, which it enters in u. *)
Trace(u, bytes) ==
  LET state[n \in 0..Len(bytes)] ==
        IF n = 0 THEN u
        ELSE CASE state[n - 1] = "accept" /\ bytes[n] = "a"    -> "accept"
               [] state[n - 1] = "accept" /\ bytes[n] = "lead" -> "more"
               [] state[n - 1] = "more" /\ bytes[n] = "tail"   -> "accept"
               [] OTHER -> "reject"
  IN state

LEMMA DecodeType == \A u, ch : Decode(u, ch) \in States
BY DEF Decode, States

(* Validated is the last state of the trace, which runs byte by byte.      *)
LEMMA TraceRec ==
  ASSUME NEW u \in States, NEW bytes, Len(bytes) \in Nat
  PROVE  /\ Trace(u, bytes) \in [0..Len(bytes) -> States]
         /\ Trace(u, bytes)[0] = u
         /\ \A n \in 0..Len(bytes)-1 : Trace(u, bytes)[n + 1] = Decode(Trace(u, bytes)[n], bytes[n + 1])
         /\ Validated(u, bytes) = Trace(u, bytes)[Len(bytes)]
<1> DEFINE m == Len(bytes)
           g == [p \in States \X (1..m) |-> Decode(p[1], bytes[p[2]])]
           st == Trace(u, bytes)
<1>1. g \in [States \X (1..m) -> States]
  BY DecodeType
<1>2. PICK f \in [0..m -> States] : Iterates(f, m, u, g)
  <2> HIDE DEF m, g
  <2> QED
    BY <1>1, Recursion DEF m
<1>3. f = [n \in 0..m |-> IF n = 0 THEN u ELSE Decode(f[n - 1], bytes[n])]
  <2>1. ASSUME NEW n \in 0..m, n # 0 PROVE f[n] = Decode(f[n - 1], bytes[n])
    <3> HIDE DEF m
    <3>1. n \in 1..m /\ n - 1 \in 0..m
      BY <2>1 DEF m
    <3>2. f[n] = g[<<f[n - 1], n>>]
      BY <1>2, <3>1 DEF Iterates
    <3> QED
      BY <3>1, <3>2
  <2>2. f[0] = u
    BY <1>2 DEF Iterates
  <2> HIDE DEF g, m
  <2> QED
    BY <2>1, <2>2
<1>4. f = [n \in 0..m |->
        IF n = 0 THEN u
        ELSE CASE f[n - 1] = "accept" /\ bytes[n] = "a"    -> "accept"
               [] f[n - 1] = "accept" /\ bytes[n] = "lead" -> "more"
               [] f[n - 1] = "more" /\ bytes[n] = "tail"   -> "accept"
               [] OTHER -> "reject"]
  BY <1>3 DEF Decode
<1>5. st = [n \in 0..m |->
        IF n = 0 THEN u
        ELSE CASE st[n - 1] = "accept" /\ bytes[n] = "a"    -> "accept"
               [] st[n - 1] = "accept" /\ bytes[n] = "lead" -> "more"
               [] st[n - 1] = "more" /\ bytes[n] = "tail"   -> "accept"
               [] OTHER -> "reject"]
  BY <1>4 DEF Trace
<1>6. st = [n \in 0..m |-> IF n = 0 THEN u ELSE Decode(st[n - 1], bytes[n])]
  BY <1>5 DEF Decode
<1> HIDE DEF st, g, m
<1>7. \A n \in 0..m-1 : st[n + 1] = Decode(st[n], bytes[n + 1])
  <2> TAKE n \in 0..m-1
  <2> DEFINE i == n + 1
  <2>1. i \in 0..m /\ i # 0 /\ i - 1 = n
    BY DEF m
  <2> HIDE DEF i
  <2>2. st[i] = Decode(st[n], bytes[i])
    BY <1>6, <2>1
  <2> QED
    BY <2>2 DEF i
<1>8. st[0] = u
  BY <1>6 DEF m
<1>9. st \in [0..m -> States]
  BY <1>6, DecodeType
<1>10. Validated(u, bytes) = st[m]
  BY DEF Validated, st, Trace, m
<1> QED
  BY <1>7, <1>8, <1>9, <1>10 DEF m, st

(* The validator may be fed in pieces: that is what process_payload_bytes  *)
(* does with the pieces of a payload and with the fragments of a message.  *)
LEMMA ValidatedConcat ==
  ASSUME NEW u \in States, NEW x \in Seq(Chars), NEW y \in Seq(Chars)
  PROVE  /\ Validated(u, x) \in States
         /\ Validated(u, x \o y) = Validated(Validated(u, x), y)
<1> DEFINE z == x \o y
           v == Validated(u, x)
           tx == Trace(u, x)
           ty == Trace(v, y)
           tz == Trace(u, z)
           a == Len(x)
           b == Len(y)
           c == Len(z)
<1>1. z \in Seq(Chars) /\ Joins(z, x, y)
  BY ConcatParts
<1>2. a \in Nat /\ b \in Nat /\ c \in Nat /\ c = a + b
      /\ (\A i \in 1..a : z[i] = x[i]) /\ (\A i \in 1..b : z[a + i] = y[i])
  <2> HIDE DEF z
  <2> QED
    BY <1>1, LenProperties DEF Joins
<1>3. /\ tx \in [0..a -> States] /\ tx[0] = u /\ v = tx[a]
      /\ \A n \in 0..a-1 : tx[n + 1] = Decode(tx[n], x[n + 1])
  BY <1>2, TraceRec
<1>4. v \in States
  <2> HIDE DEF v, tx, a
  <2> QED
    BY <1>2, <1>3
<1> HIDE DEF z, v
<1>5. /\ ty \in [0..b -> States] /\ ty[0] = v /\ Validated(v, y) = ty[b]
      /\ \A n \in 0..b-1 : ty[n + 1] = Decode(ty[n], y[n + 1])
  BY <1>2, <1>4, TraceRec
<1>6. /\ tz[0] = u /\ Validated(u, z) = tz[c]
      /\ \A n \in 0..c-1 : tz[n + 1] = Decode(tz[n], z[n + 1])
  <2>1. Len(z) \in Nat
    BY <1>2
  <2>2. /\ tz[0] = u /\ Validated(u, z) = tz[Len(z)]
        /\ \A n \in 0..Len(z)-1 : tz[n + 1] = Decode(tz[n], z[n + 1])
    BY <2>1, TraceRec
  <2> QED
    BY <2>2
<1> HIDE DEF tx, ty, tz, a, b, c
<1> DEFINE P == {n \in Nat : n <= a => tz[n] = tx[n]}
           Q == {n \in Nat : n <= b => tz[a + n] = ty[n]}
<1>7. a \in P
  <2>1. 0 \in P /\ P \in SUBSET Nat
    BY <1>3, <1>6
  <2>2. \A n \in 0..a-1 : n \in P => n + 1 \in P
    <3> TAKE n \in 0..a-1
    <3> HAVE n \in P
    <3>1. n \in 0..c-1 /\ n + 1 \in 1..a /\ n <= a
      BY <1>2
    <3>2. tz[n + 1] = tx[n + 1]
      BY <1>2, <1>3, <1>6, <3>1
    <3> QED
      BY <3>1, <3>2
  <2>3. a \in 0..a
    BY <1>2
  <2> HIDE DEF P
  <2> QED
    BY <1>2, <2>1, <2>2, <2>3, Induct
<1>8. b \in Q
  <2>1. 0 \in Q /\ Q \in SUBSET Nat
    BY <1>2, <1>3, <1>5, <1>7
  <2>2. \A n \in 0..b-1 : n \in Q => n + 1 \in Q
    <3> TAKE n \in 0..b-1
    <3> HAVE n \in Q
    <3> DEFINE i == a + n
    <3>1. i \in 0..c-1 /\ n + 1 \in 1..b /\ n <= b /\ a + (n + 1) = i + 1
      BY <1>2
    <3>2. tz[i] = ty[n]
      BY <3>1
    <3> HIDE DEF i
    <3>3. z[i + 1] = y[n + 1]
      BY <1>2, <3>1
    <3>4. tz[i + 1] = ty[n + 1]
      BY <1>5, <1>6, <3>1, <3>2, <3>3
    <3> QED
      BY <3>1, <3>4
  <2>3. b \in 0..b
    BY <1>2
  <2> HIDE DEF Q
  <2> QED
    BY <1>2, <2>1, <2>2, <2>3, Induct
<1>9. tz[c] = ty[b]
  BY <1>2, <1>8
<1> QED
  BY <1>4, <1>5, <1>6, <1>9 DEF z, v

(* What has been rejected stays so.                                        *)
LEMMA RejectStays ==
  ASSUME NEW y \in Seq(Chars)
  PROVE  Validated("reject", y) = "reject"
<1> DEFINE t == Trace("reject", y)
           b == Len(y)
           Q == {n \in Nat : n <= b => t[n] = "reject"}
<1>1. /\ b \in Nat /\ t[0] = "reject" /\ Validated("reject", y) = t[b]
      /\ \A n \in 0..b-1 : t[n + 1] = Decode(t[n], y[n + 1])
  <2>1. Len(y) \in Nat /\ "reject" \in States
    BY LenProperties DEF States
  <2> QED
    BY <2>1, TraceRec
<1>2. \A ch : Decode("reject", ch) = "reject"
  BY DEF Decode
<1> HIDE DEF t, b
<1>3. 0 \in Q /\ Q \in SUBSET Nat /\ b \in 0..b
  BY <1>1
<1>4. \A n \in 0..b-1 : n \in Q => n + 1 \in Q
  <2> TAKE n \in 0..b-1
  <2> HAVE n \in Q
  <2>1. t[n] = "reject"
    BY <1>1
  <2> QED
    BY <1>1, <1>2, <2>1
<1>5. b \in Q
  <2> HIDE DEF Q
  <2> QED
    BY <1>1, <1>3, <1>4, Induct
<1> QED
  BY <1>1, <1>5

-----------------------------------------------------------------------------
(* The reference: a message begun (part), and what the frames say.         *)
Parts == {NoMsg} \cup [op : {"text", "binary"}, payload : Seq(Chars), utf8 : {"accept"}]
Messages == [op : Ops, payload : Seq(Chars)]
Results == [out : Seq(Messages), part : Parts, bad : BOOLEAN, cut : BOOLEAN]

Begun(part, f) == IF part = NoMsg THEN [NoMsg EXCEPT !.op = f.op] ELSE part
Whole(part, f) == Begun(part, f).payload \o f.payload

(* What is wrong with f after part: its header, its size or its text.     *)
IllHeader(part, f) == RefusedHeader([op |-> f.op, fin |-> f.fin], SizeCode(f), part = NoMsg)
IllSize(part, f) ==
  \/ f.long /\ Len(f.payload) <= Basic
  \/ ~IsControl(f.op) /\ Len(part.payload) + Len(f.payload) > MaxMessage
IllText(part, f) ==
  /\ ~IsControl(f.op) /\ Begun(part, f).op = "text"
  /\ \/ Validated("accept", Whole(part, f)) = "reject"
     \/ f.op = "text" /\ f.fin /\ Validated("accept", Whole(part, f)) # "accept"

(* A text ends here, within a character.                                   *)
Unended(part, f) ==
  Begun(part, f).op = "text" /\ f.fin /\ Validated("accept", Whole(part, f)) # "accept"

Ill(part, f) == IllHeader(part, f) \/ IllSize(part, f) \/ IllText(part, f)

(* The message that a data frame with a good header begins or continues.   *)
LEMMA BegunType ==
  ASSUME NEW part \in Parts, NEW f \in Inputs, ~IllHeader(part, f), ~IsControl(f.op)
  PROVE  /\ Begun(part, f) \in Parts /\ Begun(part, f) # NoMsg
         /\ Begun(part, f) = [op |-> Begun(part, f).op, payload |-> part.payload, utf8 |-> "accept"]
         /\ Begun(part, f).op \in {"text", "binary"}
         /\ f.op = "text" => Begun(part, f).op = "text"
         /\ part.payload \in Seq(Chars) /\ f.payload \in Seq(Chars)
<1>1. f \in Frames
  BY FramesAssumption
<1>2. CASE part = NoMsg
  <2>1. f.op \in {"text", "binary"}
    BY <1>1, <1>2 DEF IllHeader, RefusedHeader, Frames, Ops, IsControl
  <2>2. Begun(part, f) = [op |-> f.op, payload |-> <<>>, utf8 |-> "accept"]
    BY <1>2 DEF Begun, NoMsg
  <2>3. part.payload = <<>> /\ <<>> \in Seq(Chars)
    BY <1>2 DEF NoMsg
  <2>4. Begun(part, f).op = f.op /\ f.op # "none"
    BY <2>1, <2>2
  <2>5. Begun(part, f) \in Parts
    BY <2>1, <2>2, <2>3 DEF Parts
  <2>6. Begun(part, f) # NoMsg
    BY <2>4 DEF NoMsg
  <2>7. f.payload \in Seq(Chars)
    BY <1>1 DEF Frames, Chars
  <2> QED
    BY <2>1, <2>2, <2>3, <2>4, <2>5, <2>6, <2>7
<1>3. CASE part # NoMsg
  <2>1. f.op = "continuation"
    BY <1>1, <1>3 DEF IllHeader, RefusedHeader, Frames, Ops, IsControl
  <2>2. Begun(part, f) = part
    BY <1>3 DEF Begun
  <2>3. part \in [op : {"text", "binary"}, payload : Seq(Chars), utf8 : {"accept"}]
    BY <1>3 DEF Parts
  <2>4. part = [op |-> part.op, payload |-> part.payload, utf8 |-> "accept"]
    BY <2>3
  <2>5. f.payload \in Seq(Chars)
    BY <1>1 DEF Frames, Chars
  <2> QED
    BY <1>3, <2>1, <2>2, <2>3, <2>4, <2>5
<1> QED
  BY <1>2, <1>3

(* The reference finds the same things wrong with a frame as consume().    *)
LEMMA CombinedBad ==
  ASSUME NEW acc \in Results, ~acc.bad, NEW f \in Inputs, Ill(acc.part, f)
  PROVE  Combined(acc, f) = [acc EXCEPT !.bad = TRUE]
<1>1. f \in Frames /\ (~f.long => Len(f.payload) <= Basic) /\ acc.part \in Parts
  BY FramesAssumption DEF Results
<1>2. Len(f.payload) \in Nat
  BY <1>1, BytesParts
<1>3. CASE f.op = "ping"
  <2>1. f.long \/ ~f.fin
    BY <1>1, <1>2, <1>3, FramesAssumption
       DEF Ill, IllHeader, IllSize, IllText, RefusedHeader, SizeCode, IsControl
  <2> QED
    BY <1>3, <2>1 DEF Combined
<1>4. CASE f.op # "ping"
  <2> DEFINE w == Begun(acc.part, f).payload \o f.payload
             unended == Begun(acc.part, f).op = "text" /\ f.fin /\ Validated("accept", w) # "accept"
             wrong == \/ f.op = "reserved" \/ (f.long /\ Len(f.payload) <= Basic)
                      \/ (f.op = "continuation") # (acc.part # NoMsg)
                      \/ Len(w) > MaxMessage
                      \/ Begun(acc.part, f).op = "text" /\ Validated("accept", w) = "reject"
                      \/ unended /\ f.op = "text"
  <2>1. wrong
    <3>1. CASE IllHeader(acc.part, f)
      BY <1>4, <3>1 DEF IllHeader, RefusedHeader, IsControl
    <3>2. CASE ~IllHeader(acc.part, f) /\ IllSize(acc.part, f)
      <4>1. /\ acc.part.payload \in Seq(Chars) /\ f.payload \in Seq(Chars)
            /\ Begun(acc.part, f).payload = acc.part.payload
        BY <1>1, <1>4, <3>2, BegunType DEF IsControl
      <4>2. Len(w) = Len(acc.part.payload) + Len(f.payload)
        BY <4>1, ConcatParts DEF Joins
      <4> QED
        BY <1>4, <3>2, <4>2 DEF IllSize
    <3>3. CASE IllText(acc.part, f)
      BY <3>3 DEF IllText, Whole
    <3> QED
      BY <3>1, <3>2, <3>3 DEF Ill
  <2>2. Combined(acc, f) = IF wrong THEN [acc EXCEPT !.bad = TRUE]
                           ELSE IF f.fin
                           THEN [acc EXCEPT !.out = Append(@, [op |-> Begun(acc.part, f).op, payload |-> w]),
                                            !.part = NoMsg, !.cut = acc.cut \/ unended]
                           ELSE [acc EXCEPT !.part = [Begun(acc.part, f) EXCEPT !.payload = w]]
    BY <1>4 DEF Combined, Begun
  <2> HIDE DEF wrong
  <2> QED
    BY <2>1, <2>2
<1> QED
  BY <1>3, <1>4

(* What it makes of a frame that is not in error.                          *)
LEMMA CombinedGood ==
  ASSUME NEW acc \in Results, ~acc.bad, NEW f \in Inputs, ~Ill(acc.part, f)
  PROVE  /\ f.op = "ping" =>
              Combined(acc, f) = [acc EXCEPT !.out = Append(acc.out, [op |-> "ping", payload |-> f.payload])]
         /\ f.op # "ping" /\ f.fin =>
              Combined(acc, f) = [acc EXCEPT !.out = Append(acc.out, [op |-> Begun(acc.part, f).op,
                                                                      payload |-> Whole(acc.part, f)]),
                                             !.part = NoMsg,
                                             !.cut = acc.cut \/ Unended(acc.part, f)]
         /\ f.op # "ping" /\ ~f.fin =>
              Combined(acc, f) = [acc EXCEPT !.part = [Begun(acc.part, f) EXCEPT !.payload = Whole(acc.part, f)]]
<1>1. f \in Frames /\ (~f.long => Len(f.payload) <= Basic) /\ acc.part \in Parts
  BY FramesAssumption DEF Results
<1>2. f.op # "reserved" /\ ~(f.long /\ Len(f.payload) <= Basic)
  BY DEF Ill, IllHeader, IllSize, RefusedHeader
<1>3. CASE f.op = "ping"
  <2>1. f.fin /\ ~f.long
    BY <1>1, <1>2, <1>3, FramesAssumption DEF Ill, IllHeader, RefusedHeader, IsControl, SizeCode, Code16
  <2> QED
    BY <1>2, <1>3, <2>1 DEF Combined
<1>4. CASE f.op # "ping"
  <2> DEFINE w == Whole(acc.part, f)
             unended == Begun(acc.part, f).op = "text" /\ f.fin /\ Validated("accept", w) # "accept"
             wrong == \/ f.op = "reserved" \/ (f.long /\ Len(f.payload) <= Basic)
                      \/ (f.op = "continuation") # (acc.part # NoMsg)
                      \/ Len(w) > MaxMessage
                      \/ Begun(acc.part, f).op = "text" /\ Validated("accept", w) = "reject"
                      \/ unended /\ f.op = "text"
  <2>1. ~((f.op = "continuation") # (acc.part # NoMsg))
    BY <1>1, <1>4 DEF Ill, IllHeader, RefusedHeader, IsControl
  <2>2. ~(Len(w) > MaxMessage)
    <3>1. /\ acc.part.payload \in Seq(Chars) /\ f.payload \in Seq(Chars)
          /\ Begun(acc.part, f).payload = acc.part.payload
      BY <1>1, <1>4, BegunType DEF IsControl, Ill
    <3>2. Len(w) = Len(acc.part.payload) + Len(f.payload)
      BY <3>1, ConcatParts DEF Joins, Whole
    <3> QED
      BY <1>4, <3>2 DEF Ill, IllSize, IsControl
  <2>3. ~wrong
    BY <1>2, <1>4, <2>1, <2>2 DEF Ill, IllText, IsControl
  <2>4. Combined(acc, f) = IF wrong THEN [acc EXCEPT !.bad = TRUE]
                           ELSE IF f.fin
                           THEN [acc EXCEPT !.out = Append(acc.out, [op |-> Begun(acc.part, f).op, payload |-> w]),
                                            !.part = NoMsg, !.cut = acc.cut \/ unended]
                           ELSE [acc EXCEPT !.part = [Begun(acc.part, f) EXCEPT !.payload = w]]
    BY <1>2, <1>4 DEF Combined, Begun, Whole
  <2>5. unended = Unended(acc.part, f)
    BY DEF Unended
  <2> HIDE DEF wrong, unended
  <2> QED
    BY <1>4, <2>3, <2>4, <2>5
<1> QED
  BY <1>3, <1>4

Start == [out |-> <<>>, part |-> NoMsg, bad |-> FALSE, cut |-> FALSE]

LEMMA CombinedType ==
  ASSUME NEW acc \in Results, NEW f \in Inputs
  PROVE  Combined(acc, f) \in Results
<1>1. f \in Frames /\ f.payload \in Seq(Chars) /\ f.op \in Ops
  BY FramesAssumption DEF Frames, Chars
<1>2. CASE acc.bad
  BY <1>2 DEF Combined
<1>3. CASE ~acc.bad /\ Ill(acc.part, f)
  <2>1. [acc EXCEPT !.bad = TRUE] \in Results
    BY DEF Results
  <2> QED
    BY <1>3, <2>1, CombinedBad
<1>4. CASE ~acc.bad /\ ~Ill(acc.part, f)
  <2>1. acc.out \in Seq(Messages) /\ acc.part \in Parts /\ NoMsg \in Parts
    BY DEF Results, Parts
  <2>2. CASE f.op = "ping"
    <3> DEFINE m == [op |-> "ping", payload |-> f.payload]
    <3>1. m \in Messages
      BY <1>1, <2>2 DEF Messages
    <3> HIDE DEF m
    <3>2. Append(acc.out, m) \in Seq(Messages)
      BY <2>1, <3>1
    <3>3. [acc EXCEPT !.out = Append(acc.out, m)] \in Results
      BY <3>2 DEF Results
    <3> QED
      BY <1>4, <2>2, <3>3, CombinedGood DEF m
  <2>3. CASE f.op # "ping"
    <3> DEFINE b == Begun(acc.part, f)
               w == Whole(acc.part, f)
               m == [op |-> b.op, payload |-> w]
    <3>1. /\ b = [op |-> b.op, payload |-> acc.part.payload, utf8 |-> "accept"]
          /\ b.op \in {"text", "binary"} /\ acc.part.payload \in Seq(Chars)
      BY <1>4, <2>1, <2>3, BegunType DEF Ill, IsControl
    <3>2. w \in Seq(Chars)
      BY <1>1, <3>1, ConcatParts DEF Whole
    <3>3. m \in Messages
      BY <3>1, <3>2 DEF Messages, Ops
    <3>4. [b EXCEPT !.payload = w] \in Parts
      <4> HIDE DEF b, w
      <4>1. [b EXCEPT !.payload = w] = [op |-> b.op, payload |-> w, utf8 |-> "accept"]
        BY <3>1
      <4> QED
        BY <3>1, <3>2, <4>1 DEF Parts
    <3> HIDE DEF b, w, m
    <3>5. Append(acc.out, m) \in Seq(Messages)
      BY <2>1, <3>3
    <3>6. [acc EXCEPT !.out = Append(acc.out, m), !.part = NoMsg,
                      !.cut = acc.cut \/ Unended(acc.part, f)] \in Results
      BY <2>1, <3>5 DEF Results
    <3>7. [acc EXCEPT !.part = [b EXCEPT !.payload = w]] \in Results
      BY <3>4 DEF Results
    <3> QED
      BY <1>4, <2>3, <3>6, <3>7, CombinedGood DEF b, w, m
  <2> QED
    BY <2>2, <2>3
<1> QED
  BY <1>2, <1>3, <1>4

(* Decoded is what its recursive definition says.                          *)
LEMMA DecodedRec ==
  ASSUME frames \in [1..MaxFrames -> Inputs]
  PROVE  /\ Decoded \in [0..MaxFrames -> Results]
         /\ Decoded[0] = Start
         /\ \A n \in 0..MaxFrames-1 : Decoded[n + 1] = Combined(Decoded[n], frames[n + 1])
<1> DEFINE X == Results
           g == [p \in X \X (1..MaxFrames) |-> Combined(p[1], frames[p[2]])]
           st == Decoded
           S == {k \in 0..MaxFrames : st[k] \in X}
<1>1. \A n \in 1..MaxFrames : frames[n] \in Inputs
  OBVIOUS
<1>2. g \in [X \X (1..MaxFrames) -> X]
  BY <1>1, CombinedType
<1>3. Start \in X
  BY DEF Start, Results, Parts
<1>4. PICK f \in [0..MaxFrames -> X] : Iterates(f, MaxFrames, Start, g)
  <2> HIDE DEF X, g
  <2> QED
    BY <1>2, <1>3, Recursion, FramesAssumption
<1>5. f = [n \in 0..MaxFrames |-> IF n = 0 THEN Start ELSE Combined(f[n - 1], frames[n])]
  <2>1. ASSUME NEW n \in 0..MaxFrames, n # 0 PROVE f[n] = Combined(f[n - 1], frames[n])
    <3>1. n \in 1..MaxFrames /\ n - 1 \in 0..MaxFrames
      BY <2>1, FramesAssumption
    <3>2. f[n] = g[<<f[n - 1], n>>]
      BY <1>4, <3>1 DEF Iterates
    <3>3. f[n - 1] \in X
      BY <3>1
    <3> HIDE DEF X
    <3> QED
      BY <3>1, <3>2, <3>3
  <2>2. f[0] = Start
    BY <1>4 DEF Iterates
  <2> HIDE DEF X, g
  <2> QED
    BY <2>1, <2>2
<1>6. st = [n \in 0..MaxFrames |-> IF n = 0 THEN Start ELSE Combined(st[n - 1], frames[n])]
  <2> HIDE DEF X, g
  <2>1. f = [n \in 0..MaxFrames |-> IF n = 0 THEN [out |-> <<>>, part |-> NoMsg, bad |-> FALSE, cut |-> FALSE]
                                   ELSE Combined(f[n - 1], frames[n])]
    BY <1>5 DEF Start
  <2>2. st = [n \in 0..MaxFrames |-> IF n = 0 THEN [out |-> <<>>, part |-> NoMsg, bad |-> FALSE, cut |-> FALSE]
                                   ELSE Combined(st[n - 1], frames[n])]
    BY <2>1 DEF Decoded
  <2> QED
    BY <2>2 DEF Start
<1> HIDE DEF g, st, X
<1>7. \A k \in 0..MaxFrames-1 : st[k + 1] = Combined(st[k], frames[k + 1])
  <2> TAKE k \in 0..MaxFrames-1
  <2> DEFINE n == k + 1
  <2>1. n \in 0..MaxFrames /\ n # 0 /\ n - 1 = k
    BY FramesAssumption
  <2> HIDE DEF n
  <2>2. st[n] = Combined(st[k], frames[n])
    BY <1>6, <2>1
  <2> QED
    BY <2>2 DEF n
<1>8. st[0] = Start /\ st = [n \in 0..MaxFrames |-> st[n]]
  BY <1>6, FramesAssumption
<1>9. \A k \in 0..MaxFrames-1 : k \in S => k + 1 \in S
  <2> TAKE k \in 0..MaxFrames-1
  <2>1. k + 1 \in 1..MaxFrames /\ k + 1 \in 0..MaxFrames
    BY FramesAssumption
  <2>2. st[k] \in X => st[k + 1] \in X
    BY <1>1, <1>7, <2>1, CombinedType DEF X
  <2> QED
    BY <2>1, <2>2
<1>10. 0 \in S /\ S \in SUBSET Nat
  BY <1>3, <1>8, FramesAssumption
<1>11. \A k \in 0..MaxFrames : k \in S
  <2> HIDE DEF S
  <2> QED
    BY <1>9, <1>10, Induct, FramesAssumption
<1> QED
  BY <1>7, <1>8, <1>11 DEF st, X

-----------------------------------------------------------------------------
(* The invariant: the connection has dispatched what the first k frames    *)
(* say and has processed d bytes of the next one, which say where consume()*)
(* stands and what it holds.                                               *)

(* A message of which part has come, as process_payload_bytes keeps it.    *)
Holds(m, part) ==
  /\ m = [op |-> part.op, payload |-> part.payload,
          utf8 |-> IF part.op = "text" THEN Validated("accept", part.payload) ELSE "accept"]
  /\ m.utf8 # "reject"

Idle(part) == msg["control"] = NoMsg /\ Holds(msg["data"], part)

(* Where consume() stands after d bytes of a frame: in the basic header,   *)
(* in the extended header, j bytes into the payload, or after an error.    *)
AtBasicHeader(k, d) ==
  /\ m_state = "HEADER_BASIC" /\ d \in {0, 1} /\ m_bytes_needed = 2 - d
  /\ d = 0 => m_basic_header = <<>>
  /\ d = 1 => k < MaxFrames /\ m_basic_header = SubSeq(Bytes(frames[k + 1]), 1, 1)
  /\ m_extended_header = <<>> /\ Idle(Decoded[k].part)

AtExtendedHeader(part, f, d) ==
  /\ m_state = "HEADER_EXTENDED"
  /\ d \in 2..HeaderLen(f) /\ m_bytes_needed = HeaderLen(f) - d
  /\ m_basic_header = SubSeq(Bytes(f), 1, 2) /\ m_extended_header = SubSeq(Bytes(f), 3, d)
  /\ ~IllHeader(part, f) /\ Idle(part)

(* The payload of the message the frame belongs to, with j bytes of it.    *)
Grown(part, f, j) == [Begun(part, f) EXCEPT !.payload = part.payload \o SubSeq(f.payload, 1, j)]

Filling(part, f, j) ==
  \/ /\ IsControl(f.op) /\ m_current_msg = "control"
     /\ msg["control"] = [op |-> f.op, payload |-> SubSeq(f.payload, 1, j), utf8 |-> "accept"]
     /\ Holds(msg["data"], part)
  \/ /\ ~IsControl(f.op) /\ m_current_msg = "data"
     /\ msg["control"] = NoMsg /\ Holds(msg["data"], Grown(part, f, j))

AtPayload(part, f, j) ==
  /\ j \in 0..Len(f.payload) /\ m_bytes_needed = Len(f.payload) - j
  /\ m_basic_header = SubSeq(Bytes(f), 1, 2) /\ Len(m_extended_header) \in 0..2
  /\ ~IllHeader(part, f) /\ ~IllSize(part, f) /\ Filling(part, f, j)
  /\ \/ m_state = "APPLICATION"
     \/ m_state = "READY" /\ j = Len(f.payload) /\ f.fin /\ ~IllText(part, f)

Stopped(part, f, d) ==
  /\ m_state \in {"HEADER_BASIC", "HEADER_EXTENDED", "APPLICATION"}
  /\ d \in 1..Len(Bytes(f)) /\ Ill(part, f)
  /\ m_bytes_needed \in Nat /\ Len(m_basic_header) = 2 /\ Len(m_extended_header) \in 0..2
  /\ m_state = "HEADER_BASIC" => m_bytes_needed = 0

Within(part, f, d) ==
  IF failed THEN Stopped(part, f, d)
  ELSE AtExtendedHeader(part, f, d) \/ AtPayload(part, f, d - HeaderLen(f))

At(k, d) ==
  /\ pos = BytesIn(k) + d /\ ~Decoded[k].bad /\ delivered = Decoded[k].out
  /\ \/ ~failed /\ AtBasicHeader(k, d)
     \/ k < MaxFrames /\ Within(Decoded[k].part, frames[k + 1], d)

Slots == [op : Ops \cup {"none"}, payload : Seq(Chars), utf8 : States]

Typed ==
  /\ frames \in [1..MaxFrames -> Inputs]
  /\ pos \in Nat /\ unread \in Nat /\ pos + unread <= Len(Stream)
  /\ msg \in [{"data", "control"} -> Slots] /\ m_current_msg \in {"data", "control"}
  /\ failed \in BOOLEAN

IInv == Typed /\ \E k \in 0..MaxFrames : \E d \in 0..pos : At(k, d)

(* What the server sends does not change.                                  *)
LEMMA Fixed ==
  ASSUME UNCHANGED frames, NEW k
  PROVE  Decoded' = Decoded /\ Stream' = Stream /\ BytesIn(k)' = BytesIn(k)
BY DEF Decoded, Stream, BytesIn

LEMMA SlotsFixed == "data" \in {"data", "control"} /\ NoMsg \in Slots
BY DEF Slots, NoMsg, States, Ops

(* A turn that processes bytes of the read keeps the types.                *)
LEMMA Moved ==
  ASSUME Typed, UNCHANGED frames, NEW n \in Nat, n <= unread, Processed(n),
         msg' \in [{"data", "control"} -> Slots], m_current_msg' \in {"data", "control"},
         failed' \in BOOLEAN
  PROVE  Typed'
<1>1. Stream' = Stream
  BY Fixed
<1> DEFINE z == Len(Stream)
<1>2. z' = z
  BY <1>1
<1>3. pos + unread <= z /\ pos \in Nat /\ unread \in Nat
  BY DEF Typed
<1>4. pos' = pos + n /\ unread' = unread - n
  BY DEF Processed
<1> HIDE DEF z
<1>5. pos' \in Nat /\ unread' \in Nat /\ pos' + unread' = pos + unread
  BY <1>3, <1>4
<1>6. pos' + unread' <= z'
  BY <1>2, <1>3, <1>5
<1>7. frames' \in [1..MaxFrames -> Inputs]
  BY DEF Typed
<1> QED
  BY <1>5, <1>6, <1>7 DEF Typed, z

LEMMA Witnessed ==
  ASSUME Typed', NEW k \in 0..MaxFrames, NEW d \in Nat, At(k, d)'
  PROVE  IInv'
<1>1. frames' \in [1..MaxFrames -> Inputs] /\ pos' \in Nat
  BY DEF Typed
<1>2. PICK x \in Nat : x = BytesIn(k)'
  <2>1. BytesIn(k)' \in Nat
    BY <1>1, StreamMono, FramesAssumption DEF BytesIn
  <2> QED
    BY <2>1
<1>3. pos' = x + d
  BY <1>2 DEF At
<1>4. d \in 0..pos'
  BY <1>3
<1> QED
  BY <1>4 DEF IInv

(* m_data_msg is there when and only when a message has been begun: that   *)
(* is what validate_incoming_basic_header goes by.                         *)
LEMMA HoldsNoMsg ==
  ASSUME NEW part \in Parts, NEW m, Holds(m, part)
  PROVE  /\ m = NoMsg <=> part = NoMsg
         /\ m.payload = part.payload /\ m.op = part.op
<1>1. m.payload = part.payload /\ m.op = part.op
  BY DEF Holds
<1>2. CASE part = NoMsg
  BY <1>1, <1>2 DEF Holds, NoMsg
<1>3. CASE part # NoMsg
  <2>1. part.op # "none"
    BY <1>3 DEF Parts
  <2>2. m # NoMsg
    BY <1>1, <2>1 DEF NoMsg
  <2> QED
    BY <1>1, <1>3, <2>2
<1> QED
  BY <1>2, <1>3, <1>1

(* What is known of the first k frames and of the one after them.          *)
LEMMA SizesOf ==
  ASSUME Typed, NEW k \in 0..MaxFrames
  PROVE  /\ BytesIn(k) \in Nat /\ Decoded[k] \in Results /\ Decoded[k].part \in Parts
         /\ k = MaxFrames => BytesIn(k) = Len(Stream)
         /\ k < MaxFrames => /\ k \in 0..MaxFrames-1 /\ k + 1 \in 0..MaxFrames
                             /\ frames[k + 1] \in Inputs /\ frames[k + 1] \in Frames
                             /\ Decoded[k + 1] = Combined(Decoded[k], frames[k + 1])
                             /\ BytesIn(k + 1) = BytesIn(k) + Len(Bytes(frames[k + 1]))
<1>1. frames \in [1..MaxFrames -> Inputs]
  BY DEF Typed
<1>2. BytesIn(k) \in Nat /\ Decoded[k] \in Results /\ Decoded[k].part \in Parts
  BY <1>1, StreamMono, DecodedRec, FramesAssumption DEF BytesIn, Results
<1>3. k = MaxFrames => BytesIn(k) = Len(Stream)
  BY DEF BytesIn, Stream
<1>4. ASSUME k < MaxFrames
      PROVE  /\ k \in 0..MaxFrames-1 /\ k + 1 \in 0..MaxFrames /\ k + 1 \in 1..MaxFrames
  BY <1>4, FramesAssumption
<1>5. ASSUME k < MaxFrames
      PROVE  /\ frames[k + 1] \in Inputs /\ frames[k + 1] \in Frames
             /\ Decoded[k + 1] = Combined(Decoded[k], frames[k + 1])
             /\ BytesIn(k + 1) = BytesIn(k) + Len(Bytes(frames[k + 1]))
  BY <1>1, <1>4, <1>5, StreamLen, DecodedRec, FramesAssumption DEF BytesIn
<1> QED
  BY <1>2, <1>3, <1>4, <1>5

(* Each action keeps the invariant.  A read moves nothing.                 *)
LEMMA ReadStep ==
  ASSUME IInv, Read
  PROVE  IInv'
<1>1. PICK k \in 0..MaxFrames, d \in 0..pos : At(k, d)
  BY DEF IInv
<1>2. UNCHANGED <<frames, pos, parser, delivered, failed>>
  BY DEF Read
<1>3. Decoded' = Decoded /\ Stream' = Stream /\ BytesIn(k)' = BytesIn(k)
  BY <1>2, Fixed
<1>4. At(k, d)'
  BY <1>1, <1>2, <1>3
     DEF At, AtBasicHeader, Within, AtExtendedHeader, AtPayload, Stopped, Idle, Filling, parser
<1>5. Typed'
  <2>1. PICK z \in Nat : z = Len(Stream)
    <3>1. MaxFrames \in 0..MaxFrames
      BY FramesAssumption
    <3> QED
      BY <3>1, StreamMono DEF IInv, Typed, Stream
  <2>2. pos' = pos /\ pos \in Nat
    BY <1>2, <2>1 DEF IInv, Typed
  <2>3. unread' \in Nat /\ pos' + unread' <= z
    <3>1. PICK u \in 1..(z - pos) : unread' = u
      BY <2>1 DEF Read
    <3>2. u \in Nat /\ pos + u <= z
      BY <2>2
    <3> QED
      BY <2>2, <3>1, <3>2
  <2> QED
    BY <1>2, <1>3, <2>1, <2>3 DEF IInv, Typed, parser
<1> QED
  BY <1>4, <1>5, Witnessed

LEMMA MinIs ==
  ASSUME NEW x \in Nat, NEW y \in Nat
  PROVE  Min(x, y) \in Nat /\ Min(x, y) <= x /\ Min(x, y) <= y /\ (x > 0 /\ y > 0 => Min(x, y) > 0)
BY DEF Min

(* The two bytes of the basic header may come in one read or in two.       *)
LEMMA HeaderBasicStep ==
  ASSUME IInv, HeaderBasic
  PROVE  IInv'
<1>1. PICK k \in 0..MaxFrames, d \in 0..pos : At(k, d)
  BY DEF IInv
<1>2. Typed /\ UNCHANGED <<frames, delivered>> /\ ~failed /\ m_state = "HEADER_BASIC" /\ Loops
  BY DEF IInv, HeaderBasic, Turn
<1>3. AtBasicHeader(k, d)
  BY <1>1, <1>2 DEF At, Within, AtExtendedHeader, AtPayload
<1>4. d \in {0, 1} /\ m_bytes_needed = 2 - d /\ unread \in Nat /\ unread > 0
  BY <1>2, <1>3 DEF AtBasicHeader, Loops, Typed
<1>5. k < MaxFrames
  <2>1. PICK z \in Nat : z = BytesIn(k)
    BY <1>2, SizesOf
  <2>2. k = MaxFrames => pos + unread <= z
    BY <1>2, <2>1, SizesOf DEF Typed
  <2>3. pos = z + d
    BY <1>1, <2>1 DEF At
  <2>4. k # MaxFrames
    BY <1>4, <2>2, <2>3
  <2> QED
    BY <2>4, FramesAssumption
<1> DEFINE f == frames[k + 1]
           b == Bytes(f)
           part == Decoded[k].part
           n == Min(m_bytes_needed, unread)
           header == m_basic_header \o Upcoming(n)
<1>6. /\ f \in Inputs /\ f \in Frames /\ part \in Parts /\ k \in 0..MaxFrames-1
  BY <1>2, <1>5, SizesOf
<1>7. b \in Seq(Byte) /\ Len(b) \in Nat /\ 2 <= Len(b)
  <2>1. b \in Seq(Byte)
    BY <1>6, BytesParts
  <2> QED
    BY <1>2, <1>6, <2>1, StreamLen DEF Typed
<1>8. n \in Nat /\ n <= m_bytes_needed /\ n <= unread /\ n > 0 /\ d + n <= 2
  <2>1. m_bytes_needed \in Nat /\ m_bytes_needed > 0
    BY <1>4
  <2>2. n \in Nat /\ n <= m_bytes_needed /\ n <= unread /\ n > 0
    BY <1>4, <2>1, MinIs
  <2> HIDE DEF n
  <2> QED
    BY <1>4, <2>2
<1> HIDE DEF n
<1>9. header = SubSeq(b, 1, d + n)
  <2>1. m_basic_header = SubSeq(b, 1, d)
    <3>1. CASE d = 0
      BY <1>3, <1>7, <3>1, SubSeqEmpty DEF AtBasicHeader
    <3>2. CASE d = 1
      BY <1>3, <3>2 DEF AtBasicHeader
    <3> QED
      BY <1>4, <3>1, <3>2
  <2>2. d + n <= Len(b)
    <3> HIDE DEF b
    <3> QED
      BY <1>4, <1>7, <1>8
  <2>3. Upcoming(n) = SubSeq(b, d + 1, d + n)
    BY <1>1, <1>2, <1>4, <1>6, <1>8, <2>2, UpcomingIs DEF At, Typed
  <2> HIDE DEF b
  <2>4. SubSeq(b, 1, d) \o SubSeq(b, d + 1, d + n) = SubSeq(b, 1, d + n)
    BY <1>4, <1>7, <1>8, <2>2, SliceGrows
  <2> QED
    BY <2>1, <2>3, <2>4, Zenon
<1> DEFINE refused == RefusedHeader(header[1], header[2], msg.data = NoMsg)
           partial == /\ m_bytes_needed' = m_bytes_needed - n
                      /\ UNCHANGED <<m_state, m_extended_header, msg, m_current_msg, failed>>
           fails == Fails /\ m_bytes_needed' = 0 /\ UNCHANGED m_extended_header
           goes == /\ m_state' = "HEADER_EXTENDED" /\ m_extended_header' = <<>>
                   /\ m_bytes_needed' = IF header[2] = Code16 THEN 2 ELSE 0
                   /\ UNCHANGED <<msg, m_current_msg, failed>>
<1>10. /\ Processed(n) /\ m_basic_header' = header
       /\ CASE n < m_bytes_needed -> partial
            [] n = m_bytes_needed /\ refused -> fails
            [] OTHER -> goes
  BY DEF HeaderBasic, n
<1>11. /\ n < m_bytes_needed => partial
       /\ n = m_bytes_needed /\ refused => fails
       /\ n = m_bytes_needed /\ ~refused => goes
  <2> HIDE DEF refused, partial, fails, goes
  <2>1. m_bytes_needed \in Nat
    BY <1>4
  <2> QED
    BY <1>8, <1>10, <2>1
<1>12. /\ Decoded' = Decoded /\ BytesIn(k)' = BytesIn(k)
       /\ pos' = BytesIn(k) + (d + n) /\ d + n \in Nat
  <2>1. PICK z \in Nat : z = BytesIn(k)
    BY <1>2, SizesOf
  <2>2. pos = z + d /\ pos' = pos + n
    BY <1>1, <1>10, <2>1 DEF At, Processed
  <2>3. pos' = z + (d + n) /\ d + n \in Nat
    BY <1>4, <1>8, <2>2
  <2> QED
    BY <1>2, <2>1, <2>3, Fixed
<1>13. Idle(part) /\ Holds(msg["data"], part)
  BY <1>3 DEF AtBasicHeader, Idle
<1>14. CASE n < m_bytes_needed
  <2>1. d = 0 /\ n = 1
    BY <1>4, <1>8, <1>14
  <2>2. /\ m_bytes_needed' = m_bytes_needed - n
        /\ UNCHANGED <<m_state, m_extended_header, msg, m_current_msg, failed>>
    BY <1>14, <1>11
  <2>3. Typed'
    BY <1>2, <1>8, <1>10, <2>2, Moved DEF Typed
  <2>4. m_basic_header' = SubSeq(b, 1, 1) /\ m_bytes_needed' = 1
    BY <1>4, <1>9, <1>10, <2>1, <2>2
  <2>5. AtBasicHeader(k, 1)'
    <3>1. m_extended_header' = <<>> /\ m_state' = "HEADER_BASIC" /\ 2 - 1 = 1
      BY <1>2, <1>3, <2>2 DEF AtBasicHeader
    <3>2. Idle(Decoded[k].part)'
      BY <1>12, <1>13, <2>2 DEF Idle
    <3>3. b' = b
      BY <1>2
    <3> QED
      BY <1>5, <2>4, <3>1, <3>2, <3>3 DEF AtBasicHeader
  <2>6. At(k, 1)'
    BY <1>1, <1>2, <1>12, <2>1, <2>2, <2>5 DEF At
  <2> QED
    BY <2>3, <2>6, Witnessed
<1>15. CASE n = m_bytes_needed
  <2>1. d + n = 2
    BY <1>4, <1>15
  <2>2. header = SubSeq(b, 1, 2) /\ Len(header) = 2 /\ header[1] = [op |-> f.op, fin |-> f.fin]
        /\ header[2] = SizeCode(f)
    <3>1. header = SubSeq(b, 1, 2)
      BY <1>9, <2>1
    <3> HIDE DEF header
    <3> QED
      BY <1>6, <3>1, HeaderSlice
  <2>3. IllHeader(part, f) <=> RefusedHeader(header[1], header[2], msg.data = NoMsg)
    <3>1. (msg.data = NoMsg) = (part = NoMsg)
      BY <1>6, <1>13, HoldsNoMsg
    <3> QED
      BY <2>2, <3>1 DEF IllHeader
  <2> HIDE DEF header, b, f, part
  <2>4. CASE IllHeader(part, f)
    <3>1. Fails /\ m_bytes_needed' = 0 /\ UNCHANGED m_extended_header
      BY <1>15, <1>11, <2>3, <2>4
    <3>2. Typed'
      BY <1>2, <1>8, <1>10, <3>1, Moved DEF Typed, Fails
    <3>3. Stopped(part, f, 2)'
      BY <1>2, <1>3, <1>7, <1>10, <1>12, <2>2, <2>4, <3>1
         DEF Stopped, Fails, AtBasicHeader, Ill, part, f, b
    <3>4. At(k, 2)'
      BY <1>1, <1>2, <1>5, <1>12, <2>1, <3>1, <3>3 DEF At, Within, Fails, part, f
    <3> QED
      BY <3>2, <3>4, Witnessed
  <2>5. CASE ~IllHeader(part, f)
    <3>1. /\ m_state' = "HEADER_EXTENDED" /\ m_extended_header' = <<>>
          /\ m_bytes_needed' = (IF header[2] = Code16 THEN 2 ELSE 0)
          /\ UNCHANGED <<msg, m_current_msg, failed>>
      BY <1>15, <1>11, <2>3, <2>5
    <3>2. Typed'
      BY <1>2, <1>8, <1>10, <3>1, Moved DEF Typed
    <3>3. AtExtendedHeader(part, f, 2)'
      <4>1. m_bytes_needed' = HeaderLen(f) - 2 /\ HeaderLen(f) \in {2, 4}
        <5>1. f.long = (SizeCode(f) = Code16)
          BY <1>6, FramesAssumption, BytesParts DEF SizeCode, Code16, Frames
        <5>2. m_bytes_needed' = IF f.long THEN 2 ELSE 0
          BY <2>2, <3>1, <5>1
        <5> QED
          BY <5>2 DEF HeaderLen
      <4>2. SubSeq(b, 3, 2) = <<>>
        BY <1>7, SubSeqEmpty
      <4>3. (part' = part) /\ (f' = f)
        BY <1>2, <1>12 DEF part, f
      <4>4. Idle(part)'
        BY <1>13, <3>1, <4>3 DEF Idle
      <4> QED
        BY <1>10, <2>2, <2>5, <3>1, <4>1, <4>2, <4>3, <4>4 DEF AtExtendedHeader, b
    <3>4. At(k, 2)'
      BY <1>1, <1>2, <1>5, <1>12, <2>1, <3>1, <3>3 DEF At, Within, part, f
    <3> QED
      BY <3>2, <3>4, Witnessed
  <2> QED
    BY <2>4, <2>5
<1> QED
  BY <1>4, <1>8, <1>14, <1>15

LEMMA SliceLen ==
  ASSUME NEW S, NEW s \in Seq(S), NEW m \in Nat \ {0}, NEW a \in Nat, m <= a + 1, a <= Len(s)
  PROVE  SubSeq(s, m, a) \in Seq(S) /\ Len(SubSeq(s, m, a)) = a - m + 1
<1> DEFINE u == SubSeq(s, m, a)
<1>1. \A i \in m..a : s[i] \in S
  <2> TAKE i \in m..a
  <2>1. i \in 1..Len(s)
    BY LenProperties
  <2> QED
    BY <2>1, ElementOfSeq
<1>2. u \in Seq(S) /\ Len(u) = IF m <= a THEN a - m + 1 ELSE 0
  BY <1>1, SubSeqProperties
<1> HIDE DEF u
<1>3. Len(u) = a - m + 1
  BY <1>2
<1> QED
  BY <1>2, <1>3 DEF u

LEMMA ValidatedEmpty ==
  ASSUME NEW u \in States
  PROVE  Validated(u, <<>>) = u
<1>1. Len(<<>>) = 0
  OBVIOUS
<1> QED
  BY <1>1, TraceRec

(* The message as consume() begins or finds it, before the payload.        *)
LEMMA GrownZero ==
  ASSUME NEW part \in Parts, NEW f \in Inputs, ~IllHeader(part, f), ~IsControl(f.op),
         NEW m, Holds(m, part)
  PROVE  Holds(IF m # NoMsg THEN m ELSE [NoMsg EXCEPT !.op = f.op], Grown(part, f, 0))
<1> DEFINE g == Grown(part, f, 0)
           b == Begun(part, f)
<1>1. /\ b = [op |-> b.op, payload |-> part.payload, utf8 |-> "accept"]
      /\ part.payload \in Seq(Chars) /\ f.payload \in Seq(Chars)
  BY BegunType
<1>2. SubSeq(f.payload, 1, 0) = <<>>
  BY <1>1, SubSeqEmpty
<1>3. part.payload \o <<>> = part.payload
  BY <1>1, ConcatEmptySeq
<1>4. g = [op |-> b.op, payload |-> part.payload, utf8 |-> "accept"]
  <2> HIDE DEF b
  <2>1. g = [b EXCEPT !.payload = part.payload]
    BY <1>2, <1>3 DEF Grown, b
  <2> HIDE DEF g
  <2> QED
    BY <1>1, <2>1
<1>5. CASE part # NoMsg
  <2>1. m # NoMsg /\ b = part
    BY <1>5, HoldsNoMsg DEF Begun
  <2> HIDE DEF g, b
  <2>2. g.op = part.op /\ g.payload = part.payload
    BY <1>4, <2>1
  <2>3. Holds(m, g)
    BY <2>2 DEF Holds
  <2> QED
    BY <2>1, <2>3 DEF g
<1>6. CASE part = NoMsg
  <2>1. m = NoMsg
    BY <1>6, HoldsNoMsg
  <2>2. b.op = f.op /\ part.payload = <<>>
    BY <1>6 DEF Begun, NoMsg
  <2>3. [NoMsg EXCEPT !.op = f.op] = [op |-> f.op, payload |-> <<>>, utf8 |-> "accept"]
    BY DEF NoMsg
  <2>4. Validated("accept", <<>>) = "accept"
    BY ValidatedEmpty DEF States
  <2> HIDE DEF g, b
  <2>5. g.op = f.op /\ g.payload = <<>>
    BY <1>4, <2>2
  <2>6. Holds([NoMsg EXCEPT !.op = f.op], g)
    BY <2>3, <2>4, <2>5 DEF Holds
  <2> QED
    BY <2>1, <2>6 DEF g
<1> QED
  BY <1>5, <1>6

(* The extended header, of no bytes or two; then the message is begun.     *)
LEMMA HeaderExtendedStep ==
  ASSUME IInv, HeaderExtended
  PROVE  IInv'
<1>1. PICK k \in 0..MaxFrames, d \in 0..pos : At(k, d)
  BY DEF IInv
<1>2. Typed /\ UNCHANGED <<frames, m_basic_header, delivered>> /\ ~failed /\ m_state = "HEADER_EXTENDED"
  BY DEF IInv, HeaderExtended, Turn
<1> DEFINE f == frames[k + 1]
           b == Bytes(f)
           part == Decoded[k].part
           h == HeaderLen(f)
           n == Min(m_bytes_needed, unread)
           ext == m_extended_header \o Upcoming(n)
           op == m_basic_header[1].op
           long == m_basic_header[2] = Code16
           size == IF long THEN ext[2] ELSE m_basic_header[2]
           slot == IF IsControl(op) THEN "control" ELSE "data"
           begun == ~IsControl(op) /\ msg.data # NoMsg
           tooBig == ~IsControl(op) /\ Len(msg.data.payload) + size > MaxMessage
           illSize == (long /\ size <= Basic) \/ tooBig
           partial == /\ m_bytes_needed' = m_bytes_needed - n
                      /\ UNCHANGED <<m_state, msg, m_current_msg, failed>>
           fails == Fails /\ m_bytes_needed' = size
           goes == /\ m_state' = "APPLICATION" /\ m_bytes_needed' = size
                   /\ m_current_msg' = slot
                   /\ msg' = IF begun THEN msg ELSE [msg EXCEPT ![slot] = [NoMsg EXCEPT !.op = op]]
                   /\ UNCHANGED failed
<1>3. k < MaxFrames /\ AtExtendedHeader(part, f, d)
  BY <1>1, <1>2 DEF At, Within, AtBasicHeader, AtPayload
<1>4. f \in Inputs /\ f \in Frames /\ part \in Parts /\ k \in 0..MaxFrames-1
  BY <1>2, <1>3, SizesOf
<1>5. /\ b \in Seq(Byte) /\ h \in {2, 4} /\ Len(f.payload) \in Nat
      /\ Len(b) \in Nat /\ h <= Len(b)
  <2>1. /\ b \in Seq(Byte) /\ h \in {2, 4} /\ Len(f.payload) \in Nat
        /\ Len(b) = h + Len(f.payload)
    BY <1>4, BytesParts
  <2>2. PICK l \in Nat : l = Len(f.payload)
    BY <2>1
  <2> HIDE DEF h, b
  <2>3. h + l \in Nat /\ h <= h + l
    BY <2>1
  <2> QED
    BY <2>1, <2>2, <2>3
<1>6. d \in 2..h /\ m_bytes_needed = h - d
  BY <1>3 DEF AtExtendedHeader
<1>7. n \in Nat /\ n <= m_bytes_needed /\ n <= unread /\ d + n \in 2..h /\ m_bytes_needed \in Nat
  <2> HIDE DEF h
  <2>1. m_bytes_needed \in Nat /\ unread \in Nat
    BY <1>2, <1>5, <1>6 DEF Typed
  <2>2. n \in Nat /\ n <= m_bytes_needed /\ n <= unread
    BY <2>1, MinIs
  <2> HIDE DEF n
  <2>3. d + n \in 2..h
    BY <1>5, <1>6, <2>2
  <2> QED
    BY <2>1, <2>2, <2>3
<1>8. PICK e \in Nat : e = d + n
  BY <1>6, <1>7
<1>9. /\ Processed(n) /\ m_extended_header' = ext
      /\ CASE n < m_bytes_needed -> partial
           [] n = m_bytes_needed /\ illSize -> fails
           [] OTHER -> goes
  BY DEF HeaderExtended
<1> HIDE DEF n
<1>10. ext = SubSeq(b, 3, d + n) /\ Len(ext) \in 0..2
  <2>1. m_extended_header = SubSeq(b, 3, d)
    BY <1>3 DEF AtExtendedHeader
  <2>2. d + n <= Len(b) /\ 3 <= d + 1 /\ d \in Nat /\ 3 <= d + n + 1 /\ d + n \in Nat /\ d + n <= 4
    <3> HIDE DEF b, h
    <3> QED
      BY <1>5, <1>6, <1>7
  <2>3. Upcoming(n) = SubSeq(b, d + 1, d + n)
    BY <1>1, <1>2, <1>4, <1>7, <2>2, UpcomingIs DEF At, Typed
  <2> HIDE DEF b
  <2>4. SubSeq(b, 3, d) \o SubSeq(b, d + 1, d + n) = SubSeq(b, 3, d + n)
    BY <1>5, <1>7, <2>2, SliceGrows
  <2>5. ext = SubSeq(b, 3, d + n)
    BY <2>1, <2>3, <2>4, Zenon
  <2>6. Len(SubSeq(b, 3, d + n)) = (d + n) - 3 + 1
    <3> DEFINE end == d + n
    <3> HIDE DEF end
    <3>1. Len(SubSeq(b, 3, end)) = end - 3 + 1
      BY <1>5, <2>2, SliceLen DEF end
    <3> QED
      BY <3>1 DEF end
  <2> HIDE DEF ext
  <2>7. Len(ext) \in 0..2
    BY <2>2, <2>5, <2>6
  <2> QED
    BY <2>5, <2>7
<1>11. /\ n < m_bytes_needed => partial
       /\ n = m_bytes_needed /\ illSize => fails
       /\ n = m_bytes_needed /\ ~illSize => goes
  <2> HIDE DEF illSize, partial, fails, goes
  <2> QED
    BY <1>7, <1>9
<1>12. /\ Decoded' = Decoded /\ BytesIn(k)' = BytesIn(k)
       /\ pos' = BytesIn(k) + e /\ part' = part /\ f' = f
  <2>1. PICK z \in Nat : z = BytesIn(k)
    BY <1>2, SizesOf
  <2>2. pos = z + d /\ pos' = pos + n
    BY <1>1, <1>9, <2>1 DEF At, Processed
  <2>3. pos' = z + e
    BY <1>6, <1>7, <1>8, <2>2
  <2> QED
    BY <1>2, <2>1, <2>3, Fixed
<1>13. Idle(part) /\ Holds(msg["data"], part) /\ ~IllHeader(part, f) /\ m_basic_header = SubSeq(b, 1, 2)
  BY <1>3 DEF AtExtendedHeader, Idle
<1>14. op = f.op /\ m_basic_header[2] = SizeCode(f) /\ long = f.long /\ Len(m_basic_header) = 2
  <2>1. /\ m_basic_header[1] = [op |-> f.op, fin |-> f.fin] /\ m_basic_header[2] = SizeCode(f)
        /\ Len(m_basic_header) = 2
    BY <1>4, <1>13, HeaderSlice
  <2>2. f.long = (SizeCode(f) = Code16)
    BY <1>4, <1>5, FramesAssumption DEF SizeCode, Code16, Frames
  <2> QED
    BY <2>1, <2>2
<1>15. CASE n < m_bytes_needed
  <2>1. Typed'
    BY <1>2, <1>7, <1>9, <1>11, <1>15, Moved DEF Typed
  <2>2. AtExtendedHeader(part, f, e)'
    <3>1. m_bytes_needed' = h - e
      BY <1>8, <1>5, <1>6, <1>7, <1>11, <1>15
    <3>2. Idle(part)'
      BY <1>11, <1>12, <1>13, <1>15 DEF Idle
    <3> HIDE DEF ext
    <3> QED
      BY <1>2, <1>7, <1>9, <1>10, <1>11, <1>12, <1>13, <1>15, <1>8, <3>1, <3>2 DEF AtExtendedHeader
  <2>3. At(k, e)'
    BY <1>1, <1>2, <1>3, <1>11, <1>12, <1>15, <2>2 DEF At, Within
  <2> QED
    BY <1>12, <2>1, <2>3, Witnessed
<1>16. CASE n = m_bytes_needed
  <2>1. e = h
    <3> HIDE DEF h
    <3> QED
      BY <1>5, <1>6, <1>16, <1>8
  <2>2. size = Len(f.payload)
    <3>1. CASE f.long
      <4>1. ext = SubSeq(b, 3, 4)
        BY <1>10, <1>8, <2>1, <3>1 DEF HeaderLen
      <4> HIDE DEF ext
      <4> QED
        BY <1>4, <1>14, <3>1, <4>1, SizeSlice
    <3>2. CASE ~f.long
      BY <1>14, <3>2 DEF SizeCode
    <3> QED
      BY <3>1, <3>2
  <2>3. msg.data.payload = part.payload /\ (msg.data = NoMsg <=> part = NoMsg)
    BY <1>4, <1>13, HoldsNoMsg
  <2>4. illSize <=> IllSize(part, f)
    <3> HIDE DEF size, long, op
    <3> QED
      BY <1>14, <2>2, <2>3 DEF IllSize
  <2> HIDE DEF size, op, long, ext, illSize
  <2>5. CASE illSize
    <3>1. Fails /\ m_bytes_needed' = Len(f.payload)
      BY <1>11, <1>16, <2>2, <2>5
    <3>2. Typed'
      BY <1>2, <1>7, <1>9, <3>1, Moved DEF Typed, Fails
    <3>3. Stopped(part, f, e)'
      <4>1. e \in 1..Len(b)
        <5> HIDE DEF b, h
        <5> QED
          BY <1>5, <2>1
      <4> QED
        BY <1>2, <1>5, <1>9, <1>10, <1>12, <1>14, <2>4, <2>5, <3>1, <4>1 DEF Stopped, Fails, Ill
    <3>4. At(k, e)'
      BY <1>1, <1>2, <1>3, <1>12, <3>1, <3>3 DEF At, Within, Fails
    <3> QED
      BY <1>12, <3>2, <3>4, Witnessed
  <2>6. CASE ~illSize
    <3>1. goes
      BY <1>11, <1>16, <2>6
    <3>2. ~IllSize(part, f) /\ m_bytes_needed' = Len(f.payload) /\ m_state' = "APPLICATION"
          /\ m_current_msg' = slot /\ UNCHANGED failed
      BY <2>2, <2>4, <2>6, <3>1
    <3>3. f.op \in Ops /\ f.payload \in Seq(Chars) /\ SubSeq(f.payload, 1, 0) = <<>>
      <4>1. f.op \in Ops /\ f.payload \in Seq(Chars)
        BY <1>4 DEF Frames, Chars
      <4> QED
        BY <4>1, SubSeqEmpty
    <3>4. [NoMsg EXCEPT !.op = op] = [op |-> f.op, payload |-> <<>>, utf8 |-> "accept"]
      BY <1>14 DEF NoMsg
    <3>5. [NoMsg EXCEPT !.op = op] \in Slots
      <4>1. [op |-> f.op, payload |-> <<>>, utf8 |-> "accept"] \in Slots
        BY <3>3 DEF Slots, States
      <4> QED
        BY <3>4, <4>1, Zenon
    <3>6. msg' \in [{"data", "control"} -> Slots] /\ m_current_msg' \in {"data", "control"}
      BY <1>2, <3>1, <3>5 DEF Typed
    <3>7. Typed'
      BY <1>2, <1>7, <1>9, <3>2, <3>6, Moved DEF Typed
    <3>8. Filling(part, f, 0)'
      <4>1. CASE IsControl(f.op)
        <5>1. msg' = [msg EXCEPT !["control"] = [NoMsg EXCEPT !.op = op]] /\ m_current_msg' = "control"
          BY <1>14, <3>1, <4>1
        <5>2. msg'["control"] = [op |-> f.op, payload |-> <<>>, utf8 |-> "accept"] /\ msg'["data"] = msg["data"]
          BY <1>2, <3>4, <5>1 DEF Typed
        <5>3. Holds(msg["data"], part)'
          BY <1>12, <1>13, <5>2
        <5> QED
          BY <1>12, <3>3, <4>1, <5>1, <5>2, <5>3 DEF Filling
      <4>2. CASE ~IsControl(f.op)
        <5>1. /\ msg' = (IF msg.data # NoMsg THEN msg ELSE [msg EXCEPT !["data"] = [NoMsg EXCEPT !.op = op]])
              /\ m_current_msg' = "data"
          BY <1>14, <3>1, <4>2
        <5>2. /\ msg'["data"] = IF msg["data"] # NoMsg THEN msg["data"] ELSE [NoMsg EXCEPT !.op = f.op]
              /\ msg'["control"] = msg["control"]
          BY <1>2, <1>14, <5>1 DEF Typed
        <5>3. Holds(msg'["data"], Grown(part, f, 0))
          BY <1>4, <1>13, <4>2, <5>2, GrownZero
        <5>4. msg'["control"] = NoMsg
          BY <1>13, <5>2 DEF Idle
        <5> QED
          BY <1>12, <4>2, <5>1, <5>3, <5>4 DEF Filling
      <4> QED
        BY <4>1, <4>2
    <3>9. AtPayload(part, f, 0)'
      <4>1. 0 \in 0..Len(f.payload) /\ Len(f.payload) - 0 = Len(f.payload)
        BY <1>5
      <4> QED
        BY <1>2, <1>9, <1>10, <1>12, <1>13, <3>2, <3>8, <4>1 DEF AtPayload
    <3>10. e - HeaderLen(f) = 0
      BY <1>5, <2>1
    <3>11. Within(part, f, e)'
      BY <1>2, <1>12, <3>2, <3>9, <3>10 DEF Within
    <3>12. At(k, e)'
      BY <1>1, <1>2, <1>3, <1>12, <3>11 DEF At
    <3> QED
      BY <1>12, <3>7, <3>12, Witnessed
  <2> QED
    BY <2>5, <2>6
<1> QED
  BY <1>7, <1>15, <1>16

LEMMA GrownIs ==
  ASSUME NEW part \in Parts, NEW f \in Inputs, ~IllHeader(part, f), ~IsControl(f.op), NEW j
  PROVE  Grown(part, f, j) = [op |-> Begun(part, f).op,
                              payload |-> part.payload \o SubSeq(f.payload, 1, j), utf8 |-> "accept"]
<1> DEFINE b == Begun(part, f)
           w == part.payload \o SubSeq(f.payload, 1, j)
<1>1. b = [op |-> b.op, payload |-> part.payload, utf8 |-> "accept"]
  BY BegunType
<1>2. Grown(part, f, j) = [b EXCEPT !.payload = w]
  BY DEF Grown
<1> HIDE DEF b, w
<1>3. [b EXCEPT !.payload = w] = [op |-> b.op, payload |-> w, utf8 |-> "accept"]
  BY <1>1
<1> QED
  BY <1>2, <1>3 DEF b, w

Associative(x, y, z) == (x \o y) \o z = x \o (y \o z)

LEMMA CharsJoin ==
  ASSUME NEW x \in Seq(Chars), NEW y \in Seq(Chars), NEW z \in Seq(Chars)
  PROVE  Associative(x, y, z)
BY ConcatAssociative DEF Associative

(* process_payload_bytes: the validator after chunk has been added to m;   *)
(* and what it means, i bytes of the frame f being then in the message.    *)
Utf8After(m, chunk) == IF m.op = "text" THEN Validated(m.utf8, chunk) ELSE m.utf8

GrowsTo(part, f, i, m, chunk, u) ==
  /\ m.op \in Ops /\ m.payload \o chunk \in Seq(Chars) /\ u \in States
  /\ u # "reject" => Holds([op |-> m.op, payload |-> m.payload \o chunk, utf8 |-> u], Grown(part, f, i))
  /\ u = "reject" => IllText(part, f)
  /\ i = Len(f.payload) =>
       (IllText(part, f) <=> u = "reject" \/ (f.fin /\ f.op = "text" /\ u # "accept"))

(* A piece of the payload, added to the message and fed to the validator,  *)
(* makes it the message with those bytes more; if the validator rejects it *)
(* the frame is in error, whatever comes after.                            *)
LEMMA Grows ==
  ASSUME NEW part \in Parts, NEW f \in Inputs, ~IllHeader(part, f), ~IsControl(f.op),
         NEW j \in Nat, NEW n \in Nat, j + n <= Len(f.payload),
         NEW m, Holds(m, Grown(part, f, j)),
         NEW chunk, chunk = SubSeq(f.payload, j + 1, j + n),
         NEW u, u = Utf8After(m, chunk)
  PROVE  GrowsTo(part, f, j + n, m, chunk, u)
<1> DEFINE p == f.payload
           q == part.payload
           b == Begun(part, f)
           l == Len(p)
           x == SubSeq(p, 1, j)
           y == SubSeq(p, 1, j + n)
           z == SubSeq(p, j + n + 1, l)
<1>1. /\ b = [op |-> b.op, payload |-> q, utf8 |-> "accept"] /\ b.op \in {"text", "binary"}
      /\ q \in Seq(Chars) /\ p \in Seq(Chars) /\ (f.op = "text" => b.op = "text")
  BY BegunType
<1>2. l \in Nat /\ j <= l /\ j + n \in Nat /\ j + n <= l
  <2>1. l \in Nat /\ j + n <= l
    BY <1>1, LenProperties
  <2> HIDE DEF l
  <2> QED
    BY <2>1
<1>3. x \in Seq(Chars) /\ y \in Seq(Chars) /\ chunk \in Seq(Chars) /\ z \in Seq(Chars)
  <2>1. x \in Seq(Chars) /\ y \in Seq(Chars)
    BY <1>1, <1>2, SliceLen
  <2>2. chunk \in Seq(Chars)
    BY <1>1, <1>2, SliceIs
  <2>3. j + n + 1 \in Nat \ {0} /\ j + n + 1 <= l + 1 /\ l <= Len(p)
    <3> HIDE DEF l
    <3>1. j + n + 1 \in Nat \ {0} /\ j + n + 1 <= l + 1 /\ l <= l
      BY <1>2
    <3> QED
      BY <3>1 DEF l
  <2>4. z \in Seq(Chars)
    <3> DEFINE i == j + n + 1
    <3> HIDE DEF i, l, p
    <3>1. SubSeq(p, i, l) \in Seq(Chars)
      BY <1>1, <1>2, <2>3, SliceLen DEF i
    <3> QED
      BY <3>1 DEF i
  <2> QED
    BY <2>1, <2>2, <2>4
<1>4. x \o chunk = y
  <2>1. 1 \in Nat \ {0} /\ 1 <= j + 1
    OBVIOUS
  <2> QED
    BY <1>1, <1>2, <2>1, SliceGrows
<1>5. y \o z = p
  <2>1. SubSeq(p, 1, l) = p
    BY <1>1, SubSeqFull
  <2> DEFINE i == j + n
             c == l - i
  <2>2. c \in Nat /\ i + c = l /\ i \in Nat /\ 1 <= i + 1 /\ 1 \in Nat \ {0} /\ l <= l
    <3> HIDE DEF l
    <3> QED
      BY <1>2
  <2> HIDE DEF i, c, p
  <2>3. SubSeq(p, 1, i) \o SubSeq(p, i + 1, i + c) = SubSeq(p, 1, i + c)
    BY <1>1, <2>2, SliceGrows DEF l
  <2>4. SubSeq(p, 1, i) \o SubSeq(p, i + 1, l) = p
    BY <2>1, <2>2, <2>3
  <2> QED
    BY <2>4 DEF i
<1> HIDE DEF x, y, z, p, q, b, l
<1>6. /\ q \o x \in Seq(Chars) /\ q \o y \in Seq(Chars)
      /\ (q \o x) \o chunk = q \o y /\ (q \o y) \o z = q \o p
  <2>1. q \in Seq(Chars)
    BY <1>1
  <2>2. Associative(q, x, chunk) /\ Associative(q, y, z)
    BY <1>3, <2>1, CharsJoin
  <2>3. (q \o x) \o chunk = q \o y
    BY <1>4, <2>2, Zenon DEF Associative
  <2>4. (q \o y) \o z = q \o p
    BY <1>5, <2>2, Zenon DEF Associative
  <2>5. q \o x \in Seq(Chars) /\ q \o y \in Seq(Chars)
    BY <1>1, <1>3, ConcatParts
  <2> QED
    BY <1>4, <1>5, <2>3, <2>5, <2>4
<1> DEFINE qx == q \o x
           qy == q \o y
<1>7. qx \in Seq(Chars) /\ qy \in Seq(Chars) /\ qx \o chunk = qy /\ qy \o z = q \o p
  BY <1>6
<1>8. /\ Grown(part, f, j) = [op |-> b.op, payload |-> qx, utf8 |-> "accept"]
      /\ Grown(part, f, j + n) = [op |-> b.op, payload |-> qy, utf8 |-> "accept"]
  BY GrownIs DEF b, q, x, y, p
<1> HIDE DEF qx, qy
<1>9. /\ m.op = b.op /\ m.payload = qx
      /\ m.utf8 = (IF b.op = "text" THEN Validated("accept", qx) ELSE "accept")
      /\ m.utf8 # "reject"
  BY <1>8 DEF Holds
<1>10. u = IF b.op = "text" THEN Validated("accept", qy) ELSE "accept"
  <2>1. CASE b.op = "text"
    <3>1. "accept" \in States
      BY DEF States
    <3>2. Validated("accept", qx \o chunk) = Validated(Validated("accept", qx), chunk)
      BY <1>3, <1>7, <3>1, ValidatedConcat
    <3>3. u = Validated(Validated("accept", qx), chunk)
      BY <1>9, <2>1 DEF Utf8After
    <3> QED
      BY <1>7, <2>1, <3>2, <3>3
  <2>2. CASE b.op # "text"
    BY <1>9, <2>2 DEF Utf8After
  <2> QED
    BY <2>1, <2>2
<1>11. u \in States
  <2>1. "accept" \in States
    BY DEF States
  <2>2. Validated("accept", qy) \in States
    BY <1>7, <2>1, ValidatedConcat
  <2> QED
    BY <1>10, <2>1, <2>2
<1>12. m.payload \o chunk = qy
  BY <1>7, <1>9
<1>13. u # "reject" => Holds([op |-> m.op, payload |-> m.payload \o chunk, utf8 |-> u], Grown(part, f, j + n))
  <2> DEFINE r == [op |-> b.op, payload |-> qy, utf8 |-> u]
             g == Grown(part, f, j + n)
  <2>1. g.op = b.op /\ g.payload = qy
    BY <1>8
  <2> HIDE DEF g
  <2>2. u # "reject" => Holds(r, g)
    BY <1>10, <2>1 DEF Holds
  <2> QED
    BY <1>9, <1>12, <2>2 DEF g
<1>14. Whole(part, f) = q \o p
  <2>1. b.payload = q
    BY <1>1
  <2> QED
    BY <2>1 DEF Whole, b, p
<1>15. ASSUME u = "reject" PROVE IllText(part, f)
  <2>1. b.op = "text" /\ Validated("accept", qy) = "reject"
    BY <1>10, <1>15
  <2>2. "accept" \in States
    BY DEF States
  <2>3. Validated("accept", qy \o z) = Validated(Validated("accept", qy), z)
    BY <1>3, <1>7, <2>2, ValidatedConcat
  <2>4. Validated("reject", z) = "reject"
    BY <1>3, RejectStays
  <2>5. Validated("accept", q \o p) = "reject"
    BY <1>7, <2>1, <2>3, <2>4
  <2> QED
    BY <1>14, <2>1, <2>5 DEF IllText, b
<1>16. ASSUME j + n = Len(f.payload)
       PROVE  IllText(part, f) <=> u = "reject" \/ (f.fin /\ f.op = "text" /\ u # "accept")
  <2>1. qy = q \o p
    <3>1. SubSeq(p, 1, l) = p
      BY <1>1, SubSeqFull DEF l
    <3>2. y = p
      BY <1>16, <3>1 DEF y, l, p
    <3> QED
      BY <3>2 DEF qy
  <2>2. u = IF b.op = "text" THEN Validated("accept", Whole(part, f)) ELSE "accept"
    BY <1>10, <1>14, <2>1
  <2> QED
    BY <1>1, <2>2 DEF IllText, b
<1>17. m.op \in Ops
  BY <1>1, <1>9 DEF Ops
<1> QED
  BY <1>7, <1>11, <1>12, <1>13, <1>15, <1>16, <1>17 DEF GrowsTo

LEMMA SlotChange ==
  ASSUME NEW m \in Slots, NEW w, NEW u
  PROVE  [m EXCEPT !.payload = w, !.utf8 = u] = [op |-> m.op, payload |-> w, utf8 |-> u]
<1> DEFINE r == [m EXCEPT !.payload = w, !.utf8 = u]
<1>1. r \in [op : {m.op}, payload : {w}, utf8 : {u}]
  BY DEF Slots
<1> HIDE DEF r
<1>2. r = [op |-> r.op, payload |-> r.payload, utf8 |-> r.utf8]
  BY <1>1
<1> QED
  BY <1>1, <1>2 DEF r

(* Some of the payload: there is more to come, or it was a fragment, or    *)
(* the message is ready, or it is not UTF-8.                               *)
LEMMA ApplicationStep ==
  ASSUME IInv, Application
  PROVE  IInv'
<1>1. PICK k \in 0..MaxFrames, d \in 0..pos : At(k, d)
  BY DEF IInv
<1>2. Typed /\ UNCHANGED <<frames, delivered>> /\ ~failed /\ m_state = "APPLICATION"
  BY DEF IInv, Application, Turn
<1> DEFINE f == frames[k + 1]
           b == Bytes(f)
           part == Decoded[k].part
           l == Len(f.payload)
           n == Min(m_bytes_needed, unread)
           chunk == Upcoming(n)
           m == msg[m_current_msg]
           utf8 == IF m.op = "text" THEN Validated(m.utf8, chunk) ELSE m.utf8
           h == m_basic_header[1]
           grown == [m EXCEPT !.payload = @ \o chunk, !.utf8 = utf8]
           wrong == utf8 = "reject" \/ (n = m_bytes_needed /\ h.fin /\ h.op = "text" /\ utf8 # "accept")
           fails == Fails /\ UNCHANGED <<m_bytes_needed, m_basic_header, m_extended_header>>
           partial == /\ m_bytes_needed' = m_bytes_needed - n
                      /\ UNCHANGED <<m_state, m_basic_header, m_extended_header>>
           ready == /\ m_state' = "READY" /\ m_bytes_needed' = 0
                    /\ UNCHANGED <<m_basic_header, m_extended_header>>
<1>3. k < MaxFrames /\ AtPayload(part, f, d - HeaderLen(f))
  BY <1>1, <1>2 DEF At, Within, AtBasicHeader, AtExtendedHeader
<1>4. /\ f \in Inputs /\ f \in Frames /\ part \in Parts /\ k \in 0..MaxFrames-1
      /\ k + 1 \in 0..MaxFrames /\ Decoded[k] \in Results
      /\ Decoded[k + 1] = Combined(Decoded[k], f) /\ BytesIn(k + 1) = BytesIn(k) + Len(b)
  BY <1>2, <1>3, SizesOf
<1>5. b \in Seq(Byte) /\ HeaderLen(f) \in {2, 4} /\ l \in Nat /\ Len(b) = HeaderLen(f) + l
  BY <1>4, BytesParts
<1>6. PICK j \in Nat : j = d - HeaderLen(f) /\ j <= l /\ m_bytes_needed = l - j
  <2> HIDE DEF l, f
  <2>1. d - HeaderLen(f) \in 0..l /\ m_bytes_needed = l - (d - HeaderLen(f))
    BY <1>3 DEF AtPayload, l
  <2> QED
    BY <1>5, <2>1
<1>7. AtPayload(part, f, j) /\ Filling(part, f, j) /\ ~IllHeader(part, f) /\ ~IllSize(part, f)
      /\ m_basic_header = SubSeq(b, 1, 2) /\ Len(m_extended_header) \in 0..2
  BY <1>3, <1>6 DEF AtPayload
<1>8. h.op = f.op /\ h.fin = f.fin /\ Len(m_basic_header) = 2
  <2>1. h = [op |-> f.op, fin |-> f.fin] /\ Len(m_basic_header) = 2
    BY <1>4, <1>7, HeaderSlice
  <2> HIDE DEF h, f
  <2> QED
    BY <2>1
<1>9. n \in Nat /\ n <= m_bytes_needed /\ n <= unread /\ j + n <= l /\ m_bytes_needed \in Nat
      /\ (n = m_bytes_needed <=> j + n = l)
  <2> HIDE DEF l
  <2>1. m_bytes_needed \in Nat /\ unread \in Nat
    BY <1>2, <1>5, <1>6 DEF Typed
  <2>2. n \in Nat /\ n <= m_bytes_needed /\ n <= unread
    BY <2>1, MinIs
  <2> HIDE DEF n
  <2> QED
    BY <1>5, <1>6, <2>1, <2>2
<1>10. /\ Processed(n)
       /\ wrong => fails
       /\ ~wrong => /\ msg' = [msg EXCEPT ![m_current_msg] = grown]
                    /\ UNCHANGED <<m_current_msg, failed>>
                    /\ CASE n < m_bytes_needed -> partial
                         [] n = m_bytes_needed /\ h.fin -> ready
                         [] OTHER -> ResetHeaders
  BY DEF Application
<1>11. ~wrong => /\ n < m_bytes_needed => partial
                 /\ n = m_bytes_needed /\ h.fin => ready
                 /\ n = m_bytes_needed /\ ~h.fin => ResetHeaders
  <2> HIDE DEF wrong, partial, ready, n, h
  <2> QED
    BY <1>9, <1>10
<1> HIDE DEF n
<1>12. PICK i \in Nat : i = j + n
  BY <1>9
<1>13. PICK e \in Nat : e = HeaderLen(f) + i
  BY <1>5
<1>14. /\ e - HeaderLen(f) = i /\ i \in 0..l /\ e \in 1..Len(b) /\ (i = l => e = Len(b)) /\ d + n = e
       /\ d = HeaderLen(f) + j
  <2>1. PICK x \in {2, 4} : x = HeaderLen(f)
    BY <1>5
  <2>2. PICK y \in Nat : y = l
    BY <1>5
  <2>3. PICK z \in Nat : z = Len(b)
    BY <1>5, <2>1, <2>2
  <2>4. d \in Int
    BY <1>2 DEF Typed
  <2>5. /\ z = x + y /\ j = d - x /\ j + n <= y /\ n \in Nat /\ i = j + n /\ e = x + i
    BY <1>5, <1>6, <1>9, <1>12, <1>13, <2>1, <2>2, <2>3
  <2> HIDE DEF l, b, f
  <2>6. e - x = i /\ i \in 0..y /\ e \in 1..z /\ (i = y => e = z) /\ d + n = e /\ d = x + j
    BY <2>4, <2>5
  <2> QED
    BY <2>1, <2>2, <2>3, <2>6
<1>15. chunk = SubSeq(f.payload, j + 1, j + n)
  <2>1. d + n <= Len(b)
    <3> HIDE DEF l, b, f
    <3> QED
      BY <1>5, <1>14
  <2>2. chunk = SubSeq(b, d + 1, d + n)
    BY <1>1, <1>2, <1>4, <1>9, <2>1, UpcomingIs DEF At, Typed
  <2>3. SubSeq(b, HeaderLen(f) + j + 1, HeaderLen(f) + j + n) = SubSeq(f.payload, j + 1, j + n)
    BY <1>4, <1>9, PayloadSlice
  <2>4. d + 1 = HeaderLen(f) + j + 1 /\ d + n = HeaderLen(f) + j + n
    BY <1>14
  <2> QED
    BY <2>2, <2>3, <2>4
<1>16. /\ Decoded' = Decoded /\ BytesIn(k)' = BytesIn(k) /\ BytesIn(k + 1)' = BytesIn(k + 1)
       /\ pos' = BytesIn(k) + e /\ part' = part /\ f' = f
  <2>1. PICK z \in Nat : z = BytesIn(k)
    BY <1>2, SizesOf
  <2>2. pos = z + d /\ pos' = pos + n
    BY <1>1, <1>10, <2>1 DEF At, Processed
  <2>3. pos' = z + e
    <3>1. d \in Nat /\ e = d + n
      BY <1>2, <1>14 DEF Typed
    <3> QED
      BY <1>9, <2>2, <3>1
  <2> QED
    BY <1>2, <2>1, <2>3, Fixed
<1> HIDE DEF chunk
<1>17. m \in Slots
  BY <1>2 DEF Typed
<1>18. /\ wrong => IllText(part, f)
       /\ ~wrong => /\ grown \in Slots
                    /\ [msg EXCEPT ![m_current_msg] = grown] \in [{"data", "control"} -> Slots]
       /\ ~wrong /\ n = m_bytes_needed => ~IllText(part, f)
       /\ ~wrong => Filling(part, f, i)'
  <2>1. CASE IsControl(f.op)
    <3>1. /\ m = [op |-> f.op, payload |-> SubSeq(f.payload, 1, j), utf8 |-> "accept"]
          /\ m_current_msg = "control" /\ Holds(msg["data"], part) /\ f.op = "ping"
      BY <1>7, <2>1 DEF Filling, IsControl
    <3>2. utf8 = "accept" /\ m.op = f.op /\ m.payload = SubSeq(f.payload, 1, j) /\ h.op = "ping"
      BY <1>8, <3>1
    <3>3. f.payload \in Seq(Chars) /\ f.op \in Ops
      BY <1>4 DEF Frames, Chars
    <3>4. SubSeq(f.payload, 1, j) \o chunk = SubSeq(f.payload, 1, i)
      <4>1. 1 \in Nat \ {0} /\ 1 <= j + 1
        OBVIOUS
      <4> QED
        BY <1>9, <1>12, <1>15, <3>3, <4>1, SliceGrows
    <3>5. grown = [op |-> f.op, payload |-> SubSeq(f.payload, 1, i), utf8 |-> "accept"]
      <4>1. grown = [m EXCEPT !.payload = m.payload \o chunk, !.utf8 = "accept"]
        BY <3>2
      <4>2. m.payload \o chunk = SubSeq(f.payload, 1, i)
        BY <3>2, <3>4
      <4> HIDE DEF grown
      <4>3. grown = [m EXCEPT !.payload = SubSeq(f.payload, 1, i), !.utf8 = "accept"]
        BY <4>1, <4>2
      <4> DEFINE w == SubSeq(f.payload, 1, i)
      <4> HIDE DEF m, w
      <4>4. [m EXCEPT !.payload = w, !.utf8 = "accept"] = [op |-> m.op, payload |-> w, utf8 |-> "accept"]
        BY <1>17, SlotChange
      <4> QED
        BY <3>2, <4>3, <4>4 DEF w
    <3>6. SubSeq(f.payload, 1, i) \in Seq(Chars)
      <4>1. 1 \in Nat \ {0} /\ 1 <= i + 1
        OBVIOUS
      <4> QED
        BY <1>14, <3>3, <4>1, SliceLen
    <3>7. ~wrong
      BY <3>2
    <3> HIDE DEF utf8, h, wrong, grown
    <3>8. grown \in Slots
      BY <3>3, <3>5, <3>6 DEF Slots, States
    <3>9. /\ [msg EXCEPT ![m_current_msg] = grown] \in [{"data", "control"} -> Slots]
          /\ msg'["control"] = grown /\ msg'["data"] = msg["data"] /\ m_current_msg' = "control"
      BY <1>2, <1>10, <3>1, <3>7, <3>8 DEF Typed
    <3>10. Filling(part, f, i)'
      <4>1. Holds(msg["data"], part)'
        BY <1>16, <3>1, <3>9
      <4> QED
        BY <1>16, <2>1, <3>5, <3>9, <4>1 DEF Filling
    <3>11. ~IllText(part, f)
      BY <2>1 DEF IllText
    <3> QED
      BY <3>7, <3>8, <3>9, <3>10, <3>11
  <2>2. CASE ~IsControl(f.op)
    <3>1. /\ m = msg["data"] /\ m_current_msg = "data" /\ msg["control"] = NoMsg
          /\ Holds(m, Grown(part, f, j))
      BY <1>7, <2>2 DEF Filling
    <3> DEFINE new == [op |-> m.op, payload |-> m.payload \o chunk, utf8 |-> utf8]
    <3> HIDE DEF m
    <3>2. GrowsTo(part, f, j + n, m, chunk, utf8)
      <4>1. utf8 = Utf8After(m, chunk)
        BY DEF Utf8After
      <4>2. f \in Inputs /\ part \in Parts /\ ~IllHeader(part, f) /\ j + n <= Len(f.payload) /\ n \in Nat
        BY <1>4, <1>7, <1>9
      <4> HIDE DEF utf8, f, part
      <4> QED
        BY <1>15, <2>2, <3>1, <4>1, <4>2, Grows
    <3>3. grown = new
      <4> DEFINE w == m.payload \o chunk
      <4> HIDE DEF utf8
      <4>1. grown = [m EXCEPT !.payload = w, !.utf8 = utf8]
        OBVIOUS
      <4> HIDE DEF w, grown
      <4>2. [m EXCEPT !.payload = w, !.utf8 = utf8] = [op |-> m.op, payload |-> w, utf8 |-> utf8]
        BY <1>17, SlotChange
      <4> QED
        BY <4>1, <4>2 DEF w
    <3>4. wrong => IllText(part, f)
      BY <1>8, <1>9, <3>2 DEF GrowsTo
    <3>5. ~wrong /\ n = m_bytes_needed => ~IllText(part, f)
      BY <1>8, <1>9, <3>2 DEF GrowsTo
    <3>6. ~wrong => utf8 # "reject"
      OBVIOUS
    <3> HIDE DEF utf8, grown, wrong, h
    <3>7. grown \in Slots
      <4> DEFINE w == m.payload \o chunk
      <4>1. new = [op |-> m.op, payload |-> w, utf8 |-> utf8] /\ w \in Seq(Chars)
        BY <3>2 DEF GrowsTo
      <4> HIDE DEF new, w
      <4>2. new \in Slots
        BY <3>2, <4>1 DEF Slots, GrowsTo
      <4> QED
        BY <3>3, <4>2
    <3> HIDE DEF new
    <3>8. [msg EXCEPT ![m_current_msg] = grown] \in [{"data", "control"} -> Slots]
      BY <1>2, <3>7 DEF Typed
    <3>9. ASSUME ~wrong PROVE Filling(part, f, i)'
      <4>1. msg'["data"] = grown /\ msg'["control"] = NoMsg /\ m_current_msg' = "data"
        BY <1>2, <1>10, <3>1, <3>9 DEF Typed
      <4>2. Holds(grown, Grown(part, f, i))
        BY <1>12, <3>2, <3>3, <3>6, <3>9 DEF GrowsTo, new
      <4>3. Holds(msg["data"], Grown(part, f, i))'
        BY <1>16, <4>1, <4>2
      <4> QED
        BY <1>16, <2>2, <4>1, <4>3 DEF Filling
    <3> QED
      BY <3>4, <3>5, <3>7, <3>8, <3>9
  <2> QED
    BY <2>1, <2>2
<1> HIDE DEF utf8, grown, wrong, m
<1>19. CASE wrong
  <2>1. fails
    BY <1>10, <1>19
  <2>2. Typed'
    BY <1>2, <1>9, <1>10, <2>1, Moved DEF Typed, Fails
  <2>3. Stopped(part, f, e)'
    BY <1>2, <1>7, <1>8, <1>9, <1>14, <1>16, <1>18, <1>19, <2>1 DEF Stopped, Fails, Ill
  <2>4. At(k, e)'
    BY <1>1, <1>2, <1>3, <1>16, <2>1, <2>3 DEF At, Within, Fails
  <2> QED
    BY <2>2, <2>4, Witnessed
<1>20. CASE ~wrong
  <2>1. Typed'
    BY <1>2, <1>9, <1>10, <1>18, <1>20, Moved DEF Typed
  <2>2. ~failed'
    BY <1>2, <1>10, <1>20
  <2>3. CASE n < m_bytes_needed
    <3>1. partial
      BY <1>11, <1>20, <2>3
    <3>2. m_bytes_needed' = l - i
      <4> HIDE DEF l
      <4> QED
        BY <1>5, <1>6, <1>9, <1>12, <3>1
    <3>3. AtPayload(part, f, i)'
      BY <1>2, <1>7, <1>14, <1>16, <1>18, <1>20, <3>1, <3>2 DEF AtPayload
    <3>4. Within(part, f, e)'
      BY <1>14, <1>16, <2>2, <3>3 DEF Within
    <3>5. At(k, e)'
      BY <1>1, <1>2, <1>3, <1>16, <3>4 DEF At
    <3> QED
      BY <2>1, <3>5, Witnessed
  <2>4. CASE n = m_bytes_needed /\ h.fin
    <3>1. ready
      BY <1>11, <1>20, <2>4
    <3>2. i = l /\ l - l = 0
      BY <1>5, <1>9, <1>12, <2>4
    <3>3. AtPayload(part, f, i)'
      BY <1>7, <1>8, <1>14, <1>16, <1>18, <1>20, <2>4, <3>1, <3>2 DEF AtPayload
    <3>4. Within(part, f, e)'
      BY <1>14, <1>16, <2>2, <3>3 DEF Within
    <3>5. At(k, e)'
      BY <1>1, <1>2, <1>3, <1>16, <3>4 DEF At
    <3> QED
      BY <2>1, <3>5, Witnessed
  <2>5. CASE n = m_bytes_needed /\ ~h.fin
    <3>1. ResetHeaders
      BY <1>11, <1>20, <2>5
    <3>2. i = l /\ e = Len(b) /\ ~Ill(part, f)
      BY <1>7, <1>9, <1>12, <1>14, <1>18, <1>20, <2>5 DEF Ill
    <3>3. ~IsControl(f.op) /\ f.op # "ping" /\ ~f.fin
      BY <1>7, <1>8, <2>5 DEF IllHeader, RefusedHeader, IsControl
    <3> DEFINE w == [Begun(part, f) EXCEPT !.payload = Whole(part, f)]
    <3>4. Decoded[k + 1] = [Decoded[k] EXCEPT !.part = w]
      BY <1>1, <1>4, <3>2, <3>3, CombinedGood DEF At
    <3>5. ~Decoded[k + 1].bad /\ Decoded[k + 1].out = Decoded[k].out /\ Decoded[k + 1].part = w
      <4> HIDE DEF w
      <4> QED
        BY <1>1, <1>4, <3>4 DEF At, Results
    <3>6. Grown(part, f, i) = w
      <4>1. f.payload \in Seq(Chars) /\ Begun(part, f).payload = part.payload
        BY <1>4, <1>7, <3>3, BegunType
      <4>2. SubSeq(f.payload, 1, l) = f.payload
        BY <4>1, SubSeqFull
      <4> QED
        BY <3>2, <4>1, <4>2 DEF Grown, Whole
    <3>7. Idle(Decoded[k + 1].part)'
      <4>1. msg'["control"] = NoMsg /\ Holds(msg'["data"], Grown(part, f, i))
        BY <1>16, <1>18, <1>20, <3>3 DEF Filling
      <4> HIDE DEF w
      <4> QED
        BY <1>16, <3>5, <3>6, <4>1 DEF Idle
    <3>8. AtBasicHeader(k + 1, 0)'
      BY <3>1, <3>7 DEF AtBasicHeader, ResetHeaders
    <3>9. pos' = BytesIn(k + 1)' + 0
      <4>1. pos' = BytesIn(k + 1)
        BY <1>4, <1>16, <3>2
      <4>2. pos' \in Nat
        BY <2>1 DEF Typed
      <4> QED
        BY <1>16, <4>1, <4>2
    <3>10. At(k + 1, 0)'
      BY <1>1, <1>2, <1>16, <2>2, <3>5, <3>8, <3>9 DEF At
    <3> QED
      BY <1>4, <2>1, <3>10, Witnessed
  <2> QED
    BY <1>9, <2>3, <2>4, <2>5
<1> QED
  BY <1>19, <1>20

(* The message that is dispatched is the one the reference adds.           *)
LEMMA GetMessageStep ==
  ASSUME IInv, GetMessage
  PROVE  IInv'
<1>1. PICK k \in 0..MaxFrames, d \in 0..pos : At(k, d)
  BY DEF IInv
<1>2. Typed /\ UNCHANGED <<frames, pos, unread, m_current_msg, failed>> /\ m_state = "READY"
  BY DEF IInv, GetMessage
<1> DEFINE f == frames[k + 1]
           b == Bytes(f)
           part == Decoded[k].part
           l == Len(f.payload)
           m == msg[m_current_msg]
<1>3. k < MaxFrames /\ ~failed /\ AtPayload(part, f, d - HeaderLen(f))
  BY <1>1, <1>2 DEF At, Within, AtBasicHeader, AtExtendedHeader, Stopped
<1>4. /\ f \in Inputs /\ f \in Frames /\ part \in Parts /\ Decoded[k] \in Results
      /\ k + 1 \in 0..MaxFrames /\ ~Decoded[k].bad
      /\ Decoded[k + 1] = Combined(Decoded[k], f) /\ BytesIn(k + 1) = BytesIn(k) + Len(b)
  BY <1>1, <1>2, <1>3, SizesOf DEF At
<1>5. /\ d - HeaderLen(f) = l /\ f.fin /\ ~Ill(part, f) /\ Filling(part, f, l)
  BY <1>2, <1>3 DEF AtPayload, Ill
<1>6. HeaderLen(f) \in {2, 4} /\ l \in Nat /\ Len(b) = HeaderLen(f) + l
  BY <1>4, BytesParts
<1>7. /\ Decoded' = Decoded /\ pos' = BytesIn(k + 1)' + 0
  <2>1. PICK x \in {2, 4} : x = HeaderLen(f)
    BY <1>6
  <2>2. PICK y \in Nat : y = l
    BY <1>6
  <2>3. PICK z \in Nat : z = BytesIn(k)
    BY <1>2, SizesOf
  <2>4. pos = z + d /\ d - x = y /\ BytesIn(k + 1) = z + (x + y) /\ d \in Int
    BY <1>1, <1>2, <1>4, <1>5, <1>6, <2>1, <2>2, <2>3 DEF At, Typed
  <2>5. pos = z + (x + y) /\ pos = pos + 0
    BY <1>2, <2>4 DEF Typed
  <2>6. BytesIn(k + 1)' = BytesIn(k + 1) /\ Decoded' = Decoded
    BY <1>2, Fixed
  <2> QED
    BY <1>2, <2>4, <2>5, <2>6
<1>8. /\ delivered' = Append(Decoded[k].out, [op |-> m.op, payload |-> m.payload])
      /\ msg' = [msg EXCEPT ![m_current_msg] = NoMsg] /\ ResetHeaders
  BY <1>1 DEF GetMessage, At
<1>9. f.payload \in Seq(Chars) /\ SubSeq(f.payload, 1, l) = f.payload
  <2>1. f.payload \in Seq(Chars)
    BY <1>4 DEF Frames, Chars
  <2> QED
    BY <2>1, SubSeqFull
<1>10. Typed'
  <2>1. msg' \in [{"data", "control"} -> Slots]
    BY <1>2, <1>8, SlotsFixed DEF Typed
  <2>2. Processed(0) /\ 0 <= unread
    BY <1>2 DEF Typed, Processed
  <2> QED
    BY <1>2, <2>1, <2>2, Moved DEF Typed
<1>11. /\ delivered' = Decoded[k + 1].out /\ ~Decoded[k + 1].bad
       /\ msg'["control"] = NoMsg /\ Holds(msg'["data"], Decoded[k + 1].part)
  <2>1. CASE IsControl(f.op)
    <3>1. /\ m = [op |-> f.op, payload |-> f.payload, utf8 |-> "accept"] /\ f.op = "ping"
          /\ m_current_msg = "control" /\ Holds(msg["data"], part)
      BY <1>5, <1>9, <2>1 DEF Filling, IsControl
    <3> DEFINE new == [op |-> "ping", payload |-> f.payload]
    <3>2. [op |-> m.op, payload |-> m.payload] = new
      BY <3>1
    <3>3. Decoded[k + 1] = [Decoded[k] EXCEPT !.out = Append(Decoded[k].out, new)]
      BY <1>4, <1>5, <3>1, CombinedGood
    <3> HIDE DEF new
    <3>4. /\ Decoded[k + 1].out = Append(Decoded[k].out, new) /\ ~Decoded[k + 1].bad
          /\ Decoded[k + 1].part = part
      BY <1>4, <3>3 DEF Results
    <3>5. msg'["control"] = NoMsg /\ msg'["data"] = msg["data"]
      BY <1>2, <1>8, <3>1 DEF Typed
    <3> QED
      BY <1>8, <3>1, <3>2, <3>4, <3>5
  <2>2. CASE ~IsControl(f.op)
    <3>1. /\ m = msg["data"] /\ m_current_msg = "data" /\ msg["control"] = NoMsg
          /\ Holds(m, Grown(part, f, l)) /\ f.op # "ping"
      BY <1>5, <2>2 DEF Filling, IsControl
    <3> DEFINE new == [op |-> Begun(part, f).op, payload |-> Whole(part, f)]
    <3>2. m.op = Begun(part, f).op /\ m.payload = Whole(part, f)
      <4>1. Begun(part, f).payload = part.payload /\ ~IllHeader(part, f)
        BY <1>4, <1>5, <2>2, BegunType DEF Ill
      <4>2. Grown(part, f, l) = [op |-> Begun(part, f).op, payload |-> part.payload \o f.payload, utf8 |-> "accept"]
        BY <1>4, <1>9, <2>2, <4>1, GrownIs
      <4> DEFINE g == Grown(part, f, l)
      <4> HIDE DEF g
      <4>3. g = [op |-> Begun(part, f).op, payload |-> part.payload \o f.payload, utf8 |-> "accept"]
        BY <4>2 DEF g
      <4>4. g.op = Begun(part, f).op /\ g.payload = part.payload \o f.payload
        BY <4>3
      <4>5. m.op = g.op /\ m.payload = g.payload
        <5>1. Holds(m, g)
          BY <3>1 DEF g
        <5> QED
          BY <5>1 DEF Holds
      <4> QED
        BY <4>1, <4>4, <4>5 DEF Whole
    <3>3. Decoded[k + 1] = [Decoded[k] EXCEPT !.out = Append(Decoded[k].out, new), !.part = NoMsg,
                                              !.cut = Decoded[k].cut \/ Unended(part, f)]
      BY <1>4, <1>5, <3>1, CombinedGood
    <3>4. [op |-> m.op, payload |-> m.payload] = new
      BY <3>2
    <3> HIDE DEF new
    <3>5. /\ Decoded[k + 1].out = Append(Decoded[k].out, new) /\ ~Decoded[k + 1].bad
          /\ Decoded[k + 1].part = NoMsg
      BY <1>4, <3>3 DEF Results
    <3>6. msg'["control"] = NoMsg /\ msg'["data"] = NoMsg
      BY <1>2, <1>8, <3>1 DEF Typed
    <3>7. Holds(NoMsg, NoMsg)
      BY DEF Holds, NoMsg
    <3> QED
      BY <1>8, <3>4, <3>5, <3>6, <3>7
  <2> QED
    BY <2>1, <2>2
<1>12. AtBasicHeader(k + 1, 0)'
  <2>1. Idle(Decoded[k + 1].part)'
    BY <1>7, <1>11 DEF Idle
  <2> QED
    BY <1>8, <2>1 DEF AtBasicHeader, ResetHeaders
<1>13. At(k + 1, 0)'
  BY <1>2, <1>3, <1>7, <1>11, <1>12 DEF At
<1> QED
  BY <1>4, <1>10, <1>13, Witnessed

LEMMA InitStep == Init => IInv
<1> SUFFICES ASSUME Init PROVE IInv
  OBVIOUS
<1>1. frames \in [1..MaxFrames -> Inputs] /\ pos = 0 /\ unread = 0
  BY DEF Init
<1>2. 0 \in 0..MaxFrames /\ MaxFrames \in 0..MaxFrames /\ 0 \in 0..pos
  BY <1>1, FramesAssumption
<1>3. Typed
  <2>1. Len(Stream) \in Nat
    BY <1>1, <1>2, StreamMono DEF Stream
  <2>2. PICK z \in Nat : z = Len(Stream)
    BY <2>1
  <2>3. pos \in Nat /\ unread \in Nat /\ pos + unread <= z
    BY <1>1, <2>2
  <2>4. msg = [data |-> NoMsg, control |-> NoMsg] /\ m_current_msg = "data" /\ failed = FALSE
    BY DEF Init
  <2>5. msg \in [{"data", "control"} -> Slots]
    BY <2>4, SlotsFixed
  <2>6. m_current_msg \in {"data", "control"} /\ failed \in BOOLEAN
    BY <2>4
  <2> QED
    BY <1>1, <2>2, <2>3, <2>5, <2>6 DEF Typed
<1>4. Decoded[0] = Start /\ BytesIn(0) = 0
  <2>1. Decoded[0] = Start
    BY <1>1, DecodedRec
  <2>2. StreamOf(frames)[0] = <<>>
    BY <1>1, StreamRec
  <2>3. BytesIn(0) = Len(<<>>)
    BY <2>2 DEF BytesIn
  <2> QED
    BY <2>1, <2>3
<1>5. Decoded[0].part = NoMsg /\ ~Decoded[0].bad /\ Decoded[0].out = <<>>
  BY <1>4 DEF Start
<1>6. Idle(NoMsg)
  BY DEF Init, Idle, Holds, NoMsg
<1>7. At(0, 0)
  BY <1>4, <1>5, <1>6 DEF At, AtBasicHeader, Init
<1> QED
  BY <1>2, <1>3, <1>7 DEF IInv

LEMMA StutterStep ==
  ASSUME IInv, UNCHANGED vars
  PROVE  IInv'
<1>1. PICK k \in 0..MaxFrames, d \in 0..pos : At(k, d)
  BY DEF IInv
<1>2. UNCHANGED <<frames, pos, unread, parser, delivered, failed>>
  BY DEF vars
<1>3. Decoded' = Decoded /\ Stream' = Stream /\ BytesIn(k)' = BytesIn(k)
  BY <1>2, Fixed
<1>4. At(k, d)'
  BY <1>1, <1>2, <1>3
     DEF At, AtBasicHeader, Within, AtExtendedHeader, AtPayload, Stopped, Idle, Filling, parser
<1>5. Typed'
  BY <1>2, <1>3 DEF IInv, Typed, parser
<1> QED
  BY <1>4, <1>5, Witnessed

(* However the bytes are cut into reads, consume() stands where the bytes  *)
(* processed put it: it has dispatched what the frames that are complete   *)
(* say, and holds what the bytes of the next one say.                      *)
THEOREM Invariance == Spec => []IInv
<1>1. IInv /\ [Next]_vars => IInv'
  BY ReadStep, HeaderBasicStep, HeaderExtendedStep, ApplicationStep, GetMessageStep, StutterStep
     DEF Next, Process
<1> QED
  BY <1>1, InitStep, PTL DEF Spec

LEMMA IInvTypes == IInv => TypeOK
<1> SUFFICES ASSUME IInv PROVE TypeOK
  OBVIOUS
<1>1. PICK k \in 0..MaxFrames, d \in 0..pos : At(k, d)
  BY DEF IInv
<1>2. Typed
  BY DEF IInv
<1> DEFINE f == frames[k + 1]
           b == Bytes(f)
<1>3. delivered \in Seq(Messages)
  BY <1>1, <1>2, SizesOf DEF At, Results
<1>4. \A m \in {"data", "control"} :
        msg[m].op \in Ops \cup {"none"} /\ msg[m].utf8 \in {"accept", "more", "reject"}
  BY <1>2 DEF Typed, Slots, States
<1>5. /\ m_state \in {"HEADER_BASIC", "HEADER_EXTENDED", "APPLICATION", "READY"}
      /\ m_bytes_needed \in Nat /\ Len(m_basic_header) <= 2 /\ Len(m_extended_header) <= 2
      /\ m_state = "HEADER_BASIC" => Len(m_basic_header) + m_bytes_needed = 2
  <2>1. CASE AtBasicHeader(k, d)
    <3>1. Len(m_basic_header) = d
      <4>1. CASE d = 0
        BY <2>1, <4>1 DEF AtBasicHeader
      <4>2. CASE d = 1
        <5>1. f \in Frames /\ m_basic_header = SubSeq(b, 1, 1)
          BY <1>2, <2>1, <4>2, SizesOf DEF AtBasicHeader
        <5>2. PICK l \in Nat : l = Len(f.payload)
          BY <5>1, BytesParts
        <5>3. b \in Seq(Byte) /\ HeaderLen(f) \in {2, 4} /\ Len(b) = HeaderLen(f) + l
          BY <5>1, <5>2, BytesParts
        <5>4. 1 <= Len(b) /\ 1 <= 1 + 1 /\ 1 \in Nat \ {0} /\ 1 - 1 + 1 = 1
          BY <5>3
        <5> HIDE DEF b
        <5>5. Len(SubSeq(b, 1, 1)) = 1
          BY <5>3, <5>4, SliceLen
        <5> QED
          BY <4>2, <5>1, <5>5
      <4> QED
        BY <2>1, <4>1, <4>2 DEF AtBasicHeader
    <3>2. /\ Len(m_extended_header) = 0 /\ m_state = "HEADER_BASIC"
          /\ d \in {0, 1} /\ m_bytes_needed = 2 - d
      BY <2>1 DEF AtBasicHeader
    <3>3. m_bytes_needed \in Nat /\ d <= 2 /\ 0 <= 2 /\ d + m_bytes_needed = 2
      BY <3>2
    <3> QED
      BY <3>1, <3>2, <3>3
  <2>2. CASE k < MaxFrames /\ Within(Decoded[k].part, f, d)
    <3>1. f \in Frames
      BY <1>2, <2>2, SizesOf
    <3>2. /\ b \in Seq(Byte) /\ HeaderLen(f) \in {2, 4} /\ Len(f.payload) \in Nat
          /\ Len(b) = HeaderLen(f) + Len(f.payload) /\ Len(SubSeq(b, 1, 2)) = 2
      BY <3>1, BytesParts, HeaderSlice
    <3>3. CASE failed
      <4>1. /\ m_state \in {"HEADER_BASIC", "HEADER_EXTENDED", "APPLICATION"}
            /\ m_bytes_needed \in Nat /\ Len(m_basic_header) = 2 /\ Len(m_extended_header) \in 0..2
            /\ m_state = "HEADER_BASIC" => m_bytes_needed = 0
        BY <2>2, <3>3 DEF Within, Stopped
      <4>2. Len(m_basic_header) <= 2 /\ Len(m_extended_header) <= 2
        BY <4>1
      <4>3. m_state = "HEADER_BASIC" => Len(m_basic_header) + m_bytes_needed = 2
        BY <4>1
      <4> QED
        BY <4>1, <4>2, <4>3
    <3>4. CASE AtExtendedHeader(Decoded[k].part, f, d)
      <4>1. PICK x \in {2, 4} : x = HeaderLen(f)
        BY <3>2
      <4>2. PICK l \in Nat : l = Len(f.payload)
        BY <3>2
      <4>3. d \in 2..x /\ m_bytes_needed = x - d /\ Len(b) = x + l
        BY <3>2, <3>4, <4>1, <4>2 DEF AtExtendedHeader
      <4>4. /\ d \in Nat /\ 3 <= d + 1 /\ d <= Len(b) /\ d - 3 + 1 <= 2 /\ 3 \in Nat \ {0}
            /\ m_bytes_needed \in Nat
        BY <4>3
      <4> HIDE DEF b
      <4>5. Len(SubSeq(b, 3, d)) = d - 3 + 1
        BY <3>2, <4>4, SliceLen
      <4>6. /\ m_basic_header = SubSeq(b, 1, 2) /\ m_extended_header = SubSeq(b, 3, d)
            /\ m_state = "HEADER_EXTENDED"
        BY <3>4 DEF AtExtendedHeader, b
      <4>7. Len(m_basic_header) = 2 /\ Len(m_extended_header) <= 2
        BY <3>2, <4>4, <4>5, <4>6
      <4>8. 2 <= 2
        OBVIOUS
      <4> QED
        BY <4>4, <4>6, <4>7, <4>8
    <3>5. CASE AtPayload(Decoded[k].part, f, d - HeaderLen(f))
      <4>1. PICK l \in Nat : l = Len(f.payload)
        BY <3>2
      <4>2. PICK j \in 0..l : m_bytes_needed = l - j
        BY <3>5, <4>1 DEF AtPayload
      <4>3. m_bytes_needed \in Nat
        BY <4>2
      <4>4. Len(m_basic_header) = 2 /\ Len(m_extended_header) \in 0..2
        <5>1. m_basic_header = SubSeq(b, 1, 2) /\ Len(m_extended_header) \in 0..2
          BY <3>5 DEF AtPayload
        <5> HIDE DEF b
        <5> QED
          BY <3>2, <5>1
      <4>5. m_state \in {"APPLICATION", "READY"}
        BY <3>5 DEF AtPayload
      <4>6. Len(m_basic_header) <= 2 /\ Len(m_extended_header) <= 2
        <5>1. PICK e \in 0..2 : e = Len(m_extended_header)
          BY <4>4
        <5>2. e <= 2 /\ 2 <= 2
          OBVIOUS
        <5> QED
          BY <4>4, <5>1, <5>2
      <4> QED
        BY <4>3, <4>5, <4>6
    <3> QED
      BY <2>2, <3>3, <3>4, <3>5 DEF Within
  <2> QED
    BY <1>1, <2>1, <2>2 DEF At
<1> QED
  BY <1>2, <1>3, <1>4, <1>5 DEF TypeOK, Typed, Messages, Chars

(* The members of the processor have their types; the two header fields    *)
(* never exceed their size, and the bytes awaited of the basic header are  *)
(* the ones missing.                                                       *)
THEOREM TypeCorrect == Spec => []TypeOK
BY Invariance, IInvTypes, PTL

LEMMA IInvPrompt == IInv => Prompt
<1> SUFFICES ASSUME IInv, Waits,
                    NEW n \in 0..MaxFrames, BytesIn(n) <= pos, n < MaxFrames => pos < BytesIn(n + 1)
             PROVE  delivered = Decoded[n].out /\ ~Decoded[n].bad
  BY DEF Prompt
<1>1. PICK k \in 0..MaxFrames, d \in 0..pos : At(k, d)
  BY DEF IInv
<1>2. Typed
  BY DEF IInv
<1>3. frames \in [1..MaxFrames -> Inputs] /\ pos \in Nat /\ unread \in Nat
  BY <1>2 DEF Typed
<1>4. ~failed /\ m_state # "READY" /\ m_bytes_needed # 0
  BY DEF Waits, Loops
<1>5. PICK x \in Nat : x = BytesIn(k)
  BY <1>2, SizesOf
<1>6. d \in Nat /\ pos = x + d
  BY <1>1, <1>3, <1>5 DEF At
<1>7. ASSUME k < MaxFrames PROVE pos < BytesIn(k + 1)
  <2> DEFINE f == frames[k + 1]
  <2>1. f \in Frames /\ BytesIn(k + 1) = BytesIn(k) + Len(Bytes(f))
    BY <1>2, <1>7, SizesOf
  <2>2. PICK l \in Nat : l = Len(f.payload)
    BY <2>1, BytesParts
  <2>3. PICK h \in {2, 4} : h = HeaderLen(f)
    BY <2>1, BytesParts
  <2>4. Len(Bytes(f)) = h + l
    BY <2>1, <2>2, <2>3, BytesParts
  <2>5. d < h + l
    <3>1. CASE AtBasicHeader(k, d)
      <4>1. d \in {0, 1}
        BY <3>1 DEF AtBasicHeader
      <4> QED
        BY <4>1
    <3>2. CASE AtExtendedHeader(Decoded[k].part, f, d)
      <4>1. d \in 2..h /\ m_bytes_needed = h - d
        BY <2>3, <3>2 DEF AtExtendedHeader
      <4> QED
        BY <1>4, <4>1
    <3>3. CASE AtPayload(Decoded[k].part, f, d - HeaderLen(f))
      <4>1. d - h \in 0..l /\ m_bytes_needed = l - (d - h)
        BY <2>2, <2>3, <3>3 DEF AtPayload
      <4> QED
        BY <1>4, <1>6, <4>1
    <3> QED
      BY <1>1, <1>4, <3>1, <3>2, <3>3 DEF At, Within
  <2>6. BytesIn(k + 1) = x + (h + l)
    BY <1>5, <2>1, <2>4
  <2> QED
    BY <1>6, <2>5, <2>6
<1>8. n = k
  <2>1. PICK y \in Nat : y = BytesIn(n)
    BY <1>2, SizesOf
  <2>2. y <= pos
    BY <2>1
  <2>3. n \in Nat /\ k \in Nat /\ MaxFrames \in Nat
    BY FramesAssumption
  <2>4. CASE n < k
    <3>1. n + 1 \in 0..k /\ n < MaxFrames
      BY <2>3, <2>4
    <3>2. BytesIn(n + 1) \in Nat /\ BytesIn(n + 1) <= BytesIn(k)
      BY <1>3, <3>1, StreamMono DEF BytesIn
    <3>3. PICK z \in Nat : z = BytesIn(n + 1)
      BY <3>2
    <3>4. z <= x /\ pos < z
      BY <1>5, <3>1, <3>2, <3>3
    <3> QED
      BY <1>6, <3>4
  <2>5. CASE k < n
    <3>1. k + 1 \in 0..n /\ k < MaxFrames
      BY <2>3, <2>5
    <3>2. BytesIn(k + 1) \in Nat /\ BytesIn(k + 1) <= BytesIn(n)
      BY <1>3, <3>1, StreamMono DEF BytesIn
    <3>3. PICK z \in Nat : z = BytesIn(k + 1)
      BY <3>2
    <3>4. z <= y /\ pos < z
      BY <1>7, <2>1, <3>1, <3>2, <3>3
    <3> QED
      BY <1>3, <2>2, <3>4
  <2> QED
    BY <2>3, <2>4, <2>5
<1> QED
  BY <1>1, <1>8 DEF At

(* Whenever the connection waits for a read, it has dispatched exactly     *)
(* what the frames that have come say: nothing is held back, lost, or      *)
(* mixed up with a control frame.                                          *)
THEOREM PromptDelivery == Spec => []Prompt
BY Invariance, IInvPrompt, PTL

LEMMA IInvNoFalseAlarm == IInv => NoFalseAlarm
<1> SUFFICES ASSUME IInv, failed,
                    NEW n \in 1..MaxFrames, BytesIn(n - 1) < pos, pos <= BytesIn(n)
             PROVE  Decoded[n].bad /\ delivered = Decoded[n - 1].out
  BY DEF NoFalseAlarm
<1>1. PICK k \in 0..MaxFrames, d \in 0..pos : At(k, d)
  BY DEF IInv
<1>2. Typed
  BY DEF IInv
<1>3. frames \in [1..MaxFrames -> Inputs] /\ pos \in Nat
  BY <1>2 DEF Typed
<1> DEFINE f == frames[k + 1]
<1>4. k < MaxFrames /\ d \in 1..Len(Bytes(f)) /\ Ill(Decoded[k].part, f)
  BY <1>1 DEF At, Within, Stopped
<1>5. /\ f \in Inputs /\ f \in Frames /\ Decoded[k] \in Results
      /\ BytesIn(k + 1) = BytesIn(k) + Len(Bytes(f)) /\ Decoded[k + 1] = Combined(Decoded[k], f)
  BY <1>2, <1>4, SizesOf
<1>6. Decoded[k + 1].bad
  <2>1. Decoded[k + 1] = [Decoded[k] EXCEPT !.bad = TRUE]
    BY <1>1, <1>4, <1>5, CombinedBad DEF At
  <2> QED
    BY <1>5, <2>1 DEF Results
<1>7. PICK x \in Nat : x = BytesIn(k)
  BY <1>2, SizesOf
<1>8. PICK w \in Nat : w = Len(Bytes(f))
  BY <1>5, BytesParts
<1>9. pos = x + d /\ d \in 1..w /\ BytesIn(k + 1) = x + w
  BY <1>1, <1>4, <1>5, <1>7, <1>8 DEF At
<1>10. n = k + 1
  <2>1. n \in Nat /\ k \in Nat /\ MaxFrames \in Nat /\ n - 1 \in 0..MaxFrames /\ n \in 0..MaxFrames
    BY FramesAssumption
  <2>2. CASE n <= k
    <3>1. n \in 0..k
      BY <2>1, <2>2
    <3>2. BytesIn(n) \in Nat /\ BytesIn(n) <= BytesIn(k)
      BY <1>3, <3>1, StreamMono DEF BytesIn
    <3>3. PICK z \in Nat : z = BytesIn(n)
      BY <3>2
    <3>4. z <= x /\ pos <= z
      BY <1>7, <3>2, <3>3
    <3> QED
      BY <1>9, <3>4
  <2>3. CASE k + 1 < n
    <3>1. k + 1 \in 0..(n - 1)
      BY <2>1, <2>3
    <3>2. BytesIn(n - 1) \in Nat /\ BytesIn(k + 1) <= BytesIn(n - 1)
      BY <1>3, <2>1, <3>1, StreamMono DEF BytesIn
    <3>3. PICK z \in Nat : z = BytesIn(n - 1)
      BY <3>2
    <3>4. x + w <= z /\ z < pos
      BY <1>9, <3>2, <3>3
    <3> QED
      BY <1>9, <3>4
  <2> QED
    BY <2>1, <2>2, <2>3
<1>11. n - 1 = k
  BY <1>10, FramesAssumption
<1> QED
  BY <1>1, <1>6, <1>10, <1>11 DEF At

(* consume() returns an error only in a frame that is in error after those *)
(* before it, and what those say has been dispatched.                      *)
THEOREM FailsRightly == Spec => []NoFalseAlarm
BY Invariance, IInvNoFalseAlarm, PTL
=============================================================================
