-------------------------- MODULE ChatWindowProofs --------------------------
(***************************************************************************)
(* Proofs about ChatWindow for every number of rows and of messages, and   *)
(* about ChatLine, which brings the messages to it, for every size of a    *)
(* byte and of a buffer.                                                   *)
(***************************************************************************)
EXTENDS ChatLine, Integers, SequenceTheorems, TLAPS

-----------------------------------------------------------------------------
(* The chat window *)

\* What Append does, element by element.
LEMMA Appended ==
  ASSUME NEW s \in Seq(Nat), NEW e \in Nat
  PROVE  /\ Append(s, e) \in Seq(Nat)
         /\ Len(Append(s, e)) = Len(s) + 1 /\ Len(s) \in Nat
         /\ DOMAIN s = 1 .. Len(s) /\ DOMAIN Append(s, e) = 1 .. Len(s) + 1
         /\ \A i \in 1 .. Len(s) : Append(s, e)[i] = s[i] /\ s[i] \in Nat
         /\ Append(s, e)[Len(s) + 1] = e
BY AppendProperties, LenProperties, ElementOfSeq

\* A row is drawn: it is right because its index was, and it is next to the row
\* below it.
LEMMA RowDrawn == IInv /\ row_at => IInv'
<1>. SUFFICES ASSUME IInv, row_at PROVE IInv'
  OBVIOUS
<1>1. /\ pc = "at" /\ pc' = "size" /\ shown' = Append(shown, index)
      /\ UNCHANGED <<arrived, size, index, before>>
  BY DEF row_at
<1>2. /\ shown \in Seq(Nat) /\ index \in Nat /\ arrived \in Nat
      /\ before \in Nat /\ before <= arrived /\ size \in Nat
  BY ChatWindowAssumption DEF IInv, TypeOK
<1>3. /\ shown' \in Seq(Nat)
      /\ Len(shown') = Len(shown) + 1 /\ Len(shown) \in Nat
      /\ DOMAIN shown = 1 .. Len(shown) /\ DOMAIN shown' = 1 .. Len(shown) + 1
      /\ \A i \in 1 .. Len(shown) : shown'[i] = shown[i] /\ shown[i] \in Nat
      /\ shown'[Len(shown) + 1] = index
  BY <1>1, <1>2, Appended
<1>4. /\ size <= before /\ Len(shown) < size
      /\ index >= before - 1 - Len(shown) /\ index <= arrived - 1 - Len(shown)
      /\ \A i \in DOMAIN shown : i = Len(shown) => index + 1 >= shown[i]
  BY <1>1, <1>2, <1>3 DEF IInv, FrameInv
<1>5. TypeOK'
  BY <1>1, <1>3 DEF IInv, TypeOK
<1>6. FrameInv'
  BY <1>1, <1>2, <1>3, <1>4 DEF FrameInv
<1>7. RowsAreCurrent'
  <2>. SUFFICES ASSUME NEW i \in DOMAIN shown'
                PROVE  shown'[i] \in before - i .. arrived - i
    BY <1>1 DEF RowsAreCurrent
  <2>1. CASE i = Len(shown) + 1
    BY <2>1, <1>2, <1>3, <1>4
  <2>2. CASE i \in 1 .. Len(shown)
    BY <2>2, <1>1, <1>3 DEF IInv, RowsAreCurrent
  <2>. QED
    BY <2>1, <2>2, <1>3
<1>8. NoMessageSkipped'
  <2>. SUFFICES ASSUME NEW i \in 1 .. Len(shown') - 1
                PROVE  shown'[i + 1] + 1 >= shown'[i]
    BY DEF NoMessageSkipped
  <2>0. i \in 1 .. Len(shown)
    BY <1>3
  <2>1. CASE i = Len(shown)
    BY <2>1, <1>3, <1>4
  <2>2. CASE i < Len(shown)
    <3>0. i \in 1 .. Len(shown) - 1 /\ i + 1 \in 1 .. Len(shown)
      BY <2>2, <1>3
    <3>1. shown[i + 1] + 1 >= shown[i]
      BY <3>0 DEF IInv, NoMessageSkipped
    <3>. QED
      BY <3>0, <3>1, <1>3
  <2>. QED
    <3>1. i = Len(shown) \/ i < Len(shown)
      <4>1. Len(shown) \in Nat
        BY <1>3
      <4>. QED
        BY <2>0, <4>1
    <3>. QED
      BY <2>1, <2>2, <3>1
<1>. QED
  BY <1>5, <1>6, <1>7, <1>8 DEF IInv

\* IInv is an inductive invariant.
LEMMA ChatWindowInvariance == Spec => []IInv
<1>1. Init => IInv
  BY ChatWindowAssumption
     DEF Init, IInv, TypeOK, FrameInv, RowsAreCurrent, NoMessageSkipped
<1>2. IInv /\ [Next]_vars => IInv'
  <2>. SUFFICES ASSUME IInv, [Next]_vars PROVE IInv'
    OBVIOUS
  <2>1. /\ shown \in Seq(Nat) /\ index \in Nat /\ arrived \in Nat
        /\ before \in Nat /\ before <= arrived /\ size \in Nat
        /\ arrived <= MaxMessages /\ MaxMessages \in Nat /\ Rows \in Nat
        /\ size <= Rows
    BY ChatWindowAssumption DEF IInv, TypeOK
  <2>2. /\ Len(shown) \in Nat /\ DOMAIN shown = 1 .. Len(shown)
        /\ \A i \in DOMAIN shown : shown[i] \in Nat
    BY <2>1, LenProperties, ElementOfSeq
  <2>3. CASE emplace_back
    <3>1. /\ arrived' = arrived + 1 /\ arrived < MaxMessages
          /\ UNCHANGED <<size, pc, index, shown, before>>
      BY <2>3 DEF emplace_back
    <3>2. TypeOK'
      BY <2>1, <3>1 DEF IInv, TypeOK
    <3>3. FrameInv'
      BY <2>1, <2>2, <3>1 DEF IInv, FrameInv
    <3>4. RowsAreCurrent'
      BY <2>1, <2>2, <3>1 DEF IInv, RowsAreCurrent
    <3>5. NoMessageSkipped'
      BY <3>1 DEF IInv, NoMessageSkipped
    <3>. QED
      BY <3>2, <3>3, <3>4, <3>5 DEF IInv
  <2>4. CASE frame_size
    <3>1. /\ shown' = <<>> /\ before' = arrived /\ pc' = "size"
          /\ size' = IF arrived < Rows THEN arrived ELSE Rows
          /\ UNCHANGED <<arrived, index>>
      BY <2>4 DEF frame_size
    <3>2. shown' \in Seq(Nat) /\ Len(shown') = 0 /\ DOMAIN shown' = {}
      BY <3>1
    <3>3. TypeOK'
      BY <2>1, <3>1, <3>2 DEF IInv, TypeOK
    <3>4. FrameInv'
      BY <2>1, <3>1, <3>2 DEF FrameInv
    <3>5. RowsAreCurrent' /\ NoMessageSkipped'
      BY <3>2 DEF RowsAreCurrent, NoMessageSkipped
    <3>. QED
      BY <3>3, <3>4, <3>5 DEF IInv
  <2>5. CASE index_size
    <3>1. /\ pc = "size" /\ Len(shown) < size /\ pc' = "at"
          /\ index' = arrived - 1 - Len(shown)
          /\ UNCHANGED <<arrived, size, shown, before>>
      BY <2>5 DEF index_size
    <3>2. size <= before
      BY <3>1 DEF IInv, FrameInv
    <3>3. index' \in Nat
      BY <2>1, <2>2, <3>1, <3>2
    <3>4. TypeOK'
      BY <3>1, <3>3 DEF IInv, TypeOK
    <3>5. \A i \in DOMAIN shown : shown[i] \in before - i .. arrived - i
      BY <3>1 DEF IInv, RowsAreCurrent
    <3>6. FrameInv'
      BY <2>1, <2>2, <3>1, <3>2, <3>3, <3>5 DEF FrameInv
    <3>7. RowsAreCurrent' /\ NoMessageSkipped'
      BY <3>1, <3>5 DEF IInv, RowsAreCurrent, NoMessageSkipped
    <3>. QED
      BY <3>4, <3>6, <3>7 DEF IInv
  <2>6. CASE row_at
    BY <2>6, RowDrawn
  <2>7. CASE frame_end
    BY <2>7 DEF frame_end, IInv, TypeOK, FrameInv, RowsAreCurrent,
                NoMessageSkipped
  <2>8. CASE UNCHANGED vars
    BY <2>8 DEF vars, IInv, TypeOK, FrameInv, RowsAreCurrent, NoMessageSkipped
  <2>. QED
    BY <2>3, <2>4, <2>5, <2>6, <2>7, <2>8 DEF Next
<1>. QED
  BY <1>1, <1>2, PTL DEF Spec

\* The frame's state keeps its types: no more rows than Rows, and a frame began
\* with no more messages than there are.
THEOREM ChatWindowTypeCorrect == Spec => []TypeOK
<1>1. IInv => TypeOK
  BY DEF IInv
<1>. QED
  BY <1>1, ChatWindowInvariance, PTL

\* at() is never called with an index that does not exist.
THEOREM ChatWindowInRange == Spec => []AtInRange
<1>1. IInv => AtInRange
  <2>. SUFFICES ASSUME IInv, pc = "at" PROVE index \in 0 .. arrived - 1
    BY DEF AtInRange
  <2>1. /\ index \in Nat /\ arrived \in Nat /\ Len(shown) \in Nat
    BY ChatWindowAssumption, LenProperties DEF IInv, TypeOK
  <2>2. index <= arrived - 1 - Len(shown)
    BY DEF IInv, FrameInv
  <2>. QED
    BY <2>1, <2>2
<1>. QED
  BY <1>1, ChatWindowInvariance, PTL

\* Every row shows what was to be shown in it at some moment of the frame.
THEOREM ChatWindowIsCurrent == Spec => []WindowIsCurrent
<1>1. IInv => RowsAreCurrent
  BY DEF IInv
<1>2. AtInRange /\ RowsAreCurrent => WindowIsCurrent
  BY DEF WindowIsCurrent
<1>. QED
  BY <1>1, <1>2, ChatWindowInRange, ChatWindowInvariance, PTL

\* No message between two that are shown is left out.
THEOREM ChatWindowSkipsNothing == Spec => []NoMessageSkipped
<1>1. IInv => NoMessageSkipped
  BY DEF IInv
<1>. QED
  BY <1>1, ChatWindowInvariance, PTL

-----------------------------------------------------------------------------
(* Integers as bytes *)

\* A number is its quotient and its remainder.
LEMMA Divided ==
  ASSUME NEW a \in Nat, NEW d \in Nat \ {0}
  PROVE  /\ a \div d \in Nat /\ a % d \in 0 .. d - 1
         /\ a = d * (a \div d) + (a % d)
OBVIOUS

LEMMA Quotient ==
  ASSUME NEW d \in Nat \ {0}, NEW q \in Nat, NEW r \in 0 .. d - 1
  PROVE  (d * q + r) \div d = q /\ (d * q + r) % d = r
OBVIOUS

LEMMA QuotientBelow ==
  ASSUME NEW a \in Nat, NEW d \in Nat \ {0}, NEW b \in Nat, a < d * b
  PROVE  a \div d < b
OBVIOUS

\* Division by a product is division by one factor and then by the other.
LEMMA DividedTwice ==
  ASSUME NEW a \in Nat, NEW d \in Nat \ {0}, NEW e \in Nat \ {0}
  PROVE  a \div (d * e) = (a \div d) \div e
<1> DEFINE q == a \div d
           r == a % d
           k == q \div e
           l == q % e
<1>1. q \in Nat /\ r \in 0 .. d - 1 /\ a = d * q + r
  BY Divided
<1> HIDE DEF q, r
<1>2. k \in Nat /\ l \in 0 .. e - 1 /\ q = e * k + l
  BY <1>1, Divided
<1> HIDE DEF k, l
<1>3. a = (d * e) * k + (d * l + r)
  BY <1>1, <1>2
<1>4. d * l + r \in 0 .. d * e - 1 /\ d * e \in Nat \ {0}
  <2>1. d * l + r >= 0 /\ d * l + r \in Nat
    BY <1>1, <1>2
  <2>2. d * (l + 1) <= d * e
    BY <1>2
  <2>3. d * (l + 1) = d * l + d
    BY <1>2
  <2>4. d * e \in Nat \ {0} /\ d * l \in Nat
    BY <1>2
  <2> QED  BY <1>1, <2>1, <2>2, <2>3, <2>4
<1>5. a \div (d * e) = k
  BY <1>2, <1>3, <1>4, Quotient
<1> QED  BY <1>5 DEF k, q

\* The bytes of an integer, weighed and added up, are the integer.
LEMMA BytesOfInteger ==
  ASSUME NEW B \in Nat \ {0}, NEW v \in Nat
  PROVE  /\ v < B => (v \div 1) % B = v
         /\ v < B * B => ((v \div 1) % B) * 1 + ((v \div B) % B) * B = v
         /\ v < B * B * B * B =>
              ((v \div 1) % B) * 1 + ((v \div B) % B) * B
              + ((v \div (B * B)) % B) * (B * B)
              + ((v \div (B * B * B)) % B) * (B * B * B) = v
<1> DEFINE a == v \div B
           b == a \div B
           c == b \div B
           r == v % B
           s == a % B
           t == b % B
<1>1. a \in Nat /\ r \in 0 .. B - 1 /\ v = B * a + r
  BY Divided
<1>2. v \div 1 = v
  BY Quotient
<1>3. B * B \in Nat \ {0} /\ B * B * B \in Nat \ {0}
  <2>1. B * B \in Nat \ {0}
    OBVIOUS
  <2> QED  BY <2>1
<1>4. v \div (B * B) = b
  BY DividedTwice
<1>5. v \div (B * B * B) = c
  <2>1. B * B * B = B * (B * B)
    OBVIOUS
  <2>2. v \div (B * (B * B)) = a \div (B * B)
    BY <1>3, DividedTwice
  <2>3. a \div (B * B) = c
    BY <1>1, DividedTwice
  <2> QED  BY <2>1, <2>2, <2>3
<1> HIDE DEF a, r
<1>6. b \in Nat /\ s \in 0 .. B - 1 /\ a = B * b + s
  BY <1>1, Divided
<1> HIDE DEF b, s
<1>7. c \in Nat /\ t \in 0 .. B - 1 /\ b = B * c + t
  BY <1>6, Divided
<1> HIDE DEF c, t
<1>8. ASSUME v < B
      PROVE  (v \div 1) % B = v
  <2>1. v = B * 0 + v /\ v \in 0 .. B - 1
    BY <1>8
  <2>2. v % B = v
    BY <2>1, Quotient
  <2> QED  BY <2>2, <1>2
<1>9. ASSUME v < B * B
      PROVE  ((v \div 1) % B) * 1 + ((v \div B) % B) * B = v
  <2>1. a < B
    BY <1>9, QuotientBelow DEF a
  <2>2. s = a
    <3>1. a = B * 0 + a /\ a \in 0 .. B - 1
      BY <1>1, <2>1
    <3> QED  BY <3>1, Quotient DEF s
  <2>3. (v \div 1) % B = r /\ (v \div B) % B = s
    BY <1>2 DEF r, s, a
  <2>4. r * 1 + a * B = v
    BY <1>1
  <2> QED  BY <2>2, <2>3, <2>4
<1>10. ASSUME v < B * B * B * B
       PROVE  ((v \div 1) % B) * 1 + ((v \div B) % B) * B
              + ((v \div (B * B)) % B) * (B * B)
              + ((v \div (B * B * B)) % B) * (B * B * B) = v
  <2>1. c < B
    <3>1. v < (B * B * B) * B
      BY <1>10
    <3>2. v \div (B * B * B) < B
      BY <1>3, <3>1, QuotientBelow
    <3> QED  BY <3>2, <1>5
  <2>2. c % B = c
    <3>1. c = B * 0 + c /\ c \in 0 .. B - 1
      BY <1>7, <2>1
    <3> QED  BY <3>1, Quotient
  <2>3. /\ (v \div 1) % B = r /\ (v \div B) % B = s
        /\ (v \div (B * B)) % B = t /\ (v \div (B * B * B)) % B = c
    BY <1>2, <1>4, <1>5, <2>2 DEF r, s, t, a
  <2>4. r * 1 + s * B + t * (B * B) + c * (B * B * B) = v
    <3>1. b = B * c + t /\ a = B * b + s /\ v = B * a + r
      BY <1>1, <1>6, <1>7
    <3>2. a = B * (B * c + t) + s
      BY <3>1
    <3>3. v = B * (B * (B * c + t) + s) + r
      BY <3>1, <3>2
    <3> QED  BY <3>3, <1>1, <1>6, <1>7
  <2> QED  BY <2>3, <2>4
<1> QED  BY <1>8, <1>9, <1>10

-----------------------------------------------------------------------------
(* What is written into a buffer and read from it *)

LEMMA Weights ==
  /\ U8 \in Nat \ {0} /\ 1 < U8 /\ Size \in Nat
  /\ Weight[1] = 1 /\ Weight[2] = U8
  /\ Weight[3] = U8 * U8 /\ Weight[4] = U8 * U8 * U8
  /\ U8 * U8 \in Nat \ {0} /\ U8 * U8 * U8 \in Nat \ {0}
<1>1. U8 \in Nat \ {0} /\ 1 < U8 /\ Size \in Nat
  BY LayoutAssumption
<1>2. U8 * U8 \in Nat \ {0}
  BY <1>1
<1>3. U8 * U8 * U8 \in Nat \ {0}
  BY <1>1, <1>2
<1> QED  BY <1>1, <1>2, <1>3 DEF Weight

\* An integer in a buffer lies within it.
LEMMA PutInBuffer ==
  ASSUME NEW b \in Buffer, NEW at \in Nat, NEW width \in 1 .. 4,
         NEW value \in Nat
  PROVE  /\ put(b, at, width, value) \in Buffer
         /\ \A i \in 0 .. Size - 1 :
              i \notin at .. at + width - 1 =>
                put(b, at, width, value)[i] = b[i]
         /\ \A n \in 0 .. width - 1 :
              at + n \in 0 .. Size - 1 =>
                put(b, at, width, value)[at + n] =
                  (value \div Weight[n + 1]) % U8
<1> DEFINE byte(k) == (value \div Weight[k]) % U8
<1>1. \A k \in 1 .. 4 : Weight[k] \in Nat \ {0}
  <2>1. 1 .. 4 = {1, 2, 3, 4}
    OBVIOUS
  <2> QED  BY <2>1, Weights
<1>2. \A k \in 1 .. 4 : byte(k) \in Byte
  <2> SUFFICES ASSUME NEW k \in 1 .. 4
               PROVE  byte(k) \in Byte
    OBVIOUS
  <2>1. value \div Weight[k] \in Nat
    BY <1>1, Divided
  <2> QED  BY <2>1, Weights, Divided DEF Byte
<1>3. DOMAIN b = 0 .. Size - 1 /\ \A i \in 0 .. Size - 1 : b[i] \in Byte
  BY DEF Buffer
<1> DEFINE p == put(b, at, width, value)
<1>4. p = [i \in 0 .. Size - 1 |->
             IF i \in at .. at + width - 1 THEN byte(i - at + 1)
                                                 ELSE b[i]]
  BY <1>3 DEF put
<1>5. \A i \in at .. at + width - 1 : i - at + 1 \in 1 .. 4
  OBVIOUS
<1> HIDE DEF byte, p
<1>6. p \in Buffer
  BY <1>2, <1>3, <1>4, <1>5 DEF Buffer
<1>7. \A i \in 0 .. Size - 1 :
        i \notin at .. at + width - 1 => p[i] = b[i]
  BY <1>4
<1>8. \A n \in 0 .. width - 1 :
        at + n \in 0 .. Size - 1 => p[at + n] = byte(n + 1)
  <2> SUFFICES ASSUME NEW n \in 0 .. width - 1, at + n \in 0 .. Size - 1
               PROVE  p[at + n] = byte(n + 1)
    OBVIOUS
  <2>1. at + n \in at .. at + width - 1 /\ (at + n) - at + 1 = n + 1
    OBVIOUS
  <2> QED  BY <1>4, <2>1
<1> QED  BY <1>6, <1>7, <1>8 DEF p, byte

\* What was put is read back.
LEMMA PutGet ==
  ASSUME NEW b \in Buffer, NEW at \in Nat, NEW value \in Nat
  PROVE  /\ value < U8 /\ at < Size =>
              /\ get(put(b, at, 1, value), at, 1) = value
              /\ put(b, at, 1, value)[at] = value
         /\ value < U8 * U8 /\ at + 1 < Size =>
              get(put(b, at, 2, value), at, 2) = value
         /\ value < U8 * U8 * U8 * U8 /\ at + 3 < Size =>
              get(put(b, at, 4, value), at, 4) = value
<1> DEFINE byte(k) == (value \div Weight[k]) % U8
<1>1. \A width \in 1 .. 4 : \A n \in 0 .. width - 1 :
        at + width - 1 < Size =>
          put(b, at, width, value)[at + n] = byte(n + 1)
  <2> SUFFICES ASSUME NEW width \in 1 .. 4, NEW n \in 0 .. width - 1,
                      at + width - 1 < Size
               PROVE  put(b, at, width, value)[at + n] = byte(n + 1)
    OBVIOUS
  <2>1. at + n \in 0 .. Size - 1
    BY Weights
  <2> QED  BY <2>1, PutInBuffer
<1>2. \A k \in 1 .. 4 : byte(k) \in Nat
  <2>1. 1 .. 4 = {1, 2, 3, 4}
    OBVIOUS
  <2>2. \A k \in 1 .. 4 : Weight[k] \in Nat \ {0}
    BY <2>1, Weights
  <2> SUFFICES ASSUME NEW k \in 1 .. 4
               PROVE  byte(k) \in Nat
    OBVIOUS
  <2>3. value \div Weight[k] \in Nat
    BY <2>2, Divided
  <2>4. (value \div Weight[k]) % U8 \in 0 .. U8 - 1
    BY <2>3, Weights, Divided
  <2> QED  BY <2>4
<1>3. /\ byte(1) = (value \div 1) % U8
      /\ byte(2) = (value \div U8) % U8
      /\ byte(3) = (value \div (U8 * U8)) % U8
      /\ byte(4) = (value \div (U8 * U8 * U8)) % U8
  BY Weights
<1> HIDE DEF byte
<1>4. ASSUME value < U8, at < Size
      PROVE  /\ get(put(b, at, 1, value), at, 1) = value
             /\ put(b, at, 1, value)[at] = value
  <2>1. put(b, at, 1, value)[at + 0] = byte(1) /\ at + 0 = at
    BY <1>1, <1>4, Weights
  <2>2. byte(1) = value
    BY <1>3, <1>4, Weights, BytesOfInteger
  <2>3. get(put(b, at, 1, value), at, 1) = byte(1)
    BY <1>2, <2>1, Weights DEF get
  <2> QED  BY <2>1, <2>2, <2>3
<1>5. ASSUME value < U8 * U8, at + 1 < Size
      PROVE  get(put(b, at, 2, value), at, 2) = value
  <2> DEFINE p == put(b, at, 2, value)
  <2>1. p[at + 0] = byte(1) /\ p[at + 1] = byte(2)
    BY <1>1, <1>5, Weights
  <2> HIDE DEF p
  <2>2. get(p, at, 2) = byte(1) * 1 + byte(2) * U8
    <3>1. get(p, at, 2) = p[at + 0] * Weight[1] + p[at + 1] * Weight[2] + 0 + 0
      BY DEF get
    <3>2. byte(1) * 1 + byte(2) * U8 \in Nat
      BY <1>2, Weights
    <3> QED  BY <2>1, <3>1, <3>2, Weights
  <2>3. byte(1) * 1 + byte(2) * U8 = value
    <3>1. ((value \div 1) % U8) * 1 + ((value \div U8) % U8) * U8 = value
      BY <1>5, Weights, BytesOfInteger
    <3> QED  BY <1>3, <3>1
  <2> QED  BY <2>2, <2>3 DEF p
<1>6. ASSUME value < U8 * U8 * U8 * U8, at + 3 < Size
      PROVE  get(put(b, at, 4, value), at, 4) = value
  <2> DEFINE p == put(b, at, 4, value)
  <2>1. /\ p[at + 0] = byte(1) /\ p[at + 1] = byte(2)
        /\ p[at + 2] = byte(3) /\ p[at + 3] = byte(4)
    BY <1>1, <1>6, Weights
  <2> HIDE DEF p
  <2>2. get(p, at, 4) = p[at + 0] * Weight[1] + p[at + 1] * Weight[2]
                           + p[at + 2] * Weight[3] + p[at + 3] * Weight[4]
    BY DEF get
  <2>3. get(p, at, 4) = byte(1) * 1 + byte(2) * U8
                           + byte(3) * (U8 * U8) + byte(4) * (U8 * U8 * U8)
    BY <2>1, <2>2, Weights
  <2>4. byte(1) * 1 + byte(2) * U8 + byte(3) * (U8 * U8)
        + byte(4) * (U8 * U8 * U8) = value
    BY <1>3, <1>6, Weights, BytesOfInteger
  <2> QED  BY <2>3, <2>4 DEF p
<1> QED  BY <1>4, <1>5, <1>6

\* An integer is read from its own bytes only.
LEMMA GetReads ==
  ASSUME NEW b \in Buffer, NEW c \in Buffer, NEW at \in Nat,
         NEW width \in 1 .. 4,
         \A i \in at .. at + width - 1 : b[i] = c[i]
  PROVE  get(b, at, width) = get(c, at, width)
<1>1. \A n \in 0 .. 3 : n < width => b[at + n] = c[at + n]
  OBVIOUS
<1> QED  BY <1>1 DEF get

-----------------------------------------------------------------------------
(* Packets *)

\* The packet types with a text.
Texts == {"LOGIN_REQUEST", "CHAT_MESSAGE"}

\* The getters return what the packet was given; a text as much of it as its
\* length byte says.
ReadsBack(type, body, b) ==
  IF type \in Texts
  THEN /\ b[4] = Len(body) % U8
       /\ get_text(b) = SubSeq(body, 1, Len(body) % U8)
  ELSE body_of(type, b) = body

\* An empty packet of a type.
LEMMA EmptyPacket ==
  ASSUME NEW type \in DOMAIN TypeByte
  PROVE  LET e == set_type([i \in 0 .. Size - 1 |-> 0], type)
         IN  /\ e \in Buffer
             /\ \A i \in 0 .. Size - 1 : i # 2 => e[i] = 0
             /\ e[2] = TypeByte[type]
<1> DEFINE z == [i \in 0 .. Size - 1 |-> 0]
           e == set_type(z, type)
<1>1. z \in Buffer
  BY Weights DEF Buffer, Byte
<1>2. /\ TypeByte[type] \in Nat /\ TypeByte[type] < U8
      /\ 2 \in Nat /\ 1 \in 1 .. 4 /\ 2 < Size
  BY LayoutAssumption, LineAssumption
<1>3. /\ e \in Buffer
      /\ \A i \in 0 .. Size - 1 : i \notin 2 .. 2 + 1 - 1 => e[i] = z[i]
      /\ e[2] = TypeByte[type]
  <2> HIDE DEF z
  <2>1. /\ put(z, 2, 1, TypeByte[type]) \in Buffer
        /\ \A i \in 0 .. Size - 1 : i \notin 2 .. 2 + 1 - 1 =>
             put(z, 2, 1, TypeByte[type])[i] = z[i]
    BY <1>1, <1>2, PutInBuffer
  <2>2. put(z, 2, 1, TypeByte[type])[2] = TypeByte[type]
    BY <1>1, <1>2, PutGet
  <2> QED  BY <2>1, <2>2 DEF set_type
<1>4. \A i \in 0 .. Size - 1 : i # 2 => e[i] = 0
  <2> SUFFICES ASSUME NEW i \in 0 .. Size - 1, i # 2
               PROVE  e[i] = 0
    OBVIOUS
  <2>1. i \notin 2 .. 2 + 1 - 1 /\ z[i] = 0
    OBVIOUS
  <2> HIDE DEF e
  <2> QED  BY <1>3, <2>1
<1> QED  BY <1>3, <1>4

\* The header of a packet is not written by what goes into its body.
Headed(type, b) ==
  /\ b \in Buffer
  /\ b[0] = 0 /\ b[1] = 0 /\ b[2] = TypeByte[type]

\* No ident has been written into a packet that was just constructed.
LEMMA NoIdent ==
  ASSUME NEW type, NEW b, Headed(type, b)
  PROVE  get_client_ident(b) = 0
BY Weights DEF Headed, get_client_ident, get

LEMMA PutBehindHeader ==
  ASSUME NEW type, NEW b, Headed(type, b), NEW at \in Nat, at >= 4,
         NEW width \in 1 .. 4, NEW value \in Nat
  PROVE  Headed(type, put(b, at, width, value))
<1>1. /\ 0 \in 0 .. Size - 1 /\ 1 \in 0 .. Size - 1 /\ 2 \in 0 .. Size - 1
  BY LineAssumption, Weights
<1>2. /\ 0 \notin at .. at + width - 1 /\ 1 \notin at .. at + width - 1
      /\ 2 \notin at .. at + width - 1
  OBVIOUS
<1>3. b \in Buffer
  BY DEF Headed
<1> DEFINE p == put(b, at, width, value)
<1>4. /\ p \in Buffer
      /\ \A i \in 0 .. Size - 1 : i \notin at .. at + width - 1 => p[i] = b[i]
  BY <1>3, PutInBuffer
<1> HIDE DEF p
<1>5. p[0] = b[0] /\ p[1] = b[1] /\ p[2] = b[2]
  BY <1>1, <1>2, <1>4
<1>6. Headed(type, p)
  BY <1>4, <1>5 DEF Headed
<1> QED  BY <1>6 DEF p

\* A text is read back as far as its length byte tells.
LEMMA TextReadsBack ==
  ASSUME NEW type \in DOMAIN TypeByte, NEW b, Headed(type, b),
         NEW text \in Seq(Byte), Len(text) <= Size - 5
  PROVE  /\ Headed(type, put_text(b, text))
         /\ put_text(b, text)[4] = Len(text) % U8
         /\ get_text(put_text(b, text)) = SubSeq(text, 1, Len(text) % U8)
<1> DEFINE p == put(b, 4, 1, Len(text))
           w == put_text(b, text)
           n == Len(text) % U8
<1>1. /\ Len(text) \in Nat /\ n \in 0 .. U8 - 1 /\ n <= Len(text)
      /\ \A i \in 1 .. Len(text) : text[i] \in Byte
  <2>1. Len(text) \in Nat /\ \A i \in 1 .. Len(text) : text[i] \in Byte
    BY LenProperties, ElementOfSeq
  <2>2. n \in 0 .. U8 - 1 /\ n <= Len(text)
    <3>1. /\ Len(text) \div U8 \in Nat /\ n \in 0 .. U8 - 1
          /\ Len(text) = U8 * (Len(text) \div U8) + n
      BY <2>1, Weights, Divided
    <3>2. U8 * (Len(text) \div U8) \in Nat
      BY <3>1, Weights
    <3> HIDE DEF n
    <3> QED  BY <3>1, <3>2
  <2> QED  BY <2>1, <2>2
<1>2. /\ p \in Buffer /\ p[4] = n
      /\ \A i \in 0 .. Size - 1 : i \notin 4 .. 4 + 1 - 1 => p[i] = b[i]
  <2>1. b \in Buffer /\ 4 \in Nat /\ 1 \in 1 .. 4 /\ 0 \in 0 .. 1 - 1
    BY DEF Headed
  <2>2. 4 + 0 \in 0 .. Size - 1 /\ 4 + 0 = 4 /\ 0 + 1 = 1
    BY LineAssumption, Weights
  <2>3. p[4] = (Len(text) \div Weight[1]) % U8
    BY <1>1, <2>1, <2>2, PutInBuffer
  <2>4. Len(text) \div Weight[1] = Len(text)
    BY <1>1, Weights
  <2>5. /\ p \in Buffer
        /\ \A i \in 0 .. Size - 1 : i \notin 4 .. 4 + 1 - 1 => p[i] = b[i]
    BY <1>1, <2>1, PutInBuffer
  <2> QED  BY <2>3, <2>4, <2>5
<1>3. w = [i \in 0 .. Size - 1 |->
             IF i \in 5 .. 4 + Len(text) THEN text[i - 4] ELSE p[i]]
  <2>1. DOMAIN b = 0 .. Size - 1
    BY DEF Headed, Buffer
  <2> QED  BY <2>1 DEF put_text
<1> HIDE DEF p, w, n
<1>4. w \in Buffer
  <2>1. \A i \in 5 .. 4 + Len(text) : text[i - 4] \in Byte
    BY <1>1
  <2>2. \A i \in 0 .. Size - 1 : p[i] \in Byte
    BY <1>2 DEF Buffer
  <2> QED  BY <1>3, <2>1, <2>2 DEF Buffer
<1>5. w[0] = b[0] /\ w[1] = b[1] /\ w[2] = b[2] /\ w[4] = n
  <2>1. /\ 0 \in 0 .. Size - 1 /\ 1 \in 0 .. Size - 1
        /\ 2 \in 0 .. Size - 1 /\ 4 \in 0 .. Size - 1
    BY LineAssumption, Weights
  <2> QED  BY <1>1, <1>2, <1>3, <2>1
<1>6. Headed(type, w)
  BY <1>4, <1>5 DEF Headed
<1>7. get_text(w) = SubSeq(text, 1, n)
  <2>1. get_text(w) = [i \in 1 .. n |-> w[4 + i]]
    BY <1>5 DEF get_text
  <2>2. SubSeq(text, 1, n) = [i \in 1 .. n |-> text[i]]
    BY <1>1, SubSeqProperties
  <2>3. \A i \in 1 .. n : w[4 + i] = text[i]
    <3> SUFFICES ASSUME NEW i \in 1 .. n
                 PROVE  w[4 + i] = text[i]
      OBVIOUS
    <3>1. 4 + i \in 0 .. Size - 1 /\ 4 + i \in 5 .. 4 + Len(text) /\ (4 + i) - 4 = i
      BY <1>1, Weights
    <3> QED  BY <1>3, <3>1
  <2> QED  BY <2>1, <2>2, <2>3
<1> QED  BY <1>5, <1>6, <1>7 DEF w, n

\* What is put elsewhere changes nothing that is read here.
LEMMA PutElsewhere ==
  ASSUME NEW b \in Buffer, NEW at \in Nat, NEW width \in 1 .. 4,
         NEW value \in Nat, NEW here \in Nat, NEW wide \in 1 .. 4,
         here + wide - 1 < Size,
         \/ here + wide - 1 < at
         \/ at + width - 1 < here
  PROVE  get(put(b, at, width, value), here, wide) = get(b, here, wide)
<1>1. \A i \in here .. here + wide - 1 :
        i \in 0 .. Size - 1 /\ i \notin at .. at + width - 1
  BY Weights
<1> DEFINE p == put(b, at, width, value)
<1>2. /\ p \in Buffer
      /\ \A i \in 0 .. Size - 1 : i \notin at .. at + width - 1 => p[i] = b[i]
  BY PutInBuffer, ZenonT(60)
<1> HIDE DEF p
<1>3. \A i \in here .. here + wide - 1 : p[i] = b[i]
  BY <1>1, <1>2
<1>4. get(p, here, wide) = get(b, here, wide)
  BY <1>2, <1>3, GetReads
<1> QED  BY <1>4 DEF p

\* A byte is an integer of width 1.
LEMMA ByteIsGet ==
  ASSUME NEW b \in Buffer, NEW at \in 0 .. Size - 1
  PROVE  get(b, at, 1) = b[at]
<1>1. b[at] \in Nat
  BY Weights DEF Buffer, Byte
<1> QED  BY <1>1, Weights DEF get

LEMMA LoginReplyReadsBack ==
  ASSUME NEW b, Headed("LOGIN_REPLY", b),
         NEW body \in [success : BOOLEAN, ident : 0 .. U8 * U8 - 1]
  PROVE  LET p == put(put(b, 4, 1, IF body.success THEN 1 ELSE 0), 5, 2, body.ident)
         IN  Headed("LOGIN_REPLY", p) /\ body_of("LOGIN_REPLY", p) = body
<1> DEFINE flag == IF body.success THEN 1 ELSE 0
           p == put(b, 4, 1, flag)
           q == put(p, 5, 2, body.ident)
<1>1. /\ body.success \in BOOLEAN /\ body.ident \in Nat /\ body.ident < U8 * U8
      /\ body = [success |-> body.success, ident |-> body.ident]
      /\ flag \in Nat /\ flag < U8 /\ (flag # 0) = body.success
  BY Weights
<1>2. /\ 4 \in Nat /\ 5 \in Nat /\ 1 \in 1 .. 4 /\ 2 \in 1 .. 4
      /\ 4 < Size /\ 5 + 1 < Size /\ 4 \in 0 .. Size - 1
      /\ 4 + 1 - 1 < 5 /\ 4 + 1 - 1 < Size
  BY LineAssumption, Weights
<1> HIDE DEF flag, p, q
<1>3. Headed("LOGIN_REPLY", p) /\ Headed("LOGIN_REPLY", q)
  <2>1. Headed("LOGIN_REPLY", p)
    BY <1>1, <1>2, PutBehindHeader DEF p
  <2> QED  BY <1>1, <1>2, <2>1, PutBehindHeader DEF q
<1>4. p \in Buffer /\ q \in Buffer /\ b \in Buffer
  BY <1>3 DEF Headed
<1>5. q[4] = flag
  <2>1. get(q, 4, 1) = get(p, 4, 1)
    BY <1>1, <1>2, <1>4, PutElsewhere DEF q
  <2>2. get(p, 4, 1) = flag
    BY <1>1, <1>2, <1>4, PutGet DEF p
  <2> QED  BY <1>2, <1>4, <2>1, <2>2, ByteIsGet
<1>6. get(q, 5, 2) = body.ident
  BY <1>1, <1>2, <1>4, PutGet DEF q
<1>7. body_of("LOGIN_REPLY", q) = [success |-> q[4] # 0, ident |-> get(q, 5, 2)]
  BY DEF body_of
<1>8. body_of("LOGIN_REPLY", q) = body
  BY <1>1, <1>5, <1>6, <1>7
<1> QED  BY <1>3, <1>8 DEF q, p, flag

LEMMA PositionReadsBack ==
  ASSUME NEW b, Headed("POSITION_UPDATE", b),
         NEW body \in [x : 0 .. U8 * U8 * U8 * U8 - 1,
                       y : 0 .. U8 * U8 * U8 * U8 - 1, f : Byte]
  PROVE  LET p == put(put(put(b, 4, 4, body.x), 8, 4, body.y), 12, 1, body.f)
         IN  Headed("POSITION_UPDATE", p) /\ body_of("POSITION_UPDATE", p) = body
<1> DEFINE p == put(b, 4, 4, body.x)
           q == put(p, 8, 4, body.y)
           r == put(q, 12, 1, body.f)
<1>1. /\ body.x \in Nat /\ body.x < U8 * U8 * U8 * U8
      /\ body.y \in Nat /\ body.y < U8 * U8 * U8 * U8
      /\ body.f \in Nat /\ body.f < U8
      /\ body = [x |-> body.x, y |-> body.y, f |-> body.f]
  <2>1. U8 * U8 * U8 * U8 \in Nat
    <3>1. U8 * U8 * U8 \in Nat /\ U8 \in Nat
      BY Weights
    <3> DEFINE cube == U8 * U8 * U8
    <3> HIDE DEF cube
    <3>2. cube * U8 \in Nat
      BY <3>1 DEF cube
    <3> QED  BY <3>2 DEF cube
  <2> DEFINE bound == U8 * U8 * U8 * U8
  <2> HIDE DEF bound
  <2>2. body \in [x : 0 .. bound - 1, y : 0 .. bound - 1, f : Byte]
    BY DEF bound
  <2>3. /\ body.x \in Nat /\ body.x < bound /\ body.y \in Nat /\ body.y < bound
        /\ body.f \in Nat /\ body.f < U8
        /\ body = [x |-> body.x, y |-> body.y, f |-> body.f]
    BY <2>1, <2>2, Weights DEF Byte, bound
  <2> QED  BY <2>3 DEF bound
<1>2. /\ 4 \in Nat /\ 8 \in Nat /\ 12 \in Nat /\ 1 \in 1 .. 4 /\ 4 \in 1 .. 4
      /\ 4 + 3 < Size /\ 8 + 3 < Size /\ 12 < Size /\ 12 \in 0 .. Size - 1
      /\ 4 + 4 - 1 < Size /\ 8 + 4 - 1 < Size
      /\ 4 + 4 - 1 < 8 /\ 4 + 4 - 1 < 12 /\ 8 + 4 - 1 < 12
      /\ 4 >= 4 /\ 8 >= 4 /\ 12 >= 4
  BY LineAssumption, Weights
<1> HIDE DEF p, q, r
<1>3. /\ Headed("POSITION_UPDATE", p) /\ Headed("POSITION_UPDATE", q)
      /\ Headed("POSITION_UPDATE", r)
  <2>1. Headed("POSITION_UPDATE", p)
    BY <1>1, <1>2, PutBehindHeader DEF p
  <2>2. Headed("POSITION_UPDATE", q)
    BY <1>1, <1>2, <2>1, PutBehindHeader DEF q
  <2> QED  BY <1>1, <1>2, <2>1, <2>2, PutBehindHeader DEF r
<1>4. b \in Buffer /\ p \in Buffer /\ q \in Buffer /\ r \in Buffer
  BY <1>3 DEF Headed
<1>5. get(r, 4, 4) = body.x
  <2>1. get(r, 4, 4) = get(q, 4, 4)
    BY <1>1, <1>2, <1>4, PutElsewhere DEF r
  <2>2. get(q, 4, 4) = get(p, 4, 4)
    BY <1>1, <1>2, <1>4, PutElsewhere DEF q
  <2>3. get(p, 4, 4) = body.x
    BY <1>1, <1>2, <1>4, PutGet DEF p
  <2> QED  BY <2>1, <2>2, <2>3
<1>6. get(r, 8, 4) = body.y
  <2>1. get(r, 8, 4) = get(q, 8, 4)
    BY <1>1, <1>2, <1>4, PutElsewhere DEF r
  <2>2. get(q, 8, 4) = body.y
    BY <1>1, <1>2, <1>4, PutGet DEF q
  <2> QED  BY <2>1, <2>2
<1>7. r[12] = body.f
  BY <1>1, <1>2, <1>4, PutGet DEF r
<1>8. body_of("POSITION_UPDATE", r) =
        [x |-> get(r, 4, 4), y |-> get(r, 8, 4), f |-> r[12]]
  BY DEF body_of
<1>9. body_of("POSITION_UPDATE", r) = body
  BY <1>1, <1>5, <1>6, <1>7, <1>8
<1> QED  BY <1>3, <1>9 DEF r, q, p

\* A packet reads back as it was constructed.
LEMMA PacketReadsBack ==
  ASSUME NEW type \in DOMAIN TypeByte, NEW body, Carries(type, body)
  PROVE  /\ Headed(type, packet_of(type, body))
         /\ ReadsBack(type, body, packet_of(type, body))
<1> DEFINE e == set_type([i \in 0 .. Size - 1 |-> 0], type)
<1>1. Headed(type, e)
  <2>1. /\ e \in Buffer
        /\ \A i \in 0 .. Size - 1 : i # 2 => e[i] = 0
        /\ e[2] = TypeByte[type]
    BY EmptyPacket
  <2>2. 0 \in 0 .. Size - 1 /\ 1 \in 0 .. Size - 1
    BY LineAssumption, Weights
  <2> HIDE DEF e
  <2> QED  BY <2>1, <2>2 DEF Headed
<1> HIDE DEF e
<1>2. CASE type \in Texts
  <2>1. packet_of(type, body) = put_text(e, body)
    BY <1>2 DEF packet_of, Texts, e
  <2>2. body \in Seq(Byte) /\ Len(body) <= Size - 5
    BY <1>2 DEF Carries, Texts
  <2>3. /\ Headed(type, put_text(e, body))
        /\ put_text(e, body)[4] = Len(body) % U8
        /\ get_text(put_text(e, body)) = SubSeq(body, 1, Len(body) % U8)
    BY <1>1, <2>2, TextReadsBack
  <2> QED  BY <1>2, <2>1, <2>3 DEF ReadsBack
<1>3. CASE type = "LOGIN_REPLY"
  <2>1. packet_of(type, body) =
          put(put(e, 4, 1, IF body.success THEN 1 ELSE 0), 5, 2, body.ident)
    BY <1>3 DEF packet_of, e
  <2>2. body \in [success : BOOLEAN, ident : 0 .. U8 * U8 - 1]
    BY <1>3 DEF Carries
  <2>3. /\ Headed(type, packet_of(type, body))
        /\ body_of(type, packet_of(type, body)) = body
    BY <1>1, <1>3, <2>1, <2>2, LoginReplyReadsBack
  <2> QED  BY <1>3, <2>3 DEF ReadsBack, Texts
<1>4. CASE type = "POSITION_UPDATE"
  <2>1. packet_of(type, body) =
          put(put(put(e, 4, 4, body.x), 8, 4, body.y), 12, 1, body.f)
    BY <1>4 DEF packet_of, e
  <2>2. body \in [x : 0 .. U8 * U8 * U8 * U8 - 1,
                  y : 0 .. U8 * U8 * U8 * U8 - 1, f : Byte]
    BY <1>4 DEF Carries
  <2>3. /\ Headed(type, packet_of(type, body))
        /\ body_of(type, packet_of(type, body)) = body
    BY <1>1, <1>4, <2>1, <2>2, PositionReadsBack
  <2> QED  BY <1>4, <2>3 DEF ReadsBack, Texts
<1>5. CASE type \notin Texts \cup {"LOGIN_REPLY", "POSITION_UPDATE"}
  <2>1. packet_of(type, body) = e
    BY <1>5 DEF packet_of, Texts, e
  <2>2. body = <<>> /\ body_of(type, e) = <<>>
    BY <1>5 DEF Carries, body_of, Texts
  <2> QED  BY <1>1, <1>5, <2>1, <2>2 DEF ReadsBack
<1> QED  BY <1>2, <1>3, <1>4, <1>5

\* What is read of a packet's body does not depend on its header.
LEMMA BodyIsApart ==
  ASSUME NEW b \in Buffer, NEW c \in Buffer,
         \A i \in 4 .. Size - 1 : c[i] = b[i],
         NEW type, NEW body, Carries(type, body), ReadsBack(type, body, b)
  PROVE  ReadsBack(type, body, c)
<1>1. /\ 4 \in 4 .. Size - 1 /\ 12 \in 4 .. Size - 1
      /\ \A i \in 5 .. 5 + 2 - 1 : i \in 4 .. Size - 1
      /\ \A i \in 4 .. 4 + 4 - 1 : i \in 4 .. Size - 1
      /\ \A i \in 8 .. 8 + 4 - 1 : i \in 4 .. Size - 1
  BY LineAssumption, Weights
<1>2. CASE type \in Texts
  <2>1. body \in Seq(Byte) /\ Len(body) <= Size - 5 /\ Len(body) \in Nat
    BY <1>2, LenProperties DEF Carries, Texts
  <2>2. b[4] = Len(body) % U8 /\ c[4] = b[4]
    BY <1>1, <1>2 DEF ReadsBack
  <2>3. b[4] \in Nat /\ b[4] <= Len(body)
    <3> DEFINE n == Len(body) % U8
    <3>1. /\ Len(body) \div U8 \in Nat /\ n \in 0 .. U8 - 1
          /\ Len(body) = U8 * (Len(body) \div U8) + n
      BY <2>1, Weights, Divided
    <3>2. U8 * (Len(body) \div U8) \in Nat
      BY <3>1, Weights
    <3> HIDE DEF n
    <3>3. n \in Nat /\ n <= Len(body)
      BY <3>1, <3>2, <2>1
    <3> QED  BY <2>2, <3>3 DEF n
  <2>4. \A i \in 1 .. b[4] : c[4 + i] = b[4 + i]
    <3> SUFFICES ASSUME NEW i \in 1 .. b[4]
                 PROVE  c[4 + i] = b[4 + i]
      OBVIOUS
    <3>1. 4 + i \in 4 .. Size - 1
      BY <2>1, <2>3, Weights
    <3> QED  BY <3>1
  <2>5. get_text(c) = get_text(b)
    BY <2>2, <2>4 DEF get_text
  <2> QED  BY <1>2, <2>2, <2>5 DEF ReadsBack
<1>3. CASE type = "LOGIN_REPLY"
  <2>1. get(c, 5, 2) = get(b, 5, 2) /\ c[4] = b[4]
    BY <1>1, GetReads
  <2>2. body_of(type, c) = body_of(type, b)
    BY <1>3, <2>1 DEF body_of
  <2> QED  BY <1>3, <2>2 DEF ReadsBack, Texts
<1>4. CASE type = "POSITION_UPDATE"
  <2>1. /\ get(c, 4, 4) = get(b, 4, 4) /\ get(c, 8, 4) = get(b, 8, 4)
        /\ c[12] = b[12]
    <3>1. 4 \in Nat /\ 8 \in Nat /\ 4 \in 1 .. 4
      OBVIOUS
    <3>2. get(c, 4, 4) = get(b, 4, 4)
      BY <1>1, <3>1, GetReads
    <3>3. get(c, 8, 4) = get(b, 8, 4)
      BY <1>1, <3>1, GetReads
    <3> QED  BY <1>1, <3>2, <3>3
  <2>2. body_of(type, c) = body_of(type, b)
    BY <1>4, <2>1 DEF body_of
  <2> QED  BY <1>4, <2>2 DEF ReadsBack, Texts
<1>5. CASE type \notin Texts \cup {"LOGIN_REPLY", "POSITION_UPDATE"}
  BY <1>5 DEF ReadsBack, body_of, Texts
<1> QED  BY <1>2, <1>3, <1>4, <1>5

-----------------------------------------------------------------------------
(* The packet on the way *)

\* What is on the way, field by field.
LineInv == given # None =>
  /\ given = [type |-> given.type, ident |-> given.ident, body |-> given.body]
  /\ given.type \in DOMAIN TypeByte
  /\ given.ident \in 0 .. U8 * U8 - 1
  /\ Carries(given.type, given.body)
  /\ buffer \in Buffer
  /\ buffer[2] = TypeByte[given.type]
  /\ get_client_ident(buffer) = given.ident
  /\ ReadsBack(given.type, given.body, buffer)

LEMMA Constructed == construct => LineInv'
<1> SUFFICES ASSUME construct PROVE LineInv'
  OBVIOUS
<1>1. PICK packet \in Given :
        /\ given' = [type |-> packet.type, ident |-> 0, body |-> packet.body]
        /\ buffer' = packet_of(packet.type, packet.body)
  BY DEF construct
<1>2. packet.type \in DOMAIN TypeByte /\ Carries(packet.type, packet.body)
  BY LineAssumption
<1>3. /\ Headed(packet.type, buffer')
      /\ ReadsBack(packet.type, packet.body, buffer')
  BY <1>1, <1>2, PacketReadsBack
<1>4. get_client_ident(buffer') = 0
  BY <1>3, NoIdent
<1>5. /\ given'.type = packet.type /\ given'.ident = 0 /\ given'.body = packet.body
      /\ given' = [type |-> given'.type, ident |-> given'.ident,
                   body |-> given'.body]
      /\ 0 \in 0 .. U8 * U8 - 1
  BY <1>1, Weights
<1> QED  BY <1>2, <1>3, <1>4, <1>5 DEF LineInv, Headed

LEMMA Stamped == LineInv /\ send => LineInv'
<1> SUFFICES ASSUME LineInv, send PROVE LineInv'
  OBVIOUS
<1>1. PICK ident \in Idents :
        /\ given' = [given EXCEPT !.ident = ident]
        /\ buffer' = set_client_ident(buffer, ident)
  BY DEF send
<1>2. ident \in 0 .. U8 * U8 - 1 /\ ident \in Nat /\ ident < U8 * U8
  <2>1. ident \in 0 .. U8 * U8 - 1
    BY LineAssumption
  <2>2. U8 * U8 \in Nat
    BY Weights
  <2> DEFINE bound == U8 * U8
  <2> HIDE DEF bound
  <2>3. ident \in 0 .. bound - 1 /\ bound \in Nat
    BY <2>1, <2>2 DEF bound
  <2>4. ident \in Nat /\ ident < bound
    BY <2>3
  <2> QED  BY <2>1, <2>4 DEF bound
<1>3. given # None
  BY DEF send
<1>4. /\ given'.type = given.type /\ given'.ident = ident
      /\ given'.body = given.body
      /\ given' = [type |-> given'.type, ident |-> given'.ident,
                   body |-> given'.body]
  BY <1>1, <1>3 DEF LineInv
<1>5. buffer \in Buffer /\ 0 \in Nat /\ 2 \in 1 .. 4 /\ 0 + 1 < Size
  BY <1>3, LineAssumption, Weights DEF LineInv
<1>6. /\ buffer' \in Buffer
      /\ \A i \in 0 .. Size - 1 : i \notin 0 .. 0 + 2 - 1 => buffer'[i] = buffer[i]
  BY <1>1, <1>2, <1>5, PutInBuffer, ZenonT(60) DEF set_client_ident
<1>7. get_client_ident(buffer') = ident
  BY <1>1, <1>2, <1>5, PutGet DEF set_client_ident, get_client_ident
<1>8. buffer'[2] = buffer[2] /\ \A i \in 4 .. Size - 1 : buffer'[i] = buffer[i]
  BY <1>6, LineAssumption, Weights
<1>9. ReadsBack(given.type, given.body, buffer')
  BY <1>3, <1>5, <1>6, <1>8, BodyIsApart DEF LineInv
<1> QED  BY <1>2, <1>3, <1>4, <1>6, <1>7, <1>8, <1>9 DEF LineInv

LEMMA Answered == LineInv /\ on_heartbeat_ping => LineInv'
<1> SUFFICES ASSUME LineInv, on_heartbeat_ping PROVE LineInv'
  OBVIOUS
<1>1. /\ given # None /\ given.type = "HEARTBEAT_PING"
      /\ given' = [given EXCEPT !.type = "HEARTBEAT_PONG"]
      /\ buffer' = set_type(buffer, "HEARTBEAT_PONG")
  BY DEF on_heartbeat_ping
<1>2. /\ given'.type = "HEARTBEAT_PONG" /\ given'.ident = given.ident
      /\ given'.body = given.body
      /\ given' = [type |-> given'.type, ident |-> given'.ident,
                   body |-> given'.body]
  BY <1>1 DEF LineInv
<1>3. /\ "HEARTBEAT_PONG" \in DOMAIN TypeByte
      /\ TypeByte["HEARTBEAT_PONG"] \in Nat /\ TypeByte["HEARTBEAT_PONG"] < U8
  BY LineAssumption, LayoutAssumption
<1>4. buffer \in Buffer /\ 2 \in Nat /\ 1 \in 1 .. 4 /\ 2 < Size
  BY <1>1, LineAssumption, Weights DEF LineInv
<1>5. /\ buffer' \in Buffer
      /\ \A i \in 0 .. Size - 1 : i \notin 2 .. 2 + 1 - 1 => buffer'[i] = buffer[i]
  BY <1>1, <1>3, <1>4, PutInBuffer, ZenonT(60) DEF set_type
<1>6. buffer'[2] = TypeByte["HEARTBEAT_PONG"]
  BY <1>1, <1>3, <1>4, PutGet DEF set_type
<1>7. get_client_ident(buffer') = get_client_ident(buffer)
  <2>1. \A i \in 0 .. 0 + 2 - 1 : i \in 0 .. Size - 1 /\ i \notin 2 .. 2 + 1 - 1
    BY LineAssumption, Weights
  <2>2. 0 \in Nat /\ 2 \in 1 .. 4 /\ \A i \in 0 .. 0 + 2 - 1 : buffer'[i] = buffer[i]
    BY <1>5, <2>1
  <2> QED  BY <1>4, <1>5, <2>2, GetReads DEF get_client_ident
<1>8. given.body = <<>>
  BY <1>1 DEF LineInv, Carries
<1>9. /\ Carries("HEARTBEAT_PONG", <<>>)
      /\ ReadsBack("HEARTBEAT_PONG", <<>>, buffer')
  BY DEF Carries, ReadsBack, Texts, body_of
<1> QED  BY <1>1, <1>2, <1>3, <1>5, <1>6, <1>7, <1>8, <1>9 DEF LineInv

LEMMA LineInvariance == LineSpec => []LineInv
<1>1. LineInit => LineInv
  BY DEF LineInit, LineInv
<1>2. LineInv /\ [LineNext]_lineVars => LineInv'
  <2> SUFFICES ASSUME LineInv, [LineNext]_lineVars PROVE LineInv'
    OBVIOUS
  <2>1. CASE construct
    BY <2>1, Constructed
  <2>2. CASE send
    BY <2>2, Stamped
  <2>3. CASE on_heartbeat_ping
    BY <2>3, Answered
  <2>4. CASE on_packet_received
    BY <2>4 DEF on_packet_received, LineInv
  <2>5. CASE UNCHANGED <<given, buffer>>
    BY <2>5 DEF LineInv
  <2> QED  BY <2>1, <2>2, <2>3, <2>4, <2>5 DEF LineNext, DrawsWindow, lineVars
<1> QED  BY <1>1, <1>2, PTL DEF LineSpec

\* A packet reads back as it was constructed, stamped and turned round: no
\* field reaches into another one, and only a text too long for its length byte
\* is cut.
THEOREM PacketsReadBack == LineSpec => []FieldsReadBack
<1>1. LineInv => FieldsReadBack
  <2> SUFFICES ASSUME LineInv, given # None
               PROVE  /\ buffer \in Buffer
                      /\ \A type \in DOMAIN TypeByte :
                           has_type(buffer, type) <=> type = given.type
                      /\ get_client_ident(buffer) = given.ident
                      /\ IF given.type \in Texts
                         THEN /\ body_of(given.type, buffer) =
                                   SubSeq(given.body, 1, Len(given.body) % U8)
                              /\ body_of(given.type, buffer) = given.body
                                   <=> Len(given.body) < U8
                         ELSE body_of(given.type, buffer) = given.body
    BY DEF FieldsReadBack, Texts
  <2>1. /\ buffer \in Buffer /\ get_client_ident(buffer) = given.ident
        /\ given.type \in DOMAIN TypeByte /\ buffer[2] = TypeByte[given.type]
        /\ Carries(given.type, given.body)
        /\ ReadsBack(given.type, given.body, buffer)
    BY DEF LineInv
  <2>2. ASSUME NEW type \in DOMAIN TypeByte
        PROVE  has_type(buffer, type) <=> type = given.type
    <3>1. get(buffer, 2, 1) = buffer[2]
      <4>1. 2 \in 0 .. Size - 1
        BY LineAssumption, Weights
      <4> QED  BY <2>1, <4>1, ByteIsGet
    <3> QED  BY <2>1, <3>1, LayoutAssumption DEF has_type
  <2>3. CASE given.type \in Texts
    <3>1. body_of(given.type, buffer) =
            SubSeq(given.body, 1, Len(given.body) % U8)
      BY <2>1, <2>3 DEF ReadsBack, body_of, Texts
    <3>2. given.body \in Seq(Byte) /\ Len(given.body) \in Nat
      BY <2>1, <2>3, LenProperties DEF Carries, Texts
    <3> DEFINE n == Len(given.body) % U8
    <3>3. n \in 0 .. U8 - 1 /\ n \in Nat /\ U8 \in Nat
      <4>1. n \in 0 .. U8 - 1
        BY <3>2, Weights, Divided
      <4> HIDE DEF n
      <4> QED  BY <4>1, Weights
    <3>4. ASSUME Len(given.body) < U8
          PROVE  SubSeq(given.body, 1, n) = given.body
      <4> DEFINE l == Len(given.body)
      <4> HIDE DEF n, l
      <4>1. U8 * 0 + l = l /\ l \in 0 .. U8 - 1
        <5>1. l \in Nat /\ l < U8
          BY <3>2, <3>4 DEF l
        <5> QED  BY <3>3, <5>1
      <4>2. (U8 * 0 + l) % U8 = l
        BY <4>1, Weights, Quotient
      <4>3. n = l
        BY <4>1, <4>2 DEF n, l
      <4>4. SubSeq(given.body, 1, l) = given.body
        BY <3>2 DEF l
      <4> QED  BY <4>3, <4>4
    <3>5. ASSUME SubSeq(given.body, 1, n) = given.body
          PROVE  Len(given.body) < U8
      <4> HIDE DEF n
      <4>1. Len(SubSeq(given.body, 1, n)) = n
        BY <3>3
      <4> QED  BY <3>3, <3>5, <4>1
    <3> QED  BY <2>1, <2>2, <2>3, <3>1, <3>4, <3>5
  <2>4. CASE given.type \notin Texts
    BY <2>1, <2>2, <2>4 DEF ReadsBack
  <2> QED  BY <2>3, <2>4
<1> QED  BY <1>1, LineInvariance, PTL
=============================================================================
