---------------------------- MODULE FramingProofs ----------------------------
(***************************************************************************)
(* Proofs about Wire and Framing, for every base, width and limit, and     *)
(* every number and content of messages.  First Wire: what is written is   *)
(* read back, and what is read was written.  Then Framing.                 *)
(***************************************************************************)
EXTENDS Framing, DataLemmas

LEMMA BaseAndWidth == Base \in Nat \ {0, 1} /\ Width \in Nat \ {0}
  BY WireAssumption

LEMMA BytesAssociate == \A s, t, u \in Seq(Byte) : (s \o t) \o u = s \o (t \o u)
  BY ConcatAssociates


-----------------------------------------------------------------------------
(***************************************************************************)
(* Powers of the base.                                                     *)
(***************************************************************************)
LEMMA PowerIsDefined ==
    Power = [k \in 0..Width |-> IF k = 0 THEN 1 ELSE Base * Power[k - 1]]
<1> DEFINE Upto(n, f) == f = [k \in 0..n |-> IF k = 0 THEN 1 ELSE Base * f[k - 1]]
           T == {n \in Nat : \E f : Upto(n, f)}
<1>1. 0 \in T
  <2>1. Upto(0, [k \in 0..0 |-> 1])
    OBVIOUS
  <2> QED
    BY <2>1
<1>2. ASSUME NEW n \in T PROVE n + 1 \in T
  <2>1. PICK f : Upto(n, f)
    OBVIOUS
  <2> DEFINE g == [k \in 0..(n + 1) |-> IF k = n + 1 THEN Base * f[n] ELSE f[k]]
  <2>2. Upto(n + 1, g)
    BY <2>1
  <2> HIDE DEF g
  <2> QED
    BY <2>2
<1>3. T \subseteq Nat
  OBVIOUS
<1> HIDE DEF T
<1>4. T = Nat
  BY <1>1, <1>2, <1>3, SetInduction
<1>5. \E f : Upto(Width, f)
  BY <1>4, BaseAndWidth DEF T
<1> QED
  BY <1>5 DEF Power

LEMMA PowerSteps ==
    /\ Power[0] = 1
    /\ \A k \in 0..(Width - 1) : Power[k + 1] = Base * Power[k]
  BY PowerIsDefined, BaseAndWidth

LEMMA PowerIsPositive == \A k \in 0..Width : Power[k] \in Nat \ {0}
<1> DEFINE T == {k \in Nat : k <= Width => Power[k] \in Nat \ {0}}
<1>1. 0 \in T
  BY PowerSteps
<1>2. ASSUME NEW k \in T PROVE k + 1 \in T
  <2> SUFFICES ASSUME k + 1 <= Width PROVE Power[k + 1] \in Nat \ {0}
    OBVIOUS
  <2>1. k \in 0..(Width - 1) /\ Power[k] \in Nat \ {0}
    BY BaseAndWidth
  <2>2. Power[k + 1] = Base * Power[k]
    BY <2>1, PowerSteps
  <2> QED
    BY <2>1, <2>2, BaseAndWidth
<1>3. T \subseteq Nat
  OBVIOUS
<1> HIDE DEF T
<1>4. T = Nat
  BY <1>1, <1>2, <1>3, SetInduction
<1> QED
  BY <1>4, BaseAndWidth DEF T

-----------------------------------------------------------------------------
(***************************************************************************)
(* Numbers.                                                                *)
(***************************************************************************)
LEMMA ValueIsRead ==
    ASSUME NEW bytes
    PROVE  \E read :
              /\ read = [i \in 0..Width |->
                            IF i = 0 THEN 0 ELSE read[i - 1] * Base + bytes[i]]
              /\ Value(bytes) = read[Width]
<1> DEFINE Upto(n, f) ==
               f = [i \in 0..n |-> IF i = 0 THEN 0 ELSE f[i - 1] * Base + bytes[i]]
           T == {n \in Nat : \E f : Upto(n, f)}
<1>1. 0 \in T
  <2>1. Upto(0, [i \in 0..0 |-> 0])
    OBVIOUS
  <2> QED
    BY <2>1
<1>2. ASSUME NEW n \in T PROVE n + 1 \in T
  <2>1. PICK f : Upto(n, f)
    OBVIOUS
  <2> DEFINE g == [i \in 0..(n + 1) |->
                      IF i = n + 1 THEN f[n] * Base + bytes[n + 1] ELSE f[i]]
  <2>2. Upto(n + 1, g)
    BY <2>1
  <2> HIDE DEF g
  <2> QED
    BY <2>2
<1>3. T \subseteq Nat
  OBVIOUS
<1> HIDE DEF T
<1>4. T = Nat
  BY <1>1, <1>2, <1>3, SetInduction
<1>5. \E f : Upto(Width, f)
  BY <1>4, BaseAndWidth DEF T
<1>6. Upto(Width, CHOOSE f : Upto(Width, f))
  BY <1>5
<1>7. Value(bytes) = (CHOOSE f : Upto(Width, f))[Width]
  BY DEF Value
<1> QED
  BY <1>6, <1>7

LEMMA FieldType ==
    ASSUME NEW n \in Nat
    PROVE  Field(n) \in Seq(Byte) /\ Len(Field(n)) = Width
<1>1. ASSUME NEW i \in 1..Width
      PROVE  (n \div Power[Width - i]) % Base \in Byte
  <2>1. Power[Width - i] \in Nat \ {0}
    BY PowerIsPositive, BaseAndWidth
  <2>2. n \div Power[Width - i] \in Nat
    BY <2>1, DivMod
  <2> QED
    BY <2>2, DivMod, BaseAndWidth DEF Byte
<1> QED
  BY <1>1, BaseAndWidth DEF Field

(* What put_u32 writes, get_u32 reads, whatever bytes are behind it. *)
LEMMA ValueOfField ==
    ASSUME NEW n \in Nat, n < Power[Width], NEW bytes,
           \A i \in 1..Width : bytes[i] = Field(n)[i]
    PROVE  Value(bytes) = n
<1>1. PICK read :
          /\ read = [i \in 0..Width |->
                        IF i = 0 THEN 0 ELSE read[i - 1] * Base + bytes[i]]
          /\ Value(bytes) = read[Width]
  BY ValueIsRead
<1> DEFINE T == {i \in Nat : i <= Width => read[i] = n \div Power[Width - i]}
<1>2. 0 \in T
  <2>1. Power[Width] \in Nat \ {0}
    BY PowerIsPositive, BaseAndWidth
  <2>2. n \div Power[Width] = 0
    <3>1. /\ n \div Power[Width] \in Nat /\ n % Power[Width] \in 0..(Power[Width] - 1)
          /\ n = Power[Width] * (n \div Power[Width]) + (n % Power[Width])
      BY <2>1, DivMod
    <3>2. n = Power[Width] * 0 + n
      BY <2>1
    <3> DEFINE p == Power[Width]
               q == n \div Power[Width]
               r == n % Power[Width]
    <3>3. /\ p \in Nat \ {0} /\ q \in Int /\ r \in 0..(p - 1) /\ n \in 0..(p - 1)
          /\ p * q + r = p * 0 + n
      BY <2>1, <3>1, <3>2
    <3> HIDE DEF p, q, r
    <3>4. q = 0
      BY ONLY <3>3, DivUnique
    <3> QED
      BY <3>4 DEF q
  <2>3. read[0] = 0
    BY <1>1, BaseAndWidth
  <2> QED
    BY <2>2, <2>3, BaseAndWidth
<1>3. ASSUME NEW i \in T PROVE i + 1 \in T
  <2> SUFFICES ASSUME i + 1 <= Width PROVE read[i + 1] = n \div Power[Width - (i + 1)]
    OBVIOUS
  <2> DEFINE p == Power[Width - (i + 1)]
             q == n \div p
  <2>1. i \in Nat /\ Width - (i + 1) \in 0..(Width - 1)
    BY BaseAndWidth
  <2>2. p \in Nat \ {0} /\ Power[Width - i] = Base * p
    <3>1. (Width - (i + 1)) + 1 = Width - i
      BY <2>1, BaseAndWidth
    <3> QED
      BY <2>1, <3>1, PowerSteps, PowerIsPositive, BaseAndWidth
  <2>3. read[i] = q \div Base
    <3>1. read[i] = n \div (Base * p)
      BY <2>1, <2>2, BaseAndWidth
    <3> HIDE DEF p
    <3> QED
      BY <2>2, <3>1, DivDiv, BaseAndWidth
  <2>4. bytes[i + 1] = q % Base
    BY <2>1, BaseAndWidth DEF Field
  <2>5. read[i + 1] = read[i] * Base + bytes[i + 1]
    BY <1>1, <2>1, BaseAndWidth
  <2>6. q \in Nat
    BY <2>2, DivMod
  <2> HIDE DEF q
  <2>7. q = Base * (q \div Base) + (q % Base) /\ q \div Base \in Nat
    BY <2>6, DivMod, BaseAndWidth
  <2>8. (q \div Base) * Base = Base * (q \div Base)
    BY <2>7, Distributes, BaseAndWidth
  <2> QED
    BY <2>3, <2>4, <2>5, <2>7, <2>8 DEF q
<1>4. T \subseteq Nat
  OBVIOUS
<1> HIDE DEF T
<1>5. T = Nat
  BY <1>2, <1>3, <1>4, SetInduction
<1>6. read[Width] = n \div Power[0]
  BY <1>5, BaseAndWidth DEF T
<1>7. n \div 1 = n
  OBVIOUS
<1> QED
  BY <1>1, <1>6, <1>7, PowerSteps

LEMMA ValueType ==
    ASSUME NEW bytes \in Seq(Byte), Len(bytes) >= Width
    PROVE  Value(bytes) \in Nat
<1>1. PICK read :
          /\ read = [i \in 0..Width |->
                        IF i = 0 THEN 0 ELSE read[i - 1] * Base + bytes[i]]
          /\ Value(bytes) = read[Width]
  BY ValueIsRead
<1> DEFINE T == {i \in Nat : i <= Width => read[i] \in Nat}
<1>2. 0 \in T
  BY <1>1, BaseAndWidth
<1>3. ASSUME NEW i \in T PROVE i + 1 \in T
  <2> SUFFICES ASSUME i + 1 <= Width PROVE read[i + 1] \in Nat
    OBVIOUS
  <2>1. read[i] \in Nat /\ bytes[i + 1] \in Nat
    BY BaseAndWidth DEF Byte
  <2>2. read[i + 1] = read[i] * Base + bytes[i + 1]
    BY <1>1, BaseAndWidth
  <2> DEFINE r == read[i]
             b == bytes[i + 1]
  <2>3. r \in Nat /\ b \in Nat /\ read[i + 1] = r * Base + b
    BY <2>1, <2>2
  <2> HIDE DEF r, b
  <2>4. r * Base \in Nat
    BY <2>3, BaseAndWidth
  <2> QED
    BY <2>3, <2>4
<1>4. T \subseteq Nat
  OBVIOUS
<1> HIDE DEF T
<1>5. T = Nat
  BY <1>2, <1>3, <1>4, SetInduction
<1>6. read[Width] \in Nat
  BY <1>5, BaseAndWidth DEF T
<1> QED
  BY <1>1, <1>6

LEMMA PutBlobType ==
    ASSUME NEW body \in Seq(Byte)
    PROVE  /\ PutBlob(body) \in Seq(Byte) /\ Len(PutBlob(body)) = Width + Len(body)
           /\ \A q \in 1..Width : PutBlob(body)[q] = Field(Len(body))[q]
           /\ \A q \in 1..Len(body) : PutBlob(body)[Width + q] = body[q]
<1> DEFINE field == Field(Len(body))
<1>1. Len(body) \in Nat
  OBVIOUS
<1>2. field \in Seq(Byte) /\ Len(field) = Width
  BY <1>1, FieldType
<1> HIDE DEF field
<1>3. /\ field \o body \in Seq(Byte) /\ Len(field \o body) = Width + Len(body)
      /\ \A q \in 1..Width : (field \o body)[q] = field[q]
      /\ \A q \in 1..Len(body) : (field \o body)[Width + q] = body[q]
  BY <1>1, <1>2, BaseAndWidth
<1> QED
  BY <1>3 DEF PutBlob, field

LEMMA DecodeType ==
    ASSUME NEW bytes \in Seq(Byte), bytes # << >>
    PROVE  Decode(bytes) \in [type : KnownTypes \cup {Unknown}, payload : Seq(Byte)]
<1>1. Tail(bytes) \in Seq(Byte)
  OBVIOUS
<1> QED
  BY <1>1 DEF Decode, AsType


(* The other way round: what get_u32 has read is written as it was, and is  *)
(* below the range of a number.                                            *)
LEMMA FieldOfValue ==
    ASSUME NEW bytes \in Seq(Byte), Len(bytes) >= Width
    PROVE  /\ Value(bytes) \in 0..(Power[Width] - 1)
           /\ \A i \in 1..Width : Field(Value(bytes))[i] = bytes[i]
<1>1. PICK read :
          /\ read = [i \in 0..Width |->
                        IF i = 0 THEN 0 ELSE read[i - 1] * Base + bytes[i]]
          /\ Value(bytes) = read[Width]
  BY ValueIsRead
<1> DEFINE v == Value(bytes)
<1>2. v \in Nat
  BY ValueType
<1>3. read[0] = 0 /\ \A i \in 1..Width : read[i] = read[i - 1] * Base + bytes[i]
  BY <1>1, BaseAndWidth
<1>4. \A i \in 1..Width : bytes[i] \in 0..(Base - 1)
  BY BaseAndWidth DEF Byte
<1>5. \A i \in 0..Width : read[i] \in Nat
  <2> DEFINE T == {i \in Nat : i <= Width => read[i] \in Nat}
  <2>1. 0 \in T
    BY <1>3
  <2>2. ASSUME NEW i \in T PROVE i + 1 \in T
    <3> SUFFICES ASSUME i + 1 <= Width PROVE read[i + 1] \in Nat
      OBVIOUS
    <3> DEFINE r == read[i]
               b == bytes[i + 1]
    <3>1. i + 1 \in 1..Width /\ (i + 1) - 1 = i
      BY BaseAndWidth
    <3>2. r \in Nat /\ b \in Nat /\ read[i + 1] = r * Base + b
      BY <1>3, <1>4, <3>1, BaseAndWidth
    <3> HIDE DEF r, b
    <3>3. r * Base \in Nat
      BY <3>2, BaseAndWidth
    <3> QED
      BY <3>2, <3>3
  <2>3. T \subseteq Nat
    OBVIOUS
  <2> HIDE DEF T
  <2>4. T = Nat
    BY <2>1, <2>2, <2>3, SetInduction
  <2> QED
    BY <2>4, BaseAndWidth DEF T
<1>6. ASSUME NEW i \in 1..Width
      PROVE  read[i] \div Base = read[i - 1] /\ read[i] % Base = bytes[i]
  <2> DEFINE n == read[i]
             s == read[i - 1]
             t == bytes[i]
             q == n \div Base
             r == n % Base
  <2>1. i - 1 \in 0..Width
    BY BaseAndWidth
  <2>2. n \in Nat /\ s \in Nat /\ t \in 0..(Base - 1)
    BY <1>4, <1>5, <2>1, BaseAndWidth
  <2>3. q \in Nat /\ r \in 0..(Base - 1) /\ n = Base * q + r
    BY <2>2, DivMod, BaseAndWidth
  <2>4. n = s * Base + t
    BY <1>3
  <2>5. s * Base = Base * s
    BY <2>2, Distributes, BaseAndWidth
  <2> HIDE DEF n, s, t, q, r
  <2>6. Base * q + r = Base * s + t
    BY <2>3, <2>4, <2>5
  <2>7. q = s
    BY <2>2, <2>3, <2>6, DivUnique, BaseAndWidth
  <2>8. Base * q \in Int
    BY <2>3, BaseAndWidth
  <2>9. r = t
    BY ONLY <2>2, <2>3, <2>6, <2>7, <2>8
  <2> QED
    BY <2>7, <2>9 DEF q, r, n, s, t
<1> DEFINE T == {j \in Nat : j <= Width => v \div Power[j] = read[Width - j]}
<1>7. 0 \in T
  <2>1. v \div 1 = v
    BY <1>2
  <2>2. Width - 0 = Width
    BY BaseAndWidth
  <2> QED
    BY <1>1, <2>1, <2>2, PowerSteps
<1>8. ASSUME NEW j \in T PROVE j + 1 \in T
  <2> SUFFICES ASSUME j + 1 <= Width PROVE v \div Power[j + 1] = read[Width - (j + 1)]
    OBVIOUS
  <2>1. j \in 0..(Width - 1) /\ v \div Power[j] = read[Width - j]
    BY BaseAndWidth
  <2> DEFINE p == Power[j]
  <2>2. p \in Nat \ {0} /\ Power[j + 1] = Base * p
    BY <2>1, PowerSteps, PowerIsPositive, BaseAndWidth
  <2>3. Width - j \in 1..Width /\ (Width - j) - 1 = Width - (j + 1)
    BY <2>1, BaseAndWidth
  <2>4. read[Width - j] \div Base = read[Width - (j + 1)]
    BY <1>6, <2>3
  <2> HIDE DEF v
  <2>5. (v \div p) \div Base = v \div (Base * p)
    <3> HIDE DEF p
    <3> QED
      BY <1>2, <2>2, DivDiv, BaseAndWidth
  <2> QED
    BY <2>1, <2>2, <2>4, <2>5
<1>9. T \subseteq Nat
  OBVIOUS
<1> HIDE DEF T
<1>10. T = Nat
  BY <1>7, <1>8, <1>9, SetInduction
<1>11. \A j \in 0..Width : v \div Power[j] = read[Width - j]
  BY <1>10, BaseAndWidth DEF T
<1>12. ASSUME NEW i \in 1..Width PROVE Field(v)[i] = bytes[i]
  <2>1. Width - i \in 0..Width /\ Width - (Width - i) = i
    BY BaseAndWidth
  <2>2. v \div Power[Width - i] = read[i]
    BY <1>11, <2>1
  <2>3. Field(v)[i] = (v \div Power[Width - i]) % Base
    BY DEF Field
  <2> QED
    BY <1>6, <2>2, <2>3
<1>13. v < Power[Width]
  <2> DEFINE p == Power[Width]
             q == v \div p
             r == v % p
  <2>1. p \in Nat \ {0}
    BY PowerIsPositive, BaseAndWidth
  <2>2. q = 0
    <3>1. Width \in 0..Width /\ Width - Width = 0
      BY BaseAndWidth
    <3> QED
      BY <1>3, <1>11, <3>1
  <2>3. q \in Nat /\ r \in 0..(p - 1) /\ v = p * q + r
    BY <1>2, <2>1, DivMod
  <2> HIDE DEF p, q, r
  <2>4. p * q = 0
    BY <2>1, <2>2
  <2>5. v < p
    BY <2>1, <2>3, <2>4
  <2> QED
    BY <2>5 DEF p
<1>14. Power[Width] \in Nat
  BY PowerIsPositive, BaseAndWidth
<1> QED
  BY <1>2, <1>12, <1>13, <1>14

-----------------------------------------------------------------------------
(***************************************************************************)
(* Blobs.  What PutBlob writes is read back, with what is behind it; and   *)
(* what is read as a blob was written as one.                              *)
(***************************************************************************)
LEMMA BlobOfPutBlob ==
    ASSUME NEW b \in Seq(Byte), NEW rest \in Seq(Byte), Len(b) <= MaxBlob
    PROVE  /\ HasBlob(PutBlob(b) \o rest)
           /\ Blob(PutBlob(b) \o rest) = b
           /\ AfterBlob(PutBlob(b) \o rest) = rest
<1> DEFINE put == PutBlob(b)
           buf == put \o rest
           W == Width
           B == Len(b)
           R == Len(rest)
<1>1. B \in Nat /\ R \in Nat /\ W \in Nat \ {0}
  BY BaseAndWidth
<1>2. /\ put \in Seq(Byte) /\ Len(put) = W + B
      /\ \A q \in 1..W : put[q] = Field(B)[q]
      /\ \A q \in 1..B : put[W + q] = b[q]
  BY PutBlobType
<1> HIDE DEF put
<1>3. /\ buf \in Seq(Byte) /\ Len(buf) = Len(put) + R
      /\ \A k \in 1..Len(put) : buf[k] = put[k]
      /\ \A k \in 1..R : buf[Len(put) + k] = rest[k]
  <2>1. buf \in Seq(Byte) /\ Len(buf) = Len(put) + R
    BY <1>2, ConcatParts
  <2>2. \A k \in 1..Len(put) : buf[k] = put[k]
    BY <1>2, ConcatParts
  <2>3. \A k \in 1..R : buf[Len(put) + k] = rest[k]
    BY <1>2, ConcatParts
  <2> QED
    BY <2>1, <2>2, <2>3
<1>4. \A q \in 1..W : buf[q] = Field(B)[q]
  BY <1>1, <1>2, <1>3
<1>5. B < Power[Width]
  BY <1>1, WireAssumption, PowerIsPositive
<1>6. Value(buf) = B
  <2> HIDE DEF buf
  <2> QED
    BY <1>1, <1>4, <1>5, ValueOfField
<1>7. Len(buf) = W + B + R
  BY <1>1, <1>2, <1>3
<1> HIDE DEF W, B, R, buf
<1>8. HasBlob(buf)
  BY <1>1, <1>6, <1>7 DEF HasBlob, W, B
<1>9. Blob(buf) = b
  <2>1. Blob(buf) = SubSeq(buf, W + 1, W + B)
    BY <1>6 DEF Blob, W
  <2>2. /\ SubSeq(buf, W + 1, W + B) \in Seq(Byte) /\ Len(SubSeq(buf, W + 1, W + B)) = B
        /\ \A k \in 1..B : SubSeq(buf, W + 1, W + B)[k] = buf[W + k]
    BY <1>1, <1>3, <1>7
  <2>3. \A k \in 1..B : buf[W + k] = b[k]
    BY <1>1, <1>2, <1>3
  <2> QED
    BY <2>1, <2>2, <2>3, SameElements DEF B
<1>10. AfterBlob(buf) = rest
  <2>1. AfterBlob(buf) = SubSeq(buf, W + 1 + B, Len(buf))
    BY <1>6 DEF AfterBlob, From, W
  <2>2. SubSeq(buf, W + 1 + B, Len(buf)) \in Seq(Byte)
    BY <1>1, <1>3, <1>7
  <2>3. Len(SubSeq(buf, W + 1 + B, Len(buf))) = R
    <3> DEFINE N == Len(buf)
               A == W + 1 + B
    <3>1. N \in Nat /\ A \in 1..(N + 1) /\ (N - A) + 1 = R
      BY <1>1, <1>7
    <3> HIDE DEF A
    <3>2. CASE R = 0
      BY <1>3, <3>1, <3>2 DEF A
    <3>3. CASE R # 0
      <4>1. A \in 1..N
        BY <1>1, <3>1, <3>3
      <4>2. Len(SubSeq(buf, A, N)) = (N - A) + 1
        BY <1>3, <4>1
      <4> QED
        BY <3>1, <4>2 DEF A
    <3> QED
      BY <3>2, <3>3
  <2>4. \A k \in 1..R : SubSeq(buf, W + 1 + B, Len(buf))[k] = buf[(W + B) + k]
    BY <1>1, <1>3, <1>7
  <2>5. \A k \in 1..R : buf[(W + B) + k] = rest[k]
    BY <1>1, <1>2, <1>3
  <2> QED
    BY <2>1, <2>2, <2>3, <2>4, <2>5, SameElements DEF R
<1> QED
  BY <1>8, <1>9, <1>10 DEF buf, put

LEMMA PutBlobOfBlob ==
    ASSUME NEW buf \in Seq(Byte), HasBlob(buf)
    PROVE  /\ Blob(buf) \in Seq(Byte) /\ Len(Blob(buf)) = Value(buf)
           /\ Len(Blob(buf)) <= MaxBlob
           /\ AfterBlob(buf) \in Seq(Byte)
           /\ buf = PutBlob(Blob(buf)) \o AfterBlob(buf)
<1> DEFINE V == Value(buf)
           W == Width
           N == Len(buf)
           b == Blob(buf)
           rest == AfterBlob(buf)
           put == PutBlob(b)
<1>1. N \in Nat /\ W \in Nat \ {0} /\ V \in Nat /\ W + V <= N /\ V <= MaxBlob
  BY FieldOfValue, BaseAndWidth, WireAssumption, PowerIsPositive DEF HasBlob
<1>2. \A q \in 1..W : Field(V)[q] = buf[q]
  BY FieldOfValue DEF HasBlob
<1> HIDE DEF V, W, N
<1>3. /\ b \in Seq(Byte) /\ Len(b) = V
      /\ \A k \in 1..V : b[k] = buf[W + k]
  <2>1. b = SubSeq(buf, W + 1, W + V)
    BY DEF Blob, W, V
  <2>2. /\ SubSeq(buf, W + 1, W + V) \in Seq(Byte) /\ Len(SubSeq(buf, W + 1, W + V)) = V
        /\ \A k \in 1..V : SubSeq(buf, W + 1, W + V)[k] = buf[W + k]
    BY <1>1 DEF N
  <2> HIDE DEF b
  <2> QED
    BY <2>1, <2>2
<1>4. /\ rest \in Seq(Byte) /\ Len(rest) = N - (W + V)
      /\ \A k \in 1..(N - (W + V)) : rest[k] = buf[(W + V) + k]
  <2>1. rest = SubSeq(buf, W + 1 + V, N)
    BY DEF AfterBlob, From, W, V, N
  <2>2. /\ SubSeq(buf, W + 1 + V, N) \in Seq(Byte) /\ Len(SubSeq(buf, W + 1 + V, N)) = N - (W + V)
        /\ \A k \in 1..(N - (W + V)) : SubSeq(buf, W + 1 + V, N)[k] = buf[(W + V) + k]
    BY <1>1 DEF N
  <2> HIDE DEF rest
  <2> QED
    BY <2>1, <2>2
<1>5. /\ put \in Seq(Byte) /\ Len(put) = W + V
      /\ \A q \in 1..W : put[q] = Field(V)[q]
      /\ \A q \in 1..V : put[W + q] = b[q]
  <2> HIDE DEF b
  <2> QED
    BY <1>3, PutBlobType DEF W
<1> HIDE DEF b, rest, put
<1>6. /\ put \o rest \in Seq(Byte) /\ Len(put \o rest) = Len(put) + Len(rest)
      /\ \A k \in 1..Len(put) : (put \o rest)[k] = put[k]
      /\ \A k \in 1..Len(rest) : (put \o rest)[Len(put) + k] = rest[k]
  <2>1. put \o rest \in Seq(Byte) /\ Len(put \o rest) = Len(put) + Len(rest)
    BY <1>4, <1>5, ConcatParts
  <2>2. \A k \in 1..Len(put) : (put \o rest)[k] = put[k]
    BY <1>4, <1>5, ConcatParts
  <2>3. \A k \in 1..Len(rest) : (put \o rest)[Len(put) + k] = rest[k]
    BY <1>4, <1>5, ConcatParts
  <2> QED
    BY <2>1, <2>2, <2>3
<1>7. Len(put \o rest) = N
  BY <1>1, <1>4, <1>5, <1>6
<1>8. ASSUME NEW k \in 1..N PROVE (put \o rest)[k] = buf[k]
  <2>1. CASE k <= W
    <3>1. k \in 1..W /\ k \in 1..(W + V)
      BY <1>1, <2>1
    <3> QED
      BY <1>2, <1>5, <1>6, <3>1
  <2>2. CASE k > W /\ k <= W + V
    <3>1. k - W \in 1..V /\ W + (k - W) = k /\ k \in 1..(W + V)
      BY <1>1, <2>2
    <3>2. put[k] = b[k - W] /\ b[k - W] = buf[k]
      BY <1>3, <1>5, <3>1
    <3> QED
      BY <1>5, <1>6, <3>1, <3>2
  <2>3. CASE k > W + V
    <3>1. k - (W + V) \in 1..(N - (W + V)) /\ (W + V) + (k - (W + V)) = k
      BY <1>1, <2>3
    <3>2. (put \o rest)[k] = rest[k - (W + V)] /\ rest[k - (W + V)] = buf[k]
      BY <1>4, <1>5, <1>6, <3>1
    <3> QED
      BY <3>2
  <2>4. k <= W \/ (k > W /\ k <= W + V) \/ k > W + V
    BY <1>1
  <2> QED
    BY <2>1, <2>2, <2>3, <2>4
<1>9. buf = put \o rest
  BY <1>6, <1>7, <1>8, SameElements DEF N
<1> QED
  BY <1>1, <1>3, <1>4, <1>9 DEF b, rest, put, V

(* A blob is read from a buffer exactly if the buffer begins with it. *)
LEMMA BlobIsPrefix ==
    ASSUME NEW buf \in Seq(Byte), NEW b \in Seq(Byte), Len(b) <= MaxBlob
    PROVE  IsPrefix(PutBlob(b), buf) <=> HasBlob(buf) /\ Blob(buf) = b
<1>1. PutBlob(b) \in Seq(Byte)
  BY PutBlobType
<1>2. ASSUME IsPrefix(PutBlob(b), buf) PROVE HasBlob(buf) /\ Blob(buf) = b
  <2>1. PICK r \in Seq(Byte) : buf = PutBlob(b) \o r
    BY <1>1, <1>2, PrefixHasRest
  <2> QED
    BY <2>1, BlobOfPutBlob
<1>3. ASSUME HasBlob(buf), Blob(buf) = b PROVE IsPrefix(PutBlob(b), buf)
  <2>1. buf = PutBlob(b) \o AfterBlob(buf) /\ AfterBlob(buf) \in Seq(Byte)
    BY <1>3, PutBlobOfBlob
  <2> DEFINE rest == AfterBlob(buf)
  <2> HIDE DEF rest
  <2>2. IsPrefix(PutBlob(b), PutBlob(b) \o rest)
    BY <1>1, <2>1, PrefixOfConcat DEF rest
  <2> QED
    BY <2>1, <2>2 DEF rest
<1> QED
  BY <1>2, <1>3

(* The key of a sign request is the one that the request begins with. *)
LEMMA SignKeyIsPrefix ==
    ASSUME NEW msg, msg.type = SignType, msg.payload \in Seq(Byte),
           NEW key \in Seq(Byte), Len(key) <= MaxBlob
    PROVE  SignKey(msg) = key <=> IsPrefix(PutBlob(key), msg.payload)
<1>1. Error # key
  BY WireAssumption
<1> QED
  BY <1>1, BlobIsPrefix DEF SignKey

-----------------------------------------------------------------------------
(***************************************************************************)
(* Comments.                                                               *)
(***************************************************************************)
Utf8 == Byte \ Malformed

(* What replaces one byte. *)
LossyByte(byte) == IF byte \in Malformed THEN Replacement ELSE <<byte>>

LEMMA LossyByteType ==
    ASSUME NEW byte \in Byte
    PROVE  LossyByte(byte) \in Seq(Utf8) /\ Len(LossyByte(byte)) <= 3
<1>1. CASE byte \in Malformed
  BY <1>1, WireAssumption DEF LossyByte, Utf8
<1>2. CASE byte \notin Malformed
  BY <1>2 DEF LossyByte, Utf8
<1> QED
  BY <1>1, <1>2

LEMMA LossyAppend ==
    ASSUME NEW bytes \in Seq(Byte), NEW byte \in Byte
    PROVE  Lossy(Append(bytes, byte)) = Lossy(bytes) \o LossyByte(byte)
<1> DEFINE L == Len(bytes)
           more == Append(bytes, byte)
           parts == [i \in 1..L |-> LossyByte(bytes[i])]
           moreParts == [i \in 1..Len(more) |-> LossyByte(more[i])]
<1>1. Lossy(bytes) = FlattenSeq(parts) /\ Lossy(more) = FlattenSeq(moreParts)
  BY DEF Lossy, LossyByte
<1>2. /\ more \in Seq(Byte) /\ Len(more) = L + 1 /\ L \in Nat
      /\ \A i \in 1..L : more[i] = bytes[i]
      /\ more[L + 1] = byte
  OBVIOUS
<1> HIDE DEF more
<1>3. parts \in Seq(Seq(Utf8)) /\ Len(parts) = L
  BY <1>2, LossyByteType
<1>4. moreParts \in Seq(Seq(Utf8)) /\ Len(moreParts) = L + 1
  BY <1>2, LossyByteType
<1>5. /\ \A i \in 1..L : moreParts[i] = parts[i]
      /\ moreParts[L + 1] = LossyByte(byte)
  BY <1>2
<1> HIDE DEF parts, moreParts
<1>6. FlattenSeq(moreParts) = FlattenSeq(parts) \o moreParts[Len(parts) + 1]
  BY <1>3, <1>4, <1>5, FlattenOneMore
<1> QED
  BY <1>1, <1>3, <1>5, <1>6 DEF more

LEMMA LossyOfNothing == Lossy(<< >>) = << >>
<1>1. [i \in 1..Len(<< >>) |-> LossyByte(<< >>[i])] = << >>
  OBVIOUS
<1> QED
  BY <1>1, FlattenNothing DEF Lossy, LossyByte

(* The result is UTF-8 and at most three times as long, and UTF-8 is left   *)
(* as it is.                                                               *)
LEMMA LossyType ==
    ASSUME NEW bytes \in Seq(Byte)
    PROVE  /\ Lossy(bytes) \in Seq(Utf8) /\ Len(Lossy(bytes)) <= 3 * Len(bytes)
           /\ bytes \in Seq(Utf8) => Lossy(bytes) = bytes
<1> DEFINE L == Len(bytes)
           First(n) == SubSeq(bytes, 1, n)
           T == {n \in Nat : n <= L =>
                    /\ Lossy(First(n)) \in Seq(Utf8) /\ Len(Lossy(First(n))) <= 3 * n
                    /\ bytes \in Seq(Utf8) => Lossy(First(n)) = First(n)}
<1>0. L \in Nat
  OBVIOUS
<1>1. 0 \in T
  <2>1. First(0) = << >> /\ << >> \in Seq(Utf8) /\ Len(<< >>) = 0
    OBVIOUS
  <2>2. Lossy(First(0)) = First(0)
    BY <2>1, LossyOfNothing
  <2>3. Lossy(First(0)) \in Seq(Utf8) /\ Len(Lossy(First(0))) <= 3 * 0
    BY <2>1, <2>2
  <2> HIDE DEF First
  <2> QED
    BY <2>2, <2>3
<1>2. ASSUME NEW n \in T PROVE n + 1 \in T
  <2> SUFFICES ASSUME n + 1 <= L
               PROVE  /\ Lossy(First(n + 1)) \in Seq(Utf8)
                      /\ Len(Lossy(First(n + 1))) <= 3 * (n + 1)
                      /\ bytes \in Seq(Utf8) => Lossy(First(n + 1)) = First(n + 1)
    OBVIOUS
  <2> DEFINE x == bytes[n + 1]
             l == Lossy(First(n))
  <2>1. n \in Nat /\ n + 1 \in 1..L /\ n <= L
    BY <1>0
  <2>2. /\ l \in Seq(Utf8) /\ Len(l) <= 3 * n
        /\ bytes \in Seq(Utf8) => l = First(n)
    BY <2>1
  <2>3. First(n) \in Seq(Byte) /\ x \in Byte /\ First(n + 1) = Append(First(n), x)
    <3>1. First(n) \in Seq(Byte) /\ x \in Byte
      BY <2>1
    <3>2. First(n + 1) = Append(First(n), x)
      BY <2>1
    <3> QED
      BY <3>1, <3>2
  <2>4. Lossy(First(n + 1)) = l \o LossyByte(x)
    <3> HIDE DEF First, x
    <3> QED
      BY <2>3, LossyAppend
  <2>5. LossyByte(x) \in Seq(Utf8) /\ Len(LossyByte(x)) <= 3
    BY <2>3, LossyByteType
  <2>6. bytes \in Seq(Utf8) => LossyByte(x) = <<x>>
    BY <2>1 DEF LossyByte, Utf8
  <2> HIDE DEF First, l, x, L
  <2>7. l \o LossyByte(x) \in Seq(Utf8) /\ Len(l \o LossyByte(x)) <= 3 * (n + 1)
    BY <2>1, <2>2, <2>5
  <2>8. ASSUME bytes \in Seq(Utf8) PROVE l \o LossyByte(x) = First(n + 1)
    <3>1. l = First(n) /\ LossyByte(x) = <<x>>
      BY <2>2, <2>6, <2>8
    <3>2. Append(First(n), x) = First(n) \o <<x>>
      BY <2>3
    <3> QED
      BY <2>3, <3>1, <3>2
  <2> QED
    BY <2>4, <2>7, <2>8
<1>3. T \subseteq Nat
  OBVIOUS
<1> HIDE DEF T
<1>4. T = Nat
  BY <1>1, <1>2, <1>3, SetInduction
<1>5. L \in T /\ L <= L
  BY <1>0, <1>4
<1>6. First(L) = bytes
  OBVIOUS
<1> HIDE DEF L, First
<1> QED
  BY <1>5, <1>6 DEF T, L

-----------------------------------------------------------------------------
(***************************************************************************)
(* Identities, written.                                                    *)
(***************************************************************************)
LEMMA PutIdentityType ==
    ASSUME NEW id \in Identity
    PROVE  /\ PutIdentity(id) \in Seq(Byte)
           /\ Len(PutIdentity(id)) = 2 * Width + Len(id.key) + Len(id.comment)
<1> DEFINE k == PutBlob(id.key)
           c == PutBlob(id.comment)
<1>1. id.key \in Seq(Byte) /\ id.comment \in Seq(Byte)
  BY DEF Identity
<1>2. k \in Seq(Byte) /\ Len(k) = Width + Len(id.key)
  BY <1>1, PutBlobType
<1>3. c \in Seq(Byte) /\ Len(c) = Width + Len(id.comment)
  BY <1>1, PutBlobType
<1>4. PutIdentity(id) = k \o c
  BY DEF PutIdentity
<1> HIDE DEF k, c
<1>5. k \o c \in Seq(Byte) /\ Len(k \o c) = Len(k) + Len(c)
  BY <1>2, <1>3
<1>6. Len(id.key) \in Nat /\ Len(id.comment) \in Nat
  BY <1>1
<1>7. Width \in Nat
  BY BaseAndWidth
<1>8. Len(k \o c) = 2 * Width + Len(id.key) + Len(id.comment)
  <2> DEFINE W == Width
             m == Len(id.key)
             n == Len(id.comment)
             l == Len(k \o c)
  <2>1. W \in Nat /\ m \in Nat /\ n \in Nat /\ l = (W + m) + (W + n)
    BY <1>2, <1>3, <1>5, <1>6, <1>7
  <2> HIDE DEF W, m, n, l
  <2>2. l = 2 * W + m + n
    BY ONLY <2>1
  <2> QED
    BY <2>2 DEF W, m, n, l
<1> QED
  BY <1>4, <1>5, <1>8

LEMMA PutIdentitiesType ==
    ASSUME NEW ids \in Seq(Identity)
    PROVE  PutIdentities(ids) \in Seq(Byte)
<1> DEFINE parts == [i \in 1..Len(ids) |-> PutIdentity(ids[i])]
<1>1. parts \in Seq(Seq(Byte))
  BY PutIdentityType
<1>2. PutIdentities(ids) = FlattenSeq(parts)
  BY DEF PutIdentities
<1> HIDE DEF parts
<1> QED
  BY <1>1, <1>2, FlattenType

LEMMA PutNoIdentities == PutIdentities(<< >>) = << >>
<1>1. [i \in 1..Len(<< >>) |-> PutIdentity(<< >>[i])] = << >>
  OBVIOUS
<1> QED
  BY <1>1, FlattenNothing DEF PutIdentities

LEMMA PutIdentitiesAppend ==
    ASSUME NEW ids \in Seq(Identity), NEW id \in Identity
    PROVE  PutIdentities(Append(ids, id)) = PutIdentities(ids) \o PutIdentity(id)
<1> DEFINE L == Len(ids)
           more == Append(ids, id)
           parts == [i \in 1..L |-> PutIdentity(ids[i])]
           moreParts == [i \in 1..Len(more) |-> PutIdentity(more[i])]
<1>1. PutIdentities(ids) = FlattenSeq(parts) /\ PutIdentities(more) = FlattenSeq(moreParts)
  BY DEF PutIdentities
<1>2. /\ more \in Seq(Identity) /\ Len(more) = L + 1 /\ L \in Nat
      /\ \A i \in 1..L : more[i] = ids[i]
      /\ more[L + 1] = id
  OBVIOUS
<1> HIDE DEF more
<1>3. parts \in Seq(Seq(Byte)) /\ Len(parts) = L
  BY <1>2, PutIdentityType
<1>4. moreParts \in Seq(Seq(Byte)) /\ Len(moreParts) = L + 1
  BY <1>2, PutIdentityType
<1>5. /\ \A i \in 1..L : moreParts[i] = parts[i]
      /\ moreParts[L + 1] = PutIdentity(id)
  BY <1>2
<1> HIDE DEF parts, moreParts
<1>6. FlattenSeq(moreParts) = FlattenSeq(parts) \o moreParts[Len(parts) + 1]
  BY <1>3, <1>4, <1>5, FlattenOneMore
<1> QED
  BY <1>1, <1>3, <1>5, <1>6 DEF more

-----------------------------------------------------------------------------
(***************************************************************************)
(* Identities, read.                                                       *)
(***************************************************************************)
LEMMA ParseRounds ==
    ASSUME NEW msg, msg.type = AnswerType, Len(msg.payload) \in Nat,
           Len(msg.payload) >= Width, Value(msg.payload) \in Nat,
           Value(msg.payload) <= MaxIdentities
    PROVE  \E after :
              /\ after[0] = [buf |-> From(msg.payload, Width + 1), identities |-> << >>]
              /\ \A i \in 1..Value(msg.payload) : after[i] = ReadIdentity(after[i - 1])
              /\ ParseIdentities(msg) =
                    IF after[Value(msg.payload)] = Error THEN Error
                    ELSE after[Value(msg.payload)].identities
<1> DEFINE start == [buf |-> From(msg.payload, Width + 1), identities |-> << >>]
           count == Value(msg.payload)
           Upto(n, f) == f = [i \in 0..n |-> IF i = 0 THEN start ELSE ReadIdentity(f[i - 1])]
           T == {n \in Nat : \E f : Upto(n, f)}
<1> HIDE DEF start
<1>1. 0 \in T
  <2>1. Upto(0, [i \in 0..0 |-> start])
    OBVIOUS
  <2> QED
    BY <2>1
<1>2. ASSUME NEW n \in T PROVE n + 1 \in T
  <2>1. PICK f : Upto(n, f)
    OBVIOUS
  <2> DEFINE last == ReadIdentity(f[n])
             g == [i \in 0..(n + 1) |-> IF i = n + 1 THEN last ELSE f[i]]
  <2>2. ASSUME NEW i \in 0..(n + 1)
        PROVE  g[i] = IF i = 0 THEN start ELSE ReadIdentity(g[i - 1])
    <3>1. CASE i = n + 1
      <4>1. i - 1 = n /\ i # 0 /\ n \in 0..(n + 1) /\ n # n + 1
        BY <3>1
      <4>2. g[i] = last /\ g[i - 1] = f[n]
        BY <3>1, <4>1, Zenon
      <4> QED
        BY <4>1, <4>2
    <3>2. CASE i # n + 1
      <4>1. i \in 0..n /\ g[i] = f[i]
        BY <3>2
      <4>2. CASE i = 0
        BY <2>1, <4>1, <4>2
      <4>3. CASE i # 0
        <5>1. i - 1 \in 0..n /\ i - 1 # n + 1 /\ i - 1 \in 0..(n + 1)
          BY <4>1, <4>3
        <5>2. g[i - 1] = f[i - 1]
          BY <5>1
        <5>3. f[i] = ReadIdentity(f[i - 1])
          BY <2>1, <4>1, <4>3
        <5> QED
          BY <4>1, <4>3, <5>2, <5>3
      <4> QED
        BY <4>2, <4>3
    <3> QED
      BY <3>1, <3>2
  <2>3. g = [i \in 0..(n + 1) |-> g[i]]
    OBVIOUS
  <2> HIDE DEF g
  <2>4. [i \in 0..(n + 1) |-> g[i]]
          = [i \in 0..(n + 1) |-> IF i = 0 THEN start ELSE ReadIdentity(g[i - 1])]
    BY <2>2, Zenon
  <2>5. Upto(n + 1, g)
    BY <2>3, <2>4
  <2>6. n + 1 \in Nat /\ \E h : Upto(n + 1, h)
    BY <2>5
  <2> HIDE DEF Upto
  <2> QED
    BY <2>6
<1>3. T \subseteq Nat
  OBVIOUS
<1> HIDE DEF T
<1>4. T = Nat
  BY <1>1, <1>2, <1>3, SetInduction
<1>5. \E f : Upto(count, f)
  <2>1. count \in T
    BY <1>4
  <2> HIDE DEF count
  <2> QED
    BY <2>1 DEF T
<1> DEFINE after == CHOOSE f : Upto(count, f)
<1>6. Upto(count, after)
  BY <1>5
<1>7. ParseIdentities(msg) = IF after[count] = Error THEN Error ELSE after[count].identities
  BY BaseAndWidth, WireAssumption DEF ParseIdentities, start
<1> HIDE DEF after
<1>8. count \in Nat
  OBVIOUS
<1> HIDE DEF count
<1>9. after[0] = start
  BY <1>6, <1>8
<1>10. \A i \in 1..count : after[i] = ReadIdentity(after[i - 1])
  BY <1>6, <1>8
<1> QED
  BY <1>7, <1>9, <1>10 DEF start, count

(* One round reads one identity, and what it read is what the bytes began   *)
(* with.  Read says what has been read of `start` so far: no more than it   *)
(* holds, and exactly what it holds where all of it is UTF-8.              *)
Limited(ids) ==
    \A i \in 1..Len(ids) : Len(ids[i].key) <= MaxBlob /\ ids[i].comment \in Seq(Utf8)

Short(ids) == \A i \in 1..Len(ids) : Len(ids[i].comment) <= MaxBlob

Read(start, reader) ==
    /\ reader.buf \in Seq(Byte)
    /\ reader.identities \in Seq(Identity)
    /\ Limited(reader.identities)
    /\ Len(PutIdentities(reader.identities)) + 3 * Len(reader.buf) <= 3 * Len(start)
    /\ start \in Seq(Utf8) =>
          /\ Short(reader.identities)
          /\ start = PutIdentities(reader.identities) \o reader.buf

(* A round of the loop keeps this. *)
LEMMA ReadRound ==
    ASSUME NEW start \in Seq(Byte), NEW reader, Read(start, reader),
           ReadIdentity(reader) # Error
    PROVE  /\ Read(start, ReadIdentity(reader))
           /\ Len(ReadIdentity(reader).identities) = Len(reader.identities) + 1
<1> DEFINE buf == reader.buf
           ids == reader.identities
           key == Blob(buf)
           rest == AfterBlob(buf)
           raw == Blob(rest)
           left == AfterBlob(rest)
           comment == Lossy(raw)
           id == [key |-> key, comment |-> comment]
           more == Append(ids, id)
           W == Width
<1>1. HasBlob(buf) /\ HasBlob(rest)
  BY DEF ReadIdentity
<1>2. ReadIdentity(reader) = [buf |-> left, identities |-> more]
  BY DEF ReadIdentity
<1>3. buf \in Seq(Byte) /\ ids \in Seq(Identity)
  BY DEF Read
<1>4. /\ key \in Seq(Byte) /\ Len(key) <= MaxBlob
      /\ rest \in Seq(Byte) /\ buf = PutBlob(key) \o rest
  BY <1>1, <1>3, PutBlobOfBlob
<1>5. /\ raw \in Seq(Byte) /\ Len(raw) <= MaxBlob
      /\ left \in Seq(Byte) /\ rest = PutBlob(raw) \o left
  BY <1>1, <1>4, PutBlobOfBlob
<1> HIDE DEF buf, key, rest, raw, left
<1>6. /\ comment \in Seq(Utf8) /\ Len(comment) <= 3 * Len(raw)
      /\ raw \in Seq(Utf8) => comment = raw
  BY <1>5, LossyType
<1>7. comment \in Seq(Byte)
  BY <1>6 DEF Utf8
<1> HIDE DEF comment
<1>8. id \in Identity /\ id.key = key /\ id.comment = comment
  BY <1>4, <1>7 DEF Identity
<1> HIDE DEF id
<1>9. /\ more \in Seq(Identity) /\ Len(more) = Len(ids) + 1 /\ Len(ids) \in Nat
      /\ \A i \in 1..Len(more) : more[i] = id \/ (i \in 1..Len(ids) /\ more[i] = ids[i])
  <2>1. ids \in Seq(Identity) /\ id \in Identity
    BY <1>3, <1>8
  <2>2. more \in Seq(Identity) /\ Len(more) = Len(ids) + 1 /\ Len(ids) \in Nat
    BY ONLY <2>1
  <2>3. ASSUME NEW i \in 1..Len(more) PROVE more[i] = id \/ (i \in 1..Len(ids) /\ more[i] = ids[i])
    BY ONLY <2>1, <2>2
  <2> QED
    BY <2>2, <2>3
<1>10. PutIdentities(more) = PutIdentities(ids) \o PutIdentity(id)
  BY <1>3, <1>8, PutIdentitiesAppend
<1> HIDE DEF more
<1> DEFINE put == PutIdentities(ids)
           one == PutIdentity(id)
<1>11. put \in Seq(Byte) /\ one \in Seq(Byte)
  BY <1>3, <1>8, PutIdentitiesType, PutIdentityType
<1>12. Limited(more)
  <2>1. Limited(ids)
    BY DEF Read, ids
  <2> QED
    BY <1>4, <1>6, <1>8, <1>9, <2>1 DEF Limited
<1>13. Len(PutIdentities(more)) + 3 * Len(left) <= 3 * Len(start)
  <2>1. Len(put \o one) = Len(put) + Len(one)
    <3> HIDE DEF put, one
    <3> QED
      BY <1>11
  <2>2. Len(one) = 2 * W + Len(key) + Len(comment)
    BY <1>8, PutIdentityType
  <2>3. Len(buf) = (W + Len(key)) + Len(rest)
    <3> DEFINE x == PutBlob(key)
    <3>1. x \in Seq(Byte) /\ Len(x) = W + Len(key)
      BY <1>4, PutBlobType
    <3> HIDE DEF x
    <3>2. Len(x \o rest) = Len(x) + Len(rest)
      BY <1>4, <3>1, ConcatParts
    <3> QED
      BY <1>4, <3>1, <3>2 DEF x
  <2>4. Len(rest) = (W + Len(raw)) + Len(left)
    <3> DEFINE x == PutBlob(raw)
    <3>1. x \in Seq(Byte) /\ Len(x) = W + Len(raw)
      BY <1>5, PutBlobType
    <3> HIDE DEF x
    <3>2. Len(x \o left) = Len(x) + Len(left)
      BY <1>5, <3>1, ConcatParts
    <3> QED
      BY <1>5, <3>1, <3>2 DEF x
  <2>5. Len(put) + 3 * Len(buf) <= 3 * Len(start)
    BY DEF Read, ids, buf
  <2>6. /\ W \in Nat /\ Len(key) \in Nat /\ Len(raw) \in Nat /\ Len(left) \in Nat
        /\ Len(comment) \in Nat /\ Len(put) \in Nat /\ Len(start) \in Nat
    BY <1>4, <1>5, <1>7, <1>11, BaseAndWidth
  <2> DEFINE k == Len(key)
             r == Len(raw)
             l == Len(left)
             c == Len(comment)
             p == Len(put)
             s == Len(start)
             o == Len(one)
             b == Len(buf)
             e == Len(rest)
  <2>7. /\ W \in Nat /\ k \in Nat /\ r \in Nat /\ l \in Nat /\ c \in Nat /\ p \in Nat /\ s \in Nat
        /\ o = 2 * W + k + c /\ b = (W + k) + e /\ e = (W + r) + l
        /\ p + 3 * b <= 3 * s /\ c <= 3 * r
    BY <1>6, <2>2, <2>3, <2>4, <2>5, <2>6
  <2> HIDE DEF W, k, r, l, c, p, s, o, b, e
  <2>8. (p + o) + 3 * l <= 3 * s
    BY ONLY <2>7
  <2> QED
    BY <1>10, <2>1, <2>8 DEF p, o, l, s
<1>14. ASSUME start \in Seq(Utf8)
       PROVE  Short(more) /\ start = PutIdentities(more) \o left
  <2>1. Short(ids) /\ start = put \o buf
    BY <1>14 DEF Read, ids, buf
  <2>2. PutBlob(key) \in Seq(Byte) /\ PutBlob(raw) \in Seq(Byte) /\ Field(Len(raw)) \in Seq(Byte)
    BY <1>4, <1>5, PutBlobType, FieldType
  <2>3. raw \in Seq(Utf8)
    <3>1. buf \in Seq(Utf8)
      <4> HIDE DEF put
      <4> QED
        BY <1>3, <1>11, <1>14, <2>1, ConcatRange DEF buf
    <3>2. rest \in Seq(Utf8)
      BY <1>4, <2>2, <3>1, ConcatRange
    <3>3. PutBlob(raw) \in Seq(Utf8)
      BY <1>5, <2>2, <3>2, ConcatRange
    <3> QED
      BY <1>5, <2>2, <3>3, ConcatRange DEF PutBlob
  <2>4. comment = raw
    BY <1>6, <2>3
  <2>5. Short(more)
    BY <1>5, <1>8, <1>9, <2>1, <2>4 DEF Short
  <2>6. one = PutBlob(key) \o PutBlob(raw)
    BY <1>8, <2>4 DEF PutIdentity
  <2>7. buf = one \o left
    <3> DEFINE x == PutBlob(key)
               y == PutBlob(raw)
    <3>1. x \in Seq(Byte) /\ y \in Seq(Byte) /\ buf = x \o (y \o left) /\ one = x \o y
      BY <1>4, <1>5, <2>2, <2>6
    <3> HIDE DEF x, y, one
    <3>2. left \in Seq(Byte) /\ x \in Seq(Byte) /\ y \in Seq(Byte)
      BY <1>5, <3>1
    <3>3. (x \o y) \o left = x \o (y \o left)
      BY ONLY <3>2, BytesAssociate, Zenon
    <3> QED
      BY <3>1, <3>3
  <2>8. start = (put \o one) \o left
    <3> HIDE DEF put, one
    <3>1. (put \o one) \o left = put \o (one \o left)
      <4>1. left \in Seq(Byte) /\ put \in Seq(Byte) /\ one \in Seq(Byte)
        BY <1>5, <1>11
      <4> QED
        BY ONLY <4>1, BytesAssociate, Zenon
    <3> QED
      BY <2>1, <2>7, <3>1
  <2> QED
    BY <1>10, <2>5, <2>8
<1> DEFINE next == [buf |-> left, identities |-> more]
<1>15. next.buf = left /\ next.identities = more
  OBVIOUS
<1> HIDE DEF next
<1>16. Read(start, next)
  BY <1>5, <1>9, <1>12, <1>13, <1>14, <1>15 DEF Read
<1> QED
  BY <1>2, <1>9, <1>15, <1>16 DEF next, ids

(* What parse_identities returns. *)
LEMMA ParsedList ==
    ASSUME NEW msg, msg.payload \in Seq(Byte), ParseIdentities(msg) # Error,
           NEW list, list = ParseIdentities(msg)
    PROVE  /\ msg.type = AnswerType /\ Len(msg.payload) >= Width
           /\ list \in Seq(Identity) /\ Limited(list)
           /\ Len(list) = Value(msg.payload) /\ Len(list) <= MaxIdentities
           /\ Len(PutIdentities(list)) <= 3 * (Len(msg.payload) - Width)
           /\ msg.payload \in Seq(Utf8) =>
                 /\ Short(list)
                 /\ \E rest \in Seq(Byte) :
                       msg.payload = (Field(Len(list)) \o PutIdentities(list)) \o rest
<1> DEFINE payload == msg.payload
           N == Len(payload)
           W == Width
           count == Value(payload)
           start == From(payload, W + 1)
           head == SubSeq(payload, 1, W)
<1>1. /\ msg.type = AnswerType /\ ~(N < W) /\ ~(count > MaxIdentities)
  BY DEF ParseIdentities
<1>2. N \in Nat /\ W \in Nat \ {0} /\ N >= W
  BY <1>1, BaseAndWidth
<1>3. count \in Nat /\ count < Power[W] /\ \A i \in 1..W : Field(count)[i] = payload[i]
  BY <1>2, FieldOfValue, PowerIsPositive, BaseAndWidth
<1>4. count <= MaxIdentities
  BY <1>1, <1>3, WireAssumption
<1>5. PICK after :
          /\ after[0] = [buf |-> start, identities |-> << >>]
          /\ \A i \in 1..count : after[i] = ReadIdentity(after[i - 1])
          /\ ParseIdentities(msg) =
                IF after[count] = Error THEN Error ELSE after[count].identities
  BY <1>1, <1>2, <1>3, <1>4, ParseRounds
<1>6. /\ head \in Seq(Byte) /\ Len(head) = W
      /\ \A k \in 1..W : head[k] = payload[k]
  BY <1>2
<1>7. /\ start \in Seq(Byte) /\ Len(start) = N - W
      /\ \A k \in 1..(N - W) : start[k] = payload[W + k]
  BY <1>2 DEF From
<1> HIDE DEF start, head, count
<1>8. head = Field(count)
  <2>1. Field(count) \in Seq(Byte) /\ Len(Field(count)) = W
    BY <1>3, FieldType
  <2> QED
    BY <1>3, <1>6, <2>1, SameElements
<1>9. payload = head \o start
  <2> HIDE DEF W, payload
  <2>1. head \o start \in Seq(Byte) /\ Len(head \o start) = N
    <3>1. head \o start \in Seq(Byte) /\ Len(head \o start) = Len(head) + Len(start)
      BY <1>6, <1>7, ConcatParts
    <3> QED
      BY <1>2, <1>6, <1>7, <3>1
  <2>2. ASSUME NEW k \in 1..N PROVE payload[k] = (head \o start)[k]
    <3>1. CASE k <= W
      <4>1. k \in 1..W
        BY <1>2, <3>1
      <4> QED
        BY <1>6, <1>7, <4>1
    <3>2. CASE ~(k <= W)
      <4>1. k - W \in 1..(N - W) /\ W + (k - W) = k
        BY <1>2, <3>2
      <4>2. (head \o start)[Len(head) + (k - W)] = start[k - W]
        BY <1>6, <1>7, <4>1, ConcatParts
      <4> QED
        BY <1>6, <1>7, <4>1, <4>2
    <3> QED
      BY <3>1, <3>2
  <2>3. payload \in Seq(Byte)
    BY DEF payload
  <2> QED
    BY <2>1, <2>2, <2>3, SameElements
<1> DEFINE T == {i \in Nat : i <= count =>
                    \/ after[i] = Error
                    \/ Read(start, after[i]) /\ Len(after[i].identities) = i}
<1>10. 0 \in T
  <2> DEFINE first == [buf |-> start, identities |-> << >>]
  <2>1. first.buf = start /\ first.identities = << >>
    OBVIOUS
  <2> HIDE DEF first
  <2>2. << >> \in Seq(Identity) /\ << >> \in Seq(Byte) /\ Len(<< >>) = 0
    OBVIOUS
  <2>3. start = << >> \o start
    BY <1>7
  <2>4. Limited(first.identities) /\ Short(first.identities)
    BY <2>1, <2>2 DEF Limited, Short
  <2>5. Len(start) \in Nat
    BY <1>7
  <2>6. Len(PutIdentities(first.identities)) + 3 * Len(first.buf) <= 3 * Len(start)
    BY <2>1, <2>2, <2>5, PutNoIdentities
  <2>7. Read(start, first)
    BY <1>7, <2>1, <2>2, <2>3, <2>4, <2>6, PutNoIdentities DEF Read
  <2>8. after[0] = first
    BY <1>5 DEF first
  <2> QED
    BY <2>1, <2>2, <2>7, <2>8
<1>11. ASSUME NEW i \in T PROVE i + 1 \in T
  <2> SUFFICES ASSUME i + 1 <= count, after[i + 1] # Error
               PROVE  Read(start, after[i + 1]) /\ Len(after[i + 1].identities) = i + 1
    OBVIOUS
  <2>1. i + 1 \in 1..count /\ (i + 1) - 1 = i
    BY <1>3
  <2>2. after[i + 1] = ReadIdentity(after[i])
    BY <1>5, <2>1
  <2>3. after[i] # Error
    BY <2>2 DEF ReadIdentity
  <2>4. Read(start, after[i]) /\ Len(after[i].identities) = i
    BY <1>3, <2>1, <2>3
  <2> DEFINE r == after[i]
  <2> HIDE DEF r
  <2>5. Read(start, ReadIdentity(r)) /\ Len(ReadIdentity(r).identities) = Len(r.identities) + 1
    BY <1>7, <2>2, <2>4, ReadRound DEF r
  <2> QED
    BY <2>2, <2>4, <2>5 DEF r
<1>12. T \subseteq Nat
  OBVIOUS
<1> HIDE DEF T
<1>13. T = Nat
  BY <1>10, <1>11, <1>12, SetInduction
<1>14. Read(start, after[count]) /\ Len(after[count].identities) = count
  BY <1>3, <1>5, <1>13 DEF T
<1>15. list = after[count].identities
  BY <1>5
<1> DEFINE r == after[count]
           put == PutIdentities(list)
<1> HIDE DEF r
<1>16. /\ Read(start, r) /\ list = r.identities /\ Len(list) = count
  BY <1>14, <1>15 DEF r
<1>17. list \in Seq(Identity) /\ Limited(list) /\ r.buf \in Seq(Byte)
  BY <1>16 DEF Read
<1>18. put \in Seq(Byte)
  BY <1>17, PutIdentitiesType
<1>19. Len(put) <= 3 * (N - W)
  <2>1. Len(put) + 3 * Len(r.buf) <= 3 * Len(start)
    BY <1>16 DEF Read
  <2>2. Len(put) \in Nat /\ Len(r.buf) \in Nat
    BY <1>17, <1>18
  <2> HIDE DEF put, W, N
  <2> QED
    BY <1>2, <1>7, <2>1, <2>2
<1>20. ASSUME payload \in Seq(Utf8)
       PROVE  /\ Short(list)
              /\ \E rest \in Seq(Byte) : payload = (Field(Len(list)) \o put) \o rest
  <2>1. start \in Seq(Utf8)
    <3>1. head \o start \in Seq(Utf8)
      BY <1>9, <1>20
    <3> QED
      BY <1>6, <1>7, <3>1, ConcatRange
  <2>2. Short(list) /\ start = put \o r.buf
    BY <1>16, <2>1 DEF Read
  <2>3. payload = (head \o put) \o r.buf
    <3> DEFINE left == r.buf
    <3>1. left \in Seq(Byte) /\ start = put \o left
      BY <1>17, <2>2
    <3> HIDE DEF put, payload, left
    <3>2. (head \o put) \o left = head \o (put \o left)
      <4>1. head \in Seq(Byte) /\ put \in Seq(Byte) /\ left \in Seq(Byte)
        BY <1>6, <1>18, <3>1
      <4> HIDE DEF head
      <4> QED
        BY ONLY <4>1, BytesAssociate
    <3> QED
      BY <1>9, <3>1, <3>2 DEF left
  <2> QED
    BY <1>8, <1>16, <1>17, <2>2, <2>3
<1> QED
  BY <1>1, <1>2, <1>4, <1>16, <1>17, <1>19, <1>20 DEF count

(* An identity at the beginning of the bytes is read, and what is behind it
   is left. *)
LEMMA IdentityIsRead ==
    ASSUME NEW id \in Identity, Len(id.key) <= MaxBlob, Len(id.comment) <= MaxBlob,
           id.comment \in Seq(Utf8), NEW rest \in Seq(Byte), NEW ids \in Seq(Identity)
    PROVE  ReadIdentity([buf |-> PutIdentity(id) \o rest, identities |-> ids])
              = [buf |-> rest, identities |-> Append(ids, id)]
<1> DEFINE k == PutBlob(id.key)
           c == PutBlob(id.comment)
           behind == c \o rest
           buf == k \o behind
           reader == [buf |-> buf, identities |-> ids]
<1>1. id.key \in Seq(Byte) /\ id.comment \in Seq(Byte)
  BY DEF Identity
<1>2. k \in Seq(Byte) /\ c \in Seq(Byte)
  BY <1>1, PutBlobType
<1>3. PutIdentity(id) \o rest = buf
  <2> HIDE DEF k, c
  <2>1. PutIdentity(id) = k \o c
    BY DEF PutIdentity, k, c
  <2> QED
    BY <1>2, <2>1, ConcatAssociates
<1>4. behind \in Seq(Byte) /\ buf \in Seq(Byte)
  <2> HIDE DEF k, c
  <2>1. behind \in Seq(Byte)
    BY <1>2
  <2> HIDE DEF behind
  <2> QED
    BY <1>2, <2>1
<1> HIDE DEF behind
<1>5. HasBlob(buf) /\ Blob(buf) = id.key /\ AfterBlob(buf) = behind
  BY <1>1, <1>4, BlobOfPutBlob
<1>6. HasBlob(behind) /\ Blob(behind) = id.comment /\ AfterBlob(behind) = rest
  BY <1>1, BlobOfPutBlob DEF behind
<1>7. Lossy(id.comment) = id.comment
  BY <1>1, LossyType
<1> HIDE DEF buf
<1>8. reader \in Reader /\ reader.buf = buf /\ reader.identities = ids
  BY <1>4 DEF Reader
<1>9. reader # Error
  BY <1>8, WireAssumption
<1> HIDE DEF reader
<1>10. ReadIdentity(reader)
         = [buf |-> rest,
            identities |-> Append(ids, [key |-> id.key, comment |-> id.comment])]
  BY <1>5, <1>6, <1>7, <1>8, <1>9 DEF ReadIdentity
<1>11. [key |-> id.key, comment |-> id.comment] = id
  BY DEF Identity
<1> QED
  BY <1>3, <1>10, <1>11 DEF reader

(* The whole list: what build_identities_answer writes, parse_identities     *)
(* reads as that list, whatever the limits.                                *)
LEMMA BuildIsParsed ==
    ASSUME NEW list \in Seq(Identity), Limited(list), Short(list), Len(list) <= MaxIdentities
    PROVE  ParseIdentities(Build(list)) = list
<1> DEFINE L == Len(list)
           W == Width
           put == PutIdentities(list)
           field == Field(L)
           payload == field \o put
           First(n) == SubSeq(list, 1, n)
           Put(n) == PutIdentities(First(n))
           One(n) == PutIdentity(list[n])
           msg == Build(list)
<1>1. L \in Nat /\ L < Power[W] /\ W \in Nat \ {0}
  BY WireAssumption, BaseAndWidth, PowerIsPositive
<1>2. put \in Seq(Byte)
  BY PutIdentitiesType
<1>3. field \in Seq(Byte) /\ Len(field) = W
  BY <1>1, FieldType
<1> HIDE DEF put, field
<1>4. /\ payload \in Seq(Byte) /\ Len(payload) = Len(field) + Len(put)
      /\ \A k \in 1..Len(field) : payload[k] = field[k]
  <2>1. payload \in Seq(Byte) /\ Len(payload) = Len(field) + Len(put)
    BY <1>2, <1>3, ConcatParts
  <2>2. \A k \in 1..Len(field) : payload[k] = field[k]
    BY <1>2, <1>3, ConcatParts
  <2> QED
    BY <2>1, <2>2
<1>5. Value(payload) = L
  <2>1. \A i \in 1..W : payload[i] = Field(L)[i]
    BY <1>3, <1>4 DEF field
  <2> HIDE DEF payload
  <2> QED
    BY <1>1, <2>1, ValueOfField
<1>6. From(payload, W + 1) = put
  <2>1. SubSeq(field \o put, Len(field) + 1, Len(field \o put)) = put
    BY <1>2, <1>3, RestOfConcat
  <2> QED
    BY <1>3, <2>1 DEF From
<1>7. msg.type = AnswerType /\ msg.payload = payload
  BY DEF Build, put, field
<1> HIDE DEF payload, msg
<1>8. Len(payload) \in Nat /\ Len(payload) >= W
  BY <1>1, <1>2, <1>3, <1>4
<1>9. PICK after :
          /\ after[0] = [buf |-> put, identities |-> << >>]
          /\ \A i \in 1..L : after[i] = ReadIdentity(after[i - 1])
          /\ ParseIdentities(msg) =
                IF after[L] = Error THEN Error ELSE after[L].identities
  BY <1>1, <1>5, <1>6, <1>7, <1>8, ParseRounds
<1>10. ASSUME NEW n \in 0..L PROVE First(n) \in Seq(Identity) /\ Put(n) \in Seq(Byte)
  <2>1. First(n) \in Seq(Identity)
    BY <1>1
  <2> HIDE DEF First
  <2> QED
    BY <2>1, PutIdentitiesType
<1>11. ASSUME NEW n \in 1..L
       PROVE  /\ First(n) = Append(First(n - 1), list[n]) /\ list[n] \in Identity
              /\ One(n) \in Seq(Byte) /\ Put(n) = Put(n - 1) \o One(n)
  <2>1. list[n] \in Identity
    BY <1>1
  <2>2. First(n) = Append(First(n - 1), list[n])
    BY <1>1
  <2>3. First(n - 1) \in Seq(Identity)
    BY <1>1, <1>10
  <2> DEFINE x == list[n]
             f == First(n - 1)
  <2> HIDE DEF x, f
  <2>4. PutIdentities(Append(f, x)) = PutIdentities(f) \o PutIdentity(x) /\ PutIdentity(x) \in Seq(Byte)
    BY <2>1, <2>3, PutIdentitiesAppend, PutIdentityType DEF x, f
  <2> QED
    BY <2>1, <2>2, <2>4 DEF x, f
<1>12. First(0) = << >> /\ First(L) = list
  BY <1>1
<1>13. Put(0) = << >> /\ Put(L) = put
  BY <1>12, PutNoIdentities DEF put
<1> HIDE DEF First, Put, One
(* What is left behind the n-th identity. *)
<1>14. \A n \in 0..L : \E r \in Seq(Byte) : put = Put(n) \o r
  <2> DEFINE T == {d \in Nat : d <= L => \E r \in Seq(Byte) : put = Put(L - d) \o r}
  <2>1. 0 \in T
    <3>1. L - 0 = L /\ << >> \in Seq(Byte) /\ put = put \o << >>
      BY <1>1, <1>2
    <3> QED
      BY <1>13, <3>1
  <2>2. ASSUME NEW d \in T PROVE d + 1 \in T
    <3> SUFFICES ASSUME d + 1 <= L PROVE \E r \in Seq(Byte) : put = Put(L - (d + 1)) \o r
      OBVIOUS
    <3> DEFINE n == L - d
    <3>1. n \in 1..L /\ n - 1 = L - (d + 1) /\ n - 1 \in 0..L /\ d <= L
      BY <1>1
    <3>2. PICK r \in Seq(Byte) : put = Put(n) \o r
      BY <3>1
    <3> HIDE DEF n
    <3>3. Put(n) = Put(n - 1) \o One(n) /\ One(n) \in Seq(Byte) /\ Put(n - 1) \in Seq(Byte)
      <4>1. Put(n) = Put(n - 1) \o One(n) /\ One(n) \in Seq(Byte)
        BY <1>11, <3>1
      <4>2. Put(n - 1) \in Seq(Byte)
        BY <1>10, <3>1
      <4> QED
        BY <4>1, <4>2
    <3> DEFINE p == Put(n - 1)
               o == One(n)
    <3>4. p \in Seq(Byte) /\ o \in Seq(Byte) /\ r \in Seq(Byte) /\ put = (p \o o) \o r
      BY <3>2, <3>3
    <3> HIDE DEF p, o
    <3>5. (p \o o) \o r = p \o (o \o r)
      BY ONLY <3>4, ConcatAssociates
    <3>6. o \o r \in Seq(Byte)
      BY <3>4
    <3>7. \E x \in Seq(Byte) : put = p \o x
      BY <3>4, <3>5, <3>6
    <3> QED
      BY <3>1, <3>7 DEF p
  <2>3. T \subseteq Nat
    OBVIOUS
  <2> HIDE DEF T
  <2>4. T = Nat
    BY <2>1, <2>2, <2>3, SetInduction
  <2> SUFFICES ASSUME NEW n \in 0..L PROVE \E r \in Seq(Byte) : put = Put(n) \o r
    OBVIOUS
  <2>5. L - n \in Nat /\ L - n <= L /\ L - (L - n) = n
    BY <1>1
  <2>6. L - n \in T
    BY <2>4, <2>5
  <2>7. \E r \in Seq(Byte) : put = Put(L - (L - n)) \o r
    BY <2>5, <2>6 DEF T
  <2> QED
    BY <2>5, <2>7
<1> DEFINE Rest(n) == CHOOSE r \in Seq(Byte) : put = Put(n) \o r
<1>15. \A n \in 0..L : Rest(n) \in Seq(Byte) /\ put = Put(n) \o Rest(n)
  BY <1>14
<1> HIDE DEF Rest
<1>16. Rest(0) = put
  <2> DEFINE r == Rest(0)
  <2>1. r \in Seq(Byte) /\ put = << >> \o r
    <3>1. 0 \in 0..L
      BY <1>1
    <3>2. Rest(0) \in Seq(Byte) /\ put = Put(0) \o Rest(0)
      BY <1>15, <3>1, Zenon
    <3> QED
      BY <1>13, <3>2, Zenon
  <2> HIDE DEF r
  <2> QED
    BY <2>1 DEF r
<1>17. ASSUME NEW n \in 1..L PROVE Rest(n - 1) = One(n) \o Rest(n)
  <2> DEFINE p == Put(n - 1)
             o == One(n)
             r == Rest(n)
             s == Rest(n - 1)
  <2>1. n - 1 \in 0..L /\ n \in 0..L
    BY <1>1
  <2>2. /\ p \in Seq(Byte) /\ o \in Seq(Byte) /\ r \in Seq(Byte) /\ s \in Seq(Byte)
        /\ put = p \o s /\ put = (p \o o) \o r
    BY <1>10, <1>11, <1>15, <2>1
  <2> HIDE DEF p, o, r, s
  <2>3. (p \o o) \o r = p \o (o \o r)
    BY <2>2, ConcatAssociates
  <2>4. o \o r \in Seq(Byte)
    BY <2>2
  <2> DEFINE x == o \o r
  <2>5. x \in Seq(Byte) /\ p \o s = p \o x
    BY <2>2, <2>3, <2>4
  <2> HIDE DEF x
  <2>6. s = x
    <3>1. SubSeq(p \o s, Len(p) + 1, Len(p \o s)) = s
      BY <2>2, RestOfConcat
    <3>2. SubSeq(p \o x, Len(p) + 1, Len(p \o x)) = x
      BY <2>2, <2>5, RestOfConcat
    <3> QED
      BY <2>5, <3>1, <3>2
  <2> QED
    BY <2>6 DEF x, s, o, r
<1> DEFINE T == {n \in Nat : n <= L => after[n] = [buf |-> Rest(n), identities |-> First(n)]}
<1>18. 0 \in T
  BY <1>9, <1>12, <1>16
<1>19. ASSUME NEW m \in T PROVE m + 1 \in T
  <2> SUFFICES ASSUME m + 1 <= L
               PROVE  after[m + 1] = [buf |-> Rest(m + 1), identities |-> First(m + 1)]
    OBVIOUS
  <2> DEFINE n == m + 1
             id == list[n]
             rest == Rest(n)
             ids == First(m)
  <2>1. n \in 1..L /\ n - 1 = m /\ m \in 0..L
    BY <1>1
  <2>2. after[n] = ReadIdentity(after[m]) /\ after[m] = [buf |-> Rest(m), identities |-> ids]
    BY <1>9, <2>1
  <2> HIDE DEF n
  <2>3. Rest(m) = PutIdentity(id) \o rest
    BY <1>17, <2>1 DEF One
  <2>4. id \in Identity /\ First(n) = Append(ids, id) /\ ids \in Seq(Identity)
    BY <1>10, <1>11, <2>1
  <2>5. rest \in Seq(Byte)
    BY <1>15, <2>1
  <2>6. Len(id.key) <= MaxBlob /\ Len(id.comment) <= MaxBlob /\ id.comment \in Seq(Utf8)
    BY <2>1 DEF Limited, Short
  <2> HIDE DEF id, rest, ids
  <2>7. ReadIdentity([buf |-> PutIdentity(id) \o rest, identities |-> ids])
          = [buf |-> rest, identities |-> Append(ids, id)]
    BY <2>4, <2>5, <2>6, IdentityIsRead
  <2> QED
    BY <2>2, <2>3, <2>4, <2>7 DEF n, rest
<1>20. T \subseteq Nat
  OBVIOUS
<1> HIDE DEF T
<1>21. T = Nat
  BY <1>18, <1>19, <1>20, SetInduction
<1>22. after[L] = [buf |-> Rest(L), identities |-> list]
  BY <1>1, <1>12, <1>21 DEF T
<1>23. after[L] \in Reader
  <2>1. Rest(L) \in Seq(Byte)
    BY <1>1, <1>15
  <2> QED
    BY <1>22, <2>1 DEF Reader
<1>24. after[L] # Error
  BY <1>23, WireAssumption
<1> QED
  BY <1>9, <1>22, <1>24 DEF msg

-----------------------------------------------------------------------------
(***************************************************************************)
(* Where messages end.                                                     *)
(***************************************************************************)
LEMMA EndsIsDefined ==
    ASSUME NEW bodies \in Seq(Seq(Byte))
    PROVE  Ends(bodies) =
              [i \in 0..Len(bodies) |->
                  IF i = 0 THEN 0 ELSE Ends(bodies)[i - 1] + Width + Len(bodies[i])]
<1> DEFINE Upto(n, f) ==
               f = [i \in 0..n |-> IF i = 0 THEN 0 ELSE f[i - 1] + Width + Len(bodies[i])]
           T == {n \in Nat : \E f : Upto(n, f)}
<1>1. 0 \in T
  <2>1. Upto(0, [i \in 0..0 |-> 0])
    OBVIOUS
  <2> QED
    BY <2>1
<1>2. ASSUME NEW n \in T PROVE n + 1 \in T
  <2>1. PICK f : Upto(n, f)
    OBVIOUS
  <2> DEFINE g == [i \in 0..(n + 1) |->
                      IF i = n + 1 THEN f[n] + Width + Len(bodies[n + 1]) ELSE f[i]]
  <2>2. Upto(n + 1, g)
    BY <2>1
  <2> HIDE DEF g
  <2> QED
    BY <2>2
<1>3. T \subseteq Nat
  OBVIOUS
<1> HIDE DEF T
<1>4. T = Nat
  BY <1>1, <1>2, <1>3, SetInduction
<1>5. \E f : Upto(Len(bodies), f)
  BY <1>4 DEF T
<1>6. Upto(Len(bodies), CHOOSE f : Upto(Len(bodies), f))
  BY <1>5
<1>7. Ends(bodies) = CHOOSE f : Upto(Len(bodies), f)
  BY DEF Ends
<1> QED
  BY <1>6, <1>7

LEMMA EndsSteps ==
    ASSUME NEW bodies \in Seq(Seq(Byte))
    PROVE  /\ Ends(bodies)[0] = 0
           /\ \A i \in 1..Len(bodies) :
                 Ends(bodies)[i] = Ends(bodies)[i - 1] + Width + Len(bodies[i])
<1> DEFINE E == Ends(bodies)
<1>1. Len(bodies) \in Nat
  OBVIOUS
<1>2. E = [i \in 0..Len(bodies) |-> IF i = 0 THEN 0 ELSE E[i - 1] + Width + Len(bodies[i])]
  BY EndsIsDefined
<1> HIDE DEF E
<1>3. E[0] = 0
  BY <1>1, <1>2
<1>4. ASSUME NEW i \in 1..Len(bodies)
      PROVE  E[i] = E[i - 1] + Width + Len(bodies[i])
  <2>1. i \in 0..Len(bodies) /\ i # 0
    BY <1>1
  <2>2. E[i] = IF i = 0 THEN 0 ELSE E[i - 1] + Width + Len(bodies[i])
    BY <1>2, <2>1, Zenon
  <2> QED
    BY <2>1, <2>2
<1> QED
  BY <1>3, <1>4 DEF E

(* Ends are numbers, and they ascend. *)
LEMMA EndsAscend ==
    ASSUME NEW bodies \in Seq(Seq(Byte))
    PROVE  /\ \A j \in 0..Len(bodies) : Ends(bodies)[j] \in Nat
           /\ \A j \in 0..Len(bodies) : \A i \in 0..j : Ends(bodies)[i] <= Ends(bodies)[j]
           /\ \A j \in 0..Len(bodies) : \A i \in 0..(j - 1) : Ends(bodies)[i] < Ends(bodies)[j]
<1> DEFINE E == Ends(bodies)
           L == Len(bodies)
           T == {j \in Nat : j <= L => /\ E[j] \in Nat
                                       /\ \A i \in 0..j : E[i] \in Nat /\ E[i] <= E[j]
                                       /\ \A i \in 0..(j - 1) : E[i] < E[j]}
<1>0. L \in Nat /\ Width \in Nat \ {0}
  BY WireAssumption
<1>1. 0 \in T
  BY EndsSteps
<1>2. ASSUME NEW j \in T PROVE j + 1 \in T
  <2> SUFFICES ASSUME j + 1 <= L
               PROVE  /\ E[j + 1] \in Nat
                      /\ \A i \in 0..(j + 1) : E[i] \in Nat /\ E[i] <= E[j + 1]
                      /\ \A i \in 0..((j + 1) - 1) : E[i] < E[j + 1]
    OBVIOUS
  <2>1. E[j] \in Nat /\ \A i \in 0..j : E[i] \in Nat /\ E[i] <= E[j]
    BY <1>0
  <2>2. j + 1 \in 1..L /\ (j + 1) - 1 = j
    BY <1>0
  <2>3. E[j + 1] = E[j] + Width + Len(bodies[j + 1])
    BY <2>2, EndsSteps
  <2>4. Len(bodies[j + 1]) \in Nat
    BY <2>2
  <2> HIDE DEF E, L
  <2>5. E[j + 1] \in Nat /\ E[j] < E[j + 1]
    BY <1>0, <2>1, <2>3, <2>4
  <2>6. ASSUME NEW i \in 0..j PROVE E[i] < E[j + 1]
    BY <2>1, <2>5
  <2> QED
    BY <2>1, <2>2, <2>5, <2>6
<1>3. T \subseteq Nat
  OBVIOUS
<1> HIDE DEF T
<1>4. T = Nat
  BY <1>1, <1>2, <1>3, SetInduction
<1>5. \A j \in 0..L : /\ E[j] \in Nat
                      /\ \A i \in 0..j : E[i] <= E[j]
                      /\ \A i \in 0..(j - 1) : E[i] < E[j]
  <2> HIDE DEF E, L
  <2> QED
    BY <1>0, <1>4 DEF T
<1> QED
  BY <1>5

(* A message more changes no end before it. *)
LEMMA EndsAppend ==
    ASSUME NEW bodies \in Seq(Seq(Byte)), NEW body \in Seq(Byte)
    PROVE  /\ \A i \in 0..Len(bodies) : Ends(Append(bodies, body))[i] = Ends(bodies)[i]
           /\ Ends(Append(bodies, body))[Len(bodies) + 1]
                 = Ends(bodies)[Len(bodies)] + Width + Len(body)
<1> DEFINE more == Append(bodies, body)
           L == Len(bodies)
           T == {i \in Nat : i <= L => Ends(more)[i] = Ends(bodies)[i]}
<1>0. /\ more \in Seq(Seq(Byte)) /\ L \in Nat /\ Len(more) = L + 1
      /\ \A i \in 1..L : more[i] = bodies[i]
      /\ more[L + 1] = body
  OBVIOUS
<1> HIDE DEF more
<1>1. 0 \in T
  BY <1>0, EndsSteps
<1>2. ASSUME NEW i \in T PROVE i + 1 \in T
  <2> SUFFICES ASSUME i + 1 <= L PROVE Ends(more)[i + 1] = Ends(bodies)[i + 1]
    OBVIOUS
  <2>1. i + 1 \in 1..L /\ i + 1 \in 1..Len(more) /\ (i + 1) - 1 = i
    BY <1>0
  <2>2. Ends(more)[i] = Ends(bodies)[i]
    BY <1>0
  <2>3. Ends(more)[i + 1] = Ends(more)[i] + Width + Len(more[i + 1])
    BY <1>0, <2>1, EndsSteps
  <2>4. Ends(bodies)[i + 1] = Ends(bodies)[i] + Width + Len(bodies[i + 1])
    BY <2>1, EndsSteps
  <2> QED
    BY <1>0, <2>1, <2>2, <2>3, <2>4
<1>3. T \subseteq Nat
  OBVIOUS
<1> HIDE DEF T
<1>4. T = Nat
  BY <1>1, <1>2, <1>3, SetInduction
<1>5. \A i \in 0..L : Ends(more)[i] = Ends(bodies)[i]
  BY <1>0, <1>4 DEF T
<1>6. Ends(more)[L + 1] = Ends(more)[L] + Width + Len(body)
  <2>1. L + 1 \in 1..Len(more) /\ (L + 1) - 1 = L
    BY <1>0
  <2> QED
    BY <1>0, <2>1, EndsSteps
<1> QED
  BY <1>0, <1>5, <1>6 DEF more

-----------------------------------------------------------------------------
(***************************************************************************)
(* Type correctness.                                                       *)
(***************************************************************************)
LEMMA BodyType ==
    ASSUME TypeOK, Len(sent) < Len(Bodies), NEW body \in Bodies[Len(sent) + 1]
    PROVE  body \in Seq(Byte) /\ Len(body) < Power[Width]
<1>1. Len(sent) + 1 \in 1..Len(Bodies)
  BY FramingAssumption DEF TypeOK
<1> QED
  BY <1>1, FramingAssumption

(* A length has Width bytes. *)
NeedInv == pc = "length" => need = Width

LEMMA TypeInit == Init => TypeOK /\ NeedInv
<1>1. << >> \in Seq(Byte)
  OBVIOUS
<1> QED
  BY <1>1, WireAssumption DEF Init, TypeOK, NeedInv

LEMMA NeedStep == NeedInv /\ [Next]_vars => NeedInv'
  BY DEF NeedInv, Next, Write, Close, Receive, EndOfStream, ReadFails, LengthRead,
         BodyRead, vars

LEMMA TypeStep == TypeOK /\ NeedInv /\ [Next]_vars => TypeOK'
<1> SUFFICES ASSUME TypeOK, NeedInv, [Next]_vars PROVE TypeOK'
  OBVIOUS
<1> USE DEF TypeOK
<1>1. ASSUME Len(sent) < Len(Bodies), NEW body \in Bodies[Len(sent) + 1], Write(body)
      PROVE  TypeOK'
  <2>1. body \in Seq(Byte)
    BY <1>1, BodyType
  <2>2. PutBlob(body) \in Seq(Byte)
    BY <2>1, PutBlobType
  <2>3. wire' \in Seq(Byte) /\ sent' \in Seq(Seq(Byte))
    BY <1>1, <2>1, <2>2 DEF Write
  <2> QED
    BY <1>1, <2>3 DEF Write
<1>2. ASSUME NEW missing \in 0..Len(wire), Close(missing) PROVE TypeOK'
  <2>1. SubSeq(wire, 1, Len(wire) - missing) \in Seq(Byte)
    OBVIOUS
  <2>2. lost' = missing /\ missing \in Nat
    BY <1>2 DEF Close
  <2> QED
    BY <1>2, <2>1, <2>2 DEF Close
<1>3. CASE Receive
  <2>1. /\ wire' \in Seq(Byte) /\ have' \in Seq(Byte)
        /\ Len(have') = Len(have) + 1 /\ Len(have) < need
    BY <1>3 DEF Receive, Reading
  <2> QED
    BY <1>3, <2>1, WireAssumption DEF Receive
<1>4. CASE EndOfStream \/ ReadFails
  BY <1>4 DEF EndOfStream, ReadFails
<1>5. CASE LengthRead
  <2>1. CASE Value(have) = 0 \/ Value(have) > MaxMessage
    BY <1>5, <2>1 DEF LengthRead
  <2>2. CASE ~(Value(have) = 0 \/ Value(have) > MaxMessage)
    <3>1. pc' = "body" /\ have' = << >> /\ need' = Value(have)
      BY <1>5, <2>2 DEF LengthRead
    <3>2. Value(have) \in Nat
      BY <1>5, ValueType, WireAssumption DEF LengthRead, NeedInv
    <3>3. need' \in 1..MaxMessage
      BY <2>2, <3>1, <3>2, WireAssumption
    <3> QED
      BY <1>5, <3>1, <3>3 DEF LengthRead
  <2> QED
    BY <2>1, <2>2
<1>6. CASE BodyRead
  <2>1. have # << >>
    BY <1>6, WireAssumption DEF BodyRead
  <2>2. Decode(have) \in [type : KnownTypes \cup {Unknown}, payload : Seq(Byte)]
    BY <2>1, DecodeType
  <2>3. got' \in Seq([type : KnownTypes \cup {Unknown}, payload : Seq(Byte)])
    BY <1>6, <2>2 DEF BodyRead
  <2> QED
    BY <1>6, <2>3, WireAssumption DEF BodyRead
<1>7. CASE UNCHANGED vars
  BY <1>7 DEF vars
<1> QED
  BY <1>1, <1>2, <1>3, <1>4, <1>5, <1>6, <1>7 DEF Next

(* Every variable of the framing keeps its type; what is read is never      *)
(* larger than the limit.                                                  *)
THEOREM TypeCorrect == Spec => []TypeOK
<1>1. TypeOK /\ NeedInv /\ [Next]_vars => (TypeOK /\ NeedInv)'
  BY TypeStep, NeedStep
<1> QED
  BY <1>1, TypeInit, PTL DEF Spec

-----------------------------------------------------------------------------
(***************************************************************************)
(* The reader never loses its place.  The invariant says where in the      *)
(* stream of all messages it is, and of each byte that it has, or that is  *)
(* on its way, which byte of which message it is.                          *)
(***************************************************************************)
(* Nothing arrives that is longer than a length can say. *)
SentInv == \A i \in 1..Len(sent) : Len(sent[i]) < Power[Width]

(* How far into the stream the reader has got. *)
MessageStart == Ends(sent)[Len(got)] + (IF pc = "body" THEN Width ELSE 0)
Position == MessageStart + Len(have)

(* What it reads is the message behind those that it has read... *)
ReaderInv ==
    /\ Len(have) > 0 \/ pc = "body" => Len(got) < Len(sent)
    /\ pc = "length" =>
          /\ need = Width
          /\ \A q \in 1..Len(have) : have[q] = PutBlob(sent[Len(got) + 1])[q]
    /\ pc = "body" =>
          /\ WellFormed(sent[Len(got) + 1]) /\ need = Len(sent[Len(got) + 1])
          /\ \A q \in 1..Len(have) : have[q] = sent[Len(got) + 1][q]

(* ...and what is on its way is the rest of the stream, without what is lost. *)
WireInv ==
    /\ open => lost = 0
    /\ Position + Len(wire) = Ends(sent)[Len(sent)] - lost
    /\ \A j \in (Len(got) + 1)..Len(sent) : \A q \in 1..(Width + Len(sent[j])) :
          LET p == Ends(sent)[j - 1] + q - Position
          IN  p \in 1..Len(wire) => wire[p] = PutBlob(sent[j])[q]

PlaceInv == SentInv /\ (pc \in {"length", "body"} => ReaderInv /\ WireInv)

IInv == TypeOK /\ NeedInv /\ PlaceInv /\ DeliveredAsSent

LEMMA PlaceInit == Init => PlaceInv /\ DeliveredAsSent
<1> SUFFICES ASSUME Init PROVE PlaceInv /\ DeliveredAsSent
  OBVIOUS
<1>1. Len(sent) = 0 /\ Len(got) = 0 /\ Len(have) = 0 /\ Len(wire) = 0
  BY DEF Init
<1>2. sent \in Seq(Seq(Byte)) /\ sent = << >>
  BY DEF Init
<1>3. Ends(sent)[0] = 0
  BY <1>2, EndsSteps
<1>4. ReaderInv
  BY <1>1 DEF Init, ReaderInv
<1>5. WireInv
  BY <1>1, <1>3 DEF Init, WireInv, Position, MessageStart
<1> QED
  BY <1>1, <1>4, <1>5 DEF Init, PlaceInv, SentInv, DeliveredAsSent

(* What is known of the numbers while something is being read. *)
LEMMA Numbers ==
    ASSUME IInv
    PROVE  /\ Len(sent) \in Nat /\ Len(got) \in 0..Len(sent) /\ Len(have) \in Nat
           /\ Len(wire) \in Nat /\ Width \in Nat \ {0} /\ lost \in Nat /\ need \in Nat
           /\ \A j \in 0..Len(sent) : Ends(sent)[j] \in Nat
           /\ MessageStart \in Nat /\ Position \in Nat
           /\ sent \in Seq(Seq(Byte)) /\ \A j \in 1..Len(sent) : Len(sent[j]) \in Nat
<1>1. sent \in Seq(Seq(Byte)) /\ got \in Seq([type : KnownTypes \cup {Unknown}, payload : Seq(Byte)])
      /\ have \in Seq(Byte) /\ wire \in Seq(Byte) /\ lost \in Nat /\ need \in 1..MaxMessage
  BY DEF IInv, TypeOK
<1>2. /\ Len(sent) \in Nat /\ Len(got) \in Nat /\ Len(have) \in Nat /\ Len(wire) \in Nat
      /\ \A j \in 1..Len(sent) : Len(sent[j]) \in Nat
  BY <1>1
<1>3. Len(got) \in 0..Len(sent)
  BY <1>2 DEF IInv, DeliveredAsSent
<1>4. \A j \in 0..Len(sent) : Ends(sent)[j] \in Nat
  BY <1>1, EndsAscend
<1>5. MessageStart \in Nat
  BY <1>2, <1>3, <1>4, WireAssumption DEF MessageStart
<1> QED
  BY <1>1, <1>2, <1>3, <1>4, <1>5, WireAssumption DEF Position

(* A message more at the end of the stream. *)
LEMMA WriteStep ==
    ASSUME IInv, Len(sent) < Len(Bodies), NEW body \in Bodies[Len(sent) + 1], Write(body)
    PROVE  PlaceInv' /\ DeliveredAsSent'
<1> DEFINE L == Len(sent)
           n == Len(got)
<1>0. TypeOK /\ NeedInv /\ PlaceInv /\ DeliveredAsSent
  BY DEF IInv
<1>1. /\ L \in Nat /\ n \in 0..L /\ Len(have) \in Nat
      /\ Len(wire) \in Nat /\ Width \in Nat \ {0} /\ lost \in Nat
      /\ \A j \in 0..L : Ends(sent)[j] \in Nat
      /\ MessageStart \in Nat /\ Position \in Nat
      /\ sent \in Seq(Seq(Byte)) /\ \A j \in 1..L : Len(sent[j]) \in Nat
  BY Numbers
<1>2. body \in Seq(Byte) /\ Len(body) < Power[Width] /\ Len(body) \in Nat
  BY <1>0, BodyType
<1>3. /\ sent' = Append(sent, body) /\ wire' = wire \o PutBlob(body)
      /\ open /\ UNCHANGED <<lost, open, pc, have, need, got>>
  BY DEF Write
<1>4. /\ Len(sent') = L + 1 /\ \A j \in 1..L : sent'[j] = sent[j]
      /\ sent'[L + 1] = body
  BY <1>1, <1>2, <1>3
<1>5. /\ \A j \in 0..L : Ends(sent')[j] = Ends(sent)[j]
      /\ Ends(sent')[L + 1] = Ends(sent)[L] + Width + Len(body)
  BY <1>1, <1>2, <1>3, EndsAppend
<1>6. SentInv'
  <2>1. SentInv
    BY <1>0 DEF PlaceInv
  <2>2. ASSUME NEW j \in 1..(L + 1) PROVE Len(sent'[j]) < Power[Width]
    <3>1. CASE j = L + 1
      BY <1>2, <1>4, <3>1
    <3>2. CASE j # L + 1
      <4>1. j \in 1..L
        BY <1>1, <3>2
      <4> QED
        BY <1>4, <2>1, <4>1 DEF SentInv
    <3> QED
      BY <3>1, <3>2
  <2> QED
    BY <1>4, <2>2 DEF SentInv
<1>7. MessageStart' = MessageStart /\ Position' = Position
  BY <1>1, <1>3, <1>5 DEF MessageStart, Position
<1>8. ASSUME pc \in {"length", "body"} PROVE ReaderInv' /\ WireInv'
  <2>1. ReaderInv /\ WireInv
    BY <1>0, <1>8 DEF PlaceInv
  <2>2. ReaderInv'
    <3>1. n < L => sent'[n + 1] = sent[n + 1]
      BY <1>1, <1>4
    <3>2. Len(have) > 0 \/ pc = "body" => n < L
      BY <2>1 DEF ReaderInv
    <3>3. CASE pc = "length"
      <4>1. ASSUME NEW q \in 1..Len(have) PROVE have[q] = PutBlob(sent'[n + 1])[q]
        <5>1. n < L
          BY <1>1, <3>2, <4>1
        <5> QED
          BY <2>1, <3>1, <3>3, <5>1 DEF ReaderInv
      <4>2. need = Width
        BY <2>1, <3>3 DEF ReaderInv
      <4> QED
        BY <1>1, <1>3, <1>4, <3>2, <3>3, <4>1, <4>2 DEF ReaderInv
    <3>4. CASE pc = "body"
      BY <1>1, <1>3, <1>4, <2>1, <3>1, <3>2, <3>4 DEF ReaderInv, WellFormed
    <3> QED
      BY <1>8, <3>3, <3>4
  <2>3. lost = 0 /\ Position + Len(wire) = Ends(sent)[L]
    BY <1>1, <1>3, <2>1 DEF WireInv
  <2>4. /\ Len(wire') = Len(wire) + Width + Len(body)
        /\ \A p \in 1..Len(wire) : wire'[p] = wire[p]
        /\ \A q \in 1..(Width + Len(body)) : wire'[Len(wire) + q] = PutBlob(body)[q]
    <3> DEFINE blob == PutBlob(body)
    <3>1. blob \in Seq(Byte) /\ Len(blob) = Width + Len(body)
      BY <1>2, PutBlobType
    <3>2. wire \in Seq(Byte) /\ wire' = wire \o blob
      BY <1>0, <1>3 DEF TypeOK
    <3> HIDE DEF blob
    <3>3. /\ Len(wire') = Len(wire) + Len(blob)
          /\ \A p \in 1..Len(wire) : wire'[p] = wire[p]
          /\ \A q \in 1..Len(blob) : wire'[Len(wire) + q] = blob[q]
      <4>1. wire \in Seq(Byte) /\ blob \in Seq(Byte)
        BY <3>1, <3>2
      <4>2. Len(wire \o blob) = Len(wire) + Len(blob)
        BY ONLY <4>1, ConcatParts
      <4>3. \A p \in 1..Len(wire) : (wire \o blob)[p] = wire[p]
        BY ONLY <4>1, ConcatParts
      <4>4. \A q \in 1..Len(blob) : (wire \o blob)[Len(wire) + q] = blob[q]
        BY ONLY <4>1, ConcatParts
      <4> QED
        BY <3>2, <4>2, <4>3, <4>4
    <3> QED
      BY <1>1, <1>2, <3>1, <3>3 DEF blob
  <2>5. Position' + Len(wire') = Ends(sent')[Len(sent')] - lost'
    BY <1>1, <1>2, <1>3, <1>4, <1>5, <1>7, <2>3, <2>4
  <2>6. ASSUME NEW j \in (n + 1)..(L + 1), NEW q \in 1..(Width + Len(sent'[j])),
               Ends(sent')[j - 1] + q - Position \in 1..Len(wire')
        PROVE  wire'[Ends(sent')[j - 1] + q - Position] = PutBlob(sent'[j])[q]
    <3> DEFINE e == Ends(sent)[j - 1]
               p == e + q - Position
    <3>1. /\ j \in Nat /\ j - 1 \in 0..L /\ j \in 1..(L + 1) /\ j >= n + 1
          /\ (j # L + 1 => j \in 1..L)
      <4>1. L \in Nat /\ n \in 0..L
        BY <1>1
      <4> HIDE DEF L, n
      <4> QED
        BY ONLY <4>1, j \in (n + 1)..(L + 1)
    <3>2. e \in Nat /\ Ends(sent')[j - 1] = e
      BY <1>1, <1>5, <3>1
    <3>3. Len(sent'[j]) \in Nat /\ q \in Nat /\ q >= 1
      BY <1>1, <1>2, <1>4, <3>1
    <3>4. p \in 1..Len(wire')
      BY <2>6, <3>2
    <3>5. CASE j = L + 1
      <4>1. j - 1 = L
        BY <1>1, <3>5
      <4>2. e = Position + Len(wire)
        BY <2>3, <4>1
      <4>3. p = Len(wire) + q
        BY ONLY <1>1, <3>3, <4>2
      <4>4. sent'[j] = body /\ q \in 1..(Width + Len(body))
        BY <1>4, <3>5
      <4> QED
        BY <2>4, <3>2, <4>3, <4>4
    <3>6. CASE j # L + 1
      <4>1. j \in 1..L /\ j \in 0..L /\ j \in (n + 1)..L /\ sent'[j] = sent[j]
        BY <1>1, <1>4, <3>1, <3>6
      <4>2. e + Width + Len(sent[j]) = Ends(sent)[j]
        BY <1>1, <4>1, EndsSteps
      <4>3. Ends(sent)[j] <= Ends(sent)[L] /\ Ends(sent)[j] \in Nat
        BY <1>1, <4>1, EndsAscend
      <4>4. q <= Width + Len(sent[j]) /\ Len(sent[j]) \in Nat
        BY <1>1, <3>3, <4>1
      <4>5. e + q <= Position + Len(wire)
        <5> DEFINE f == Ends(sent)[j]
                   l == Len(sent[j])
        <5>1. f \in Nat /\ l \in Nat /\ e + Width + l = f /\ q <= Width + l
              /\ f <= Position + Len(wire) /\ e \in Nat /\ q \in Nat
          BY <2>3, <3>2, <3>3, <4>2, <4>3, <4>4
        <5> HIDE DEF f, l, e
        <5> QED
          BY ONLY <1>1, <5>1
      <4>6. p \in 1..Len(wire)
        <5> HIDE DEF e
        <5>1. p \in Int /\ p >= 1 /\ p <= Len(wire)
          BY ONLY <1>1, <3>2, <3>3, <3>4, <4>5
        <5> QED
          BY ONLY <1>1, <5>1
      <4>7. q \in 1..(Width + Len(sent[j]))
        BY <4>1
      <4>8. wire[p] = PutBlob(sent[j])[q]
        BY <2>1, <4>1, <4>6, <4>7 DEF WireInv
      <4> QED
        BY <2>4, <3>2, <4>1, <4>6, <4>8
    <3> QED
      BY <3>5, <3>6
  <2> QED
    BY <1>3, <1>4, <1>7, <2>2, <2>3, <2>5, <2>6 DEF WireInv
<1>9. DeliveredAsSent'
  <2>1. \A i \in 1..n : WellFormed(sent[i]) /\ got[i] = Decode(sent[i])
    BY <1>0 DEF DeliveredAsSent
  <2>2. \A i \in 1..n : WellFormed(sent'[i]) /\ got'[i] = Decode(sent'[i])
    BY <1>1, <1>3, <1>4, <2>1 DEF WellFormed
  <2>3. pc # "closed"
    BY <1>0, <1>3 DEF DeliveredAsSent
  <2>4. ASSUME pc = "failed"
        PROVE  n + 1 <= L /\ ~WellFormed(sent'[n + 1])
    <3>1. n + 1 <= L /\ ~WellFormed(sent[n + 1])
      BY <1>0, <1>3, <2>4 DEF DeliveredAsSent
    <3> QED
      BY <1>1, <1>4, <3>1 DEF WellFormed
  <2> QED
    BY <1>1, <1>3, <1>4, <2>2, <2>3, <2>4 DEF DeliveredAsSent, WellFormed
<1> QED
  BY <1>3, <1>6, <1>8, <1>9 DEF PlaceInv

(* The connection is closed, and bytes at its end are lost. *)
LEMMA CloseStep ==
    ASSUME IInv, NEW missing \in 0..Len(wire), Close(missing)
    PROVE  PlaceInv' /\ DeliveredAsSent'
<1>0. TypeOK /\ PlaceInv /\ DeliveredAsSent
  BY DEF IInv
<1>1. /\ Len(sent) \in Nat /\ Len(got) \in 0..Len(sent) /\ Len(wire) \in Nat
      /\ Position \in Nat
      /\ \A j \in 0..Len(sent) : Ends(sent)[j] \in Nat
  BY Numbers
<1>2. /\ open /\ ~open' /\ lost' = missing /\ wire' = SubSeq(wire, 1, Len(wire) - missing)
      /\ UNCHANGED <<sent, pc, have, need, got>>
  BY DEF Close
<1>3. /\ Len(wire') = Len(wire) - missing
      /\ \A p \in 1..Len(wire') : wire'[p] = wire[p] /\ p \in 1..Len(wire)
  <2>1. wire \in Seq(Byte) /\ missing \in Nat
    BY <1>0, <1>1 DEF TypeOK
  <2>2. Len(wire') = Len(wire) - missing
    BY <1>1, <1>2, <2>1
  <2> QED
    BY <1>1, <1>2, <2>1, <2>2
<1>4. MessageStart' = MessageStart /\ Position' = Position
  BY <1>2 DEF MessageStart, Position
<1>5. ASSUME pc \in {"length", "body"} PROVE ReaderInv' /\ WireInv'
  <2>1. ReaderInv /\ WireInv
    BY <1>0, <1>5 DEF PlaceInv
  <2>2. ReaderInv'
    BY <1>2, <2>1 DEF ReaderInv, WellFormed
  <2>3. Position' + Len(wire') = Ends(sent')[Len(sent')] - lost'
    <3>1. Position + Len(wire) = Ends(sent)[Len(sent)]
      BY <1>1, <1>2, <2>1 DEF WireInv
    <3>2. Ends(sent)[Len(sent)] \in Nat /\ missing \in Nat
      BY <1>1
    <3>3. Position + (Len(wire) - missing) = Ends(sent)[Len(sent)] - missing
      BY <1>1, <3>1, <3>2
    <3> QED
      BY <1>2, <1>3, <1>4, <3>3
  <2>4. ASSUME NEW j \in (Len(got) + 1)..Len(sent), NEW q \in 1..(Width + Len(sent[j])),
               Ends(sent)[j - 1] + q - Position \in 1..Len(wire')
        PROVE  wire'[Ends(sent)[j - 1] + q - Position] = PutBlob(sent[j])[q]
    BY <1>3, <2>1, <2>4 DEF WireInv
  <2> QED
    BY <1>2, <1>4, <2>2, <2>3, <2>4 DEF WireInv
<1>6. SentInv'
  BY <1>0, <1>2 DEF PlaceInv, SentInv
<1>7. DeliveredAsSent'
  BY <1>0, <1>2 DEF DeliveredAsSent, WellFormed, Behind
<1> QED
  BY <1>2, <1>5, <1>6, <1>7 DEF PlaceInv

(* A byte is read: it is the next one of the message at hand. *)
LEMMA ReceiveStep ==
    ASSUME IInv, Receive
    PROVE  PlaceInv' /\ DeliveredAsSent'
<1> DEFINE L == Len(sent)
           n == Len(got)
           h == Len(have)
           E == Ends(sent)
<1>0. TypeOK /\ PlaceInv /\ DeliveredAsSent
  BY DEF IInv
<1>1. /\ L \in Nat /\ n \in 0..L /\ h \in Nat
      /\ Len(wire) \in Nat /\ Width \in Nat \ {0} /\ lost \in Nat
      /\ \A j \in 0..L : E[j] \in Nat
      /\ MessageStart \in Nat /\ Position \in Nat
      /\ sent \in Seq(Seq(Byte)) /\ \A j \in 1..L : Len(sent[j]) \in Nat
  BY Numbers
<1>2. /\ pc \in {"length", "body"} /\ h < need /\ wire # << >>
      /\ have' = Append(have, Head(wire)) /\ wire' = Tail(wire)
      /\ UNCHANGED <<sent, lost, open, pc, need, got>>
  BY DEF Receive, Reading
<1>3. ReaderInv /\ WireInv
  BY <1>0, <1>2 DEF PlaceInv
<1>4. /\ Len(wire) \in Nat \ {0} /\ Len(wire') = Len(wire) - 1
      /\ \A p \in 1..Len(wire') : wire'[p] = wire[p + 1] /\ p + 1 \in 1..Len(wire)
      /\ Len(have') = h + 1 /\ have'[h + 1] = wire[1]
      /\ \A q \in 1..h : have'[q] = have[q]
  <2>1. wire \in Seq(Byte) /\ have \in Seq(Byte)
    BY <1>0 DEF TypeOK
  <2> QED
    BY <1>1, <1>2, <2>1
<1>5. MessageStart' = MessageStart /\ Position' = Position + 1
  BY <1>1, <1>2, <1>4 DEF MessageStart, Position
<1>6. n < L
  <2>1. Position + Len(wire) = E[L] - lost
    BY <1>3 DEF WireInv
  <2>2. CASE n = L
    <3>1. E[n] <= MessageStart /\ E[n] \in Nat
      BY <1>1 DEF MessageStart
    <3>2. Position >= E[n]
      BY <1>1, <3>1 DEF Position
    <3> QED
      BY <1>1, <1>4, <2>1, <2>2, <3>1, <3>2
  <2> QED
    BY <1>1, <2>2
<1>7. n + 1 \in 1..L /\ n + 1 \in (n + 1)..L /\ (n + 1) - 1 = n /\ Len(sent[n + 1]) \in Nat
  BY <1>1, <1>6
<1>8. ReaderInv'
  <2>1. CASE pc = "length"
    <3>1. need = Width /\ MessageStart = E[n]
      BY <1>1, <1>3, <2>1 DEF ReaderInv, MessageStart
    <3>2. h + 1 \in 1..(Width + Len(sent[n + 1]))
      BY <1>1, <1>2, <1>7, <3>1
    <3>3. E[n] + (h + 1) - Position = 1
      BY <1>1, <3>1 DEF Position
    <3>4. wire[1] = PutBlob(sent[n + 1])[h + 1]
      <4>1. 1 \in 1..Len(wire) /\ E[(n + 1) - 1] + (h + 1) - Position = 1
        BY <1>4, <1>7, <3>3
      <4> QED
        BY <1>3, <1>7, <3>2, <4>1 DEF WireInv
    <3>5. ASSUME NEW q \in 1..(h + 1) PROVE have'[q] = PutBlob(sent[n + 1])[q]
      <4>1. CASE q = h + 1
        BY <1>4, <3>4, <4>1
      <4>2. CASE q # h + 1
        <5>1. q \in 1..h
          BY <1>1, <4>2
        <5> QED
          BY <1>3, <1>4, <2>1, <5>1 DEF ReaderInv
      <4> QED
        BY <4>1, <4>2
    <3> QED
      BY <1>2, <1>4, <1>6, <2>1, <3>1, <3>5 DEF ReaderInv
  <2>2. CASE pc = "body"
    <3>1. /\ WellFormed(sent[n + 1]) /\ need = Len(sent[n + 1])
          /\ MessageStart = E[n] + Width
      BY <1>3, <2>2 DEF ReaderInv, MessageStart
    <3>2. h + 1 \in 1..Len(sent[n + 1]) /\ Width + (h + 1) \in 1..(Width + Len(sent[n + 1]))
      <4> DEFINE l == Len(sent[n + 1])
                 w == Width
      <4>1. h \in Nat /\ l \in Nat /\ w \in Nat /\ h < l
        BY <1>1, <1>2, <1>7, <3>1
      <4> HIDE DEF h, l, w
      <4>2. h + 1 \in 1..l /\ w + (h + 1) \in 1..(w + l)
        BY ONLY <4>1
      <4> QED
        BY <4>2 DEF l, w
    <3>3. E[n] + (Width + (h + 1)) - Position = 1
      <4> DEFINE a == E[n]
      <4>1. a \in Nat /\ h \in Nat /\ Width \in Nat /\ Position = a + Width + h
        BY <1>1, <3>1 DEF Position
      <4> HIDE DEF a, h
      <4>2. a + (Width + (h + 1)) - Position = 1
        BY ONLY <4>1
      <4> QED
        BY <4>2 DEF a
    <3>4. wire[1] = PutBlob(sent[n + 1])[Width + (h + 1)]
      <4>1. 1 \in 1..Len(wire) /\ E[(n + 1) - 1] + (Width + (h + 1)) - Position = 1
        BY <1>4, <1>7, <3>3
      <4> QED
        BY <1>3, <1>7, <3>2, <4>1 DEF WireInv
    <3>5. PutBlob(sent[n + 1])[Width + (h + 1)] = sent[n + 1][h + 1]
      <4>1. sent[n + 1] \in Seq(Byte)
        BY <1>1, <1>7
      <4> QED
        BY <3>2, <4>1, PutBlobType
    <3>6. ASSUME NEW q \in 1..(h + 1) PROVE have'[q] = sent[n + 1][q]
      <4>1. CASE q = h + 1
        BY <1>4, <3>4, <3>5, <4>1
      <4>2. CASE q # h + 1
        <5>1. q \in 1..h
          BY <1>1, <4>2
        <5> QED
          BY <1>3, <1>4, <2>2, <5>1 DEF ReaderInv
      <4> QED
        BY <4>1, <4>2
    <3> QED
      BY <1>2, <1>4, <1>6, <2>2, <3>1, <3>6 DEF ReaderInv, WellFormed
  <2> QED
    BY <1>2, <2>1, <2>2
<1>9. WireInv'
  <2>1. Position' + Len(wire') = E[L] - lost
    BY <1>1, <1>3, <1>4, <1>5 DEF WireInv
  <2>2. ASSUME NEW j \in (n + 1)..L, NEW q \in 1..(Width + Len(sent[j])),
               E[j - 1] + q - (Position + 1) \in 1..Len(wire')
        PROVE  wire'[E[j - 1] + q - (Position + 1)] = PutBlob(sent[j])[q]
    <3> DEFINE p == E[j - 1] + q - (Position + 1)
    <3>1. j - 1 \in 0..L /\ j \in 1..L
      BY <1>1
    <3>2. E[j - 1] \in Nat /\ q \in Nat
      BY <1>1, <3>1
    <3>3. p + 1 = E[j - 1] + q - Position
      <4> DEFINE e == E[j - 1]
      <4>1. e \in Nat /\ q \in Nat /\ Position \in Nat
        BY <1>1, <3>2
      <4> HIDE DEF e
      <4>2. (e + q - (Position + 1)) + 1 = e + q - Position
        BY ONLY <4>1
      <4> QED
        BY <4>2 DEF e
    <3>4. wire'[p] = wire[p + 1] /\ p + 1 \in 1..Len(wire)
      BY <1>4, <2>2
    <3>5. wire[E[j - 1] + q - Position] = PutBlob(sent[j])[q]
      BY <1>3, <3>3, <3>4 DEF WireInv
    <3> QED
      BY <3>3, <3>4, <3>5
  <2> QED
    BY <1>2, <1>3, <1>5, <2>1, <2>2 DEF WireInv
<1>10. SentInv'
  BY <1>0, <1>2 DEF PlaceInv, SentInv
<1>11. DeliveredAsSent'
  BY <1>0, <1>2 DEF DeliveredAsSent, WellFormed, Behind
<1> QED
  BY <1>8, <1>9, <1>10, <1>11 DEF PlaceInv

(* An end of the stream, between two messages or within one. *)
LEMMA EndOfStreamStep ==
    ASSUME IInv, EndOfStream
    PROVE  PlaceInv' /\ DeliveredAsSent'
<1> DEFINE L == Len(sent)
           n == Len(got)
           h == Len(have)
           E == Ends(sent)
<1>0. TypeOK /\ PlaceInv /\ DeliveredAsSent
  BY DEF IInv
<1>1. /\ L \in Nat /\ n \in 0..L /\ h \in Nat
      /\ Width \in Nat \ {0} /\ lost \in Nat /\ need \in Nat
      /\ \A j \in 0..L : E[j] \in Nat
      /\ MessageStart \in Nat /\ Position \in Nat
      /\ sent \in Seq(Seq(Byte)) /\ \A j \in 1..L : Len(sent[j]) \in Nat
  BY Numbers
<1>2. /\ pc \in {"length", "body"} /\ h < need /\ Len(wire) = 0 /\ ~open
      /\ pc' = (IF pc = "length" THEN "closed" ELSE "failed")
      /\ UNCHANGED <<sent, lost, open, wire, have, need, got>>
  BY DEF EndOfStream, Reading
<1>3. ReaderInv /\ WireInv
  BY <1>0, <1>2 DEF PlaceInv
<1>4. Position = E[L] - lost
  BY <1>1, <1>2, <1>3 DEF WireInv
<1>5. SentInv'
  BY <1>0, <1>2 DEF PlaceInv, SentInv
<1>6. \A i \in 1..n : WellFormed(sent[i]) /\ got[i] = Decode(sent[i])
  BY <1>0 DEF DeliveredAsSent
<1>7. CASE pc = "length"
  <2>1. need = Width /\ Position = E[n] + h
    BY <1>1, <1>3, <1>7 DEF ReaderInv, Position, MessageStart
  <2>2. E[L] - E[n] - lost < Width
    <3>1. E[L] \in Nat /\ E[n] \in Nat
      BY <1>1
    <3> HIDE DEF E, L, n, h
    <3> QED
      BY <1>1, <1>2, <1>4, <2>1, <3>1
  <2>3. Behind(n)' - lost' < Width
    BY <1>2, <2>2 DEF Behind
  <2> QED
    BY <1>1, <1>2, <1>5, <1>6, <1>7, <2>3 DEF PlaceInv, DeliveredAsSent, WellFormed
<1>8. CASE pc = "body"
  <2>1. n + 1 \in 1..L /\ (n + 1) - 1 = n /\ n + 1 \in 0..L
    BY <1>1, <1>3, <1>8 DEF ReaderInv
  <2>2. need = Len(sent[n + 1]) /\ Position = E[n] + Width + h
    BY <1>1, <1>3, <1>8 DEF ReaderInv, Position, MessageStart
  <2>3. E[n + 1] = E[n] + Width + Len(sent[n + 1])
    BY <1>1, <2>1, EndsSteps
  <2>4. E[L] - E[n + 1] < lost
    <3>1. E[L] \in Nat /\ E[n] \in Nat /\ E[n + 1] \in Nat
      BY <1>1, <2>1
    <3> DEFINE a == E[n]
               b == E[n + 1]
               c == E[L]
    <3>2. /\ a \in Nat /\ b \in Nat /\ c \in Nat /\ h \in Nat /\ lost \in Nat
          /\ need \in Nat /\ Width \in Nat /\ Position \in Nat /\ h < need
          /\ Position = c - lost /\ Position = a + Width + h /\ b = a + Width + need
      BY <1>1, <1>2, <1>4, <2>2, <2>3, <3>1
    <3> HIDE DEF a, b, c, h
    <3>3. c - b < lost
      BY ONLY <3>2
    <3> QED
      BY <3>3 DEF b, c
  <2>5. (Behind(n + 1) < lost)'
    BY <1>2, <2>4 DEF Behind
  <2> QED
    BY <1>1, <1>2, <1>5, <1>6, <1>8, <2>1, <2>5 DEF PlaceInv, DeliveredAsSent, WellFormed
<1> QED
  BY <1>2, <1>7, <1>8

(* The length has been read: it is the one that was written. *)
LEMMA LengthReadStep ==
    ASSUME IInv, LengthRead
    PROVE  PlaceInv' /\ DeliveredAsSent'
<1> DEFINE L == Len(sent)
           n == Len(got)
           E == Ends(sent)
<1>0. TypeOK /\ PlaceInv /\ DeliveredAsSent
  BY DEF IInv
<1>1. /\ L \in Nat /\ n \in 0..L
      /\ Len(wire) \in Nat /\ Width \in Nat \ {0} /\ lost \in Nat
      /\ \A j \in 0..L : E[j] \in Nat
      /\ sent \in Seq(Seq(Byte)) /\ \A j \in 1..L : Len(sent[j]) \in Nat
  BY Numbers
<1>2. /\ pc = "length" /\ Len(have) = need
      /\ UNCHANGED <<sent, lost, open, wire, got>>
  BY DEF LengthRead
<1>3. ReaderInv /\ WireInv
  BY <1>0, <1>2 DEF PlaceInv
<1>4. need = Width /\ n < L
  BY <1>1, <1>2, <1>3 DEF ReaderInv
<1>5. n + 1 \in 1..L /\ sent[n + 1] \in Seq(Byte) /\ Len(sent[n + 1]) \in Nat
  BY <1>1, <1>4
<1>6. Value(have) = Len(sent[n + 1])
  <2>1. \A q \in 1..Width : have[q] = Field(Len(sent[n + 1]))[q]
    BY <1>2, <1>3, <1>4, <1>5, PutBlobType DEF ReaderInv
  <2>2. Len(sent[n + 1]) < Power[Width]
    BY <1>0, <1>5 DEF PlaceInv, SentInv
  <2> QED
    BY <1>5, <2>1, <2>2, ValueOfField
<1>7. SentInv'
  BY <1>0, <1>2 DEF PlaceInv, SentInv
<1>8. \A i \in 1..n : WellFormed(sent[i]) /\ got[i] = Decode(sent[i])
  BY <1>0 DEF DeliveredAsSent
<1>9. CASE Value(have) = 0 \/ Value(have) > MaxMessage
  <2>1. pc' = "failed"
    BY <1>9 DEF LengthRead
  <2>2. ~WellFormed(sent[n + 1])
    BY <1>5, <1>6, <1>9, WireAssumption DEF WellFormed
  <2> QED
    BY <1>1, <1>2, <1>5, <1>7, <1>8, <2>1, <2>2 DEF PlaceInv, DeliveredAsSent, WellFormed
<1>10. CASE ~(Value(have) = 0 \/ Value(have) > MaxMessage)
  <2>1. pc' = "body" /\ have' = << >> /\ need' = Value(have)
    BY <1>10 DEF LengthRead
  <2>2. Len(have') = 0
    BY <2>1
  <2>3. WellFormed(sent[n + 1])
    BY <1>5, <1>6, <1>10, WireAssumption DEF WellFormed
  <2>4. Position' = Position
    BY <1>1, <1>2, <1>4, <2>1, <2>2 DEF Position, MessageStart
  <2>5. ReaderInv'
    BY <1>2, <1>4, <1>6, <2>1, <2>2, <2>3 DEF ReaderInv, WellFormed
  <2>6. WireInv'
    BY <1>2, <1>3, <2>4 DEF WireInv
  <2>7. DeliveredAsSent'
    BY <1>1, <1>2, <1>8, <2>1 DEF DeliveredAsSent, WellFormed
  <2> QED
    BY <1>7, <2>1, <2>5, <2>6, <2>7 DEF PlaceInv
<1> QED
  BY <1>9, <1>10

(* The body has been read: it is the one that was written. *)
LEMMA BodyReadStep ==
    ASSUME IInv, BodyRead
    PROVE  PlaceInv' /\ DeliveredAsSent'
<1> DEFINE L == Len(sent)
           n == Len(got)
           E == Ends(sent)
<1>0. TypeOK /\ PlaceInv /\ DeliveredAsSent
  BY DEF IInv
<1>1. /\ L \in Nat /\ n \in 0..L
      /\ Len(wire) \in Nat /\ Width \in Nat \ {0} /\ lost \in Nat
      /\ \A j \in 0..L : E[j] \in Nat
      /\ sent \in Seq(Seq(Byte)) /\ \A j \in 1..L : Len(sent[j]) \in Nat
  BY Numbers
<1>2. /\ pc = "body" /\ Len(have) = need
      /\ got' = Append(got, Decode(have))
      /\ pc' = "length" /\ have' = << >> /\ need' = Width
      /\ UNCHANGED <<sent, lost, open, wire>>
  BY DEF BodyRead
<1>3. ReaderInv /\ WireInv
  BY <1>0, <1>2 DEF PlaceInv
<1>4. n < L /\ WellFormed(sent[n + 1]) /\ need = Len(sent[n + 1])
  BY <1>2, <1>3 DEF ReaderInv
<1>5. n + 1 \in 1..L /\ (n + 1) - 1 = n /\ sent[n + 1] \in Seq(Byte)
  BY <1>1, <1>4
<1>6. have = sent[n + 1]
  <2>1. have \in Seq(Byte) /\ Len(have) = Len(sent[n + 1])
    BY <1>0, <1>2, <1>4 DEF TypeOK
  <2>2. \A q \in 1..Len(have) : have[q] = sent[n + 1][q]
    BY <1>2, <1>3 DEF ReaderInv
  <2> QED
    BY <1>5, <2>1, <2>2, SeqEqual
<1>7. /\ Len(got') = n + 1 /\ got'[n + 1] = Decode(have)
      /\ \A i \in 1..n : got'[i] = got[i]
  <2>1. got \in Seq([type : KnownTypes \cup {Unknown}, payload : Seq(Byte)])
    BY <1>0 DEF TypeOK
  <2> QED
    BY <1>2, <2>1
<1>8. Len(have') = 0
  BY <1>2
<1>9. Position' = Position
  <2>1. E[n + 1] = E[n] + Width + Len(sent[n + 1])
    BY <1>1, <1>5, EndsSteps
  <2>2. E[n + 1] \in Nat /\ E[n] \in Nat /\ Len(sent[n + 1]) \in Nat
    BY <1>1, <1>5
  <2>3. Position = E[n] + Width + Len(sent[n + 1])
    BY <1>2, <1>4 DEF Position, MessageStart
  <2>4. Position' = E[n + 1] + 0 + 0
    BY <1>2, <1>7, <1>8 DEF Position, MessageStart
  <2> QED
    BY <2>1, <2>2, <2>3, <2>4
<1>10. DeliveredAsSent'
  <2>1. ASSUME NEW i \in 1..(n + 1)
        PROVE  WellFormed(sent[i]) /\ got'[i] = Decode(sent[i])
    <3>1. CASE i = n + 1
      BY <1>4, <1>6, <1>7, <3>1
    <3>2. CASE i # n + 1
      <4>1. i \in 1..n
        <5>1. n \in Nat
          BY <1>1
        <5> HIDE DEF n
        <5> QED
          BY ONLY <3>2, <5>1, i \in 1..(n + 1)
      <4> QED
        BY <1>0, <1>7, <4>1 DEF DeliveredAsSent
    <3> QED
      BY <3>1, <3>2
  <2> QED
    BY <1>1, <1>2, <1>5, <1>7, <2>1 DEF DeliveredAsSent, WellFormed
<1>11. ReaderInv'
  BY <1>2, <1>8, WireAssumption DEF ReaderInv
<1>12. WireInv'
  <2>1. \A j \in (n + 2)..L : j \in (n + 1)..L
    BY <1>1
  <2>2. (n + 1) + 1 = n + 2
    BY <1>1
  <2> QED
    BY <1>2, <1>3, <1>7, <1>9, <2>1, <2>2 DEF WireInv
<1>13. SentInv'
  BY <1>0, <1>2 DEF PlaceInv, SentInv
<1> QED
  BY <1>10, <1>11, <1>12, <1>13 DEF PlaceInv

LEMMA ReadFailsStep ==
    ASSUME IInv, ReadFails
    PROVE  PlaceInv' /\ DeliveredAsSent'
<1>1. /\ pc' = "broken"
      /\ UNCHANGED <<sent, lost, open, wire, have, need, got>>
  BY DEF ReadFails
<1>2. SentInv'
  BY <1>1 DEF IInv, PlaceInv, SentInv
<1>3. DeliveredAsSent'
  BY <1>1 DEF IInv, DeliveredAsSent, WellFormed
<1> QED
  BY <1>1, <1>2, <1>3 DEF PlaceInv

LEMMA PlaceStep == IInv /\ [Next]_vars => PlaceInv' /\ DeliveredAsSent'
<1> SUFFICES ASSUME IInv, [Next]_vars PROVE PlaceInv' /\ DeliveredAsSent'
  OBVIOUS
<1>1. CASE UNCHANGED vars
  BY <1>1 DEF vars, IInv, PlaceInv, SentInv, ReaderInv, WireInv, Position, MessageStart,
              DeliveredAsSent, WellFormed, Behind
<1> QED
  BY <1>1, WriteStep, CloseStep, ReceiveStep, EndOfStreamStep, ReadFailsStep,
     LengthReadStep, BodyReadStep DEF Next

(***************************************************************************)
(* Whatever is written, however it arrives and wherever the connection is  *)
(* cut: what is read are the messages written, an end is reported only     *)
(* where there is one, and an error only at a message that is cut, empty   *)
(* or too long, unless the connection itself breaks.                       *)
(***************************************************************************)
THEOREM Delivered == Spec => []DeliveredAsSent
<1>1. Init => IInv
  BY TypeInit, PlaceInit DEF IInv
<1>2. IInv /\ [Next]_vars => IInv'
  BY TypeStep, NeedStep, PlaceStep DEF IInv
<1>3. IInv => DeliveredAsSent
  BY DEF IInv
<1> QED
  BY <1>1, <1>2, <1>3, PTL DEF Spec

-----------------------------------------------------------------------------
(***************************************************************************)
(* What the parsers make of the messages that have been read.              *)
(***************************************************************************)
LEMMA MessageType ==
    ASSUME TypeOK, NEW i \in 1..Len(got)
    PROVE  got[i].payload \in Seq(Byte)
<1> DEFINE Message == [type : KnownTypes \cup {Unknown}, payload : Seq(Byte)]
<1>1. got \in Seq(Message)
  BY DEF TypeOK
<1> HIDE DEF Message
<1>2. got[i] \in Message
  BY <1>1
<1> QED
  BY <1>2 DEF Message

(* A sign request is for a key of the list before it exactly if it begins   *)
(* with that key as the list holds it.                                     *)
THEOREM SignRequestsNameKeys == Spec => []SignNamesListedKey
<1>1. TypeOK => SignNamesListedKey
  <2> DEFINE list == ParseIdentities(got[1])
             msg == got[2]
  <2> SUFFICES ASSUME TypeOK, Len(got) = 2, list # Error, msg.type = SignType,
                      NEW id \in ToSet(list)
               PROVE  SignKey(msg) = id.key <=> IsPrefix(PutBlob(id.key), msg.payload)
    BY DEF SignNamesListedKey
  <2>1. got[1].payload \in Seq(Byte) /\ msg.payload \in Seq(Byte)
    BY MessageType
  <2>2. list \in Seq(Identity) /\ Limited(list)
    BY <2>1, ParsedList
  <2> HIDE DEF list, msg
  <2>3. PICK k \in 1..Len(list) : id = list[k]
    BY <2>2 DEF ToSet
  <2>4. id \in Identity /\ Len(id.key) <= MaxBlob
    BY <2>2, <2>3 DEF Limited
  <2>5. id.key \in Seq(Byte)
    BY <2>4 DEF Identity
  <2> QED
    BY <2>1, <2>4, <2>5, SignKeyIsPrefix
<1> QED
  BY <1>1, TypeCorrect, PTL

LEMMA CleanIsUtf8 ==
    ASSUME NEW msg, msg.payload \in Seq(Byte), Clean(msg)
    PROVE  msg.payload \in Seq(Utf8)
  BY DEF Clean, Utf8

(* No key and no comment is made up, and none is skipped: the list, written *)
(* again, is what the answer begins with.                                  *)
THEOREM ListsAreInAnswers == Spec => []ParsedIsInAnswer
<1>1. TypeOK => ParsedIsInAnswer
  <2> DEFINE msg == Latest
             list == ParseIdentities(msg)
             put == PutIdentities(list)
             field == Field(Len(list))
  <2> SUFFICES ASSUME TypeOK, got # << >>, Clean(msg), list # Error
               PROVE  IsPrefix(Build(list).payload, msg.payload)
    BY DEF ParsedIsInAnswer
  <2>1. msg.payload \in Seq(Byte)
    <3>1. Len(got) \in 1..Len(got)
      BY DEF TypeOK
    <3> QED
      BY <3>1, MessageType DEF Latest
  <2>2. msg.payload \in Seq(Utf8)
    BY <2>1, CleanIsUtf8
  <2> HIDE DEF msg
  <2>3. PICK rest \in Seq(Byte) : msg.payload = (field \o put) \o rest
    BY <2>1, <2>2, ParsedList
  <2>4. list \in Seq(Identity)
    BY <2>1, ParsedList
  <2> HIDE DEF list
  <2>5. put \in Seq(Byte) /\ field \in Seq(Byte)
    <3>1. Len(list) \in Nat
      BY <2>4
    <3> QED
      BY <2>4, <3>1, PutIdentitiesType, FieldType
  <2>6. Build(list).payload = field \o put
    BY DEF Build
  <2> HIDE DEF put, field
  <2>7. field \o put \in Seq(Byte)
    BY <2>5
  <2> DEFINE written == field \o put
  <2> HIDE DEF written
  <2>8. IsPrefix(written, written \o rest)
    BY <2>7, PrefixOfConcat DEF written
  <2> QED
    BY <2>3, <2>6, <2>8 DEF written
<1> QED
  BY <1>1, TypeCorrect, PTL

-----------------------------------------------------------------------------
(***************************************************************************)
(* What the filter keeps.                                                  *)
(***************************************************************************)
LEMMA KeptSteps ==
    ASSUME NEW list \in Seq(Identity), NEW allowed
    PROVE  \E kept :
              /\ kept[0] = << >>
              /\ \A i \in 1..Len(list) :
                    kept[i] = IF list[i] \in allowed THEN Append(kept[i - 1], list[i])
                              ELSE kept[i - 1]
              /\ Kept(list, allowed) = kept[Len(list)]
<1> DEFINE L == Len(list)
           More(old, i) == IF list[i] \in allowed THEN Append(old, list[i]) ELSE old
           Upto(n, f) == f = [i \in 0..n |-> IF i = 0 THEN << >> ELSE More(f[i - 1], i)]
           T == {n \in Nat : \E f : Upto(n, f)}
<1>0. Kept(list, allowed) = (CHOOSE f : Upto(L, f))[L]
  BY DEF Kept
<1> HIDE DEF More
<1>1. 0 \in T
  <2>1. Upto(0, [i \in 0..0 |-> << >>])
    OBVIOUS
  <2> QED
    BY <2>1
<1>2. ASSUME NEW n \in T PROVE n + 1 \in T
  <2>1. PICK f : Upto(n, f)
    OBVIOUS
  <2> DEFINE last == More(f[n], n + 1)
             g == [i \in 0..(n + 1) |-> IF i = n + 1 THEN last ELSE f[i]]
  <2>2. ASSUME NEW i \in 0..(n + 1)
        PROVE  g[i] = IF i = 0 THEN << >> ELSE More(g[i - 1], i)
    <3>1. CASE i = n + 1
      <4>1. i - 1 = n /\ i # 0 /\ n \in 0..(n + 1) /\ n # n + 1
        BY <3>1
      <4>2. g[i] = last /\ g[i - 1] = f[n]
        BY <3>1, <4>1, Zenon
      <4> QED
        BY <3>1, <4>1, <4>2
    <3>2. CASE i # n + 1
      <4>1. i \in 0..n /\ g[i] = f[i]
        BY <3>2
      <4>2. CASE i = 0
        BY <2>1, <4>1, <4>2
      <4>3. CASE i # 0
        <5>1. i - 1 \in 0..n /\ i - 1 # n + 1 /\ i - 1 \in 0..(n + 1)
          BY <4>1, <4>3
        <5>2. g[i - 1] = f[i - 1]
          BY <5>1
        <5>3. f[i] = More(f[i - 1], i)
          BY <2>1, <4>1, <4>3
        <5> QED
          BY <4>1, <4>3, <5>2, <5>3
      <4> QED
        BY <4>2, <4>3
    <3> QED
      BY <3>1, <3>2
  <2>3. g = [i \in 0..(n + 1) |-> g[i]]
    OBVIOUS
  <2> HIDE DEF g
  <2>4. [i \in 0..(n + 1) |-> g[i]]
          = [i \in 0..(n + 1) |-> IF i = 0 THEN << >> ELSE More(g[i - 1], i)]
    BY <2>2, Zenon
  <2>5. Upto(n + 1, g)
    BY <2>3, <2>4
  <2>6. n + 1 \in Nat /\ \E h : Upto(n + 1, h)
    BY <2>5
  <2> HIDE DEF Upto
  <2> QED
    BY <2>6
<1>3. T \subseteq Nat
  OBVIOUS
<1> HIDE DEF T
<1>4. T = Nat
  BY <1>1, <1>2, <1>3, SetInduction
<1>5. \E f : Upto(L, f)
  BY <1>4 DEF T
<1> DEFINE kept == CHOOSE f : Upto(L, f)
<1>6. Upto(L, kept)
  BY <1>5
<1>7. L \in Nat /\ Kept(list, allowed) = kept[L]
  BY <1>0
<1> HIDE DEF kept, L
<1>8. kept[0] = << >>
  BY <1>6, <1>7
<1>9. \A i \in 1..L : kept[i] = More(kept[i - 1], i)
  BY <1>6, <1>7
<1> QED
  BY <1>7, <1>8, <1>9 DEF L, More

(* It is a part of the list, and written it is no longer than the list. *)
LEMMA KeptIsPart ==
    ASSUME NEW list \in Seq(Identity), NEW allowed, NEW part, part = Kept(list, allowed)
    PROVE  /\ part \in Seq(Identity) /\ Len(part) <= Len(list)
           /\ \A k \in 1..Len(part) : \E j \in 1..Len(list) : part[k] = list[j]
           /\ Len(PutIdentities(part)) <= Len(PutIdentities(list))
<1> DEFINE L == Len(list)
           First(n) == SubSeq(list, 1, n)
           Size(n) == Len(PutIdentities(First(n)))
<1>1. L \in Nat
  OBVIOUS
<1>2. PICK kept :
          /\ kept[0] = << >>
          /\ \A i \in 1..L :
                kept[i] = IF list[i] \in allowed THEN Append(kept[i - 1], list[i])
                          ELSE kept[i - 1]
          /\ Kept(list, allowed) = kept[L]
  BY KeptSteps
<1>3. ASSUME NEW n \in 0..L PROVE Size(n) \in Nat
  <2>1. First(n) \in Seq(Identity)
    BY <1>1
  <2> DEFINE put == PutIdentities(First(n))
  <2>2. put \in Seq(Byte)
    <3> HIDE DEF First
    <3> QED
      BY <2>1, PutIdentitiesType
  <2> HIDE DEF put
  <2>3. Len(put) \in Nat
    BY <2>2
  <2> QED
    BY <2>3 DEF put
<1>4. ASSUME NEW n \in 1..L PROVE Size(n) = Size(n - 1) + Len(PutIdentity(list[n]))
  <2> DEFINE f == First(n - 1)
             x == list[n]
             put == PutIdentities(f)
             one == PutIdentity(x)
  <2>1. f \in Seq(Identity) /\ x \in Identity
    BY <1>1
  <2>2. First(n) = Append(f, x)
    BY <1>1
  <2> HIDE DEF f, x
  <2>3. PutIdentities(Append(f, x)) = put \o one /\ put \in Seq(Byte) /\ one \in Seq(Byte)
    BY <2>1, PutIdentitiesAppend, PutIdentitiesType, PutIdentityType
  <2> HIDE DEF put, one
  <2>4. Len(put \o one) = Len(put) + Len(one)
    BY <2>3, ConcatParts
  <2> QED
    BY <2>2, <2>3, <2>4 DEF put, one, f, x
<1> DEFINE Part(n) ==
               /\ kept[n] \in Seq(Identity) /\ Len(kept[n]) <= n
               /\ \A k \in 1..Len(kept[n]) : \E j \in 1..L : kept[n][k] = list[j]
               /\ Len(PutIdentities(kept[n])) <= Size(n)
           T == {n \in Nat : n <= L => Part(n)}
<1>5. 0 \in T
  <2>1. << >> \in Seq(Identity) /\ Len(<< >>) = 0 /\ First(0) = << >>
    OBVIOUS
  <2>2. Size(0) = 0
    BY <2>1, PutNoIdentities
  <2>3. Part(0)
    <3> HIDE DEF Size
    <3> QED
      BY <1>2, <2>1, <2>2, PutNoIdentities
  <2> HIDE DEF Part
  <2> QED
    BY <2>3
<1> HIDE DEF Size, First
<1>6. ASSUME NEW m \in T PROVE m + 1 \in T
  <2> SUFFICES ASSUME m + 1 <= L PROVE Part(m + 1)
    BY DEF T
  <2> DEFINE n == m + 1
             old == kept[m]
             x == list[n]
             one == PutIdentity(x)
  <2>1. n \in 1..L /\ n - 1 = m /\ m \in 0..L /\ m \in Nat
    BY <1>1
  <2>2. Part(m)
    BY <2>1
  <2>3. x \in Identity
    BY <1>1, <2>1
  <2>4. kept[n] = IF x \in allowed THEN Append(old, x) ELSE old
    BY <1>2, <2>1
  <2>5. Size(n) = Size(m) + Len(one) /\ Size(m) \in Nat
    BY <1>3, <1>4, <2>1
  <2>6. one \in Seq(Byte)
    BY <2>3, PutIdentityType
  <2> HIDE DEF one
  <2>7. Len(one) \in Nat
    BY <2>6
  <2>8. CASE x \notin allowed
    <3>1. kept[n] = old
      BY <2>4, <2>8
    <3> DEFINE p == Len(PutIdentities(old))
    <3>2. p \in Nat /\ Len(old) \in Nat
      <4>1. PutIdentities(old) \in Seq(Byte)
        BY <2>2, PutIdentitiesType
      <4> QED
        BY <2>2, <4>1
    <3>3. p <= Size(n)
      <4> HIDE DEF p
      <4>1. p <= Size(m)
        BY <2>2 DEF p
      <4> QED
        BY <2>5, <2>7, <3>2, <4>1
    <3> QED
      BY <2>1, <2>2, <3>1, <3>2, <3>3
  <2>9. CASE x \in allowed
    <3>1. kept[n] = Append(old, x) /\ old \in Seq(Identity)
      BY <2>2, <2>4, <2>9
    <3>2. kept[n] \in Seq(Identity) /\ Len(kept[n]) = Len(old) + 1 /\ Len(old) \in Nat
      BY <2>3, <3>1
    <3>3. ASSUME NEW k \in 1..Len(kept[n]) PROVE \E j \in 1..L : kept[n][k] = list[j]
      <4>1. CASE k = Len(old) + 1
        <5>1. kept[n][k] = list[n]
          BY <2>3, <3>1, <4>1
        <5> QED
          BY <2>1, <5>1
      <4>2. CASE k # Len(old) + 1
        <5>1. k \in 1..Len(old)
          BY <3>2, <4>2
        <5>2. kept[n][k] = old[k]
          BY <2>3, <3>1, <5>1
        <5> QED
          BY <2>2, <5>1, <5>2
      <4> QED
        BY <4>1, <4>2
    <3> DEFINE put == PutIdentities(old)
    <3>4. PutIdentities(kept[n]) = put \o one /\ put \in Seq(Byte)
      BY <2>3, <3>1, PutIdentitiesAppend, PutIdentitiesType DEF one
    <3>5. Len(put) <= Size(m)
      BY <2>2
    <3> HIDE DEF put
    <3>6. Len(put \o one) = Len(put) + Len(one) /\ Len(put) \in Nat
      BY <2>6, <3>4, ConcatParts
    <3>7. Len(PutIdentities(kept[n])) <= Size(n)
      BY <2>5, <2>7, <3>4, <3>5, <3>6
    <3>8. Len(kept[n]) <= n
      BY <2>1, <2>2, <3>2
    <3> QED
      BY <3>2, <3>3, <3>7, <3>8
  <2> QED
    BY <2>8, <2>9
<1>7. T \subseteq Nat
  OBVIOUS
<1> HIDE DEF T, Part
<1>8. T = Nat
  BY <1>5, <1>6, <1>7, SetInduction
<1>9. Part(L)
  BY <1>1, <1>8 DEF T
<1>10. First(L) = list
  BY DEF First
<1> HIDE DEF L
<1> QED
  BY <1>2, <1>9, <1>10 DEF Part, Size, L

(* A frame: its length, and behind it the message. *)
LEMMA EncodeParts ==
    ASSUME NEW msg, msg.type \in KnownTypes, msg.payload \in Seq(Byte),
           Len(msg.payload) + 1 < Power[Width],
           NEW frame, frame = Encode(msg), NEW body, body = From(frame, Width + 1)
    PROVE  /\ body \in Seq(Byte) /\ Len(body) = Len(msg.payload) + 1
           /\ Value(frame) = Len(body)
           /\ Decode(body) = [type |-> msg.type, payload |-> msg.payload]
<1> DEFINE W == Width
           p == msg.payload
           t == <<msg.type>>
           N == 1 + Len(p)
           field == Field(N)
           tp == t \o p
<1>1. p \in Seq(Byte) /\ t \in Seq(Byte) /\ Len(t) = 1 /\ Len(p) \in Nat /\ N \in Nat /\ N < Power[W]
  <2>1. msg.type \in Byte
    BY WireAssumption
  <2> QED
    BY <2>1
<1>2. field \in Seq(Byte) /\ Len(field) = W
  BY <1>1, FieldType
<1> HIDE DEF field
<1>3. tp \in Seq(Byte) /\ Len(tp) = N /\ Head(tp) = msg.type /\ Tail(tp) = p
  <2>1. tp \in Seq(Byte) /\ Len(tp) = N
    BY <1>1
  <2>2. Head(tp) = msg.type
    BY <1>1
  <2>3. Tail(tp) = p
    <3>1. Tail(tp) \in Seq(Byte) /\ Len(Tail(tp)) = Len(p)
      BY <1>1, <2>1
    <3>2. ASSUME NEW k \in 1..Len(Tail(tp)) PROVE Tail(tp)[k] = p[k]
      <4>1. Tail(tp)[k] = tp[k + 1]
        BY <1>1, <2>1
      <4>2. tp[k + 1] = p[k]
        BY <1>1, <3>1
      <4> QED
        BY <4>1, <4>2
    <3> QED
      BY <1>1, <3>1, <3>2, SameElements
  <2> QED
    BY <2>1, <2>2, <2>3
<1>4. frame = field \o tp
  <2> DEFINE m == msg.payload
             y == <<msg.type>>
  <2>1. Encode(msg) = (field \o y) \o m
    BY DEF Encode, field
  <2>2. y \in Seq(Byte) /\ m \in Seq(Byte) /\ tp = y \o m
    BY <1>1
  <2> HIDE DEF y, m, tp
  <2>3. (field \o y) \o m = field \o (y \o m)
    BY ONLY <1>2, <2>2, BytesAssociate, Zenon
  <2> QED
    BY <2>1, <2>2, <2>3
<1> HIDE DEF tp
<1>5. body = tp
  <2>1. SubSeq(field \o tp, Len(field) + 1, Len(field \o tp)) = tp
    BY <1>2, <1>3, RestOfConcat
  <2> QED
    BY <1>2, <1>4, <2>1 DEF From
<1>6. \A i \in 1..W : frame[i] = field[i]
  BY <1>2, <1>3, <1>4, ConcatParts
<1>7. Value(frame) = N
  BY <1>1, <1>6, ValueOfField DEF field
<1>8. AsType(msg.type) = msg.type
  BY DEF AsType
<1> QED
  <2>1. Decode(body) = [type |-> AsType(Head(tp)), payload |-> Tail(tp)]
    BY <1>5 DEF Decode
  <2>2. Decode(body) = [type |-> msg.type, payload |-> p]
    BY <1>3, <1>8, <2>1, Zenon
  <2>3. body \in Seq(Byte) /\ Len(body) = Len(p) + 1 /\ Value(frame) = Len(body)
    <3> HIDE DEF p
    <3> QED
      BY <1>1, <1>3, <1>5, <1>7
  <2> QED
    BY <2>2, <2>3

(* What has been read was not too long. *)
LEMMA MessageIsShort ==
    ASSUME TypeOK, DeliveredAsSent, NEW i \in 1..Len(got)
    PROVE  Len(got[i].payload) + 1 <= MaxMessage
<1>1. i \in 1..Len(sent) /\ WellFormed(sent[i]) /\ got[i] = Decode(sent[i])
  BY DEF TypeOK, DeliveredAsSent
<1>2. sent[i] \in Seq(Byte)
  BY <1>1 DEF TypeOK
<1> DEFINE s == sent[i]
<1> HIDE DEF s
<1>3. s \in Seq(Byte) /\ Len(s) \in 1..MaxMessage
  BY <1>1, <1>2, WireAssumption DEF WellFormed, s
<1>4. Len(Tail(s)) + 1 = Len(s)
  BY <1>3
<1> QED
  BY <1>1, <1>3, <1>4, WireAssumption DEF Decode, s

(* Whatever the filter keeps of an answer, the client reads it as this      *)
(* list, unless a comment that was not UTF-8 has become too long.          *)
THEOREM RebuiltAnswersReadBack == Spec => []RebuiltReadsBack
<1>1. TypeOK /\ DeliveredAsSent => RebuiltReadsBack
  <2> DEFINE msg == Latest
             list == ParseIdentities(msg)
  <2> SUFFICES ASSUME TypeOK, DeliveredAsSent, got # << >>, list # Error,
                      NEW allowed, NEW kept, kept = Kept(list, allowed),
                      NEW frame, frame = Encode(Build(kept)),
                      NEW body, body = From(frame, Width + 1)
               PROVE  /\ Value(frame) = Len(body)
                      /\ Readable(kept) => ParseIdentities(Decode(body)) = kept
                      /\ Clean(msg) => WellFormed(body) /\ Readable(kept)
    BY DEF RebuiltReadsBack
  <2> DEFINE N == Len(msg.payload)
             W == Width
             put == PutIdentities(list)
             some == PutIdentities(kept)
             built == Build(kept)
             field == Field(Len(kept))
  <2>1. Len(got) \in 1..Len(got)
    BY DEF TypeOK
  <2>2. msg.payload \in Seq(Byte) /\ N + 1 <= MaxMessage /\ N \in Nat
    BY <2>1, MessageType, MessageIsShort DEF Latest
  <2> HIDE DEF msg
  <2>3. /\ list \in Seq(Identity) /\ Limited(list) /\ Len(list) <= MaxIdentities
        /\ N >= W /\ Len(put) <= 3 * (N - W)
    BY <2>2, ParsedList
  <2>4. ASSUME Clean(msg) PROVE Short(list) /\ Len(put) <= N - W
    <3>1. msg.payload \in Seq(Utf8)
      BY <2>2, <2>4, CleanIsUtf8
    <3>2. /\ Short(list)
          /\ \E rest \in Seq(Byte) : msg.payload = (Field(Len(list)) \o put) \o rest
      BY <2>2, <3>1, ParsedList
    <3>3. PICK rest \in Seq(Byte) : msg.payload = (Field(Len(list)) \o put) \o rest
      BY <3>2
    <3> DEFINE f == Field(Len(list))
    <3>4. put \in Seq(Byte) /\ f \in Seq(Byte) /\ Len(f) = W
      <4>1. Len(list) \in Nat
        BY <2>3
      <4> QED
        BY <2>3, <4>1, PutIdentitiesType, FieldType
    <3> HIDE DEF f, put, W
    <3> DEFINE fp == f \o put
    <3>5. fp \in Seq(Byte) /\ Len(fp) = Len(f) + Len(put) /\ Len(put) \in Nat
      <4>1. fp \in Seq(Byte) /\ Len(fp) = Len(f) + Len(put)
        BY <3>4, ConcatParts
      <4> QED
        BY <3>4, <4>1
    <3> HIDE DEF fp
    <3>6. N = Len(fp) + Len(rest) /\ Len(rest) \in Nat
      BY <3>3, <3>5, ConcatParts DEF fp, f
    <3>7. W \in Nat
      BY BaseAndWidth DEF W
    <3>8. Len(put) <= N - W
      BY <3>4, <3>5, <3>6, <3>7
    <3> QED
      BY <3>2, <3>8
  <2> HIDE DEF list
  <2>5. /\ kept \in Seq(Identity) /\ Len(kept) <= Len(list)
        /\ \A k \in 1..Len(kept) : \E j \in 1..Len(list) : kept[k] = list[j]
        /\ Len(some) <= Len(put)
    <3>1. kept \in Seq(Identity) /\ Len(kept) <= Len(list)
      BY <2>3, KeptIsPart
    <3>2. \A k \in 1..Len(kept) : \E j \in 1..Len(list) : kept[k] = list[j]
      BY <2>3, KeptIsPart
    <3>3. Len(some) <= Len(put)
      BY <2>3, KeptIsPart
    <3> QED
      BY <3>1, <3>2, <3>3
  <2>6. Limited(kept) /\ (Short(list) => Short(kept))
    BY <2>3, <2>5 DEF Limited, Short
  <2>7. Readable(kept) <=> Short(kept)
    BY <2>5 DEF Readable, Short, ToSet
  <2>8. Len(kept) \in Nat /\ Len(kept) <= MaxIdentities
    <3>1. Len(kept) \in Nat /\ Len(list) \in Nat
      BY <2>3, <2>5
    <3> QED
      BY <2>3, <2>5, <3>1, WireAssumption
  <2>9. /\ some \in Seq(Byte) /\ field \in Seq(Byte) /\ Len(field) = W
    BY <2>5, <2>8, PutIdentitiesType, FieldType
  <2>10. built.type = AnswerType /\ built.payload = field \o some
    BY DEF Build
  <2> HIDE DEF some, field
  <2>11. /\ field \o some \in Seq(Byte) /\ Len(field \o some) = W + Len(some)
         /\ Len(some) \in Nat
    <3>1. field \o some \in Seq(Byte) /\ Len(field \o some) = Len(field) + Len(some)
      BY <2>9, ConcatParts
    <3> QED
      BY <2>9, <3>1
  <2>12. Len(put) \in Nat
    <3>1. put \in Seq(Byte)
      BY <2>3, PutIdentitiesType
    <3> HIDE DEF put
    <3> QED
      BY <3>1
  <2>13. /\ W \in Nat \ {0} /\ MaxMessage \in Nat /\ 4 * MaxMessage < Power[W] /\ Power[W] \in Nat
    BY BaseAndWidth, WireAssumption, PowerIsPositive
  <2> DEFINE l == Len(put)
             s == Len(some)
             q == Power[W]
  <2>14. (W + s) + 1 < q
    <3>1. /\ l \in Nat /\ s \in Nat /\ N \in Nat /\ W \in Nat \ {0} /\ q \in Nat
          /\ s <= l /\ l <= 3 * (N - W) /\ N >= W /\ N + 1 <= MaxMessage /\ 4 * MaxMessage < q
          /\ MaxMessage \in Nat
      BY <2>2, <2>3, <2>5, <2>11, <2>12, <2>13
    <3> HIDE DEF l, s, N, W, q
    <3> QED
      BY ONLY <3>1
  <2>15. /\ body \in Seq(Byte) /\ Len(body) = (W + s) + 1 /\ Value(frame) = Len(body)
         /\ Decode(body) = [type |-> built.type, payload |-> built.payload]
    <3>1. built.type \in KnownTypes /\ built.payload \in Seq(Byte) /\ Len(built.payload) = W + s
      BY <2>10, <2>11, WireAssumption
    <3> HIDE DEF built, W, s
    <3>2. frame = Encode(built)
      BY DEF built
    <3>3. Len(built.payload) + 1 < Power[Width]
      BY <2>14, <3>1 DEF W
    <3> QED
      BY <3>1, <3>2, <3>3, EncodeParts
  <2>16. [type |-> built.type, payload |-> built.payload] = built
    BY DEF Build
  <2>17. ASSUME Short(kept) PROVE ParseIdentities(Decode(body)) = kept
    BY <2>5, <2>6, <2>8, <2>15, <2>16, <2>17, BuildIsParsed
  <2>18. ASSUME Clean(msg) PROVE WellFormed(body) /\ Short(kept)
    <3>1. Short(kept)
      BY <2>4, <2>6, <2>18
    <3>2. /\ l \in Nat /\ s \in Nat /\ N \in Nat /\ W \in Nat /\ MaxMessage \in Nat
          /\ s <= l /\ l <= N - W /\ N + 1 <= MaxMessage
      BY <2>2, <2>4, <2>5, <2>11, <2>12, <2>13, <2>18
    <3> HIDE DEF l, s, N, W
    <3>3. (W + s) + 1 \in 1..MaxMessage
      BY ONLY <3>2
    <3> QED
      BY <2>15, <3>1, <3>3 DEF WellFormed
  <2> QED
    BY <2>7, <2>15, <2>17, <2>18
<1> QED
  BY <1>1, TypeCorrect, Delivered, PTL
=============================================================================
