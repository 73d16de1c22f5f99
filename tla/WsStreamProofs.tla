--------------------------- MODULE WsStreamProofs ---------------------------
(* What one direction of a connection delivers, for every size of frames and *)
(* messages, every number of them and every order of reads and writes.       *)
EXTENDS WsStream, SequenceTheorems, WellFoundedInduction, TLAPS

---------------------------------------------------------------------------
(* Bytes and frames *)

AnyByte == [message : Nat, at : Nat, xor : SUBSET (Nat \X Nat)]

\* A frame as one of the two ends writes it.
Frame == {MakeFrame(op, fin, key, body) :
              op \in Opcode, fin \in BOOLEAN, key \in Nat, body \in Seq(AnyByte)}

\* A slice of a message is a sequence of as many bytes as were asked for.
LEMMA BytesType ==
    ASSUME NEW m \in Nat, NEW at \in Nat, NEW n \in Nat
    PROVE  /\ Bytes(m, at, n) \in Seq(AnyByte)
           /\ Len(Bytes(m, at, n)) = n
           /\ DOMAIN Bytes(m, at, n) = 1..n
           /\ \A i \in 1..n : Bytes(m, at, n)[i] = Byte(m, at + i)
  <1>1. \A i \in 1..n : Byte(m, at + i) \in AnyByte
    BY DEF Byte, AnyByte
  <1>2. DOMAIN Bytes(m, at, n) = 1..n
    BY DEF Bytes
  <1>3. \A i \in 1..n : Bytes(m, at, n)[i] = Byte(m, at + i)
    BY DEF Bytes
  <1>4. Bytes(m, at, n) \in [1..n -> AnyByte]
    BY <1>1 DEF Bytes
  <1>5. Bytes(m, at, n) \in Seq(AnyByte)
    BY <1>4, SeqDef
  <1>6. Len(Bytes(m, at, n)) = n
    BY <1>2, <1>5, LenProperties
  <1> QED
    BY <1>2, <1>3, <1>5, <1>6

\* Two slices that meet are one.
LEMMA BytesMeet ==
    ASSUME NEW m \in Nat, NEW at \in Nat, NEW n \in Nat
    PROVE  Bytes(m, 0, at) \o Bytes(m, at, n) = Bytes(m, 0, at + n)
  <1> DEFINE s == Bytes(m, 0, at)
             t == Bytes(m, at, n)
             u == Bytes(m, 0, at + n)
  <1>1. /\ s \in Seq(AnyByte) /\ Len(s) = at
        /\ \A i \in 1..at : s[i] = Byte(m, 0 + i)
    BY BytesType
  <1>2. /\ t \in Seq(AnyByte) /\ Len(t) = n
        /\ \A i \in 1..n : t[i] = Byte(m, at + i)
    BY BytesType
  <1>3. /\ u \in Seq(AnyByte) /\ Len(u) = at + n
        /\ \A i \in 1..(at + n) : u[i] = Byte(m, 0 + i)
    BY at + n \in Nat, BytesType
  <1> HIDE DEF s, t, u
  <1>4. /\ s \o t \in Seq(AnyByte) /\ Len(s \o t) = at + n
        /\ \A i \in 1..(at + n) : (s \o t)[i] = IF i <= at THEN s[i] ELSE t[i - at]
    BY <1>1, <1>2, ConcatProperties
  <1>5. ASSUME NEW i \in 1..(at + n)
        PROVE  (s \o t)[i] = u[i]
    <2>1. CASE i <= at
      BY <1>1, <1>3, <1>4, <2>1
    <2>2. CASE ~(i <= at)
      <3>1. i - at \in 1..n /\ at + (i - at) = 0 + i
        BY <2>2
      <3> QED
        BY <1>2, <1>3, <1>4, <2>2, <3>1
    <2> QED
      BY <2>1, <2>2
  <1>6. s \o t = u
    BY <1>3, <1>4, <1>5, SeqEqual
  <1> QED
    BY <1>6 DEF s, t, u

LEMMA NoBytes ==
    ASSUME NEW m, NEW at
    PROVE  Bytes(m, at, 0) = <<>>
  BY DEF Bytes

\* A key byte that is applied twice leaves the byte as it was.
LEMMA ToggleTwice ==
    ASSUME NEW m \in Nat, NEW i \in Nat, NEW k \in Nat, NEW j \in Nat
    PROVE  /\ Toggle(Byte(m, i), k, j) \in AnyByte
           /\ Toggle(Toggle(Byte(m, i), k, j), k, j) = Byte(m, i)
  <1>1. Toggle(Byte(m, i), k, j) = [message |-> m, at |-> i, xor |-> {<<k, j>>}]
    BY DEF Toggle, Byte
  <1>2. {<<k, j>>} \ {<<k, j>>} = {}
    OBVIOUS
  <1>3. Toggle([message |-> m, at |-> i, xor |-> {<<k, j>>}], k, j)
            = [message |-> m, at |-> i, xor |-> {}]
    BY <1>2 DEF Toggle
  <1> QED
    BY <1>1, <1>3 DEF Byte, AnyByte

\* The mask is taken off again by the key that put it on.
LEMMA MaskTwice ==
    ASSUME NEW m \in Nat, NEW at \in Nat, NEW n \in Nat, NEW k \in Nat
    PROVE  LET s == Bytes(m, at, n)
           IN  /\ ApplyMask(s, n, k) \in Seq(AnyByte)
               /\ Len(ApplyMask(s, n, k)) = n
               /\ ApplyMask(ApplyMask(s, n, k), n, k) = s
  <1> DEFINE s == Bytes(m, at, n)
             t == ApplyMask(s, n, k)
  <1>1. /\ s \in Seq(AnyByte) /\ Len(s) = n
        /\ \A i \in 1..n : s[i] = Byte(m, at + i)
        /\ DOMAIN s = 1..n
    BY BytesType
  <1>2. CASE k = 0
    BY <1>1, <1>2 DEF ApplyMask
  <1>3. CASE k # 0
    <2> DEFINE e(i) == Toggle(s[i], k, (i - 1) % KeyLength)
    <2> HIDE DEF s
    <2>1. \A i \in 1..n : /\ i - 1 \in Nat /\ (i - 1) % KeyLength \in Nat
                          /\ at + i \in Nat /\ i <= n
      BY <1>1 DEF KeyLength
    <2>2. \A i \in 1..n : /\ e(i) \in AnyByte
                          /\ Toggle(e(i), k, (i - 1) % KeyLength) = s[i]
      BY <1>1, <2>1, ToggleTwice
    <2>3. t = [i \in 1..n |-> e(i)]
      BY <1>1, <1>3, <2>1 DEF ApplyMask
    <2> HIDE DEF e
    <2>4. t \in [1..n -> AnyByte]
      BY <2>2, <2>3
    <2>5. DOMAIN t = 1..n /\ t \in Seq(AnyByte)
      BY <1>1, <2>3, <2>4, SeqDef
    <2>6. Len(t) = n
      BY <1>1, <2>5, LenProperties
    <2>7. ApplyMask(t, n, k) = [i \in 1..n |-> Toggle(t[i], k, (i - 1) % KeyLength)]
      BY <1>3, <2>1, <2>5 DEF ApplyMask
    <2>8. \A i \in 1..n : Toggle(t[i], k, (i - 1) % KeyLength) = s[i]
      BY <2>2, <2>3
    <2>9. ApplyMask(t, n, k) = [i \in 1..n |-> s[i]]
      BY <2>7, <2>8
    <2>10. s = [i \in 1..n |-> s[i]]
      BY <1>1
    <2> QED
      BY <2>5, <2>6, <2>9, <2>10 DEF s
  <1> QED
    BY <1>2, <1>3

---------------------------------------------------------------------------
(* Lengths *)

\* A set of numbers that is not empty has a least one.
LEMMA LeastElement ==
    ASSUME NEW T, T \subseteq Nat, T # {}
    PROVE  \E x \in T : \A y \in T : ~ (y < x)
  <1>1. \E x \in T : \A y \in T : <<y, x>> \notin OpToRel(<, Nat)
    BY NatLessThanWellFounded, WFMin, Zenon
  <1> QED BY <1>1 DEF OpToRel

\* Induction over the numbers, for sets.
LEMMA EveryNat ==
    ASSUME NEW T, 0 \in T, \A n \in Nat : n \in T => n + 1 \in T
    PROVE  Nat \subseteq T
  <1> SUFFICES ASSUME Nat \ T # {} PROVE FALSE
    OBVIOUS
  <1>1. PICK x \in Nat \ T : \A y \in Nat \ T : ~ (y < x)
    BY LeastElement
  <1>2. x # 0 /\ x - 1 \in Nat
    BY SMT
  <1>3. x - 1 \in T
    BY <1>1, <1>2, SMT
  <1>4. x \in T
    BY <1>3, <1>2, SMT
  <1> QED BY <1>4

LEMMA Bytewise ==
    ASSUME NEW n \in Nat
    PROVE  /\ n \div ByteValues \in Nat /\ n % ByteValues \in Nat
           /\ n = (n \div ByteValues) * ByteValues + (n % ByteValues)
           /\ \A c \in Nat : n < c * ByteValues => n \div ByteValues < c
  <1>1. ByteValues \in Nat /\ ByteValues > 0
    BY ReaderAssumption
  <1>2. n \div ByteValues \in Nat /\ n % ByteValues \in Nat
    BY <1>1
  <1>3. n = (n \div ByteValues) * ByteValues + (n % ByteValues)
    BY <1>1, SMTT(30)
  <1>4. ASSUME NEW c \in Nat, n < c * ByteValues
        PROVE  n \div ByteValues < c
    <2> DEFINE q == n \div ByteValues
    <2>1. q \in Nat /\ q * ByteValues =< n
      BY <1>2, <1>3, <1>1
    <2> HIDE DEF q
    <2>2. ~ (q >= c)
      BY <1>1, <1>4, <2>1, SMTT(30)
    <2> QED
      BY <2>1, <2>2 DEF q
  <1> QED
    BY <1>2, <1>3, <1>4

\* The function in the definition of encoded_length, up to m.
ShiftsTo(f, n, m) == f = [k \in 0..m |-> IF k = 0 THEN n ELSE f[k - 1] \div ByteValues]
Shifts(f, n) == ShiftsTo(f, n, 8)

LEMMA ShiftsExist ==
    ASSUME NEW n
    PROVE  \E f : Shifts(f, n)
  <1> DEFINE T == {m \in Nat : \E f : ShiftsTo(f, n, m)}
  <1>1. 0 \in T
    <2> DEFINE f == [k \in 0..0 |-> n]
    <2>1. ShiftsTo(f, n, 0)
      BY SMT DEF ShiftsTo
    <2> QED
      BY <2>1
  <1>2. ASSUME NEW m \in Nat, m \in T PROVE m + 1 \in T
    <2>1. PICK f : ShiftsTo(f, n, m)
      BY <1>2
    <2> DEFINE last == f[m] \div ByteValues
               h == [k \in 0..(m + 1) |-> IF k = m + 1 THEN last ELSE f[k]]
    <2>2. \A k \in 0..m : f[k] = IF k = 0 THEN n ELSE f[k - 1] \div ByteValues
      BY <2>1, Zenon DEF ShiftsTo
    <2>3. \A k \in 0..(m + 1) : h[k] = IF k = 0 THEN n ELSE h[k - 1] \div ByteValues
      BY <2>2, SMT
    <2>4. ShiftsTo(h, n, m + 1)
      BY <2>3, SMT DEF ShiftsTo
    <2> QED
      BY <2>4
  <1>3. Nat \subseteq T
    BY <1>1, <1>2, EveryNat
  <1> QED
    BY <1>3 DEF Shifts

LEMMA ShiftsType ==
    ASSUME NEW n \in Nat, NEW f, Shifts(f, n)
    PROVE  /\ \A k \in 0..8 : f[k] \in Nat
           /\ f[0] = n
           /\ \A k \in 1..8 : f[k] = f[k - 1] \div ByteValues
  <1>1. \A k \in 0..8 : f[k] = IF k = 0 THEN n ELSE f[k - 1] \div ByteValues
    BY Zenon DEF Shifts, ShiftsTo
  <1>2. f[0] = n
    BY <1>1
  <1>3. \A k \in 1..8 : f[k] = f[k - 1] \div ByteValues
    BY <1>1
  <1> DEFINE T == {k \in Nat : k \in 0..8 => f[k] \in Nat}
  <1>4. 0 \in T
    BY <1>2
  <1>5. ASSUME NEW k \in Nat, k \in T PROVE k + 1 \in T
    <2>1. CASE k + 1 \in 0..8
      <3>1. k \in 0..8 /\ k + 1 \in 1..8 /\ (k + 1) - 1 = k
        BY <2>1
      <3>2. f[k] \in Nat /\ f[k + 1] = f[k] \div ByteValues
        BY <1>3, <1>5, <3>1
      <3> HIDE DEF T
      <3>3. f[k + 1] \in Nat
        BY <3>2, Bytewise
      <3> QED
        BY <3>3 DEF T
    <2> QED
      BY <2>1
  <1>6. Nat \subseteq T
    <2> HIDE DEF T
    <2> QED
      BY <1>4, <1>5, EveryNat
  <1> QED
    BY <1>2, <1>3, <1>6

EightBytes == TwoBytes * TwoBytes * TwoBytes * TwoBytes

\* Nothing is left of a length behind as many bytes as it has.
LEMMA ShiftedOut ==
    ASSUME NEW n \in Nat, NEW f, Shifts(f, n)
    PROVE  /\ n < TwoBytes => f[2] = 0
           /\ n < EightBytes => f[8] = 0
  <1> DEFINE b  == ByteValues
             c2 == b * b
             c3 == c2 * b
             c4 == c3 * b
             c5 == c4 * b
             c6 == c5 * b
             c7 == c6 * b
             c8 == c7 * b
  <1>1. b \in Nat
    BY ReaderAssumption
  <1>2. /\ \A k \in 0..8 : f[k] \in Nat
        /\ f[0] = n
        /\ \A k \in 1..8 : f[k] = f[k - 1] \div b
    BY ShiftsType
  <1>3. /\ f[1] = f[0] \div b /\ f[2] = f[1] \div b /\ f[3] = f[2] \div b
        /\ f[4] = f[3] \div b /\ f[5] = f[4] \div b /\ f[6] = f[5] \div b
        /\ f[7] = f[6] \div b /\ f[8] = f[7] \div b
    BY <1>2
  <1>4. ASSUME NEW k \in 1..8, NEW c \in Nat, f[k - 1] < c * b
        PROVE  f[k] < c
    <2>1. k - 1 \in 0..8 /\ f[k] = f[k - 1] \div ByteValues
      BY <1>2
    <2>2. f[k - 1] \in Nat
      BY <1>2, <2>1
    <2> QED
      BY <1>4, <2>1, <2>2, Bytewise
  <1>5. /\ c2 \in Nat /\ c3 \in Nat /\ c4 \in Nat /\ c5 \in Nat
        /\ c6 \in Nat /\ c7 \in Nat /\ c8 \in Nat
    BY <1>1
  <1>6. TwoBytes = c2 /\ b = 1 * b
    BY <1>1 DEF TwoBytes
  <1>7. EightBytes = c8
    <2>1. c4 = c2 * c2
      BY <1>1
    <2>2. c6 = c4 * c2
      BY <1>1, <1>5
    <2>3. c8 = c6 * c2
      BY <1>1, <1>5
    <2> HIDE DEF c2, c4, c6, c8
    <2> QED
      BY <1>6, <2>1, <2>2, <2>3 DEF EightBytes
  <1>8. ASSUME n < TwoBytes PROVE f[2] = 0
    <2>1. f[0] < c2
      BY <1>2, <1>6, <1>8
    <2>2. f[1] < b
      BY <1>1, <1>4, <2>1
    <2>3. f[2] < 1
      BY <1>1, <1>4, <1>6, <2>2
    <2> QED
      BY <1>2, <2>3
  <1>9. ASSUME n < EightBytes PROVE f[8] = 0
    <2>1. f[0] < c8
      BY <1>2, <1>7, <1>9
    <2> HIDE DEF c2, c3, c4, c5, c6, c7
    <2>2. f[1] < c7
      BY <1>4, <1>5, <2>1
    <2>3. f[2] < c6
      BY <1>4, <1>5, <2>2 DEF c7
    <2>4. f[3] < c5
      BY <1>4, <1>5, <2>3 DEF c6
    <2>5. f[4] < c4
      BY <1>4, <1>5, <2>4 DEF c5
    <2>6. f[5] < c3
      BY <1>4, <1>5, <2>5 DEF c4
    <2>7. f[6] < c2
      BY <1>4, <1>5, <2>6 DEF c3
    <2>8. f[7] < b
      BY <1>1, <1>4, <2>7 DEF c2
    <2>9. f[8] < 1
      BY <1>4, <1>6, <2>8
    <2> QED
      BY <1>2, <2>9
  <1> QED
    BY <1>8, <1>9

\* The function in the definition of get_payload_length.
Values(g, extended, n) ==
    g = [i \in 0..n |-> IF i = 0 THEN 0 ELSE g[i - 1] * ByteValues + extended[i]]

LEMMA ValuesExist ==
    ASSUME NEW extended
    PROVE  \A n \in Nat : \E g : Values(g, extended, n)
  <1> DEFINE T == {n \in Nat : \E g : Values(g, extended, n)}
  <1>1. 0 \in T
    <2> DEFINE g == [i \in 0..0 |-> 0]
    <2>1. Values(g, extended, 0)
      BY SMT DEF Values
    <2> QED
      BY <2>1
  <1>2. ASSUME NEW n \in Nat, n \in T PROVE n + 1 \in T
    <2>1. PICK g : Values(g, extended, n)
      BY <1>2
    <2> DEFINE last == g[n] * ByteValues + extended[n + 1]
               h == [i \in 0..(n + 1) |-> IF i = n + 1 THEN last ELSE g[i]]
    <2>2. \A i \in 0..n : g[i] = IF i = 0 THEN 0 ELSE g[i - 1] * ByteValues + extended[i]
      BY <2>1, Zenon DEF Values
    <2>3. \A i \in 0..(n + 1) :
             h[i] = IF i = 0 THEN 0 ELSE h[i - 1] * ByteValues + extended[i]
      BY <2>2, SMT
    <2>4. Values(h, extended, n + 1)
      BY <2>3, SMT DEF Values
    <2> QED
      BY <2>4
  <1> QED
    BY <1>1, <1>2, EveryNat

\* What the bytes stand for that a length is shifted out to is that length.
LEMMA BytesStandForLength ==
    ASSUME NEW n \in Nat, NEW f, Shifts(f, n),
           NEW width \in 1..8, f[width] = 0,
           NEW extended, \A i \in 1..width : extended[i] = f[width - i] % ByteValues,
           NEW g, Values(g, extended, width)
    PROVE  g[width] = n
  <1>1. /\ \A k \in 0..8 : f[k] \in Nat
        /\ f[0] = n
        /\ \A k \in 1..8 : f[k] = f[k - 1] \div ByteValues
    BY ShiftsType
  <1>2. \A i \in 0..width : g[i] = IF i = 0 THEN 0 ELSE g[i - 1] * ByteValues + extended[i]
    BY Zenon DEF Values
  <1> DEFINE T == {i \in Nat : i \in 0..width => g[i] = f[width - i]}
  <1>3. 0 \in T
    BY <1>2
  <1>4. ASSUME NEW i \in Nat, i \in T PROVE i + 1 \in T
    <2>1. CASE i + 1 \in 0..width
      <3> DEFINE j == width - (i + 1)
      <3>1. /\ i \in 0..width /\ i + 1 \in 1..width /\ (i + 1) - 1 = i /\ i + 1 # 0
            /\ j \in 0..8 /\ width - i = j + 1 /\ j + 1 \in 1..8 /\ (j + 1) - 1 = j
        BY <2>1
      <3>2. g[i + 1] = g[i] * ByteValues + extended[i + 1]
        <4>1. g[i + 1] = IF i + 1 = 0 THEN 0
                         ELSE g[(i + 1) - 1] * ByteValues + extended[i + 1]
          BY <1>2, <2>1
        <4> QED
          BY <3>1, <4>1, Zenon
      <3>3. extended[i + 1] = f[j] % ByteValues
        BY <3>1
      <3>4. g[i] = f[j + 1]
        BY <1>4, <3>1
      <3> HIDE DEF j
      <3>5. f[j] \in Nat /\ f[j + 1] = f[j] \div ByteValues
        BY <1>1, <3>1
      <3> HIDE DEF T
      <3>6. f[j] = (f[j] \div ByteValues) * ByteValues + (f[j] % ByteValues)
        BY <3>5, Bytewise
      <3>7. g[i + 1] = f[j]
        BY <3>2, <3>3, <3>4, <3>5, <3>6, Zenon
      <3> QED
        BY <3>7, <3>1 DEF T, j
    <2> QED
      BY <2>1
  <1>5. Nat \subseteq T
    <2> HIDE DEF T
    <2> QED
      BY <1>3, <1>4, EveryNat
  <1>6. g[width] = f[width - width]
    BY <1>5
  <1> QED
    BY <1>1, <1>6

\* Of the model's operators this is so for any length that eight bytes can hold.
LEMMA LengthIsUnderstood ==
    ASSUME NEW n \in Nat, n < EightBytes
    PROVE  get_payload_length(encoded_length(n)) = n
  <1> DEFINE f == CHOOSE h : Shifts(h, n)
             Extended(width) == [i \in 1..width |-> f[width - i] % ByteValues]
             length == encoded_length(n)
  <1>1. Shifts(f, n)
    BY ShiftsExist
  <1>2. length = IF n < ShortLengths THEN [code |-> n, extended |-> <<>>]
                 ELSE IF n < TwoBytes THEN [code |-> ShortLengths, extended |-> Extended(2)]
                 ELSE [code |-> ShortLengths + 1, extended |-> Extended(8)]
    BY Zenon DEF encoded_length, Shifts, ShiftsTo
  <1> HIDE DEF f, length
  <1>3. ASSUME NEW width \in 1..8, NEW code \in Nat, code >= ShortLengths, f[width] = 0,
               length = [code |-> code, extended |-> Extended(width)]
        PROVE  get_payload_length(length) = n
    <2> DEFINE e == Extended(width)
               g == CHOOSE h : Values(h, e, width)
    <2>1. e \in Seq(Nat) /\ Len(e) = width
      <3>1. \A i \in 1..width : f[width - i] % ByteValues \in Nat
        <4>1. \A i \in 1..width : f[width - i] \in Nat
          BY <1>1, ShiftsType
        <4> QED
          BY <4>1, Bytewise
      <3>2. e \in [1..width -> Nat] /\ DOMAIN e = 1..width
        BY <3>1
      <3> HIDE DEF e
      <3>3. e \in Seq(Nat)
        BY <3>2
      <3> QED
        BY <3>2, <3>3
    <2>2. length.code = code /\ length.extended = e /\ ~ (length.code < ShortLengths)
      BY <1>3, ReaderAssumption
    <2>3. get_payload_length(length) = (CHOOSE h : Values(h, e, Len(e)))[Len(e)]
      <3> HIDE DEF e
      <3> QED
        BY <2>2, Zenon DEF get_payload_length, Values
    <2>4. get_payload_length(length) = g[width]
      <3> HIDE DEF e
      <3> QED
        BY <2>1, <2>3
    <2>5. Values(g, e, width)
      <3> HIDE DEF e
      <3>1. width \in Nat
        OBVIOUS
      <3> QED
        BY <3>1, ValuesExist
    <2> HIDE DEF g
    <2>6. g[width] = n
      <3>1. \A i \in 1..width : e[i] = f[width - i] % ByteValues
        OBVIOUS
      <3> HIDE DEF e, Extended
      <3>2. Values(g, e, width)
        BY <2>5
      <3>3. Shifts(f, n) /\ f[width] = 0
        BY <1>1, <1>3
      <3> QED
        BY <3>1, <3>2, <3>3, BytesStandForLength
    <2> QED
      BY <2>4, <2>6
  <1>4. CASE n < ShortLengths
    <2>1. length.code = n
      BY <1>2, <1>4
    <2>2. get_payload_length(length) = n
      BY <1>4, <2>1, Zenon DEF get_payload_length
    <2> QED
      BY <2>2 DEF length
  <1>5. CASE ~ (n < ShortLengths) /\ n < TwoBytes
    <2>1. f[2] = 0
      BY <1>1, <1>5, ShiftedOut
    <2>2. length = [code |-> ShortLengths, extended |-> Extended(2)]
      BY <1>2, <1>5
    <2>3. ShortLengths \in Nat /\ ShortLengths >= ShortLengths /\ 2 \in 1..8
      BY ReaderAssumption
    <2> HIDE DEF Extended
    <2>4. get_payload_length(length) = n
      BY <1>3, <2>1, <2>2, <2>3
    <2> QED
      BY <2>4 DEF length
  <1>6. CASE ~ (n < ShortLengths) /\ ~ (n < TwoBytes)
    <2>1. f[8] = 0
      BY <1>1, ShiftedOut
    <2>2. length = [code |-> ShortLengths + 1, extended |-> Extended(8)]
      BY <1>2, <1>6
    <2>3. ShortLengths + 1 \in Nat /\ ShortLengths + 1 >= ShortLengths /\ 8 \in 1..8
      BY ReaderAssumption
    <2> HIDE DEF Extended
    <2>4. get_payload_length(length) = n
      BY <1>3, <2>1, <2>2, <2>3
    <2> QED
      BY <2>4 DEF length
  <1> QED
    BY <1>4, <1>5, <1>6

(* What encoded_length_buffer writes of a length, in one, three or nine bytes, is what
   get_payload_length makes that length of again, on either side of each boundary and
   for any length that the reader's int can hold. *)
THEOREM LengthsAreUnderstood ==
    \A n \in Nat : n < IntEnd => get_payload_length(encoded_length(n)) = n
  <1> DEFINE four == TwoBytes * TwoBytes
  <1>1. four \in Nat /\ four >= 1
    <2>1. TwoBytes \in Nat /\ TwoBytes >= 1
      BY ReaderAssumption DEF TwoBytes
    <2> QED
      BY <2>1
  <1>2. EightBytes \in Nat /\ EightBytes >= four
    <2>1. TwoBytes \in Nat
      BY ReaderAssumption DEF TwoBytes
    <2>2. EightBytes = four * four
      BY <2>1 DEF EightBytes
    <2> HIDE DEF four
    <2> QED
      BY <1>1, <2>2
  <1>3. IntEnd \in Nat /\ IntEnd =< four
    <2> HIDE DEF four
    <2>1. IntEnd = four \div 2
      BY DEF IntEnd, four
    <2> QED
      BY <1>1, <2>1
  <1> HIDE DEF four
  <1>4. \A n \in Nat : n < IntEnd => n < EightBytes
    BY <1>1, <1>2, <1>3
  <1> QED
    BY <1>4, LengthIsUnderstood

FrameLengths == (0..MaxFrameSize) \cup BodySizes

LEMMA FrameLengthType ==
    \A n \in FrameLengths : n \in Nat /\ get_payload_length(encoded_length(n)) = n
  <1>1. IntEnd \in Int
    <2>1. TwoBytes * TwoBytes \in Int
      BY ReaderAssumption DEF TwoBytes
    <2> DEFINE four == TwoBytes * TwoBytes
    <2> HIDE DEF four
    <2>2. four \div 2 \in Int
      BY <2>1 DEF four
    <2> QED
      BY <2>2 DEF IntEnd, four
  <1>2. \A n \in FrameLengths : n \in Nat /\ n < IntEnd
    BY <1>1, FramingAssumption, ForeignAssumption DEF FrameLengths
  <1> QED
    BY <1>2, LengthsAreUnderstood

---------------------------------------------------------------------------
(* Reading a frame *)

\* What the theorems assume: no message fills its last frame, and continuation
\* frames are not masked.
Multiples == {k * MaxFrameSize : k \in Nat}
NoneFillsItsFrames == Sizes \cap Multiples \subseteq {0}
OnlyFirstAreMasked == LaterKeys \subseteq {0}

LEMMA FrameMade ==
    ASSUME NEW op \in Opcode, NEW fin \in BOOLEAN, NEW key \in Nat, NEW body \in Seq(AnyByte)
    PROVE  LET f == MakeFrame(op, fin, key, body)
           IN  f \in Frame /\ f.opcode = op /\ f.fin = fin
  <1>1. MakeFrame(op, fin, key, body) \in Frame
    BY DEF Frame
  <1> QED
    BY <1>1 DEF MakeFrame

LEMMA ControlFrameMade ==
    ASSUME NEW op \in Opcode
    PROVE  LET f == MakeFrame(op, TRUE, 0, <<>>)
           IN  f \in Frame /\ f.opcode = op
  <1>1. <<>> \in Seq(AnyByte) /\ 0 \in Nat
    OBVIOUS
  <1>2. \A fin \in BOOLEAN : /\ MakeFrame(op, fin, 0, <<>>) \in Frame
                             /\ MakeFrame(op, fin, 0, <<>>).opcode = op
    BY <1>1, FrameMade
  <1> QED
    BY <1>2

LEMMA FrameType ==
    ASSUME NEW f \in Frame
    PROVE  f.opcode \in Opcode /\ f.fin \in BOOLEAN
  BY DEF Frame, MakeFrame

\* The reader takes the whole body.
LEMMA BodyIsWhole ==
    ASSUME NEW op, NEW fin, NEW key \in Nat,
           NEW m \in Nat, NEW at \in Nat, NEW n \in FrameLengths
    PROVE  LET f == MakeFrame(op, fin, key, Bytes(m, at, n))
           IN  /\ f.key = key /\ f.opcode = op /\ f.fin = fin
               /\ Body(f) = ApplyMask(Bytes(m, at, n), n, key)
               /\ Body(f) \in Seq(AnyByte)
               /\ Len(Body(f)) = n
  <1> DEFINE f == MakeFrame(op, fin, key, Bytes(m, at, n))
             body == ApplyMask(Bytes(m, at, n), n, key)
  <1>1. n \in Nat /\ Len(Bytes(m, at, n)) = n
    BY FrameLengthType, BytesType
  <1>2. body \in Seq(AnyByte) /\ Len(body) = n
    BY <1>1, MaskTwice
  <1> HIDE DEF body
  <1>3. /\ f.key = key /\ f.opcode = op /\ f.fin = fin
        /\ f.length = encoded_length(n) /\ f.body = body
    BY <1>1 DEF MakeFrame, body
  <1>4. Body(f) = SubSeq(body, 1, Len(body))
    BY <1>2, <1>3, FrameLengthType DEF Body
  <1>5. Body(f) = body
    BY <1>2, <1>4, SubSeqFull
  <1> QED
    BY <1>2, <1>3, <1>5 DEF body

\* The frame behind the first `at` bytes of a message adds its own to them, if it
\* is not masked or the first.
LEMMA FrameAddsItsBytes ==
    ASSUME NEW op, NEW fin, NEW key \in Nat,
           NEW m \in Nat, NEW at \in Nat, NEW n \in FrameLengths, key = 0 \/ at = 0
    PROVE  LET f == MakeFrame(op, fin, key, Bytes(m, at, n))
           IN  ApplyMask(Bytes(m, 0, at) \o Body(f), Len(Body(f)), f.key)
                   = Bytes(m, 0, at + n)
  <1> DEFINE f == MakeFrame(op, fin, key, Bytes(m, at, n))
  <1>1. /\ f.key = key /\ Len(Body(f)) = n /\ Body(f) \in Seq(AnyByte)
        /\ Body(f) = ApplyMask(Bytes(m, at, n), n, key)
    BY BodyIsWhole
  <1>2. n \in Nat
    BY FrameLengthType
  <1> HIDE DEF f
  <1>3. CASE key = 0
    <2>1. Body(f) = Bytes(m, at, n)
      BY <1>1, <1>3 DEF ApplyMask
    <2>2. ApplyMask(Bytes(m, 0, at) \o Body(f), n, key) = Bytes(m, 0, at) \o Bytes(m, at, n)
      BY <1>3, <2>1 DEF ApplyMask
    <2> QED
      BY <1>1, <1>2, <2>2, BytesMeet DEF f
  <1>4. CASE at = 0
    <2>1. Bytes(m, 0, at) \o Body(f) = Body(f)
      BY <1>1, <1>4, NoBytes, ConcatEmptySeq
    <2>2. ApplyMask(Body(f), n, key) = Bytes(m, at, n)
      BY <1>1, <1>2, MaskTwice
    <2>3. at + n = n
      BY <1>2, <1>4
    <2> QED
      BY <1>1, <1>4, <2>1, <2>2, <2>3 DEF f
  <1> QED
    BY <1>3, <1>4

---------------------------------------------------------------------------
(* Where in the stream of the messages a frame is *)

Place == [message : Nat \ {0}, at : Nat]
At(m, n) == [message |-> m, at |-> n]

\* Frame f takes the stream from place a to place b, where `lengths` are those of the
\* messages, `complete` of which have been written to their end.
Carries(f, a, b, lengths, complete) ==
    IF f.opcode \in DataOpcode
    THEN \E n \in FrameLengths, key \in Nat :
            /\ f = MakeFrame(f.opcode, f.fin, key, Bytes(a.message, a.at, n))
            /\ key = 0 \/ a.at = 0
            /\ b = IF f.fin THEN At(a.message + 1, 0) ELSE At(a.message, a.at + n)
            /\ f.fin => a.message <= complete /\ lengths[a.message] = a.at + n
    ELSE b = a

\* The frames take it from place a to place z.
Leads(frames, a, z, lengths, complete) ==
    \E place \in [1..(Len(frames) + 1) -> Place] :
        /\ place[1] = a
        /\ place[Len(frames) + 1] = z
        /\ \A i \in 1..Len(frames) :
              Carries(frames[i], place[i], place[i + 1], lengths, complete)

LEMMA LeadsNowhere ==
    ASSUME NEW a \in Place, NEW z, NEW lengths, NEW complete
    PROVE  Leads(<<>>, a, z, lengths, complete) <=> a = z
  <1>1. Len(<<>>) = 0 /\ 1..Len(<<>>) = {}
    OBVIOUS
  <1>2. ASSUME a = z
        PROVE  Leads(<<>>, a, z, lengths, complete)
    <2> DEFINE place == [i \in 1..(Len(<<>>) + 1) |-> a]
    <2>1. place \in [1..(Len(<<>>) + 1) -> Place]
      OBVIOUS
    <2>2. place[1] = a /\ place[Len(<<>>) + 1] = a
      BY <1>1
    <2> HIDE DEF place
    <2> QED
      BY <1>1, <1>2, <2>1, <2>2 DEF Leads
  <1>3. ASSUME Leads(<<>>, a, z, lengths, complete)
        PROVE  a = z
    BY <1>1, <1>3 DEF Leads
  <1> QED
    BY <1>2, <1>3

LEMMA LeadsOn ==
    ASSUME NEW S, NEW w \in Seq(S), NEW f \in S, NEW a, NEW z, NEW b \in Place,
           NEW lengths, NEW complete,
           Leads(w, a, z, lengths, complete), Carries(f, z, b, lengths, complete)
    PROVE  Leads(Append(w, f), a, b, lengths, complete)
  <1>1. PICK place \in [1..(Len(w) + 1) -> Place] :
          /\ place[1] = a
          /\ place[Len(w) + 1] = z
          /\ \A i \in 1..Len(w) : Carries(w[i], place[i], place[i + 1], lengths, complete)
    BY DEF Leads
  <1>2. /\ Len(w) \in Nat /\ Len(Append(w, f)) = Len(w) + 1
        /\ \A i \in 1..Len(w) : Append(w, f)[i] = w[i]
        /\ Append(w, f)[Len(w) + 1] = f
    BY AppendProperties, LenProperties
  <1> DEFINE n == Len(w)
             next == [i \in 1..(n + 2) |-> IF i <= n + 1 THEN place[i] ELSE b]
  <1> HIDE DEF n
  <1>3. next \in [1..(n + 2) -> Place]
    BY <1>1, <1>2 DEF n
  <1>4. n \in Nat /\ n + 1 + 1 = n + 2 /\ 1 \in 1..(n + 2)
    BY <1>2 DEF n
  <1>5. \A i \in 1..(n + 1) : next[i] = place[i]
    BY <1>4
  <1>6. next[n + 2] = b
    BY <1>4
  <1> HIDE DEF next
  <1>7. \A i \in 1..(n + 1) :
          Carries(Append(w, f)[i], next[i], next[i + 1], lengths, complete)
    <2> TAKE i \in 1..(n + 1)
    <2>1. CASE i \in 1..n
      <3>1. i + 1 \in 1..(n + 1)
        BY <1>4, <2>1
      <3> QED
        BY <1>1, <1>2, <1>5, <2>1, <3>1 DEF n
    <2>2. CASE i = n + 1
      <3>1. i + 1 = n + 2
        BY <1>4, <2>2
      <3> QED
        BY <1>1, <1>2, <1>5, <1>6, <2>2, <3>1 DEF n
    <2>3. i \in 1..n \/ i = n + 1
      BY <1>4
    <2> QED
      BY <2>1, <2>2, <2>3
  <1>8. Len(Append(w, f)) = n + 1 /\ Len(Append(w, f)) + 1 = n + 2
    BY <1>2, <1>4 DEF n
  <1>9. next[1] = a
    BY <1>1, <1>4, <1>5
  <1> QED
    BY <1>3, <1>6, <1>7, <1>8, <1>9 DEF Leads

LEMMA LeadsFrom ==
    ASSUME NEW S, NEW w \in Seq(S), w # <<>>, NEW a, NEW z,
           NEW lengths, NEW complete, Leads(w, a, z, lengths, complete)
    PROVE  \E b \in Place : /\ Carries(Head(w), a, b, lengths, complete)
                            /\ Leads(Tail(w), b, z, lengths, complete)
  <1>1. PICK place \in [1..(Len(w) + 1) -> Place] :
          /\ place[1] = a
          /\ place[Len(w) + 1] = z
          /\ \A i \in 1..Len(w) : Carries(w[i], place[i], place[i + 1], lengths, complete)
    BY DEF Leads
  <1>2. /\ Len(w) \in Nat \ {0} /\ Len(Tail(w)) = Len(w) - 1
        /\ \A i \in 1..Len(Tail(w)) : Tail(w)[i] = w[i + 1]
        /\ Head(w) = w[1]
    BY HeadTailProperties, EmptySeq
  <1> DEFINE n == Len(w)
             rest == [i \in 1..n |-> place[i + 1]]
  <1> HIDE DEF n
  <1>3. n \in Nat \ {0} /\ (n - 1) + 1 = n /\ 1 \in 1..n /\ 1 + 1 = 2
    BY <1>2 DEF n
  <1>4. place[2] \in Place /\ Carries(Head(w), a, place[2], lengths, complete)
    <2>1. 2 \in 1..(n + 1)
      BY <1>3
    <2> QED
      BY <1>1, <1>2, <1>3, <2>1 DEF n
  <1>5. rest \in [1..n -> Place]
    <2>1. \A i \in 1..n : i + 1 \in 1..(n + 1)
      BY <1>3
    <2> QED
      BY <1>1, <2>1 DEF n
  <1>6. \A i \in 1..n : rest[i] = place[i + 1]
    OBVIOUS
  <1> HIDE DEF rest
  <1>7. \A i \in 1..(n - 1) :
          Carries(Tail(w)[i], rest[i], rest[i + 1], lengths, complete)
    <2> TAKE i \in 1..(n - 1)
    <2>1. i \in 1..n /\ i + 1 \in 1..n
      BY <1>3
    <2>2. Tail(w)[i] = w[i + 1]
      BY <1>2 DEF n
    <2> QED
      BY <1>1, <1>6, <2>1, <2>2 DEF n
  <1>8. Len(Tail(w)) = n - 1 /\ Len(Tail(w)) + 1 = n
    BY <1>2, <1>3 DEF n
  <1>9. rest[1] = place[2] /\ rest[n] = z
    BY <1>1, <1>3, <1>6 DEF n
  <1>10. Leads(Tail(w), place[2], z, lengths, complete)
    BY <1>5, <1>7, <1>8, <1>9 DEF Leads
  <1> QED
    BY <1>4, <1>10

\* The messages that are complete stay as they are.
LEMMA LeadsStill ==
    ASSUME NEW S, NEW w \in Seq(S), NEW a, NEW z, NEW lengths, NEW complete \in Int,
           NEW more, NEW later \in Int, complete <= later,
           \A m \in 1..complete : more[m] = lengths[m],
           Leads(w, a, z, lengths, complete)
    PROVE  Leads(w, a, z, more, later)
  <1>1. PICK place \in [1..(Len(w) + 1) -> Place] :
          /\ place[1] = a
          /\ place[Len(w) + 1] = z
          /\ \A i \in 1..Len(w) : Carries(w[i], place[i], place[i + 1], lengths, complete)
    BY DEF Leads
  <1>2. Len(w) \in Nat
    BY LenProperties
  <1>3. ASSUME NEW i \in 1..Len(w)
        PROVE  Carries(w[i], place[i], place[i + 1], more, later)
    <2>1. Carries(w[i], place[i], place[i + 1], lengths, complete)
      BY <1>1
    <2>2. place[i].message \in Nat \ {0}
      BY <1>1, <1>2 DEF Place
    <2>3. place[i].message <= complete =>
            /\ place[i].message <= later
            /\ more[place[i].message] = lengths[place[i].message]
      BY <2>2
    <2> QED
      BY <2>1, <2>3 DEF Carries
  <1> QED
    BY <1>1, <1>3 DEF Leads

---------------------------------------------------------------------------
(* The inductive invariant *)

\* Where the reader is and where the other end is.
Here == At(Len(delivered) + 1, Len(payload))
There == At(Complete + 1, IF Complete = Len(messages) THEN 0 ELSE messages[Len(messages)])

Types ==
    /\ messages \in Seq(Nat)
    /\ wire \in Seq(Frame)
    /\ delivered \in Seq(Seq(AnyByte))
    /\ reader \in {"reading", "ended"}
    /\ writer \in {"library", "foreign"}
    /\ sending \in {"idle", "data", "closed"}
    /\ fragments \in Nat

\* Only one of the two ends writes, and the library's is never beyond its payload.
WriterInv ==
    /\ writer = "library" => fragments = 0
    /\ writer = "foreign" => sending = "idle"
    /\ sending = "data" \/ fragments > 0 => Len(messages) > 0
    /\ sending = "data" =>
         /\ size \in Sizes
         /\ opcode \in {"text", "continuation"}
         /\ messages[Len(messages)] \in Multiples
         /\ messages[Len(messages)] <= size

\* The frames on the wire lead from the one to the other.
StreamInv ==
    /\ Len(delivered) <= Complete
    /\ \A m \in 1..Len(delivered) : delivered[m] = Payload(m)
    /\ reader = "reading" =>
         /\ payload \in Seq(AnyByte)
         /\ payload = Bytes(Len(delivered) + 1, 0, Len(payload))
         /\ Leads(wire, Here, There, messages, Complete)

\* The library's close frame is its last, and ends the reader.
CloseInv ==
    writer = "library" =>
        /\ \A i \in 1..Len(wire) :
              \/ wire[i].opcode \in {"text", "continuation"}
              \/ wire[i].opcode = "close" /\ i = Len(wire) /\ sending = "closed"
        /\ reader = "ended" => sending = "closed" /\ Len(delivered) = Complete

IInv == Types /\ WriterInv /\ StreamInv /\ CloseInv

LEMMA CompleteType ==
    ASSUME Types, WriterInv
    PROVE  /\ Len(messages) \in Nat
           /\ Complete \in Nat /\ Complete <= Len(messages)
           /\ Complete = Len(messages) \/ Complete = Len(messages) - 1
           /\ There \in Place
           /\ There.message = Complete + 1
           /\ There.at = IF Complete = Len(messages) THEN 0 ELSE messages[Len(messages)]
  <1>1. Len(messages) \in Nat
    BY LenProperties DEF Types
  <1>2. /\ Complete \in Nat /\ Complete <= Len(messages)
        /\ Complete = Len(messages) \/ Complete = Len(messages) - 1
    BY <1>1 DEF Types, WriterInv, Complete
  <1>3. Complete # Len(messages) => messages[Len(messages)] \in Nat
    <2>1. Complete # Len(messages) => Len(messages) \in 1..Len(messages)
      BY <1>1, <1>2
    <2> QED
      BY <2>1, ElementOfSeq DEF Types
  <1> QED
    BY <1>1, <1>2, <1>3 DEF There, At, Place

\* What a step of the other end has to show.
LEMMA WriteStep ==
    ASSUME IInv, Types', WriterInv', UNCHANGED <<payload, reader, delivered>>,
           Complete <= Complete',
           \A m \in 1..Complete : messages'[m] = messages[m],
           \/ wire' = wire /\ There' = There
           \/ \E f \in Frame : /\ wire' = Append(wire, f)
                               /\ Carries(f, There, There', messages', Complete')
    PROVE  StreamInv'
  <1>1. Complete \in Nat /\ Complete' \in Nat /\ There' \in Place
    <2>1. (Types /\ WriterInv => Complete \in Nat /\ There \in Place)'
      BY CompleteType, PTL
    <2> QED
      BY <2>1, CompleteType DEF IInv
  <1>2. Len(delivered) \in Nat
    BY LenProperties DEF IInv, Types
  <1>3. (Len(delivered) <= Complete)'
    BY <1>1, <1>2 DEF IInv, StreamInv
  <1>4. \A m \in 1..Len(delivered) : delivered'[m] = Payload(m)'
    BY <1>1, <1>2 DEF IInv, StreamInv, Payload
  <1>5. ASSUME reader' = "reading"
        PROVE  /\ (payload \in Seq(AnyByte) /\ payload = Bytes(Len(delivered) + 1, 0, Len(payload)))'
               /\ Leads(wire', Here', There', messages', Complete')
    <2>1. /\ payload \in Seq(AnyByte) /\ payload = Bytes(Len(delivered) + 1, 0, Len(payload))
          /\ Leads(wire, Here, There, messages, Complete)
          /\ wire \in Seq(Frame)
      BY <1>5 DEF IInv, StreamInv, Types
    <2>2. Leads(wire, Here, There, messages', Complete')
      BY <1>1, <2>1, LeadsStill
    <2>3. Here' = Here
      BY DEF Here
    <2>4. CASE wire' = wire /\ There' = There
      BY <2>1, <2>2, <2>3, <2>4
    <2>5. CASE \E f \in Frame : /\ wire' = Append(wire, f)
                               /\ Carries(f, There, There', messages', Complete')
      <3>1. PICK f \in Frame : /\ wire' = Append(wire, f)
                               /\ Carries(f, There, There', messages', Complete')
        BY <2>5
      <3>2. Leads(Append(wire, f), Here, There', messages', Complete')
        BY <1>1, <2>1, <2>2, <3>1, LeadsOn
      <3> QED
        BY <2>1, <2>3, <3>1, <3>2
    <2> QED
      BY <2>4, <2>5
  <1> QED
    BY <1>3, <1>4, <1>5 DEF StreamInv

\* The types of what is after a frame was written.
LEMMA WriteType ==
    ASSUME Types, NEW f \in Frame, wire' = Append(wire, f)
    PROVE  /\ wire' \in Seq(Frame)
           /\ Len(wire) \in Nat /\ Len(wire') = Len(wire) + 1
           /\ \A i \in 1..Len(wire) : wire'[i] = wire[i]
           /\ wire'[Len(wire')] = f
  BY AppendProperties, LenProperties DEF Types

\* The library's next frame keeps CloseInv, whatever came before it.
LEMMA CloseStep ==
    ASSUME IInv, sending # "closed", Len(delivered') = Len(delivered), reader' = reader,
           writer' = writer,
           \E f \in Frame :
              /\ wire' = Append(wire, f)
              /\ \/ f.opcode \in {"text", "continuation"}
                 \/ f.opcode = "close" /\ sending' = "closed"
    PROVE  CloseInv'
  <1> PICK f \in Frame :
              /\ wire' = Append(wire, f)
              /\ \/ f.opcode \in {"text", "continuation"}
                 \/ f.opcode = "close" /\ sending' = "closed"
    OBVIOUS
  <1>1. /\ Len(wire) \in Nat /\ Len(wire') = Len(wire) + 1
        /\ \A i \in 1..Len(wire) : wire'[i] = wire[i]
        /\ wire'[Len(wire')] = f
    BY WriteType DEF IInv
  <1>2. SUFFICES ASSUME writer' = "library"
                 PROVE  /\ \A i \in 1..Len(wire') :
                             \/ wire'[i].opcode \in {"text", "continuation"}
                             \/ /\ wire'[i].opcode = "close"
                                /\ i = Len(wire') /\ sending' = "closed"
                        /\ reader' # "ended"
    BY DEF CloseInv
  <1>3. reader' # "ended" /\ \A i \in 1..Len(wire) : wire[i].opcode \in {"text", "continuation"}
    BY <1>2 DEF IInv, CloseInv
  <1>4. \A i \in 1..Len(wire') : i \in 1..Len(wire) \/ i = Len(wire')
    BY <1>1
  <1> QED
    BY <1>1, <1>3, <1>4

LEMMA SendTextStep ==
    ASSUME IInv, NEW n \in Sizes, SendText(n), UNCHANGED <<peerVars, writer>>,
           writer = "library"
    PROVE  IInv'
  <1> USE DEF SendText, peerVars, readerVars
  <1>1. /\ Len(messages) \in Nat /\ messages \in Seq(Nat)
        /\ messages' \in Seq(Nat) /\ Len(messages') = Len(messages) + 1
        /\ \A m \in 1..Len(messages) : messages'[m] = messages[m]
        /\ messages'[Len(messages')] = 0
    BY AppendProperties, LenProperties DEF IInv, Types
  <1>2. Types'
    BY <1>1 DEF IInv, Types
  <1>3. WriterInv'
    <2>1. 0 = 0 * MaxFrameSize /\ n \in Nat
      BY FramingAssumption
    <2>2. 0 \in Multiples
      BY <2>1 DEF Multiples
    <2> QED
      BY <1>1, <2>1, <2>2 DEF IInv, WriterInv
  <1>4. Complete = Len(messages) /\ Complete' = Len(messages)
    BY <1>1 DEF IInv, WriterInv, Types, Complete
  <1>5. There' = There
    BY <1>1, <1>4 DEF There
  <1>6. StreamInv'
    BY <1>1, <1>2, <1>3, <1>4, <1>5, WriteStep
  <1>7. CloseInv'
    BY DEF IInv, CloseInv
  <1> QED
    BY <1>2, <1>3, <1>6, <1>7 DEF IInv

\* What the sender does not cut off as a last fragment leaves something behind.
LEMMA FragmentIsLast ==
    ASSUME NoneFillsItsFrames, NEW n \in Sizes, NEW begin \in Multiples, begin <= n,
           NEW frag_end,
           frag_end = IF begin + MaxFrameSize > n THEN n ELSE begin + MaxFrameSize
    PROVE  /\ frag_end \in Nat /\ frag_end <= n
           /\ frag_end - begin \in FrameLengths
           /\ begin + (frag_end - begin) = frag_end
           /\ begin + MaxFrameSize > n <=> frag_end = n
           /\ frag_end # n => frag_end \in Multiples
  <1>1. PICK k \in Nat : begin = k * MaxFrameSize
    BY DEF Multiples
  <1>2. MaxFrameSize \in Nat \ {0} /\ n \in Nat /\ begin \in Nat
    BY <1>1, FramingAssumption
  <1>3. begin + MaxFrameSize = (k + 1) * MaxFrameSize
    BY <1>1, <1>2
  <1>4. begin + MaxFrameSize \in Multiples
    BY <1>3 DEF Multiples
  <1>5. begin + MaxFrameSize # n
    BY <1>2, <1>4 DEF NoneFillsItsFrames
  <1>6. frag_end - begin \in 0..MaxFrameSize /\ frag_end \in Nat /\ frag_end <= n
    <2>1. CASE begin + MaxFrameSize > n
      BY <1>2, <2>1
    <2>2. CASE ~(begin + MaxFrameSize > n)
      BY <1>2, <2>2
    <2> QED
      BY <2>1, <2>2
  <1> QED
    BY <1>2, <1>4, <1>5, <1>6 DEF FrameLengths

LEMMA SendFragmentStep ==
    ASSUME NoneFillsItsFrames, IInv, SendFragment, UNCHANGED <<peerVars, writer>>,
           writer = "library"
    PROVE  IInv'
  <1> DEFINE m == Len(messages)
             begin == messages[m]
             whole == begin + MaxFrameSize > size
             frag_end == IF whole THEN size ELSE begin + MaxFrameSize
             n == frag_end - begin
             f == MakeFrame(opcode, whole, 0, Bytes(m, begin, n))
  <1>1. /\ sending = "data" /\ sending' = IF frag_end = size THEN "idle" ELSE "data"
        /\ wire' = Append(wire, f)
        /\ messages' = [messages EXCEPT ![m] = frag_end]
        /\ opcode' = "continuation"
        /\ UNCHANGED <<size, payload, reader, delivered, fragments, writer>>
    BY DEF SendFragment, peerVars
  <1>2. /\ m \in Nat \ {0} /\ messages \in Seq(Nat)
        /\ size \in Sizes /\ begin \in Multiples /\ begin <= size /\ begin \in Nat
        /\ opcode \in {"text", "continuation"} /\ fragments = 0
    BY <1>1, LenProperties, ElementOfSeq DEF IInv, Types, WriterInv
  <1>3. /\ whole \in BOOLEAN /\ frag_end \in Nat /\ frag_end <= size
        /\ n \in FrameLengths /\ begin + n = frag_end
        /\ whole <=> frag_end = size
        /\ ~whole => frag_end \in Multiples
    <2> HIDE DEF begin
    <2>1. /\ frag_end \in Nat /\ frag_end <= size
          /\ n \in FrameLengths /\ begin + n = frag_end
          /\ begin + MaxFrameSize > size <=> frag_end = size
          /\ frag_end # size => frag_end \in Multiples
      BY <1>2, FragmentIsLast
    <2> QED
      BY <2>1
  <1> HIDE DEF begin, whole, frag_end, n, f
  <1>4. /\ messages' \in Seq(Nat) /\ Len(messages') = m
        /\ \A i \in 1..m : messages'[i] = IF i = m THEN frag_end ELSE messages[i]
    BY <1>1, <1>2, <1>3, ExceptSeq
  <1>5. n \in Nat /\ Bytes(m, begin, n) \in Seq(AnyByte)
    BY <1>2, <1>3, FrameLengthType, BytesType
  <1>6. f \in Frame /\ f.opcode = opcode /\ f.fin = whole
    BY <1>2, <1>3, <1>5, FrameMade DEF f, Opcode
  <1>7. Types'
    BY <1>1, <1>4, <1>6, WriteType DEF IInv, Types
  <1>8. WriterInv'
    BY <1>1, <1>2, <1>3, <1>4 DEF IInv, WriterInv
  <1>9. Complete = m - 1 /\ Complete' = IF whole THEN m ELSE m - 1
    BY <1>1, <1>2, <1>3, <1>4 DEF Complete
  <1>10. There = At(m, begin) /\ There' = IF whole THEN At(m + 1, 0) ELSE At(m, frag_end)
    BY <1>2, <1>4, <1>9 DEF There, begin
  <1>11. Carries(f, There, There', messages', Complete')
    <2>1. There.message = m /\ There.at = begin
      BY <1>10 DEF At
    <2>2. f = MakeFrame(f.opcode, f.fin, 0, Bytes(There.message, There.at, n))
      BY <1>6, <2>1 DEF f
    <2>3. f.fin => m <= Complete' /\ messages'[m] = begin + n
      BY <1>2, <1>3, <1>4, <1>6, <1>9
    <2>4. There' = IF f.fin THEN At(m + 1, 0) ELSE At(m, begin + n)
      BY <1>3, <1>6, <1>10
    <2>5. f.opcode \in DataOpcode
      BY <1>2, <1>6 DEF DataOpcode
    <2> QED
      BY <1>3, <2>1, <2>2, <2>3, <2>4, <2>5 DEF Carries
  <1>12. StreamInv'
    <2>1. \A i \in 1..Complete : messages'[i] = messages[i]
      BY <1>2, <1>4, <1>9
    <2>2. Complete <= Complete'
      BY <1>2, <1>3, <1>9
    <2> QED
      BY <1>1, <1>6, <1>7, <1>8, <1>11, <2>1, <2>2, WriteStep
  <1>13. CloseInv'
    <2>1. f.opcode \in {"text", "continuation"} /\ sending # "closed"
      BY <1>1, <1>2, <1>6
    <2>2. Len(delivered') = Len(delivered) /\ reader' = reader /\ writer' = writer
      BY <1>1
    <2> QED
      BY <1>1, <1>6, <2>1, <2>2, CloseStep
  <1> QED
    BY <1>7, <1>8, <1>12, <1>13 DEF IInv

LEMMA SendCloseStep ==
    ASSUME IInv, SendClose, UNCHANGED <<peerVars, writer>>, writer = "library"
    PROVE  IInv'
  <1> DEFINE f == MakeFrame("close", TRUE, 0, <<>>)
  <1>1. /\ sending = "idle" /\ sending' = "closed" /\ wire' = Append(wire, f)
        /\ UNCHANGED <<messages, payload, reader, delivered, fragments, writer>>
    BY DEF SendClose, peerVars
  <1>2. f \in Frame /\ f.opcode = "close"
    BY ControlFrameMade DEF Opcode
  <1> HIDE DEF f
  <1>3. Types'
    BY <1>1, <1>2, WriteType DEF IInv, Types
  <1>4. WriterInv'
    BY <1>1 DEF IInv, WriterInv
  <1>5. Complete' = Complete /\ Complete \in Nat
    BY <1>1, CompleteType DEF IInv, Complete
  <1>6. There' = There
    BY <1>1, <1>5 DEF There
  <1>7. Carries(f, There, There', messages', Complete')
    BY <1>2, <1>6 DEF Carries, DataOpcode
  <1>8. StreamInv'
    <2>1. Complete <= Complete' /\ \A m \in 1..Complete : messages'[m] = messages[m]
      BY <1>1, <1>5
    <2> QED
      BY <1>1, <1>2, <1>3, <1>4, <1>7, <2>1, WriteStep
  <1>9. CloseInv'
    BY <1>1, <1>2, CloseStep
  <1> QED
    BY <1>3, <1>4, <1>8, <1>9 DEF IInv

\* Nothing is asked of the close frames of a foreign peer.
LEMMA ForeignClose == writer = "foreign" => CloseInv
  BY DEF CloseInv

LEMMA PeerFirstStep ==
    ASSUME IInv, NEW n \in BodySizes, NEW key \in FirstKeys, NEW fin \in BOOLEAN,
           PeerFirst(n, key, fin), UNCHANGED <<senderVars, writer>>, writer = "foreign"
    PROVE  IInv'
  <1> DEFINE m == Len(messages) + 1
             f == MakeFrame("text", fin, key, Bytes(m, 0, n))
  <1>1. /\ fragments = 0 /\ fragments' = IF fin THEN 0 ELSE 1
        /\ messages' = Append(messages, n) /\ wire' = Append(wire, f)
        /\ UNCHANGED <<payload, reader, delivered, sending, size, opcode, writer>>
    BY DEF PeerFirst, Write, senderVars
  <1>2. n \in Nat /\ n \in FrameLengths /\ key \in Nat
    BY ForeignAssumption DEF FrameLengths
  <1>3. /\ Len(messages) \in Nat /\ m \in Nat \ {0} /\ messages \in Seq(Nat)
        /\ messages' \in Seq(Nat) /\ Len(messages') = m
        /\ \A i \in 1..Len(messages) : messages'[i] = messages[i]
        /\ messages'[m] = n
    BY <1>1, <1>2, AppendProperties, LenProperties DEF IInv, Types
  <1>4. f \in Frame /\ f.opcode = "text" /\ f.fin = fin
    BY <1>2, <1>3, BytesType, FrameMade DEF Opcode
  <1>5. f = MakeFrame("text", fin, key, Bytes(m, 0, n))
    OBVIOUS
  <1> HIDE DEF f
  <1>6. Types'
    BY <1>1, <1>3, <1>4, WriteType DEF IInv, Types
  <1>7. sending = "idle"
    BY DEF IInv, WriterInv
  <1>8. WriterInv'
    BY <1>1, <1>3, <1>7 DEF IInv, WriterInv
  <1>9. Complete = m - 1 /\ Complete' = IF fin THEN m ELSE m - 1
    BY <1>1, <1>3, <1>7 DEF Complete
  <1>10. There = At(m, 0) /\ There' = IF fin THEN At(m + 1, 0) ELSE At(m, n)
    BY <1>3, <1>9 DEF There
  <1> HIDE DEF m
  <1>11. Carries(f, There, There', messages', Complete')
    <2>1. There.message = m /\ There.at = 0 /\ 0 + n = n
      BY <1>2, <1>10 DEF At
    <2>2. f = MakeFrame(f.opcode, f.fin, key, Bytes(There.message, There.at, n))
      BY <1>4, <1>5, <2>1
    <2>3. f.fin => m <= Complete' /\ messages'[m] = There.at + n
      BY <1>3, <1>4, <1>9, <2>1
    <2>4. There' = IF f.fin THEN At(m + 1, 0) ELSE At(m, There.at + n)
      BY <1>4, <1>10, <2>1
    <2>5. f.opcode \in DataOpcode
      BY <1>4 DEF DataOpcode
    <2> QED
      BY <1>2, <2>1, <2>2, <2>3, <2>4, <2>5 DEF Carries
  <1>12. StreamInv'
    <2>1. /\ Complete <= Complete'
          /\ \A i \in 1..Complete : messages'[i] = messages[i]
      BY <1>3, <1>9 DEF m
    <2> QED
      BY <1>1, <1>4, <1>6, <1>8, <1>11, <2>1, WriteStep
  <1>13. CloseInv'
    BY <1>1, ForeignClose DEF CloseInv
  <1> QED
    BY <1>6, <1>8, <1>12, <1>13 DEF IInv

LEMMA PeerContinuationStep ==
    ASSUME OnlyFirstAreMasked, IInv,
           NEW n \in BodySizes, NEW key \in LaterKeys, NEW fin \in BOOLEAN,
           PeerContinuation(n, key, fin), UNCHANGED <<senderVars, writer>>,
           writer = "foreign"
    PROVE  IInv'
  <1> DEFINE m == Len(messages)
             begin == messages[m]
             f == MakeFrame("continuation", fin, 0, Bytes(m, begin, n))
  <1>1. key = 0
    BY DEF OnlyFirstAreMasked
  <1>2. /\ fragments > 0 /\ fragments' = IF fin THEN 0 ELSE fragments + 1
        /\ messages' = [messages EXCEPT ![m] = begin + n] /\ wire' = Append(wire, f)
        /\ UNCHANGED <<payload, reader, delivered, sending, size, opcode, writer>>
    BY <1>1 DEF PeerContinuation, Write, senderVars
  <1>3. n \in Nat /\ n \in FrameLengths
    BY ForeignAssumption DEF FrameLengths
  <1>4. /\ m \in Nat \ {0} /\ messages \in Seq(Nat) /\ begin \in Nat
        /\ fragments \in Nat /\ sending = "idle"
    BY <1>2, LenProperties, ElementOfSeq DEF IInv, Types, WriterInv
  <1>5. f = MakeFrame("continuation", fin, 0, Bytes(m, begin, n))
    OBVIOUS
  <1>6. f \in Frame /\ f.opcode = "continuation" /\ f.fin = fin
    <2> HIDE DEF begin
    <2>1. Bytes(m, begin, n) \in Seq(AnyByte) /\ "continuation" \in Opcode /\ 0 \in Nat
      BY <1>3, <1>4, BytesType DEF Opcode
    <2> QED
      BY <2>1, FrameMade
  <1> HIDE DEF begin, f
  <1>7. /\ messages' \in Seq(Nat) /\ Len(messages') = m
        /\ \A i \in 1..m : messages'[i] = IF i = m THEN begin + n ELSE messages[i]
    BY <1>2, <1>3, <1>4, ExceptSeq
  <1>8. Types'
    BY <1>2, <1>4, <1>6, <1>7, WriteType DEF IInv, Types
  <1>9. WriterInv'
    BY <1>2, <1>4, <1>7 DEF IInv, WriterInv
  <1>10. Complete = m - 1 /\ Complete' = IF fin THEN m ELSE m - 1
    BY <1>2, <1>4, <1>7 DEF Complete
  <1>11. There = At(m, begin) /\ There' = IF fin THEN At(m + 1, 0) ELSE At(m, begin + n)
    BY <1>4, <1>7, <1>10 DEF There, begin
  <1> HIDE DEF m
  <1>12. Carries(f, There, There', messages', Complete')
    <2>1. There.message = m /\ There.at = begin
      BY <1>11 DEF At
    <2>2. f = MakeFrame(f.opcode, f.fin, 0, Bytes(There.message, There.at, n))
      BY <1>5, <1>6, <2>1
    <2>3. f.fin => m <= Complete' /\ messages'[m] = begin + n
      BY <1>4, <1>6, <1>7, <1>10
    <2>4. f.opcode \in DataOpcode
      BY <1>6 DEF DataOpcode
    <2> QED
      BY <1>3, <1>6, <1>11, <2>1, <2>2, <2>3, <2>4 DEF Carries
  <1>13. StreamInv'
    <2>1. /\ Complete <= Complete'
          /\ \A i \in 1..Complete : messages'[i] = messages[i]
      BY <1>4, <1>7, <1>10
    <2> QED
      BY <1>2, <1>6, <1>8, <1>9, <1>12, <2>1, WriteStep
  <1>14. CloseInv'
    BY <1>2, ForeignClose DEF CloseInv
  <1> QED
    BY <1>8, <1>9, <1>13, <1>14 DEF IInv

LEMMA PeerControlStep ==
    ASSUME IInv, NEW kind \in {"ping", "pong", "close", "other"}, PeerControl(kind),
           UNCHANGED <<senderVars, writer>>, writer = "foreign"
    PROVE  IInv'
  <1> DEFINE f == MakeFrame(kind, TRUE, 0, <<>>)
  <1>1. /\ wire' = Append(wire, f)
        /\ UNCHANGED <<messages, payload, reader, delivered, fragments, sending, size, opcode, writer>>
    BY DEF PeerControl, Write, senderVars
  <1>2. f \in Frame /\ f.opcode = kind
    BY ControlFrameMade DEF Opcode
  <1> HIDE DEF f
  <1>3. Types'
    BY <1>1, <1>2, WriteType DEF IInv, Types
  <1>4. WriterInv'
    BY <1>1 DEF IInv, WriterInv
  <1>5. Complete' = Complete /\ Complete \in Nat
    BY <1>1, CompleteType DEF IInv, Complete
  <1>6. There' = There
    BY <1>1, <1>5 DEF There
  <1>7. Carries(f, There, There', messages', Complete')
    BY <1>2, <1>6 DEF Carries, DataOpcode
  <1>8. StreamInv'
    <2>1. Complete <= Complete' /\ \A m \in 1..Complete : messages'[m] = messages[m]
      BY <1>1, <1>5
    <2> QED
      BY <1>1, <1>2, <1>3, <1>4, <1>7, <2>1, WriteStep
  <1>9. CloseInv'
    BY <1>1, ForeignClose DEF CloseInv
  <1> QED
    BY <1>3, <1>4, <1>8, <1>9 DEF IInv

---------------------------------------------------------------------------
(* The reader *)

\* What is left on the wire, and where the first frame of it leads.
LEMMA ReadType ==
    ASSUME IInv, NEW opcodes, NextFrame(opcodes)
    PROVE  /\ Head(wire).opcode \in opcodes /\ Head(wire) \in Frame
           /\ wire' = Tail(wire) /\ wire' \in Seq(Frame)
           /\ Len(wire) \in Nat \ {0} /\ Len(wire') = Len(wire) - 1
           /\ Head(wire) = wire[1]
           /\ \A i \in 1..Len(wire') : wire'[i] = wire[i + 1]
           /\ Len(wire) = 1 => wire' = <<>>
           /\ Len(delivered) \in Nat /\ Len(payload) \in Nat
           /\ payload = Bytes(Len(delivered) + 1, 0, Len(payload))
           /\ Here \in Place
           /\ \E b \in Place : /\ Carries(Head(wire), Here, b, messages, Complete)
                               /\ Leads(wire', b, There, messages, Complete)
  <1>1. wire \in Seq(Frame) /\ wire # <<>> /\ reader = "reading" /\ wire' = Tail(wire)
    BY DEF IInv, Types, NextFrame
  <1>2. /\ Head(wire) \in Frame /\ wire' \in Seq(Frame)
        /\ Len(wire) \in Nat \ {0} /\ Len(wire') = Len(wire) - 1
        /\ Head(wire) = wire[1]
        /\ \A i \in 1..Len(wire') : wire'[i] = wire[i + 1]
    BY <1>1, HeadTailProperties, EmptySeq
  <1>3. Len(wire) = 1 => wire' = <<>>
    BY <1>2, EmptySeq
  <1>4. /\ Len(delivered) \in Nat /\ Len(payload) \in Nat
        /\ payload = Bytes(Len(delivered) + 1, 0, Len(payload))
    BY <1>1, LenProperties DEF IInv, Types, StreamInv
  <1>5. Here \in Place
    BY <1>4 DEF Here, At, Place
  <1>6. Leads(wire, Here, There, messages, Complete)
    BY <1>1 DEF IInv, StreamInv
  <1>7. \E b \in Place : /\ Carries(Head(wire), Here, b, messages, Complete)
                        /\ Leads(wire', b, There, messages, Complete)
    BY <1>1, <1>6, LeadsFrom
  <1> QED
    BY <1>1, <1>2, <1>3, <1>4, <1>5, <1>7 DEF NextFrame

\* Reading anything but the close frame leaves it the last.
LEMMA ReadKeepsClose ==
    ASSUME IInv, NEW opcodes, NextFrame(opcodes),
           UNCHANGED <<reader, writer, sending>>
    PROVE  CloseInv'
  <1>1. /\ Len(wire) \in Nat \ {0} /\ Len(wire') = Len(wire) - 1
        /\ \A i \in 1..Len(wire') : wire'[i] = wire[i + 1]
    BY ReadType
  <1>2. reader = "reading"
    BY DEF NextFrame
  <1>3. ASSUME writer = "library", NEW i \in 1..Len(wire')
        PROVE  \/ wire'[i].opcode \in {"text", "continuation"}
               \/ wire'[i].opcode = "close" /\ i = Len(wire') /\ sending = "closed"
    <2>1. i + 1 \in 1..Len(wire) /\ (i + 1 = Len(wire) => i = Len(wire'))
      BY <1>1
    <2> QED
      BY <1>1, <1>3, <2>1 DEF IInv, CloseInv
  <1> QED
    BY <1>2, <1>3 DEF CloseInv

LEMMA ReadDataStep ==
    ASSUME IInv, ReadData,
           UNCHANGED <<senderVars, peerVars, writer>>
    PROVE  IInv'
  <1> DEFINE f == Head(wire)
             k == Len(delivered) + 1
             at == Len(payload)
             read == ApplyMask(payload \o Body(f), Len(Body(f)), f.key)
  <1>1. /\ NextFrame(DataOpcode)
        /\ IF f.fin THEN delivered' = Append(delivered, read) /\ payload' = <<>>
                    ELSE payload' = read /\ delivered' = delivered
        /\ UNCHANGED <<messages, reader, fragments, sending, size, opcode, writer>>
    BY DEF ReadData, senderVars, peerVars
  <1>2. /\ f.opcode \in DataOpcode /\ f \in Frame /\ wire' \in Seq(Frame)
        /\ k \in Nat \ {0} /\ at \in Nat /\ payload = Bytes(k, 0, at)
        /\ \E b \in Place : /\ Carries(f, Here, b, messages, Complete)
                            /\ Leads(wire', b, There, messages, Complete)
    BY <1>1, ReadType
  <1>3. PICK b \in Place : /\ Carries(f, Here, b, messages, Complete)
                          /\ Leads(wire', b, There, messages, Complete)
    BY <1>2
  <1>4. Here.message = k /\ Here.at = at
    BY DEF Here, At
  <1>5. PICK n \in FrameLengths, key \in Nat :
          /\ f = MakeFrame(f.opcode, f.fin, key, Bytes(k, at, n))
          /\ key = 0 \/ at = 0
          /\ b = IF f.fin THEN At(k + 1, 0) ELSE At(k, at + n)
          /\ f.fin => k <= Complete /\ messages[k] = at + n
    BY <1>2, <1>3, <1>4 DEF Carries
  <1>6. n \in Nat /\ at + n \in Nat /\ f.fin \in BOOLEAN
    BY <1>2, <1>5, FrameLengthType, FrameType
  <1>7. read = Bytes(k, 0, at + n)
    <2> DEFINE g(op, fin) == MakeFrame(op, fin, key, Bytes(k, at, n))
    <2>1. \A op, fin : ApplyMask(Bytes(k, 0, at) \o Body(g(op, fin)),
                                Len(Body(g(op, fin))), g(op, fin).key)
                          = Bytes(k, 0, at + n)
      BY <1>2, <1>5, FrameAddsItsBytes
    <2> QED
      BY <1>2, <1>5, <2>1
  <1> HIDE DEF f, k, at, read
  <1>8. read \in Seq(AnyByte) /\ Len(read) = at + n
    BY <1>2, <1>6, <1>7, BytesType
  <1>9. /\ delivered \in Seq(Seq(AnyByte)) /\ Len(delivered) = k - 1
        /\ Complete \in Nat /\ Complete' = Complete /\ There' = There
    <2>1. Complete' = Complete
      BY <1>1 DEF Complete
    <2> QED
      BY <1>1, <1>2, <2>1, CompleteType, LenProperties DEF IInv, Types, There, k
  <1>10. CASE f.fin
    <2>1. delivered' = Append(delivered, read) /\ payload' = <<>>
      BY <1>1, <1>10
    <2>2. /\ delivered' \in Seq(Seq(AnyByte)) /\ Len(delivered') = k
          /\ \A m \in 1..(k - 1) : delivered'[m] = delivered[m]
          /\ delivered'[k] = read
      <3>1. Len(delivered) + 1 = k
        BY <1>2, <1>9
      <3> QED
        BY <1>8, <1>9, <2>1, <3>1, AppendProperties
    <2>3. Types'
      BY <1>1, <1>2, <2>2 DEF IInv, Types
    <2>4. \A m \in 1..k : delivered'[m] = Payload(m)'
      <3>1. delivered'[k] = Bytes(k, 0, messages[k])
        BY <1>5, <1>7, <1>10, <2>2
      <3>2. \A m \in 1..(k - 1) : delivered'[m] = Bytes(m, 0, messages[m])
        BY <1>9, <2>2 DEF IInv, StreamInv, Payload
      <3>3. \A m \in 1..k : m \in 1..(k - 1) \/ m = k
        BY <1>2
      <3> QED
        BY <1>1, <3>1, <3>2, <3>3 DEF Payload
    <2>5. /\ payload' \in Seq(AnyByte) /\ Len(payload') = 0
          /\ payload' = Bytes(k + 1, 0, 0)
      BY <2>1, EmptySeq, NoBytes
    <2>6. Leads(wire', Here', There', messages', Complete')
      <3>1. Here' = At(k + 1, 0)
        BY <2>2, <2>5 DEF Here
      <3> QED
        BY <1>1, <1>3, <1>5, <1>9, <1>10, <3>1
    <2>7. StreamInv'
      BY <1>5, <1>9, <1>10, <2>2, <2>4, <2>5, <2>6 DEF StreamInv
    <2> QED
      BY <1>1, <2>3, <2>7, ReadKeepsClose DEF IInv, WriterInv
  <1>11. CASE ~f.fin
    <2>1. payload' = read /\ delivered' = delivered
      BY <1>1, <1>11
    <2>2. Types'
      BY <1>1, <1>2, <2>1 DEF IInv, Types
    <2>3. Leads(wire', Here', There', messages', Complete')
      <3>1. Here' = At(k, at + n)
        BY <1>8, <2>1 DEF Here, k
      <3> QED
        BY <1>1, <1>3, <1>5, <1>9, <1>11, <3>1
    <2>4. StreamInv'
      <3>1. payload' = Bytes(Len(delivered') + 1, 0, Len(payload'))
        BY <1>7, <1>8, <2>1 DEF k
      <3>2. payload' \in Seq(AnyByte)
        BY <1>8, <2>1
      <3>3. Len(delivered') <= Complete'
        BY <1>9, <2>1 DEF IInv, StreamInv
      <3>4. \A m \in 1..Len(delivered') : delivered'[m] = Payload(m)'
        BY <1>1, <2>1 DEF IInv, StreamInv, Payload
      <3> QED
        BY <2>3, <3>1, <3>2, <3>3, <3>4 DEF StreamInv
    <2> QED
      BY <1>1, <2>2, <2>4, ReadKeepsClose DEF IInv, WriterInv
  <1> QED
    BY <1>6, <1>10, <1>11

\* A ping and a pong leave the reader where it is in the stream.
LEMMA ReadControlStep ==
    ASSUME IInv, NextFrame({"ping", "pong"}),
           UNCHANGED <<messages, payload, reader, delivered, senderVars, peerVars, writer>>
    PROVE  IInv'
  <1>1. UNCHANGED <<messages, payload, reader, delivered, fragments, sending, size, opcode, writer>>
    BY DEF senderVars, peerVars
  <1>2. PICK b \in Place : /\ Carries(Head(wire), Here, b, messages, Complete)
                          /\ Leads(wire', b, There, messages, Complete)
    BY ReadType
  <1>3. b = Here
    BY <1>2, ReadType DEF Carries, DataOpcode
  <1>4. Complete' = Complete
    BY <1>1 DEF Complete
  <1>5. There' = There /\ Here' = Here
    BY <1>1, <1>4 DEF There, Here
  <1>6. Leads(wire', Here', There', messages', Complete')
    BY <1>1, <1>2, <1>3, <1>4, <1>5
  <1>7. StreamInv'
    BY <1>1, <1>4, <1>6 DEF IInv, StreamInv, Payload
  <1>8. Types' /\ WriterInv'
    BY <1>1, ReadType DEF IInv, Types, WriterInv
  <1> QED
    BY <1>1, <1>7, <1>8, ReadKeepsClose DEF IInv

\* A close frame, or one of an unknown kind, ends the reader; the library writes only
\* the former, and all of its messages before.
LEMMA ReadEndStep ==
    ASSUME IInv, NEW kind \in {"close", "other"}, NextFrame({kind}), reader' = "ended",
           UNCHANGED <<messages, delivered, senderVars, peerVars, writer>>
    PROVE  IInv'
  <1>1. UNCHANGED <<messages, delivered, fragments, sending, size, opcode, writer>>
    BY DEF senderVars, peerVars
  <1>2. Complete' = Complete
    BY <1>1 DEF Complete
  <1>3. Types' /\ WriterInv'
    BY <1>1, ReadType DEF IInv, Types, WriterInv
  <1>4. StreamInv'
    BY <1>1, <1>2 DEF IInv, StreamInv, Payload
  <1>5. ASSUME writer = "library"
        PROVE  wire' = <<>> /\ sending = "closed" /\ Len(delivered) = Complete
    <2>1. Len(wire) = 1 /\ sending = "closed" /\ wire' = <<>>
      <3>1. /\ wire[1].opcode = kind /\ Len(wire) \in Nat \ {0} /\ 1 \in 1..Len(wire)
            /\ Len(wire) = 1 => wire' = <<>>
        BY ReadType
      <3> QED
        BY <1>5, <3>1 DEF IInv, CloseInv
    <2>2. PICK b \in Place : /\ Carries(Head(wire), Here, b, messages, Complete)
                            /\ Leads(wire', b, There, messages, Complete)
      BY ReadType
    <2>3. b = Here
      BY <2>2, ReadType DEF Carries, DataOpcode
    <2>4. Here = There
      BY <2>1, <2>2, <2>3, LeadsNowhere
    <2>5. Len(delivered) + 1 = Complete + 1
      BY <2>4 DEF Here, There, At
    <2>6. Len(delivered) \in Nat /\ Complete \in Nat
      BY ReadType, CompleteType DEF IInv
    <2> QED
      BY <2>1, <2>5, <2>6
  <1>6. CloseInv'
    BY <1>1, <1>2, <1>5, LenProperties, EmptySeq DEF CloseInv
  <1> QED
    BY <1>3, <1>4, <1>6 DEF IInv

---------------------------------------------------------------------------
(* The theorems *)

LEMMA Initially == Init => IInv
  <1> SUFFICES ASSUME Init PROVE IInv
    OBVIOUS
  <1> USE DEF Init, ReaderInit, SenderInit, PeerInit
  <1>1. Types
    BY EmptySeq, WriterAssumption DEF Types
  <1>2. Len(<<>>) = 0
    OBVIOUS
  <1>3. WriterInv /\ Complete = 0 /\ CloseInv
    BY <1>2 DEF WriterInv, Complete, CloseInv
  <1>4. Here = At(1, 0) /\ There = At(1, 0)
    BY <1>2, <1>3 DEF Here, There
  <1>5. Leads(wire, Here, There, messages, Complete)
    <2>1. At(1, 0) \in Place
      BY DEF At, Place
    <2> QED
      BY <1>4, <2>1, LeadsNowhere
  <1>6. StreamInv
    <2>1. payload = Bytes(1, 0, 0) /\ payload \in Seq(AnyByte)
      BY NoBytes, EmptySeq
    <2> QED
      BY <1>2, <1>3, <1>5, <2>1 DEF StreamInv
  <1> QED
    BY <1>1, <1>3, <1>6 DEF IInv

\* Every step of either end and of the reader keeps the invariant.
LEMMA Inductive ==
    ASSUME NoneFillsItsFrames, OnlyFirstAreMasked, IInv, [Next]_vars
    PROVE  IInv'
  <1>1. CASE SendFrame
    <2>1. writer = "library" /\ UNCHANGED <<peerVars, writer>> /\ Send
      BY <1>1 DEF SendFrame
    <2>2. CASE \E n \in Sizes : SendText(n)
      BY <2>1, <2>2, SendTextStep
    <2>3. CASE SendFragment
      BY <2>1, <2>3, SendFragmentStep
    <2>4. CASE SendClose
      BY <2>1, <2>4, SendCloseStep
    <2> QED
      BY <2>1, <2>2, <2>3, <2>4 DEF Send
  <1>2. CASE PeerWrites
    <2>1. writer = "foreign" /\ UNCHANGED <<senderVars, writer>> /\ Peer
      BY <1>2 DEF PeerWrites
    <2>2. CASE \E n \in BodySizes, key \in FirstKeys, fin \in BOOLEAN : PeerFirst(n, key, fin)
      BY <2>1, <2>2, PeerFirstStep
    <2>3. CASE \E n \in BodySizes, key \in LaterKeys, fin \in BOOLEAN :
                   PeerContinuation(n, key, fin)
      BY <2>1, <2>3, PeerContinuationStep
    <2>4. CASE \E kind \in {"ping", "pong", "close", "other"} : PeerControl(kind)
      BY <2>1, <2>4, PeerControlStep
    <2> QED
      BY <2>1, <2>2, <2>3, <2>4 DEF Peer
  <1>3. CASE ReadFrame
    <2>1. Read /\ UNCHANGED <<senderVars, peerVars, writer>>
      BY <1>3 DEF ReadFrame
    <2>2. CASE ReadData
      BY <2>1, <2>2, ReadDataStep
    <2>3. CASE ReadClose
      BY <2>1, <2>3, ReadEndStep DEF ReadClose
    <2>4. CASE ReadPing
      BY <2>1, <2>4, ReadControlStep DEF ReadPing, NextFrame
    <2>5. CASE ReadPong
      BY <2>1, <2>5, ReadControlStep DEF ReadPong, NextFrame
    <2>6. CASE ReadBadInput
      BY <2>1, <2>6, ReadEndStep DEF ReadBadInput
    <2> QED
      BY <2>1, <2>2, <2>3, <2>4, <2>5, <2>6 DEF Read
  <1>4. CASE send_close \/ UNCHANGED vars
    <2>1. UNCHANGED <<messages, wire, payload, reader, delivered, size, sending, opcode,
                      fragments, writer>>
      BY <1>4 DEF send_close, vars, readerVars, senderVars, peerVars
    <2>2. Complete' = Complete
      BY <2>1 DEF Complete
    <2>3. Here' = Here /\ There' = There
      BY <2>1, <2>2 DEF Here, There
    <2> QED
      BY <2>1, <2>2, <2>3 DEF IInv, Types, WriterInv, StreamInv, CloseInv, Payload
  <1> QED
    BY <1>1, <1>2, <1>3, <1>4 DEF Next

(* The invariant holds of every execution in which no message fills its last frame and
   only first frames are masked. *)
THEOREM Invariance ==
    ASSUME NoneFillsItsFrames, OnlyFirstAreMasked
    PROVE  Spec => []IInv
  <1>1. IInv /\ [Next]_vars => IInv'
    BY Inductive
  <1> QED
    BY <1>1, Initially, PTL DEF Spec

(* The handler is given the messages that were written, byte for byte and in order,
   whatever their sizes, the frames they are cut into and the control frames between
   them. *)
THEOREM DeliveryIsFaithful ==
    ASSUME NoneFillsItsFrames, OnlyFirstAreMasked
    PROVE  Spec => []DeliveredAsSent
  <1>1. IInv => DeliveredAsSent
    <2> SUFFICES ASSUME IInv PROVE DeliveredAsSent
      OBVIOUS
    <2>1. DOMAIN delivered = 1..Len(delivered)
      BY LenProperties DEF IInv, Types
    <2> QED
      BY <2>1 DEF IInv, StreamInv, DeliveredAsSent
  <1> QED
    BY <1>1, Invariance, PTL

(* A reader that has caught up has delivered every complete message and holds exactly
   what there is of the next; the library's own close frame drops none. *)
THEOREM DeliveryIsComplete ==
    ASSUME NoneFillsItsFrames, OnlyFirstAreMasked
    PROVE  Spec => []NothingHeldBack
  <1>1. IInv => NothingHeldBack
    <2> SUFFICES ASSUME IInv, wire = <<>> PROVE
             /\ reader = "reading" \/ writer = "library" => Len(delivered) = Complete
             /\ reader = "reading" =>
                  payload = IF Complete = Len(messages) THEN <<>> ELSE Payload(Len(messages))
      BY DEF NothingHeldBack
    <2>1. /\ Len(delivered) \in Nat /\ Complete \in Nat /\ Len(messages) \in Nat
          /\ Complete = Len(messages) \/ Complete = Len(messages) - 1
      BY CompleteType, LenProperties DEF IInv, Types
    <2>2. ASSUME reader = "reading"
          PROVE  /\ Len(delivered) = Complete
                 /\ Len(payload) = IF Complete = Len(messages) THEN 0
                                   ELSE messages[Len(messages)]
                 /\ payload = Bytes(Len(delivered) + 1, 0, Len(payload))
      <3>1. /\ payload \in Seq(AnyByte) /\ payload = Bytes(Len(delivered) + 1, 0, Len(payload))
            /\ Leads(<<>>, Here, There, messages, Complete)
        BY <2>2 DEF IInv, StreamInv
      <3>2. Here \in Place
        BY <2>1, <3>1, LenProperties DEF Here, At, Place
      <3>3. Here = There
        BY <3>1, <3>2, LeadsNowhere
      <3>4. Len(delivered) + 1 = Complete + 1
        BY <3>3 DEF Here, There, At
      <3>5. Len(payload) = IF Complete = Len(messages) THEN 0 ELSE messages[Len(messages)]
        BY <3>3 DEF Here, There, At
      <3> QED
        BY <2>1, <3>1, <3>4, <3>5
    <2>3. reader = "reading" =>
            payload = IF Complete = Len(messages) THEN <<>> ELSE Payload(Len(messages))
      <3>1. CASE Complete = Len(messages)
        BY <2>2, <3>1, NoBytes
      <3>2. CASE Complete # Len(messages)
        <4>1. Complete + 1 = Len(messages)
          BY <2>1, <3>2
        <4> QED
          BY <2>2, <3>2, <4>1 DEF Payload
      <3> QED
        BY <3>1, <3>2
    <2> QED
      BY <2>2, <2>3 DEF IInv, Types, CloseInv
  <1> QED
    BY <1>1, Invariance, PTL

(* A ping that comes while a close frame waits to be sent does not put its pong in the
   close frame's place, whatever the stream is like. *)
THEOREM CloseIsKept == Spec => CloseRequestStays
  <1>1. [Next]_vars => (pending_control_frame = "CLOSE" => pending_control_frame' = "CLOSE")
    <2> SUFFICES ASSUME [Next]_vars, pending_control_frame = "CLOSE"
                 PROVE  pending_control_frame' = "CLOSE"
      OBVIOUS
    <2>1. CASE SendFrame
      BY <2>1 DEF SendFrame, Send, SendText, SendFragment, SendClose, readerVars
    <2>2. CASE PeerWrites
      BY <2>2 DEF PeerWrites, Peer, PeerFirst, PeerContinuation, PeerControl, Write
    <2>3. CASE ReadFrame
      BY <2>3 DEF ReadFrame, Read, ReadData, ReadClose, ReadPing, ReadPong, ReadBadInput
    <2>4. CASE send_close \/ UNCHANGED vars
      BY <2>4 DEF send_close, vars, readerVars
    <2> QED
      BY <2>1, <2>2, <2>3, <2>4 DEF Next
  <1> QED
    BY <1>1, PTL DEF Spec, CloseRequestStays
=============================================================================
