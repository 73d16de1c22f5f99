----------------------------- MODULE TextProofs -----------------------------
(***************************************************************************)
(* Routes and the strings that stand for them: for every map of routes and *)
(* every string, the parser reads what is spelled and nothing else, and    *)
(* what is put into the address bar comes back.  On that rests what the    *)
(* address bar, the two stores of nav_route and the history say of one     *)
(* another, for a history of any length.  Then the tiles: games of any     *)
(* length; the requests to a store, and their answers; bytes and their     *)
(* texts; and last the cookies and the headers of a handshake.             *)
(***************************************************************************)
EXTENDS NavRoute, Texts, SequenceTheorems, FiniteSetTheorems, WellFoundedInduction, TLAPS

---------------------------------------------------------------------------
(* Numbers and sequences *)

\* A set of numbers has a least element.
LEMMA LeastElement ==
    ASSUME NEW T, T \subseteq Nat, T # {}
    PROVE  \E x \in T : \A y \in T : ~ (y < x)
  <1>1. \E x \in T : \A y \in T : <<y, x>> \notin OpToRel(<, Nat)
    BY NatLessThanWellFounded, WFMin, Zenon
  <1> QED BY <1>1 DEF OpToRel

\* Induction over the numbers, for sets.
LEMMA EveryNat ==
    ASSUME NEW T, 0 \in T, \A n \in Nat : n \in T => n + 1 \in T
    PROVE  Nat \subseteq T
  <1> SUFFICES ASSUME Nat \ T # {} PROVE FALSE
    OBVIOUS
  <1>1. PICK x \in Nat \ T : \A y \in Nat \ T : ~ (y < x)
    BY LeastElement
  <1>2. x # 0 /\ x - 1 \in Nat
    BY SMT
  <1>3. x - 1 \in T
    BY <1>1, <1>2, SMT
  <1>4. x \in T
    BY <1>3, <1>2, SMT
  <1> QED BY <1>4

\* Induction over sequences, for sets.
LEMMA EverySeq ==
    ASSUME NEW S, NEW T, <<>> \in T,
           \A s \in Seq(S), e \in S : s \in T => Append(s, e) \in T
    PROVE  Seq(S) \subseteq T
<1> DEFINE N == {n \in Nat : \A s \in Seq(S) : Len(s) = n => s \in T}
<1>1. 0 \in N
  BY EmptySeq
<1>2. ASSUME NEW n \in Nat, n \in N PROVE n + 1 \in N
  <2>1. ASSUME NEW s \in Seq(S), Len(s) = n + 1 PROVE s \in T
    <3>1. s # <<>>
      BY <2>1
    <3>2. PICK t \in Seq(S), e \in S : s = Append(t, e)
      BY <3>1, SequenceEmptyOrAppend
    <3>3. Len(t) = n
      BY <2>1, <3>2, AppendProperties, LenProperties
    <3>4. t \in T
      BY <1>2, <3>3
    <3> QED
      BY <3>2, <3>4
  <2> QED
    BY <2>1
<1>3. Nat \subseteq N
  <2> HIDE DEF N
  <2> QED
    BY <1>1, <1>2, EveryNat
<1> QED
  BY <1>3, LenProperties

\* A further element comes behind both of two.
LEMMA AppendToConcat ==
    ASSUME NEW S, NEW s \in Seq(S), NEW t \in Seq(S), NEW e \in S
    PROVE  s \o Append(t, e) = Append(s \o t, e)
<1>1. <<e>> \in Seq(S) /\ s \o t \in Seq(S)
  BY ConcatProperties
<1>2. Append(t, e) = t \o <<e>> /\ Append(s \o t, e) = (s \o t) \o <<e>>
  BY <1>1, AppendIsConcat
<1> QED
  BY <1>1, <1>2, ConcatAssociative

---------------------------------------------------------------------------
(* Segments *)

\* What a segment is made of, and the strings that begin with one.
Word == {w \in Seq(Char) : IsWord(w)}
Slashed == {s \in Seq(Char) : s # <<>> => s[1] = "/"}

\* The function in the definition of Segments, up to n.
Found(f, s, n) == f = [i \in 0..n |-> IF i = 0 THEN <<>> ELSE Longer(f[i - 1], s[i])]

LEMMA FoundExists ==
    ASSUME NEW s
    PROVE  \A n \in Nat : \E f : Found(f, s, n)
<1> DEFINE T == {n \in Nat : \E f : Found(f, s, n)}
<1>1. 0 \in T
  <2> DEFINE f == [i \in 0..0 |-> <<>>]
  <2>1. Found(f, s, 0)
    BY SMT DEF Found
  <2> QED
    BY <2>1
<1>2. ASSUME NEW n \in Nat, n \in T PROVE n + 1 \in T
  <2>1. PICK f : Found(f, s, n)
    BY <1>2
  <2> DEFINE last == Longer(f[n], s[n + 1])
             g == [i \in 0..(n + 1) |-> IF i = n + 1 THEN last ELSE f[i]]
  <2>2. \A i \in 0..n : f[i] = IF i = 0 THEN <<>> ELSE Longer(f[i - 1], s[i])
    BY <2>1, Zenon DEF Found
  <2>3. \A i \in 0..(n + 1) : g[i] = IF i = 0 THEN <<>> ELSE Longer(g[i - 1], s[i])
    BY <2>2, SMT
  <2>4. Found(g, s, n + 1)
    BY <2>3, SMT DEF Found
  <2> QED
    BY <2>4
<1> QED
  BY <1>1, <1>2, EveryNat

\* It looks at no character behind the one it has come to.
LEMMA FoundAgrees ==
    ASSUME NEW s, NEW t, NEW m \in Nat, NEW n \in Nat, NEW f, NEW g,
           Found(f, s, m), Found(g, t, n),
           NEW k \in Nat, k =< m, k =< n, \A i \in 1..k : s[i] = t[i]
    PROVE  f[k] = g[k]
<1>1. \A i \in 0..m : f[i] = IF i = 0 THEN <<>> ELSE Longer(f[i - 1], s[i])
  BY Zenon DEF Found
<1>2. \A i \in 0..n : g[i] = IF i = 0 THEN <<>> ELSE Longer(g[i - 1], t[i])
  BY Zenon DEF Found
<1> DEFINE T == {i \in Nat : i =< k => f[i] = g[i]}
<1>3. 0 \in T
  BY <1>1, <1>2
<1>4. ASSUME NEW i \in Nat, i \in T PROVE i + 1 \in T
  <2>1. CASE i + 1 =< k
    <3>1. /\ i + 1 \in 0..m /\ i + 1 \in 0..n /\ i + 1 # 0 /\ (i + 1) - 1 = i
          /\ i + 1 \in 1..k /\ i =< k
      BY <2>1
    <3>2. f[i + 1] = Longer(f[i], s[i + 1]) /\ g[i + 1] = Longer(g[i], t[i + 1])
      BY <1>1, <1>2, <3>1, Zenon
    <3>3. f[i] = g[i] /\ s[i + 1] = t[i + 1]
      BY <1>4, <3>1
    <3> QED
      BY <3>2, <3>3
  <2> QED
    BY <2>1
<1>5. Nat \subseteq T
  <2> HIDE DEF T
  <2> QED
    BY <1>3, <1>4, EveryNat
<1> QED
  BY <1>5

\* Segments character by character.
LEMMA SegmentsOfNone == Segments(<<>>) = <<>>
<1> DEFINE f == CHOOSE f : Found(f, <<>>, 0)
<1>1. Found(f, <<>>, 0)
  BY FoundExists
<1>2. Len(<<>>) = 0
  OBVIOUS
<1>3. Segments(<<>>) = (CHOOSE h : Found(h, <<>>, Len(<<>>)))[Len(<<>>)]
  BY Zenon DEF Segments, Found
<1>4. Segments(<<>>) = f[0]
  BY <1>2, <1>3
<1> HIDE DEF f
<1>5. f[0] = <<>>
  BY <1>1 DEF Found
<1> QED
  BY <1>4, <1>5

LEMMA SegmentsOfMore ==
    ASSUME NEW s \in Seq(Char), NEW c \in Char
    PROVE  Segments(Append(s, c)) = Longer(Segments(s), c)
<1> DEFINE t == Append(s, c)
           n == Len(s)
<1>1. /\ n \in Nat /\ n + 1 \in Nat /\ t \in Seq(Char) /\ Len(t) = n + 1
      /\ t[n + 1] = c /\ \A i \in 1..n : s[i] = t[i]
  BY AppendProperties, LenProperties
<1> DEFINE f == CHOOSE f : Found(f, s, n)
           g == CHOOSE g : Found(g, t, n + 1)
<1> HIDE DEF t
<1>2. Found(f, s, n) /\ Found(g, t, n + 1)
  <2>1. \E h : Found(h, s, n)
    BY <1>1, FoundExists, Zenon
  <2>2. \E h : Found(h, t, n + 1)
    BY <1>1, FoundExists, Zenon
  <2> QED
    BY <2>1, <2>2, Zenon
<1>3. Segments(s) = f[n]
  BY Zenon DEF Segments, Found
<1>4. Segments(t) = (CHOOSE h : Found(h, t, Len(t)))[Len(t)]
  BY Zenon DEF Segments, Found
<1>5. Segments(t) = g[n + 1]
  BY <1>1, <1>4
<1> HIDE DEF f, g, n
<1>6. f[n] = g[n]
  BY <1>1, <1>2, FoundAgrees
<1>7. g[n + 1] = Longer(g[n], t[n + 1])
  <2>1. \A i \in 0..(n + 1) : g[i] = IF i = 0 THEN <<>> ELSE Longer(g[i - 1], t[i])
    BY <1>2, Zenon DEF Found
  <2>2. n + 1 \in 0..(n + 1) /\ n + 1 # 0 /\ (n + 1) - 1 = n
    BY <1>1
  <2> QED
    BY <2>1, <2>2, Zenon
<1> QED
  BY <1>1, <1>3, <1>5, <1>6, <1>7 DEF t

LEMMA LongerType ==
    ASSUME NEW segments \in Seq(Word), NEW c \in Char, c = "/" \/ segments # <<>>
    PROVE  Longer(segments, c) \in Seq(Word) /\ Longer(segments, c) # <<>>
<1>1. CASE c = "/"
  <2>1. <<>> \in Word
    BY DEF Word, IsWord
  <2> QED
    BY <1>1, <2>1, AppendProperties DEF Longer
<1>2. CASE c # "/"
  <2> DEFINE n == Len(segments)
  <2>1. n \in 1..n /\ segments[n] \in Word /\ n # 0
    BY <1>2, LenProperties, EmptySeq
  <2>2. Append(segments[n], c) \in Word
    <3> DEFINE u == segments[n]
    <3>1. u \in Seq(Char) /\ \A i \in 1..Len(u) : u[i] # "/"
      BY <2>1, LenProperties DEF Word, IsWord
    <3> HIDE DEF u
    <3>2. /\ Append(u, c) \in Seq(Char) /\ DOMAIN Append(u, c) = 1..(Len(u) + 1)
          /\ \A i \in 1..Len(u) : Append(u, c)[i] = u[i]
          /\ Append(u, c)[Len(u) + 1] = c /\ Len(u) \in Nat
      BY <3>1, AppendProperties, LenProperties
    <3>3. \A i \in 1..(Len(u) + 1) : Append(u, c)[i] # "/"
      BY <1>2, <3>1, <3>2
    <3> QED
      BY <3>2, <3>3 DEF Word, IsWord, u
  <2> DEFINE e == Append(segments[n], c)
  <2>3. Longer(segments, c) = [segments EXCEPT ![n] = e]
    BY <1>2 DEF Longer
  <2>4. e \in Word /\ n \in 1..Len(segments)
    BY <2>1, <2>2
  <2> HIDE DEF n, e
  <2>5. [segments EXCEPT ![n] = e] \in Seq(Word) /\ Len([segments EXCEPT ![n] = e]) = Len(segments)
    BY <2>4, ExceptSeq
  <2>6. Len(segments) # 0
    BY <2>1 DEF n
  <2> QED
    BY <2>3, <2>5, <2>6, EmptySeq
<1> QED
  BY <1>1, <1>2

LEMMA SegmentsType ==
    ASSUME NEW s \in Slashed
    PROVE  Segments(s) \in Seq(Word) /\ (s # <<>> => Segments(s) # <<>>)
<1> DEFINE T == {t \in Seq(Char) : t \in Slashed =>
                    Segments(t) \in Seq(Word) /\ (t # <<>> => Segments(t) # <<>>)}
<1>1. <<>> \in T
  BY SegmentsOfNone, EmptySeq
<1>2. ASSUME NEW t \in Seq(Char), NEW c \in Char, t \in T PROVE Append(t, c) \in T
  <2> SUFFICES ASSUME Append(t, c) \in Slashed
               PROVE  /\ Segments(Append(t, c)) \in Seq(Word)
                      /\ Segments(Append(t, c)) # <<>>
    BY AppendProperties
  <2>1. CASE t = <<>>
    <3>1. c = "/"
      BY <2>1 DEF Slashed
    <3>2. Segments(t) \in Seq(Word)
      BY <2>1, SegmentsOfNone, EmptySeq
    <3> QED
      BY <3>1, <3>2, SegmentsOfMore, LongerType
  <2>2. CASE t # <<>>
    <3>1. t[1] = "/"
      <4>1. Len(t) \in Nat /\ Len(t) # 0 /\ 1 \in 1..Len(t)
        BY <2>2, EmptySeq
      <4>2. Append(t, c)[1] = t[1] /\ Append(t, c) # <<>>
        BY <4>1, AppendProperties
      <4>3. Append(t, c) # <<>> => Append(t, c)[1] = "/"
        BY Zenon DEF Slashed
      <4> QED
        BY <4>2, <4>3
    <3>2. Segments(t) \in Seq(Word) /\ Segments(t) # <<>>
      BY <1>2, <2>2, <3>1 DEF Slashed
    <3> QED
      BY <3>2, SegmentsOfMore, LongerType
  <2> QED
    BY <2>1, <2>2
<1>3. Seq(Char) \subseteq T
  <2> HIDE DEF T
  <2> QED
    BY <1>1, <1>2, EverySeq
<1> QED
  BY <1>3 DEF Slashed

\* What comes behind a slash and has none is the next segment.
LEMMA WordIsSegment ==
    ASSUME NEW s \in Slashed, NEW w \in Word
    PROVE  LET t == (s \o <<"/">>) \o w
           IN  t \in Slashed /\ t # <<>> /\ Segments(t) = Append(Segments(s), w)
<1>1. /\ s \in Seq(Char) /\ <<"/">> \in Seq(Char)
      /\ s \o <<"/">> \in Seq(Char) /\ s \o <<"/">> = Append(s, "/")
  <2>1. s \in Seq(Char) /\ "/" \in Char
    BY RouteMapAssumption DEF Slashed
  <2>2. <<"/">> \in Seq(Char)
    BY <2>1
  <2> QED
    BY <2>1, <2>2, AppendIsConcat, ConcatProperties
<1> DEFINE p == s \o <<"/">>
           T == {v \in Seq(Char) : IsWord(v) =>
                     Segments(p \o v) = Append(Segments(s), v)}
<1>2. Segments(s) \in Seq(Word)
  BY SegmentsType
<1>3. <<>> \in T
  <2>1. p \o <<>> = Append(s, "/")
    BY <1>1, ConcatEmptySeq
  <2>2. Segments(p \o <<>>) = Append(Segments(s), <<>>)
    <3>1. Segments(Append(s, "/")) = Longer(Segments(s), "/")
      BY <1>1, SegmentsOfMore
    <3> QED
      BY <2>1, <3>1 DEF Longer
  <2> QED
    BY <2>2
<1> HIDE DEF p
<1>4. ASSUME NEW v \in Seq(Char), NEW c \in Char, v \in T PROVE Append(v, c) \in T
  <2> SUFFICES ASSUME IsWord(Append(v, c))
               PROVE  Segments(p \o Append(v, c)) = Append(Segments(s), Append(v, c))
    BY AppendProperties
  <2>1. IsWord(v) /\ c # "/"
    BY AppendProperties, LenProperties DEF IsWord
  <2>2. p \in Seq(Char) /\ p \o v \in Seq(Char)
    BY <1>1, ConcatProperties DEF p
  <2>3. Segments(p \o Append(v, c)) = Longer(Segments(p \o v), c)
    <3>1. p \o Append(v, c) = Append(p \o v, c)
      <4>1. \A x, y \in Seq(Char) : x \o Append(y, c) = Append(x \o y, c)
        BY AppendToConcat
      <4> QED
        BY <2>2, <4>1, Zenon
    <3> DEFINE x == p \o v
    <3>2. x \in Seq(Char)
      BY <2>2
    <3> HIDE DEF x
    <3>3. Segments(Append(x, c)) = Longer(Segments(x), c)
      BY <3>2, SegmentsOfMore
    <3> QED
      BY <3>1, <3>3 DEF x
  <2>4. Segments(p \o v) = Append(Segments(s), v)
    BY <1>4, <2>1
  <2>5. Longer(Append(Segments(s), v), c) = Append(Segments(s), Append(v, c))
    <3> DEFINE S == Segments(s)
               n == Len(S)
               u == Append(S, v)
    <3>1. S \in Seq(Seq(Char))
      BY <1>2 DEF Word
    <3> HIDE DEF S
    <3>2. /\ n \in Nat /\ u \in Seq(Seq(Char)) /\ Len(u) = n + 1 /\ u[n + 1] = v
          /\ \A i \in 1..n : u[i] = S[i]
      BY <3>1, AppendProperties, LenProperties
    <3> DEFINE w1 == Append(v, c)
               x == [u EXCEPT ![n + 1] = w1]
               y == Append(S, w1)
    <3>3. w1 \in Seq(Char)
      BY AppendProperties
    <3>4. Longer(u, c) = x
      BY <2>1, <3>2 DEF Longer
    <3> HIDE DEF u, w1
    <3>5. /\ y \in Seq(Seq(Char)) /\ Len(y) = n + 1 /\ y[n + 1] = w1
          /\ \A i \in 1..n : y[i] = S[i]
      BY <3>1, <3>3, AppendProperties, LenProperties
    <3>6. /\ x \in Seq(Seq(Char)) /\ Len(x) = n + 1
      BY <3>2, <3>3, ExceptSeq
    <3>7. \A i \in 1..(n + 1) : x[i] = y[i]
      BY <3>2, <3>5, LenProperties
    <3>8. x = y
      BY <3>5, <3>6, <3>7, SeqEqual
    <3> QED
      BY <3>4, <3>8 DEF S, u, w1
  <2> QED
    BY <2>3, <2>4, <2>5
<1>5. Seq(Char) \subseteq T
  <2> HIDE DEF T
  <2> QED
    BY <1>3, <1>4, EverySeq
<1>6. Segments(p \o w) = Append(Segments(s), w)
  BY <1>5 DEF Word
<1>7. p \o w \in Slashed /\ p \o w # <<>>
  <2>1. p \in Seq(Char) /\ Len(p) >= 1 /\ p[1] = "/"
    <3>1. s = <<>> => p = <<"/">>
      BY <1>1, ConcatEmptySeq DEF p
    <3>2. s # <<>> => s[1] = "/" /\ Len(s) >= 1
      BY EmptySeq, LenProperties DEF Slashed
    <3> QED
      BY <1>1, <3>1, <3>2, AppendProperties, LenProperties DEF p
  <2> QED
    <3> DEFINE x == p \o w
    <3>1. w \in Seq(Char)
      BY DEF Word
    <3>2. Len(w) \in Nat /\ Len(p) \in Nat
      BY <2>1, <3>1, LenProperties
    <3>3. x \in Seq(Char) /\ Len(x) = Len(p) + Len(w) /\ x[1] = p[1]
      BY <2>1, <3>1, <3>2, ConcatProperties
    <3> HIDE DEF x
    <3>4. x \in Slashed /\ x # <<>>
      BY <2>1, <3>2, <3>3, EmptySeq DEF Slashed
    <3> QED
      BY <3>4 DEF x
<1> QED
  BY <1>6, <1>7 DEF p

---------------------------------------------------------------------------
(* Numbers *)

Numeral == {w \in Seq(Char) : IsNumber(w)}

LEMMA DigitValues ==
    \A k \in 1..10 : /\ digit_value(Digits[k]) = k - 1
                     /\ Digits[k] \in Char /\ Digits[k] # "/"
<1>1. \A k, j \in 1..10 : Digits[k] = Digits[j] => k = j
  BY DEF Digits
<1>2. \A k \in 1..10 : Digits[k] # "/"
  BY DEF Digits
<1>3. ASSUME NEW k \in 1..10 PROVE digit_value(Digits[k]) = k - 1
  <2> DEFINE c == Digits[k]
  <2>1. \A j \in 1..10 : Digits[j] = c <=> j = k
    BY <1>1
  <2> HIDE DEF c
  <2>2. (CHOOSE j \in 1..10 : Digits[j] = c) = k
    BY <2>1
  <2> QED
    BY <2>2 DEF digit_value, c
<1> QED
  BY <1>2, <1>3, RouteMapAssumption

LEMMA DigitsOfNumeral ==
    ASSUME NEW w \in Numeral, NEW i \in 1..Len(w)
    PROVE  digit_value(w[i]) \in 0..9
<1>1. \E k \in 1..10 : w[i] = Digits[k]
  BY LenProperties DEF Numeral, IsNumber
<1> QED
  BY <1>1, DigitValues

LEMMA NumeralOfMore ==
    ASSUME NEW w \in Seq(Char), w = <<>> \/ w \in Numeral, NEW k \in 1..10
    PROVE  Append(w, Digits[k]) \in Numeral
<1> DEFINE c == Digits[k]
           t == Append(w, c)
<1>1. c \in Char
  BY DigitValues
<1>2. \A i \in 1..Len(w) : \E j \in 1..10 : w[i] = Digits[j]
  <2>1. CASE w = <<>>
    BY <2>1
  <2>2. CASE w \in Numeral
    BY <2>2, LenProperties DEF Numeral, IsNumber
  <2> QED
    BY <2>1, <2>2
<1> HIDE DEF c
<1>3. /\ t \in Seq(Char) /\ DOMAIN t = 1..(Len(w) + 1) /\ Len(w) \in Nat
      /\ \A i \in 1..Len(w) : t[i] = w[i]
      /\ t[Len(w) + 1] = c
  BY <1>1, AppendProperties, LenProperties
<1> HIDE DEF t
<1>4. \A i \in 1..(Len(w) + 1) : \E j \in 1..10 : t[i] = Digits[j]
  <2>1. \A i \in 1..(Len(w) + 1) : i \in 1..Len(w) \/ i = Len(w) + 1
    BY <1>3
  <2> QED
    BY <1>2, <1>3, <2>1 DEF c
<1> QED
  BY <1>3, <1>4 DEF Numeral, IsNumber, t, c

\* The function in the definition of Number, up to n.
Counts(f, w, n) ==
    f = [i \in 0..n |-> IF i = 0 THEN 0 ELSE 10 * f[i - 1] + digit_value(w[i])]

LEMMA CountsExist ==
    ASSUME NEW s
    PROVE  \A n \in Nat : \E f : Counts(f, s, n)
<1> DEFINE T == {n \in Nat : \E f : Counts(f, s, n)}
<1>1. 0 \in T
  <2> DEFINE f == [i \in 0..0 |-> 0]
  <2>1. Counts(f, s, 0)
    BY SMT DEF Counts
  <2> QED
    BY <2>1
<1>2. ASSUME NEW n \in Nat, n \in T PROVE n + 1 \in T
  <2>1. PICK f : Counts(f, s, n)
    BY <1>2
  <2> DEFINE last == 10 * f[n] + digit_value(s[n + 1])
             g == [i \in 0..(n + 1) |-> IF i = n + 1 THEN last ELSE f[i]]
  <2>2. \A i \in 0..n : f[i] = IF i = 0 THEN 0 ELSE 10 * f[i - 1] + digit_value(s[i])
    BY <2>1, Zenon DEF Counts
  <2>3. \A i \in 0..(n + 1) : g[i] = IF i = 0 THEN 0 ELSE 10 * g[i - 1] + digit_value(s[i])
    BY <2>2, SMT
  <2>4. Counts(g, s, n + 1)
    BY <2>3, SMT DEF Counts
  <2> QED
    BY <2>4
<1> QED
  BY <1>1, <1>2, EveryNat

\* It looks at no character behind the one it has come to.
LEMMA CountsAgree ==
    ASSUME NEW s, NEW t, NEW m \in Nat, NEW n \in Nat, NEW f, NEW g,
           Counts(f, s, m), Counts(g, t, n),
           NEW k \in Nat, k =< m, k =< n, \A i \in 1..k : s[i] = t[i]
    PROVE  f[k] = g[k]
<1>1. \A i \in 0..m : f[i] = IF i = 0 THEN 0 ELSE 10 * f[i - 1] + digit_value(s[i])
  BY Zenon DEF Counts
<1>2. \A i \in 0..n : g[i] = IF i = 0 THEN 0 ELSE 10 * g[i - 1] + digit_value(t[i])
  BY Zenon DEF Counts
<1> DEFINE T == {i \in Nat : i =< k => f[i] = g[i]}
<1>3. 0 \in T
  BY <1>1, <1>2
<1>4. ASSUME NEW i \in Nat, i \in T PROVE i + 1 \in T
  <2>1. CASE i + 1 =< k
    <3>1. /\ i + 1 \in 0..m /\ i + 1 \in 0..n /\ i + 1 # 0 /\ (i + 1) - 1 = i
          /\ i + 1 \in 1..k /\ i =< k
      BY <2>1
    <3>2. f[i + 1] = 10 * f[i] + digit_value(s[i + 1]) /\ g[i + 1] = 10 * g[i] + digit_value(t[i + 1])
      BY <1>1, <1>2, <3>1, Zenon
    <3>3. f[i] = g[i] /\ s[i + 1] = t[i + 1]
      BY <1>4, <3>1
    <3> QED
      BY <3>2, <3>3
  <2> QED
    BY <2>1
<1>5. Nat \subseteq T
  <2> HIDE DEF T
  <2> QED
    BY <1>3, <1>4, EveryNat
<1> QED
  BY <1>5


LEMMA NumberOfNone == Number(<<>>) = 0
<1> DEFINE f == CHOOSE f : Counts(f, <<>>, 0)
<1>1. Counts(f, <<>>, 0)
  BY CountsExist
<1>2. Len(<<>>) = 0
  OBVIOUS
<1>3. Number(<<>>) = (CHOOSE h : Counts(h, <<>>, Len(<<>>)))[Len(<<>>)]
  BY Zenon DEF Number, Counts
<1>4. Number(<<>>) = f[0]
  BY <1>2, <1>3
<1> HIDE DEF f
<1>5. f[0] = 0
  BY <1>1 DEF Counts
<1> QED
  BY <1>4, <1>5

LEMMA NumberOfMore ==
    ASSUME NEW w \in Seq(Char), NEW c \in Char
    PROVE  Number(Append(w, c)) = 10 * Number(w) + digit_value(c)
<1> DEFINE t == Append(w, c)
           n == Len(w)
<1>1. /\ n \in Nat /\ n + 1 \in Nat /\ t \in Seq(Char) /\ Len(t) = n + 1
      /\ t[n + 1] = c /\ \A i \in 1..n : w[i] = t[i]
  BY AppendProperties, LenProperties
<1> DEFINE f == CHOOSE f : Counts(f, w, n)
           g == CHOOSE g : Counts(g, t, n + 1)
<1> HIDE DEF t
<1>2. Counts(f, w, n) /\ Counts(g, t, n + 1)
  <2>1. \E h : Counts(h, w, n)
    BY <1>1, CountsExist, Zenon
  <2>2. \E h : Counts(h, t, n + 1)
    BY <1>1, CountsExist, Zenon
  <2> QED
    BY <2>1, <2>2, Zenon
<1>3. Number(w) = f[n]
  BY Zenon DEF Number, Counts
<1>4. Number(t) = (CHOOSE h : Counts(h, t, Len(t)))[Len(t)]
  BY Zenon DEF Number, Counts
<1>5. Number(t) = g[n + 1]
  BY <1>1, <1>4
<1> HIDE DEF f, g, n
<1>6. f[n] = g[n]
  BY <1>1, <1>2, CountsAgree
<1>7. g[n + 1] = 10 * g[n] + digit_value(t[n + 1])
  <2>1. \A i \in 0..(n + 1) : g[i] = IF i = 0 THEN 0 ELSE 10 * g[i - 1] + digit_value(t[i])
    BY <1>2, Zenon DEF Counts
  <2>2. n + 1 \in 0..(n + 1) /\ n + 1 # 0 /\ (n + 1) - 1 = n
    BY <1>1
  <2> QED
    BY <2>1, <2>2, Zenon
<1> QED
  BY <1>1, <1>3, <1>5, <1>6, <1>7 DEF t

\* Reduced in each step is reduced in the end.
LEMMA ModuloStep ==
    ASSUME NEW n \in Nat, NEW d \in Nat
    PROVE  (10 * (n % Modulus) + d) % Modulus = (10 * n + d) % Modulus
<1> DEFINE M == Modulus
           q == n \div M
           r == n % M
           x == 10 * r + d
           p == x \div M
           v == x % M
<1>1. M \in Nat /\ M > 0
  BY RouteMapAssumption
<1>2. q \in Nat /\ r \in Nat /\ n = q * M + r
  BY <1>1, SMTT(30)
<1> HIDE DEF q, r
<1>3. x \in Nat
  BY <1>2
<1> HIDE DEF x
<1>4. p \in Nat /\ v \in 0..(M - 1) /\ x = p * M + v
  BY <1>1, <1>3, SMTT(30)
<1> HIDE DEF p, v
<1>5. 10 * n + d = (10 * q + p) * M + v
  <2>1. 10 * n + d = 10 * (q * M) + x
    BY <1>1, <1>2 DEF x
  <2>2. 10 * (q * M) + (p * M + v) = (10 * q + p) * M + v
    BY <1>1, <1>2, <1>4
  <2> QED
    BY <1>4, <2>1, <2>2
<1> DEFINE y == 10 * n + d
           k == 10 * q + p
<1>6. y \in Nat /\ k \in Nat /\ y = M * k + v
  BY <1>1, <1>2, <1>4, <1>5
<1> HIDE DEF y, k, M
<1>7. y % M = v
  BY <1>1, <1>4, <1>6, SMTT(30)
<1> QED
  BY <1>7 DEF y, v, x, r, M

LEMMA ReadsNumbers ==
    ASSUME NEW w \in Numeral
    PROVE  Number(w) \in Nat /\ to_integral_param(w) = Number(w) % Modulus
<1> DEFINE n == Len(w)
           Reads(g) == g = [i \in 0..n |-> IF i = 0 THEN 0
                                ELSE (10 * g[i - 1] + digit_value(w[i])) % Modulus]
           f == CHOOSE f : Counts(f, w, n)
<1>1. n \in Nat /\ \A i \in 1..n : digit_value(w[i]) \in 0..9
  BY DigitsOfNumeral, LenProperties DEF Numeral
<1>2. Counts(f, w, n) /\ Number(w) = f[n]
  <2>1. \E h : Counts(h, w, n)
    <3> HIDE DEF n
    <3> QED
      BY <1>1, CountsExist
  <2>2. Number(w) = f[n]
    BY Zenon DEF Number, Counts
  <2> QED
    BY <2>1, <2>2, Zenon
<1>3. Modulus \in Nat \ {0}
  BY RouteMapAssumption
<1> HIDE DEF f, n
<1>4. \A i \in 0..n : f[i] = IF i = 0 THEN 0 ELSE 10 * f[i - 1] + digit_value(w[i])
  BY <1>2, Zenon DEF Counts
<1> DEFINE T == {i \in Nat : i =< n => f[i] \in Nat}
<1>5. 0 \in T
  BY <1>1, <1>4
<1>6. ASSUME NEW i \in Nat, i \in T PROVE i + 1 \in T
  <2>1. CASE i + 1 =< n
    <3>1. i + 1 \in 0..n /\ i + 1 \in 1..n /\ i + 1 # 0 /\ (i + 1) - 1 = i /\ i =< n
      BY <1>1, <2>1
    <3>2. f[i + 1] = 10 * f[i] + digit_value(w[i + 1])
      BY <1>4, <3>1, Zenon
    <3>3. f[i] \in Nat /\ digit_value(w[i + 1]) \in Nat
      BY <1>1, <1>6, <3>1
    <3> QED
      BY <3>2, <3>3
  <2> QED
    BY <2>1
<1>7. Nat \subseteq T
  <2> HIDE DEF T
  <2> QED
    BY <1>5, <1>6, EveryNat
<1>8. \A i \in 0..n : f[i] \in Nat
  BY <1>7
<1> DEFINE h == [i \in 0..n |-> f[i] % Modulus]
<1>9. Reads(h)
  <2>1. \A i \in 0..n : h[i] = IF i = 0 THEN 0
                              ELSE (10 * h[i - 1] + digit_value(w[i])) % Modulus
    <3> SUFFICES ASSUME NEW i \in 0..n
                 PROVE  h[i] = IF i = 0 THEN 0
                               ELSE (10 * h[i - 1] + digit_value(w[i])) % Modulus
      OBVIOUS
    <3>1. CASE i = 0
      <4>1. f[0] = 0 /\ h[0] = f[0] % Modulus
        BY <1>1, <1>4
      <4>2. 0 % Modulus = 0
        BY <1>3
      <4> QED
        BY <3>1, <4>1, <4>2
    <3>2. CASE i # 0
      <4>1. i - 1 \in 0..n /\ i \in 1..n
        BY <1>1, <3>2
      <4>2. f[i - 1] \in Nat /\ digit_value(w[i]) \in Nat
        BY <1>1, <1>8, <4>1
      <4>3. (10 * (f[i - 1] % Modulus) + digit_value(w[i])) % Modulus
              = (10 * f[i - 1] + digit_value(w[i])) % Modulus
        BY <4>2, ModuloStep
      <4>4. f[i] = 10 * f[i - 1] + digit_value(w[i])
        BY <1>4, <3>2, Zenon
      <4>5. h[i] = f[i] % Modulus /\ h[i - 1] = f[i - 1] % Modulus
        BY <4>1
      <4> QED
        BY <3>2, <4>3, <4>4, <4>5, Zenon
    <3> QED
      BY <3>1, <3>2
  <2> QED
    BY <2>1
<1> HIDE DEF h
<1> DEFINE g == CHOOSE g : Reads(g)
<1>10. Reads(g)
  BY <1>9, Zenon
<1>11. to_integral_param(w) = g[n]
  <2>1. IsNumber(w)
    BY DEF Numeral
  <2>2. to_integral_param(w) = IF IsNumber(w) THEN g[n] ELSE 0
    BY Zenon DEF to_integral_param, n
  <2> QED
    BY <2>1, <2>2
<1> HIDE DEF g
<1>12. \A i \in 0..n : g[i] = IF i = 0 THEN 0
                             ELSE (10 * g[i - 1] + digit_value(w[i])) % Modulus
  BY <1>10, Zenon
<1> DEFINE U == {i \in Nat : i =< n => g[i] = f[i] % Modulus}
<1>13. 0 \in U
  <2>1. g[0] = 0 /\ f[0] = 0
    BY <1>1, <1>4, <1>12
  <2>2. 0 % Modulus = 0
    BY <1>3
  <2> QED
    BY <2>1, <2>2
<1>14. ASSUME NEW i \in Nat, i \in U PROVE i + 1 \in U
  <2>1. CASE i + 1 =< n
    <3>1. /\ i + 1 \in 0..n /\ i + 1 \in 1..n /\ i + 1 # 0 /\ (i + 1) - 1 = i
          /\ i =< n /\ i \in 0..n
      BY <1>1, <2>1
    <3>2. f[i + 1] = 10 * f[i] + digit_value(w[i + 1])
      BY <1>4, <3>1, Zenon
    <3>3. g[i + 1] = (10 * g[i] + digit_value(w[i + 1])) % Modulus
      BY <1>12, <3>1, Zenon
    <3>4. f[i] \in Nat /\ digit_value(w[i + 1]) \in Nat /\ g[i] = f[i] % Modulus
      BY <1>1, <1>8, <1>14, <3>1
    <3>5. (10 * (f[i] % Modulus) + digit_value(w[i + 1])) % Modulus
            = (10 * f[i] + digit_value(w[i + 1])) % Modulus
      BY <3>4, ModuloStep
    <3>6. g[i + 1] = f[i + 1] % Modulus
      BY <3>2, <3>3, <3>4, <3>5, Zenon
    <3> QED
      BY <3>6
  <2> QED
    BY <2>1
<1>15. Nat \subseteq U
  <2> HIDE DEF U
  <2> QED
    BY <1>13, <1>14, EveryNat
<1> QED
  BY <1>1, <1>2, <1>8, <1>11, <1>15

LEMMA DividedByTen ==
    ASSUME NEW n \in Nat
    PROVE  /\ n \div 10 \in Nat /\ n % 10 \in 0..9
           /\ n = 10 * (n \div 10) + (n % 10)
           /\ n >= 10 => n \div 10 < n
<1>1. n \div 10 \in Nat /\ n % 10 \in 0..9
  OBVIOUS
<1>2. n = (n \div 10) * 10 + (n % 10)
  BY SMTT(30)
<1> DEFINE q == n \div 10
           r == n % 10
<1> HIDE DEF q, r
<1>3. q \in Nat /\ r \in 0..9 /\ n = q * 10 + r
  BY <1>1, <1>2 DEF q, r
<1>4. n = 10 * q + r /\ (n >= 10 => q < n)
  BY <1>3
<1> QED
  BY <1>1, <1>4 DEF q, r

\* The function in the definition of Decimal.
Spelled(d, x) ==
    d = [n \in 0..x |-> IF n < 10 THEN <<Digits[n + 1]>>
                         ELSE Append(d[n \div 10], Digits[(n % 10) + 1])]

LEMMA SpelledExists == \A x \in Nat : \E d : Spelled(d, x)
<1> DEFINE T == {x \in Nat : \E d : Spelled(d, x)}
<1>1. 0 \in T
  <2> DEFINE d == [n \in 0..0 |-> <<Digits[1]>>]
  <2>1. \A n \in 0..0 : d[n] = IF n < 10 THEN <<Digits[n + 1]>>
                                ELSE Append(d[n \div 10], Digits[(n % 10) + 1])
    OBVIOUS
  <2>2. Spelled(d, 0)
    BY <2>1 DEF Spelled
  <2> QED
    BY <2>2
<1>2. ASSUME NEW x \in Nat, x \in T PROVE x + 1 \in T
  <2>1. PICK d : Spelled(d, x)
    BY <1>2
  <2> DEFINE last == IF x + 1 < 10 THEN <<Digits[(x + 1) + 1]>>
                     ELSE Append(d[(x + 1) \div 10], Digits[((x + 1) % 10) + 1])
             e == [n \in 0..(x + 1) |-> IF n = x + 1 THEN last ELSE d[n]]
  <2>2. \A n \in 0..x : d[n] = IF n < 10 THEN <<Digits[n + 1]>>
                                ELSE Append(d[n \div 10], Digits[(n % 10) + 1])
    BY <2>1, Zenon DEF Spelled
  <2>3. \A n \in 0..(x + 1) : e[n] = IF n < 10 THEN <<Digits[n + 1]>>
                                ELSE Append(e[n \div 10], Digits[(n % 10) + 1])
    <3> SUFFICES ASSUME NEW n \in 0..(x + 1)
                 PROVE  e[n] = IF n < 10 THEN <<Digits[n + 1]>>
                               ELSE Append(e[n \div 10], Digits[(n % 10) + 1])
      OBVIOUS
    <3>1. n >= 10 => n \div 10 \in 0..x /\ e[n \div 10] = d[n \div 10]
      BY DividedByTen
    <3>2. CASE n = x + 1
      <4>1. e[n] = IF n < 10 THEN <<Digits[n + 1]>>
                   ELSE Append(d[n \div 10], Digits[(n % 10) + 1])
        BY <3>2
      <4> QED
        BY <3>1, <4>1
    <3>3. CASE n # x + 1
      <4>1. n \in 0..x /\ e[n] = d[n]
        BY <3>3
      <4>2. d[n] = IF n < 10 THEN <<Digits[n + 1]>>
                   ELSE Append(d[n \div 10], Digits[(n % 10) + 1])
        BY <2>2, <4>1
      <4> QED
        BY <3>1, <4>1, <4>2
    <3> QED
      BY <3>2, <3>3
  <2> HIDE DEF last
  <2>4. Spelled(e, x + 1)
    BY <2>3 DEF Spelled
  <2> QED
    BY <2>4
<1> QED
  BY <1>1, <1>2, EveryNat

\* A number is spelled by its digits.
LEMMA DecimalSpells ==
    ASSUME NEW x \in Nat
    PROVE  /\ Decimal(x) \in Numeral /\ Decimal(x) # <<>>
           /\ Number(Decimal(x)) = x
<1> DEFINE d == CHOOSE d : Spelled(d, x)
           Good(n) == d[n] \in Numeral /\ d[n] # <<>> /\ Number(d[n]) = n
           T == {n \in Nat : \A m \in 0..n : m =< x => Good(m)}
<1>1. Spelled(d, x)
  BY SpelledExists
<1>2. Decimal(x) = d[x]
  BY Zenon DEF Decimal, Spelled
<1> HIDE DEF d
<1>3. \A n \in 0..x : d[n] = IF n < 10 THEN <<Digits[n + 1]>>
                              ELSE Append(d[n \div 10], Digits[(n % 10) + 1])
  BY <1>1, Zenon DEF Spelled
<1>4. ASSUME NEW n \in 0..x, n < 10 PROVE Good(n)
  <2> DEFINE c == Digits[n + 1]
  <2>1. n + 1 \in 1..10 /\ c \in Char /\ digit_value(c) = n
    BY <1>4, DigitValues
  <2>2. Append(<<>>, c) \in Numeral
    BY <2>1, NumeralOfMore, EmptySeq
  <2>3. d[n] = <<c>>
    BY <1>3, <1>4
  <2> HIDE DEF c
  <2>4. d[n] = Append(<<>>, c) /\ d[n] # <<>>
    BY <2>1, <2>3
  <2>5. Number(Append(<<>>, c)) = 10 * Number(<<>>) + digit_value(c)
    BY <2>1, NumberOfMore, EmptySeq
  <2>6. Number(d[n]) = n
    BY <2>1, <2>4, <2>5, NumberOfNone
  <2> QED
    BY <2>2, <2>4, <2>6 DEF c
<1>5. ASSUME NEW n \in 0..x, n >= 10, Good(n \div 10) PROVE Good(n)
  <2> DEFINE q == n \div 10
             c == Digits[(n % 10) + 1]
             w == d[q]
  <2>1. q \in Nat /\ n % 10 \in 0..9 /\ n = 10 * q + (n % 10)
    BY DividedByTen
  <2>2. (n % 10) + 1 \in 1..10 /\ c \in Char /\ digit_value(c) = n % 10
    BY <2>1, DigitValues
  <2>3. d[n] = Append(w, c)
    <3>1. ~ (n < 10)
      BY <1>5
    <3> QED
      BY <1>3, <3>1, Zenon
  <2>4. w \in Numeral /\ w \in Seq(Char) /\ Number(w) = q
    BY <1>5 DEF Numeral
  <2>5. Append(w, c) \in Numeral
    <3> HIDE DEF w
    <3> QED
      BY <2>2, <2>4, NumeralOfMore
  <2> HIDE DEF w, q, c
  <2>6. Number(Append(w, c)) = 10 * Number(w) + digit_value(c)
    BY <2>2, <2>4, NumberOfMore
  <2>7. Append(w, c) # <<>>
    BY <2>2, <2>4, AppendProperties
  <2>8. Number(d[n]) = n
    <3> DEFINE r == n % 10
    <3> HIDE DEF r
    <3>1. r \in Nat /\ q \in Nat /\ n = 10 * q + r /\ digit_value(c) = r
      BY <2>1, <2>2 DEF r
    <3> QED
      BY <2>3, <2>4, <2>6, <3>1
  <2> QED
    BY <2>3, <2>5, <2>7, <2>8
<1>6. 0 \in T
  BY <1>4
<1>7. ASSUME NEW n \in Nat, n \in T PROVE n + 1 \in T
  <2>1. CASE n + 1 =< x
    <3>1. n + 1 \in 0..x
      BY <2>1
    <3>2. Good(n + 1)
      <4> DEFINE k == n + 1
      <4>1. k >= 10 => k \div 10 \in 0..n /\ k \div 10 =< x
        <5>1. k \in Nat /\ k =< x
          BY <2>1
        <5>2. k >= 10 => k \div 10 \in Nat /\ k \div 10 < k
          BY <5>1, DividedByTen
        <5> QED
          BY <5>1, <5>2
      <4>2. k >= 10 => Good(k \div 10)
        BY <1>7, <4>1
      <4> HIDE DEF Good, k
      <4>3. k \in 0..x
        BY <3>1 DEF k
      <4>4. CASE k < 10
        BY <1>4, <4>3, <4>4 DEF k
      <4>5. CASE ~ (k < 10)
        <5>1. k >= 10
          BY <4>3, <4>5
        <5> QED
          BY <1>5, <4>2, <4>3, <5>1 DEF k
      <4> QED
        BY <4>4, <4>5
    <3> HIDE DEF Good
    <3>3. \A m \in 0..(n + 1) : m \in 0..n \/ m = n + 1
      OBVIOUS
    <3> QED
      BY <1>7, <3>2, <3>3
  <2>2. CASE ~ (n + 1 =< x)
    <3> HIDE DEF Good
    <3>1. \A m \in 0..(n + 1) : m =< x => m \in 0..n
      BY <2>2
    <3> QED
      BY <1>7, <3>1
  <2> QED
    BY <2>1, <2>2
<1>8. Nat \subseteq T
  <2> HIDE DEF T
  <2> QED
    BY <1>6, <1>7, EveryNat
<1>9. Good(x)
  <2> HIDE DEF Good
  <2>1. x \in T
    BY <1>8
  <2>2. x \in 0..x /\ x =< x
    OBVIOUS
  <2> QED
    BY <2>1, <2>2
<1> QED
  BY <1>2, <1>9

LEMMA NumeralIsWord == Numeral \subseteq Word
  BY LenProperties, DigitValues DEF Numeral, IsNumber, Word, IsWord

---------------------------------------------------------------------------
(* What is put into the address bar spells the route. *)

\* The word that a parameter is written as.
Written(x, type) == IF type = "string" THEN x ELSE Decimal(x)

LEMMA WrittenSpells ==
    ASSUME NEW type \in {"integral", "string"}, NEW x, FitsMember(x, type)
    PROVE  Written(x, type) \in Word /\ Spells(Written(x, type), x, type)
<1>1. CASE type = "string"
  BY <1>1 DEF Written, FitsMember, Spells, Word, IsWord
<1>2. CASE type = "integral"
  <2>1. Modulus \in Nat /\ x \in 1..Modulus - 1
    BY <1>2, RouteMapAssumption DEF FitsMember
  <2>2. x \in Nat /\ x % Modulus = x
    BY <2>1
  <2>3. /\ Decimal(x) \in Numeral /\ Decimal(x) # <<>>
        /\ Number(Decimal(x)) = x
    BY <2>2, DecimalSpells
  <2>4. Written(x, type) = Decimal(x) /\ type # "string"
    BY <1>2 DEF Written
  <2>5. Decimal(x) \in Word /\ IsNumber(Decimal(x))
    BY <2>3, NumeralIsWord DEF Numeral
  <2> QED
    BY <2>2, <2>3, <2>4, <2>5 DEF Spells
<1> QED
  BY <1>1, <1>2

\* The function in the definition of to_string, up to n.
Puts(f, r, n) ==
    f = [k \in 0..n |-> IF k = 0 THEN <<"/">> \o r.name
                        ELSE append_route_param(f[k - 1], r.params[k], Members[r.name][k])]

LEMMA PutsExist ==
    ASSUME NEW r
    PROVE  \A n \in Nat : \E f : Puts(f, r, n)
<1> DEFINE T == {n \in Nat : \E f : Puts(f, r, n)}
<1>1. 0 \in T
  <2> DEFINE f == [k \in 0..0 |-> <<"/">> \o r.name]
  <2>1. Puts(f, r, 0)
    BY SMT DEF Puts
  <2> QED
    BY <2>1
<1>2. ASSUME NEW n \in Nat, n \in T PROVE n + 1 \in T
  <2>1. PICK f : Puts(f, r, n)
    BY <1>2
  <2> DEFINE first == <<"/">> \o r.name
             put(s, k) == append_route_param(s, r.params[k], Members[r.name][k])
             last == put(f[n], n + 1)
             g == [k \in 0..(n + 1) |-> IF k = n + 1 THEN last ELSE f[k]]
  <2>2. \A k \in 0..n : f[k] = IF k = 0 THEN first ELSE put(f[k - 1], k)
    BY <2>1, Zenon DEF Puts
  <2> HIDE DEF first, put
  <2>3. \A k \in 0..(n + 1) : g[k] = IF k = 0 THEN first ELSE put(g[k - 1], k)
    BY <2>2, SMT
  <2>4. g = [k \in 0..(n + 1) |-> IF k = 0 THEN first ELSE put(g[k - 1], k)]
    BY <2>3
  <2>5. Puts(g, r, n + 1)
    <3> HIDE DEF g
    <3> QED
      BY <2>4, Zenon DEF Puts, first, put
  <2> QED
    BY <2>5
<1> QED
  BY <1>1, <1>2, EveryNat

LEMMA SlashAlone == Segments(<<"/">>) = << <<>> >>
<1>1. <<>> \in Seq(Char) /\ "/" \in Char
  BY RouteMapAssumption
<1>2. Segments(Append(<<>>, "/")) = Longer(Segments(<<>>), "/")
  BY <1>1, SegmentsOfMore
<1>3. Append(<<>>, "/") = <<"/">>
  OBVIOUS
<1>4. Longer(<<>>, "/") = << <<>> >>
  BY DEF Longer
<1> QED
  BY <1>2, <1>3, <1>4, SegmentsOfNone

LEMMA StringOfRoute ==
    ASSUME NEW r, IsAddressable(r)
    PROVE  LET s == to_string(r)
               types == Members[r.name]
           IN  /\ s \in Slashed /\ s # <<>>
               /\ Len(Segments(s)) = 1 + Len(types)
               /\ Segments(s)[1] = r.name
               /\ \A i \in 1..Len(types) :
                    Segments(s)[i + 1] = Written(r.params[i], types[i])
               /\ (s = <<"/">>) <=> (r.name = <<>>)
<1> DEFINE types == Members[r.name]
           n == Len(types)
           word(i) == Written(r.params[i], types[i])
<1>1. /\ types \in Seq({"integral", "string"}) /\ n \in Nat /\ DOMAIN types = 1..n
      /\ r.name \in Word /\ (r.name = <<>> => n = 0)
      /\ \A i \in 1..n : types[i] \in {"integral", "string"} /\ FitsMember(r.params[i], types[i])
  <2>1. r.name \in Names /\ IsWord(r.name) /\ (r.name = <<>> => types = <<>>)
    BY DEF IsAddressable
  <2>2. types \in Seq({"integral", "string"})
    BY <2>1, RouteMapAssumption
  <2>3. n \in Nat /\ DOMAIN types = 1..n /\ types \in [1..n -> {"integral", "string"}]
    BY <2>2, LenProperties
  <2>4. r.name = <<>> => n = 0
    BY <2>1
  <2>5. r.name \in Word
    BY <2>1 DEF Word, IsWord
  <2>6. \A i \in 1..n : FitsMember(r.params[i], types[i])
    BY <2>3 DEF IsAddressable
  <2> QED
    BY <2>2, <2>3, <2>4, <2>5, <2>6
<1>2. \A i \in 1..n : word(i) \in Word
  BY <1>1, WrittenSpells
<1> DEFINE f == CHOOSE f : Puts(f, r, n)
<1>3. Puts(f, r, n)
  <2>1. \E h : Puts(h, r, n)
    <3> HIDE DEF n
    <3> QED
      BY <1>1, PutsExist
  <2> QED
    BY <2>1, Zenon
<1>4. to_string(r) = f[n]
  BY Zenon DEF to_string, Puts
<1> HIDE DEF f
<1>5. \A k \in 0..n : f[k] = IF k = 0 THEN <<"/">> \o r.name
              ELSE append_route_param(f[k - 1], r.params[k], types[k])
  BY <1>3, Zenon DEF Puts
<1> DEFINE Spelt(k) == /\ f[k] \in Slashed /\ f[k] # <<>>
                       /\ Len(Segments(f[k])) = k + 1 /\ Segments(f[k])[1] = r.name
                       /\ \A i \in 1..k : Segments(f[k])[i + 1] = word(i)
           T == {k \in Nat : k =< n => Spelt(k)}
<1> HIDE DEF n, types
<1>6. 0 \in T
  <2>1. <<>> \in Slashed /\ <<"/">> \in Seq(Char)
    BY RouteMapAssumption DEF Slashed
  <2>2. <<>> \o <<"/">> = <<"/">>
    BY <2>1, ConcatEmptySeq
  <2>3. f[0] = (<<>> \o <<"/">>) \o r.name
    <3>1. 0 \in 0..n
      BY <1>1
    <3>2. f[0] = <<"/">> \o r.name
      BY <1>5, <3>1, Zenon
    <3> QED
      BY <2>2, <3>2
  <2>4. f[0] \in Slashed /\ f[0] # <<>> /\ Segments(f[0]) = Append(Segments(<<>>), r.name)
    BY <1>1, <2>1, <2>3, WordIsSegment
  <2>5. Segments(f[0]) = <<r.name>>
    <3>1. Append(<<>>, r.name) = <<r.name>>
      OBVIOUS
    <3> QED
      BY <2>4, <3>1, SegmentsOfNone, Zenon
  <2> QED
    BY <2>4, <2>5
<1>7. ASSUME NEW k \in Nat, k \in T PROVE k + 1 \in T
  <2> SUFFICES ASSUME k + 1 =< n PROVE Spelt(k + 1)
    OBVIOUS
  <2>1. /\ k + 1 \in 0..n /\ k + 1 \in 1..n /\ (k + 1) - 1 = k /\ k + 1 # 0 /\ k =< n
    BY <1>1
  <2>2. f[k + 1] = append_route_param(f[k], r.params[k + 1], types[k + 1])
    BY <1>5, <2>1, Zenon
  <2> DEFINE w == word(k + 1)
  <2>3. f[k + 1] = (f[k] \o <<"/">>) \o w
    BY <2>2, Zenon DEF append_route_param, Written
  <2>4. w \in Word
    BY <1>2, <2>1, Zenon
  <2>5. Spelt(k)
    BY <1>7, <2>1
  <2> DEFINE S == Segments(f[k])
  <2>6. f[k] \in Slashed /\ S \in Seq(Word) /\ Len(S) = k + 1
    BY <2>5, SegmentsType
  <2>7. f[k + 1] \in Slashed /\ f[k + 1] # <<>> /\ Segments(f[k + 1]) = Append(S, w)
    <3> HIDE DEF w
    <3> QED
      BY <2>3, <2>4, <2>6, WordIsSegment
  <2>8. S[1] = r.name /\ \A i \in 1..k : S[i + 1] = word(i)
    BY <2>5
  <2> HIDE DEF w, S
  <2>9. /\ Len(Append(S, w)) = (k + 1) + 1 /\ Append(S, w)[1] = S[1]
        /\ \A i \in 1..k : Append(S, w)[i + 1] = S[i + 1]
        /\ Append(S, w)[(k + 1) + 1] = w
    BY <2>4, <2>6, AppendProperties
  <2>10. \A i \in 1..(k + 1) : Append(S, w)[i + 1] = word(i)
    <3>1. \A i \in 1..(k + 1) : i \in 1..k \/ i = k + 1
      OBVIOUS
    <3> HIDE DEF word
    <3>2. w = word(k + 1)
      BY DEF w
    <3> QED
      BY <2>8, <2>9, <3>1, <3>2
  <2> HIDE DEF word
  <2> QED
    BY <2>7, <2>8, <2>9, <2>10
<1>8. Nat \subseteq T
  <2> HIDE DEF T
  <2> QED
    BY <1>6, <1>7, EveryNat
<1>9. Spelt(n)
  <2> HIDE DEF Spelt
  <2>1. n \in T /\ n =< n
    BY <1>1, <1>8
  <2> QED
    BY <2>1
<1>10. (f[n] = <<"/">>) <=> (r.name = <<>>)
  <2>1. CASE r.name = <<>>
    <3>1. n = 0
      BY <1>1, <2>1
    <3>2. f[n] = <<"/">> \o <<>>
      BY <1>1, <1>5, <2>1, <3>1
    <3>3. <<"/">> \in Seq(Char)
      BY RouteMapAssumption
    <3> QED
      BY <2>1, <3>2, <3>3, ConcatEmptySeq
  <2>2. CASE r.name # <<>>
    <3>1. Segments(f[n])[1] # <<>>
      BY <1>9, <2>2
    <3>2. Segments(<<"/">>)[1] = <<>>
      BY SlashAlone
    <3> QED
      BY <2>2, <3>1, <3>2
  <2> QED
    BY <2>1, <2>2
<1> QED
  BY <1>1, <1>4, <1>9, <1>10 DEF n, types

LEMMA SpelledByItsString ==
    ASSUME NEW r, IsAddressable(r)
    PROVE  to_string(r) \in Seq(Char) /\ IsSpelling(to_string(r), r)
<1> DEFINE s == to_string(r)
           types == Members[r.name]
<1>1. /\ s \in Slashed /\ s # <<>>
      /\ Len(Segments(s)) = 1 + Len(types)
      /\ Segments(s)[1] = r.name
      /\ \A i \in 1..Len(types) :
            Segments(s)[i + 1] = Written(r.params[i], types[i])
      /\ (s = <<"/">>) <=> (r.name = <<>>)
  BY StringOfRoute
<1>2. /\ r.name \in Names /\ DOMAIN r.params = DOMAIN types
      /\ \A i \in DOMAIN types : FitsMember(r.params[i], types[i])
  <2> DEFINE x == [i \in DOMAIN types |-> r.params[i]]
  <2>1. r = [name |-> r.name, params |-> x]
    BY Zenon DEF IsAddressable
  <2> HIDE DEF x
  <2>4. [name |-> r.name, params |-> x].params = x
    OBVIOUS
  <2>5. r.params = x
    BY <2>1, <2>4, Zenon
  <2>2. r.params = [i \in DOMAIN types |-> r.params[i]]
    BY <2>5, Zenon DEF x
  <2>3. DOMAIN r.params = DOMAIN types
    BY <2>2, Zenon
  <2> QED
    BY <2>3, Zenon DEF IsAddressable
<1>3. types \in Seq({"integral", "string"})
  BY <1>2, RouteMapAssumption
<1>4. DOMAIN types = 1..Len(types) /\ \A i \in DOMAIN types : types[i] \in {"integral", "string"}
  BY <1>3, LenProperties
<1>5. \A i \in DOMAIN r.params : Spells(Segments(s)[i + 1], r.params[i], types[i])
  <2> SUFFICES ASSUME NEW i \in DOMAIN types
               PROVE  Spells(Segments(s)[i + 1], r.params[i], types[i])
    BY <1>2
  <2>1. Segments(s)[i + 1] = Written(r.params[i], types[i])
    BY <1>1, <1>4
  <2>2. Spells(Written(r.params[i], types[i]), r.params[i], types[i])
    BY <1>2, <1>4, WrittenSpells
  <2> QED
    BY <2>1, <2>2
<1>6. s \in Seq(Char) /\ s[1] = "/"
  BY <1>1 DEF Slashed
<1> HIDE DEF s, types
<1>7. IsSpelling(s, r)
  BY <1>1, <1>5, <1>6 DEF IsSpelling, types
<1> QED
  BY <1>6, <1>7 DEF s
---------------------------------------------------------------------------
(* The parser takes a string for a route if and only if it spells it. *)

\* The parameters are the words up to the first empty one.
LEMMA ParamsAreWords ==
    ASSUME NEW S \in Seq(Word)
    PROVE  LET P == ParamsOf(S)
           IN  /\ P \in Seq(Word) /\ Len(P) =< Len(S) /\ Len(P) =< MaxParams
               /\ \A i \in 1..Len(P) : P[i] = S[i] /\ P[i] # <<>>
               /\ Len(P) < Len(S) /\ Len(P) < MaxParams => S[Len(P) + 1] = <<>>
<1> DEFINE n == Len(S)
           Stops(k) == /\ k =< MaxParams /\ \A i \in 1..k : S[i] # <<>>
                       /\ k < n /\ k < MaxParams => S[k + 1] = <<>>
           T == {k \in Nat : k = n \/ k = MaxParams \/ S[k + 1] = <<>>}
           count == CHOOSE k \in 0..n : Stops(k)
<1>1. n \in Nat /\ MaxParams \in Nat
  BY LenProperties, RouteMapAssumption
<1>2. ParamsOf(S) = SubSeq(S, 1, count)
  BY Zenon DEF ParamsOf
<1> HIDE DEF n
<1>3. PICK x \in T : \A y \in T : ~ (y < x)
  <2>1. T \subseteq Nat /\ T # {}
    BY <1>1
  <2> HIDE DEF T
  <2> QED
    BY <2>1, LeastElement
<1>4. x \in 0..n /\ Stops(x)
  <2>1. n \in T /\ MaxParams \in T
    BY <1>1
  <2>2. x \in Nat /\ x =< n /\ x =< MaxParams
    <3>1. ~ (n < x) /\ ~ (MaxParams < x)
      BY <1>3, <2>1
    <3>2. x \in Nat
      BY <1>3
    <3> QED
      BY <1>1, <3>1, <3>2
  <2>3. \A i \in 1..x : S[i] # <<>>
    <3> SUFFICES ASSUME NEW i \in 1..x, S[i] = <<>> PROVE FALSE
      OBVIOUS
    <3>1. i - 1 \in Nat /\ i - 1 < x /\ (i - 1) + 1 = i
      BY <2>2
    <3>2. i - 1 \in T
      BY <3>1
    <3> QED
      BY <1>3, <3>1, <3>2
  <2>4. x < n /\ x < MaxParams => S[x + 1] = <<>>
    BY <1>1, <1>3
  <2> QED
    BY <2>2, <2>3, <2>4
<1> HIDE DEF Stops
<1>5. count \in 0..n /\ Stops(count)
  BY <1>4, Zenon
<1> HIDE DEF count
<1>6. \A i \in 1..count : S[i] \in Word
  BY <1>1, <1>5, LenProperties DEF n
<1> DEFINE P == SubSeq(S, 1, count)
<1>7. P \in Seq(Word) /\ Len(P) = count /\ \A i \in 1..count : P[i] = S[i]
  BY <1>1, <1>5, <1>6, SubSeqProperties
<1> HIDE DEF P
<1> QED
  BY <1>1, <1>2, <1>5, <1>7 DEF Stops, P, n

\* A string is read as these words if it consists of them, or of them and a slash.
ReadAs(S, P) ==
    \/ S = P
    \/ Front(S) = P /\ Last(S) = <<>> /\ Len(P) < MaxParams

LEMMA FrontAndLast ==
    ASSUME NEW S \in Seq(Word), S # <<>>
    PROVE  /\ Front(S) \in Seq(Word) /\ Len(Front(S)) = Len(S) - 1 /\ Len(S) \in Nat \ {0}
           /\ \A i \in 1..Len(S) - 1 : Front(S)[i] = S[i]
           /\ Last(S) = S[Len(S)]
<1> DEFINE n == Len(S) - 1
<1>1. n \in Nat /\ \A i \in 1..n : S[i] \in Word
  BY LenProperties, EmptySeq
<1>2. Front(S) = SubSeq(S, 1, n) /\ Last(S) = S[Len(S)]
  BY DEF Front, Last
<1> HIDE DEF n
<1>3. /\ SubSeq(S, 1, n) \in Seq(Word) /\ Len(SubSeq(S, 1, n)) = n
      /\ \A i \in 1..n : SubSeq(S, 1, n)[i] = S[i]
  BY <1>1, SubSeqProperties
<1> QED
  BY <1>1, <1>2, <1>3, LenProperties DEF n

LEMMA WordsAreRead ==
    ASSUME NEW S \in Seq(Word), S # <<>>, NEW P \in Seq(Word), Len(P) =< MaxParams,
           \A i \in 1..Len(P) : P[i] # <<>>
    PROVE  (IsAllRead(S) /\ ParamsOf(S) = P) <=> ReadAs(S, P)
<1> DEFINE Q == ParamsOf(S)
           n == Len(S)
           q == Len(Q)
           p == Len(P)
<1>1. /\ Q \in Seq(Word) /\ q =< n /\ q =< MaxParams
      /\ \A i \in 1..q : Q[i] = S[i] /\ Q[i] # <<>>
      /\ q < n /\ q < MaxParams => S[q + 1] = <<>>
  BY ParamsAreWords
<1>2. IsAllRead(S) <=> n - q =< IF q < MaxParams THEN 1 ELSE 0
  BY DEF IsAllRead
<1>3. /\ Front(S) \in Seq(Word) /\ Len(Front(S)) = n - 1 /\ n \in Nat \ {0}
      /\ \A i \in 1..n - 1 : Front(S)[i] = S[i]
      /\ Last(S) = S[n]
  BY FrontAndLast
<1> HIDE DEF Q
<1>4. q \in Nat /\ p \in Nat /\ MaxParams \in Nat
  BY <1>1, LenProperties, RouteMapAssumption
<1> DEFINE F == Front(S)
           L == Last(S)
<1> HIDE DEF n, F, L
<1>5. ASSUME IsAllRead(S), Q = P PROVE ReadAs(S, P)
  <2>1. CASE q = n
    <3>1. S = P
      BY <1>1, <1>5, <2>1, SeqEqual DEF n
    <3> QED
      BY <3>1 DEF ReadAs
  <2>2. CASE q # n
    <3>1. q < MaxParams /\ q = n - 1
      BY <1>1, <1>2, <1>3, <1>4, <1>5, <2>2
    <3>2. L = <<>>
      BY <1>1, <1>3, <1>4, <3>1 DEF L
    <3>3. F = P
      <4>1. F \in Seq(Word) /\ Len(F) = Len(Q) /\ \A i \in 1..Len(F) : F[i] = Q[i]
        BY <1>1, <1>3, <3>1 DEF F
      <4> QED
        BY <1>1, <1>5, <4>1, SeqEqual
    <3> QED
      BY <1>5, <3>1, <3>2, <3>3 DEF ReadAs, F, L
  <2> QED
    BY <2>1, <2>2
<1>6. ASSUME ReadAs(S, P) PROVE IsAllRead(S) /\ Q = P
  <2>1. CASE S = P
    <3>1. n = p
      BY <2>1 DEF n
    <3>2. q = n
      <4> SUFFICES ASSUME q < n PROVE FALSE
        BY <1>1, <1>3, <1>4
      <4>1. q + 1 \in 1..p
        BY <1>3, <1>4, <3>1
      <4>2. S[q + 1] # <<>>
        BY <2>1, <4>1
      <4> QED
        BY <1>1, <1>4, <3>1, <4>2
    <3>3. Q = P
      BY <1>1, <2>1, <3>2, SeqEqual DEF n
    <3>4. n - q = 0
      BY <1>3, <1>4, <3>2
    <3> QED
      BY <1>2, <1>4, <3>3, <3>4
  <2>2. CASE F = P /\ L = <<>> /\ p < MaxParams
    <3>1. p = n - 1 /\ \A i \in 1..p : S[i] = P[i]
      BY <1>3, <2>2 DEF F
    <3>2. S[n] = <<>>
      BY <1>3, <2>2 DEF L
    <3>3. q =< p
      <4> SUFFICES ASSUME p < q PROVE FALSE
        BY <1>4
      <4>1. n \in 1..q /\ q = n
        BY <1>1, <1>3, <1>4, <3>1
      <4> QED
        BY <1>1, <3>2, <4>1
    <3>4. q = p
      <4> SUFFICES ASSUME q < p PROVE FALSE
        BY <1>4, <3>3
      <4>1. q + 1 \in 1..p
        BY <1>4
      <4>2. S[q + 1] # <<>>
        BY <3>1, <4>1
      <4> QED
        BY <1>1, <1>3, <1>4, <2>2, <3>1, <4>2
    <3>5. Q = P
      BY <1>1, <3>1, <3>4, SeqEqual
    <3>6. n - q = 1
      BY <1>3, <1>4, <3>1, <3>4
    <3> QED
      BY <1>2, <1>4, <2>2, <3>4, <3>5, <3>6
  <2> QED
    BY <1>6, <2>1, <2>2 DEF ReadAs, F, L
<1> QED
  BY <1>5, <1>6 DEF Q
\* Being bound to a member and being spelled are the same for a value that fits it.
LEMMA BoundWords ==
    ASSUME NEW w \in Word, NEW type \in {"integral", "string"}
    PROVE  LET x == bind_route_param(w, type)
           IN  /\ IsParamValid(x, type) => FitsMember(x, type) /\ Spells(w, x, type)
               /\ \A y : FitsMember(y, type) /\ Spells(w, y, type) =>
                           x = y /\ IsParamValid(x, type)
<1>1. w \in Seq(Char) /\ IsWord(w)
  BY DEF Word
<1>2. CASE type = "string"
  <2>1. bind_route_param(w, type) = w
    BY <1>2 DEF bind_route_param
  <2>2. \A y : Spells(w, y, type) <=> w = y
    BY <1>2 DEF Spells
  <2>3. \A y : /\ IsParamValid(y, type) <=> y # <<>>
               /\ FitsMember(y, type) <=> y # <<>> /\ IsWord(y)
    BY <1>2 DEF IsParamValid, FitsMember
  <2>4. IsParamValid(w, type) => FitsMember(w, type) /\ Spells(w, w, type)
    BY <1>1, <2>2, <2>3
  <2>5. \A y : FitsMember(y, type) /\ Spells(w, y, type) => w = y /\ IsParamValid(w, type)
    BY <2>2, <2>3
  <2> QED
    BY <2>1, <2>4, <2>5
<1>3. CASE type = "integral"
  <2> DEFINE x == to_integral_param(w)
  <2>1. bind_route_param(w, type) = x
    BY <1>3 DEF bind_route_param
  <2>2. \A y : Spells(w, y, type) <=>
                 w # <<>> /\ IsNumber(w) /\ y = Number(w) % Modulus
    BY <1>3 DEF Spells
  <2>3. \A y : /\ IsParamValid(y, type) <=> y # 0
               /\ FitsMember(y, type) <=> y \in 1..Modulus - 1
    BY <1>3 DEF IsParamValid, FitsMember
  <2>4. IsNumber(w) => x = Number(w) % Modulus /\ Number(w) \in Nat
    BY <1>1, ReadsNumbers DEF Numeral
  <2>5. ~IsNumber(w) => x = 0
    BY DEF to_integral_param
  <2>6. w = <<>> => x = 0
    <3>1. Modulus \in Nat \ {0}
      BY RouteMapAssumption
    <3>2. 0 % Modulus = 0
      BY <3>1
    <3> QED
      BY <2>4, <2>5, <3>2, NumberOfNone
  <2>7. IsNumber(w) /\ x # 0 => x \in 1..Modulus - 1
    <3> SUFFICES ASSUME IsNumber(w), x # 0 PROVE x \in 1..Modulus - 1
      OBVIOUS
    <3>1. Modulus \in Nat \ {0}
      BY RouteMapAssumption
    <3> DEFINE n == Number(w)
    <3> HIDE DEF n
    <3>2. n \in Nat /\ x = n % Modulus
      BY <2>4 DEF n
    <3>3. n % Modulus \in 0..Modulus - 1
      BY <3>1, <3>2
    <3> QED
      BY <3>1, <3>2, <3>3
  <2>8. \A y : y \in 1..Modulus - 1 => y # 0
    OBVIOUS
  <2> HIDE DEF x
  <2> QED
    BY <2>1, <2>2, <2>3, <2>4, <2>5, <2>6, <2>7, <2>8, Zenon
<1> QED
  BY <1>2, <1>3

\* A route has as many parameters as its name has members.
LEMMA AddressableParams ==
    ASSUME NEW r, IsAddressable(r)
    PROVE  LET types == Members[r.name]
           IN  /\ types \in Seq({"integral", "string"}) /\ DOMAIN types = 1..Len(types)
               /\ r.params = [i \in DOMAIN types |-> r.params[i]]
               /\ DOMAIN r.params = DOMAIN types
               /\ r = [name |-> r.name, params |-> r.params]
<1> DEFINE types == Members[r.name]
           x == [i \in DOMAIN types |-> r.params[i]]
<1>1. r = [name |-> r.name, params |-> x]
  BY Zenon DEF IsAddressable
<1>2. DOMAIN x = DOMAIN types
  OBVIOUS
<1>3. types \in Seq({"integral", "string"})
  <2>1. r.name \in Names
    BY DEF IsAddressable
  <2> QED
    BY <2>1, RouteMapAssumption
<1>4. DOMAIN types = 1..Len(types)
  BY <1>3, LenProperties
<1> DEFINE y == x
<1> HIDE DEF x
<1>5. [name |-> r.name, params |-> x].params = x
  OBVIOUS
<1>6. r.params = x
  BY <1>1, <1>5, Zenon
<1>7. r.params = [i \in DOMAIN types |-> r.params[i]]
  BY <1>6, Zenon DEF x
<1> QED
  BY <1>1, <1>2, <1>3, <1>4, <1>6, <1>7, Zenon

LEMMA NotFoundIsNoRoute == ~IsAddressable(NotFound)
<1>1. NotFound.name \notin Names
  BY RouteMapAssumption
<1> QED
  BY <1>1 DEF IsAddressable

\* What is made of words is the route that they spell.
LEMMA MadeOfWords ==
    ASSUME NEW P \in Seq(Word), P # <<>>, P[1] = <<>> => Len(P) = 1,
           NEW r, r # NotFound
    PROVE  (make_from_params(P) = r)
             <=> /\ IsAddressable(r)
                 /\ Len(P) = 1 + Len(Members[r.name]) /\ P[1] = r.name
                 /\ \A i \in DOMAIN r.params : Spells(P[i + 1], r.params[i], Members[r.name][i])
<1> DEFINE name == P[1]
           types == Members[name]
           bound(i) == bind_route_param(P[i + 1], types[i])
           values == [i \in DOMAIN types |-> bound(i)]
           Makes == /\ name \in Names /\ Len(types) = Len(P) - 1
                    /\ \A i \in DOMAIN types : IsParamValid(values[i], types[i])
<1>1. make_from_params(P) = IF Makes THEN [name |-> name, params |-> values] ELSE NotFound
  BY Zenon DEF make_from_params
<1>2. Len(P) \in Nat /\ 1 \in 1..Len(P) /\ name \in Word /\ \A i \in 1..Len(P) : P[i] \in Word
  BY LenProperties, EmptySeq
<1>3. name \in Names => /\ types \in Seq({"integral", "string"})
                        /\ Len(types) \in Nat /\ DOMAIN types = 1..Len(types)
                        /\ \A i \in DOMAIN types : types[i] \in {"integral", "string"}
  <2> SUFFICES ASSUME name \in Names
               PROVE  /\ types \in Seq({"integral", "string"})
                      /\ Len(types) \in Nat /\ DOMAIN types = 1..Len(types)
                      /\ \A i \in DOMAIN types : types[i] \in {"integral", "string"}
    OBVIOUS
  <2> HIDE DEF name
  <2>1. types \in Seq({"integral", "string"})
    BY RouteMapAssumption
  <2> QED
    BY <2>1, LenProperties
<1>4. \A i \in DOMAIN types : values[i] = bound(i)
  OBVIOUS
<1>5. DOMAIN values = DOMAIN types
  OBVIOUS
<1> HIDE DEF name, types, bound, values
<1>6. ASSUME make_from_params(P) = r
      PROVE  /\ IsAddressable(r)
             /\ Len(P) = 1 + Len(Members[r.name]) /\ P[1] = r.name
             /\ \A i \in DOMAIN r.params : Spells(P[i + 1], r.params[i], Members[r.name][i])
  <2>1. Makes /\ r = [name |-> name, params |-> values]
    BY <1>1, <1>6
  <2>2. r.name = name /\ r.params = values
    BY <2>1
  <2>3. Members[r.name] = types
    BY <2>2 DEF types
  <2>4. Len(types) = Len(P) - 1 /\ name \in Names
    BY <2>1
  <2>5. \A i \in DOMAIN types : FitsMember(values[i], types[i]) /\ Spells(P[i + 1], values[i], types[i])
    <3> SUFFICES ASSUME NEW i \in DOMAIN types
                 PROVE  FitsMember(values[i], types[i]) /\ Spells(P[i + 1], values[i], types[i])
      OBVIOUS
    <3>1. types[i] \in {"integral", "string"} /\ i + 1 \in 1..Len(P)
      BY <1>2, <1>3, <2>4
    <3>2. P[i + 1] \in Word
      BY <1>2, <3>1
    <3>3. IsParamValid(values[i], types[i])
      BY <2>1
    <3>4. values[i] = bind_route_param(P[i + 1], types[i])
      BY <1>4 DEF bound
    <3> QED
      BY <3>1, <3>2, <3>3, <3>4, BoundWords
  <2>6. IsAddressable(r)
    <3>1. r.name \in Names /\ IsWord(r.name)
      BY <1>2, <2>2, <2>4 DEF Word
    <3>2. r.name = <<>> => types = <<>>
      <4> SUFFICES ASSUME r.name = <<>> PROVE types = <<>>
        OBVIOUS
      <4>1. Len(types) = 0
        BY <1>2, <2>2, <2>4 DEF name
      <4> QED
        BY <1>3, <2>4, <4>1, EmptySeq
    <3>3. r.params = [i \in DOMAIN types |-> r.params[i]]
      <4>1. values = [i \in DOMAIN types |-> values[i]]
        BY <1>4 DEF values
      <4> QED
        BY <2>2, <4>1
    <3>4. r = [name |-> r.name, params |-> [i \in DOMAIN types |-> r.params[i]]]
      BY <2>1, <2>2, <3>3, Zenon
    <3>5. \A i \in DOMAIN types : FitsMember(r.params[i], types[i])
      BY <2>2, <2>5, Zenon
    <3> QED
      BY <2>3, <3>1, <3>2, <3>4, <3>5, Zenon DEF IsAddressable
  <2>7. Len(P) = 1 + Len(types)
    BY <1>2, <2>4
  <2> QED
    BY <1>5, <2>2, <2>3, <2>5, <2>6, <2>7, Zenon DEF name
<1>7. ASSUME IsAddressable(r), Len(P) = 1 + Len(Members[r.name]), P[1] = r.name,
             \A i \in DOMAIN r.params : Spells(P[i + 1], r.params[i], Members[r.name][i])
      PROVE  make_from_params(P) = r
  <2>1. r.name = name /\ Members[r.name] = types
    BY <1>7 DEF name, types
  <2>2. /\ r.params = [i \in DOMAIN types |-> r.params[i]] /\ DOMAIN r.params = DOMAIN types
        /\ r = [name |-> name, params |-> r.params]
    BY <1>7, <2>1, AddressableParams
  <2>3. name \in Names /\ \A i \in DOMAIN types : FitsMember(r.params[i], types[i])
    BY <1>7, <2>1 DEF IsAddressable
  <2>4. Len(types) = Len(P) - 1
    BY <1>2, <1>3, <1>7, <2>1, <2>3
  <2>5. \A i \in DOMAIN types : bound(i) = r.params[i] /\ IsParamValid(bound(i), types[i])
    <3> SUFFICES ASSUME NEW i \in DOMAIN types
                 PROVE  bound(i) = r.params[i] /\ IsParamValid(bound(i), types[i])
      OBVIOUS
    <3>1. types[i] \in {"integral", "string"} /\ i + 1 \in 1..Len(P)
      BY <1>2, <1>3, <2>3, <2>4
    <3>2. P[i + 1] \in Word
      BY <1>2, <3>1
    <3>3. FitsMember(r.params[i], types[i]) /\ Spells(P[i + 1], r.params[i], types[i])
      BY <1>7, <2>1, <2>2, <2>3
    <3> QED
      BY <3>1, <3>2, <3>3, BoundWords DEF bound
  <2>6. values = r.params
    <3>1. values = [i \in DOMAIN types |-> r.params[i]]
      BY <2>5 DEF values
    <3> QED
      BY <2>2, <3>1
  <2>7. Makes
    BY <1>4, <2>3, <2>4, <2>5
  <2> QED
    BY <1>1, <2>2, <2>6, <2>7
<1> QED
  BY <1>6, <1>7
\* The lemma that the properties rest on.
LEMMA ReadIfSpelled ==
    ASSUME NEW s \in Seq(Char), NEW r, r # NotFound
    PROVE  (from_string(s) = r) <=> (IsAddressable(r) /\ IsSpelling(s, r))
<1> DEFINE S == Segments(s)
           W == Members[r.name]
           Says(P) == Len(P) = 1 + Len(W) /\ P[1] = r.name
                      /\ \A i \in DOMAIN r.params : Spells(P[i + 1], r.params[i], W[i])
<1>1. CASE s = <<>> \/ s[1] # "/"
  BY <1>1 DEF from_string, IsSpelling
<1>2. CASE s # <<>> /\ s[1] = "/"
  <2>1. s \in Slashed /\ S \in Seq(Word) /\ S # <<>>
    BY <1>2, SegmentsType DEF Slashed
  <2>2. IsSpelling(s, r) <=>
          /\ (s = <<"/">>) <=> (r.name = <<>>)
          /\ \E words \in {S, Front(S)} :
               /\ words # S => Last(S) = <<>> /\ s # <<"/">> /\ Len(words) < MaxParams
               /\ Says(words)
    BY <1>2, Zenon DEF IsSpelling
  <2> HIDE DEF S, W
  <2>3. CASE s = <<"/">>
    <3> DEFINE P == << <<>> >>
    <3>1. S = P
      BY <2>3, SlashAlone DEF S
    <3>2. P \in Seq(Word) /\ P # <<>> /\ Len(P) = 1 /\ P[1] = <<>>
      BY <2>1, <3>1
    <3>3. from_string(s) = make_from_params(P)
      BY <1>2, <2>3 DEF from_string
    <3> HIDE DEF P
    <3>4. (make_from_params(P) = r) <=> IsAddressable(r) /\ Says(P)
      BY <3>2, MadeOfWords DEF W
    <3>5. Says(P) => r.name = <<>>
      BY <3>2
    <3> HIDE DEF Says
    <3>6. IsSpelling(s, r) <=> r.name = <<>> /\ Says(P)
      BY <2>2, <2>3, <3>1
    <3> QED
      BY <3>3, <3>4, <3>5, <3>6
  <2>4. CASE s # <<"/">>
    <3> DEFINE P == ParamsOf(S)
    <3>1. /\ P \in Seq(Word) /\ Len(P) =< Len(S) /\ Len(P) =< MaxParams
          /\ \A i \in 1..Len(P) : P[i] = S[i] /\ P[i] # <<>>
      BY <2>1, ParamsAreWords
    <3>2. from_string(s) = IF ~IsAllRead(S) \/ P = <<>> THEN NotFound ELSE make_from_params(P)
      BY <1>2, <2>4 DEF from_string, S
    <3> HIDE DEF P
    <3>3. \A Q \in Seq(Word) : Len(Q) =< MaxParams /\ (\A i \in 1..Len(Q) : Q[i] # <<>>)
            => ((IsAllRead(S) /\ P = Q) <=> ReadAs(S, Q))
      BY <2>1, WordsAreRead DEF P
    <3>4. \A Q \in Seq(Word) : Q # <<>> /\ Q[1] # <<>>
            => ((make_from_params(Q) = r) <=> (IsAddressable(r) /\ Says(Q)))
      BY MadeOfWords DEF W
    <3>5. ASSUME from_string(s) = r PROVE IsAddressable(r) /\ IsSpelling(s, r)
      <4>1. IsAllRead(S) /\ P # <<>> /\ make_from_params(P) = r
        BY <3>2, <3>5
      <4>2. Len(P) \in Nat \ {0} /\ P[1] # <<>>
        <5>1. Len(P) \in Nat /\ Len(P) # 0
          BY <3>1, <4>1, EmptySeq, LenProperties
        <5>2. 1 \in 1..Len(P)
          BY <5>1
        <5> QED
          BY <3>1, <5>1, <5>2
      <4> HIDE DEF Says
      <4>3. IsAddressable(r) /\ Says(P)
        BY <3>1, <3>4, <4>1, <4>2
      <4>4. r.name # <<>>
        BY <4>2, <4>3 DEF Says
      <4>5. ReadAs(S, P)
        BY <3>1, <3>3, <4>1
      <4>6. \E words \in {S, Front(S)} :
               /\ words # S => Last(S) = <<>> /\ s # <<"/">> /\ Len(words) < MaxParams
               /\ Says(words)
        BY <2>4, <4>3, <4>5, Zenon DEF ReadAs
      <4> QED
        BY <2>2, <2>4, <4>3, <4>4, <4>6
    <3>6. ASSUME IsAddressable(r), IsSpelling(s, r) PROVE from_string(s) = r
      <4>1. r.name # <<>>
        BY <2>2, <2>4, <3>6
      <4>2. PICK words \in {S, Front(S)} :
               /\ words # S => Last(S) = <<>> /\ s # <<"/">> /\ Len(words) < MaxParams
               /\ Says(words)
        BY <2>2, <3>6
      <4>3. words \in Seq(Word)
        BY <2>1, <4>2, FrontAndLast
      <4>4. ReadAs(S, words)
        BY <4>2 DEF ReadAs
      <4>5. /\ W \in Seq({"integral", "string"}) /\ Len(W) \in Nat
            /\ DOMAIN r.params = 1..Len(W)
            /\ \A i \in 1..Len(W) : FitsMember(r.params[i], W[i]) /\ W[i] \in {"integral", "string"}
            /\ Len(W) < MaxParams
        <5>1. W \in Seq({"integral", "string"}) /\ DOMAIN W = 1..Len(W) /\ DOMAIN r.params = DOMAIN W
          BY <3>6, AddressableParams DEF W
        <5>2. r.name \in Names /\ \A i \in DOMAIN W : FitsMember(r.params[i], W[i])
          BY <3>6 DEF IsAddressable, W
        <5>3. Len(W) < MaxParams
          BY <5>2, RouteMapAssumption DEF W
        <5> QED
          BY <5>1, <5>2, <5>3, LenProperties
      <4>6. Len(words) = 1 + Len(W) /\ words[1] = r.name
            /\ \A i \in 1..Len(W) : Spells(words[i + 1], r.params[i], W[i])
        BY <4>2, <4>5
      <4>7. \A i \in 1..Len(words) : words[i] # <<>>
        <5> SUFFICES ASSUME NEW i \in 1..Len(words), i # 1 PROVE words[i] # <<>>
          BY <4>1, <4>6
        <5> DEFINE j == i - 1
        <5>1. j \in 1..Len(W) /\ i = j + 1
          BY <4>5, <4>6
        <5> HIDE DEF j
        <5>2. /\ FitsMember(r.params[j], W[j]) /\ W[j] \in {"integral", "string"}
              /\ Spells(words[i], r.params[j], W[j])
          BY <4>5, <4>6, <5>1
        <5>3. CASE W[j] = "string"
          BY <5>2, <5>3 DEF FitsMember, Spells
        <5>4. CASE W[j] = "integral"
          BY <5>2, <5>4 DEF Spells
        <5> QED
          BY <5>2, <5>3, <5>4
      <4>8. Len(words) =< MaxParams /\ words # <<>> /\ words[1] # <<>>
        <5>1. MaxParams \in Nat
          BY RouteMapAssumption
        <5> QED
          BY <4>1, <4>5, <4>6, <5>1
      <4> HIDE DEF Says
      <4>9. IsAllRead(S) /\ P = words
        BY <3>3, <4>3, <4>4, <4>7, <4>8
      <4>10. make_from_params(words) = r
        BY <3>4, <3>6, <4>2, <4>3, <4>8
      <4> QED
        BY <3>2, <4>8, <4>9, <4>10
    <3> QED
      BY <3>5, <3>6
  <2> QED
    BY <2>3, <2>4
<1> QED
  BY <1>1, <1>2

\* What is put into the address bar comes back.
LEMMA RoutesComeBack ==
    ASSUME NEW r, IsAddressable(r)
    PROVE  to_string(r) \in Seq(Char) /\ from_string(to_string(r)) = r
<1>1. to_string(r) \in Seq(Char) /\ IsSpelling(to_string(r), r)
  BY SpelledByItsString
<1>2. r # NotFound
  BY NotFoundIsNoRoute
<1> QED
  BY <1>1, <1>2, ReadIfSpelled

---------------------------------------------------------------------------
(* The addresses and the history of nav_route *)

Addresses == Seq(Char)

Shown == {from_string(a) : a \in Addresses}

\* The history the user sees is the one the browser keeps, entry by entry.
HistoryIsShown ==
    /\ entries \in Seq(Addresses)
    /\ shown \in Seq(Shown)
    /\ position \in 1..Len(entries)
    /\ Len(shown) = Len(entries)
    /\ \A i \in 1..Len(entries) : shown[i] = from_string(slice(entries[i]))

NavInv == HistoryIsShown /\ StoresFollowLocation

\* producer_init and receive_event cut off the prefix that a push put in front.
LEMMA PrefixIsCutOff ==
    ASSUME NEW s \in Addresses
    PROVE  /\ Prefix \o s \in Addresses
           /\ slice(Prefix \o s) = s
<1> DEFINE p == Prefix \o s
<1>1. Prefix \in Seq(Char) /\ s \in Seq(Char)
  BY AddressesAreStrings DEF Addresses
<1>2. /\ p \in Seq(Char)
      /\ Len(p) = Len(Prefix) + Len(s)
      /\ \A i \in 1..Len(s) : p[Len(Prefix) + i] = s[i]
  <2> HIDE DEF p
  <2>1. p = Prefix \o s
    BY DEF p
  <2> QED
    BY <1>1, <2>1, ConcatProperties, LenProperties
<1>3. slice(p) = s
  <2> HIDE DEF p
  <2>1. Len(Prefix) \in Nat /\ Len(s) \in Nat
    BY <1>1, LenProperties
  <2>2. slice(p) = [i \in 1..Len(s) |-> p[Len(Prefix) + i]]
    BY <1>2, <2>1 DEF slice
  <2>3. s = [i \in 1..Len(s) |-> s[i]]
    BY <1>1, LenProperties
  <2> QED
    BY <1>2, <2>2, <2>3
<1> QED
  BY <1>2, <1>3 DEF Addresses

\* A push drops what was ahead and puts one entry on top of what was behind.
LEMMA PushIsOnTop ==
    ASSUME NEW S, NEW seq \in Seq(S), NEW x \in S, position \in 1..Len(seq)
    PROVE  /\ Above(seq, x) \in Seq(S)
           /\ Len(Above(seq, x)) = position + 1
           /\ \A i \in 1..position : Above(seq, x)[i] = seq[i]
           /\ Above(seq, x)[position + 1] = x
<1>1. /\ SubSeq(seq, 1, position) \in Seq(S)
      /\ Len(SubSeq(seq, 1, position)) = position
      /\ \A i \in 1..position : SubSeq(seq, 1, position)[i] = seq[i]
  BY LenProperties
<1> QED
  BY <1>1 DEF Above

---------------------------------------------------------------------------
(* The steps of nav_route *)

\* producer_init loads both stores from the address of the page.
LEMMA PageIsLoaded == Init => NavInv
<1> SUFFICES ASSUME Init
             PROVE  NavInv
  OBVIOUS
<1>1. PICK r \in Routes : entries = <<Prefix \o to_string(r)>>
  BY DEF Init
<1>2. to_string(r) \in Addresses /\ Prefix \o to_string(r) \in Addresses
  BY PrefixIsCutOff, RoutesFit, RoutesComeBack DEF Addresses
<1>3. position = 1 /\ string_store = slice(pathname)
  BY DEF Init
<1>4. route_store = from_string(string_store) /\ shown = <<route_store>>
  BY DEF Init
<1>5. StoresFollowLocation
  BY DEF Init, StoresFollowLocation
<1>6. slice(pathname) \in Addresses
  <2>1. pathname = Prefix \o to_string(r)
    BY <1>1, <1>3 DEF pathname
  <2>2. slice(pathname) = to_string(r)
    BY <1>2, <2>1, PrefixIsCutOff
  <2> QED
    BY <1>2, <2>2
<1>7. HistoryIsShown
  <2>1. entries \in Seq(Addresses) /\ Len(entries) = 1
    BY <1>1, <1>2
  <2>2. /\ shown \in Seq(Shown)
        /\ Len(shown) = 1 /\ shown[1] = from_string(slice(entries[1]))
    BY <1>3, <1>4, <1>6 DEF pathname, Shown
  <2> QED
    BY <1>3, <2>1, <2>2 DEF HistoryIsShown
<1> QED
  BY <1>5, <1>7 DEF NavInv

\* After every task in which receive_event runs, the stores and their consumers
\* are where the browser is.
LEMMA EventsAreCurrent == receive_event => StoresFollowLocation'
  BY DEF receive_event, StoresFollowLocation, NotifyBoth

\* A push of the string s, shown as the route it stands for, keeps the user's
\* history and the browser's alike.
LEMMA PushesAreShown ==
    ASSUME HistoryIsShown, NEW s \in Addresses,
           web_route_update(s), shown' = Above(shown, from_string(s))
    PROVE  HistoryIsShown'
<1> DEFINE r == from_string(s)
           p == Prefix \o s
<1>1. p \in Addresses /\ slice(p) = s
  BY PrefixIsCutOff
<1>2. entries' = Above(entries, p) /\ position' = position + 1
  BY DEF web_route_update
<1>3. /\ entries \in Seq(Addresses)
      /\ shown \in Seq(Shown)
      /\ position \in 1..Len(entries)
      /\ Len(shown) = Len(entries)
      /\ \A i \in 1..Len(entries) : shown[i] = from_string(slice(entries[i]))
  BY DEF HistoryIsShown
<1>4. r \in Shown /\ shown' = Above(shown, r)
  BY DEF Shown
<1> HIDE DEF p, r
<1>5. /\ entries' \in Seq(Addresses)
      /\ Len(entries') = position + 1
      /\ \A i \in 1..position : entries'[i] = entries[i]
      /\ entries'[position + 1] = p
  <2>1. /\ Above(entries, p) \in Seq(Addresses)
        /\ Len(Above(entries, p)) = position + 1
        /\ \A i \in 1..position : Above(entries, p)[i] = entries[i]
        /\ Above(entries, p)[position + 1] = p
    BY <1>1, <1>3, PushIsOnTop
  <2> QED
    BY <1>2, <2>1
<1>6. /\ shown' \in Seq(Shown)
      /\ Len(shown') = position + 1
      /\ \A i \in 1..position : shown'[i] = shown[i]
      /\ shown'[position + 1] = r
  <2>1. /\ Above(shown, r) \in Seq(Shown)
        /\ Len(Above(shown, r)) = position + 1
        /\ \A i \in 1..position : Above(shown, r)[i] = shown[i]
        /\ Above(shown, r)[position + 1] = r
    <3>1. position \in 1..Len(shown)
      BY <1>3
    <3> QED
      BY <1>3, <1>4, <3>1, PushIsOnTop
  <2> QED
    BY <1>4, <2>1
<1>7. position \in Nat /\ position + 1 \in 1..(position + 1)
  BY <1>3, LenProperties
<1>8. ASSUME NEW i \in 1..(position + 1)
      PROVE  shown'[i] = from_string(slice(entries'[i]))
  <2>1. CASE i = position + 1
    BY <1>1, <1>5, <1>6, <2>1 DEF r
  <2>2. CASE i # position + 1
    <3>1. i \in 1..position /\ i \in 1..Len(entries)
      BY <1>3, <2>2, LenProperties
    <3> QED
      BY <1>3, <1>5, <1>6, <3>1
  <2> QED
    BY <2>1, <2>2
<1> QED
  <2>1. \A i \in 1..Len(entries') : shown'[i] = from_string(slice(entries'[i]))
    BY <1>5, <1>8
  <2>2. position' \in 1..Len(entries') /\ Len(shown') = Len(entries')
    BY <1>2, <1>5, <1>6, <1>7
  <2> QED
    BY <1>5, <1>6, <2>1, <2>2 DEF HistoryIsShown, Shown

\* In a browser pushState does not call onpopstate: what is sent to (nav_route,
\* string) changes the address and nothing else.
PushesAreFollowed == PushStateFires \/ Strings = {}

\* Each task keeps the history and leaves the stores where the browser is.
LEMMA TasksKeepNavInv ==
    ASSUME PushesAreFollowed, NavInv, [NavNext]_vars
    PROVE  NavInv'
<1>1. CASE UNCHANGED vars
  BY <1>1 DEF NavInv, HistoryIsShown, StoresFollowLocation, vars, pathname
<1>2. ASSUME NEW r \in Routes, SetRoute(r)
      PROVE  NavInv'
  <2>1. to_string(r) \in Addresses /\ r = from_string(to_string(r))
    BY RoutesFit, RoutesComeBack DEF Addresses
  <2>2. web_route_update(to_string(r)) /\ shown' = Above(shown, r) /\ receive_event
    BY <1>2 DEF SetRoute
  <2>3. HistoryIsShown'
    BY <2>1, <2>2, PushesAreShown DEF NavInv
  <2> QED
    BY <2>2, <2>3, EventsAreCurrent DEF NavInv
<1>3. ASSUME SetNotFound
      PROVE  NavInv'
  <2>1. HistoryIsShown'
    BY <1>3 DEF SetNotFound, NavInv, HistoryIsShown
  <2> QED
    BY <1>3, <2>1, EventsAreCurrent DEF NavInv, SetNotFound
<1>4. ASSUME NEW s \in Strings, SetString(s)
      PROVE  NavInv'
  <2>1. s \in Addresses
    BY AddressesAreStrings DEF Addresses
  <2>2. web_route_update(s) /\ shown' = Above(shown, from_string(s)) /\ receive_event
    BY <1>4 DEF SetString, PushesAreFollowed
  <2>3. HistoryIsShown'
    BY <2>1, <2>2, PushesAreShown DEF NavInv
  <2> QED
    BY <2>2, <2>3, EventsAreCurrent DEF NavInv
<1>5. ASSUME NEW d \in -MaxHistory..MaxHistory, PopState(d)
      PROVE  NavInv'
  <2>1. position' \in 1..Len(entries) /\ entries' = entries /\ shown' = shown
    BY <1>5, LenProperties DEF PopState, NavInv, HistoryIsShown
  <2>2. HistoryIsShown'
    BY <2>1 DEF NavInv, HistoryIsShown
  <2> QED
    BY <1>5, <2>2, EventsAreCurrent DEF NavInv, PopState
<1> QED
  BY <1>1, <1>2, <1>3, <1>4, <1>5 DEF NavNext

---------------------------------------------------------------------------
(* What holds of nav_route *)

LEMMA NavInvHolds == PushesAreFollowed => (NavSpec => []NavInv)
<1>1. PushesAreFollowed /\ NavInv /\ [NavNext]_vars => NavInv'
  BY TasksKeepNavInv
<1>2. PushesAreFollowed => []PushesAreFollowed
  <2>1. PushesAreFollowed => PushesAreFollowed'
    BY DEF PushesAreFollowed
  <2> QED
    BY <2>1, PTL
<1> QED
  BY <1>1, <1>2, PageIsLoaded, PTL DEF NavSpec

(* Whatever sequence of routes, strings and steps through the history, both
   stores of nav_route, and the consumers of both, say where the browser is,
   where pushState calls onpopstate, as in tool/dom_test/index.js; and in a
   browser, where it does not, as long as the page sends nothing to (nav_route,
   string). *)
THEOREM LocationIsFollowed ==
    PushStateFires \/ Strings = {} => (NavSpec => []StoresFollowLocation)
<1>1. NavInv => StoresFollowLocation
  BY DEF NavInv
<1> QED
  BY <1>1, NavInvHolds, PTL DEF PushesAreFollowed

(* However many routes were set in between, a step back or ahead shows the route
   again that was shown at that entry, and the route that is set is the route
   that arrives. *)
THEOREM HistoryShowsTheSame ==
    PushStateFires \/ Strings = {} => (NavSpec => []BackShowsTheSame)
<1>1. NavInv => BackShowsTheSame
  BY DEF NavInv, HistoryIsShown, StoresFollowLocation, BackShowsTheSame, pathname
<1> QED
  BY <1>1, NavInvHolds, PTL DEF PushesAreFollowed

---------------------------------------------------------------------------
(* The moves of a game *)

\* The function in the definition of Play, up to n.
Played(f, moves, n) ==
    f = [k \in 0..n |-> IF k = 0 THEN [board |-> Tiles!game, told |-> 0]
                        ELSE Tiles!Apply(f[k - 1], moves[k])]

LEMMA PlayedExists ==
    ASSUME NEW s
    PROVE  \A n \in Nat : \E f : Played(f, s, n)
<1> DEFINE T == {n \in Nat : \E f : Played(f, s, n)}
           first == [board |-> Tiles!game, told |-> 0]
<1>1. 0 \in T
  <2> DEFINE f == [k \in 0..0 |-> first]
  <2>1. Played(f, s, 0)
    BY SMT DEF Played
  <2> QED
    BY <2>1
<1>2. ASSUME NEW n \in Nat, n \in T PROVE n + 1 \in T
  <2>1. PICK f : Played(f, s, n)
    BY <1>2
  <2> DEFINE step(x, k) == Tiles!Apply(x, s[k])
             last == step(f[n], n + 1)
             g == [k \in 0..(n + 1) |-> IF k = n + 1 THEN last ELSE f[k]]
  <2>2. \A k \in 0..n : f[k] = IF k = 0 THEN first ELSE step(f[k - 1], k)
    BY <2>1, Zenon DEF Played
  <2> HIDE DEF first, step
  <2>3. \A k \in 0..(n + 1) : g[k] = IF k = 0 THEN first ELSE step(g[k - 1], k)
    BY <2>2, SMT
  <2>4. g = [k \in 0..(n + 1) |-> IF k = 0 THEN first ELSE step(g[k - 1], k)]
    BY <2>3
  <2>5. Played(g, s, n + 1)
    <3> HIDE DEF g
    <3> QED
      BY <2>4, Zenon DEF Played, first, step
  <2> QED
    BY <2>5
<1> HIDE DEF T
<1>3. Nat \subseteq T
  BY <1>1, <1>2, EveryNat
<1> QED
  BY <1>3 DEF T

\* It looks at no move behind the one it has come to.
LEMMA PlayedAgrees ==
    ASSUME NEW s, NEW t, NEW m \in Nat, NEW n \in Nat, NEW f, NEW g,
           Played(f, s, m), Played(g, t, n),
           NEW k \in Nat, k =< m, k =< n, \A i \in 1..k : s[i] = t[i]
    PROVE  f[k] = g[k]
<1> DEFINE first == [board |-> Tiles!game, told |-> 0]
<1>1. \A i \in 0..m : f[i] = IF i = 0 THEN first ELSE Tiles!Apply(f[i - 1], s[i])
  BY Zenon DEF Played
<1>2. \A i \in 0..n : g[i] = IF i = 0 THEN first ELSE Tiles!Apply(g[i - 1], t[i])
  BY Zenon DEF Played
<1> DEFINE T == {i \in Nat : i =< k => f[i] = g[i]}
<1> HIDE DEF first
<1>3. 0 \in T
  BY <1>1, <1>2
<1>4. ASSUME NEW i \in Nat, i \in T PROVE i + 1 \in T
  <2>1. CASE i + 1 =< k
    <3>1. /\ i + 1 \in 0..m /\ i + 1 \in 0..n /\ i + 1 # 0 /\ (i + 1) - 1 = i
          /\ i + 1 \in 1..k /\ i =< k
      BY <2>1
    <3>2. f[i + 1] = Tiles!Apply(f[i], s[i + 1]) /\ g[i + 1] = Tiles!Apply(g[i], t[i + 1])
      BY <1>1, <1>2, <3>1, Zenon
    <3>3. f[i] = g[i] /\ s[i + 1] = t[i + 1]
      BY <1>4, <3>1
    <3>4. f[i + 1] = g[i + 1]
      BY <3>2, <3>3, Zenon
    <3> QED
      BY <3>4
  <2> QED
    BY <2>1
<1>5. Nat \subseteq T
  <2> HIDE DEF T
  <2> QED
    BY <1>3, <1>4, EveryNat
<1> QED
  BY <1>5

\* The game move by move.
LEMMA BoardByBoard ==
    ASSUME NEW M, text \in Seq(M), NEW n \in 0..Len(text)
    PROVE  IF n = 0 THEN Board(n) = [board |-> Tiles!game, told |-> 0]
           ELSE Board(n) = Tiles!Apply(Board(n - 1), text[n])
<1> DEFINE moves(k) == SubSeq(text, 1, k)
           f(k) == CHOOSE f : Played(f, moves(k), k)
<1>1. Len(text) \in Nat
  BY LenProperties
<1>2. \A k \in 0..Len(text) : /\ Len(moves(k)) = k
                              /\ \A i \in 1..k : moves(k)[i] = text[i]
  <2> SUFFICES ASSUME NEW k \in 0..Len(text)
               PROVE  Len(moves(k)) = k /\ \A i \in 1..k : moves(k)[i] = text[i]
    OBVIOUS
  <2>1. k \in Nat /\ \A i \in 1..k : text[i] \in M
    BY <1>1, LenProperties
  <2>2. /\ Len(SubSeq(text, 1, k)) = k
        /\ \A i \in 1..k : SubSeq(text, 1, k)[i] = text[i]
    BY <2>1, SubSeqProperties
  <2> QED
    BY <2>2
<1>3. \A k \in 0..Len(text) : Board(k) = (CHOOSE h : Played(h, moves(k), Len(moves(k))))[Len(moves(k))]
  BY Zenon DEF Board, Tiles!Play, Played
<1> HIDE DEF moves
<1>4. \A k \in 0..Len(text) : Board(k) = f(k)[k] /\ Played(f(k), moves(k), k)
  <2> SUFFICES ASSUME NEW k \in 0..Len(text)
               PROVE  Board(k) = f(k)[k] /\ Played(f(k), moves(k), k)
    OBVIOUS
  <2>1. Board(k) = f(k)[k]
    BY <1>2, <1>3
  <2>2. \E h : Played(h, moves(k), k)
    <3>1. k \in Nat
      BY <1>1
    <3>2. \A m \in Nat : \E h : Played(h, moves(k), m)
      BY PlayedExists
    <3> QED
      BY <3>1, <3>2
  <2>3. Played(f(k), moves(k), k)
    BY <2>2, Zenon
  <2> QED
    BY <2>1, <2>3
<1> HIDE DEF f
<1>5. CASE n = 0
  <2>1. Played(f(0), moves(0), 0) /\ Board(0) = f(0)[0]
    BY <1>4, <1>5
  <2>2. f(0)[0] = [board |-> Tiles!game, told |-> 0]
    <3>1. \A k \in 0..0 : f(0)[k] = IF k = 0 THEN [board |-> Tiles!game, told |-> 0]
                                   ELSE Tiles!Apply(f(0)[k - 1], moves(0)[k])
      BY <2>1, Zenon DEF Played
    <3>2. 0 \in 0..0
      OBVIOUS
    <3> QED
      BY <3>1, <3>2, Zenon
  <2> QED
    BY <1>5, <2>1, <2>2
<1>6. CASE n # 0
  <2> DEFINE m == n - 1
  <2>1. m \in 0..Len(text) /\ m \in Nat /\ n \in Nat /\ m =< n /\ m + 1 = n
    BY <1>1, <1>6
  <2>2. /\ Played(f(m), moves(m), m) /\ Board(m) = f(m)[m]
        /\ Played(f(n), moves(n), n) /\ Board(n) = f(n)[n]
    <3> HIDE DEF m
    <3> QED
      BY <1>4, <2>1
  <2>3. \A i \in 1..m : moves(m)[i] = moves(n)[i]
    BY <1>2, <2>1
  <2>4. f(m)[m] = f(n)[m]
    <3> DEFINE fm == f(m)
               fn == f(n)
               sm == moves(m)
               sn == moves(n)
    <3>1. Played(fm, sm, m) /\ Played(fn, sn, n) /\ \A i \in 1..m : sm[i] = sn[i]
      BY <2>2, <2>3
    <3> HIDE DEF m, fm, fn, sm, sn
    <3>2. m \in Nat /\ n \in Nat /\ m =< m /\ m =< n
      BY <2>1
    <3>3. fm[m] = fn[m]
      BY <3>1, <3>2, PlayedAgrees
    <3> QED
      BY <3>3 DEF fm, fn
  <2>5. f(n)[n] = Tiles!Apply(f(n)[m], moves(n)[n])
    <3>1. \A k \in 0..n : f(n)[k] = IF k = 0 THEN [board |-> Tiles!game, told |-> 0]
                                   ELSE Tiles!Apply(f(n)[k - 1], moves(n)[k])
      BY <2>2, Zenon DEF Played
    <3>2. n \in 0..n
      BY <2>1
    <3> QED
      BY <1>6, <3>1, <3>2, Zenon
  <2>6. moves(n)[n] = text[n]
    BY <1>2, <1>6, <2>1
  <2>7. Board(n) = Tiles!Apply(Board(m), text[n])
    BY <2>2, <2>4, <2>5, <2>6, Zenon
  <2> QED
    BY <1>6, <2>7
<1> QED
  BY <1>5, <1>6

\* A board of the puzzle: one hole, and nothing behind its cells.
Hole(g, h) ==
    /\ h \in 0..8 /\ g[h] = 0
    /\ \A i \in 0..8 : i # h => g[i] # 0
    /\ \A i \in 9..63 : g[i] = 0
Puzzle(g) == g \in [0..63 -> Nat] /\ \E h \in 0..8 : Hole(g, h)

LEMMA GameIsPuzzle == Puzzle(Tiles!game)
<1>1. \A i \in 0..63 : Tiles!game[i] = IF i < 9 THEN Tiles!initial[i + 1] ELSE 0
  BY DEF Tiles!game, Tiles!width, Tiles!height
<1>2. DOMAIN Tiles!game = 0..63 /\ Tiles!game = [i \in 0..63 |-> Tiles!game[i]]
  BY DEF Tiles!game
<1> DEFINE g == Tiles!game
<1>3. /\ g[0] = 3 /\ g[1] = 4 /\ g[2] = 6 /\ g[3] = 8 /\ g[4] = 0
      /\ g[5] = 1 /\ g[6] = 2 /\ g[7] = 5 /\ g[8] = 7
      /\ \A i \in 9..63 : g[i] = 0
  BY <1>1 DEF Tiles!initial
<1> HIDE DEF g
<1>4. \A i \in 0..8 : i # 4 => g[i] # 0
  BY <1>3
<1>5. \A i \in 0..63 : g[i] \in Nat
  <2>1. \A i \in 0..63 : i \in 0..8 \/ i \in 9..63
    OBVIOUS
  <2>2. \A i \in 0..8 : g[i] \in Nat
    BY <1>3
  <2> QED
    BY <1>3, <2>1, <2>2
<1>6. g = [i \in 0..63 |-> g[i]]
  BY <1>2 DEF g
<1>7. g \in [0..63 -> Nat]
  BY <1>5, <1>6
<1> QED
  BY <1>3, <1>4, <1>7 DEF Puzzle, Hole, g
\* One more neighbour that is looked at: t has it, s those before, u all of them.
More(s, e, t, u) ==
    /\ u \in Seq(Int)
    /\ (u = <<>>) <=> (s = <<>> /\ t = <<>>)
    /\ s # <<>> => Head(u) = Head(s)
    /\ s = <<>> /\ t # <<>> => Head(u) = e

LEMMA OneMore ==
    ASSUME NEW s \in Seq(Int), NEW e \in Int, NEW t \in {<<>>, <<e>>}
    PROVE  More(s, e, t, s \o t)
<1>1. t \in Seq(Int) /\ (t # <<>> => t = <<e>>)
  <2>1. <<>> \in Seq(Int) /\ <<e>> \in Seq(Int)
    OBVIOUS
  <2>2. t = <<>> \/ t = <<e>>
    OBVIOUS
  <2> QED
    BY <2>1, <2>2
<1>2. s = <<>> => s \o t = t
  BY <1>1, ConcatEmptySeq
<1>3. t = <<>> => s \o t = s
  BY <1>1, ConcatEmptySeq
<1>4. s \o t \in Seq(Int) /\ Len(s \o t) = Len(s) + Len(t)
      /\ \A i \in 1..Len(s) : (s \o t)[i] = s[i]
  BY <1>1, ConcatProperties
<1>5. s # <<>> => Len(s) \in Nat \ {0} /\ 1 \in 1..Len(s)
  BY EmptySeq, LenProperties
<1>6. s # <<>> => s \o t # <<>> /\ Head(s \o t) = Head(s)
  <2> SUFFICES ASSUME s # <<>> PROVE s \o t # <<>> /\ Head(s \o t) = Head(s)
    OBVIOUS
  <2> DEFINE u == s \o t
  <2>1. Len(t) \in Nat
    BY <1>1, LenProperties
  <2>2. u \in Seq(Int) /\ u[1] = s[1] /\ Len(u) # 0
    BY <1>4, <1>5, <2>1
  <2> HIDE DEF u
  <2>3. u # <<>>
    BY <2>2
  <2>4. Head(u) = u[1] /\ Head(s) = s[1]
    BY <2>2, <2>3
  <2> QED
    BY <2>2, <2>3, <2>4 DEF u
<1>7. s = <<>> /\ t # <<>> => Head(s \o t) = e
  BY <1>1, <1>2
<1> QED
  BY <1>1, <1>2, <1>3, <1>4, <1>6, <1>7 DEF More

\* The neighbours on the grid.
LEMMA Neighbours ==
    ASSUME NEW i \in 0..8, NEW h \in 0..8
    PROVE  (Tiles!Distance(i, h) = 1)
             <=> \/ i % 3 # 0 /\ h = i - 1
                 \/ i % 3 # 2 /\ h = i + 1
                 \/ h = i - 3 \/ h = i + 3
<1> DEFINE r == i % 3
           q == i \div 3
           u == h % 3
           v == h \div 3
<1>1. r \in 0..2 /\ q \in 0..2 /\ i = 3 * q + r
  BY SMTT(30)
<1>2. u \in 0..2 /\ v \in 0..2 /\ h = 3 * v + u
  BY SMTT(30)
<1>3. Tiles!Distance(i, h) = (IF r < u THEN u - r ELSE r - u) + (IF q < v THEN v - q ELSE q - v)
  BY DEF Tiles!Distance, Tiles!width
<1> HIDE DEF r, q, u, v
<1>4. ((IF r < u THEN u - r ELSE r - u) + (IF q < v THEN v - q ELSE q - v) = 1)
        <=> \/ q = v /\ r = u + 1
            \/ q = v /\ u = r + 1
            \/ r = u /\ q = v + 1
            \/ r = u /\ v = q + 1
  BY <1>1, <1>2
<1>5. (q = v /\ r = u + 1) <=> (r # 0 /\ h = i - 1)
  BY <1>1, <1>2
<1>6. (q = v /\ u = r + 1) <=> (r # 2 /\ h = i + 1)
  BY <1>1, <1>2
<1>7. (r = u /\ q = v + 1) <=> h = i - 3
  BY <1>1, <1>2
<1>8. (r = u /\ v = q + 1) <=> h = i + 3
  BY <1>1, <1>2
<1> QED
  BY <1>3, <1>4, <1>5, <1>6, <1>7, <1>8 DEF r

\* Whoever looks for the hole from a cell finds it if it is beside it.
Swapped(g, h, i) == IF Tiles!Distance(i, h) = 1 THEN h ELSE i
LEMMA HoleIsFound ==
    ASSUME NEW g, NEW h, Hole(g, h), NEW i \in 0..8,
           i = 6 => Tiles!Distance(i, h) = 1 \/ i = h
    PROVE  Tiles!get_tile_swap_index(g, i) = Swapped(g, h, i)
<1>0. h \in 0..8 /\ g[h] = 0 /\ \A k \in 0..8 : k # h => g[k] # 0
  BY DEF Hole
<1> DEFINE j == Tiles!get_tile_swap_index(g, i)
           Option(c, e) == IF c THEN <<e>> ELSE <<>>
           cl == i % 3 # 0 /\ g[i - 1] = 0
           cr == i % 3 # 2 /\ g[i + 1] = 0
           ca == i >= 3 /\ g[i - 3] = 0
           cb == i =< 6 /\ g[i + 3] = 0
           t1 == Option(cl, i - 1)
           t2 == Option(cr, i + 1)
           t3 == Option(ca, i - 3)
           t4 == Option(cb, i + 3)
           s0 == Option(g[i] = 0, i)
           s1 == s0 \o t1
           s2 == s1 \o t2
           s3 == s2 \o t3
           s4 == s3 \o t4
           s5 == s4 \o <<i>>
<1>1. j = Head(s5)
  <2>1. Tiles!width = 3 /\ Tiles!height = 3 /\ 3 - 1 = 2 /\ 3 * 3 - 3 = 6
    BY DEF Tiles!width, Tiles!height
  <2> QED
    BY <2>1, Zenon DEF Tiles!get_tile_swap_index
<1>2. i - 1 \in Int /\ i + 1 \in Int /\ i - 3 \in Int /\ i + 3 \in Int /\ i \in Int
  OBVIOUS
<1>3. s0 \in Seq(Int) /\ (s0 = <<>> <=> g[i] # 0) /\ (s0 # <<>> => Head(s0) = i)
  OBVIOUS
<1>4. /\ t1 \in {<<>>, <<i - 1>>} /\ ((t1 = <<>>) <=> ~cl)
      /\ t2 \in {<<>>, <<i + 1>>} /\ ((t2 = <<>>) <=> ~cr)
      /\ t3 \in {<<>>, <<i - 3>>} /\ ((t3 = <<>>) <=> ~ca)
      /\ t4 \in {<<>>, <<i + 3>>} /\ ((t4 = <<>>) <=> ~cb)
  OBVIOUS
<1> HIDE DEF s0, t1, t2, t3, t4
<1>5. s1 \in Seq(Int) /\ More(s0, i - 1, t1, s1)
  <2>1. More(s0, i - 1, t1, s1)
    BY <1>2, <1>3, <1>4, OneMore
  <2> QED
    BY <2>1 DEF More
<1> HIDE DEF s1
<1>6. s2 \in Seq(Int) /\ More(s1, i + 1, t2, s2)
  <2>1. More(s1, i + 1, t2, s2)
    BY <1>2, <1>4, <1>5, OneMore
  <2> QED
    BY <2>1 DEF More
<1> HIDE DEF s2
<1>7. s3 \in Seq(Int) /\ More(s2, i - 3, t3, s3)
  <2>1. More(s2, i - 3, t3, s3)
    BY <1>2, <1>4, <1>6, OneMore
  <2> QED
    BY <2>1 DEF More
<1> HIDE DEF s3
<1>8. s4 \in Seq(Int) /\ More(s3, i + 3, t4, s4)
  <2>1. More(s3, i + 3, t4, s4)
    BY <1>2, <1>4, <1>7, OneMore
  <2> QED
    BY <2>1 DEF More
<1> HIDE DEF s4
<1>9. More(s4, i, <<i>>, s5) /\ <<i>> # <<>>
  <2>1. <<i>> \in {<<>>, <<i>>} /\ <<i>> # <<>>
    OBVIOUS
  <2> QED
    BY <1>2, <1>8, <2>1, OneMore
<1> HIDE DEF s5, Option, cl, cr, ca, cb
<1>10. /\ ~cl <=> t1 = <<>>
       /\ ~cr <=> t2 = <<>>
       /\ ~ca <=> t3 = <<>>
       /\ ~cb <=> t4 = <<>>
  BY <1>4
<1>11. j = IF g[i] = 0 THEN i ELSE IF cl THEN i - 1 ELSE IF cr THEN i + 1
           ELSE IF ca THEN i - 3 ELSE IF cb THEN i + 3 ELSE i
  <2> HIDE DEF j
  <2>1. CASE g[i] = 0
    BY <1>1, <1>3, <1>5, <1>6, <1>7, <1>8, <1>9, <1>10, <2>1, Zenon DEF More
  <2>2. CASE g[i] # 0 /\ cl
    BY <1>1, <1>3, <1>5, <1>6, <1>7, <1>8, <1>9, <1>10, <2>2, Zenon DEF More
  <2>3. CASE g[i] # 0 /\ ~cl /\ cr
    BY <1>1, <1>3, <1>5, <1>6, <1>7, <1>8, <1>9, <1>10, <2>3, Zenon DEF More
  <2>4. CASE g[i] # 0 /\ ~cl /\ ~cr /\ ca
    BY <1>1, <1>3, <1>5, <1>6, <1>7, <1>8, <1>9, <1>10, <2>4, Zenon DEF More
  <2>5. CASE g[i] # 0 /\ ~cl /\ ~cr /\ ~ca /\ cb
    BY <1>1, <1>3, <1>5, <1>6, <1>7, <1>8, <1>9, <1>10, <2>5, Zenon DEF More
  <2>6. CASE g[i] # 0 /\ ~cl /\ ~cr /\ ~ca /\ ~cb
    BY <1>1, <1>3, <1>5, <1>6, <1>7, <1>8, <1>9, <1>10, <2>6, Zenon DEF More
  <2> QED
    BY <2>1, <2>2, <2>3, <2>4, <2>5, <2>6, Zenon
<1>12. (g[i] = 0) <=> (h = i)
  BY <1>0
<1>13. /\ cl <=> (i % 3 # 0 /\ h = i - 1)
       /\ cr <=> (i % 3 # 2 /\ h = i + 1)
       /\ ca <=> (h = i - 3)
       /\ i # 6 => (cb <=> (h = i + 3))
  <2>1. i % 3 # 0 => i - 1 \in 0..8
    BY SMTT(30)
  <2>2. i % 3 # 2 => i + 1 \in 0..8
    BY SMTT(30)
  <2>3. i >= 3 => i - 3 \in 0..8
    OBVIOUS
  <2>4. i =< 6 /\ i # 6 => i + 3 \in 0..8
    OBVIOUS
  <2>5. cl <=> (i % 3 # 0 /\ h = i - 1)
    BY <1>0, <2>1 DEF cl
  <2>6. cr <=> (i % 3 # 2 /\ h = i + 1)
    BY <1>0, <2>2 DEF cr
  <2>7. ca <=> (h = i - 3)
    BY <1>0, <2>3 DEF ca
  <2>8. i # 6 => (cb <=> (h = i + 3))
    BY <1>0, <2>4 DEF cb
  <2> QED
    BY <2>5, <2>6, <2>7, <2>8
<1>14. (Tiles!Distance(i, h) = 1)
             <=> \/ i % 3 # 0 /\ h = i - 1
                 \/ i % 3 # 2 /\ h = i + 1
                 \/ h = i - 3 \/ h = i + 3
  BY <1>0, Neighbours
<1> DEFINE d == Tiles!Distance(i, h)
           r == i % 3
<1> HIDE DEF j, d, r
<1>17. /\ cl => h = i - 1
       /\ cr => h = i + 1
       /\ ca => h = i - 3
       /\ i # 6 => (cb <=> (h = i + 3))
  BY <1>13, Zenon
<1>18. (d = 1) <=> (cl \/ cr \/ ca \/ h = i + 3)
  BY <1>13, <1>14, Zenon DEF d
<1>19. j = IF g[i] = 0 THEN i ELSE IF cl THEN i - 1 ELSE IF cr THEN i + 1
           ELSE IF ca THEN i - 3 ELSE IF cb THEN i + 3 ELSE i
  BY <1>11 DEF j
<1>15. ASSUME d = 1 PROVE j = h
  <2>1. h # i
    BY <1>0, <1>15, <1>17, <1>18
  <2>2. i = 6 => h # i + 3
    BY <1>0
  <2> QED
    BY <1>12, <1>15, <1>17, <1>18, <1>19, <2>1, <2>2
<1>16. ASSUME d # 1 PROVE j = i
  <2>1. ~cl /\ ~cr /\ ~ca /\ (i # 6 => ~cb)
    BY <1>16, <1>17, <1>18
  <2>2. i = 6 => h = i
    BY <1>16 DEF d
  <2> QED
    BY <1>12, <1>19, <2>1, <2>2
<1> QED
  BY <1>15, <1>16 DEF d, j, Swapped

\* A move that does not take the tile in the corner off the board.
Slides(x, i, y) ==
    /\ y.board = Tiles!Slid(x.board, i) /\ Puzzle(y.board)
    /\ y.told = x.told + (IF y.board = x.board THEN 0 ELSE 1)
LEMMA MoveIsSlide ==
    ASSUME NEW x, Puzzle(x.board), NEW i \in 0..255, ~Tiles!AtTheCorner(x.board, i)
    PROVE  Slides(x, i, Tiles!Apply(x, i))
<1> DEFINE g == x.board
           r == Tiles!apply_game_move(g, i)
           y == Tiles!Apply(x, i)
           j == Tiles!get_tile_swap_index(g, i)
<1>1. y = [board |-> r.board, told |-> x.told + (IF r.moved THEN 1 ELSE 0)]
  BY DEF Tiles!Apply
<1>2. y.board = r.board /\ y.told = x.told + (IF r.moved THEN 1 ELSE 0)
  BY <1>1
<1>3. r = IF i >= 9 \/ j = i THEN [board |-> g, moved |-> FALSE]
          ELSE [board |-> [g EXCEPT ![i] = g[j], ![j] = g[i]], moved |-> TRUE]
  <2>1. Tiles!width * Tiles!height = 9
    BY DEF Tiles!width, Tiles!height
  <2> QED
    BY <2>1, Zenon DEF Tiles!apply_game_move
<1> HIDE DEF g, r, y, j
<1>4. g \in [0..63 -> Nat]
  BY DEF Puzzle, g
<1>5. PICK h \in 0..8 : Hole(g, h)
  BY DEF Puzzle, g
<1>10. /\ g[h] = 0 /\ \A k \in 0..8 : k # h => g[k] # 0
       /\ \A k \in 9..63 : g[k] = 0
  BY <1>5 DEF Hole
<1>6. Tiles!Cells = 0..8 /\ Tiles!Holes(g) = {h}
  <2>1. Tiles!Cells = 0..8
    BY DEF Tiles!Cells, Tiles!width, Tiles!height
  <2> QED
    BY <1>10, <2>1 DEF Tiles!Holes
<1>7. Tiles!Slid(g, i) = IF i \in 0..8 /\ Tiles!Distance(i, h) = 1
                         THEN [g EXCEPT ![i] = 0, ![h] = g[i]] ELSE g
  <2>1. CASE i \in 0..8 /\ Tiles!Distance(i, h) = 1
    <3>1. (CHOOSE k \in Tiles!Holes(g) : Tiles!Distance(i, k) = 1) = h
      BY <1>6, <2>1
    <3> QED
      BY <1>6, <2>1, <3>1, Zenon DEF Tiles!Slid
  <2>2. CASE ~ (i \in 0..8 /\ Tiles!Distance(i, h) = 1)
    BY <1>6, <2>2, Zenon DEF Tiles!Slid
  <2> QED
    BY <2>1, <2>2
<1>8. CASE i \notin 0..8
  <2>1. r = [board |-> g, moved |-> FALSE]
    BY <1>3, <1>8
  <2> QED
    BY <1>2, <1>7, <1>8, <2>1 DEF g, y, Slides
<1>9. CASE i \in 0..8
  <2>1. i = 6 => Tiles!Distance(i, h) = 1 \/ i = h
    <3> SUFFICES ASSUME i = 6, i # h, Tiles!Distance(i, h) # 1 PROVE FALSE
      OBVIOUS
    <3>1. Tiles!width * Tiles!height - Tiles!width = 6
      BY DEF Tiles!width, Tiles!height
    <3>2. g[i] # 0
      BY <1>9, <1>10
    <3>3. Tiles!AtTheCorner(g, i)
      BY <1>6, <3>1, <3>2 DEF Tiles!AtTheCorner
    <3> QED
      BY <3>3 DEF g
  <2>2. j = IF Tiles!Distance(i, h) = 1 THEN h ELSE i
    <3>1. j = Swapped(g, h, i)
      BY <1>5, <1>9, <2>1, HoleIsFound DEF j
    <3> QED
      BY <3>1 DEF Swapped
  <2>3. CASE Tiles!Distance(i, h) = 1
    <3>1. i # h
      BY <1>9, <2>3, Neighbours
    <3>2. r = [board |-> [g EXCEPT ![i] = g[h], ![h] = g[i]], moved |-> TRUE]
      BY <1>3, <1>9, <2>2, <2>3, <3>1
    <3> DEFINE s == [g EXCEPT ![i] = 0, ![h] = g[i]]
    <3>3. r.board = s /\ r.moved
      BY <1>10, <3>2
    <3>4. /\ s \in [0..63 -> Nat] /\ s[i] = 0 /\ s[h] = g[i]
          /\ \A k \in 0..63 : k # i /\ k # h => s[k] = g[k]
      <4>1. i \in 0..63 /\ h \in 0..63 /\ g \in [0..63 -> Nat] /\ i # h
        BY <1>4, <1>9, <3>1
      <4>2. g[i] \in Nat /\ 0 \in Nat
        BY <4>1
      <4> HIDE DEF g
      <4> QED
        BY <4>1, <4>2
    <3> HIDE DEF s
    <3>5. g[i] # 0
      BY <1>9, <1>10, <3>1
    <3>6. \A k \in 0..8 : k # i => s[k] # 0
      BY <1>10, <3>4, <3>5
    <3>7. Puzzle(s)
      BY <1>9, <1>10, <3>4, <3>6 DEF Puzzle, Hole
    <3>8. s # g
      BY <3>4, <3>5
    <3>9. Tiles!Slid(g, i) = s
      BY <1>7, <1>9, <2>3 DEF s
    <3> QED
      BY <1>2, <3>3, <3>7, <3>8, <3>9 DEF g, y, Slides
  <2>4. CASE Tiles!Distance(i, h) # 1
    <3>1. r = [board |-> g, moved |-> FALSE]
      BY <1>3, <2>2, <2>4
    <3>2. Tiles!Slid(g, i) = g
      BY <1>7, <2>4
    <3> QED
      BY <1>2, <3>1, <3>2 DEF g, y, Slides
  <2> QED
    BY <2>3, <2>4
<1> QED
  BY <1>8, <1>9

---------------------------------------------------------------------------
(* Texts *)

TextInv == kind \in DOMAIN Alphabet /\ text \in Seq(Alphabet[kind])

LEMMA TextInvHolds == TextSpec => []TextInv
<1>1. TextInit => TextInv
  BY DEF TextInit, TextInv
<1>2. TextInv /\ [Type]_texts => TextInv'
  BY AppendProperties DEF TextInv, Type, texts
<1> QED
  BY <1>1, <1>2, PTL DEF TextSpec

(* Whatever is typed into the address bar, of any length and over any set of
   characters: it is taken for a route if and only if it spells it, and the string
   that the route is put into the address bar as is taken for that route again. *)
THEOREM RoutesAreSpelled == TextSpec => []AddressesAreRoutes
<1>1. TextInv => AddressesAreRoutes
  <2> SUFFICES ASSUME TextInv, kind = "routes"
               PROVE  LET route == from_string(text)
                      IN  IF route = NotFound
                          THEN \A r \in Routes : ~IsSpelling(text, r) /\ text # to_string(r)
                          ELSE /\ IsSpelling(text, route)
                               /\ from_string(to_string(route)) = route
    BY DEF AddressesAreRoutes
  <2> DEFINE route == from_string(text)
  <2>1. text \in Seq(Char)
    BY TextsAssumption DEF TextInv
  <2>2. CASE route = NotFound
    <3> SUFFICES ASSUME NEW r \in Routes
                 PROVE  ~IsSpelling(text, r) /\ text # to_string(r)
      BY <2>2
    <3>1. IsAddressable(r) /\ r # NotFound
      BY RoutesFit, NotFoundIsNoRoute
    <3>2. from_string(text) # r
      BY <2>2, <3>1
    <3> QED
      BY <2>1, <3>1, <3>2, ReadIfSpelled, RoutesComeBack
  <2>3. CASE route # NotFound
    <3> HIDE DEF route
    <3>1. IsAddressable(route) /\ IsSpelling(text, route)
      BY <2>1, <2>3, ReadIfSpelled DEF route
    <3>2. from_string(to_string(route)) = route
      BY <3>1, RoutesComeBack
    <3> QED
      BY <2>3, <3>1, <3>2 DEF route
  <2> QED
    BY <2>2, <2>3
<1> QED
  BY <1>1, TextInvHolds, PTL

(* A game of any length, whatever moves are sent: as long as no move takes the tile
   in the corner off the board, which the code would do, the board stays a puzzle
   with one hole, each move slides the tile beside it, and the consumers are told of
   the moves that changed something and of no other. *)
THEOREM PuzzleStays == TextSpec => []MovesAreSlides
<1>1. TextInv => MovesAreSlides
  <2> SUFFICES ASSUME TextInv, kind = "moves", text # <<>>,
                      \A n \in DOMAIN text : ~Tiles!AtTheCorner(Board(n - 1).board, text[n])
               PROVE  LET before == Board(Len(text) - 1)
                          after == Board(Len(text))
                      IN  /\ after.board = Tiles!Slid(before.board, Last(text))
                          /\ after.told = before.told + (IF after.board = before.board THEN 0 ELSE 1)
    BY DEF MovesAreSlides
  <2>1. text \in Seq(0..255)
    BY TextsAssumption DEF TextInv
  <2> DEFINE n == Len(text)
  <2>2. n \in Nat /\ n # 0 /\ DOMAIN text = 1..n /\ \A k \in 1..n : text[k] \in 0..255
    <3>1. n \in Nat /\ DOMAIN text = 1..n
      BY <2>1, LenProperties
    <3>2. n # 0
      BY <2>1, EmptySeq
    <3>3. \A k \in 1..n : text[k] \in 0..255
      BY <2>1, ElementOfSeq
    <3> QED
      BY <3>1, <3>2, <3>3
  <2> HIDE DEF n
  <2>3. \A k \in 0..n : IF k = 0 THEN Board(k) = [board |-> Tiles!game, told |-> 0]
                        ELSE Board(k) = Tiles!Apply(Board(k - 1), text[k])
    BY <2>1, BoardByBoard DEF n
  <2> DEFINE b(k) == Board(k)
             T == {k \in Nat : k =< n => Puzzle(b(k).board)}
  <2> HIDE DEF b
  <2>4. \A k \in 0..n : IF k = 0 THEN b(k) = [board |-> Tiles!game, told |-> 0]
                        ELSE b(k) = Tiles!Apply(b(k - 1), text[k])
    BY <2>3 DEF b
  <2>5. ASSUME NEW k \in 1..n, Puzzle(b(k - 1).board)
        PROVE  /\ b(k).board = Tiles!Slid(b(k - 1).board, text[k]) /\ Puzzle(b(k).board)
               /\ b(k).told = b(k - 1).told + (IF b(k).board = b(k - 1).board THEN 0 ELSE 1)
    <3>1. b(k) = Tiles!Apply(b(k - 1), text[k])
      BY <2>2, <2>4
    <3>2. ~Tiles!AtTheCorner(b(k - 1).board, text[k])
      BY <2>2 DEF b
    <3>3. text[k] \in 0..255
      BY <2>2
    <3> DEFINE x == b(k - 1)
    <3> HIDE DEF x
    <3>4. Puzzle(x.board) /\ ~Tiles!AtTheCorner(x.board, text[k]) /\ b(k) = Tiles!Apply(x, text[k])
      BY <2>5, <3>1, <3>2 DEF x
    <3>5. Slides(x, text[k], b(k))
      BY <3>3, <3>4, MoveIsSlide
    <3> QED
      BY <3>5 DEF x, Slides
  <2>6. 0 \in T
    <3>1. 0 \in 0..n
      BY <2>2
    <3>2. b(0) = [board |-> Tiles!game, told |-> 0]
      BY <2>4, <3>1
    <3>3. b(0).board = Tiles!game
      BY <3>2
    <3>4. Puzzle(b(0).board)
      BY <3>3, GameIsPuzzle, Zenon
    <3> QED
      BY <3>4
  <2>7. ASSUME NEW k \in Nat, k \in T PROVE k + 1 \in T
    <3> SUFFICES ASSUME k + 1 =< n PROVE Puzzle(b(k + 1).board)
      OBVIOUS
    <3>1. k + 1 \in 1..n /\ (k + 1) - 1 = k /\ Puzzle(b(k).board)
      BY <2>2, <2>7
    <3> HIDE DEF T
    <3> QED
      BY <2>5, <3>1
  <2>8. Nat \subseteq T
    <3> HIDE DEF T
    <3> QED
      BY <2>6, <2>7, EveryNat
  <2>9. n \in 1..n /\ n - 1 \in Nat /\ n - 1 =< n
    BY <2>2
  <2>10. Puzzle(b(n - 1).board)
    BY <2>8, <2>9
  <2>11. /\ b(n).board = Tiles!Slid(b(n - 1).board, text[n])
         /\ b(n).told = b(n - 1).told + (IF b(n).board = b(n - 1).board THEN 0 ELSE 1)
    BY <2>5, <2>9, <2>10
  <2>12. Last(text) = text[n]
    BY DEF Last, n
  <2> QED
    BY <2>11, <2>12 DEF b, n
<1> QED
  BY <1>1, TextInvHolds, PTL

---------------------------------------------------------------------------
(* Answers to requests *)

\* What the accessors give of a message.
Reads(m, channel, action, path, uid) ==
    /\ m.channel = channel /\ m.action = action
    /\ Messages!get_path(m) = path /\ Messages!get_uid(m) = uid
    /\ Messages!has_uid(m) <=> uid # Messages!no_impl
\* and of one that brings something along.
Brings(m, channel, action, path, uid, payload) ==
    Reads(m, channel, action, path, uid) /\ Messages!get_payload(m) = payload

\* A request gives back what it was made from.
LEMMA RequestReads ==
    ASSUME NEW path, NEW uid, NEW payload, NEW private
    PROVE  /\ Brings(Messages!make_upstream_create(path, uid, payload, private),
                     "upstream", "create", path, uid, payload)
           /\ Reads(Messages!make_upstream_read(path, uid), "upstream", "read", path, uid)
           /\ Brings(Messages!make_upstream_update(path, uid, payload),
                     "upstream", "update", path, uid, payload)
           /\ Reads(Messages!make_upstream_delete(path, uid), "upstream", "delete", path, uid)
  <1> USE DEF Brings, Reads, Messages!Message, Messages!get_path, Messages!get_uid, Messages!has_uid,
              Messages!get_payload, Messages!Get, Messages!Has, Messages!is_upstream, Messages!upstream_index
  <1>1. Brings(Messages!make_upstream_create(path, uid, payload, private),
               "upstream", "create", path, uid, payload)
    BY DEF Messages!make_upstream_create
  <1>2. Reads(Messages!make_upstream_read(path, uid), "upstream", "read", path, uid)
    BY DEF Messages!make_upstream_read
  <1>3. Brings(Messages!make_upstream_update(path, uid, payload),
               "upstream", "update", path, uid, payload)
    BY DEF Messages!make_upstream_update
  <1>4. Reads(Messages!make_upstream_delete(path, uid), "upstream", "delete", path, uid)
    BY DEF Messages!make_upstream_delete
  <1> QED
    BY <1>1, <1>2, <1>3, <1>4

\* So does an answer.
LEMMA AnswerReads ==
    ASSUME NEW path, NEW uid, NEW payload, NEW confirmed
    PROVE  /\ Brings(Messages!make_downstream_create(path, uid, payload, confirmed),
                     "downstream", "create", path, uid, payload)
           /\ Brings(Messages!make_downstream_read(path, uid, payload),
                     "downstream", "read", path, uid, payload)
           /\ Brings(Messages!make_downstream_update(path, uid, payload, confirmed),
                     "downstream", "update", path, uid, payload)
           /\ Reads(Messages!make_downstream_delete(path, uid, confirmed),
                    "downstream", "delete", path, uid)
  <1> USE DEF Brings, Reads, Messages!Message, Messages!get_path, Messages!get_uid, Messages!has_uid,
              Messages!get_payload, Messages!Get, Messages!Has, Messages!is_upstream, Messages!downstream_index
  <1>1. Brings(Messages!make_downstream_create(path, uid, payload, confirmed),
               "downstream", "create", path, uid, payload)
    BY DEF Messages!make_downstream_create
  <1>2. Brings(Messages!make_downstream_read(path, uid, payload),
               "downstream", "read", path, uid, payload)
    BY DEF Messages!make_downstream_read
  <1>3. Brings(Messages!make_downstream_update(path, uid, payload, confirmed),
               "downstream", "update", path, uid, payload)
    BY DEF Messages!make_downstream_update
  <1>4. Reads(Messages!make_downstream_delete(path, uid, confirmed),
              "downstream", "delete", path, uid)
    BY DEF Messages!make_downstream_delete
  <1> QED
    BY <1>1, <1>2, <1>3, <1>4

\* The accessors of a path that is not for creating: it is the store's.
Settled(m, path) ==
    /\ Messages!is_path_normalizable(m) /\ Messages!get_normalized_path(m) = path
    /\ Messages!get_path_type(m) = Messages!TypeOf(path)
LEMMA SettledPath ==
    ASSUME NEW m, NEW channel, NEW action, NEW path, NEW uid,
           Reads(m, channel, action, path, uid), ~Messages!IsCreatePath(path)
    PROVE  Settled(m, path)
  <1>1. Messages!get_path(m) = path
    BY DEF Reads
  <1>2. ~Messages!is_create_path_normalizable(m)
    BY <1>1 DEF Messages!is_create_path_normalizable
  <1>3. Messages!is_path_normalizable(m)
    BY <1>1 DEF Messages!is_path_normalizable
  <1>4. Messages!get_normalized_path(m) = path
    BY <1>1, <1>2 DEF Messages!get_normalized_path
  <1>5. Messages!get_path_type(m) = Messages!TypeOf(path)
    BY <1>3, <1>4 DEF Messages!get_path_type
  <1> QED
    BY <1>3, <1>4, <1>5 DEF Settled

\* The path of keys, and a path that a key was added to, are not for creating.
LEMMA NotForCreating ==
    /\ \A keys : ~Messages!IsCreatePath(Messages!PathOf(keys))
    /\ \A path, key : ~Messages!IsCreatePath(Messages!append(path, key))
  BY DEF Messages!IsCreatePath, Messages!PathOf, Messages!append, Messages!TypeOf, Messages!Typed,
         Messages!PathType

\* Adding a key to the path of keys is the path of the keys and it.
LEMMA PathOfAppend ==
    ASSUME NEW S, NEW keys \in Seq(S), NEW key
    PROVE  LET path == Messages!make_create_path(Messages!TypeOf(key), Messages!PathOf(keys))
           IN  Messages!append(Messages!parent_path(path), key) = Messages!PathOf(Append(keys, key))
  <1> DEFINE all == Append(keys, key)
             types == [i \in DOMAIN keys |-> Messages!TypeOf(keys[i])]
             values == [i \in DOMAIN keys |-> Messages!ValueOf(keys[i])]
             path == Messages!make_create_path(Messages!TypeOf(key), Messages!PathOf(keys))
  <1>1. keys \in Seq(S \cup {key}) /\ key \in S \cup {key}
    BY SeqMonotonic
  <1>2. /\ all \in Seq(S \cup {key}) /\ Len(all) = Len(keys) + 1 /\ Len(keys) \in Nat
        /\ DOMAIN keys = 1..Len(keys) /\ DOMAIN all = 1..(Len(keys) + 1)
        /\ \A i \in 1..Len(keys) : all[i] = keys[i]
        /\ all[Len(keys) + 1] = key
    BY <1>1
  <1>3. ASSUME NEW f, NEW x, f = [i \in DOMAIN keys |-> f[i]]
        PROVE  Append(f, x) = [i \in DOMAIN all |-> IF i = Len(keys) + 1 THEN x ELSE f[i]]
    <2>1. f \in Seq({f[i] : i \in DOMAIN keys} \cup {x}) /\ Len(f) = Len(keys)
      BY <1>2, <1>3
    <2> DEFINE longer == Append(f, x)
    <2>2. /\ longer \in Seq({f[i] : i \in DOMAIN keys} \cup {x}) /\ Len(longer) = Len(keys) + 1
          /\ \A i \in 1..Len(keys) : longer[i] = f[i]
          /\ longer[Len(keys) + 1] = x
      BY <1>2, <2>1
    <2> HIDE DEF longer, all
    <2>3. DOMAIN longer = DOMAIN all /\ longer = [i \in DOMAIN longer |-> longer[i]]
      <3>1. DOMAIN longer = 1..Len(longer) /\ longer = [i \in 1..Len(longer) |-> longer[i]]
        BY <2>2, LenProperties
      <3> QED
        BY <1>2, <2>2, <3>1
    <2>4. ASSUME NEW i \in DOMAIN all
          PROVE  longer[i] = IF i = Len(keys) + 1 THEN x ELSE f[i]
      BY <1>2, <2>2
    <2> QED
      BY <2>3, <2>4 DEF longer
  <1> HIDE DEF all
  <1>4. Append(types, Messages!TypeOf(key)) = [i \in DOMAIN all |-> Messages!TypeOf(all[i])]
    BY <1>2, <1>3
  <1>5. Append(values, Messages!ValueOf(key)) = [i \in DOMAIN all |-> Messages!ValueOf(all[i])]
    BY <1>2, <1>3
  <1>6. Messages!PathOf(keys) = <<Messages!PathType(types), values>>
    BY DEF Messages!PathOf, Messages!Typed, Messages!Types
  <1>7. Messages!PathOf(all) = <<Messages!PathType(Append(types, Messages!TypeOf(key))),
                                 Append(values, Messages!ValueOf(key))>>
    BY <1>4, <1>5 DEF Messages!PathOf, Messages!Typed, Messages!Types
  <1>8. Messages!parent_path(path) = <<Messages!PathType(types), values>>
    <2>1. /\ Messages!TypeOf(Messages!PathOf(keys)).members = types
          /\ Messages!ValueOf(Messages!PathOf(keys)) = values
      BY <1>6 DEF Messages!TypeOf, Messages!ValueOf, Messages!PathType
    <2>2. /\ Messages!TypeOf(path).members = Messages!TypeOf(Messages!PathOf(keys)).members
          /\ Messages!ValueOf(path) = Messages!ValueOf(Messages!PathOf(keys))
      BY DEF Messages!make_create_path, Messages!Typed, Messages!TypeOf, Messages!ValueOf
    <2> QED
      BY <2>1, <2>2 DEF Messages!parent_path, Messages!Typed
  <1>9. Messages!append(<<Messages!PathType(types), values>>, key)
          = <<Messages!PathType(Append(types, Messages!TypeOf(key))), Append(values, Messages!ValueOf(key))>>
    BY DEF Messages!append, Messages!Typed, Messages!TypeOf, Messages!ValueOf, Messages!PathType
  <1> QED
    BY <1>7, <1>8, <1>9 DEF all

\* An answer, and what the property says of it.
Answered(a, action, path, uid) ==
    /\ ~Messages!is_upstream(a) /\ a.action = action /\ Messages!get_uid(a) = uid
    /\ Settled(a, path)
LEMMA AnswerIsSettled ==
    ASSUME NEW a, NEW action, NEW path, NEW uid, Reads(a, "downstream", action, path, uid),
           ~Messages!IsCreatePath(path)
    PROVE  Answered(a, action, path, uid)
  <1>1. Settled(a, path)
    BY SettledPath
  <1> QED
    BY <1>1 DEF Answered, Reads, Messages!is_upstream

\* What the property says of an answer a to the request r, which is the message m.
Matches(r, m, a) ==
    /\ ~Messages!is_upstream(a) /\ a.action = m.action
    /\ Messages!get_uid(a) = r.uid
    /\ a.action # "delete" => Messages!get_payload(a) = r.payload
    /\ Messages!is_path_normalizable(a)
    /\ Messages!get_path_type(a) = Messages!get_path_type(m)
    /\ Messages!get_normalized_path(a) =
         IF a \in Keyed(r, m) THEN PathOf(r) ELSE Messages!get_normalized_path(m)

\* Requests for the path of a store: to read, update or delete, or to create
\* something without a key.
LEMMA AnswersForPaths ==
    ASSUME NEW r, IsRequest(r), r.action # "create" \/ Messages!IsEmpty(r.key_type),
           NEW private, NEW a \in Answers(r, Requested(r, private))
    PROVE  Matches(r, Requested(r, private), a)
  <1> DEFINE m == Requested(r, private)
             path == PathOf(r)
  <1>1. ~Messages!IsCreatePath(path)
    BY NotForCreating DEF PathOf
  <1>2. /\ Reads(m, "upstream", r.action, path, r.uid)
        /\ r.action \in {"create", "update"} => Messages!get_payload(m) = r.payload
    <2>1. m = CASE r.action = "create" -> Messages!make_upstream_create(path, r.uid, r.payload, private)
                [] r.action = "read" -> Messages!make_upstream_read(path, r.uid)
                [] r.action = "update" -> Messages!make_upstream_update(path, r.uid, r.payload)
                [] r.action = "delete" -> Messages!make_upstream_delete(path, r.uid)
      BY Zenon DEF Requested
    <2> HIDE DEF m, path
    <2> QED
      BY <2>1, RequestReads DEF IsRequest, Brings
  <1> HIDE DEF m, path
  <1>3. Settled(m, path)
    BY <1>1, <1>2, SettledPath
  <1>4. Keyed(r, m) = {}
    BY <1>1, <1>2 DEF Keyed, Reads
  <1>5. a \in Unkeyed(r, m)
    BY <1>4 DEF Answers, m
  <1>6. /\ Reads(a, "downstream", r.action, path, r.uid)
        /\ r.action # "delete" => Messages!get_payload(a) = r.payload
    <2>1. CASE r.action = "read"
      <3>1. a = Messages!make_downstream_read(path, r.uid, r.payload)
        BY <1>2, <1>5, <2>1 DEF Unkeyed, Messages!to_downstream_read, Reads
      <3> QED
        BY <2>1, <3>1, AnswerReads DEF Brings
    <2>2. CASE r.action # "read"
      <3>1. PICK c : a = Messages!to_downstream(m, c)
        BY <1>5, <2>2 DEF Unkeyed
      <3>2. /\ m.action = r.action /\ Messages!get_path(m) = path /\ Messages!get_uid(m) = r.uid
            /\ r.action \in {"create", "update"} => Messages!get_payload(m) = r.payload
        BY <1>2 DEF Reads
      <3>3. r.action \in {"create", "update", "delete"}
        BY <2>2 DEF IsRequest
      <3>4. a = CASE r.action = "create" -> Messages!make_downstream_create(path, r.uid, r.payload, c)
                  [] r.action = "update" -> Messages!make_downstream_update(path, r.uid, r.payload, c)
                  [] r.action = "delete" -> Messages!make_downstream_delete(path, r.uid, c)
        BY <3>1, <3>2, <3>3 DEF Messages!to_downstream, Messages!is_create
      <3> QED
        BY <3>3, <3>4, AnswerReads DEF Brings
    <2> QED
      BY <2>1, <2>2
  <1>7. Answered(a, r.action, path, r.uid)
    BY <1>1, <1>6, AnswerIsSettled
  <1>8. m.action = r.action /\ a \notin Keyed(r, m)
    BY <1>2, <1>4 DEF Reads
  <1>9. Matches(r, m, a)
    BY <1>3, <1>6, <1>7, <1>8, Zenon DEF Matches, Answered, Settled
  <1> QED
    BY <1>9 DEF m

\* A request to create something under a key: the answers that bring its key, and,
\* when the uid is the key, those that leave it to the uid.
LEMMA AnswersForKeys ==
    ASSUME NEW r, IsRequest(r), r.action = "create", ~Messages!IsEmpty(r.key_type),
           NEW private, NEW a \in Answers(r, Requested(r, private))
    PROVE  Matches(r, Requested(r, private), a)
  <1> DEFINE m == Requested(r, private)
             path == Messages!make_create_path(r.key_type, Messages!PathOf(r.parent))
             types == Messages!PathType(Append(Messages!TypeOf(path).members, r.key_type))
  <1>1. Messages!IsCreatePath(path) /\ Messages!TypeOf(path).key = r.key_type
    BY DEF Messages!IsCreatePath, Messages!make_create_path, Messages!Typed, Messages!TypeOf
  <1>2. Brings(m, "upstream", "create", path, r.uid, r.payload)
    <2>1. m = Messages!make_upstream_create(path, r.uid, r.payload, private)
      BY DEF Requested
    <2> HIDE DEF m, path
    <2> QED
      BY <2>1, RequestReads
  \* The path of the answer with a key.
  <1>3. ASSUME NEW key
        PROVE  /\ Messages!TypeOf(Messages!append(Messages!parent_path(path), Messages!AsKey(r.key_type, key)))
                    = types
    BY DEF Messages!append, Messages!parent_path, Messages!AsKey, Messages!Typed, Messages!TypeOf,
           Messages!ValueOf, Messages!PathType
  <1>4. Messages!append(Messages!parent_path(path), Messages!AsKey(r.key_type, r.key)) = PathOf(r)
    <2> DEFINE key == Messages!AsKey(r.key_type, r.key)
    <2>1. Messages!TypeOf(key) = r.key_type
      BY DEF Messages!AsKey, Messages!Typed, Messages!TypeOf
    <2>2. r.parent \in Seq(ToSet(r.parent))
      BY DEF IsRequest
    <2> HIDE DEF key
    <2> QED
      BY <2>1, <2>2, PathOfAppend, Zenon DEF PathOf, key
  <1> HIDE DEF m, path, types
  \* Whatever is for the same path and uid is normalizable when m is, and the same then.
  <1>5. ASSUME NEW b, NEW channel, Reads(b, channel, "create", path, r.uid)
        PROVE  /\ Messages!is_create_path_normalizable(b)
                    <=> IF r.uid # Messages!no_impl THEN Messages!IsKeyFor(r.key_type, r.uid)
                                                    ELSE Messages!IsEmpty(r.key_type)
               /\ Messages!is_create_path_normalizable(b) =>
                    Messages!get_normalized_path(b)
                      = Messages!append(Messages!parent_path(path), Messages!AsKey(r.key_type, r.uid))
               /\ Messages!get_path_type(b) = types
               /\ Messages!is_path_normalizable(b) <=> Messages!is_create_path_normalizable(b)
    <2>1. /\ Messages!get_path(b) = path /\ Messages!get_uid(b) = r.uid
          /\ Messages!has_uid(b) <=> r.uid # Messages!no_impl
          /\ Messages!is_create(b)
      BY <1>5 DEF Reads, Messages!is_create
    <2>2. Messages!is_create_path_normalizable(b)
            <=> IF r.uid # Messages!no_impl THEN Messages!IsKeyFor(r.key_type, r.uid)
                                            ELSE Messages!IsEmpty(r.key_type)
      BY <1>1, <2>1 DEF Messages!is_create_path_normalizable
    <2>3. Messages!is_create_path_normalizable(b) => r.uid # Messages!no_impl
      BY <2>2
    <2>4. Messages!is_create_path_normalizable(b) =>
            Messages!get_normalized_path(b)
              = Messages!append(Messages!parent_path(path), Messages!AsKey(r.key_type, r.uid))
      BY <1>1, <2>1, <2>3, Zenon DEF Messages!get_normalized_path, Messages!get_normalized_create_path
    <2>5. Messages!is_path_normalizable(b) <=> Messages!is_create_path_normalizable(b)
      BY <1>1, <2>1 DEF Messages!is_path_normalizable
    <2>6. Messages!get_path_type(b) = types
      <3>1. CASE Messages!is_path_normalizable(b)
        BY <1>3, <2>4, <2>5, <3>1 DEF Messages!get_path_type
      <3>2. CASE ~Messages!is_path_normalizable(b)
        BY <1>1, <2>1, <3>2 DEF Messages!get_path_type, types
      <3> QED
        BY <3>1, <3>2
    <2> QED
      BY <2>2, <2>4, <2>5, <2>6
  <1>6. Reads(m, "upstream", "create", path, r.uid) /\ m.action = "create"
    BY <1>2 DEF Brings, Reads
  <1>7. CASE a \in Keyed(r, m)
    <2>1. PICK c : a = Messages!to_downstream_with_key_impl(m, r.key, c)
      BY <1>7, <1>6 DEF Keyed, Messages!to_downstream_with_key, Messages!to_downstream_with_key_confirmed
    <2>2. a = Messages!make_downstream_create(PathOf(r), r.uid, r.payload, c)
      BY <1>1, <1>2, <1>4, <2>1 DEF Messages!to_downstream_with_key_impl, Brings, Reads
    <2>3. Brings(a, "downstream", "create", PathOf(r), r.uid, r.payload)
      BY <2>2, AnswerReads
    <2>4. ~Messages!IsCreatePath(PathOf(r))
      BY NotForCreating DEF PathOf
    <2>5. Answered(a, "create", PathOf(r), r.uid)
      BY <2>3, <2>4, AnswerIsSettled DEF Brings
    <2>6. Messages!TypeOf(PathOf(r)) = types /\ Messages!get_path_type(m) = types
      BY <1>3, <1>4, <1>5, <1>6
    <2>7. Messages!get_payload(a) = r.payload
      BY <2>3 DEF Brings
    <2>8. Matches(r, m, a)
      BY <1>6, <1>7, <2>5, <2>6, <2>7, Zenon DEF Matches, Answered, Settled
    <2> QED
      BY <2>8 DEF m
  <1>8. CASE a \notin Keyed(r, m)
    <2>1. a \in Unkeyed(r, m)
      BY <1>8 DEF Answers, m
    <2>2. ~Messages!requires_key_for_downstream(m)
      BY <2>1 DEF Unkeyed
    <2>3. PICK c : a = Messages!to_downstream(m, c)
      BY <2>1, <2>2 DEF Unkeyed
    <2>4. Messages!is_create_path_normalizable(m)
      BY <1>1, <1>6, <2>2 DEF Messages!requires_key_for_downstream, Messages!is_upstream, Reads
    <2>5. a = Messages!make_downstream_create(path, r.uid, r.payload, c)
      BY <1>2, <2>3 DEF Messages!to_downstream, Messages!is_create, Brings, Reads
    <2>6. Brings(a, "downstream", "create", path, r.uid, r.payload)
      BY <2>5, AnswerReads
    <2>7. Reads(a, "downstream", "create", path, r.uid)
      BY <2>6 DEF Brings
    <2>8. /\ Messages!is_create_path_normalizable(a) /\ Messages!is_path_normalizable(a)
          /\ Messages!get_normalized_path(a) = Messages!get_normalized_path(m)
          /\ Messages!get_path_type(a) = types /\ Messages!get_path_type(m) = types
      BY <1>5, <1>6, <2>4, <2>7
    <2>9. /\ ~Messages!is_upstream(a) /\ a.action = "create" /\ Messages!get_uid(a) = r.uid
          /\ Messages!get_payload(a) = r.payload
      BY <2>6 DEF Brings, Reads, Messages!is_upstream
    <2>10. Matches(r, m, a)
      BY <1>6, <1>8, <2>8, <2>9, Zenon DEF Matches
    <2> QED
      BY <2>10 DEF m
  <1> QED
    BY <1>7, <1>8

\* What is private to a request to create is not looked at for an answer.
LEMMA PrivateIsPrivate ==
    ASSUME NEW r, IsRequest(r), NEW p, NEW q
    PROVE  Answers(r, Requested(r, p)) = Answers(r, Requested(r, q))
  <1>1. CASE r.action # "create"
    <2>1. Requested(r, p) = Requested(r, q)
      BY <1>1 DEF IsRequest, Requested
    <2> QED
      BY <2>1
  <1>2. CASE r.action = "create"
    <2>1. PICK path : \A x : Requested(r, x) = Messages!make_upstream_create(path, r.uid, r.payload, x)
      <3> DEFINE path == IF ~Messages!IsEmpty(r.key_type)
                         THEN Messages!make_create_path(r.key_type, Messages!PathOf(r.parent))
                         ELSE PathOf(r)
      <3>1. \A x : Requested(r, x) = Messages!make_upstream_create(path, r.uid, r.payload, x)
        BY <1>2 DEF Requested
      <3> HIDE DEF path
      <3> QED
        BY <3>1
    <2> DEFINE m == Requested(r, p)
               n == Requested(r, q)
    <2>2. /\ Brings(m, "upstream", "create", path, r.uid, r.payload)
          /\ Brings(n, "upstream", "create", path, r.uid, r.payload)
      BY <2>1, RequestReads
    <2> HIDE DEF m, n
    <2>3. /\ m.action = "create" /\ n.action = "create"
          /\ Messages!get_path(m) = path /\ Messages!get_path(n) = path
          /\ Messages!get_uid(m) = r.uid /\ Messages!get_uid(n) = r.uid
          /\ Messages!get_payload(m) = r.payload /\ Messages!get_payload(n) = r.payload
          /\ Messages!has_uid(m) <=> Messages!has_uid(n)
          /\ m.channel = n.channel
      BY <2>2 DEF Brings, Reads
    <2>4. Keyed(r, m) = Keyed(r, n)
      <3>1. ASSUME NEW key, NEW c
            PROVE  Messages!to_downstream_with_key_impl(m, key, c) = Messages!to_downstream_with_key_impl(n, key, c)
        BY <2>3, Zenon DEF Messages!to_downstream_with_key_impl
      <3> QED
        BY <2>3, <3>1, Zenon DEF Keyed, Messages!to_downstream_with_key, Messages!to_downstream_with_key_confirmed
    <2>5. Unkeyed(r, m) = Unkeyed(r, n)
      <3>1. Messages!requires_key_for_downstream(m) <=> Messages!requires_key_for_downstream(n)
        BY <2>3 DEF Messages!requires_key_for_downstream, Messages!is_upstream,
                    Messages!is_create_path_normalizable
      <3>2. ASSUME NEW c PROVE Messages!to_downstream(m, c) = Messages!to_downstream(n, c)
        BY <2>3 DEF Messages!to_downstream, Messages!is_create
      <3> QED
        BY <1>2, <3>1, <3>2 DEF Unkeyed
    <2> QED
      BY <2>4, <2>5 DEF Answers, m, n
  <1> QED
    BY <1>1, <1>2

(* Requests and answers of every path, key, uid and payload: each answer is for the
   same thing as the request, under the path of the store, with the key that was given
   or that the uid is; nothing of what is private to the request is in it (message.hpp). *)
THEOREM AnswersAreForRequests == TextSpec => []AnswersMatchRequests
<1>1. TextInv => AnswersMatchRequests
  <2> SUFFICES ASSUME TextInv, kind = "requests", text # <<>>
               PROVE  AnswersMatchRequests
    BY DEF AnswersMatchRequests
  <2> DEFINE r == text[1]
             m == Requested(r, r.private)
  <2>1. r \in Alphabet["requests"]
    BY EmptySeq, LenProperties DEF TextInv
  <2>2. IsRequest(r)
    BY <2>1, TextsAssumption
  <2> HIDE DEF r
  <2>3. ASSUME NEW a \in Answers(r, m) PROVE Matches(r, m, a)
    <3>1. CASE r.action # "create" \/ Messages!IsEmpty(r.key_type)
      BY <2>2, <2>3, <3>1, AnswersForPaths
    <3>2. CASE r.action = "create" /\ ~Messages!IsEmpty(r.key_type)
      BY <2>2, <2>3, <3>2, AnswersForKeys
    <3> QED
      BY <3>1, <3>2
  <2>4. Answers(r, m) = Answers(r, Requested(r, Messages!no_impl))
    BY <2>2, PrivateIsPrivate
  <2> QED
    BY <2>3, <2>4, Zenon DEF AnswersMatchRequests, Matches, r
<1> QED
  BY <1>1, TextInvHolds, PTL

---------------------------------------------------------------------------
(* Bytes and texts of base64 *)

Octets == 0..255
Sextets == 0..63

\* Four symbols and the three bytes that they stand for.
Group(s1, s2, s3, s4, x, y, z) ==
    /\ x = 4 * s1 + s2 \div 16
    /\ y = 16 * (s2 % 16) + s3 \div 4
    /\ z = 64 * (s3 % 4) + s4

Fragment(x, y, z) == x * 65536 + y * 256 + z * 1

\* The symbols of a fragment, by the shifts of the encoder.
LEMMA FragmentSymbols ==
    ASSUME NEW x \in Octets, NEW y \in Octets, NEW z \in Octets,
           NEW f, f = Fragment(x, y, z)
    PROVE  /\ (f \div 262144) % 64 = x \div 4
           /\ (f \div 4096) % 64 = 16 * (x % 4) + y \div 16
           /\ (f \div 64) % 64 = 4 * (y % 16) + z \div 64
           /\ (f \div 1) % 64 = z % 64
  <1>1. PICK a \in 0..63, b \in 0..3 : x = 4 * a + b /\ x \div 4 = a /\ x % 4 = b
    BY DEF Octets
  <1>2. PICK c \in 0..15, d \in 0..15 : y = 16 * c + d /\ y \div 16 = c /\ y % 16 = d
    BY DEF Octets
  <1>3. PICK e \in 0..3, g \in 0..63 : z = 64 * e + g /\ z \div 64 = e /\ z % 64 = g
    BY DEF Octets
  <1>4. f = 262144 * a + 4096 * (16 * b + c) + 64 * (4 * d + e) + g
    BY <1>1, <1>2, <1>3 DEF Fragment
  <1>5. f \div 262144 = a
    BY <1>4, SMTT(30)
  <1>6. f \div 4096 = 64 * a + 16 * b + c
    BY <1>4, SMTT(30)
  <1>7. f \div 64 = 4096 * a + 64 * (16 * b + c) + (4 * d + e)
    BY <1>4, SMTT(30)
  <1>8. f \div 1 = f
    BY <1>4, SMTT(30)
  <1>9. (f \div 262144) % 64 = a
    BY <1>5, SMTT(30)
  <1>10. (f \div 4096) % 64 = 16 * b + c
    BY <1>6, SMTT(30)
  <1>11. (f \div 64) % 64 = 4 * d + e
    BY <1>7, SMTT(30)
  <1>12. (f \div 1) % 64 = g
    BY <1>4, <1>8, SMTT(30)
  <1> QED
    BY <1>1, <1>2, <1>3, <1>9, <1>10, <1>11, <1>12

\* They stand for its bytes.
LEMMA SymbolsAreGroup ==
    ASSUME NEW x \in Octets, NEW y \in Octets, NEW z \in Octets
    PROVE  /\ x \div 4 \in Sextets /\ 16 * (x % 4) + y \div 16 \in Sextets
           /\ 4 * (y % 16) + z \div 64 \in Sextets /\ z % 64 \in Sextets
           /\ Group(x \div 4, 16 * (x % 4) + y \div 16, 4 * (y % 16) + z \div 64, z % 64, x, y, z)
  <1>1. PICK a \in 0..63, b \in 0..3 : x = 4 * a + b /\ x \div 4 = a /\ x % 4 = b
    BY DEF Octets
  <1>2. PICK c \in 0..15, d \in 0..15 : y = 16 * c + d /\ y \div 16 = c /\ y % 16 = d
    BY DEF Octets
  <1>3. PICK e \in 0..3, g \in 0..63 : z = 64 * e + g /\ z \div 64 = e /\ z % 64 = g
    BY DEF Octets
  <1>4. (16 * b + c) \div 16 = b /\ (16 * b + c) % 16 = c
    BY SMTT(30)
  <1>5. (4 * d + e) \div 4 = d /\ (4 * d + e) % 4 = e
    BY SMTT(30)
  <1> QED
    BY <1>1, <1>2, <1>3, <1>4, <1>5 DEF Group, Sextets

Coded(s1, s2, s3, s4) == s1 * 262144 + s2 * 4096 + s3 * 64 + s4 * 1

\* The bytes of a fragment, by the shifts of the decoder.
LEMMA FragmentBytes ==
    ASSUME NEW s1 \in Sextets, NEW s2 \in Sextets, NEW s3 \in Sextets, NEW s4 \in Sextets,
           NEW f, f = Coded(s1, s2, s3, s4)
    PROVE  /\ (f \div 65536) % 256 \in Octets /\ (f \div 256) % 256 \in Octets
           /\ (f \div 1) % 256 \in Octets
           /\ Group(s1, s2, s3, s4, (f \div 65536) % 256, (f \div 256) % 256, (f \div 1) % 256)
  <1>1. PICK a \in 0..3, b \in 0..15 : s2 = 16 * a + b /\ s2 \div 16 = a /\ s2 % 16 = b
    BY DEF Sextets
  <1>2. PICK c \in 0..15, d \in 0..3 : s3 = 4 * c + d /\ s3 \div 4 = c /\ s3 % 4 = d
    BY DEF Sextets
  <1>3. f = 65536 * (4 * s1 + a) + 256 * (16 * b + c) + (64 * d + s4)
    BY <1>1, <1>2 DEF Sextets, Coded
  <1>4. f \div 65536 = 4 * s1 + a
    BY <1>3, SMTT(30) DEF Sextets
  <1>5. f \div 256 = 256 * (4 * s1 + a) + (16 * b + c)
    BY <1>3, SMTT(30) DEF Sextets
  <1>6. f \div 1 = f
    BY <1>3, SMTT(30) DEF Sextets
  <1>7. (f \div 65536) % 256 = 4 * s1 + a
    BY <1>4, SMTT(30) DEF Sextets
  <1>8. (f \div 256) % 256 = 16 * b + c
    BY <1>5, SMTT(30) DEF Sextets
  <1>9. (f \div 1) % 256 = 64 * d + s4
    BY <1>3, <1>6, SMTT(30) DEF Sextets
  <1> QED
    BY <1>1, <1>2, <1>7, <1>8, <1>9 DEF Group, Octets, Sextets

\* The bits of four symbols are those of the bytes, one after the other.
LEMMA GroupBits ==
    ASSUME NEW s1 \in Sextets, NEW s2 \in Sextets, NEW s3 \in Sextets, NEW s4 \in Sextets,
           NEW x, NEW y, NEW z, Group(s1, s2, s3, s4, x, y, z)
    PROVE  /\ (s1 \div 32) % 2 = (x \div 128) % 2 /\ (s1 \div 16) % 2 = (x \div 64) % 2
           /\ (s1 \div 8) % 2 = (x \div 32) % 2   /\ (s1 \div 4) % 2 = (x \div 16) % 2
           /\ (s1 \div 2) % 2 = (x \div 8) % 2    /\ (s1 \div 1) % 2 = (x \div 4) % 2
           /\ (s2 \div 32) % 2 = (x \div 2) % 2   /\ (s2 \div 16) % 2 = (x \div 1) % 2
           /\ (s2 \div 8) % 2 = (y \div 128) % 2  /\ (s2 \div 4) % 2 = (y \div 64) % 2
           /\ (s2 \div 2) % 2 = (y \div 32) % 2   /\ (s2 \div 1) % 2 = (y \div 16) % 2
           /\ (s3 \div 32) % 2 = (y \div 8) % 2   /\ (s3 \div 16) % 2 = (y \div 4) % 2
           /\ (s3 \div 8) % 2 = (y \div 2) % 2    /\ (s3 \div 4) % 2 = (y \div 1) % 2
           /\ (s3 \div 2) % 2 = (z \div 128) % 2  /\ (s3 \div 1) % 2 = (z \div 64) % 2
           /\ (s4 \div 32) % 2 = (z \div 32) % 2  /\ (s4 \div 16) % 2 = (z \div 16) % 2
           /\ (s4 \div 8) % 2 = (z \div 8) % 2    /\ (s4 \div 4) % 2 = (z \div 4) % 2
           /\ (s4 \div 2) % 2 = (z \div 2) % 2    /\ (s4 \div 1) % 2 = (z \div 1) % 2
  <1> USE DEF Sextets, Group
  <1>1. PICK a \in 0..3, b \in 0..15 : s2 = 16 * a + b /\ x = 4 * s1 + a
    BY SMTT(30)
  <1>2. PICK c \in 0..15, d \in 0..3 : s3 = 4 * c + d /\ y = 16 * b + c /\ z = 64 * d + s4
    BY <1>1, SMTT(30)
  <1> HIDE DEF Group
  <1>3. /\ x \div 128 = s1 \div 32 /\ x \div 64 = s1 \div 16 /\ x \div 32 = s1 \div 8
        /\ x \div 16 = s1 \div 4 /\ x \div 8 = s1 \div 2 /\ x \div 4 = s1 \div 1
    BY <1>1, SMTT(30)
  <1>4. (s2 \div 32) % 2 = (x \div 2) % 2 /\ (s2 \div 16) % 2 = (x \div 1) % 2
    BY <1>1, SMTT(30)
  <1>5. /\ (s2 \div 8) % 2 = (y \div 128) % 2  /\ (s2 \div 4) % 2 = (y \div 64) % 2
        /\ (s2 \div 2) % 2 = (y \div 32) % 2   /\ (s2 \div 1) % 2 = (y \div 16) % 2
    BY <1>1, <1>2, SMTT(30)
  <1>6. /\ (s3 \div 32) % 2 = (y \div 8) % 2   /\ (s3 \div 16) % 2 = (y \div 4) % 2
        /\ (s3 \div 8) % 2 = (y \div 2) % 2    /\ (s3 \div 4) % 2 = (y \div 1) % 2
    BY <1>1, <1>2, SMTT(30)
  <1>7. (s3 \div 2) % 2 = (z \div 128) % 2 /\ (s3 \div 1) % 2 = (z \div 64) % 2
    BY <1>2, SMTT(30)
  <1>8. /\ (s4 \div 32) % 2 = (z \div 32) % 2  /\ (s4 \div 16) % 2 = (z \div 16) % 2
        /\ (s4 \div 8) % 2 = (z \div 8) % 2    /\ (s4 \div 4) % 2 = (z \div 4) % 2
        /\ (s4 \div 2) % 2 = (z \div 2) % 2    /\ (s4 \div 1) % 2 = (z \div 1) % 2
    BY <1>2, SMTT(30)
  <1> QED
    BY <1>3, <1>4, <1>5, <1>6, <1>7, <1>8
\* Groups of four symbols and of three bytes, as many of each.
Groups(S, B, g) ==
    /\ S \in [1..4 * g -> Sextets] /\ B \in [1..3 * g -> Octets]
    /\ \A n \in 0..g - 1 :
         Group(S[4 * n + 1], S[4 * n + 2], S[4 * n + 3], S[4 * n + 4],
               B[3 * n + 1], B[3 * n + 2], B[3 * n + 3])


\* Whole groups agree bit by bit.
LEMMA BitsOfGroups ==
    ASSUME NEW g \in Nat, NEW S, NEW B, Groups(S, B, g), NEW j \in 1..24 * g
    PROVE  Base64!BitAt(S, 6, j) = Base64!BitAt(B, 8, j)
  <1> DEFINE n == (j - 1) \div 24
             b == (j - 1) % 24
  <1>1. n \in 0..g - 1 /\ b \in 0..23 /\ j - 1 = 24 * n + b
    BY SMTT(30)
  <1> HIDE DEF n, b
  <1>2. (j - 1) \div 6 = 4 * n + b \div 6 /\ (j - 1) % 6 = b % 6
    BY <1>1, SMTT(30)
  <1>3. (j - 1) \div 8 = 3 * n + b \div 8 /\ (j - 1) % 8 = b % 8
    BY <1>1, SMTT(30)
  <1>4. /\ Base64!BitAt(S, 6, j) = (S[4 * n + b \div 6 + 1] \div Base64!Weights[2 + (b % 6) + 1]) % 2
        /\ Base64!BitAt(B, 8, j) = (B[3 * n + b \div 8 + 1] \div Base64!Weights[(b % 8) + 1]) % 2
    BY <1>1, <1>2, <1>3 DEF Base64!BitAt
  <1> DEFINE s1 == S[4 * n + 1]
             s2 == S[4 * n + 2]
             s3 == S[4 * n + 3]
             s4 == S[4 * n + 4]
             x == B[3 * n + 1]
             y == B[3 * n + 2]
             z == B[3 * n + 3]
  <1>5. s1 \in Sextets /\ s2 \in Sextets /\ s3 \in Sextets /\ s4 \in Sextets
    BY <1>1 DEF Groups
  <1>6. Group(s1, s2, s3, s4, x, y, z)
    BY <1>1 DEF Groups
  <1> HIDE DEF s1, s2, s3, s4, x, y, z
  <1>7. /\ (s1 \div 32) % 2 = (x \div 128) % 2 /\ (s1 \div 16) % 2 = (x \div 64) % 2
        /\ (s1 \div 8) % 2 = (x \div 32) % 2   /\ (s1 \div 4) % 2 = (x \div 16) % 2
        /\ (s1 \div 2) % 2 = (x \div 8) % 2    /\ (s1 \div 1) % 2 = (x \div 4) % 2
        /\ (s2 \div 32) % 2 = (x \div 2) % 2   /\ (s2 \div 16) % 2 = (x \div 1) % 2
        /\ (s2 \div 8) % 2 = (y \div 128) % 2  /\ (s2 \div 4) % 2 = (y \div 64) % 2
        /\ (s2 \div 2) % 2 = (y \div 32) % 2   /\ (s2 \div 1) % 2 = (y \div 16) % 2
        /\ (s3 \div 32) % 2 = (y \div 8) % 2   /\ (s3 \div 16) % 2 = (y \div 4) % 2
        /\ (s3 \div 8) % 2 = (y \div 2) % 2    /\ (s3 \div 4) % 2 = (y \div 1) % 2
        /\ (s3 \div 2) % 2 = (z \div 128) % 2  /\ (s3 \div 1) % 2 = (z \div 64) % 2
        /\ (s4 \div 32) % 2 = (z \div 32) % 2  /\ (s4 \div 16) % 2 = (z \div 16) % 2
        /\ (s4 \div 8) % 2 = (z \div 8) % 2    /\ (s4 \div 4) % 2 = (z \div 4) % 2
        /\ (s4 \div 2) % 2 = (z \div 2) % 2    /\ (s4 \div 1) % 2 = (z \div 1) % 2
    BY <1>5, <1>6, GroupBits
  <1>8. CASE b = 0
    BY <1>1, <1>4, <1>7, <1>8 DEF Base64!Weights, s1, x
  <1>9. CASE b = 1
    BY <1>1, <1>4, <1>7, <1>9 DEF Base64!Weights, s1, x
  <1>10. CASE b = 2
    BY <1>1, <1>4, <1>7, <1>10 DEF Base64!Weights, s1, x
  <1>11. CASE b = 3
    BY <1>1, <1>4, <1>7, <1>11 DEF Base64!Weights, s1, x
  <1>12. CASE b = 4
    BY <1>1, <1>4, <1>7, <1>12 DEF Base64!Weights, s1, x
  <1>13. CASE b = 5
    BY <1>1, <1>4, <1>7, <1>13 DEF Base64!Weights, s1, x
  <1>14. CASE b = 6
    BY <1>1, <1>4, <1>7, <1>14 DEF Base64!Weights, s2, x
  <1>15. CASE b = 7
    BY <1>1, <1>4, <1>7, <1>15 DEF Base64!Weights, s2, x
  <1>16. CASE b = 8
    BY <1>1, <1>4, <1>7, <1>16 DEF Base64!Weights, s2, y
  <1>17. CASE b = 9
    BY <1>1, <1>4, <1>7, <1>17 DEF Base64!Weights, s2, y
  <1>18. CASE b = 10
    BY <1>1, <1>4, <1>7, <1>18 DEF Base64!Weights, s2, y
  <1>19. CASE b = 11
    BY <1>1, <1>4, <1>7, <1>19 DEF Base64!Weights, s2, y
  <1>20. CASE b = 12
    BY <1>1, <1>4, <1>7, <1>20 DEF Base64!Weights, s3, y
  <1>21. CASE b = 13
    BY <1>1, <1>4, <1>7, <1>21 DEF Base64!Weights, s3, y
  <1>22. CASE b = 14
    BY <1>1, <1>4, <1>7, <1>22 DEF Base64!Weights, s3, y
  <1>23. CASE b = 15
    BY <1>1, <1>4, <1>7, <1>23 DEF Base64!Weights, s3, y
  <1>24. CASE b = 16
    BY <1>1, <1>4, <1>7, <1>24 DEF Base64!Weights, s3, z
  <1>25. CASE b = 17
    BY <1>1, <1>4, <1>7, <1>25 DEF Base64!Weights, s3, z
  <1>26. CASE b = 18
    BY <1>1, <1>4, <1>7, <1>26 DEF Base64!Weights, s4, z
  <1>27. CASE b = 19
    BY <1>1, <1>4, <1>7, <1>27 DEF Base64!Weights, s4, z
  <1>28. CASE b = 20
    BY <1>1, <1>4, <1>7, <1>28 DEF Base64!Weights, s4, z
  <1>29. CASE b = 21
    BY <1>1, <1>4, <1>7, <1>29 DEF Base64!Weights, s4, z
  <1>30. CASE b = 22
    BY <1>1, <1>4, <1>7, <1>30 DEF Base64!Weights, s4, z
  <1>31. CASE b = 23
    BY <1>1, <1>4, <1>7, <1>31 DEF Base64!Weights, s4, z
  <1> QED
    BY <1>1, <1>8, <1>9, <1>10, <1>11, <1>12, <1>13, <1>14, <1>15, <1>16, <1>17, <1>18, <1>19, <1>20, <1>21, <1>22, <1>23, <1>24, <1>25, <1>26, <1>27, <1>28, <1>29, <1>30, <1>31
\* The text of a buffer: whole groups, as if zeros were behind its last byte, and
\* what no bit of the buffer is in is padding.
SymbolCount(n) == 4 * (n \div 3) + (IF n % 3 = 0 THEN 0 ELSE (n % 3) + 1)
Spelling(chars, bytes, S, B, g) ==
    /\ g \in Nat /\ Groups(S, B, g)
    /\ Len(chars) = 4 * g /\ DOMAIN chars = 1..4 * g /\ chars = [i \in 1..4 * g |-> chars[i]]
    /\ SymbolCount(Len(bytes)) \in 0..4 * g /\ Len(bytes) \in 0..3 * g
    /\ \A i \in 1..4 * g : chars[i] = IF i <= SymbolCount(Len(bytes)) THEN S[i] ELSE Base64!PADDING
    /\ \A i \in 1..3 * g : B[i] = IF i <= Len(bytes) THEN bytes[i] ELSE 0

LEMMA Lengths ==
    ASSUME NEW n \in Nat
    PROVE  /\ Base64!encoding_length_padded(n) = 4 * ((n + 2) \div 3)
           /\ SymbolCount(n) = (8 * n + 5) \div 6 /\ (3 * SymbolCount(n)) \div 4 = n
           /\ SymbolCount(n) \in 4 * ((n + 2) \div 3) - 2..4 * ((n + 2) \div 3)
           /\ SymbolCount(n) \in Nat /\ n <= 3 * ((n + 2) \div 3)
           /\ n \div 3 \in Nat /\ n % 3 \in 0..2 /\ n = 3 * (n \div 3) + (n % 3)
           /\ (n + 2) \div 3 = (n \div 3) + (IF n % 3 = 0 THEN 0 ELSE 1)
  <1>1. PICK q \in Nat, r \in 0..2 : n = 3 * q + r /\ n \div 3 = q /\ n % 3 = r
    BY SMTT(30)
  <1>2. CASE r = 0
    <2>1. (4 * n) \div 3 = 4 * q /\ (n + 2) \div 3 = q /\ (8 * n + 5) \div 6 = 4 * q
      BY <1>1, <1>2, SMTT(30)
    <2>2. (4 * q) % 4 = 0
      BY SMTT(30)
    <2>3. SymbolCount(n) = 4 * q
      BY <1>1, <1>2 DEF SymbolCount
    <2> QED
      BY <1>1, <1>2, <2>1, <2>2, <2>3, SMTT(30) DEF Base64!encoding_length_padded
  <1>3. CASE r = 1
    <2>1. (4 * n) \div 3 = 4 * q + 1 /\ (n + 2) \div 3 = q + 1 /\ (8 * n + 5) \div 6 = 4 * q + 2
      BY <1>1, <1>3, SMTT(30)
    <2>2. (4 * q + 1) % 4 = 1
      BY SMTT(30)
    <2>3. SymbolCount(n) = 4 * q + 2
      BY <1>1, <1>3 DEF SymbolCount
    <2> QED
      BY <1>1, <1>3, <2>1, <2>2, <2>3, SMTT(30) DEF Base64!encoding_length_padded
  <1>4. CASE r = 2
    <2>1. (4 * n) \div 3 = 4 * q + 2 /\ (n + 2) \div 3 = q + 1 /\ (8 * n + 5) \div 6 = 4 * q + 3
      BY <1>1, <1>4, SMTT(30)
    <2>2. (4 * q + 2) % 4 = 2
      BY SMTT(30)
    <2>3. SymbolCount(n) = 4 * q + 3
      BY <1>1, <1>4 DEF SymbolCount
    <2> QED
      BY <1>1, <1>4, <2>1, <2>2, <2>3, SMTT(30) DEF Base64!encoding_length_padded
  <1> QED
    BY <1>1, <1>2, <1>3, <1>4

\* The four symbols of three bytes.
Symbol(x, y, z, k) ==
    IF k = 1 THEN x \div 4
    ELSE IF k = 2 THEN 16 * (x % 4) + y \div 16
    ELSE IF k = 3 THEN 4 * (y % 16) + z \div 64
    ELSE z % 64

\* What a round of the encoder writes.
Writes(symbols, x, y, z, count) == \A k \in 1..count + 1 : symbols[k] = Symbol(x, y, z, k)
LEMMA RoundWrites ==
    ASSUME NEW x \in Octets, NEW y \in Octets, NEW z \in Octets, NEW count \in 1..3,
           NEW buffer, NEW from \in Nat,
           x = buffer[from + 1],
           y = IF count >= 2 THEN buffer[from + 2] ELSE 0,
           z = IF count >= 3 THEN buffer[from + 3] ELSE 0
    PROVE  Writes(Base64!encode_fragment(Base64!Gather(buffer, from, count), count), x, y, z, count)
  <1> DEFINE f == Base64!Gather(buffer, from, count)
             symbols == Base64!encode_fragment(f, count)
  <1>1. f = Fragment(x, y, z)
    <2>1. \A j \in 1..count : buffer[from + j] \in Octets
      BY DEF Octets
    <2>2. \A i \in 1..3 : \A j \in i + 1..count : ~(buffer[from + j] < 0)
      BY <2>1 DEF Octets
    <2>3. \A j \in 1..count : buffer[from + j] % 256 = buffer[from + j]
      BY <2>1 DEF Octets
    <2>4. f = (IF 1 > count THEN 0 ELSE buffer[from + 1] * 65536)
              + (IF 2 > count THEN 0 ELSE buffer[from + 2] * 256)
              + (IF 3 > count THEN 0 ELSE buffer[from + 3] * 1)
      <3> DEFINE Element(i) == IF \E j \in i + 1..count : buffer[from + j] < 0
                               THEN 255 ELSE buffer[from + i] % 256
                 Part(i) == IF i > count THEN 0 ELSE Element(i) * Base64!Thirds[i]
      <3>1. f = Part(1) + Part(2) + Part(3)
        BY Zenon DEF Base64!Gather
      <3>2. ASSUME NEW i \in 1..3, ~(i > count) PROVE Element(i) = buffer[from + i]
        <4>1. i \in 1..count
          BY <3>2
        <4> QED
          BY <2>2, <2>3, <4>1
      <3> HIDE DEF f, Element
      <3>3. /\ Part(1) = IF 1 > count THEN 0 ELSE buffer[from + 1] * 65536
            /\ Part(2) = IF 2 > count THEN 0 ELSE buffer[from + 2] * 256
            /\ Part(3) = IF 3 > count THEN 0 ELSE buffer[from + 3] * 1
        BY <3>2 DEF Base64!Thirds
      <3> QED
        BY <3>1, <3>3
    <2> HIDE DEF f
    <2> QED
      BY <2>4 DEF Octets, Fragment
  <1> HIDE DEF f
  <1>2. symbols = [i \in 1..count + 1 |-> (f \div Base64!offsets[i]) % 64]
    BY DEF Base64!encode_fragment
  <1>3. /\ (f \div 262144) % 64 = x \div 4
        /\ (f \div 4096) % 64 = 16 * (x % 4) + y \div 16
        /\ (f \div 64) % 64 = 4 * (y % 16) + z \div 64
        /\ (f \div 1) % 64 = z % 64
    BY <1>1, FragmentSymbols
  <1>4. /\ symbols[1] = (f \div 262144) % 64 /\ symbols[2] = (f \div 4096) % 64
        /\ count >= 2 => symbols[3] = (f \div 64) % 64
        /\ count >= 3 => symbols[4] = (f \div 1) % 64
    BY <1>2 DEF Base64!offsets
  <1>5. \A k \in 1..count + 1 : k = 1 \/ k = 2 \/ (k = 3 /\ count >= 2) \/ (k = 4 /\ count >= 3)
    OBVIOUS
  <1> HIDE DEF symbols
  <1>6. Writes(symbols, x, y, z, count)
    BY <1>3, <1>4, <1>5 DEF Writes, Symbol
  <1> QED
    BY <1>6 DEF symbols, f
\* The encoder spells its buffer.
LEMMA EncoderSpells ==
    ASSUME NEW bytes \in Seq(Octets)
    PROVE  \E S, B : Spelling(Base64!base64_encode(bytes), bytes, S, B, (Len(bytes) + 2) \div 3)
  <1> DEFINE n == Len(bytes)
             q == n \div 3
             r == n % 3
             g == (n + 2) \div 3
             chars == Base64!base64_encode(bytes)
             Round(m) == LET count == IF m < q THEN 3 ELSE r
                         IN  Base64!encode_fragment(Base64!Gather(bytes, 3 * m, count), count)
             B == [i \in 1..3 * g |-> IF i <= n THEN bytes[i] ELSE 0]
             S == [i \in 1..4 * g |-> LET m == (i - 1) \div 4
                                      IN  Symbol(B[3 * m + 1], B[3 * m + 2], B[3 * m + 3], ((i - 1) % 4) + 1)]
  <1>1. n \in Nat /\ \A i \in 1..n : bytes[i] \in Octets
    BY LenProperties
  <1> HIDE DEF n
  <1>2. /\ Base64!encoding_length_padded(n) = 4 * g /\ SymbolCount(n) \in Nat /\ SymbolCount(n) \in 4 * g - 2..4 * g
        /\ q \in Nat /\ r \in 0..2 /\ n = 3 * q + r /\ n <= 3 * g /\ g \in Nat
        /\ g = q + (IF r = 0 THEN 0 ELSE 1)
    <2>1. n \in Nat
      BY <1>1
    <2>2. /\ Base64!encoding_length_padded(n) = 4 * g
          /\ SymbolCount(n) \in 4 * g - 2..4 * g
          /\ SymbolCount(n) \in Nat /\ n <= 3 * g
          /\ q \in Nat /\ r \in 0..2 /\ n = 3 * q + r
          /\ g = q + (IF r = 0 THEN 0 ELSE 1)
      BY <2>1, Lengths, Zenon
    <2> HIDE DEF q, r, g
    <2>3. g \in Nat
      BY <2>2
    <2> QED
      BY <2>2, <2>3
  <1>3. SymbolCount(n) = 4 * q + (IF r = 0 THEN 0 ELSE r + 1)
    BY DEF SymbolCount
  <1>4. chars = [i \in 1..4 * g |-> IF i <= SymbolCount(n) THEN Round((i - 1) \div 4)[((i - 1) % 4) + 1]
                                                      ELSE Base64!PADDING]
    <2>1. Len(Base64!encode_fragment(0, r)) = IF r = 0 THEN 0 ELSE r + 1
      BY <1>2 DEF Base64!encode_fragment
    <2> HIDE DEF n
    <2>2. SymbolCount(n) = 4 * q + Len(Base64!encode_fragment(0, r))
      BY <1>3, <2>1
    <2> QED
      BY <1>2, <2>2, Zenon DEF Base64!base64_encode, n
  <1> HIDE DEF n, q, r, g, chars, Round
  <1>5. B \in [1..3 * g -> Octets]
    BY <1>1, <1>2 DEF Octets
  <1> HIDE DEF B
  <1>6. ASSUME NEW m \in 0..g - 1
        PROVE  B[3 * m + 1] \in Octets /\ B[3 * m + 2] \in Octets /\ B[3 * m + 3] \in Octets
    BY <1>2, <1>5
  <1>7. ASSUME NEW m \in 0..g - 1, NEW k \in 1..4
        PROVE  /\ 4 * m + k \in 1..4 * g /\ ((4 * m + k) - 1) \div 4 = m /\ (((4 * m + k) - 1) % 4) + 1 = k
               /\ S[4 * m + k] = Symbol(B[3 * m + 1], B[3 * m + 2], B[3 * m + 3], k)
    <2>1. 4 * m + k \in 1..4 * g /\ ((4 * m + k) - 1) \div 4 = m /\ (((4 * m + k) - 1) % 4) + 1 = k
      BY <1>2, SMTT(30)
    <2> QED
      BY <2>1
  <1>8. ASSUME NEW i \in 1..4 * g
        PROVE  \E m \in 0..g - 1, k \in 1..4 : i = 4 * m + k
    <2>1. (i - 1) \div 4 \in 0..g - 1 /\ ((i - 1) % 4) + 1 \in 1..4
          /\ i = 4 * ((i - 1) \div 4) + (((i - 1) % 4) + 1)
      BY <1>2, SMTT(30)
    <2> QED
      BY <2>1
  <1>9. DOMAIN S = 1..4 * g /\ S = [i \in 1..4 * g |-> S[i]]
    OBVIOUS
  <1> HIDE DEF S
  <1>10. Groups(S, B, g)
    <2>1. ASSUME NEW i \in 1..4 * g PROVE S[i] \in Sextets
      <3>1. PICK m \in 0..g - 1, k \in 1..4 : i = 4 * m + k
        BY <1>8
      <3> DEFINE x == B[3 * m + 1]
                 y == B[3 * m + 2]
                 z == B[3 * m + 3]
      <3>2. x \in Octets /\ y \in Octets /\ z \in Octets
        BY <1>6
      <3>3. S[i] = Symbol(x, y, z, k)
        BY <1>7, <3>1
      <3> HIDE DEF x, y, z
      <3>4. /\ x \div 4 \in Sextets /\ 16 * (x % 4) + y \div 16 \in Sextets
            /\ 4 * (y % 16) + z \div 64 \in Sextets /\ z % 64 \in Sextets
        BY <3>2, SymbolsAreGroup
      <3> QED
        BY <3>3, <3>4 DEF Symbol
    <2>2. ASSUME NEW m \in 0..g - 1
          PROVE  Group(S[4 * m + 1], S[4 * m + 2], S[4 * m + 3], S[4 * m + 4],
                       B[3 * m + 1], B[3 * m + 2], B[3 * m + 3])
      <3> DEFINE x == B[3 * m + 1]
                 y == B[3 * m + 2]
                 z == B[3 * m + 3]
      <3>1. x \in Octets /\ y \in Octets /\ z \in Octets
        BY <1>6
      <3>2. \A k \in 1..4 : S[4 * m + k] = Symbol(x, y, z, k)
        BY <1>7
      <3> HIDE DEF x, y, z
      <3>3. /\ S[4 * m + 1] = x \div 4 /\ S[4 * m + 2] = 16 * (x % 4) + y \div 16
            /\ S[4 * m + 3] = 4 * (y % 16) + z \div 64 /\ S[4 * m + 4] = z % 64
        BY <3>2 DEF Symbol
      <3>4. Group(x \div 4, 16 * (x % 4) + y \div 16, 4 * (y % 16) + z \div 64, z % 64, x, y, z)
        BY <3>1, SymbolsAreGroup
      <3> QED
        BY <3>3, <3>4 DEF x, y, z
    <2>3. S \in [1..4 * g -> Sextets]
      BY <1>9, <2>1
    <2> QED
      BY <1>5, <2>2, <2>3 DEF Groups
  <1>11. ASSUME NEW i \in 1..4 * g, i <= SymbolCount(n)
         PROVE  chars[i] = S[i]
    <2>1. PICK m \in 0..g - 1, k \in 1..4 : i = 4 * m + k
      BY <1>8
    <2> DEFINE count == IF m < q THEN 3 ELSE r
    <2>2. count \in 1..3 /\ k <= count + 1 /\ 3 * m + count <= n /\ m \in Nat
          /\ (count < 3 => 3 * m + count = n)
      BY <1>2, <1>3, <1>11, <2>1
    <2>3. chars[i] = Base64!encode_fragment(Base64!Gather(bytes, 3 * m, count), count)[k]
      <3>1. chars[i] = Round((i - 1) \div 4)[((i - 1) % 4) + 1]
        BY <1>4, <1>11
      <3>2. (i - 1) \div 4 = m /\ ((i - 1) % 4) + 1 = k
        BY <1>7, <2>1
      <3> QED
        BY <3>1, <3>2 DEF Round
    <2> HIDE DEF count
    <2>4. \A j \in 1..3 * g : B[j] = IF j <= n THEN bytes[j] ELSE 0
      BY DEF B
    <2> DEFINE x == B[3 * m + 1]
               y == B[3 * m + 2]
               z == B[3 * m + 3]
    <2>5. x \in Octets /\ y \in Octets /\ z \in Octets
      BY <1>6
    <2>6. /\ x = bytes[3 * m + 1]
          /\ y = (IF count >= 2 THEN bytes[3 * m + 2] ELSE 0)
          /\ z = (IF count >= 3 THEN bytes[3 * m + 3] ELSE 0)
      BY <1>2, <2>2, <2>4
    <2>7. S[i] = Symbol(x, y, z, k)
      BY <1>7, <2>1
    <2> HIDE DEF x, y, z
    <2> DEFINE from == 3 * m
    <2>8. from \in Nat
      BY <2>2
    <2> HIDE DEF from
    <2>9. /\ x = bytes[from + 1] /\ y = (IF count >= 2 THEN bytes[from + 2] ELSE 0)
          /\ z = (IF count >= 3 THEN bytes[from + 3] ELSE 0)
      BY <2>6 DEF from
    <2>11. Writes(Base64!encode_fragment(Base64!Gather(bytes, from, count), count), x, y, z, count)
      BY <2>2, <2>5, <2>8, <2>9, RoundWrites
    <2>10. Base64!encode_fragment(Base64!Gather(bytes, from, count), count)[k] = Symbol(x, y, z, k)
      BY <2>2, <2>11 DEF Writes
    <2> QED
      BY <2>3, <2>7, <2>10 DEF from
  <1>12. Spelling(chars, bytes, S, B, g)
    <2>1. Len(chars) = 4 * g /\ DOMAIN chars = 1..4 * g /\ chars = [i \in 1..4 * g |-> chars[i]]
      BY <1>2, <1>4
    <2>2. \A i \in 1..4 * g : chars[i] = IF i <= SymbolCount(n) THEN S[i] ELSE Base64!PADDING
      BY <1>4, <1>11
    <2>3. \A i \in 1..3 * g : B[i] = IF i <= n THEN bytes[i] ELSE 0
      BY DEF B
    <2>4. SymbolCount(n) \in 0..4 * g /\ n \in 0..3 * g /\ g \in Nat
      BY <1>1, <1>2
    <2> QED
      BY <1>10, <2>1, <2>2, <2>3, <2>4, Zenon DEF Spelling, n
  <1> QED
    BY <1>12 DEF chars, g, n
\* A text of g groups, whose first c characters are symbols and the others, of which
\* there are two at most, are padding.
Shape(chars, g, c) ==
    /\ g \in Nat /\ c \in Nat /\ c <= 4 * g /\ 4 * g <= c + 2
    /\ Len(chars) = 4 * g /\ DOMAIN chars = 1..4 * g /\ chars = [i \in 1..4 * g |-> chars[i]]
    /\ \A i \in 1..4 * g : IF i <= c THEN chars[i] \in Sextets ELSE chars[i] = Base64!PADDING

LEMMA ShapeLength ==
    ASSUME NEW chars, NEW g, NEW c, Shape(chars, g, c)
    PROVE  Base64!source_length_unpadded(chars) = c
  <1> DEFINE U == {i \in DOMAIN chars : chars[i] # Base64!PADDING}
  <1>1. \A i : i \in U <=> i \in 1..c
    <2>1. ASSUME NEW i \in 1..4 * g PROVE chars[i] # Base64!PADDING <=> i <= c
      <3>1. CASE i <= c
        <4>1. chars[i] \in 0..63
          BY <3>1 DEF Shape, Sextets
        <4> QED
          BY <3>1, <4>1 DEF Base64!PADDING
      <3>2. CASE ~(i <= c)
        BY <3>2 DEF Shape
      <3> QED
        BY <3>1, <3>2
    <2> QED
      BY <2>1 DEF Shape
  <1>2. Base64!source_length_unpadded(chars) = Cardinality(U)
    BY DEF Base64!source_length_unpadded, Base64!Cardinality, Cardinality
  <1> HIDE DEF U
  <1>3. U = 1..c
    BY <1>1
  <1>4. c \in Nat
    BY DEF Shape
  <1>5. Cardinality(1..c) = c
    BY <1>4, FS_Interval
  <1> QED
    BY <1>2, <1>3, <1>5

\* The three bytes of four symbols, and what a round of the decoder writes of them.
Byte(s1, s2, s3, s4, k) ==
    IF k = 1 THEN (Coded(s1, s2, s3, s4) \div 65536) % 256
    ELSE IF k = 2 THEN (Coded(s1, s2, s3, s4) \div 256) % 256
    ELSE (Coded(s1, s2, s3, s4) \div 1) % 256
Gives(bytes, s1, s2, s3, s4, count) ==
    /\ Len(bytes) = count - 1
    /\ \A k \in 1..count - 1 : bytes[k] = Byte(s1, s2, s3, s4, k)

LEMMA RoundGives ==
    ASSUME NEW s1 \in Sextets, NEW s2 \in Sextets, NEW s3 \in Sextets, NEW s4 \in Sextets,
           NEW count \in 2..4, NEW chars, NEW from \in Nat,
           s1 = chars[from + 1], s2 = chars[from + 2],
           s3 = IF count >= 3 THEN chars[from + 3] ELSE 0,
           s4 = IF count >= 4 THEN chars[from + 4] ELSE 0
    PROVE  Gives(Base64!DecodeFragment(chars, from, count), s1, s2, s3, s4, count)
  <1> DEFINE Shifted(j) == IF j <= count THEN chars[from + j] * Base64!offsets[j] ELSE 0
             f == Shifted(1) + Shifted(2) + Shifted(3) + Shifted(4)
             bytes == Base64!DecodeFragment(chars, from, count)
  <1>1. f = Coded(s1, s2, s3, s4)
    BY DEF Base64!offsets, Sextets, Coded
  <1>2. bytes = [k \in 1..count - 1 |-> (f \div Base64!Thirds[k]) % 256]
    <2>1. 3 - <<3, 2, 2, 1, 0>>[count + 1] = count - 1
      <3>1. count = 2 \/ count = 3 \/ count = 4
        OBVIOUS
      <3> QED
        BY <3>1
    <2> QED
      BY <2>1, Zenon DEF Base64!DecodeFragment
  <1> HIDE DEF f, bytes
  <1>3. /\ Len(bytes) = count - 1
        /\ \A k \in 1..count - 1 : k \in {1, 2, 3} /\ bytes[k] = (f \div Base64!Thirds[k]) % 256
    BY <1>2
  <1>4. Base64!Thirds[1] = 65536 /\ Base64!Thirds[2] = 256 /\ Base64!Thirds[3] = 1
    BY DEF Base64!Thirds
  <1>5. ASSUME NEW k \in 1..count - 1 PROVE bytes[k] = Byte(s1, s2, s3, s4, k)
    <2>1. k \in {1, 2, 3} /\ bytes[k] = (Coded(s1, s2, s3, s4) \div Base64!Thirds[k]) % 256
      BY <1>1, <1>3
    <2> QED
      BY <1>4, <2>1 DEF Byte
  <1> QED
    BY <1>3, <1>5 DEF Gives, bytes

\* The decoder gives bytes that the symbols spell, with zeros behind them.
LEMMA DecoderReads ==
    ASSUME NEW chars, NEW g, NEW c, Shape(chars, g, c)
    PROVE  \E S, B : /\ Groups(S, B, g)
                     /\ \A i \in 1..c : S[i] = chars[i]
                     /\ Base64!decode(chars) = [i \in 1..3 * g - (4 * g - c) |-> B[i]]
  <1> DEFINE q == c \div 4
             r == c % 4
             e == 4 * g - c
             Round(m) == Base64!DecodeFragment(chars, 4 * m, IF m < q THEN 4 ELSE r)
             S == [i \in 1..4 * g |-> IF i <= c THEN chars[i] ELSE 0]
             B == [i \in 1..3 * g |-> LET m == (i - 1) \div 3
                                      IN  Byte(S[4 * m + 1], S[4 * m + 2], S[4 * m + 3], S[4 * m + 4],
                                               ((i - 1) % 3) + 1)]
  <1>1. /\ g \in Nat /\ c \in Nat /\ e \in 0..2 /\ q \in Nat /\ c = 4 * q + r /\ r \in {0, 2, 3}
        /\ (r = 0 => e = 0 /\ q = g) /\ (r = 2 => e = 2 /\ q = g - 1) /\ (r = 3 => e = 1 /\ q = g - 1)
    BY SMTT(30) DEF Shape
  <1>2. S \in [1..4 * g -> Sextets]
    BY <1>1 DEF Shape, Sextets
  <1>3. \A i \in 1..4 * g : S[i] = IF i <= c THEN chars[i] ELSE 0
    OBVIOUS
  <1> HIDE DEF S
  <1>4. ASSUME NEW m \in 0..g - 1
        PROVE  /\ S[4 * m + 1] \in Sextets /\ S[4 * m + 2] \in Sextets
               /\ S[4 * m + 3] \in Sextets /\ S[4 * m + 4] \in Sextets
    BY <1>1, <1>2
  <1>5. ASSUME NEW m \in 0..g - 1, NEW k \in 1..3
        PROVE  /\ 3 * m + k \in 1..3 * g /\ ((3 * m + k) - 1) \div 3 = m /\ (((3 * m + k) - 1) % 3) + 1 = k
               /\ B[3 * m + k] = Byte(S[4 * m + 1], S[4 * m + 2], S[4 * m + 3], S[4 * m + 4], k)
    <2>1. 3 * m + k \in 1..3 * g /\ ((3 * m + k) - 1) \div 3 = m /\ (((3 * m + k) - 1) % 3) + 1 = k
      BY <1>1, SMTT(30)
    <2> QED
      BY <2>1
  <1>6. ASSUME NEW i \in 1..3 * g
        PROVE  \E m \in 0..g - 1, k \in 1..3 : i = 3 * m + k
    <2>1. (i - 1) \div 3 \in 0..g - 1 /\ ((i - 1) % 3) + 1 \in 1..3
          /\ i = 3 * ((i - 1) \div 3) + (((i - 1) % 3) + 1)
      BY <1>1, SMTT(30)
    <2> QED
      BY <2>1
  <1>7. DOMAIN B = 1..3 * g /\ B = [i \in 1..3 * g |-> B[i]]
    OBVIOUS
  <1> HIDE DEF B
  <1>8. Groups(S, B, g)
    <2>1. ASSUME NEW m \in 0..g - 1
          PROVE  /\ \A k \in 1..3 : B[3 * m + k] \in Octets
                 /\ Group(S[4 * m + 1], S[4 * m + 2], S[4 * m + 3], S[4 * m + 4],
                          B[3 * m + 1], B[3 * m + 2], B[3 * m + 3])
      <3> DEFINE s1 == S[4 * m + 1]
                 s2 == S[4 * m + 2]
                 s3 == S[4 * m + 3]
                 s4 == S[4 * m + 4]
                 f == Coded(s1, s2, s3, s4)
      <3>1. s1 \in Sextets /\ s2 \in Sextets /\ s3 \in Sextets /\ s4 \in Sextets
        BY <1>4
      <3>2. \A k \in 1..3 : B[3 * m + k] = Byte(s1, s2, s3, s4, k)
        BY <1>5
      <3> HIDE DEF s1, s2, s3, s4
      <3>3. /\ B[3 * m + 1] = (f \div 65536) % 256 /\ B[3 * m + 2] = (f \div 256) % 256
            /\ B[3 * m + 3] = (f \div 1) % 256
        BY <3>2 DEF Byte
      <3>4. f = Coded(s1, s2, s3, s4)
        OBVIOUS
      <3> HIDE DEF f
      <3>5. /\ (f \div 65536) % 256 \in Octets /\ (f \div 256) % 256 \in Octets
            /\ (f \div 1) % 256 \in Octets
            /\ Group(s1, s2, s3, s4, (f \div 65536) % 256, (f \div 256) % 256, (f \div 1) % 256)
        BY <3>1, <3>4, FragmentBytes
      <3>6. \A k \in 1..3 : k = 1 \/ k = 2 \/ k = 3
        OBVIOUS
      <3> QED
        BY <3>3, <3>5, <3>6 DEF s1, s2, s3, s4
    <2>2. B \in [1..3 * g -> Octets]
      BY <1>6, <1>7, <2>1
    <2> QED
      BY <1>2, <2>1, <2>2 DEF Groups
  <1>9. Base64!decode(chars) = [i \in 1..3 * g - e |-> Round((i - 1) \div 3)[((i - 1) % 3) + 1]]
    <2>1. Len(Base64!DecodeFragment(chars, 4 * q, r)) = IF r = 0 THEN 0 ELSE r - 1
      BY <1>1 DEF Base64!DecodeFragment
    <2>2. 3 * q + Len(Base64!DecodeFragment(chars, 4 * q, r)) = 3 * g - e
      BY <1>1, <2>1
    <2>3. Base64!source_length_unpadded(chars) = c
      BY ShapeLength
    <2> HIDE DEF e
    <2> QED
      BY <2>2, <2>3, Zenon DEF Base64!decode
  <1>10. ASSUME NEW i \in 1..3 * g - e
         PROVE  Round((i - 1) \div 3)[((i - 1) % 3) + 1] = B[i]
    <2>1. PICK m \in 0..g - 1, k \in 1..3 : i = 3 * m + k
      BY <1>1, <1>6
    <2> DEFINE count == IF m < q THEN 4 ELSE r
    <2>2. count \in 2..4 /\ k <= count - 1 /\ m \in Nat /\ 4 * m + count <= c
          /\ (count < 4 => 4 * m + count = c)
      BY <1>1, <2>1
    <2>3. Round((i - 1) \div 3)[((i - 1) % 3) + 1] = Base64!DecodeFragment(chars, 4 * m, count)[k]
      BY <1>5, <2>1
    <2> HIDE DEF count
    <2> DEFINE s1 == S[4 * m + 1]
               s2 == S[4 * m + 2]
               s3 == S[4 * m + 3]
               s4 == S[4 * m + 4]
               from == 4 * m
    <2>4. s1 \in Sextets /\ s2 \in Sextets /\ s3 \in Sextets /\ s4 \in Sextets
      BY <1>4
    <2>5. /\ s1 = chars[from + 1] /\ s2 = chars[from + 2]
          /\ s3 = (IF count >= 3 THEN chars[from + 3] ELSE 0)
          /\ s4 = (IF count >= 4 THEN chars[from + 4] ELSE 0)
      BY <1>1, <1>3, <2>2
    <2>6. from \in Nat
      BY <2>2
    <2>7. B[i] = Byte(s1, s2, s3, s4, k)
      BY <1>5, <2>1
    <2> HIDE DEF s1, s2, s3, s4, from
    <2>8. Gives(Base64!DecodeFragment(chars, from, count), s1, s2, s3, s4, count)
      BY <2>2, <2>4, <2>5, <2>6, RoundGives
    <2>9. Base64!DecodeFragment(chars, from, count)[k] = Byte(s1, s2, s3, s4, k)
      BY <2>2, <2>8 DEF Gives
    <2> QED
      BY <2>3, <2>7, <2>9 DEF from
  <1>11. Base64!decode(chars) = [i \in 1..3 * g - e |-> B[i]]
    BY <1>9, <1>10
  <1>12. \A i \in 1..c : S[i] = chars[i]
    BY <1>1, <1>3 DEF Shape
  <1> QED
    BY <1>8, <1>11, <1>12 DEF e
Agree(X, Y, n) == \A i \in 1..n : X[i] = Y[i]

\* Symbols determine the bytes whose bits are all among theirs.
LEMMA SameBytes ==
    ASSUME NEW g \in Nat, NEW c \in Nat, c <= 4 * g, 4 * g <= c + 2,
           NEW S, NEW B, Groups(S, B, g), NEW T, NEW C, Groups(T, C, g),
           Agree(S, T, c),
           NEW i \in 1..3 * g - (4 * g - c)
    PROVE  B[i] = C[i]
  <1>1. PICK m \in 0..g - 1, k \in 1..3 : i = 3 * m + k
    <2>1. (i - 1) \div 3 \in 0..g - 1 /\ ((i - 1) % 3) + 1 \in 1..3
          /\ i = 3 * ((i - 1) \div 3) + (((i - 1) % 3) + 1)
      BY SMTT(30)
    <2> QED
      BY <2>1
  <1>2. \A j \in 1..k + 1 : S[4 * m + j] = T[4 * m + j]
    <2>1. \A j \in 1..k + 1 : 4 * m + j \in 1..c
      BY <1>1
    <2> QED
      BY <2>1 DEF Agree
  <1>3. /\ Group(S[4 * m + 1], S[4 * m + 2], S[4 * m + 3], S[4 * m + 4],
                 B[3 * m + 1], B[3 * m + 2], B[3 * m + 3])
        /\ Group(T[4 * m + 1], T[4 * m + 2], T[4 * m + 3], T[4 * m + 4],
                 C[3 * m + 1], C[3 * m + 2], C[3 * m + 3])
    BY DEF Groups
  <1>4. CASE k = 1
    <2>1. S[4 * m + 1] = T[4 * m + 1] /\ S[4 * m + 2] = T[4 * m + 2]
      BY <1>2, <1>4
    <2> QED
      BY <1>1, <1>3, <1>4, <2>1 DEF Group
  <1>5. CASE k = 2
    <2>1. S[4 * m + 2] = T[4 * m + 2] /\ S[4 * m + 3] = T[4 * m + 3]
      BY <1>2, <1>5
    <2> QED
      BY <1>1, <1>3, <1>5, <2>1 DEF Group
  <1>6. CASE k = 3
    <2>1. S[4 * m + 3] = T[4 * m + 3] /\ S[4 * m + 4] = T[4 * m + 4]
      BY <1>2, <1>6
    <2> QED
      BY <1>1, <1>3, <1>6, <2>1 DEF Group
  <1> QED
    BY <1>4, <1>5, <1>6

\* Bits are looked up in the same places.
LEMMA SameBits ==
    ASSUME NEW n \in Nat, NEW X, NEW Y, Agree(X, Y, n)
    PROVE  /\ \A j \in 1..6 * n : Base64!BitAt(X, 6, j) = Base64!BitAt(Y, 6, j)
           /\ \A j \in 1..8 * n : Base64!BitAt(X, 8, j) = Base64!BitAt(Y, 8, j)
  <1>1. ASSUME NEW j \in 1..6 * n PROVE Base64!BitAt(X, 6, j) = Base64!BitAt(Y, 6, j)
    <2>1. (j - 1) \div 6 + 1 \in 1..n
      BY SMTT(30)
    <2>2. X[(j - 1) \div 6 + 1] = Y[(j - 1) \div 6 + 1]
      BY <2>1, Zenon DEF Agree
    <2> QED
      BY <2>2, Zenon DEF Base64!BitAt
  <1>2. ASSUME NEW j \in 1..8 * n PROVE Base64!BitAt(X, 8, j) = Base64!BitAt(Y, 8, j)
    <2>1. (j - 1) \div 8 + 1 \in 1..n
      BY SMTT(30)
    <2>2. X[(j - 1) \div 8 + 1] = Y[(j - 1) \div 8 + 1]
      BY <2>1, Zenon DEF Agree
    <2> QED
      BY <2>2, Zenon DEF Base64!BitAt
  <1> QED
    BY <1>1, <1>2

\* An encoding is of the shape, and is the one the bits spell.
LEMMA EncodingIsSpelled ==
    ASSUME NEW bytes \in Seq(Octets)
    PROVE  /\ Shape(Base64!base64_encode(bytes), (Len(bytes) + 2) \div 3, SymbolCount(Len(bytes)))
           /\ Base64!Encodes(Base64!base64_encode(bytes), bytes)
  <1> DEFINE chars == Base64!base64_encode(bytes)
             n == Len(bytes)
             c == SymbolCount(n)
             g == (n + 2) \div 3
  <1>1. n \in Nat
    BY LenProperties
  <1> HIDE DEF n
  <1>2. c = (8 * n + 5) \div 6 /\ c \in 4 * g - 2..4 * g /\ c \in Nat /\ n <= 3 * g /\ (3 * c) \div 4 = n
    BY <1>1, Lengths, Zenon
  <1>3. g \in Nat
    BY <1>1, SMTT(30)
  <1>4. PICK S, B : Spelling(chars, bytes, S, B, g)
    BY EncoderSpells, Zenon DEF n
  <1>5. Groups(S, B, g)
    BY <1>4 DEF Spelling
  <1>6. \A i \in 1..4 * g : chars[i] = IF i <= c THEN S[i] ELSE Base64!PADDING
    BY <1>4 DEF Spelling, n
  <1>7. \A i \in 1..3 * g : B[i] = IF i <= n THEN bytes[i] ELSE 0
    BY <1>4 DEF Spelling, n
  <1>8. Len(chars) = 4 * g /\ DOMAIN chars = 1..4 * g /\ chars = [i \in 1..4 * g |-> chars[i]]
    BY <1>4 DEF Spelling
  <1> HIDE DEF chars, c, g
  <1>9. Shape(chars, g, c)
    <2>1. \A i \in 1..4 * g : S[i] \in Sextets
      BY <1>5 DEF Groups
    <2>2. \A i \in 1..4 * g : IF i <= c THEN chars[i] \in Sextets ELSE chars[i] = Base64!PADDING
      BY <1>6, <2>1
    <2>3. c <= 4 * g /\ 4 * g <= c + 2
      BY <1>2, <1>3
    <2> QED
      BY <1>2, <1>3, <1>8, <2>2, <2>3, Zenon DEF Shape
  <1>10. \A i \in DOMAIN chars : IF i <= c THEN chars[i] \in 0..63 ELSE chars[i] = Base64!PADDING
    BY <1>9 DEF Shape, Sextets
  <1>11. ASSUME NEW j \in 1..6 * c
         PROVE  Base64!BitAt(chars, 6, j) = IF j <= 8 * n THEN Base64!BitAt(bytes, 8, j) ELSE 0
    <2>1. Base64!BitAt(chars, 6, j) = Base64!BitAt(S, 6, j)
      <3>1. Agree(chars, S, c)
        BY <1>2, <1>3, <1>6 DEF Agree
      <3> QED
        BY <1>2, <3>1, SameBits
    <2>2. j \in 1..24 * g
      BY <1>2, <1>3
    <2>3. Base64!BitAt(S, 6, j) = Base64!BitAt(B, 8, j)
      BY <1>3, <1>5, <2>2, BitsOfGroups
    <2>4. CASE j <= 8 * n
      <3>1. Agree(B, bytes, n)
        BY <1>1, <1>2, <1>3, <1>7 DEF Agree
      <3>2. Base64!BitAt(B, 8, j) = Base64!BitAt(bytes, 8, j)
        <4>1. j \in 1..8 * n
          BY <1>1, <2>4
        <4> QED
          BY <1>1, <3>1, <4>1, SameBits
      <3> QED
        BY <2>1, <2>3, <2>4, <3>2
    <2>5. CASE ~(j <= 8 * n)
      <3> DEFINE i == (j - 1) \div 8 + 1
                 k == ((j - 1) % 8) + 1
      <3>1. i \in 1..3 * g /\ i > n /\ k \in 1..8 /\ i \in Nat
        BY <1>1, <1>3, <2>2, <2>5, SMTT(30)
      <3>2. Base64!BitAt(B, 8, j) = (B[i] \div Base64!Weights[8 - 8 + ((j - 1) % 8) + 1]) % 2
        BY Zenon DEF Base64!BitAt
      <3>3. 8 - 8 + ((j - 1) % 8) + 1 = k
        BY <3>1
      <3> HIDE DEF i, k
      <3>4. B[i] = 0
        BY <1>1, <1>7, <3>1
      <3>5. (0 \div Base64!Weights[k]) % 2 = 0
        BY <3>1 DEF Base64!Weights
      <3> QED
        BY <2>1, <2>3, <2>5, <3>2, <3>3, <3>4, <3>5
    <2> QED
      BY <2>4, <2>5
  <1>12. Base64!Encodes(chars, bytes)
    BY <1>2, <1>8, <1>10, <1>11, Zenon DEF Base64!Encodes, n, g
  <1> QED
    BY <1>9, <1>12 DEF chars, n, c, g

\* How many bytes are in the groups that so many symbols fill.
LEMMA BytesInGroups ==
    ASSUME NEW g \in Nat, NEW c \in 4 * g - 2..4 * g
    PROVE  (3 * c) \div 4 = 3 * g - (4 * g - c)
  <1>1. CASE c = 4 * g
    BY <1>1, SMTT(30)
  <1>2. CASE c = 4 * g - 1
    BY <1>2, SMTT(30)
  <1>3. CASE c = 4 * g - 2
    BY <1>3, SMTT(30)
  <1> QED
    BY <1>1, <1>2, <1>3

\* The decoder gives back what was encoded.
LEMMA DecodedIsSource ==
    ASSUME NEW bytes \in Seq(Octets)
    PROVE  Base64!decode(Base64!base64_encode(bytes)) = bytes
  <1> DEFINE chars == Base64!base64_encode(bytes)
             n == Len(bytes)
             c == SymbolCount(n)
             g == (n + 2) \div 3
  <1>1. n \in Nat /\ bytes = [i \in 1..n |-> bytes[i]]
    BY LenProperties
  <1>2. Shape(chars, g, c)
    BY EncodingIsSpelled, Zenon
  <1>3. PICK S, B : Spelling(chars, bytes, S, B, g)
    BY EncoderSpells, Zenon
  <1> HIDE DEF n
  <1>5. c \in Nat /\ (3 * c) \div 4 = n /\ c \in 4 * g - 2..4 * g /\ n <= 3 * g
    BY <1>1, Lengths, Zenon
  <1>6. g \in Nat
    BY <1>2 DEF Shape
  <1>7. Groups(S, B, g) /\ \A i \in 1..3 * g : B[i] = IF i <= n THEN bytes[i] ELSE 0
    BY <1>3 DEF Spelling, n
  <1>8. \A i \in 1..4 * g : chars[i] = IF i <= c THEN S[i] ELSE Base64!PADDING
    BY <1>3 DEF Spelling, n
  <1> HIDE DEF chars, c, g
  <1>4. PICK T, C : /\ Groups(T, C, g) /\ \A i \in 1..c : T[i] = chars[i]
                    /\ Base64!decode(chars) = [i \in 1..3 * g - (4 * g - c) |-> C[i]]
    BY <1>2, DecoderReads
  <1>9. 3 * g - (4 * g - c) = n
    BY <1>5, <1>6, BytesInGroups, Zenon
  <1>10. Agree(S, T, c)
    BY <1>4, <1>5, <1>6, <1>8 DEF Agree
  <1>11. ASSUME NEW i \in 1..n PROVE C[i] = bytes[i]
    <2>1. i \in 1..3 * g - (4 * g - c) /\ c <= 4 * g /\ 4 * g <= c + 2
      BY <1>5, <1>6, <1>9
    <2>2. B[i] = C[i]
      BY <1>4, <1>5, <1>6, <1>7, <1>10, <2>1, SameBytes
    <2>3. i \in 1..3 * g /\ i <= n
      BY <1>1, <1>5, <1>6
    <2> QED
      BY <1>7, <2>2, <2>3, Zenon
  <1> QED
    BY <1>1, <1>4, <1>9, <1>11 DEF chars

\* The first padding is found, and what the validation asks for is that the text is
\* well-formed.
LEMMA ValidTexts ==
    ASSUME NEW chars \in Seq(0..Base64!PADDING)
    PROVE  /\ Base64!validate(chars) <=> Base64!WellFormed(chars)
           /\ Base64!WellFormed(chars) => \E g, c : Shape(chars, g, c)
  <1> DEFINE l == Len(chars)
             P == {i \in 1..l + 1 : i <= l => chars[i] = Base64!PADDING}
  <1>1. l \in Nat /\ DOMAIN chars = 1..l /\ \A i \in 1..l : chars[i] \in 0..65
    BY LenProperties DEF Base64!PADDING
  <1>2. P \subseteq Nat /\ l + 1 \in P
    BY <1>1
  <1>3. PICK p \in P : \A i \in P : ~(i < p)
    BY <1>2, LeastElement
  <1>4. p \in 1..l + 1 /\ Base64!IsPadItr(chars, p)
    BY <1>1, <1>3 DEF Base64!IsPadItr
  <1>5. ASSUME NEW i \in 1..l + 1, Base64!IsPadItr(chars, i) PROVE i = p
    BY <1>1, <1>4, <1>5 DEF Base64!IsPadItr
  <1> DEFINE pad_itr == CHOOSE i \in 1..l + 1 : Base64!IsPadItr(chars, i)
  <1>6. pad_itr = p
    <2>1. pad_itr \in 1..l + 1 /\ Base64!IsPadItr(chars, pad_itr)
      BY <1>4
    <2> QED
      BY <1>5, <2>1
  <1> HIDE DEF P
  <1>7. Base64!validate(chars)
          <=> /\ l % 4 = 0 /\ \A i \in 1..l : chars[i] # Base64!INVALID
              /\ l + 1 - p <= 2 /\ \A i \in p..l : chars[i] = Base64!PADDING
    BY <1>1, <1>6, Zenon DEF Base64!validate
  <1>8. Base64!WellFormed(chars)
          <=> /\ l % 4 = 0
              /\ \A i \in 1..l : /\ chars[i] # Base64!INVALID
                                 /\ chars[i] = Base64!PADDING => \/ i = l
                                                                 \/ i = l - 1 /\ chars[i + 1] = Base64!PADDING
    BY <1>1, Zenon DEF Base64!WellFormed
  <1> HIDE DEF l, pad_itr
  <1>9. /\ p <= l => chars[p] = Base64!PADDING
        /\ \A i \in 1..p - 1 : chars[i] # Base64!PADDING
    BY <1>4 DEF Base64!IsPadItr, l
  <1>10. ASSUME Base64!validate(chars) PROVE Base64!WellFormed(chars)
    <2>1. l + 1 - p <= 2 /\ \A i \in p..l : chars[i] = Base64!PADDING
      BY <1>7, <1>10
    <2>2. ASSUME NEW i \in 1..l, chars[i] = Base64!PADDING
          PROVE  i = l \/ (i = l - 1 /\ chars[i + 1] = Base64!PADDING)
      <3>1. i \in p..l
        BY <1>1, <1>4, <1>9, <2>2
      <3>2. i # l => i = l - 1 /\ i + 1 \in p..l
        BY <1>1, <1>4, <2>1, <3>1
      <3>3. i # l => chars[i + 1] = Base64!PADDING
        BY <2>1, <3>2, Zenon
      <3> QED
        BY <3>2, <3>3
    <2> QED
      BY <1>7, <1>8, <1>10, <2>2
  <1>11. ASSUME Base64!WellFormed(chars)
         PROVE  /\ l % 4 = 0 /\ \A i \in 1..l : chars[i] # Base64!INVALID
                /\ l + 1 - p <= 2 /\ \A i \in p..l : chars[i] = Base64!PADDING
    <2>1. /\ l % 4 = 0
          /\ \A i \in 1..l : /\ chars[i] # Base64!INVALID
                             /\ chars[i] = Base64!PADDING => \/ i = l
                                                             \/ i = l - 1 /\ chars[i + 1] = Base64!PADDING
      BY <1>8, <1>11
    <2>2. CASE p = l + 1
      BY <1>1, <2>1, <2>2
    <2>3. CASE p # l + 1
      <3>1. p \in 1..l /\ chars[p] = Base64!PADDING
        BY <1>1, <1>4, <1>9, <2>3
      <3>2. p = l \/ (p = l - 1 /\ chars[p + 1] = Base64!PADDING)
        BY <2>1, <3>1
      <3>3. \A i \in p..l : i = p \/ (p = l - 1 /\ i = p + 1)
        BY <1>1, <3>1, <3>2
      <3>4. \A i \in p..l : chars[i] = Base64!PADDING
        BY <3>1, <3>2, <3>3
      <3>5. l + 1 - p <= 2
        BY <1>1, <3>1, <3>2
      <3> QED
        BY <2>1, <3>4, <3>5
    <2> QED
      BY <2>2, <2>3
  <1>12. ASSUME Base64!WellFormed(chars) PROVE Shape(chars, l \div 4, p - 1)
    <2> DEFINE g == l \div 4
    <2>1. g \in Nat /\ l = 4 * g
      BY <1>1, <1>11, <1>12, SMTT(30)
    <2> HIDE DEF g
    <2>2. ASSUME NEW i \in 1..4 * g
          PROVE  IF i <= p - 1 THEN chars[i] \in Sextets ELSE chars[i] = Base64!PADDING
      <3>1. i \in 1..l /\ chars[i] \in 0..65 /\ chars[i] # Base64!INVALID
        BY <1>1, <1>11, <1>12, <2>1
      <3>2. CASE i <= p - 1
        <4>1. chars[i] # Base64!PADDING
          BY <1>4, <1>9, <3>1, <3>2, <1>1
        <4> QED
          BY <3>1, <3>2, <4>1 DEF Sextets, Base64!PADDING, Base64!INVALID
      <3>3. CASE ~(i <= p - 1)
        <4>1. i \in p..l
          BY <1>1, <1>4, <3>1, <3>3
        <4> QED
          BY <1>11, <1>12, <3>3, <4>1
      <3> QED
        BY <3>2, <3>3
    <2>3. p - 1 \in Nat /\ p - 1 <= 4 * g /\ 4 * g <= (p - 1) + 2
      BY <1>1, <1>4, <1>11, <1>12, <2>1
    <2>4. Len(chars) = 4 * g /\ DOMAIN chars = 1..4 * g /\ chars = [i \in 1..4 * g |-> chars[i]]
      BY <1>1, <2>1, LenProperties DEF l
    <2>5. Shape(chars, g, p - 1)
      BY <2>1, <2>2, <2>3, <2>4, Zenon DEF Shape
    <2> QED
      BY <2>5 DEF g
  <1> QED
    BY <1>7, <1>10, <1>11, <1>12

\* A text of a shape is well-formed.
LEMMA ShapesAreWellFormed ==
    ASSUME NEW chars, NEW g, NEW c, Shape(chars, g, c)
    PROVE  Base64!WellFormed(chars) /\ chars \in Seq(0..Base64!PADDING)
  <1>1. g \in Nat /\ c \in Nat /\ c <= 4 * g /\ 4 * g <= c + 2 /\ Len(chars) = 4 * g /\ DOMAIN chars = 1..4 * g
    BY DEF Shape
  <1>2. (4 * g) % 4 = 0
    BY <1>1, SMTT(30)
  <1>3. ASSUME NEW i \in 1..4 * g
        PROVE  /\ chars[i] # Base64!INVALID
               /\ chars[i] = Base64!PADDING => \/ i = 4 * g
                                               \/ i = 4 * g - 1 /\ chars[i + 1] = Base64!PADDING
               /\ chars[i] \in 0..Base64!PADDING
    <2>1. CASE i <= c
      <3>1. chars[i] \in 0..63
        BY <2>1 DEF Shape, Sextets
      <3> QED
        BY <3>1 DEF Base64!PADDING, Base64!INVALID
    <2>2. CASE ~(i <= c)
      <3>1. \A j \in 1..4 * g : ~(j <= c) => chars[j] = Base64!PADDING
        BY DEF Shape
      <3>2. i = 4 * g \/ (i = 4 * g - 1 /\ i + 1 \in 1..4 * g /\ ~(i + 1 <= c))
        BY <1>1, <2>2
      <3>3. chars[i] = 65
        BY <2>2, <3>1 DEF Base64!PADDING
      <3> QED
        BY <3>1, <3>2, <3>3 DEF Base64!PADDING, Base64!INVALID
    <2> QED
      BY <2>1, <2>2
  <1>4. Base64!WellFormed(chars)
    BY <1>1, <1>2, <1>3, Zenon DEF Base64!WellFormed
  <1>5. chars = [i \in 1..4 * g |-> chars[i]]
    BY DEF Shape
  <1>6. chars \in Seq(0..Base64!PADDING)
    <2>1. \A i \in 1..4 * g : chars[i] \in 0..Base64!PADDING
      BY <1>3
    <2>2. chars \in [1..4 * g -> 0..Base64!PADDING]
      BY <1>5, <2>1, Zenon
    <2>3. 4 * g \in Nat
      BY <1>1
    <2> QED
      BY <2>2, <2>3, SeqDef, Zenon
  <1> QED
    BY <1>4, <1>6
\* What is decoded of a well-formed text has its bits.
LEMMA ShapesAreDecoded ==
    ASSUME NEW chars, NEW g, NEW c, Shape(chars, g, c)
    PROVE  /\ Base64!Decodes(chars, Base64!decode(chars))
           /\ Base64!target_decoded_length(chars) = (3 * c) \div 4 /\ (3 * c) \div 4 = 3 * g - (4 * g - c)
  <1> DEFINE n == 3 * g - (4 * g - c)
             bytes == Base64!decode(chars)
             symbols == {i \in DOMAIN chars : chars[i] # Base64!PADDING}
  <1>1. g \in Nat /\ c \in Nat /\ c <= 4 * g /\ 4 * g <= c + 2
    BY DEF Shape
  <1>2. (3 * c) \div 4 = n /\ (6 * c) \div 8 = n /\ n \in Int /\ 8 * n <= 6 * c /\ n <= 3 * g
    BY <1>1, SMTT(30)
  <1>3. Base64!source_length_unpadded(chars) = c
    BY ShapeLength
  <1>4. Base64!Cardinality(symbols) = c
    BY <1>3, Zenon DEF Base64!source_length_unpadded
  <1>5. PICK S, B : /\ Groups(S, B, g) /\ \A i \in 1..c : S[i] = chars[i]
                    /\ bytes = [i \in 1..n |-> B[i]]
    BY DecoderReads
  <1>6. n \in Nat
    <2>1. c = 0 => g = 0
      BY <1>1
    <2> QED
      BY <1>1, <2>1
  <1> HIDE DEF n, bytes
  <1>7. Len(bytes) = n /\ DOMAIN bytes = 1..n /\ \A i \in 1..n : bytes[i] = B[i]
    BY <1>5, <1>6
  <1>8. \A i \in DOMAIN bytes : bytes[i] \in 0..255
    BY <1>1, <1>2, <1>5, <1>6, <1>7 DEF Groups, Octets
  <1>9. ASSUME NEW j \in 1..8 * Len(bytes)
        PROVE  Base64!BitAt(bytes, 8, j) = Base64!BitAt(chars, 6, j)
    <2>1. j \in 1..8 * n /\ j \in 1..6 * c /\ j \in 1..24 * g
      BY <1>1, <1>2, <1>6, <1>7
    <2>2. Agree(bytes, B, n) /\ Agree(S, chars, c)
      BY <1>5, <1>7 DEF Agree
    <2>3. Base64!BitAt(bytes, 8, j) = Base64!BitAt(B, 8, j)
      BY <1>6, <2>1, <2>2, SameBits
    <2>4. Base64!BitAt(S, 6, j) = Base64!BitAt(chars, 6, j)
      BY <1>1, <2>1, <2>2, SameBits
    <2>5. Base64!BitAt(S, 6, j) = Base64!BitAt(B, 8, j)
      BY <1>1, <1>5, <2>1, BitsOfGroups
    <2> QED
      BY <2>3, <2>4, <2>5
  <1>10. Len(bytes) = (6 * Base64!Cardinality(symbols)) \div 8
    BY <1>2, <1>4, <1>7
  <1>11. Base64!Decodes(chars, bytes)
    BY <1>8, <1>9, <1>10, Zenon DEF Base64!Decodes
  <1>12. Base64!target_decoded_length(chars) = (3 * c) \div 4
    BY <1>3, Zenon DEF Base64!target_decoded_length
  <1> QED
    BY <1>2, <1>11, <1>12 DEF bytes, n

\* An element's own byte.
LEMMA ByteOf ==
    ASSUME NEW b \in Int
    PROVE  b % 256 \in Octets /\ (b \in Octets => ~(b < 0) /\ b % 256 = b)
  <1>1. b % 256 \in 0..255
    BY SMTT(30)
  <1>2. ASSUME b \in 0..255 PROVE ~(b < 0) /\ b % 256 = b
    <2>1. 0 <= b /\ b < 256
      BY <1>2
    <2> QED
      BY <2>1, SMTT(30)
  <1> QED
    BY <1>1, <1>2 DEF Octets

\* What the elements of a container are spelt as, one by one.
LEMMA SpeltElements ==
    ASSUME NEW buffer \in Seq(Int)
    PROVE  /\ DOMAIN Base64!Spelt(buffer) = 1..Len(buffer)
           /\ Base64!Spelt(buffer) = [i \in 1..Len(buffer) |-> Base64!Spelt(buffer)[i]]
           /\ \A i \in 1..Len(buffer) :
                Base64!Spelt(buffer)[i] =
                  IF \E j \in i + 1..Len(buffer) : (j - 1) \div 3 = (i - 1) \div 3 /\ buffer[j] < 0
                  THEN 255 ELSE buffer[i] % 256
  <1>1. DOMAIN buffer = 1..Len(buffer)
    BY LenProperties
  <1> QED
    BY <1>1 DEF Base64!Spelt

\* The elements of a container are encoded as the bytes that it is spelt as.
LEMMA SpeltBytes ==
    ASSUME NEW buffer \in Seq(Int)
    PROVE  /\ Base64!Spelt(buffer) \in Seq(Octets) /\ Len(Base64!Spelt(buffer)) = Len(buffer)
           /\ buffer \in Seq(Octets) => Base64!Spelt(buffer) = buffer
  <1> DEFINE n == Len(buffer)
             spelt == Base64!Spelt(buffer)
  <1>1. n \in Nat /\ DOMAIN buffer = 1..n /\ (\A i \in 1..n : buffer[i] \in Int)
        /\ buffer = [i \in 1..n |-> buffer[i]]
    BY LenProperties
  <1>2. /\ DOMAIN spelt = 1..n /\ spelt = [i \in 1..n |-> spelt[i]]
        /\ \A i \in 1..n :
             spelt[i] = IF \E j \in i + 1..n : (j - 1) \div 3 = (i - 1) \div 3 /\ buffer[j] < 0
                        THEN 255 ELSE buffer[i] % 256
    BY SpeltElements
  <1>3. buffer \in Seq(Octets) => \A i \in 1..n : buffer[i] \in Octets
    BY LenProperties
  <1> HIDE DEF spelt, n
  <1>4. ASSUME NEW i \in 1..n PROVE spelt[i] \in Octets
    <2> DEFINE b == buffer[i]
    <2>1. b \in Int /\ (spelt[i] = 255 \/ spelt[i] = b % 256)
      BY <1>1, <1>2
    <2> HIDE DEF b
    <2>2. b % 256 \in Octets /\ 255 \in Octets
      BY <2>1, ByteOf DEF Octets
    <2> QED
      BY <2>1, <2>2
  <1>5. ASSUME buffer \in Seq(Octets), NEW i \in 1..n PROVE spelt[i] = buffer[i]
    <2>1. ASSUME NEW j \in i + 1..n PROVE ~(buffer[j] < 0)
      <3>1. j \in 1..n
        BY <1>1
      <3> DEFINE b == buffer[j]
      <3>2. b \in Octets
        BY <1>3, <1>5, <3>1
      <3> HIDE DEF b
      <3>3. ~(b < 0)
        BY <3>2, ByteOf DEF Octets
      <3> QED
        BY <3>3 DEF b
    <2> DEFINE b == buffer[i]
    <2>2. b \in Octets /\ spelt[i] = b % 256
      BY <1>2, <1>3, <1>5, <2>1
    <2> HIDE DEF b
    <2>3. spelt[i] = b
      BY <2>2, ByteOf DEF Octets
    <2> QED
      BY <2>3 DEF b
  <1>6. spelt \in [1..n -> Octets]
    BY <1>2, <1>4
  <1>7. spelt \in Seq(Octets)
    BY <1>1, <1>6, SeqDef
  <1>8. Len(spelt) = n
    BY <1>1, <1>2, <1>7, LenProperties
  <1>9. buffer \in Seq(Octets) => spelt = buffer
    BY <1>1, <1>2, <1>5
  <1> QED
    BY <1>7, <1>8, <1>9 DEF spelt, n

LEMMA SpeltFragment ==
    ASSUME NEW buffer \in Seq(Int), NEW m \in Nat, NEW count \in 0..3,
           3 * m + count <= Len(buffer), count = 3 \/ 3 * m + count = Len(buffer)
    PROVE  Base64!Gather(buffer, 3 * m, count) = Base64!Gather(Base64!Spelt(buffer), 3 * m, count)
  <1> DEFINE n == Len(buffer)
             from == 3 * m
             spelt == Base64!Spelt(buffer)
             Covered(i) == \E j \in i + 1..count : buffer[from + j] < 0
             Read(i) == IF Covered(i) THEN 255 ELSE buffer[from + i] % 256
  <1>1. n \in Nat /\ from \in Nat /\ DOMAIN buffer = 1..n /\ (\A i \in 1..n : buffer[i] \in Int)
    BY LenProperties
  <1>2. \A i \in 1..n :
           spelt[i] = IF \E j \in i + 1..n : (j - 1) \div 3 = (i - 1) \div 3 /\ buffer[j] < 0
                      THEN 255 ELSE buffer[i] % 256
    BY SpeltElements
  <1>3. \A i \in 1..n : spelt[i] \in Octets
    <2>1. spelt \in Seq(Octets) /\ Len(spelt) = n
      BY SpeltBytes
    <2> HIDE DEF spelt
    <2> QED
      BY <2>1, LenProperties
  <1>4. from + count <= n /\ (count = 3 \/ from + count = n)
    OBVIOUS
  <1>5. \A j \in Int : (j - 1) \div 3 = m <=> j \in from + 1..from + 3
    BY SMTT(30)
  <1> HIDE DEF n, spelt, from
  <1>6. ASSUME NEW i \in 1..count
        PROVE  from + i \in 1..n /\ ((from + i) - 1) \div 3 = m
    <2> DEFINE at == from + i
    <2>1. at \in 1..n /\ at \in from + 1..from + 3
      BY <1>1, <1>4
    <2> HIDE DEF at
    <2>2. (at - 1) \div 3 = m
      BY <1>1, <1>5, <2>1
    <2> QED
      BY <2>1, <2>2 DEF at
  <1>7. ASSUME NEW i \in 1..count PROVE spelt[from + i] = Read(i)
    <2> DEFINE at == from + i
               Behind(j) == (j - 1) \div 3 = (at - 1) \div 3 /\ buffer[j] < 0
    <2>1. at \in 1..n /\ (at - 1) \div 3 = m
      BY <1>6, Zenon
    <2>2. spelt[at] = IF \E j \in at + 1..n : Behind(j) THEN 255 ELSE buffer[at] % 256
      BY <1>2, <2>1
    <2>3. ASSUME NEW j \in at + 1..n, Behind(j) PROVE Covered(i)
      <3>1. j \in Int /\ (j - 1) \div 3 = m
        BY <1>1, <2>1, <2>3
      <3>2. j \in from + 1..from + 3
        BY <1>5, <3>1
      <3> DEFINE k == j - from
      <3>3. k \in i + 1..count /\ j = from + k
        BY <1>1, <1>4, <3>2
      <3> HIDE DEF k
      <3> QED
        BY <2>3, <3>3
    <2>4. ASSUME NEW j \in i + 1..count, buffer[from + j] < 0 PROVE \E k \in at + 1..n : Behind(k)
      <3>1. j \in 1..count
        OBVIOUS
      <3>2. ((from + j) - 1) \div 3 = m
        BY <1>6, <3>1, Zenon
      <3>3. from + j \in at + 1..n
        BY <1>1, <1>4, <3>1
      <3>4. Behind(from + j)
        BY <2>1, <2>4, <3>2, Zenon
      <3> HIDE DEF Behind, at
      <3> QED
        BY <3>3, <3>4
    <2>5. (\E j \in at + 1..n : Behind(j)) <=> Covered(i)
      BY <2>3, <2>4
    <2> HIDE DEF Behind, Covered
    <2> QED
      BY <2>2, <2>5
  <1>8. ASSUME NEW i \in 1..count PROVE spelt[from + i] \in Octets
    BY <1>3, <1>6
  <1>9. ASSUME NEW i \in 1..count PROVE ~(spelt[from + i] < 0) /\ spelt[from + i] % 256 = spelt[from + i]
    <2> DEFINE b == spelt[from + i]
    <2>1. b \in Octets
      BY <1>8
    <2> HIDE DEF b
    <2>2. ~(b < 0) /\ b % 256 = b
      BY <2>1, ByteOf DEF Octets
    <2> QED
      BY <2>2 DEF b
  <1>10. ASSUME NEW i \in 1..3, ~(i > count)
         PROVE  Read(i) = IF \E j \in i + 1..count : spelt[from + j] < 0
                          THEN 255 ELSE spelt[from + i] % 256
    <2>1. i \in 1..count /\ \A j \in i + 1..count : j \in 1..count
      BY <1>10
    <2>2. ~(\E j \in i + 1..count : spelt[from + j] < 0)
      BY <1>9, <2>1
    <2> HIDE DEF Read
    <2>3. Read(i) = spelt[from + i] % 256
      BY <1>7, <1>9, <2>1
    <2> QED
      BY <2>2, <2>3
  <1> DEFINE Reread(i) == IF \E j \in i + 1..count : spelt[from + j] < 0
                          THEN 255 ELSE spelt[from + i] % 256
             Part(i, read) == IF i > count THEN 0 ELSE read * Base64!Thirds[i]
  <1>11. ASSUME NEW i \in 1..3 PROVE Part(i, Read(i)) = Part(i, Reread(i))
    <2> HIDE DEF Read
    <2> QED
      BY <1>10
  <1>12. /\ Base64!Gather(buffer, from, count) = Part(1, Read(1)) + Part(2, Read(2)) + Part(3, Read(3))
         /\ Base64!Gather(spelt, from, count)
              = Part(1, Reread(1)) + Part(2, Reread(2)) + Part(3, Reread(3))
    BY Zenon DEF Base64!Gather
  <1> HIDE DEF Part, Read, Reread
  <1>13. Base64!Gather(buffer, from, count) = Base64!Gather(spelt, from, count)
    BY <1>11, <1>12
  <1> QED
    BY <1>13 DEF from, spelt

LEMMA SpeltText ==
    ASSUME NEW buffer \in Seq(Int)
    PROVE  Base64!base64_encode(buffer) = Base64!base64_encode(Base64!Spelt(buffer))
  <1> DEFINE n == Len(buffer)
             spelt == Base64!Spelt(buffer)
             q == n \div 3
             r == n % 3
             Round(b, k) == LET count == IF k < q THEN 3 ELSE r
                            IN  Base64!encode_fragment(Base64!Gather(b, 3 * k, count), count)
             written == 4 * q + Len(Base64!encode_fragment(0, r))
             padded == Base64!encoding_length_padded(n)
             Text(b) == [i \in 1..padded |->
                            IF i <= written THEN Round(b, (i - 1) \div 4)[((i - 1) % 4) + 1]
                            ELSE Base64!PADDING]
  <1>1. n \in Nat /\ Len(spelt) = n
    BY SpeltBytes, LenProperties
  <1>2. q \in Nat /\ r \in 0..2 /\ n = 3 * q + r
    BY <1>1, SMTT(30)
  <1>3. Base64!base64_encode(buffer) = Text(buffer) /\ Base64!base64_encode(spelt) = Text(spelt)
    BY <1>1, Zenon DEF Base64!base64_encode
  <1>4. Len(Base64!encode_fragment(0, r)) = IF r = 0 THEN 0 ELSE r + 1
    BY <1>2 DEF Base64!encode_fragment
  <1>5. ASSUME NEW i \in 1..padded, i <= written
        PROVE  Round(buffer, (i - 1) \div 4) = Round(spelt, (i - 1) \div 4)
    <2> DEFINE k == (i - 1) \div 4
               count == IF k < q THEN 3 ELSE r
    <2>1. k \in Nat /\ (k < q \/ (k = q /\ r # 0))
      <3> HIDE DEF n, padded, q, r
      <3>1. i \in Nat /\ i >= 1 /\ i <= 4 * q + (IF r = 0 THEN 0 ELSE r + 1)
        BY <1>4, <1>5
      <3> HIDE DEF written
      <3> QED
        BY <1>2, <3>1, SMTT(30)
    <2> HIDE DEF k
    <2>2. count \in 0..3 /\ 3 * k + count <= n /\ (count = 3 \/ 3 * k + count = n)
      <3> HIDE DEF n, q, r
      <3> QED
        BY <1>2, <2>1
    <2> HIDE DEF count
    <2>3. Base64!Gather(buffer, 3 * k, count) = Base64!Gather(spelt, 3 * k, count)
      BY <2>1, <2>2, SpeltFragment
    <2> QED
      BY <2>3 DEF k, count
  <1> HIDE DEF Round, written, padded
  <1> QED
    BY <1>3, <1>5

(* Texts of base64, of any length: whatever bytes there are, their text is the one
   their bits spell and they come back from it, by both overloads of the decoder; so
   does whatever string there is, but for the chars that a negative one covers; and
   whatever text there is, it is decoded if and only if it is well-formed, into the
   bytes that its symbols' bits are (base64_encode, base64_decode). *)
THEOREM BytesComeBack == TextSpec => []TextsStandForBytes
<1>1. TextInv => TextsStandForBytes
  <2> SUFFICES ASSUME TextInv PROVE TextsStandForBytes
    OBVIOUS
  <2>1. ASSUME kind \in {"bytes", "chars"}
        PROVE  LET encoded == Base64!base64_encode(text)
                   spelt == IF kind = "bytes" THEN text ELSE Base64!Spelt(text)
               IN  /\ Base64!Encodes(encoded, spelt)
                   /\ Base64!base64_decode(encoded) = spelt
                   /\ Base64!base64_decode_into(encoded, Len(text)) = [ok |-> TRUE, output |-> spelt]
    <3> DEFINE encoded == Base64!base64_encode(text)
               spelt == IF kind = "bytes" THEN text ELSE Base64!Spelt(text)
               n == Len(text)
               g == (n + 2) \div 3
               c == SymbolCount(n)
    <3>1. spelt \in Seq(Octets) /\ Len(spelt) = n /\ encoded = Base64!base64_encode(spelt)
      <4>1. text \in Seq(Int) /\ (kind = "bytes" => text \in Seq(Octets))
        <5>1. kind = "bytes" => text \in Seq(Octets)
          BY TextsAssumption DEF TextInv, Octets
        <5>2. Alphabet[kind] \subseteq Int
          BY <2>1, TextsAssumption
        <5> QED
          BY <5>1, <5>2, SeqMonotonic, Zenon DEF TextInv
      <4>2. Base64!Spelt(text) \in Seq(Octets) /\ Len(Base64!Spelt(text)) = n
        BY <4>1, SpeltBytes
      <4>3. encoded = Base64!base64_encode(Base64!Spelt(text))
        BY <4>1, SpeltText
      <4>4. spelt = Base64!Spelt(text)
        BY <4>1, SpeltBytes
      <4> QED
        BY <4>2, <4>3, <4>4, Zenon
    <3> HIDE DEF spelt
    <3>2. n \in Nat /\ spelt = [i \in 1..n |-> spelt[i]]
      BY <3>1, LenProperties
    <3>3. Shape(encoded, g, c) /\ Base64!Encodes(encoded, spelt)
      BY <3>1, EncodingIsSpelled, Zenon
    <3>4. Base64!decode(encoded) = spelt
      BY <3>1, DecodedIsSource
    <3> HIDE DEF n
    <3>5. (3 * c) \div 4 = n
      BY <3>2, Lengths, Zenon
    <3>6. g = 0 => n = 0
      BY <3>2, SMTT(30)
    <3> HIDE DEF encoded, g, c
    <3>7. Base64!validate(encoded)
      BY <3>3, ShapesAreWellFormed, ValidTexts
    <3>8. Base64!target_decoded_length(encoded) = n
      BY <3>3, <3>5, ShapesAreDecoded
    <3>9. Len(encoded) = 0 => n = 0
      BY <3>3, <3>6 DEF Shape
    <3>10. n = 0 => spelt = <<>>
      BY <3>2
    <3>11. Base64!base64_decode(encoded) = spelt
      BY <3>4, <3>7, <3>9, <3>10 DEF Base64!base64_decode
    <3>12. Base64!base64_decode_into(encoded, n) = [ok |-> TRUE, output |-> spelt]
      <4>1. CASE n = 0
        <5>1. [i \in 1..n |-> 0] = spelt
          BY <3>10, <4>1
        <5>2. n # Base64!Dynamic
          BY <4>1 DEF Base64!Dynamic
        <5> QED
          BY <3>8, <4>1, <5>1, <5>2 DEF Base64!base64_decode_into
      <4>2. CASE n # 0
        BY <3>4, <3>7, <3>8, <4>2 DEF Base64!base64_decode_into
      <4> QED
        BY <4>1, <4>2
    <3> QED
      BY <3>3, <3>11, <3>12 DEF encoded, n, spelt
  <2>2. ASSUME kind = "base64"
        PROVE  LET into == Base64!base64_decode_into(text, Base64!Dynamic)
                   Stands(bytes) == IF Base64!WellFormed(text) THEN Base64!Decodes(text, bytes)
                                                               ELSE bytes = <<>>
               IN  /\ Stands(Base64!base64_decode(text))
                   /\ into.ok => Stands(into.output)
                   /\ Base64!target_decoded_length(text) > 0 => (into.ok <=> Base64!WellFormed(text))
    <3> DEFINE into == Base64!base64_decode_into(text, Base64!Dynamic)
               Stands(bytes) == IF Base64!WellFormed(text) THEN Base64!Decodes(text, bytes)
                                                           ELSE bytes = <<>>
               target == Base64!target_decoded_length(text)
    <3>1. text \in Seq(0..Base64!PADDING)
      BY <2>2, TextsAssumption DEF TextInv, Base64!PADDING
    <3>2. /\ Base64!validate(text) <=> Base64!WellFormed(text)
          /\ Base64!WellFormed(text) => \E g, c : Shape(text, g, c)
      BY <3>1, ValidTexts
    <3>3. ASSUME Base64!WellFormed(text)
          PROVE  /\ Base64!Decodes(text, Base64!decode(text))
                 /\ target \in Int
                 /\ target = 0 \/ Len(text) = 0 => Base64!decode(text) = <<>>
      <4>1. PICK g, c : Shape(text, g, c)
        BY <3>2, <3>3
      <4>2. /\ Base64!Decodes(text, Base64!decode(text))
            /\ target = (3 * c) \div 4 /\ (3 * c) \div 4 = 3 * g - (4 * g - c)
        BY <4>1, ShapesAreDecoded
      <4>3. PICK S, B : Base64!decode(text) = [i \in 1..3 * g - (4 * g - c) |-> B[i]]
        BY <4>1, DecoderReads
      <4>4. Len(text) = 0 => g = 0 /\ c = 0
        BY <4>1 DEF Shape
      <4>5. g \in Nat /\ c \in Nat
        BY <4>1 DEF Shape
      <4> QED
        BY <4>2, <4>3, <4>4, <4>5
    <3>4. into = [ok |-> target = 0 \/ Base64!validate(text),
                  output |-> IF (target = 0 \/ Base64!validate(text)) /\ target # 0 THEN Base64!decode(text)
                             ELSE [i \in 1..target |-> 0]]
      BY DEF Base64!base64_decode_into
    <3> HIDE DEF into, target
    <3>5. target = 0 => [i \in 1..target |-> 0] = <<>>
      OBVIOUS
    <3>6. Stands(Base64!base64_decode(text))
      BY <3>2, <3>3 DEF Base64!base64_decode
    <3>7. into.ok => Stands(into.output)
      <4>1. CASE target = 0
        BY <3>3, <3>4, <3>5, <4>1
      <4>2. CASE target # 0
        BY <3>2, <3>3, <3>4, <4>2
      <4> QED
        BY <4>1, <4>2
    <3>8. target > 0 => (into.ok <=> Base64!WellFormed(text))
      <4>1. target > 0 => target # 0
        OBVIOUS
      <4>2. into.ok <=> target = 0 \/ Base64!validate(text)
        BY <3>4, Zenon
      <4> QED
        BY <3>2, <4>1, <4>2, Zenon
    <3> QED
      BY <3>6, <3>7, <3>8, Zenon DEF into, target
  <2> QED
    BY <2>1, <2>2, Zenon DEF TextsStandForBytes
<1> QED
  BY <1>1, TextInvHolds, PTL

---------------------------------------------------------------------------
(* Cookies *)

\* A function that is defined by its values behind each place.
Chain(f, N, Next, Base) ==
    f = [i \in 1..N |-> IF Next[i] = 0 THEN Base[i] ELSE f[Next[i]]]

LEMMA ChainExists ==
    ASSUME NEW N \in Nat, NEW Next, NEW Base,
           \A i \in 1..N : Next[i] # 0 => Next[i] \in (i + 1)..N
    PROVE  \E f : Chain(f, N, Next, Base)
<1> DEFINE From(n) == ((N - n) + 1)..N
           Up(f, n) == f = [i \in From(n) |-> IF Next[i] = 0 THEN Base[i] ELSE f[Next[i]]]
           T == {n \in Nat : n =< N => \E f : Up(f, n)}
<1>1. 0 \in T
  <2> DEFINE f == [i \in From(0) |-> 0]
  <2>1. From(0) = {}
    BY SMT
  <2>2. Up(f, 0)
    BY <2>1
  <2> QED
    BY <2>2
<1>2. ASSUME NEW n \in Nat, n \in T PROVE n + 1 \in T
  <2>1. SUFFICES ASSUME n + 1 =< N PROVE \E f : Up(f, n + 1)
    OBVIOUS
  <2>2. PICK f : Up(f, n)
    BY <1>2, <2>1
  <2> DEFINE k == N - n
             last == IF Next[k] = 0 THEN Base[k] ELSE f[Next[k]]
             g == [i \in From(n + 1) |-> IF i = k THEN last ELSE f[i]]
  <2>3. /\ k \in 1..N /\ k \notin From(n)
        /\ From(n + 1) = {k} \cup From(n)
        /\ \A i \in From(n + 1) : i \in 1..N /\ (Next[i] # 0 => Next[i] \in From(n))
    BY <2>1, SMT
  <2>4. \A i \in From(n) : f[i] = IF Next[i] = 0 THEN Base[i] ELSE f[Next[i]]
    BY <2>2, Zenon
  <2> HIDE DEF From, k
  <2>5. \A i \in From(n) : g[i] = f[i]
    BY <2>3
  <2>6. g[k] = last
    BY <2>3
  <2>7. \A i \in From(n + 1) : g[i] = IF Next[i] = 0 THEN Base[i] ELSE g[Next[i]]
    <3> SUFFICES ASSUME NEW i \in From(n + 1)
                 PROVE  g[i] = IF Next[i] = 0 THEN Base[i] ELSE g[Next[i]]
      OBVIOUS
    <3>1. Next[i] # 0 => g[Next[i]] = f[Next[i]]
      BY <2>3, <2>5
    <3>2. g[i] = IF Next[i] = 0 THEN Base[i] ELSE f[Next[i]]
      BY <2>3, <2>4, <2>5, <2>6
    <3> QED
      BY <3>1, <3>2
  <2>8. Up(g, n + 1)
    BY <2>7
  <2> QED
    BY <2>8
<1>3. N \in T
  <2> HIDE DEF T
  <2> QED
    BY <1>1, <1>2, EveryNat
<1>4. From(N) = 1..N
  OBVIOUS
<1> QED
  BY <1>3, <1>4 DEF Chain

\* The least place at or behind another that is the end or has something.
LEMMA FirstPlace ==
    ASSUME NEW N \in Nat, NEW i \in 1..N, NEW P
    PROVE  \E j \in i..N : /\ j < N => j \in P
                           /\ \A k \in i..j - 1 : k \notin P
<1> DEFINE T == {j \in i..N : j = N \/ j \in P}
<1>1. T \subseteq Nat /\ T # {}
  OBVIOUS
<1>2. PICK j \in T : \A k \in T : ~(k < j)
  BY <1>1, LeastElement
<1> QED
  BY <1>2

LEMMA CharactersDiffer ==
    /\ Handshake!space # Handshake!semicolon /\ Handshake!space # Handshake!equals
    /\ Handshake!semicolon # Handshake!equals
    /\ "n" # Handshake!space /\ "n" # Handshake!semicolon /\ "n" # Handshake!equals
  BY Zenon DEF Handshake!space, Handshake!semicolon, Handshake!equals

LEMMA FindFinds ==
    ASSUME NEW C, NEW s \in Seq(C), NEW i \in 1..Len(s) + 1, NEW c
    PROVE  LET j == Handshake!find(s, i, c)
           IN  /\ j \in i..Len(s) + 1
               /\ j =< Len(s) => s[j] = c
               /\ \A k \in i..j - 1 : s[k] # c
<1> DEFINE P == {k \in 1..Len(s) : s[k] = c}
           N == Len(s) + 1
<1>1. N \in Nat
  OBVIOUS
<1> HIDE DEF P, N
<1>2. PICK j \in i..N : (j < N => j \in P) /\ \A k \in i..j - 1 : k \notin P
  BY <1>1, FirstPlace DEF N
<1> USE DEF P, N
<1>3. /\ j =< Len(s) => s[j] = c
      /\ \A k \in i..j - 1 : s[k] # c
  BY <1>2
<1> QED
  BY <1>3, Zenon DEF Handshake!find

LEMMA FindIs ==
    ASSUME NEW C, NEW s \in Seq(C), NEW i \in 1..Len(s) + 1, NEW c, NEW j \in i..Len(s) + 1,
           j =< Len(s) => s[j] = c, \A k \in i..j - 1 : s[k] # c
    PROVE  Handshake!find(s, i, c) = j
<1> DEFINE m == Handshake!find(s, i, c)
<1>1. /\ m \in i..Len(s) + 1
      /\ m =< Len(s) => s[m] = c
      /\ \A k \in i..m - 1 : s[k] # c
  BY FindFinds
<1> QED
  BY <1>1

\* What is found behind the spaces, and what that means.
LEMMA SpacesEnd ==
    ASSUME NEW C, NEW s \in Seq(C), NEW i \in 1..Len(s) + 1
    PROVE  LET j == Handshake!remove_leading_whitespace(s, i)
           IN  /\ j \in i..Len(s) + 1
               /\ j =< Len(s) => s[j] # Handshake!space
               /\ \A k \in i..j - 1 : s[k] = Handshake!space
<1> DEFINE P == {k \in 1..Len(s) : s[k] # Handshake!space}
           N == Len(s) + 1
<1>1. N \in Nat
  OBVIOUS
<1> HIDE DEF P, N
<1>2. PICK m \in i..N : (m < N => m \in P) /\ \A k \in i..m - 1 : k \notin P
  BY <1>1, FirstPlace DEF N
<1> USE DEF P, N
<1>3. /\ m =< Len(s) => s[m] # Handshake!space
      /\ \A k \in i..m - 1 : s[k] = Handshake!space
  BY <1>2
<1> QED
  BY <1>3, Zenon DEF Handshake!remove_leading_whitespace

LEMMA SpacesAreSkipped ==
    ASSUME NEW C, NEW s \in Seq(C), NEW i \in 1..Len(s) + 1
    PROVE  /\ Handshake!remove_leading_whitespace(s, i) \in i..Len(s) + 1
           /\ i =< Len(s) /\ s[i] # Handshake!space => Handshake!remove_leading_whitespace(s, i) = i
           /\ i < Len(s) /\ s[i] = Handshake!space /\ s[i + 1] # Handshake!space
                => Handshake!remove_leading_whitespace(s, i) = i + 1
<1> DEFINE j == Handshake!remove_leading_whitespace(s, i)
<1>1. /\ j \in i..Len(s) + 1
      /\ j =< Len(s) => s[j] # Handshake!space
      /\ \A k \in i..j - 1 : s[k] = Handshake!space
  BY SpacesEnd
<1> HIDE DEF j
<1>2. i =< Len(s) /\ s[i] # Handshake!space => j = i
  BY <1>1
<1>3. i < Len(s) /\ s[i] = Handshake!space /\ s[i + 1] # Handshake!space => j = i + 1
  BY <1>1
<1> QED
  BY <1>1, <1>2, <1>3 DEF j

LEMMA MinIs ==
    ASSUME NEW T, T \subseteq Int, NEW x \in T, \A y \in T : x =< y
    PROVE  Handshake!Min(T) = x
<1> DEFINE m == Handshake!Min(T)
<1>1. m \in T /\ \A y \in T : m =< y
  BY Zenon DEF Handshake!Min
<1> HIDE DEF m
<1>2. m =< x /\ x =< m /\ m \in Int /\ x \in Int
  BY <1>1
<1> QED
  BY <1>2 DEF m

\* Where a pair ends, and where the next begins.
LEMMA PairByPair ==
    ASSUME NEW C, NEW s \in Seq(C), Handshake!AreCookies(s),
           NEW p \in Handshake!Begins(s)
    PROVE  LET e == Handshake!find(s, p, Handshake!semicolon)
           IN  /\ p \in 1..Len(s) /\ e \in (p + 1)..Len(s) + 1 /\ Handshake!End(s, p) = e
               /\ s[p] # Handshake!space /\ s[p] # Handshake!equals /\ s[p] # Handshake!semicolon
               /\ \E i \in p..e - 1 : s[i] = Handshake!equals
               /\ e < Len(s) => e + 2 \in Handshake!Begins(s) /\ e + 2 =< Len(s) /\ s[e + 1] = Handshake!space
               /\ \A q \in Handshake!Begins(s) : q > p => e < Len(s) /\ q >= e + 2
<1> DEFINE e == Handshake!find(s, p, Handshake!semicolon)
           N == Len(s) + 1
           S == Handshake!Semicolons(s)
<1>1. \A q \in Handshake!Begins(s) : q \in 1..N /\ (q = 1 \/ (q - 2 \in S /\ q - 2 < Len(s)))
  BY SMT DEF Handshake!Begins, Handshake!Semicolons
<1>2. \A q \in 1..N : Handshake!End(s, q) = Handshake!find(s, q, Handshake!semicolon)
  <2> SUFFICES ASSUME NEW q \in 1..N
               PROVE  Handshake!End(s, q) = Handshake!find(s, q, Handshake!semicolon)
    OBVIOUS
  <2> DEFINE j == Handshake!find(s, q, Handshake!semicolon)
             T == {i \in S : i >= q} \cup {Len(s) + 1}
  <2>1. /\ j \in q..Len(s) + 1
        /\ j =< Len(s) => s[j] = Handshake!semicolon
        /\ \A k \in q..j - 1 : s[k] # Handshake!semicolon
    BY FindFinds
  <2> HIDE DEF j
  <2>2. T \subseteq Int /\ j \in T /\ \A y \in T : j =< y
    BY <2>1 DEF Handshake!Semicolons
  <2>3. Handshake!Min(T) = j
    <3> HIDE DEF T
    <3> QED
      BY <2>2, MinIs
  <2> QED
    BY <2>3, Zenon DEF Handshake!End, j
<1>3. \A q \in Handshake!Begins(s) : /\ q < Handshake!End(s, q) /\ s[q] # Handshake!space /\ s[q] # Handshake!equals
                                      /\ \E i \in q..Handshake!End(s, q) - 1 : s[i] = Handshake!equals
  BY DEF Handshake!AreCookies
<1>4. /\ e \in p..N
      /\ e =< Len(s) => s[e] = Handshake!semicolon
      /\ \A k \in p..e - 1 : s[k] # Handshake!semicolon
  <2>1. p \in 1..N
    BY <1>1
  <2> QED
    BY <2>1, FindFinds
<1>5. p < e /\ Handshake!End(s, p) = e /\ p \in 1..Len(s) /\ e \in (p + 1)..N
  BY <1>1, <1>2, <1>3, <1>4
<1>6. s[p] # Handshake!space /\ s[p] # Handshake!equals /\ s[p] # Handshake!semicolon /\ \E i \in p..e - 1 : s[i] = Handshake!equals
  BY <1>3, <1>4, <1>5
<1> HIDE DEF e
<1>7. ASSUME e < Len(s)
      PROVE  e + 2 \in Handshake!Begins(s) /\ e + 2 =< Len(s) /\ s[e + 1] = Handshake!space
  <2>1. e \in S
    BY <1>4, <1>5, <1>7 DEF Handshake!Semicolons
  <2>2. e + 2 \in Handshake!Begins(s)
    BY <1>7, <2>1 DEF Handshake!Begins
  <2>3. Handshake!find(s, e + 2, Handshake!semicolon) \in (e + 2)..N /\ e + 2 \in 1..N
    BY <1>1, <2>2, FindFinds
  <2>4. e + 2 < Handshake!End(s, e + 2)
    BY <1>3, <2>2
  <2>5. e + 2 =< Len(s)
    BY <1>2, <1>5, <2>3, <2>4
  <2>6. s[e + 1] = Handshake!space
    BY <1>7, <2>1 DEF Handshake!AreCookies
  <2> QED
    BY <2>2, <2>5, <2>6
<1>8. ASSUME NEW q \in Handshake!Begins(s), q > p
      PROVE  e < Len(s) /\ q >= e + 2
  <2>1. q \in 1..N /\ q - 2 \in S /\ q - 2 < Len(s)
    BY <1>1, <1>5, <1>8
  <2>2. s[q - 2] = Handshake!semicolon
    BY <2>1 DEF Handshake!Semicolons
  <2>3. q - 2 >= p \/ q = p + 1
    BY <1>5, <1>8, <2>1
  <2>4. CASE q - 2 >= p
    <3>1. q - 2 >= e
      BY <1>4, <2>1, <2>2, <2>4, <1>5
    <3> QED
      BY <2>1, <3>1, <1>5
  <2>5. CASE q = p + 1
    <3>1. p - 1 \in S /\ p - 1 < Len(s) /\ p - 1 \in 1..Len(s)
      BY <2>1, <2>5, <1>5 DEF Handshake!Semicolons
    <3>2. s[(p - 1) + 1] = Handshake!space
      BY <3>1 DEF Handshake!AreCookies
    <3> QED
      BY <3>2, <1>5, <1>6
  <2> QED
    BY <2>3, <2>4, <2>5
<1> QED
  BY <1>5, <1>6, <1>7, <1>8 DEF e

\* Where the pair at p is of S its value, where it is not what is at the next pair.
Follows(s, S, V) ==
    \A p \in Handshake!Begins(s) :
        LET e == Handshake!find(s, p, Handshake!semicolon)
        IN  V[p] = IF p \in S THEN Handshake!ValueAt(s, p)
                   ELSE IF e < Len(s) THEN V[e + 2] ELSE <<>>

\* Whoever goes from pair to pair until there is one of S finds the first of S.
LEMMA FirstIsFound ==
    ASSUME NEW C, NEW s \in Seq(C), s # <<>>, Handshake!AreCookies(s),
           NEW S, S \subseteq Handshake!Begins(s), NEW V, Follows(s, S, V)
    PROVE  V[1] = Handshake!FirstValue(s, S)
<1> DEFINE B == Handshake!Begins(s)
           n == Len(s)
           e(p) == Handshake!find(s, p, Handshake!semicolon)
           Behind(p) == {q \in S : q >= p}
           T == {d \in Nat : \A p \in B : n - p =< d => V[p] = Handshake!FirstValue(s, Behind(p))}
<1>1. \A p \in B : /\ p \in 1..Len(s) /\ e(p) \in (p + 1)..Len(s) + 1
                   /\ e(p) < Len(s) => e(p) + 2 \in B
                   /\ \A q \in B : q > p => e(p) < Len(s) /\ q >= e(p) + 2
  BY PairByPair
<1>2. \A p \in B : V[p] = IF p \in S THEN Handshake!ValueAt(s, p)
                          ELSE IF e(p) < Len(s) THEN V[e(p) + 2] ELSE <<>>
  BY Zenon DEF Follows
<1> HIDE DEF B, e
<1>11. n \in Nat /\ B \subseteq 1..n
  BY <1>1
<1>12. \A p \in B : e(p) \in (p + 1)..n + 1
  BY <1>1
<1>13. \A p \in B : /\ e(p) < n => e(p) + 2 \in B
                    /\ \A q \in B : q > p => e(p) < n /\ q >= e(p) + 2
  BY <1>1
<1> HIDE DEF n
<1>3. S \subseteq B
  BY DEF B
<1>14. S \subseteq 1..n
  BY <1>11, <1>3
<1>4. ASSUME NEW p \in B,
             \A q \in B : q > p => V[q] = Handshake!FirstValue(s, Behind(q))
      PROVE  V[p] = Handshake!FirstValue(s, Behind(p))
  <2>1. CASE p \in S
    <3>1. Behind(p) \subseteq Int /\ p \in Behind(p) /\ \A q \in Behind(p) : p =< q
      <4>1. p \in Behind(p) /\ Behind(p) \subseteq S
        BY <1>11, <2>1
      <4>2. \A q \in Behind(p) : p =< q
        BY <1>11, <1>14
      <4>3. S \subseteq Int
        BY <1>14
      <4> HIDE DEF Behind
      <4> QED
        BY <4>1, <4>2, <4>3
    <3>2. Handshake!Min(Behind(p)) = p
      <4> HIDE DEF Behind
      <4> QED
        BY <3>1, MinIs
    <3> QED
      BY <1>2, <2>1, <3>1, <3>2 DEF Handshake!FirstValue
  <2>2. CASE p \notin S /\ e(p) < n
    <3>1. e(p) + 2 \in B /\ e(p) + 2 > p
      BY <1>11, <1>12, <1>13, <2>2 DEF n
    <3>2. \A q \in S : q >= p <=> q >= e(p) + 2
      <4> SUFFICES ASSUME NEW q \in S PROVE q >= p <=> q >= e(p) + 2
        OBVIOUS
      <4>1. q \in B /\ q # p /\ q \in 1..n /\ p \in 1..n /\ e(p) \in p + 1..n + 1
        BY <1>3, <1>11, <1>12, <2>2
      <4>2. q > p => q >= e(p) + 2
        BY <1>13, <4>1
      <4> QED
        BY <4>1, <4>2
    <3>3. Behind(p) = Behind(e(p) + 2)
      BY <3>2, Zenon
    <3>4. V[p] = V[e(p) + 2]
      BY <1>2, <2>2 DEF n
    <3>5. V[e(p) + 2] = Handshake!FirstValue(s, Behind(e(p) + 2))
      BY <1>4, <3>1
    <3> HIDE DEF Behind
    <3> QED
      BY <3>3, <3>4, <3>5
  <2>3. CASE p \notin S /\ ~(e(p) < n)
    <3>1. \A q \in S : ~(q >= p)
      <4> SUFFICES ASSUME NEW q \in S, q >= p PROVE FALSE
        OBVIOUS
      <4>1. q \in B /\ q # p /\ q \in 1..n /\ p \in 1..n
        BY <1>3, <1>11, <2>3
      <4>2. q > p
        BY <4>1
      <4> QED
        BY <1>13, <2>3, <4>1, <4>2
    <3>2. Behind(p) = {}
      BY <3>1, Zenon
    <3>3. V[p] = <<>>
      BY <1>2, <2>3 DEF n
    <3> HIDE DEF Behind
    <3> QED
      BY <3>2, <3>3 DEF Handshake!FirstValue
  <2> QED
    BY <2>1, <2>2, <2>3
<1> HIDE DEF Behind
<1>5. 0 \in T
  <2> SUFFICES ASSUME NEW p \in B, n - p =< 0
               PROVE  V[p] = Handshake!FirstValue(s, Behind(p))
    OBVIOUS
  <2>1. \A q \in B : ~(q > p)
    BY <1>11
  <2> QED
    BY <1>4, <2>1
<1>6. ASSUME NEW d \in Nat, d \in T PROVE d + 1 \in T
  <2> SUFFICES ASSUME NEW p \in B, n - p =< d + 1
               PROVE  V[p] = Handshake!FirstValue(s, Behind(p))
    OBVIOUS
  <2>1. \A q \in B : q > p => n - q =< d
    BY <1>11
  <2>2. \A q \in B : q > p => V[q] = Handshake!FirstValue(s, Behind(q))
    BY <1>6, <2>1
  <2> QED
    BY <1>4, <2>2
<1>7. n \in T
  <2> HIDE DEF T
  <2> QED
    BY <1>5, <1>6, <1>11, EveryNat
<1>8. 1 \in B
  BY DEF B, Handshake!Begins
<1>9. Behind(1) = S
  <2>1. \A q \in S : q >= 1
    BY <1>11, <1>14
  <2> QED
    BY <2>1, Zenon DEF Behind
<1>10. n - 1 =< n
  BY <1>11
<1> QED
  BY <1>7, <1>8, <1>9, <1>10

\* A pair with the name that is looked for, and what is behind the equals sign.
LEMMA OwnPair ==
    ASSUME NEW C, NEW s \in Seq(C), Handshake!AreCookies(s), NEW p \in Handshake!Ours(s)
    PROVE  LET e == Handshake!find(s, p, Handshake!semicolon)
           IN  /\ e \in (p + 2)..Len(s) + 1 /\ p \in 1..Len(s) - 1
               /\ Handshake!find(s, p + 2, Handshake!semicolon) = e
               /\ Handshake!find(s, p, Handshake!equals) = p + 1
               /\ Handshake!take_cookie_value(s, p + 2) = Handshake!ValueAt(s, p)
               /\ e = p + 2 <=> Handshake!ValueAt(s, p) = <<>>
<1> DEFINE e == Handshake!find(s, p, Handshake!semicolon)
<1>1. /\ p \in Handshake!Begins(s) /\ p < Len(s)
      /\ s[p] = "n" /\ s[p + 1] = Handshake!equals
  BY DEF Handshake!Ours, Handshake!HasName
<1>2. /\ p \in 1..Len(s) /\ e \in (p + 1)..Len(s) + 1 /\ Handshake!End(s, p) = e
  BY <1>1, PairByPair
<1>3. /\ e =< Len(s) => s[e] = Handshake!semicolon
      /\ \A k \in p..e - 1 : s[k] # Handshake!semicolon
  <2>1. p \in 1..Len(s) + 1
    BY <1>2
  <2> QED
    BY <2>1, FindFinds
<1> HIDE DEF e
<1>4. e # p + 1 /\ e \in (p + 2)..Len(s) + 1
  BY <1>1, <1>2, <1>3, CharactersDiffer
<1>5. Handshake!find(s, p + 2, Handshake!semicolon) = e
  <2>1. p + 2 \in 1..Len(s) + 1 /\ \A k \in (p + 2)..e - 1 : s[k] # Handshake!semicolon
    BY <1>2, <1>3, <1>4
  <2> QED
    BY <1>3, <1>4, <2>1, FindIs
<1>6. Handshake!find(s, p, Handshake!equals) = p + 1
  <2>1. p \in 1..Len(s) + 1 /\ p + 1 \in p..Len(s) + 1
    BY <1>2
  <2>2. \A k \in p..(p + 1) - 1 : s[k] # Handshake!equals
    BY <1>1, <1>2, CharactersDiffer
  <2> QED
    BY <1>1, <2>1, <2>2, FindIs
<1>7. Handshake!take_cookie_value(s, p + 2) = Handshake!ValueAt(s, p)
  BY <1>2, <1>5 DEF Handshake!take_cookie_value, Handshake!ValueAt
<1>8. e = p + 2 <=> Handshake!ValueAt(s, p) = <<>>
  <2>1. \A i \in (p + 2)..(e - 1) : s[i] \in C
    BY <1>2
  <2>2. Len(SubSeq(s, p + 2, e - 1)) = IF p + 2 <= e - 1 THEN (e - 1) - (p + 2) + 1 ELSE 0
    BY <1>2, <2>1, SubSeqProperties
  <2>3. e = p + 2 => SubSeq(s, p + 2, e - 1) = <<>>
    BY <1>2, SubSeqEmpty
  <2> QED
    BY <1>2, <1>4, <2>2, <2>3 DEF Handshake!ValueAt
<1> QED
  BY <1>1, <1>2, <1>4, <1>5, <1>6, <1>7, <1>8 DEF e

\* The function in the definition of get_auth_token.
Tokens(f, s) ==
    f = [i \in 1..Len(s) + 1 |->
            LET current == Handshake!check_auth_cookie(s, i)
            IN  IF i = Len(s) + 1 THEN <<>>
                ELSE IF current = Len(s) + 1 \/ s[current] # Handshake!semicolon
                     THEN Handshake!take_cookie_value(s, current)
                ELSE IF (Len(s) + 1) - current > 2 THEN f[current + 2]
                ELSE <<>>]

LEMMA TokensExist ==
    ASSUME NEW C, NEW s \in Seq(C)
    PROVE  \E f : Tokens(f, s)
<1> DEFINE N == Len(s) + 1
           current(i) == Handshake!check_auth_cookie(s, i)
           taken(i) == Handshake!take_cookie_value(s, current(i))
           Goes(i) == i # N /\ current(i) # N /\ s[current(i)] = Handshake!semicolon /\ N - current(i) > 2
           Next == [i \in 1..N |-> IF Goes(i) THEN current(i) + 2 ELSE 0]
           Base == [i \in 1..N |-> IF i # N /\ (current(i) = N \/ s[current(i)] # Handshake!semicolon)
                                   THEN taken(i) ELSE <<>>]
<1>1. N \in Nat
  OBVIOUS
<1>2. \A i \in 1..N : current(i) \in i..N
  <2> SUFFICES ASSUME NEW i \in 1..N PROVE current(i) \in i..N
    OBVIOUS
  <2>1. Handshake!find(s, i, Handshake!semicolon) \in i..N
    BY FindFinds
  <2> QED
    BY <2>1 DEF Handshake!check_auth_cookie, Handshake!HasName
<1> HIDE DEF current, N
<1>3. \A i \in 1..N : Next[i] # 0 => Next[i] \in (i + 1)..N
  <2> SUFFICES ASSUME NEW i \in 1..N, Next[i] # 0 PROVE Next[i] \in (i + 1)..N
    OBVIOUS
  <2> HIDE DEF taken, Goes
  <2>1. Goes(i) /\ Next[i] = current(i) + 2
    OBVIOUS
  <2> HIDE DEF Next, Base
  <2>2. N - current(i) > 2
    BY <2>1, Zenon DEF Goes
  <2> QED
    BY <1>1, <1>2, <2>1, <2>2
<1>4. \E f : Chain(f, N, Next, Base)
  <2> HIDE DEF Next, Base
  <2> QED
    BY <1>1, <1>3, ChainExists
<1>5. PICK f : f = [i \in 1..N |-> IF Next[i] = 0 THEN Base[i] ELSE f[Next[i]]]
  BY <1>4, Zenon DEF Chain
<1> DEFINE g(i) == IF i = N THEN <<>>
                   ELSE IF current(i) = N \/ s[current(i)] # Handshake!semicolon THEN taken(i)
                   ELSE IF N - current(i) > 2 THEN f[current(i) + 2]
                   ELSE <<>>
<1>6. \A i \in 1..N : f[i] = g(i)
  <2> SUFFICES ASSUME NEW i \in 1..N PROVE f[i] = g(i)
    OBVIOUS
  <2>1. f[i] = IF Next[i] = 0 THEN Base[i] ELSE f[Next[i]]
    BY <1>5, Zenon
  <2> HIDE DEF taken
  <2>2. CASE Goes(i)
    <3>1. Next[i] = current(i) + 2 /\ current(i) + 2 # 0
      BY <1>2, <2>2
    <3>2. f[i] = f[current(i) + 2]
      BY <2>1, <3>1
    <3>3. g(i) = f[current(i) + 2]
      BY <2>2
    <3> QED
      BY <3>2, <3>3
  <2>3. CASE ~Goes(i)
    <3>1. Next[i] = 0 /\ Base[i] = g(i)
      BY <2>3
    <3>2. f[i] = Base[i]
      BY <2>1, <3>1
    <3> QED
      BY <3>1, <3>2
  <2> QED
    BY <2>2, <2>3
<1>7. f = [i \in 1..N |-> g(i)]
  <2>1. f = [i \in 1..N |-> f[i]]
    BY <1>5
  <2> HIDE DEF g
  <2> QED
    BY <1>6, <2>1
<1> QED
  BY <1>7, Zenon DEF Tokens, g, taken, current, N

\* get_auth_token takes the first of the cookies that have a value.
LEMMA TokenIsFound ==
    ASSUME NEW C, NEW s \in Seq(C), Handshake!AreCookies(s)
    PROVE  Handshake!get_auth_token(s) =
             Handshake!FirstValue(s, {p \in Handshake!Ours(s) : Handshake!ValueAt(s, p) # <<>>})
<1> DEFINE S == {p \in Handshake!Ours(s) : Handshake!ValueAt(s, p) # <<>>}
           f == CHOOSE f : Tokens(f, s)
           N == Len(s) + 1
           current(i) == Handshake!check_auth_cookie(s, i)
           e(p) == Handshake!find(s, p, Handshake!semicolon)
<1>1. Tokens(f, s)
  BY TokensExist, Zenon
<1>2. Handshake!get_auth_token(s) = f[1]
  BY Zenon DEF Handshake!get_auth_token, Tokens
<1> HIDE DEF f
<1>3. \A i \in 1..N : f[i] = IF i = N THEN <<>>
                             ELSE IF current(i) = N \/ s[current(i)] # Handshake!semicolon
                                  THEN Handshake!take_cookie_value(s, current(i))
                             ELSE IF N - current(i) > 2 THEN f[current(i) + 2]
                             ELSE <<>>
  BY <1>1, Zenon DEF Tokens
<1>4. N \in Nat /\ Handshake!find(s, N, Handshake!semicolon) = N
  <2>1. N \in Nat /\ N \in 1..N
    OBVIOUS
  <2> QED
    BY <2>1, FindFinds
<1>5. Handshake!take_cookie_value(s, N) = <<>>
  BY <1>4, SubSeqEmpty DEF Handshake!take_cookie_value
<1>6. CASE s = <<>>
  <2>1. Len(s) = 0
    BY <1>6
  <2>2. \A p \in Handshake!Begins(s) : ~(p < Len(s))
    BY <1>6, <2>1 DEF Handshake!Begins, Handshake!Semicolons
  <2>3. S = {}
    BY <2>2 DEF Handshake!Ours, Handshake!HasName
  <2>4. f[1] = <<>>
    <3>1. 1 = N /\ 1 \in 1..N
      BY <2>1
    <3> QED
      BY <1>3, <3>1, Zenon
  <2> QED
    BY <1>2, <2>3, <2>4 DEF Handshake!FirstValue
<1>7. CASE s # <<>>
  <2>1. Follows(s, S, f)
    <3> SUFFICES ASSUME NEW p \in Handshake!Begins(s)
                 PROVE  f[p] = IF p \in S THEN Handshake!ValueAt(s, p)
                               ELSE IF e(p) < Len(s) THEN f[e(p) + 2] ELSE <<>>
      BY Zenon DEF Follows
    <3>1. /\ p \in 1..Len(s) /\ e(p) \in (p + 1)..N /\ p \in 1..N /\ p # N
          /\ e(p) < Len(s) => e(p) + 2 =< Len(s)
      <4>1. /\ p \in 1..Len(s) /\ e(p) \in (p + 1)..N
            /\ e(p) < Len(s) => e(p) + 2 =< Len(s)
        BY PairByPair, Zenon
      <4> HIDE DEF e, current, S
      <4> QED
        BY <4>1
    <3>2. e(p) =< Len(s) => s[e(p)] = Handshake!semicolon
      BY <3>1, FindFinds
    <3>3. f[p] = IF current(p) = N \/ s[current(p)] # Handshake!semicolon
                      THEN Handshake!take_cookie_value(s, current(p))
                 ELSE IF N - current(p) > 2 THEN f[current(p) + 2]
                 ELSE <<>>
      BY <1>3, <3>1
    <3>4. CASE p \in Handshake!Ours(s) /\ Handshake!ValueAt(s, p) # <<>>
      <4>1. /\ e(p) \in (p + 2)..N /\ e(p) # p + 2
            /\ Handshake!take_cookie_value(s, p + 2) = Handshake!ValueAt(s, p)
        BY <3>4, OwnPair
      <4>2. current(p) = p + 2
        BY <3>4 DEF Handshake!Ours, Handshake!check_auth_cookie
      <4>3. s[p + 2] # Handshake!semicolon
        <5>1. \A k \in p..e(p) - 1 : s[k] # Handshake!semicolon
          BY <3>1, FindFinds
        <5> HIDE DEF e
        <5> QED
          BY <3>1, <4>1, <5>1
      <4>4. f[p] = Handshake!ValueAt(s, p)
        BY <3>3, <4>1, <4>2, <4>3
      <4> QED
        BY <3>4, <4>4
    <3>5. CASE ~(p \in Handshake!Ours(s) /\ Handshake!ValueAt(s, p) # <<>>)
      <4>1. current(p) = e(p)
        <5>1. CASE p \in Handshake!Ours(s)
          <6>1. e(p) = p + 2
            BY <3>5, <5>1, OwnPair
          <6> QED
            BY <5>1, <6>1 DEF Handshake!Ours, Handshake!check_auth_cookie
        <5>2. CASE p \notin Handshake!Ours(s)
          BY <5>2 DEF Handshake!Ours, Handshake!check_auth_cookie
        <5> QED
          BY <5>1, <5>2
      <4>2. p \notin S
        BY <3>5
      <4> HIDE DEF current, e, S
      <4>3. CASE e(p) = N
        <5>1. f[p] = <<>> /\ ~(e(p) < Len(s))
          BY <1>4, <1>5, <3>3, <4>1, <4>3
        <5> QED
          BY <4>2, <5>1
      <4>4. CASE e(p) # N
        <5>1. e(p) =< Len(s) /\ s[e(p)] = Handshake!semicolon /\ e(p) \in Int
          BY <3>1, <3>2, <4>4
        <5>2. f[p] = IF N - e(p) > 2 THEN f[e(p) + 2] ELSE <<>>
          BY <3>3, <4>1, <4>4, <5>1
        <5>3. e(p) < Len(s) <=> N - e(p) > 2
          BY <3>1, <5>1
        <5> QED
          BY <4>2, <5>2, <5>3
      <4> QED
        BY <4>3, <4>4
    <3> QED
      BY <3>4, <3>5
  <2>2. S \subseteq Handshake!Begins(s)
    BY DEF Handshake!Ours
  <2> HIDE DEF S
  <2>3. f[1] = Handshake!FirstValue(s, S)
    BY <1>7, <2>1, <2>2, FirstIsFound
  <2> QED
    BY <1>2, <2>3 DEF S
<1> QED
  BY <1>6, <1>7

\* The function in the definition of get_session_cookie.
Cookies(f, s) ==
    f = [i \in 1..Len(s) + 1 |->
            LET x == Handshake!remove_leading_whitespace(s, i)
            IN  IF i = Len(s) + 1 THEN <<>>
                ELSE IF Handshake!HasName(s, x)
                     THEN Handshake!take_cookie_value(s, Handshake!skip_past(s, x, Handshake!equals))
                ELSE f[Handshake!skip_past(s, Handshake!skip_past(s, x, Handshake!equals),
                                           Handshake!semicolon)]]

LEMMA SkipsOn ==
    ASSUME NEW C, NEW s \in Seq(C), NEW i \in 1..Len(s) + 1, NEW c
    PROVE  /\ Handshake!skip_past(s, i, c) \in i..Len(s) + 1
           /\ i # Len(s) + 1 => Handshake!skip_past(s, i, c) # i
<1>1. Handshake!find(s, i, c) \in i..Len(s) + 1
  BY FindFinds
<1> QED
  BY <1>1 DEF Handshake!skip_past

LEMMA CookiesExist ==
    ASSUME NEW C, NEW s \in Seq(C)
    PROVE  \E f : Cookies(f, s)
<1> DEFINE N == Len(s) + 1
           x(i) == Handshake!remove_leading_whitespace(s, i)
           value(i) == Handshake!skip_past(s, x(i), Handshake!equals)
           next(i) == Handshake!skip_past(s, value(i), Handshake!semicolon)
           taken(i) == Handshake!take_cookie_value(s, value(i))
           Ends(i) == i = N \/ Handshake!HasName(s, x(i))
           Next == [i \in 1..N |-> IF Ends(i) THEN 0 ELSE next(i)]
           Base == [i \in 1..N |-> IF i = N THEN <<>> ELSE taken(i)]
<1>1. N \in Nat
  OBVIOUS
<1>2. \A i \in 1..N : next(i) \in i..N /\ (i # N => next(i) # i)
  <2> SUFFICES ASSUME NEW i \in 1..N PROVE next(i) \in i..N /\ (i # N => next(i) # i)
    OBVIOUS
  <2>1. x(i) \in i..N
    BY SpacesAreSkipped
  <2> HIDE DEF x
  <2>2. value(i) \in x(i)..N /\ (x(i) # N => value(i) # x(i))
    BY <2>1, SkipsOn
  <2> HIDE DEF value
  <2>3. next(i) \in value(i)..N /\ (value(i) # N => next(i) # value(i))
    BY <2>1, <2>2, SkipsOn
  <2> HIDE DEF next
  <2> QED
    BY <2>1, <2>2, <2>3
<1> HIDE DEF next, taken, N
<1>3. \A i \in 1..N : Next[i] # 0 => Next[i] \in (i + 1)..N
  BY <1>1, <1>2
<1>4. \E f : Chain(f, N, Next, Base)
  <2> HIDE DEF Next, Base
  <2> QED
    BY <1>1, <1>3, ChainExists
<1>5. PICK f : f = [i \in 1..N |-> IF Next[i] = 0 THEN Base[i] ELSE f[Next[i]]]
  BY <1>4, Zenon DEF Chain
<1> DEFINE g(i) == IF i = N THEN <<>> ELSE IF Handshake!HasName(s, x(i)) THEN taken(i) ELSE f[next(i)]
<1>6. \A i \in 1..N : f[i] = g(i)
  <2> SUFFICES ASSUME NEW i \in 1..N PROVE f[i] = g(i)
    OBVIOUS
  <2>1. f[i] = IF Next[i] = 0 THEN Base[i] ELSE f[Next[i]]
    BY <1>5, Zenon
  <2>2. CASE Ends(i)
    <3>1. Next[i] = 0 /\ Base[i] = g(i)
      BY <2>2
    <3> QED
      BY <2>1, <3>1
  <2>3. CASE ~Ends(i)
    <3>1. Next[i] = next(i) /\ next(i) # 0 /\ g(i) = f[next(i)]
      BY <1>2, <2>3
    <3> QED
      BY <2>1, <3>1
  <2> QED
    BY <2>2, <2>3
<1>7. f = [i \in 1..N |-> g(i)]
  <2>1. f = [i \in 1..N |-> f[i]]
    BY <1>5
  <2> HIDE DEF g
  <2> QED
    BY <1>6, <2>1
<1> QED
  BY <1>7, Zenon DEF Cookies, g, taken, next, value, x, N

\* get_session_cookie takes the first of the cookies, with a value or without.
LEMMA CookieIsFound ==
    ASSUME NEW C, NEW s \in Seq(C), Handshake!AreCookies(s)
    PROVE  Handshake!get_session_cookie(s) = Handshake!FirstValue(s, Handshake!Ours(s))
<1> DEFINE S == Handshake!Ours(s)
           f == CHOOSE f : Cookies(f, s)
           N == Len(s) + 1
           x(i) == Handshake!remove_leading_whitespace(s, i)
           value(i) == Handshake!skip_past(s, x(i), Handshake!equals)
           next(i) == Handshake!skip_past(s, value(i), Handshake!semicolon)
           e(p) == Handshake!find(s, p, Handshake!semicolon)
           start(p) == IF p = 1 THEN 1 ELSE p - 1
           V == [p \in Handshake!Begins(s) |-> f[start(p)]]
<1>1. Cookies(f, s)
  BY CookiesExist, Zenon
<1>2. Handshake!get_session_cookie(s) = f[1]
  BY Zenon DEF Handshake!get_session_cookie, Cookies
<1> HIDE DEF f
<1>3. \A i \in 1..N : f[i] = IF i = N THEN <<>>
                             ELSE IF Handshake!HasName(s, x(i))
                                  THEN Handshake!take_cookie_value(s, value(i))
                             ELSE f[next(i)]
  BY <1>1, Zenon DEF Cookies
<1>4. N \in Nat /\ N \in 1..N /\ f[N] = <<>>
  <2>1. N \in Nat /\ N \in 1..N
    OBVIOUS
  <2> QED
    BY <1>3, <2>1, Zenon
<1>6. CASE s = <<>>
  <2>1. Len(s) = 0 /\ N = 1
    BY <1>6
  <2>2. \A p \in Handshake!Begins(s) : ~(p < Len(s))
    BY <1>6, <2>1 DEF Handshake!Begins, Handshake!Semicolons
  <2>3. S = {}
    BY <2>2 DEF Handshake!Ours, Handshake!HasName
  <2> QED
    BY <1>2, <1>4, <2>1, <2>3 DEF Handshake!FirstValue
<1>7. CASE s # <<>>
  <2>1. Follows(s, S, V)
    <3> SUFFICES ASSUME NEW p \in Handshake!Begins(s)
                 PROVE  V[p] = IF p \in S THEN Handshake!ValueAt(s, p)
                               ELSE IF e(p) < Len(s) THEN V[e(p) + 2] ELSE <<>>
      BY Zenon DEF Follows
    <3>1. /\ p \in 1..Len(s) /\ e(p) \in (p + 1)..N /\ p \in 1..N
          /\ s[p] # Handshake!space
          /\ \E i \in p..e(p) - 1 : s[i] = Handshake!equals
          /\ e(p) < Len(s) => e(p) + 2 \in Handshake!Begins(s) /\ e(p) + 2 =< Len(s)
      BY PairByPair
    <3>2. /\ e(p) =< Len(s) => s[e(p)] = Handshake!semicolon
          /\ \A k \in p..e(p) - 1 : s[k] # Handshake!semicolon
      BY <3>1, FindFinds
    <3>3. start(p) \in 1..Len(s) /\ x(start(p)) = p
      <4>1. CASE p = 1
        BY <3>1, <4>1, SpacesAreSkipped
      <4>2. CASE p # 1
        <5>1. p - 2 \in Handshake!Semicolons(s) /\ p - 2 < Len(s)
          BY <4>2 DEF Handshake!Begins, Handshake!Semicolons
        <5>2. s[(p - 2) + 1] = Handshake!space
          BY <5>1 DEF Handshake!AreCookies
        <5>3. p - 1 \in 1..Len(s) + 1 /\ p - 1 < Len(s) /\ s[p - 1] = Handshake!space
              /\ (p - 1) + 1 = p
          BY <3>1, <4>2, <5>2
        <5>4. Handshake!remove_leading_whitespace(s, p - 1) = p
          BY <3>1, <5>3, SpacesAreSkipped
        <5> QED
          BY <4>2, <5>3, <5>4
      <4> QED
        BY <4>1, <4>2
    <3>4. f[start(p)] = IF Handshake!HasName(s, p) THEN Handshake!take_cookie_value(s, value(start(p)))
                        ELSE f[next(start(p))]
      <4>1. start(p) \in 1..N /\ start(p) # N
        BY <3>3
      <4> HIDE DEF start, x
      <4> QED
        BY <1>3, <3>3, <4>1
    <3>5. CASE p \in S
      <4>1. /\ Handshake!find(s, p, Handshake!equals) = p + 1 /\ p + 1 =< Len(s)
            /\ Handshake!take_cookie_value(s, p + 2) = Handshake!ValueAt(s, p)
        BY <3>5, OwnPair
      <4>2. value(start(p)) = p + 2
        BY <3>1, <3>3, <4>1 DEF Handshake!skip_past
      <4>3. Handshake!HasName(s, p)
        BY <3>5 DEF Handshake!Ours
      <4> HIDE DEF value
      <4> QED
        BY <3>4, <3>5, <4>1, <4>2, <4>3
    <3>6. CASE p \notin S
      <4> DEFINE j == Handshake!find(s, p, Handshake!equals)
      <4>1. /\ j \in p..N
            /\ \A k \in p..j - 1 : s[k] # Handshake!equals
        BY <3>1, FindFinds
      <4>2. value(start(p)) = Handshake!skip_past(s, p, Handshake!equals)
        BY <3>3
      <4> HIDE DEF value, e
      <4>3. j < e(p)
        <5> HIDE DEF j
        <5> QED
          BY <3>1, <4>1
      <4>4. value(start(p)) = j + 1
        BY <3>1, <4>1, <4>2, <4>3 DEF Handshake!skip_past
      <4> HIDE DEF j
      <4>5. Handshake!find(s, j + 1, Handshake!semicolon) = e(p)
        <5>1. j + 1 \in 1..Len(s) + 1 /\ e(p) \in j + 1..Len(s) + 1
          BY <3>1, <4>1, <4>3
        <5>2. \A k \in j + 1..e(p) - 1 : s[k] # Handshake!semicolon
          BY <3>1, <3>2, <4>1
        <5> QED
          BY <3>2, <5>1, <5>2, FindIs
      <4>6. next(start(p)) = IF e(p) =< Len(s) THEN e(p) + 1 ELSE N
        BY <4>4, <4>5 DEF Handshake!skip_past
      <4> HIDE DEF next, start
      <4>7. f[start(p)] = f[IF e(p) =< Len(s) THEN e(p) + 1 ELSE N]
        <5>1. ~Handshake!HasName(s, p)
          BY <3>6 DEF Handshake!Ours
        <5> QED
          BY <3>4, <4>6, <5>1
      <4>8. CASE e(p) < Len(s)
        <5>1. start(e(p) + 2) = e(p) + 1
          BY <3>1, <4>8 DEF start
        <5>2. V[e(p) + 2] = f[e(p) + 1]
          BY <3>1, <4>8, <5>1
        <5>3. f[start(p)] = f[e(p) + 1]
          BY <3>1, <4>7, <4>8
        <5> QED
          BY <3>6, <4>8, <5>2, <5>3
      <4>9. CASE ~(e(p) < Len(s))
        <5>1. f[start(p)] = f[N]
          BY <3>1, <4>7, <4>9
        <5> QED
          BY <1>4, <3>6, <4>9, <5>1
      <4> QED
        BY <4>8, <4>9
    <3> QED
      BY <3>5, <3>6
  <2>2. S \subseteq Handshake!Begins(s) /\ 1 \in Handshake!Begins(s)
    BY <1>7 DEF Handshake!Ours, Handshake!Begins
  <2>3. V[1] = f[1]
    BY <2>2
  <2> HIDE DEF S, V
  <2>4. V[1] = Handshake!FirstValue(s, S)
    BY <1>7, <2>1, <2>2, FirstIsFound
  <2> QED
    BY <1>2, <2>3, <2>4 DEF S
<1> QED
  BY <1>6, <1>7

---------------------------------------------------------------------------
(* Headers *)

KeyNames == {"Sec-WebSocket-Key", "sec-websocket-key"}
CookieNames == {"Cookies", "cookies"}

LEMMA MaxIs ==
    ASSUME NEW T, T \subseteq Int, NEW x \in T, \A y \in T : y =< x
    PROVE  Handshake!Max(T) = x
<1> DEFINE m == Handshake!Max(T)
<1>1. \E z \in T : \A y \in T : z >= y
  BY SMT
<1>2. m \in T /\ \A y \in T : m >= y
  BY <1>1, Zenon DEF Handshake!Max
<1> HIDE DEF m
<1>3. m =< x /\ x =< m /\ m \in Int /\ x \in Int
  BY <1>2
<1> QED
  BY <1>3 DEF m

LEMMA ValueIsTrimmed ==
    ASSUME NEW C, NEW v \in Seq(C)
    PROVE  LET j == Handshake!remove_leading_whitespace(v, 1)
           IN  /\ Handshake!Trimmed(v) = SubSeq(v, j, Len(v))
               /\ v = <<>> \/ v[1] # Handshake!space => Handshake!Trimmed(v) = v
<1> DEFINE j == Handshake!remove_leading_whitespace(v, 1)
           T == {i \in DOMAIN v : v[i] # Handshake!space} \cup {Len(v) + 1}
<1>1. /\ j \in 1..Len(v) + 1
      /\ j =< Len(v) => v[j] # Handshake!space
      /\ \A k \in 1..j - 1 : v[k] = Handshake!space
  <2>1. 1 \in 1..Len(v) + 1
    OBVIOUS
  <2> QED
    BY <2>1, SpacesEnd
<1> HIDE DEF j
<1>2. T \subseteq Int /\ j \in T /\ \A y \in T : j =< y
  <2>1. DOMAIN v = 1..Len(v) /\ Len(v) \in Nat
    BY LenProperties
  <2>2. j = Len(v) + 1 \/ (j \in DOMAIN v /\ v[j] # Handshake!space)
    BY <1>1, <2>1
  <2>3. ASSUME NEW y \in T PROVE y \in 1..Len(v) + 1 /\ ~ (y \in 1..j - 1)
    <3>1. CASE y = Len(v) + 1
      BY <1>1, <2>1, <3>1
    <3>2. CASE y \in DOMAIN v /\ v[y] # Handshake!space
      BY <1>1, <2>1, <3>2
    <3> QED
      BY <3>1, <3>2
  <2>4. j \in T
    BY <2>2
  <2> HIDE DEF T
  <2>5. \A y \in T : y \in Int /\ j =< y
    BY <1>1, <2>1, <2>3
  <2> QED
    BY <2>4, <2>5
<1> HIDE DEF T
<1>3. Handshake!Min(T) = j
  BY <1>2, MinIs
<1>4. Handshake!Trimmed(v) = SubSeq(v, j, Len(v))
  BY <1>3, Zenon DEF Handshake!Trimmed, T
<1>5. ASSUME v = <<>> \/ v[1] # Handshake!space PROVE j = 1
  <2>1. CASE v = <<>>
    <3>1. Len(v) = 0
      BY <2>1
    <3> QED
      BY <1>1, <3>1
  <2>2. CASE v[1] # Handshake!space
    BY <1>1, <2>2
  <2> QED
    BY <1>5, <2>1, <2>2
<1>6. SubSeq(v, 1, Len(v)) = v
  BY SubSeqFull
<1> QED
  BY <1>4, <1>5, <1>6 DEF j

LEMMA ValueIsRead ==
    ASSUME NEW h, IsHeader(h)
    PROVE  Handshake!value_of(h) = Handshake!Trimmed(h.value)
<1> DEFINE v == h.value
<1>1. v \in Seq(ToSet(v))
  BY DEF IsHeader
<1> HIDE DEF v
<1>2. Handshake!Trimmed(v) = SubSeq(v, Handshake!remove_leading_whitespace(v, 1), Len(v))
  BY <1>1, ValueIsTrimmed
<1> QED
  BY <1>2, Zenon DEF Handshake!value_of, v

LEMMA HeaderIsParsed ==
    ASSUME NEW h, IsHeader(h), NEW a, NEW b
    PROVE  LET info == [websocket_key |-> a, cookies |-> b]
           IN  Handshake!parse_header(info, h) =
                 [websocket_key |-> IF h.name \in KeyNames THEN Handshake!Trimmed(h.value) ELSE a,
                  cookies |-> IF h.name \in CookieNames THEN Handshake!Trimmed(h.value) ELSE b]
<1> DEFINE info == [websocket_key |-> a, cookies |-> b]
           lower == Handshake!tolower(h.name)
           v == Handshake!value_of(h)
<1>1. v = Handshake!Trimmed(h.value)
  BY ValueIsRead
<1>2. /\ h.name \in KeyNames <=> lower = "sec-websocket-key"
      /\ h.name \in CookieNames <=> lower = "cookies"
      /\ "cookies" # "sec-websocket-key"
  BY Zenon DEF Handshake!tolower, KeyNames, CookieNames
<1>3. Handshake!parse_header(info, h) =
        CASE lower = "sec-websocket-key" -> [info EXCEPT !.websocket_key = v]
          [] lower = "cookies" -> [info EXCEPT !.cookies = v]
          [] OTHER -> info
  BY Zenon DEF Handshake!parse_header
<1> HIDE DEF lower, v
<1>4. CASE h.name \in KeyNames
  <2>1. h.name \notin CookieNames
    BY <1>2, <1>4, Zenon
  <2>2. Handshake!parse_header(info, h) = [info EXCEPT !.websocket_key = v]
    BY <1>2, <1>3, <1>4, Zenon
  <2> QED
    BY <1>1, <1>4, <2>1, <2>2
<1>5. CASE h.name \notin KeyNames /\ h.name \in CookieNames
  <2>1. Handshake!parse_header(info, h) = [info EXCEPT !.cookies = v]
    BY <1>2, <1>3, <1>5, Zenon
  <2> QED
    BY <1>1, <1>5, <2>1
<1>6. CASE h.name \notin KeyNames /\ h.name \notin CookieNames
  <2>1. Handshake!parse_header(info, h) = info
    BY <1>2, <1>3, <1>6, Zenon
  <2> QED
    BY <1>6, <2>1
<1> QED
  BY <1>4, <1>5, <1>6

\* The value of the last of the first k lines with one of the names.
LastUpTo(lines, k, names) ==
    LET ours == {i \in 1..k : lines[i].name \in names}
    IN  IF ours = {} THEN <<>> ELSE Handshake!Trimmed(lines[Handshake!Max(ours)].value)

LEMMA LastOfNone ==
    ASSUME NEW lines, NEW names
    PROVE  LastUpTo(lines, 0, names) = <<>>
<1>1. {i \in 1..0 : lines[i].name \in names} = {}
  OBVIOUS
<1> QED
  BY <1>1 DEF LastUpTo

LEMMA LastOfMore ==
    ASSUME NEW lines, NEW names, NEW k \in Nat
    PROVE  LastUpTo(lines, k + 1, names) =
             IF lines[k + 1].name \in names THEN Handshake!Trimmed(lines[k + 1].value)
             ELSE LastUpTo(lines, k, names)
<1> DEFINE Has(i) == lines[i].name \in names
           ours(n) == {i \in 1..n : Has(i)}
<1> HIDE DEF Has
<1>1. CASE Has(k + 1)
  <2>1. ours(k + 1) \subseteq Int /\ k + 1 \in ours(k + 1) /\ \A y \in ours(k + 1) : y =< k + 1
    BY <1>1
  <2>2. Handshake!Max(ours(k + 1)) = k + 1
    <3> HIDE DEF ours
    <3> QED
      BY <2>1, MaxIs
  <2>3. ours(k + 1) # {}
    BY <2>1
  <2> QED
    BY <1>1, <2>2, <2>3 DEF LastUpTo, Has
<1>2. CASE ~Has(k + 1)
  <2>1. ours(k + 1) = ours(k)
    BY <1>2
  <2> QED
    BY <1>2, <2>1, Zenon DEF LastUpTo, Has
<1> QED
  BY <1>1, <1>2

\* The function in the definition of read_headers.
ReadUpTo(f, lines) ==
    f = [k \in 0..Len(lines) |->
            IF k = 0 THEN [websocket_key |-> <<>>, cookies |-> <<>>]
            ELSE Handshake!parse_header(f[k - 1], lines[k])]
InfoOf(lines, k) ==
    [websocket_key |-> LastUpTo(lines, k, KeyNames), cookies |-> LastUpTo(lines, k, CookieNames)]

LEMMA InfoOfMore ==
    ASSUME NEW H, \A h \in H : IsHeader(h), NEW lines \in Seq(H)
    PROVE  /\ InfoOf(lines, 0) = [websocket_key |-> <<>>, cookies |-> <<>>]
           /\ \A k \in 1..Len(lines) :
                InfoOf(lines, k) = Handshake!parse_header(InfoOf(lines, k - 1), lines[k])
<1>1. InfoOf(lines, 0) = [websocket_key |-> <<>>, cookies |-> <<>>]
  BY LastOfNone DEF InfoOf
<1>2. ASSUME NEW k \in 1..Len(lines)
      PROVE  InfoOf(lines, k) = Handshake!parse_header(InfoOf(lines, k - 1), lines[k])
  <2>1. k - 1 \in Nat /\ (k - 1) + 1 = k /\ lines[k] \in H
    BY <1>2
  <2>2. IsHeader(lines[k])
    BY <2>1
  <2>3. \A names : LastUpTo(lines, (k - 1) + 1, names) =
             IF lines[(k - 1) + 1].name \in names THEN Handshake!Trimmed(lines[(k - 1) + 1].value)
             ELSE LastUpTo(lines, k - 1, names)
    BY <2>1, LastOfMore
  <2>4. \A names : LastUpTo(lines, k, names) =
             IF lines[k].name \in names THEN Handshake!Trimmed(lines[k].value)
             ELSE LastUpTo(lines, k - 1, names)
    BY <2>1, <2>3
  <2>5. Handshake!parse_header(InfoOf(lines, k - 1), lines[k]) =
          [websocket_key |-> IF lines[k].name \in KeyNames THEN Handshake!Trimmed(lines[k].value)
                             ELSE LastUpTo(lines, k - 1, KeyNames),
           cookies |-> IF lines[k].name \in CookieNames THEN Handshake!Trimmed(lines[k].value)
                       ELSE LastUpTo(lines, k - 1, CookieNames)]
    BY <2>2, HeaderIsParsed DEF InfoOf
  <2> QED
    BY <2>4, <2>5, Zenon DEF InfoOf
<1> QED
  BY <1>1, <1>2

LEMMA LinesAreRead ==
    ASSUME NEW H, \A h \in H : IsHeader(h), NEW lines \in Seq(H), NEW f,
           f = (CHOOSE g : ReadUpTo(g, lines))
    PROVE  \A k \in 0..Len(lines) : f[k] = InfoOf(lines, k)
<1> DEFINE n == Len(lines)
           none == [websocket_key |-> <<>>, cookies |-> <<>>]
           step(x, k) == Handshake!parse_header(x, lines[k])
           info(k) == InfoOf(lines, k)
           g == [k \in 0..n |-> info(k)]
<1>1. n \in Nat /\ info(0) = none /\ \A k \in 1..n : info(k) = step(info(k - 1), k)
  BY InfoOfMore
<1> HIDE DEF n, none, step, info
<1>2. \A k \in 0..n : info(k) = IF k = 0 THEN none ELSE step(g[k - 1], k)
  BY <1>1
<1>3. g = [k \in 0..n |-> IF k = 0 THEN none ELSE step(g[k - 1], k)]
  BY <1>2
<1>4. ReadUpTo(g, lines)
  <2> HIDE DEF g
  <2> QED
    BY <1>3, Zenon DEF ReadUpTo, none, step, n
<1>5. ReadUpTo(f, lines)
  <2> HIDE DEF g
  <2> QED
    BY <1>4, Zenon
<1>6. \A k \in 0..n : f[k] = IF k = 0 THEN none ELSE step(f[k - 1], k)
  BY <1>5, Zenon DEF ReadUpTo, none, step, n
<1> HIDE DEF g
<1> DEFINE T == {k \in Nat : k =< n => f[k] = info(k)}
<1>7. 0 \in T
  BY <1>1, <1>6
<1>8. ASSUME NEW k \in Nat, k \in T PROVE k + 1 \in T
  <2>1. CASE k + 1 =< n
    <3>1. k + 1 \in 0..n /\ k + 1 \in 1..n /\ k + 1 # 0 /\ (k + 1) - 1 = k /\ k =< n
      BY <1>1, <2>1
    <3>2. f[k + 1] = step(f[k], k + 1) /\ info(k + 1) = step(info(k), k + 1)
      BY <1>1, <1>6, <3>1, Zenon
    <3>3. f[k] = info(k)
      BY <1>8, <3>1
    <3>4. f[k + 1] = info(k + 1)
      BY <3>2, <3>3, Zenon
    <3> QED
      BY <3>4
  <2> QED
    BY <2>1
<1>9. Nat \subseteq T
  <2> HIDE DEF T
  <2> QED
    BY <1>7, <1>8, EveryNat
<1> QED
  BY <1>1, <1>9 DEF n, info

\* A request is read up to its first blank line, if all lines up to it fit the buffer.
LEMMA RequestIsRead ==
    ASSUME NEW H, \A h \in H : IsHeader(h), NEW lines \in Seq(H)
    PROVE  /\ (\A k \in 1..Len(lines) : lines[k] # Handshake!Blank) =>
                 Handshake!read_headers(lines) = [result |-> "rejected"]
           /\ \A b \in 1..Len(lines) :
                Handshake!IsEnd(lines, b) =>
                  Handshake!read_headers(lines) =
                    IF \A j \in 1..b : lines[j].size =< 256
                    THEN [result |-> "resolved",
                          info |-> [websocket_key |-> Handshake!LastOf(lines, KeyNames),
                                    cookies |-> Handshake!LastOf(lines, CookieNames)]]
                    ELSE [result |-> "rejected"]
<1> DEFINE f == CHOOSE g : ReadUpTo(g, lines)
           Ends == {k \in DOMAIN lines : Handshake!IsEnd(lines, k)}
           Fits(k) == \A j \in 1..k : lines[j].size =< 256
<1>1. Handshake!read_headers(lines) =
        IF \E k \in Ends : Fits(k)
        THEN [result |-> "resolved", info |-> f[(CHOOSE k \in Ends : TRUE) - 1]]
        ELSE [result |-> "rejected"]
  BY Zenon DEF Handshake!read_headers, Handshake!BufferSize, ReadUpTo
<1>2. \A k \in 0..Len(lines) : f[k] = InfoOf(lines, k)
  BY LinesAreRead, Zenon
<1>3. DOMAIN lines = 1..Len(lines) /\ Len(lines) \in Nat
  BY LenProperties
<1> HIDE DEF f, Fits
<1>4. ASSUME \A k \in 1..Len(lines) : lines[k] # Handshake!Blank
      PROVE  Handshake!read_headers(lines) = [result |-> "rejected"]
  <2>1. Ends = {}
    BY <1>3, <1>4 DEF Handshake!IsEnd
  <2> QED
    BY <1>1, <2>1
<1>5. ASSUME NEW b \in 1..Len(lines), Handshake!IsEnd(lines, b)
      PROVE  Handshake!read_headers(lines) =
               IF Fits(b)
               THEN [result |-> "resolved",
                     info |-> [websocket_key |-> Handshake!LastOf(lines, KeyNames),
                               cookies |-> Handshake!LastOf(lines, CookieNames)]]
               ELSE [result |-> "rejected"]
  <2>1. lines[b] = Handshake!Blank /\ \A j \in 1..b - 1 : lines[j] # Handshake!Blank
    BY <1>5 DEF Handshake!IsEnd
  <2> DEFINE blank == Handshake!Blank
  <2>2. Ends = {b}
    <3>1. \A k \in Ends : k \in 1..Len(lines) /\ lines[k] = Handshake!Blank
                          /\ \A j \in 1..k - 1 : lines[j] # Handshake!Blank
      BY <1>3 DEF Handshake!IsEnd
    <3>2. b \in Ends
      BY <1>3, <1>5
    <3> HIDE DEF Ends
    <3>3. \A k \in Ends : k = b
      BY <2>1, <3>1
    <3> QED
      BY <3>2, <3>3
  <2>3. (CHOOSE k \in Ends : TRUE) = b /\ ((\E k \in Ends : Fits(k)) <=> Fits(b))
    <3> HIDE DEF Ends
    <3>1. (CHOOSE k \in Ends : TRUE) \in Ends
      BY <2>2, Zenon
    <3> QED
      BY <2>2, <3>1
  <2> HIDE DEF Ends
  <2>4. f[b - 1] = InfoOf(lines, b - 1)
    BY <1>2, <1>3
  <2>5. \A names : Handshake!LastOf(lines, names) = LastUpTo(lines, b - 1, names)
    <3> DEFINE above == {i \in DOMAIN lines : \A j \in 1..i : lines[j] # Handshake!Blank}
    <3>1. above = 1..b - 1
      <4>1. \A i \in above : i \in 1..b - 1
        <5> SUFFICES ASSUME NEW i \in above PROVE i \in 1..b - 1
          OBVIOUS
        <5>1. i \in 1..Len(lines) /\ \A j \in 1..i : lines[j] # Handshake!Blank
          BY <1>3
        <5> QED
          BY <2>1, <5>1
      <4>2. \A i \in 1..b - 1 : i \in above
        BY <1>3, <2>1
      <4> HIDE DEF above
      <4> QED
        BY <4>1, <4>2
    <3> QED
      BY <3>1, Zenon DEF Handshake!LastOf, LastUpTo
  <2>6. InfoOf(lines, b - 1) = [websocket_key |-> Handshake!LastOf(lines, KeyNames),
                                cookies |-> Handshake!LastOf(lines, CookieNames)]
    BY <2>5, Zenon DEF InfoOf
  <2> QED
    BY <1>1, <2>3, <2>4, <2>6
<1> QED
  BY <1>4, <1>5 DEF Fits

\* The names that a client's request has, and where its blank line is.
LEMMA RequestNames ==
    ASSUME NEW origin, NEW token
    PROVE  LET lines == Handshake!send_handshake_request(origin, token)
           IN  /\ Len(lines) = 8 /\ lines[8] = Handshake!Blank
               /\ \A i \in 1..8 : lines[i].size = 0
               /\ \A i \in 1..7 : lines[i].name # Handshake!Blank.name
               /\ \A i \in 1..8 : lines[i].name \in KeyNames <=> i = 5
               /\ \A i \in 1..8 : lines[i].name \in CookieNames <=> i = 7
               /\ lines[2].value = origin
               /\ lines[5].value = <<"sample_key">>
               /\ lines[7].value = <<"n", Handshake!equals>> \o token \o <<Handshake!semicolon>>
               /\ \A i \in {1, 3, 4, 6, 8} : lines[i].value = <<>>
<1> DEFINE lines == Handshake!send_handshake_request(origin, token)
           cookie == <<"n", Handshake!equals>> \o token \o <<Handshake!semicolon>>
           L(name, value) == Handshake!Line(name, value)
<1>1. \A name, value : /\ L(name, value).name = name /\ L(name, value).value = value
                       /\ L(name, value).size = 0
  BY DEF Handshake!Line
<1>2. Handshake!Blank = L(Handshake!Blank.name, <<>>)
  BY <1>1, Zenon DEF Handshake!Blank
<1>3. /\ {"Host", "Origin", "Upgrade", "Connection", "Sec-WebSocket-Version"}
           \cap (KeyNames \cup CookieNames) = {}
      /\ "Sec-WebSocket-Key" \in KeyNames \ CookieNames
      /\ "Cookies" \in CookieNames \ KeyNames
  BY Zenon DEF KeyNames, CookieNames
<1>4. /\ Handshake!Blank.name \notin KeyNames \cup CookieNames
      /\ Handshake!Blank.name \notin {"Host", "Origin", "Upgrade", "Connection", "Sec-WebSocket-Key",
                                      "Sec-WebSocket-Version", "Cookies"}
  <2>1. Handshake!Blank.name = ""
    BY <1>1, Zenon DEF Handshake!Blank
  <2> QED
    BY <2>1, Zenon DEF KeyNames, CookieNames
<1> HIDE DEF L, cookie
<1>5. lines = <<L("Host", <<>>), L("Origin", origin), L("Upgrade", <<>>), L("Connection", <<>>),
                L("Sec-WebSocket-Key", <<"sample_key">>), L("Sec-WebSocket-Version", <<>>),
                L("Cookies", cookie), Handshake!Blank>>
  BY Zenon DEF Handshake!send_handshake_request, L, cookie
<1> HIDE DEF lines
<1>6. /\ lines[1] = L("Host", <<>>) /\ lines[2] = L("Origin", origin)
      /\ lines[3] = L("Upgrade", <<>>) /\ lines[4] = L("Connection", <<>>)
      /\ lines[5] = L("Sec-WebSocket-Key", <<"sample_key">>)
      /\ lines[6] = L("Sec-WebSocket-Version", <<>>)
      /\ lines[7] = L("Cookies", cookie) /\ lines[8] = Handshake!Blank /\ Len(lines) = 8
  BY <1>5
<1>7. /\ \A i \in 1..8 : lines[i].size = 0
      /\ \A i \in {1, 3, 4, 6, 8} : lines[i].value = <<>>
      /\ lines[2].value = origin /\ lines[5].value = <<"sample_key">> /\ lines[7].value = cookie
  <2>1. /\ Handshake!Blank.size = 0 /\ Handshake!Blank.value = <<>>
    BY <1>1, <1>2
  <2>2. /\ lines[1].size = 0 /\ lines[2].size = 0 /\ lines[3].size = 0 /\ lines[4].size = 0
        /\ lines[5].size = 0 /\ lines[6].size = 0 /\ lines[7].size = 0 /\ lines[8].size = 0
    BY <1>1, <1>6, <2>1, SMT
  <2>3. /\ lines[1].value = <<>> /\ lines[2].value = origin /\ lines[3].value = <<>>
        /\ lines[4].value = <<>> /\ lines[5].value = <<"sample_key">>
        /\ lines[6].value = <<>> /\ lines[7].value = cookie /\ lines[8].value = <<>>
    BY <1>1, <1>6, <2>1, SMT
  <2> QED
    BY <2>2, <2>3, SMT
<1>8. /\ lines[1].name = "Host" /\ lines[2].name = "Origin" /\ lines[3].name = "Upgrade"
      /\ lines[4].name = "Connection" /\ lines[5].name = "Sec-WebSocket-Key"
      /\ lines[6].name = "Sec-WebSocket-Version" /\ lines[7].name = "Cookies"
      /\ lines[8].name = Handshake!Blank.name
  BY <1>1, <1>6, SMT
<1>9. /\ \A i \in {1, 2, 3, 4, 6, 8} : lines[i].name \notin KeyNames /\ lines[i].name \notin CookieNames
      /\ lines[5].name \in KeyNames /\ lines[5].name \notin CookieNames
      /\ lines[7].name \in CookieNames /\ lines[7].name \notin KeyNames
      /\ \A i \in {1, 2, 3, 4, 5, 6, 7} : lines[i].name # Handshake!Blank.name
  BY <1>3, <1>4, <1>8, Zenon
<1>10. /\ \A i \in 1..8 : lines[i].name \in KeyNames <=> i = 5
       /\ \A i \in 1..8 : lines[i].name \in CookieNames <=> i = 7
       /\ \A i \in 1..7 : lines[i].name # Handshake!Blank.name
  <2>1. /\ \A i \in 1..8 : i \in {1, 2, 3, 4, 6, 8} \/ i = 5 \/ i = 7
        /\ \A i \in 1..7 : i \in {1, 2, 3, 4, 5, 6, 7}
        /\ 5 \notin {1, 2, 3, 4, 6, 8} /\ 7 \notin {1, 2, 3, 4, 6, 8} /\ 5 # 7
    BY SMT
  <2> QED
    BY <1>9, <2>1, Zenon
<1> QED
  BY <1>6, <1>7, <1>10 DEF lines, cookie

\* The server reads the key and the cookie of a client's request.
LEMMA RequestArrives ==
    ASSUME NEW C, NEW token \in Seq(C), NEW cookie,
           cookie = <<"n", Handshake!equals>> \o token \o <<Handshake!semicolon>>
    PROVE  Handshake!read_headers(Handshake!send_handshake_request(<<>>, token)) =
             [result |-> "resolved",
              info |-> [websocket_key |-> <<"sample_key">>, cookies |-> cookie]]
<1> DEFINE lines == Handshake!send_handshake_request(<<>>, token)
           H == ToSet(lines)
           D == C \cup {"n", Handshake!equals, Handshake!semicolon}
<1>1. /\ Len(lines) = 8 /\ lines[8] = Handshake!Blank
      /\ \A i \in 1..8 : lines[i].size = 0
      /\ \A i \in 1..7 : lines[i].name # Handshake!Blank.name
      /\ \A i \in 1..8 : lines[i].name \in KeyNames <=> i = 5
      /\ \A i \in 1..8 : lines[i].name \in CookieNames <=> i = 7
      /\ lines[5].value = <<"sample_key">> /\ lines[7].value = cookie
      /\ \A i \in {1, 2, 3, 4, 6, 8} : lines[i].value = <<>>
  <2>1. /\ lines[2].value = <<>> /\ \A i \in {1, 3, 4, 6, 8} : lines[i].value = <<>>
        /\ lines[7].value = cookie
    BY RequestNames
  <2>2. \A i \in {1, 2, 3, 4, 6, 8} : lines[i].value = <<>>
    BY <2>1
  <2> QED
    BY <2>1, <2>2, RequestNames
<1>2. cookie \in Seq(D) /\ cookie # <<>> /\ cookie[1] = "n"
  BY DEF D
<1>3. lines \in Seq(H)
  BY DEF Handshake!send_handshake_request, ToSet
<1>4. \A i \in 1..8 : IsHeader(lines[i])
  <2> SUFFICES ASSUME NEW i \in 1..8 PROVE IsHeader(lines[i])
    OBVIOUS
  <2> DEFINE v == lines[i].value
  <2> HIDE DEF lines
  <2>1. \A E : v \in Seq(E) => v \in Seq(ToSet(v))
    <3> HIDE DEF v
    <3> SUFFICES ASSUME NEW E, v \in Seq(E) PROVE v \in Seq(ToSet(v))
      OBVIOUS
    <3>1. \A k \in 1..Len(v) : v[k] \in ToSet(v)
      BY DEF ToSet
    <3> QED
      BY <3>1
  <2>2. \E E : v \in Seq(E)
    <3>1. CASE i = 5
      <4>1. <<"sample_key">> \in Seq({"sample_key"})
        OBVIOUS
      <4> HIDE DEF v
      <4>2. v = <<"sample_key">>
        BY <1>1, <3>1 DEF v
      <4> QED
        BY <4>1, <4>2, Zenon
    <3>2. CASE i = 7
      BY <1>1, <1>2, <3>2
    <3>3. CASE i \in {1, 2, 3, 4, 6, 8}
      BY <1>1, <3>3, EmptySeq
    <3> QED
      BY <3>1, <3>2, <3>3
  <2>3. v \in Seq(ToSet(v))
    BY <2>1, <2>2
  <2> QED
    BY <1>1, <2>3 DEF IsHeader
<1>5. \A h \in H : IsHeader(h)
  <2>1. DOMAIN lines = 1..8
    BY <1>1, <1>3
  <2> HIDE DEF lines
  <2> QED
    BY <1>4, <2>1, Zenon DEF ToSet
<1> HIDE DEF lines, H
<1>6. Handshake!IsEnd(lines, 8) /\ 8 \in 1..Len(lines) /\ \A j \in 1..8 : lines[j].size =< 256
  <2>1. \A j \in 1..7 : lines[j] # Handshake!Blank
    BY <1>1, Zenon
  <2>2. \A j \in 1..8 - 1 : lines[j] # Handshake!Blank
    BY <2>1
  <2> QED
    BY <1>1, <2>2 DEF Handshake!IsEnd
<1>7. Handshake!read_headers(lines) =
        [result |-> "resolved",
         info |-> [websocket_key |-> Handshake!LastOf(lines, KeyNames),
                   cookies |-> Handshake!LastOf(lines, CookieNames)]]
  BY <1>3, <1>5, <1>6, RequestIsRead
<1>8. ASSUME NEW names, NEW n \in 1..7, \A i \in 1..8 : lines[i].name \in names <=> i = n
      PROVE  Handshake!LastOf(lines, names) = Handshake!Trimmed(lines[n].value)
  <2> DEFINE above == {i \in DOMAIN lines : \A j \in 1..i : lines[j] # Handshake!Blank}
             ours == {i \in above : lines[i].name \in names}
  <2>1. \A i \in DOMAIN lines : i \in 1..8
    BY <1>1, <1>3
  <2>2. n \in DOMAIN lines /\ \A j \in 1..n : lines[j] # Handshake!Blank
    <3>1. \A j \in 1..n : j \in 1..7
      OBVIOUS
    <3>2. \A j \in 1..7 : lines[j] # Handshake!Blank
      BY <1>1, Zenon
    <3>3. n \in DOMAIN lines
      BY <1>1, <1>3
    <3> QED
      BY <3>1, <3>2, <3>3
  <2>3. ours = {n}
    <3>1. n \in ours
      BY <1>8, <2>2
    <3>2. \A i \in ours : i = n
      BY <1>8, <2>1
    <3> HIDE DEF ours
    <3> QED
      BY <3>1, <3>2
  <2>4. Handshake!LastOf(lines, names) =
          IF ours = {} THEN <<>> ELSE Handshake!Trimmed(lines[Handshake!Max(ours)].value)
    BY Zenon DEF Handshake!LastOf
  <2> HIDE DEF ours
  <2>5. Handshake!Max(ours) = n
    <3>1. ours \subseteq Int /\ n \in ours /\ \A y \in ours : y =< n
      BY <2>3
    <3> QED
      BY <3>1, MaxIs
  <2> QED
    BY <2>3, <2>4, <2>5
<1>9. Handshake!LastOf(lines, KeyNames) = <<"sample_key">>
  <2>1. 5 \in 1..7
    OBVIOUS
  <2>2. Handshake!Trimmed(<<"sample_key">>) = <<"sample_key">>
    <3>1. <<"sample_key">> \in Seq({"sample_key"}) /\ <<"sample_key">>[1] = "sample_key"
      OBVIOUS
    <3>2. "sample_key" # Handshake!space
      BY Zenon DEF Handshake!space
    <3>3. <<"sample_key">>[1] # Handshake!space
      BY <3>1, <3>2, Zenon
    <3> QED
      BY <3>1, <3>3, ValueIsTrimmed, Zenon
  <2> QED
    BY <1>1, <1>8, <2>1, <2>2
<1>10. Handshake!LastOf(lines, CookieNames) = cookie
  <2>1. 7 \in 1..7
    OBVIOUS
  <2>2. Handshake!Trimmed(cookie) = cookie
    BY <1>2, ValueIsTrimmed, CharactersDiffer
  <2> QED
    BY <1>1, <1>8, <2>1, <2>2
<1> QED
  BY <1>7, <1>9, <1>10 DEF lines

\* The cookie that a client sends is well-formed, and its value is the token.
LEMMA SentCookie ==
    ASSUME NEW C, NEW token \in Seq(C), \A i \in DOMAIN token : token[i] # Handshake!semicolon,
           NEW cookie, cookie = <<"n", Handshake!equals>> \o token \o <<Handshake!semicolon>>
    PROVE  Handshake!get_auth_token(cookie) = token
<1> DEFINE n == Len(token)
           D == C \cup {"n", Handshake!equals, Handshake!semicolon}
           semi == Handshake!semicolon
           S == Handshake!Semicolons(cookie)
           B == Handshake!Begins(cookie)
           ours == {p \in Handshake!Ours(cookie) : Handshake!ValueAt(cookie, p) # <<>>}
<1>1. /\ n \in Nat /\ cookie \in Seq(D) /\ Len(cookie) = n + 3
      /\ cookie[1] = "n" /\ cookie[2] = Handshake!equals /\ cookie[n + 3] = semi
      /\ \A i \in 1..n : cookie[i + 2] = token[i]
  <2> HIDE DEF semi
  <2>1. <<"n", Handshake!equals>> \in Seq(D) /\ token \in Seq(D) /\ <<semi>> \in Seq(D)
    BY DEF semi
  <2> HIDE DEF D
  <2> QED
    BY <2>1 DEF semi
<1> HIDE DEF D
<1>2. DOMAIN cookie = 1..n + 3 /\ cookie # <<>>
  BY <1>1
<1>3. \A i \in 1..n + 2 : cookie[i] # semi
  <2> SUFFICES ASSUME NEW i \in 1..n + 2 PROVE cookie[i] # semi
    OBVIOUS
  <2>1. CASE i = 1 \/ i = 2
    BY <1>1, <2>1, CharactersDiffer
  <2>2. CASE i > 2
    <3>1. i - 2 \in 1..n /\ (i - 2) + 2 = i /\ i - 2 \in DOMAIN token
      BY <1>1, <2>2
    <3> QED
      BY <1>1, <3>1
  <2> QED
    BY <1>1, <2>1, <2>2
<1>4. S = {n + 3}
  <2>1. n + 3 \in S
    BY <1>1, <1>2 DEF Handshake!Semicolons
  <2>2. \A i \in S : i \in 1..n + 3 /\ cookie[i] = semi
    BY <1>2 DEF Handshake!Semicolons
  <2>3. \A i \in 1..n + 3 : i = n + 3 \/ i \in 1..n + 2
    BY <1>1
  <2> HIDE DEF S, semi
  <2>4. \A i \in S : i = n + 3
    BY <1>3, <2>2, <2>3, Zenon
  <2> QED
    BY <2>1, <2>4, Zenon
<1> HIDE DEF S, semi
<1>5. B = {1}
  <2>1. {j \in S : j < n + 3} = {}
    BY <1>1, <1>4
  <2>2. B = {p \in {1} : cookie # <<>>} \cup {i + 2 : i \in {j \in S : j < n + 3}}
    BY <1>1, Zenon DEF Handshake!Begins, S
  <2> QED
    BY <1>2, <2>1, <2>2
<1>6. Handshake!End(cookie, 1) = n + 3
  <2>1. {i \in S : i >= 1} \cup {n + 4} = {n + 3, n + 4}
    BY <1>1, <1>4
  <2>2. Handshake!End(cookie, 1) = Handshake!Min({i \in S : i >= 1} \cup {n + 4})
    <3>1. Len(cookie) + 1 = n + 4
      BY <1>1
    <3> QED
      BY <3>1, Zenon DEF Handshake!End, S
  <2>3. Handshake!Min({n + 3, n + 4}) = n + 3
    <3> DEFINE T == {n + 3, n + 4}
    <3>1. T \subseteq Int /\ n + 3 \in T /\ \A y \in T : n + 3 =< y
      BY <1>1
    <3> HIDE DEF T
    <3>2. Handshake!Min(T) = n + 3
      BY <3>1, MinIs
    <3> QED
      BY <3>2 DEF T
  <2> QED
    BY <2>1, <2>2, <2>3, Zenon
<1>7. Handshake!AreCookies(cookie)
  <2>1. \A i \in S : ~ (i < n + 3)
    BY <1>1, <1>4
  <2>2. /\ 1 < Handshake!End(cookie, 1) /\ 2 \in 1..Handshake!End(cookie, 1) - 1
    BY <1>1, <1>6
  <2>3. cookie[1] \notin {Handshake!space, Handshake!equals}
    BY <1>1, CharactersDiffer
  <2> HIDE DEF B
  <2> QED
    BY <1>1, <1>5, <2>1, <2>2, <2>3, Zenon DEF Handshake!AreCookies, S, B
<1>8. Handshake!Ours(cookie) = {1}
  <2>1. Handshake!HasName(cookie, 1)
    <3>1. 1 < Len(cookie) /\ 1 + 1 = 2
      BY <1>1
    <3> QED
      BY <1>1, <3>1, Zenon DEF Handshake!HasName
  <2>2. Handshake!Ours(cookie) = {p \in B : Handshake!HasName(cookie, p)}
    BY Zenon DEF Handshake!Ours
  <2> HIDE DEF B
  <2> QED
    BY <1>5, <2>1, <2>2
<1>9. Handshake!ValueAt(cookie, 1) = token
  <2> DEFINE v == SubSeq(cookie, 3, n + 2)
  <2>1. Handshake!ValueAt(cookie, 1) = v
    <3>1. 1 + 2 = 3 /\ (n + 3) - 1 = n + 2
      BY <1>1
    <3> QED
      BY <1>6, <3>1, Zenon DEF Handshake!ValueAt
  <2>2. v \in Seq(D) /\ Len(v) = n /\ \A i \in 1..n : v[i] = cookie[i + 2]
    BY <1>1
  <2> HIDE DEF v
  <2>3. Len(v) = Len(token) /\ \A i \in 1..Len(v) : v[i] = token[i]
    BY <1>1, <2>2
  <2>4. v = token
    BY <1>1, <2>2, <2>3, SeqEqual
  <2> QED
    BY <2>1, <2>4
<1>10. Handshake!get_auth_token(cookie) = Handshake!FirstValue(cookie, ours)
  BY <1>1, <1>7, TokenIsFound
<1>11. CASE token = <<>>
  <2>1. ours = {}
    BY <1>8, <1>9, <1>11
  <2> QED
    BY <1>10, <1>11, <2>1, Zenon DEF Handshake!FirstValue
<1>12. CASE token # <<>>
  <2>1. ours = {1}
    BY <1>8, <1>9, <1>12
  <2> HIDE DEF ours
  <2>2. Handshake!Min(ours) = 1 /\ ours # {}
    <3>1. ours \subseteq Int /\ 1 \in ours /\ \A y \in ours : 1 =< y
      BY <2>1
    <3> QED
      BY <3>1, MinIs
  <2> QED
    BY <1>9, <1>10, <2>2, Zenon DEF Handshake!FirstValue
<1> QED
  BY <1>11, <1>12

(* What is told at the handshake is heard, whatever the token, the cookies and the
   request, of any length: the token of the client is what the ready handler of the
   server gets, a cookie is found wherever it is among well-formed ones, and the
   headers are read up to the blank line, unless a line does not fit the buffer
   (read_headers, parse_header, get_auth_token, get_session_cookie). *)
THEOREM TokensAndHeadersArrive == TextSpec => []HandshakeIsRead
<1>1. TextInv => HandshakeIsRead
  <2> SUFFICES ASSUME TextInv PROVE HandshakeIsRead
    OBVIOUS
  <2>1. PICK C : text \in Seq(C) /\ C = Alphabet[kind]
    BY DEF TextInv
  <2>2. ASSUME \A i \in DOMAIN text : text[i] # Handshake!semicolon
        PROVE  Handshake!Serve(Handshake!send_handshake_request(<<>>, text))
                 = [result |-> "ready", key |-> <<"sample_key">>, auth_token |-> text]
    <3> DEFINE cookie == <<"n", Handshake!equals>> \o text \o <<Handshake!semicolon>>
               lines == Handshake!send_handshake_request(<<>>, text)
               read == Handshake!read_headers(lines)
    <3>1. read = [result |-> "resolved",
                  info |-> [websocket_key |-> <<"sample_key">>, cookies |-> cookie]]
      BY <2>1, RequestArrives, Zenon
    <3>2. Handshake!get_auth_token(cookie) = text
      BY <2>1, <2>2, SentCookie, Zenon
    <3> HIDE DEF cookie, lines
    <3>3. Handshake!Serve(lines) =
            IF read.result = "rejected" THEN read
            ELSE [result |-> "ready", key |-> read.info.websocket_key,
                  auth_token |-> Handshake!get_auth_token(read.info.cookies)]
      BY Zenon DEF Handshake!Serve
    <3> HIDE DEF read
    <3>4. /\ read.result = "resolved" /\ read.info.websocket_key = <<"sample_key">>
          /\ read.info.cookies = cookie /\ "resolved" # "rejected"
      BY <3>1
    <3> QED
      BY <3>2, <3>3, <3>4 DEF lines
  <2>3. ASSUME Handshake!AreCookies(text)
        PROVE  LET ours == Handshake!Ours(text)
               IN  /\ Handshake!get_session_cookie(text) = Handshake!FirstValue(text, ours)
                   /\ Handshake!get_auth_token(text)
                        = Handshake!FirstValue(text, {p \in ours : Handshake!ValueAt(text, p) # <<>>})
    BY <2>1, <2>3, TokenIsFound, CookieIsFound, Zenon
  <2>4. TokenArrives
    BY <2>2, <2>3, Zenon DEF TokenArrives
  <2>5. ASSUME kind = "headers" PROVE HeadersAreRead
    <3> DEFINE n == Len(text)
               blanks == {i \in DOMAIN text : text[i] = Handshake!Blank}
               fits == \A i \in DOMAIN text : text[i].size > 256 => \E j \in blanks : j < i
               read == Handshake!read_headers(text)
               info == [websocket_key |-> Handshake!LastOf(text, KeyNames),
                        cookies |-> Handshake!LastOf(text, CookieNames)]
    <3>1. \A h \in C : IsHeader(h)
      BY <2>1, <2>5, TextsAssumption, Zenon
    <3>2. /\ (\A k \in 1..n : text[k] # Handshake!Blank) => read = [result |-> "rejected"]
          /\ \A b \in 1..n :
               Handshake!IsEnd(text, b) =>
                 read = IF \A j \in 1..b : text[j].size =< 256
                        THEN [result |-> "resolved", info |-> info]
                        ELSE [result |-> "rejected"]
      BY <2>1, <3>1, RequestIsRead, Zenon
    <3>3. DOMAIN text = 1..n /\ n \in Nat /\ \A i \in 1..n : text[i].size \in Nat
      <4>1. \A i \in 1..n : IsHeader(text[i])
        BY <2>1, <3>1
      <4> QED
        BY <2>1, <4>1, LenProperties DEF IsHeader
    <3>4. HeadersAreRead <=> IF blanks = {} \/ ~fits THEN read.result = "rejected"
                             ELSE read.info = info
      BY Zenon DEF HeadersAreRead, KeyNames, CookieNames
    <3> HIDE DEF n, read, info
    <3>5. CASE blanks = {}
      <4>1. \A k \in 1..n : text[k] # Handshake!Blank
        BY <3>3, <3>5
      <4>2. read.result = "rejected"
        BY <3>2, <4>1
      <4> QED
        BY <3>4, <3>5, <4>2, Zenon
    <3>6. CASE blanks # {}
      <4>1. blanks \subseteq Nat
        BY <3>3
      <4> HIDE DEF blanks
      <4>2. PICK b \in blanks : \A j \in blanks : ~ (j < b)
        BY <3>6, <4>1, LeastElement
      <4> USE DEF blanks
      <4>3. b \in 1..n /\ text[b] = Handshake!Blank /\ \A j \in 1..b - 1 : text[j] # Handshake!Blank
        BY <3>3, <4>2
      <4>4. Handshake!Blank.size = 0
        BY Zenon DEF Handshake!Blank, Handshake!Line
      <4>5. fits <=> \A j \in 1..b : text[j].size =< 256
        <5>1. ASSUME fits, NEW j \in 1..b PROVE text[j].size =< 256
          <6>1. j \in 1..n /\ \A k \in blanks : ~ (k < j)
            BY <3>3, <4>2, <4>3
          <6>2. ~ (text[j].size > 256)
            BY <3>3, <5>1, <6>1
          <6> QED
            BY <3>3, <6>1, <6>2
        <5>2. ASSUME \A j \in 1..b : text[j].size =< 256 PROVE fits
          <6> SUFFICES ASSUME NEW i \in 1..n, text[i].size > 256 PROVE b < i
            BY <3>3, <4>2
          <6>1. i \notin 1..b
            BY <3>3, <5>2
          <6> QED
            BY <3>3, <4>3, <6>1
        <5> HIDE DEF fits
        <5> QED
          BY <5>1, <5>2, Zenon
      <4>6. Handshake!IsEnd(text, b)
        BY <4>3, Zenon DEF Handshake!IsEnd
      <4> HIDE DEF fits, blanks
      <4>7. read = IF fits THEN [result |-> "resolved", info |-> info]
                   ELSE [result |-> "rejected"]
        BY <3>2, <4>3, <4>5, <4>6, Zenon
      <4>8. (fits => read.info = info) /\ (~fits => read.result = "rejected")
        BY <4>7
      <4> QED
        BY <3>4, <3>6, <4>8, Zenon
    <3> QED
      BY <3>5, <3>6
  <2> QED
    BY <2>4, <2>5, Zenon DEF HandshakeIsRead
<1> QED
  BY <1>1, TextInvHolds, PTL
=============================================================================
