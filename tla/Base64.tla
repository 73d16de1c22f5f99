------------------------------ MODULE Base64 ------------------------------
(***************************************************************************)
(* util/base64_encode.hpp and base64_decode.hpp.  A character is what      *)
(* reverse_lookup makes of it: the value 0..63 of a symbol, PADDING for    *)
(* '=' and INVALID for any other.  Of the 32 bits of a fragment the low 8  *)
(* are never used: a fragment is its upper 24 bits.                        *)
(***************************************************************************)
EXTENDS Integers, Sequences, FiniteSets

INVALID == 64
PADDING == 65

Thirds == <<65536, 256, 1>>               \* where the three bytes are
offsets == <<262144, 4096, 64, 1>>        \* where the four symbols are

---------------------------------------------------------------------------
encode_fragment(fragment, byte_length) ==
    IF byte_length = 0 THEN <<>>
    ELSE [i \in 1..byte_length + 1 |-> (fragment \div offsets[i]) % 64]

\* A length times four is an int.
encoding_length_padded(n) ==
    LET third == (4 * n) \div 3
    IN  third + ((4 - (third % 4)) % 4)

\* The elements from a position, as many as there are up to three, in a fragment.
\* Each is an int before it is shifted: of a negative char the bits above its own
\* are ones, and cover the elements before it.
Gather(buffer, from, count) ==
    LET Covered(i) == \E j \in i + 1..count : buffer[from + j] < 0
        Shifted(i) == IF i > count THEN 0
                      ELSE (IF Covered(i) THEN 255 ELSE buffer[from + i] % 256) * Thirds[i]
    IN  Shifted(1) + Shifted(2) + Shifted(3)

\* The output is all '=' to begin with; what is left of them is the padding.
base64_encode(buffer) ==
    LET extra_length == Len(buffer) % 3
        rounds == Len(buffer) \div 3
        written == 4 * rounds + Len(encode_fragment(0, extra_length))
        Round(n) == LET count == IF n < rounds THEN 3 ELSE extra_length
                    IN  encode_fragment(Gather(buffer, 3 * n, count), count)
    IN  [i \in 1..encoding_length_padded(Len(buffer)) |->
            IF i <= written THEN Round((i - 1) \div 4)[((i - 1) % 4) + 1] ELSE PADDING]

---------------------------------------------------------------------------
source_length_unpadded(text) == Cardinality({i \in DOMAIN text : text[i] # PADDING})
target_decoded_length(text) == (3 * source_length_unpadded(text)) \div 4

\* (bug: padding is accepted anywhere)
validate_Anywhere(text) == Len(text) % 4 = 0 /\ \A i \in DOMAIN text : text[i] # INVALID

\* Where the first padding is, or the end.
IsPadItr(text, i) ==
    /\ i <= Len(text) => text[i] = PADDING
    /\ \A j \in 1..i - 1 : text[j] # PADDING
validate(text) ==
    LET pad_itr == CHOOSE i \in 1..Len(text) + 1 : IsPadItr(text, i)
    IN  /\ Len(text) % 4 = 0
        /\ \A i \in DOMAIN text : text[i] # INVALID
        /\ Len(text) + 1 - pad_itr <= 2
        /\ \A i \in pad_itr..Len(text) : text[i] = PADDING

\* The bytes of the symbols from a position, fewer for fewer than four.
DecodeFragment(text, from, count) ==
    LET Shifted(j) == IF j <= count THEN text[from + j] * offsets[j] ELSE 0
        fragment == Shifted(1) + Shifted(2) + Shifted(3) + Shifted(4)
        length_map == <<3, 2, 2, 1, 0>>
    IN  [k \in 1..3 - length_map[count + 1] |-> (fragment \div Thirds[k]) % 256]

decode(text) ==
    LET length == source_length_unpadded(text)
        extra_length == length % 4
        rounds == length \div 4
        written == 3 * rounds + Len(DecodeFragment(text, 4 * rounds, extra_length))
        Round(n) == DecodeFragment(text, 4 * n, IF n < rounds THEN 4 ELSE extra_length)
    IN  [i \in 1..written |-> Round((i - 1) \div 3)[((i - 1) % 3) + 1]]

base64_decode(text) ==
    IF Len(text) = 0 \/ ~validate(text) THEN <<>> ELSE decode(text)

Dynamic == -1   \* the size of a buffer that can be resized

\* Into a buffer of the caller, which has its size before the text is looked at:
\* the answer, and the bytes, zeros as long as nothing is decoded.
base64_decode_into(text, size) ==
    LET target == target_decoded_length(text)
        ok == size \in {Dynamic, target} /\ (target = 0 \/ validate(text))
        length == IF size = Dynamic THEN target ELSE size
    IN  [ok |-> ok, output |-> IF ok /\ target # 0 THEN decode(text) ELSE [i \in 1..length |-> 0]]

---------------------------------------------------------------------------
(* What a text stands for, by its bits: those of the bytes in order, in groups of
   six, the last group filled with zeros and the text with '='. *)

Weights == <<128, 64, 32, 16, 8, 4, 2, 1>>
\* Bit j of numbers of as many bits as width is, from the highest of the first on.
BitAt(numbers, width, j) ==
    (numbers[(j - 1) \div width + 1] \div Weights[8 - width + ((j - 1) % width) + 1]) % 2

Encodes(text, bytes) ==
    LET symbols == (8 * Len(bytes) + 5) \div 6
    IN  /\ Len(text) = 4 * ((Len(bytes) + 2) \div 3)
        /\ \A i \in DOMAIN text : IF i <= symbols THEN text[i] \in 0..63 ELSE text[i] = PADDING
        /\ \A j \in 1..6 * symbols :
             BitAt(text, 6, j) = IF j <= 8 * Len(bytes) THEN BitAt(bytes, 8, j) ELSE 0

\* The bytes that a container's elements are encoded as: their own, but all ones for
\* those with a negative char behind them among the same three.
Spelt(buffer) ==
    [i \in DOMAIN buffer |->
        IF \E j \in i + 1..Len(buffer) : (j - 1) \div 3 = (i - 1) \div 3 /\ buffer[j] < 0
        THEN 255 ELSE buffer[i] % 256]

\* Four symbols to a group, only the last of which may end in one or two '='.
WellFormed(text) ==
    /\ Len(text) % 4 = 0
    /\ \A i \in DOMAIN text :
         /\ text[i] # INVALID
         /\ text[i] = PADDING => \/ i = Len(text)
                                 \/ i = Len(text) - 1 /\ text[i + 1] = PADDING

\* A well-formed text's symbols have the bits of the bytes, as many as there are
\* whole bytes.
Decodes(text, bytes) ==
    LET symbols == {i \in DOMAIN text : text[i] # PADDING}
    IN  /\ Len(bytes) = (6 * Cardinality(symbols)) \div 8
        /\ \A i \in DOMAIN bytes : bytes[i] \in 0..255
        /\ \A j \in 1..8 * Len(bytes) : BitAt(bytes, 8, j) = BitAt(text, 6, j)

===========================================================================
