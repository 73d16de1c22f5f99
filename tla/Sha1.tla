------------------------------- MODULE Sha1 -------------------------------
(***************************************************************************)
(* The digest the accept token of a handshake is made of                   *)
(* (detail/beast_sha1.hpp).  A 32 bit word is the pair of its halves, a    *)
(* byte a number below 256; a context is a record with the members of      *)
(* sha1_context, its buffer cut to buflen bytes.                           *)
(***************************************************************************)
LOCAL INSTANCE Integers
LOCAL INSTANCE Sequences
LOCAL INSTANCE SequencesExt
LOCAL INSTANCE Bitwise

BLOCK_BYTES == 64
BLOCK_INTS == 16

Both(a, b, Op(_, _)) == <<Op(a[1], b[1]), Op(a[2], b[2])>>
AndW(a, b) == Both(a, b, &)
OrW(a, b) == Both(a, b, |)
XorW(a, b) == Both(a, b, ^^)
Plus(a, b) == <<(a[1] + b[1] + (a[2] + b[2]) \div 65536) % 65536, (a[2] + b[2]) % 65536>>

\* value << bits | value >> (32 - bits); 16 bits and more swap the halves.
rol(value, bits) ==
    LET n == bits % 16
        v == IF bits < 16 THEN value ELSE <<value[2], value[1]>>
        Half(i, j) == (v[i] % 2^(16 - n)) * 2^n + v[j] \div 2^(16 - n)
    IN  <<Half(1, 2), Half(2, 1)>>

---------------------------------------------------------------------------
(* The code unrolls 80 calls of R0..R4, each with the five words in another
   order and the block's words replaced as it goes on. *)

blk(block, i) ==
    rol(XorW(XorW(block[(i + 13) % 16], block[(i + 8) % 16]),
             XorW(block[(i + 2) % 16], block[i])), 1)

\* The word each of R0..R4 adds to z beside the block's word and rol(v, 5).
Round(t, w, x, y) ==
    CASE t < 20 -> Plus(XorW(AndW(w, XorW(x, y)), y), <<23170, 31129>>)
      [] t \in 20..39 -> Plus(XorW(XorW(w, x), y), <<28377, 60321>>)
      [] t \in 40..59 -> Plus(OrW(AndW(OrW(w, x), y), AndW(w, x)), <<36635, 48348>>)
      [] OTHER -> Plus(XorW(XorW(w, x), y), <<51810, 49622>>)

\* s.words is <<v, w, x, y, z>> as the next call sees them.
Step(s, t) ==
    LET i == t % 16
        word == IF t < 16 THEN s.block[i] ELSE blk(s.block, i)
        z == Plus(Plus(s.words[5], Round(t, s.words[2], s.words[3], s.words[4])),
                  Plus(word, rol(s.words[1], 5)))
    IN  [s EXCEPT !.block[i] = word,
                  !.words = <<z, @[1], rol(@[2], 30), @[3], @[4]>>]

make_block(buf) ==
    [i \in 0..BLOCK_INTS - 1 |->
        <<buf[4*i + 1] * 256 + buf[4*i + 2], buf[4*i + 3] * 256 + buf[4*i + 4]>>]

transform(digest, block) ==
    LET end == FoldLeft(Step, [block |-> block, words |-> digest], [t \in 1..80 |-> t - 1])
    IN  [i \in 1..5 |-> Plus(digest[i], end.words[i])]

---------------------------------------------------------------------------
init == [buf |-> <<>>, blocks |-> 0,
         digest |-> <<<<26437, 8961>>, <<61389, 43913>>, <<39098, 56574>>,
                      <<4146, 21622>>, <<50130, 57840>>>>]

\* Fills the buffer; the rest of the message goes on with an empty one.
RECURSIVE update(_, _)
update(ctx, message) ==
    LET room == BLOCK_BYTES - Len(ctx.buf)
        n == IF Len(message) < room THEN Len(message) ELSE room
        buf == ctx.buf \o SubSeq(message, 1, n)
    IN  IF Len(buf) # BLOCK_BYTES
        THEN [ctx EXCEPT !.buf = buf]
        ELSE update([buf |-> <<>>, blocks |-> ctx.blocks + 1,
                     digest |-> transform(ctx.digest, make_block(buf))],
                    SubSeq(message, n + 1, Len(message)))

Zeros(n) == [i \in 1..n |-> 0]

\* (bug: the buffer is a block of its own only when the mark fills it)
finish_NoRoom(ctx) ==
    LET total_bits == (ctx.blocks * BLOCK_BYTES + Len(ctx.buf)) * 8
        marked == Append(ctx.buf, 128)
        block == make_block(marked \o Zeros(BLOCK_BYTES - Len(marked)))
    IN  transform(ctx.digest, [block EXCEPT ![15] = <<0, total_bits>>, ![14] = <<0, 0>>])

\* The length goes into the last two words; a buffer that has no room for it
\* behind the mark is a block of its own.
finish(ctx) ==
    LET total_bits == (ctx.blocks * BLOCK_BYTES + Len(ctx.buf)) * 8
        marked == Append(ctx.buf, 128)
        block == make_block(marked \o Zeros(BLOCK_BYTES - Len(marked)))
        full == Len(marked) > BLOCK_BYTES - 8
        digest == IF full THEN transform(ctx.digest, block) ELSE ctx.digest
        rest == [i \in 0..BLOCK_INTS - 1 |-> IF full /\ i < BLOCK_INTS - 2 THEN <<0, 0>> ELSE block[i]]
    IN  transform(digest, [rest EXCEPT ![15] = <<total_bits \div 65536, total_bits % 65536>>,
                                       ![14] = <<0, 0>>])

\* generate_accept_token calls update for the key and for the guid.
DigestOf(chunks) == finish(FoldLeft(update, init, chunks))

---------------------------------------------------------------------------
(* The digest as the standard gives it: pad the whole message, expand each
   block to eighty words, and choose or vote by the bits themselves. *)

Padded(m) ==
    LET zeros == CHOOSE k \in 0..63 : (Len(m) + 1 + k + 8) % 64 = 0
        bits == Len(m) * 8
    IN  m \o <<128>> \o Zeros(zeros + 4)
          \o <<0, bits \div 65536, (bits \div 256) % 256, bits % 256>>

NotW(a) == <<65535 - a[1], 65535 - a[2]>>
Choose(b, c, d) == XorW(AndW(b, c), AndW(NotW(b), d))
Parity(b, c, d) == XorW(b, XorW(c, d))
Majority(b, c, d) == XorW(AndW(b, c), XorW(AndW(b, d), AndW(c, d)))

Compressed(digest, bytes) ==
    LET first == [t \in 1..16 |-> <<bytes[4*t - 3] * 256 + bytes[4*t - 2],
                                    bytes[4*t - 1] * 256 + bytes[4*t]>>]
        F(t, b, c, d) ==
            CASE t <= 20 -> Plus(Choose(b, c, d), <<23170, 31129>>)
              [] t \in 21..40 -> Plus(Parity(b, c, d), <<28377, 60321>>)
              [] t \in 41..60 -> Plus(Majority(b, c, d), <<36635, 48348>>)
              [] OTHER -> Plus(Parity(b, c, d), <<51810, 49622>>)
        Turn(s, t) ==
            LET W == IF t <= 16 THEN s.W[t]
                     ELSE rol(XorW(Parity(s.W[t - 3], s.W[t - 8], s.W[t - 14]), s.W[t - 16]), 1)
                T == Plus(Plus(rol(s.v[1], 5), F(t, s.v[2], s.v[3], s.v[4])), Plus(s.v[5], W))
            IN  [s EXCEPT !.W = IF t <= 16 THEN @ ELSE Append(@, W),
                          !.v = <<T, @[1], rol(@[2], 30), @[3], @[4]>>]
        end == FoldLeft(Turn, [W |-> first, v |-> digest], [t \in 1..80 |-> t])
    IN  [i \in 1..5 |-> Plus(digest[i], end.v[i])]

Standard(m) ==
    LET p == Padded(m)
    IN  FoldLeft(LAMBDA digest, n : Compressed(digest, SubSeq(p, 64*n - 63, 64*n)),
                 init.digest, [n \in 1..Len(p) \div 64 |-> n])

===========================================================================
