------------------------------- MODULE Tiles -------------------------------
(***************************************************************************)
(* The game of src/example/tiles/game.hpp: a store that listens for the    *)
(* moves another path is sent.  The board is the array of 64 bytes of      *)
(* which a game uses the first width * height; what is behind them is 0,   *)
(* like the hole.                                                          *)
(***************************************************************************)
EXTENDS Integers, Sequences, SequencesExt

width == 3
height == 3
initial == <<3, 4, 6, 8, 0, 1, 2, 5, 7>>
game == [i \in 0..63 |-> IF i < width * height THEN initial[i + 1] ELSE 0]

\* (bug: a row goes on in the one above it)
get_tile_swap_index_Wraps(g, i) ==
    LET near == SelectSeq(<<i, i - 1, i + 1, i - width, i + width>>,
                          LAMBDA j : j \in 0..63 /\ g[j] = 0)
    IN  Head(near \o <<i>>)

\* The first of the neighbours that is empty, in this order.
get_tile_swap_index(g, i) ==
    LET left  == IF i % width # 0 /\ g[i - 1] = 0 THEN <<i - 1>> ELSE <<>>
        right == IF i % width # width - 1 /\ g[i + 1] = 0 THEN <<i + 1>> ELSE <<>>
        above == IF i >= width /\ g[i - width] = 0 THEN <<i - width>> ELSE <<>>
        below == IF i <= height * width - width /\ g[i + width] = 0 THEN <<i + width>> ELSE <<>>
        self  == IF g[i] = 0 THEN <<i>> ELSE <<>>
    IN  Head(self \o left \o right \o above \o below \o <<i>>)

\* The board after the move, and whether the move was one.
apply_game_move(g, i) ==
    LET j == get_tile_swap_index(g, i)
    IN  IF i >= width * height \/ j = i THEN [board |-> g, moved |-> FALSE]
        ELSE [board |-> [g EXCEPT ![i] = g[j], ![j] = g[i]], moved |-> TRUE]

\* apply_foreign_message: the consumers of the game are told when there is news.
Apply(s, i) ==
    LET r == apply_game_move(s.board, i)
    IN  [board |-> r.board, told |-> s.told + (IF r.moved THEN 1 ELSE 0)]

Play(moves) ==
    LET played[n \in 0..Len(moves)] == IF n = 0 THEN [board |-> game, told |-> 0]
                                       ELSE Apply(played[n - 1], moves[n])
    IN  played[Len(moves)]

---------------------------------------------------------------------------
(* The puzzle on its grid. *)

Distance(i, j) ==
    LET Gap(a, b) == IF a < b THEN b - a ELSE a - b
    IN  Gap(i % width, j % width) + Gap(i \div width, j \div width)

Cells == 0..width * height - 1
Holes(g) == {i \in Cells : g[i] = 0}

\* A tile beside the hole changes places with it; nothing else moves.
Slid(g, i) ==
    IF i \in Cells /\ \E h \in Holes(g) : Distance(i, h) = 1
    THEN LET h == CHOOSE h \in Holes(g) : Distance(i, h) = 1
         IN  [g EXCEPT ![i] = 0, ![h] = g[i]]
    ELSE g

\* The first cell of the last row, not beside the hole: `<=` takes the byte behind
\* the board for a neighbour of it.
AtTheCorner(g, i) ==
    /\ i = width * height - width
    /\ g[i] # 0 /\ \A h \in Holes(g) : Distance(i, h) # 1
===========================================================================
