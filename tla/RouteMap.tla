------------------------------ MODULE RouteMap ------------------------------
(***************************************************************************)
(* webui/route_map.hpp: routes and the strings that stand for them in the  *)
(* browser's address.  A string is a sequence of characters.               *)
(***************************************************************************)
EXTENDS Integers, Sequences, SequencesExt

CONSTANTS
    Char,       \* the characters of strings
    Names,      \* the names of the routes, as strings
    Members,    \* per name: its members' types, a sequence of "integral", "string"
    MaxParams,  \* 10 in the code, the route's name included
    Modulus,    \* 2^w: how many values an integral member has
    Routes      \* routes that the application sets

NotFound == [name |-> <<"?">>, params |-> <<>>]

Digits == <<"0", "1", "2", "3", "4", "5", "6", "7", "8", "9">>

ASSUME RouteMapAssumption ==
    /\ {"/"} \cup {Digits[k] : k \in 1..10} \subseteq Char
    /\ Names \subseteq Seq(Char) \ {NotFound.name}
    /\ \A n \in Names : Members[n] \in Seq({"integral", "string"}) /\ Len(Members[n]) < MaxParams
    /\ {MaxParams, Modulus} \subseteq Nat \ {0}

\* An integer other than zero that the member can hold, a string that is not empty
\* and has no slash; the name of a route has none either, and only a route without
\* parameters has the empty name.
IsWord(s) == s \in Seq(Char) /\ \A i \in DOMAIN s : s[i] # "/"
FitsMember(value, type) ==
    IF type = "integral" THEN value \in 1..Modulus - 1 ELSE value # <<>> /\ IsWord(value)
IsAddressable(r) ==
    LET Types == Members[r.name]
    IN  /\ r.name \in Names /\ IsWord(r.name)
        /\ r.name = <<>> => Types = <<>>
        /\ r = [name |-> r.name, params |-> [i \in DOMAIN Types |-> r.params[i]]]
        /\ \A i \in DOMAIN Types : FitsMember(r.params[i], Types[i])

ASSUME RoutesFit == \A r \in Routes : IsAddressable(r)

IsNumber(word) == \A i \in DOMAIN word : \E k \in 1..10 : word[i] = Digits[k]
digit_value(c) == (CHOOSE k \in 1..10 : Digits[k] = c) - 1

---------------------------------------------------------------------------
(* to_string *)

\* std::to_string
Decimal(x) ==
    LET digits[n \in 0..x] == IF n < 10 THEN <<Digits[n + 1]>>
                              ELSE Append(digits[n \div 10], Digits[(n % 10) + 1])
    IN  digits[x]

append_route_param(s, x, type) ==
    s \o <<"/">> \o IF type = "string" THEN x ELSE Decimal(x)

to_string(route) ==
    LET Types == Members[route.name]
        Put[k \in 0..Len(Types)] ==
            IF k = 0 THEN <<"/">> \o route.name
            ELSE append_route_param(Put[k - 1], route.params[k], Types[k])
    IN  Put[Len(Types)]

---------------------------------------------------------------------------
(* from_string *)

\* What parse_route_param finds, call by call, in a string that begins with a
\* slash: each slash begins a segment, which goes on to the next.
Longer(segments, c) ==
    IF c = "/" THEN Append(segments, <<>>)
    ELSE [segments EXCEPT ![Len(segments)] = Append(@, c)]
Segments(s) ==
    LET found[i \in 0..Len(s)] == IF i = 0 THEN <<>> ELSE Longer(found[i - 1], s[i])
    IN  found[Len(s)]

\* The loop ends with the first empty parameter, or when there are MaxParams.
ParamsOf(segments) ==
    LET Full(k) == \A i \in 1..k : segments[i] # <<>>
        count == CHOOSE k \in 0..Len(segments) :
                     /\ k <= MaxParams /\ Full(k)
                     /\ k < Len(segments) /\ k < MaxParams => segments[k + 1] = <<>>
    IN  SubSeq(segments, 1, count)

\* (bug: what is left behind an empty parameter is not looked at)
IsAllRead_Never(segments) == TRUE

\* "trailing params": the empty parameter the loop ended with is the last.
IsAllRead(segments) ==
    LET count == Len(ParamsOf(segments))
    IN  Len(segments) - count <= IF count < MaxParams THEN 1 ELSE 0

\* "zero is an invalid integral param"
to_integral_param(param) ==
    LET result[i \in 0..Len(param)] ==
            IF i = 0 THEN 0 ELSE (10 * result[i - 1] + digit_value(param[i])) % Modulus
    IN  IF IsNumber(param) THEN result[Len(param)] ELSE 0

bind_route_param(param, type) ==
    IF type = "integral" THEN to_integral_param(param) ELSE param

IsParamValid(value, type) == IF type = "integral" THEN value # 0 ELSE value # <<>>

make_from_params(params) ==
    LET Types  == Members[params[1]]
        values == [i \in DOMAIN Types |-> bind_route_param(params[i + 1], Types[i])]
    IN  IF /\ params[1] \in Names
           /\ Len(Types) = Len(params) - 1
           /\ \A i \in DOMAIN Types : IsParamValid(values[i], Types[i])
        THEN [name |-> params[1], params |-> values]
        ELSE NotFound

from_string(s) ==
    IF s = <<>> \/ s[1] # "/" THEN NotFound
    ELSE IF s = <<"/">> THEN make_from_params(<< <<>> >>)
    ELSE IF ~IsAllRead(Segments(s)) \/ ParamsOf(Segments(s)) = <<>> THEN NotFound
    ELSE make_from_params(ParamsOf(Segments(s)))

---------------------------------------------------------------------------
(* Which strings stand for which routes, said without the parser. *)

Number(word) ==
    LET number[i \in 0..Len(word)] ==
            IF i = 0 THEN 0 ELSE 10 * number[i - 1] + digit_value(word[i])
    IN  number[Len(word)]

\* A number may have zeros in front; it is read modulo the width of the member.
\* A slash behind is no word unless there are MaxParams in front of it.
Spells(word, value, type) ==
    IF type = "string" THEN word = value
    ELSE word # <<>> /\ IsNumber(word) /\ value = Number(word) % Modulus

IsSpelling(s, route) ==
    /\ s # <<>> /\ s[1] = "/"
    /\ (s = <<"/">>) <=> (route.name = <<>>)
    /\ \E words \in {Segments(s), Front(Segments(s))} :
        /\ words # Segments(s) =>
             Last(Segments(s)) = <<>> /\ s # <<"/">> /\ Len(words) < MaxParams
        /\ Len(words) = 1 + Len(Members[route.name])
        /\ words[1] = route.name
        /\ \A i \in DOMAIN route.params :
             Spells(words[i + 1], route.params[i], Members[route.name][i])
=============================================================================
