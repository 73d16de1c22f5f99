------------------------------ MODULE MCWebApp ------------------------------
(***************************************************************************)
(* Three pages: a match on the route with a link in each branch; a list of *)
(* rows of two kinds, as in test/nbdl/webui/renderer.cpp; a list in one    *)
(* branch and a match within an element of the other.                      *)
(***************************************************************************)
EXTENDS WebApp

MCChar == {"/", "b", "f", "p"} \cup {Digits[k] : k \in 1..10}
MCNames == {<<>>, <<"f">>}
MCMembers == [n \in MCNames |-> CASE n = <<>> -> <<>>
                                  [] n = <<"f">> -> <<"integral">>]
MCRoutes == {[name |-> <<>>, params |-> <<>>],
             [name |-> <<"f">>, params |-> <<1>>],
             [name |-> <<"f">>, params |-> <<2>>]}
MCStrings == {<<"/", "b">>}
MCPrefix == <<"/", "p">>

R0 == [name |-> <<>>, params |-> <<>>]
R1 == [name |-> <<"f">>, params |-> <<1>>]
R2 == [name |-> <<"f">>, params |-> <<2>>]

Element(name, kids) == [tag |-> "element", name |-> name, kids |-> kids]
Text(params) == [tag |-> "text_node", params |-> params]
Attribute(name, params) == [tag |-> "attribute", name |-> name, params |-> params]
AddClassWhen(name, key, case) == [tag |-> "add_class", name |-> name, key |-> key, case |-> case]
OnClick(param) == [tag |-> "event_attribute", param |-> param]
FileInput(param) == [tag |-> "hidden_file_input", param |-> param]
Match(key, cases) == [tag |-> "branch", key |-> key, cases |-> cases]
ForEachRow(row) == [tag |-> "for_each", key |-> "rows", row |-> row]

Get(key) == [get |-> key, when |-> Unset]
When(key, case) == [get |-> key, when |-> case]
Const(text) == [get |-> "none", when |-> Unset, text |-> text]

Link(name, r) == Element("a", <<OnClick(Const(r)), Text(<<Const(<<name>>)>>)>>)

RoutePage ==
    Element("div", <<
        Match("route", <<
            Element("div", <<Link("first", R1)>>),
            Element("div", <<Attribute("class", <<Const(<<"foo">>), When("route", 2)>>),
                             Text(<<Const(<<"f">>), When("route", 2)>>), Link("second", R2)>>),
            Text(<<When("route", 3)>>)>>),
        AddClassWhen("root", "route", 1),
        Text(<<Get("route")>>), Link("home", R0)>>)

Row == Match("row", <<
           Element("li", <<OnClick(Get("row")), Text(<<Get("row")>>)>>),
           Element("li", <<OnClick(Get("row")), Attribute("id", <<Get("row")>>),
                           Text(<<Get("row")>>)>>)>>)

ListPage ==
    Element("div", <<
        Element("ul", <<ForEachRow(Row)>>),
        Element("div", <<Text(<<Get("clicked")>>)>>),
        Link("first", R1)>>)

MixedPage ==
    Element("div", <<
        Match("route", <<
            Element("ul", <<ForEachRow(Row)>>),
            Element("div", <<Link("home", R0), Match("clicked", <<Text(<<Get("clicked")>>)>>)>>),
            Element("p", <<FileInput(Const(R1))>>)>>)>>)

MCPages == {RoutePage, ListPage, MixedPage}

MCRows == {[case |-> 1, text |-> <<"x">>], [case |-> 2, text |-> <<"y">>]}
=============================================================================
