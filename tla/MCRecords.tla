------------------------------- MODULE MCRecords -------------------------------
(* Pages as JSON APIs answer, and the paths of the README, of the docstring *)
(* and around them.                                                         *)
EXTENDS Records

P(key) == [key |-> key, subs |-> <<>>]
Q(key, sub) == [key |-> key, subs |-> <<sub>>]
AtPath(parts) == [dollar |-> TRUE, dot |-> TRUE, parts |-> parts]
RootPath(parts) == [AtPath(parts) EXCEPT !.dot = FALSE]

Ids == List(<<Number, Number>>)
Story == Dict([a |-> List(<<Dict([b |-> Str(30)]), Dict([b |-> Null])>>), b |-> Str(120),
               c |-> Str(0), d |-> Dict([b |-> Number])])
MCValues ==
    {Null, Number, Ids, List(<<Story>>), Story}
        \cup {Story.at[key] : key \in DOMAIN Story.at}
        \cup {Story.at["a"].items[i] : i \in 1 .. 2}
        \cup {Str(30)}
MCPages == {[json |-> j, len |-> 7] : j \in {Ids, List(<<Story>>), Story, NotJson}}

MCKeys == {"", "a", "b", "c", "d", "x", "xb"}
MCRest == [key \in MCKeys \ {""} |-> IF key = "xb" THEN "b" ELSE ""]

MCPaths ==
    {RootPath(<<>>), [AtPath(<<P("a")>>) EXCEPT !.dollar = FALSE]}
    \cup {RootPath(<<Q(key, s)>>) : key \in {"", "a"}, s \in {All, Nth(0)}}
    \cup {RootPath(<<P("xb")>>), RootPath(<<P("a"), P("b")>>)}
    \cup {AtPath(<<part>>) : part \in {P("b"), P("c"), Q("", Nth(0)), Q("a", All), Q("a", Nth(1)),
                                     Q("a", Nth(-1)), Q("a", Nth(5)), Q("d", All), Q("x", All),
                                     [key |-> "a", subs |-> <<Nth(0), Nth(1)>>]}}
    \cup {AtPath(<<part, P("b")>>) : part \in {P(""), P("d"), P("b"), Q("a", Nth(0)), Q("a", Nth(-1)),
                                             Q("a", All), Q("", Nth(0))}}

MCRuleSets == UNION {[1 .. n -> MCPaths] : n \in 0 .. 2}
================================================================================
