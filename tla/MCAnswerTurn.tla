---------------------------- MODULE MCAnswerTurn ----------------------------
(* Instances of AnswerTurn for TLC: manuals A and B and the authored store N,
   whose entries n1 and n2 declare the device of A and of B. *)
EXTENDS AnswerTurn

MCRows == <<"a1", "a2", "b1", "n1", "n2">>
MCSourceOf == [p \in {"a1", "a2", "b1", "n1", "n2"} |->
  CASE p \in {"a1", "a2"} -> "A" [] p = "b1" -> "B" [] OTHER -> "N"]
MCVendor == {"A", "B"}
MCDeviceOf == [A |-> "dA", B |-> "dB"]
MCDeclared == [p \in {"a1", "a2", "b1", "n1", "n2"} |->
  CASE p = "n1" -> {"dA"} [] p = "n2" -> {"dB"} [] OTHER -> {}]

Fix(source, passages) == [source |-> source, passages |-> passages]

\* n1 has a cause more than a turn takes; n2 has one without a fix.
MCEntries ==
  [n1 |-> << <<Fix("A", <<"a2", "a1">>)>>, <<Fix("B", <<"b1">>)>>, <<>> >>,
   n2 |-> << <<>>, <<Fix("A", <<"a1">>), Fix("B", <<"b1">>), Fix("A", <<"a2">>)>> >>]

Selections == {<<"A">>, <<"A", "B">>, <<"A", "B", "N">>, <<"B", "N">>, <<"N">>}

DenseOrders ==
  {<<"a1", "a2", "b1", "n1", "n2">>, <<"a1", "a2", "n1", "b1", "n2">>,
   <<"n1", "a1", "b1", "a2", "n2">>, <<"n2", "b1", "n1", "a2", "a1">>}

LexicalOrders == {<<>>} \cup {<<p>> : p \in ToSet(MCRows)}
  \cup {s \in [1..2 -> ToSet(MCRows)] : s[1] # s[2]}

MCQueries ==
  {[selected |-> s, dense |-> d, strong |-> n, lexical |-> l, rare |-> r] :
     s \in Selections, d \in DenseOrders, n \in 0..3, l \in LexicalOrders,
     r \in {{}, {"b1", "n2"}}}

Said(kind, mark) == [kind |-> kind, mark |-> mark, names |-> None, fact |-> FALSE]
Named(kind, name) == [kind |-> kind, mark |-> NoMark, names |-> name, fact |-> FALSE]

\* A first line that names an outcome, and one that does not.
MCFirstLines ==
  {Said(o, NoMark) : o \in {"answered", "needs-narrowing", "ranked-causes"}} \cup {Said("prose", "b1")}

MCAnswerLines == {Said("blank", NoMark), Said("prose", "a1")}

MCLines ==
  {Said(k, NoMark) : k \in {"blank", "bullet", "candidate", "check", "indented", "caveat", "conflict", "narrow"}}
    \cup {Said("step", "a1"), Said("prose", "b1"), Said("cause", "a1"), Named("suggest", "B")}

Question(scope, dense, strong) ==
  [selected |-> scope, dense |-> dense, strong |-> strong, lexical |-> <<>>, rare |-> {}]

\* Covered without an entry and not covered; an entry whose fixes are in scope,
\* and one whose fixes are not.
MCFollowed ==
  {[query |-> Question(<<"A">>, <<"a1", "a2", "b1", "n1", "n2">>, 1), kind |-> "keyed"],
   [query |-> Question(<<"B", "N">>, <<"a1", "a2", "b1", "n1", "n2">>, 0), kind |-> "shared"],
   [query |-> Question(<<"A", "B", "N">>, <<"n1", "a1", "b1", "a2", "n2">>, 2), kind |-> "local"],
   [query |-> Question(<<"N">>, <<"n2", "b1", "n1", "a2", "a1">>, 1), kind |-> "keyed"]}
=============================================================================
