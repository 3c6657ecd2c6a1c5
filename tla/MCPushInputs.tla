---------------------------- MODULE MCPushInputs ----------------------------
(* Workflows for PushInputs.                                               *)
EXTENDS PushInputs

Input(name, gather, leaves, empties) ==
  [name |-> name, gather |-> gather, leaves |-> leaves, empties |-> empties]

Scalar == {<<>>}
Pair   == {<<<<0, 2>>>>, <<<<1, 2>>>>}

\* [1;2] x [3;4], the first of which comes from a task.
Cross ==
  [groups |-> << <<Input("a", 0, Pair, {})>>, <<Input("b", 0, Pair, {})>> >>,
   brings |-> [h \in {0, 1} |->
                 CASE h = 0 -> {<<"a", <<<<1, 2>>>>>>, <<"b", <<<<0, 2>>>>>>, <<"b", <<<<1, 2>>>>>>}
                   [] h = 1 -> {<<"a", <<<<0, 2>>>>>>}],
   feeds  |-> FALSE]

Nested == {<<<<0, 2>>, <<0, 1>>>>, <<<<1, 2>>, <<0, 2>>>>, <<<<1, 2>>, <<1, 2>>>>}

\* [[1],[2;3]] . 7 . (gathered [[4],[5;6]]), the scalar between the others.
Dot ==
  [groups |-> << <<Input("a", 0, Nested, {}), Input("b", 0, Scalar, {}), Input("c", 1, Nested, {})>> >>,
   brings |-> [h \in {0, 1} |->
                 CASE h = 0 -> {<<"b", <<>>>>, <<"c", <<<<0, 2>>, <<0, 1>>>>>>, <<"a", <<<<1, 2>>, <<0, 2>>>>>>,
                                <<"c", <<<<1, 2>>, <<1, 2>>>>>>, <<"a", <<<<1, 2>>, <<1, 2>>>>>>}
                   [] h = 1 -> {<<"a", <<<<0, 2>>, <<0, 1>>>>>>, <<"c", <<<<1, 2>>, <<0, 2>>>>>>}],
   feeds  |-> FALSE]

\* [[1],[2;3]], in the order 2, 1 or 3.
Deep ==
  [groups |-> << <<Input("a", 0, Nested, {})>> >>,
   brings |-> [h \in Pusher |->
                 CASE h = 0 -> {<<"a", <<<<1, 2>>, <<0, 2>>>>>>}
                   [] h = 1 -> {<<"a", <<<<0, 2>>, <<0, 1>>>>>>}
                   [] h = 2 -> {<<"a", <<<<1, 2>>, <<1, 2>>>>>>}],
   feeds  |-> TRUE]

\* (gathered to the root [[1],[2;3]]) x [4;5].
Gather ==
  [groups |-> << <<Input("a", 3, Nested, {})>>, <<Input("b", 0, Pair, {})>> >>,
   brings |-> [h \in Pusher |->
                 CASE h = 0 -> {<<"b", <<<<1, 2>>>>>>, <<"a", <<<<1, 2>>, <<0, 2>>>>>>}
                   [] h = 1 -> {<<"b", <<<<0, 2>>>>>>, <<"a", <<<<0, 2>>, <<0, 1>>>>>>}
                   [] h = 2 -> {<<"a", <<<<1, 2>>, <<1, 2>>>>>>}],
   feeds  |-> FALSE]

\* [1;2] . [3;4;5], which do not fit.
Uneven ==
  [groups |-> << <<Input("a", 0, Pair, {}),
                   Input("b", 0, {<<<<0, 3>>>>, <<<<1, 3>>>>, <<<<2, 3>>>>}, {})>> >>,
   brings |-> [h \in Pusher |->
                 CASE h = 0 -> {<<"a", <<<<1, 2>>>>>>, <<"b", <<<<0, 3>>>>>>}
                   [] h = 1 -> {<<"a", <<<<0, 2>>>>>>, <<"b", <<<<1, 3>>>>>>}
                   [] h = 2 -> {<<"b", <<<<2, 3>>>>>>}],
   feeds  |-> FALSE]

\* [[],[1;2]], not gathered.
Empty ==
  [groups |-> << <<Input("a", 0, {<<<<1, 2>>, <<0, 2>>>>, <<<<1, 2>>, <<1, 2>>>>}, {<<<<0, 2>>>>})>> >>,
   brings |-> [h \in {0, 1} |->
                 CASE h = 0 -> {<<"a", <<<<0, 2>>>>>>, <<"a", <<<<1, 2>>, <<0, 2>>>>>>}
                   [] h = 1 -> {<<"a", <<<<1, 2>>, <<1, 2>>>>>>}],
   feeds  |-> FALSE]

None == [groups |-> <<>>, brings |-> [h \in {0} |-> {}], feeds |-> FALSE]

DeepDef == [deep |-> Deep]

ShapesDef ==
  [cross |-> Cross, dot |-> Dot, deep |-> Deep, gather |-> Gather, uneven |-> Uneven,
   empty |-> Empty, none |-> None]
=============================================================================
