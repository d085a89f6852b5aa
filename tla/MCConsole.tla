----------------------------- MODULE MCConsole ------------------------------
(* A byte for an int, a buffer of six and a screen of three rows of four:  *)
(* a text of two calls fills the screen and goes on at its top.            *)
EXTENDS Console

A == 97

Item(s, a) == [spec |-> s, arg |-> a]

\* Zero, a digit and two, both ends of an int, and numbers only unsigned ones
\* tell; hexadecimals; text that is empty, ends a row, and has a newline.
Singles ==
  { Item("d", 0), Item("d", -1), Item("d", 10), Item("d", 127), Item("d", -127),
    Item("d", -128), Item("u", 200), Item("u", 105), Item("llu", 300), Item("x", 175),
    Item("llx", 4251), Item("s", <<>>), Item("s", <<A, A, A, A>>), Item("c", <<A>>),
    Item("%", <<>>), Item("?", <<A>>), Item("text", <<NEWLINE>>) }

Pairs ==
  { <<Item("text", <<A, NEWLINE>>), Item("d", -42)>>, <<Item("d", 99), Item("x", 9)>>,
    <<Item("s", <<A, A, A>>), Item("u", 64)>>, <<Item("d", -100), Item("llx", 0)>> }

Both == {<<i>> : i \in Singles} \cup Pairs
=============================================================================
