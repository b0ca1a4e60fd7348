------------------------------ MODULE MCSpdlog ------------------------------
(***************************************************************************)
(* An instance of Spdlog for TLC: lines of the size of a file and larger,  *)
(* days of three minutes, and times at midnight, noon and before midnight, *)
(* at the ends of years, and east and west of Greenwich.  Fields of all    *)
(* combinations of parts with each type of argument; pairs of fields that  *)
(* name arguments in every way; and all strings of four of the characters  *)
(* that the format reads.  Keys of up to seven bytes, zero or with the     *)
(* sign bit, so that every remainder occurs with and without a block of    *)
(* four before it.                                                         *)
(***************************************************************************)
EXTENDS Spdlog, TLC

LinesOf == [k \in Kinds |-> CASE k = "simple" -> 2 [] k = "rotating" -> 5 [] k = "daily" -> 3]

SomeTimes ==
  {[year |-> 100, mon |-> 1, mday |-> 9, wday |-> 3, hour |-> 0, min |-> 7, sec |-> 60, ns |-> 7000009, offset |-> 0],
   [year |-> 99, mon |-> 11, mday |-> 31, wday |-> 5, hour |-> 12, min |-> 59, sec |-> 0, ns |-> 999999999, offset |-> 330],
   [year |-> 116, mon |-> 0, mday |-> 1, wday |-> 5, hour |-> 23, min |-> 0, sec |-> 5, ns |-> 0, offset |-> -30]}

Field0 == [kind |-> "field", id |-> <<>>, fill |-> <<>>, align |-> <<>>, sign |-> <<>>, hash |-> <<>>,
           zero |-> <<>>, width |-> <<>>, precision |-> <<>>, type |-> <<>>]
Opt(S) == {<<>>} \cup {<<c>> : c \in S}
Args1 ==
  {[type |-> "INT", value |-> -128], [type |-> "INT", value |-> 100], [type |-> "UINT", value |-> 0], [type |-> "BOOL", value |-> 1],
   [type |-> "CHAR", value |-> 97, text |-> <<"a">>], [type |-> "CSTRING", value |-> 0, text |-> <<>>],
   [type |-> "CSTRING", value |-> 31, text |-> <<"a", "b">>], [type |-> "STRING", text |-> <<"{", "}", "a">>],
   [type |-> "POINTER", value |-> 200]}
FullFields ==
  {f \in [kind : {"field"}, id : {<<>>}, fill : Opt({"*"}), align : Opt({"<", ">", "=", "^"}), sign : Opt({"+", "-", " "}),
          hash : Opt({"#"}), zero : Opt({"0"}), width : {<<>>, <<"7">>}, precision : {<<>>, <<".", "1">>, <<".", "4">>},
          type : Opt({"d", "x", "B", "o", "s", "c", "p"})] : f.align = <<>> => f.fill = <<>>}
A1 == [type |-> "NAMED_ARG", name |-> <<"a", "1">>, arg |-> [type |-> "INT", value |-> 3]]
A2 == [type |-> "NAMED_ARG", name |-> <<"b">>, arg |-> [type |-> "STRING", text |-> <<"x">>]]
A3 == [type |-> "UINT", value |-> 200]
A4 == [type |-> "LONG_LONG", value |-> 2]
ArgLists == {<<>>, <<A1>>, <<A1, A2>>, <<A4, A1, A3>>, <<A2, A1, A4, A1>>}
Numbers == {<<>>, <<"3">>, <<"2", "0", "0">>, <<"{", "}">>, <<"{", "1", "}">>, <<"{", "a", "1", "}">>}
Refs1 == {<<>>, <<"0">>, <<"1">>, <<"3">>, <<"a", "1">>, <<"b">>}
RefFields == {[Field0 EXCEPT !.id = r, !.width = w, !.precision = p] : r \in Refs1, w \in Numbers,
               p \in {<<>>, <<".", "{", "}">>, <<".", "{", "0", "}">>}}
PlainFields == {[Field0 EXCEPT !.id = r] : r \in Refs1}
Lit == [kind |-> "text", chars |-> <<"a", "{", "}", "}">>]
Alphabet == {"{", "}", ":", "0", "<", ".", "a", "="}
Raws == UNION {[1..n -> Alphabet] : n \in 0..4}
Nothing == [kind |-> "text", chars |-> <<>>]
SomeInputs ==
  <<[items |-> <<{Lit}, FullFields, {Nothing}>>, args |-> {<<a>> : a \in Args1}],
    [items |-> <<RefFields, {Lit}, PlainFields>>, args |-> ArgLists],
    [items |-> <<{Nothing}, {[kind |-> "raw", chars |-> r] : r \in Raws}, {Nothing}>>, args |-> {<<A1, A2>>}]>>

Symmetry == Permutations(Threads) \cup Permutations(LoggerNames)
=============================================================================
