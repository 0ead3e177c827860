------------------------------ MODULE MCCodec -------------------------------
(***************************************************************************)
(* Codec for TLC: integers of 8 bits, of which a digit takes 3, tags and   *)
(* sizes of 2 bits, and types that are nested in each other; what is written *)
(* is read as the same types or as others.                                 *)
(***************************************************************************)
EXTENDS Codec

Vector(t) == [kind |-> "range", of |-> t, keeps |-> TRUE]
Tree(t) == [kind |-> "range", of |-> t, keeps |-> FALSE]
Tuple(ts) == [kind |-> "parts", of |-> ts, pair |-> FALSE]

MCShape ==
  [int |-> [kind |-> "signed"], unsigned |-> [kind |-> "unsigned"],
   char |-> [kind |-> "plain"], short |-> [kind |-> "plain"],
   ints |-> Vector("int"), string |-> Vector("char"), strings |-> Vector("string"),
   set |-> Tree("unsigned"), map |-> Tree("pair"),
   pair |-> [kind |-> "parts", of |-> <<"char", "ints">>, pair |-> TRUE],
   record |-> Tuple(<<"char", "set", "string">>)]

MCValues ==
  [int |-> -128..127, unsigned |-> 0..255, char |-> 0..9, short |-> 0..9,
   ints |-> {<<>>, <<1>>, <<2>>, <<3, -4>>}, string |-> {<<>>, <<1>>, <<2>>, <<2, 3>>, <<1, 2, 3, 4>>},
   strings |-> {<<<<1>>, <<>>, <<2, 3>>>>}, set |-> {<<>>, <<9>>}, map |-> {<<<<1, <<2>>>>>>},
   pair |-> {<<1, <<2>>>>}, record |-> {<<1, <<>>, <<2, 3>>>>, <<1, <<9>>, <<2>>>>}]

\* Hashes of 8 bits, where a tag has 2: some types share one, like short and set.
MCHash ==
  [int |-> 5, unsigned |-> 9, char |-> 1, short |-> 2, ints |-> 77, string |-> 192, strings |-> 45,
   set |-> 128, map |-> 228, pair |-> 0, record |-> 22]

V(t, v) == [type |-> t, value |-> v]
Same(vs) == [values |-> vs, expected |-> [k \in DOMAIN vs |-> vs[k].type], duplex |-> FALSE]
As(vs, ts) == [values |-> vs, expected |-> ts, duplex |-> FALSE]

MCTransfers ==
  {Same(<<V("int", n)>>) : n \in -128..127} \cup
  {Same(<<V("unsigned", n)>>) : n \in {0, 7, 8, 63, 64, 128, 255}} \cup
  {Same(<<V("ints", <<3, -4>>), V("char", 5)>>),
   Same(<<V("strings", <<<<1>>, <<>>, <<2, 3>>>>), V("short", 1)>>),
   Same(<<V("string", <<1, 2, 3, 4>>), V("char", 1)>>),
   Same(<<V("record", <<1, <<>>, <<2, 3>>>>), V("char", 1)>>),
   Same(<<V("record", <<1, <<9>>, <<2>>>>), V("char", 1)>>),
   Same(<<V("map", <<<<1, <<2>>>>>>), V("char", 3)>>),
   Same(<<V("pair", <<1, <<2>>>>), V("char", 3)>>),
   As(<<V("char", 1)>>, <<"short">>),
   As(<<V("string", <<1>>), V("char", 1)>>, <<"record", "char">>),
   As(<<V("ints", <<1>>), V("char", 1)>>, <<"ints", "short">>),
   As(<<V("unsigned", 9)>>, <<"char">>), As(<<V("short", 1)>>, <<"set">>),
   [Same(<<V("string", <<1>>), V("char", 3)>>) EXCEPT !.duplex = TRUE]}
=============================================================================
