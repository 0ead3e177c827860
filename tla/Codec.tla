-------------------------------- MODULE Codec --------------------------------
(***************************************************************************)
(* detail/meta/serde_stream_base.hpp: values of C++ types written to and   *)
(* read from a stream.  A tag (the hash of the type, condensed: two types  *)
(* may have the same one) goes before a value, unless the value is an      *)
(* integer or part of another value: that is what the member               *)
(* _M_range_dependent of the stream says.                                  *)
(*                                                                         *)
(* A stream has two ends, each an object with one such member.  At end "a" *)
(* a coroutine writes and at end "b" one reads; if the program is duplex,  *)
(* others do the same in the opposite direction at the same time.  A       *)
(* coroutine is what it has still to do, the instructions of `todo`; it    *)
(* may be suspended between any two.                                       *)
(*                                                                         *)
(* On the wire are tags, sizes, plain values and integers, the last as     *)
(* lists of digits; whoever takes one for another reads garbage.           *)
(***************************************************************************)
EXTENDS Integers, Sequences

CONSTANTS
  Modulus,     \* 2^w for integers of w bits
  Base,        \* 2^7 in the code: a digit has 7 bits
  SizeModulus, \* 2^16 in the code: a desc_t, which tags and sizes are, has 16 bits
  Shape,       \* what each type is
  Hash,        \* the hash_code() of each type, of 64 bits
  Values,      \* the values of each type
  Transfers    \* what the coroutines do

ASSUME CodecAssumption ==
  /\ Modulus \in Nat \ {0} /\ Modulus % 4 = 0
  /\ Base \in Nat \ {0, 1} /\ SizeModulus \in Nat \ {0}
  /\ DOMAIN Values = DOMAIN Shape /\ Hash \in [DOMAIN Shape -> Nat]
  /\ \A t \in DOMAIN Shape :
       CASE Shape[t].kind = "signed" -> Values[t] \subseteq -(Modulus \div 2)..(Modulus \div 2 - 1)
         [] Shape[t].kind = "unsigned" -> Values[t] \subseteq 0..(Modulus - 1)
         [] Shape[t].kind = "plain" -> TRUE
         [] Shape[t].kind = "range" ->
              /\ Shape[t].keeps \in BOOLEAN /\ Shape[t].of \in DOMAIN Shape
              /\ Values[t] \subseteq Seq(Values[Shape[t].of])
         [] Shape[t].kind = "parts" ->
              /\ Shape[t].pair \in BOOLEAN /\ Shape[t].of \in Seq(DOMAIN Shape)
              /\ \A v \in Values[t] :
                   /\ v = [i \in DOMAIN Shape[t].of |-> v[i]]
                   /\ \A i \in DOMAIN Shape[t].of : v[i] \in Values[Shape[t].of[i]]
         [] OTHER -> FALSE
  /\ \A x \in Transfers :
       /\ x.duplex \in BOOLEAN /\ x.expected \in Seq(DOMAIN Shape)
       /\ x.values = [i \in 1..Len(x.values) |-> x.values[i]] /\ Len(x.values) \in Nat
       /\ \A i \in DOMAIN x.values :
            x.values[i].type \in DOMAIN Shape /\ x.values[i].value \in Values[x.values[i].type]

VARIABLES
  transfer,       \* what is transferred; never changes
  rangeDependent, \* _M_range_dependent of each end
  tokens,         \* what is on its way from each end
  todo,           \* the instructions each coroutine has still to carry out
  saved,          \* the values of previous_state that each has saved
  sent,           \* what the writer at each end has written, leaf by leaf
  result,         \* what the reader of it has read
  outcome         \* of each reader: reading, read, threw or garbled

codecVars == <<transfer, rangeDependent, tokens, todo, saved, sent, result, outcome>>

-----------------------------------------------------------------------------
(* Integers: zigzag and groups of bits *)

\* Exclusive or of u with 0, 1, -1 or -2: the other bits stay, or all are inverted.
Mixed(u, s) ==
  LET low == IF s % 2 = 0 THEN u % 2 ELSE 1 - (u % 2)
      high == u - (u % 2)
  IN IF s < 0 THEN Modulus - 2 - high + low ELSE high + low

\* digits - 1 is one less than the sign bit: a value that needs the bit below the
\* sign is mixed with 1 or -2.
Zigzag(v) == Mixed((2 * v) % Modulus, v \div (Modulus \div 4))

\* Bug: the lowest bit is not spread over the others.
UnzigzagNotSpread(u) ==
  LET w == Mixed(u \div 2, u % 2) IN IF w < Modulus \div 2 THEN w ELSE w - Modulus

Unzigzag(u) ==
  LET w == Mixed(u \div 2, -(u % 2)) IN IF w < Modulus \div 2 THEN w ELSE w - Modulus

\* A digit that others follow has Base added, the highest bit of its byte.
Digits[u \in 0..(Modulus - 1)] ==
  IF u < Base THEN <<u>> ELSE <<(u % Base) + Base>> \o Digits[u \div Base]

\* The last digit is the first one without it.
DigitLists ==
  {digits \in Seq(0..(2 * Base - 1)) : digits # <<>> /\ \A i \in DOMAIN digits : digits[i] < Base <=> i = Len(digits)}

Number[digits \in DigitLists] ==
  IF digits[1] < Base THEN digits[1]
  ELSE ((digits[1] - Base) + Base * Number[Tail(digits)]) % Modulus

Token(kind, content) == [kind |-> kind, content |-> content]

IntegerToken(kind, v) == Token("digits", Digits[IF kind = "signed" THEN Zigzag(v) ELSE v])
IntegerOf(kind, token) ==
  IF kind = "signed" THEN Unzigzag(Number[token.content]) ELSE Number[token.content]

-----------------------------------------------------------------------------
(* Tags and sizes: 64 bits become 16 *)

Xor[pair \in Nat \X Nat] ==
  IF pair = <<0, 0>> THEN 0
  ELSE ((pair[1] + pair[2]) % 2) + (2 * Xor[<<pair[1] \div 2, pair[2] \div 2>>])

\* The bits from that of value m on are laid over the others.
Folded(u, m) == IF u < m THEN u ELSE Xor[<<u \div m, u % m>>]

Condense(u) == Folded(Folded(u, SizeModulus * SizeModulus), SizeModulus)

Tag(t) == Condense(Hash[t])

-----------------------------------------------------------------------------
Ends == {"a", "b"}
Other(e) == IF e = "a" THEN "b" ELSE "a"
Writer(e) == <<e, "write">>
Reader(e) == <<e, "read">>  \* reads what the other end has written
Coros == Ends \X {"write", "read"}

Put(t, v) == [op |-> "put", type |-> t, value |-> v]
Get(t) == [op |-> "get", type |-> t]
Raw(t, v) == [op |-> "raw", type |-> t, value |-> v]
RawGet(t) == [op |-> "rawget", type |-> t]
Enter(t, v) == [op |-> "enter", type |-> t, value |-> v]
EnterGet(t) == [op |-> "enterget", type |-> t]
SizeGet(t) == [op |-> "sizeget", type |-> t]
Restore == [op |-> "leave"]
RestoreEmpty(t, mark) == [op |-> "leave", type |-> t, mark |-> mark]

\* Which ends write: the coroutines of the others have nothing to do.
Writing(x) == IF x.duplex THEN Ends ELSE {"a"}

CodecInit ==
  /\ transfer \in Transfers
  /\ rangeDependent = [e \in Ends |-> FALSE]
  /\ tokens = [e \in Ends |-> <<>>]
  /\ LET puts == [i \in DOMAIN transfer.values |-> Put(transfer.values[i].type, transfer.values[i].value)]
         gets == [i \in DOMAIN transfer.expected |-> Get(transfer.expected[i])]
     IN todo = [c \in Coros |->
                  IF c[2] = "write" THEN IF c[1] \in Writing(transfer) THEN puts ELSE <<>>
                  ELSE IF Other(c[1]) \in Writing(transfer) THEN gets ELSE <<>>]
  /\ saved = [c \in Coros |-> <<>>]
  /\ sent = [e \in Ends |-> <<>>]
  /\ result = [e \in Ends |-> <<>>]
  /\ outcome = [e \in Ends |-> "reading"]

Doing(c, op) == todo[c] # <<>> /\ Head(todo[c]).op = op
Instruction(c) == Head(todo[c])
Kind(c) == Shape[Instruction(c).type].kind

\* The instruction is done, and those come in its place.
Instead(c, instructions) == todo' = [todo EXCEPT ![c] = instructions \o Tail(@)]

\* The members of a value of type t: the elements of a range, or its parts.
PartType(t, i) == IF Shape[t].kind = "range" THEN Shape[t].of ELSE Shape[t].of[i]
PutParts(t, v) == [i \in DOMAIN v |-> Put(PartType(t, i), v[i])]
GetParts(t, places) == [i \in places |-> Get(PartType(t, i))]

IsInteger(kind) == kind \in {"signed", "unsigned"}
Simple(t) == Shape[t].kind \notin {"range", "parts"}
Tagged(t) == ~IsInteger(Shape[t].kind) /\ ~(Shape[t].kind = "parts" /\ Shape[t].pair)

-----------------------------------------------------------------------------
(* serialize *)

PutTokens(e, new) == tokens' = [tokens EXCEPT ![e] = @ \o new]
Sends(e, leaf) == sent' = [sent EXCEPT ![e] = Append(@, leaf)]

\* What follows the tag.
Body(t, v) ==
  CASE Simple(t) -> <<Raw(t, v)>>
    [] ~Simple(t) /\ Tagged(t) -> <<Enter(t, v)>>
    [] OTHER -> PutParts(t, v)

\* serialize, up to the tag.
Serialize(e) ==
  LET c == Writer(e)
  IN /\ Doing(c, "put")
     /\ Instead(c, Body(Instruction(c).type, Instruction(c).value))
     /\ PutTokens(e, IF Tagged(Instruction(c).type) /\ ~rangeDependent[e]
                 THEN <<Token("tag", Tag(Instruction(c).type))>> ELSE <<>>)
     /\ UNCHANGED <<transfer, rangeDependent, saved, sent, result, outcome>>

\* The bytes of an integer or of a plain value.
WriteRaw(e) ==
  LET c == Writer(e)
  IN /\ Doing(c, "raw")
     /\ PutTokens(e, <<IF IsInteger(Kind(c)) THEN IntegerToken(Kind(c), Instruction(c).value)
                   ELSE Token("plain", <<Instruction(c).type, Instruction(c).value>>)>>)
     /\ Sends(e, <<Instruction(c).type, Instruction(c).value>>)
     /\ Instead(c, <<>>)
     /\ UNCHANGED <<transfer, rangeDependent, saved, result, outcome>>

\* previous_state is saved; a range puts its size.
EnterValue(e) ==
  LET c == Writer(e)
      v == Instruction(c).value
  IN /\ Doing(c, "enter")
     /\ saved' = [saved EXCEPT ![c] = Append(@, rangeDependent[e])]
     /\ rangeDependent' = [rangeDependent EXCEPT ![e] = TRUE]
     /\ IF Kind(c) = "range"
        THEN PutTokens(e, <<Token("size", Condense(Len(v)))>>) /\ Sends(e, <<Instruction(c).type, Len(v)>>)
        ELSE UNCHANGED <<tokens, sent>>
     /\ Instead(c, Append(PutParts(Instruction(c).type, v), Restore))
     /\ UNCHANGED <<transfer, result, outcome>>

-----------------------------------------------------------------------------
(* deserialize *)

\* The next token, of what the other end has written.
Incoming(e) == Head(tokens[Other(e)])
Take(e) == tokens' = [tokens EXCEPT ![Other(e)] = Tail(@)]
Obtains(e, leaf) == result' = [result EXCEPT ![e] = Append(@, leaf)]

\* The reader ends without a value, by an exception or in bytes that mean something else.
Fail(e, how) ==
  /\ outcome' = [outcome EXCEPT ![e] = how]
  /\ todo' = [todo EXCEPT ![Reader(e)] = <<>>]

BodyGet(t) ==
  CASE Simple(t) -> <<RawGet(t)>>
    [] ~Simple(t) /\ Tagged(t) -> <<EnterGet(t)>>
    [] OTHER -> GetParts(t, DOMAIN Shape[t].of)

\* deserialize, where no tag is expected ...
Deserialize(e) ==
  LET c == Reader(e)
  IN /\ Doing(c, "get") /\ (~Tagged(Instruction(c).type) \/ rangeDependent[e])
     /\ Instead(c, BodyGet(Instruction(c).type))
     /\ UNCHANGED <<transfer, rangeDependent, tokens, saved, sent, result, outcome>>

\* ... and where one is: another one is an exception, but not that of another type.
Verify(e) ==
  LET c == Reader(e)
      t == Instruction(c).type
  IN /\ Doing(c, "get") /\ Tagged(t) /\ ~rangeDependent[e] /\ tokens[Other(e)] # <<>>
     /\ Take(e)
     /\ IF Incoming(e) = Token("tag", Tag(t)) THEN Instead(c, BodyGet(t)) /\ UNCHANGED outcome
        ELSE Fail(e, IF Incoming(e).kind = "tag" THEN "threw" ELSE "garbled")
     /\ UNCHANGED <<transfer, rangeDependent, saved, sent, result>>

ReadRaw(e) ==
  LET c == Reader(e)
      t == Instruction(c).type
  IN /\ Doing(c, "rawget") /\ tokens[Other(e)] # <<>>
     /\ Take(e)
     /\ IF IsInteger(Kind(c)) /\ Incoming(e).kind = "digits"
        THEN Obtains(e, <<t, IntegerOf(Kind(c), Incoming(e))>>) /\ Instead(c, <<>>) /\ UNCHANGED outcome
        ELSE IF Kind(c) = "plain" /\ Incoming(e).kind = "plain" /\ Incoming(e).content[1] = t
        THEN Obtains(e, Incoming(e).content) /\ Instead(c, <<>>) /\ UNCHANGED outcome
        ELSE Fail(e, "garbled") /\ UNCHANGED result
     /\ UNCHANGED <<transfer, rangeDependent, saved, sent>>

EnterRead(e) ==
  LET c == Reader(e)
      t == Instruction(c).type
  IN /\ Doing(c, "enterget")
     /\ saved' = [saved EXCEPT ![c] = Append(@, rangeDependent[e])]
     /\ rangeDependent' = [rangeDependent EXCEPT ![e] = TRUE]
     /\ Instead(c, IF Kind(c) = "range" THEN <<SizeGet(t)>>
                   ELSE Append(GetParts(t, DOMAIN Shape[t].of), Restore))
     /\ UNCHANGED <<transfer, tokens, sent, result, outcome>>

\* A container with neither push_back nor push keeps none of the elements.
ReadSize(e) ==
  LET c == Reader(e)
      t == Instruction(c).type
      leave == IF Shape[t].keeps THEN Restore ELSE RestoreEmpty(t, Len(result[e]))
  IN /\ Doing(c, "sizeget") /\ tokens[Other(e)] # <<>>
     /\ Take(e)
     /\ IF Incoming(e).kind = "size"
        THEN /\ Obtains(e, <<t, Incoming(e).content>>)
             /\ Instead(c, Append(GetParts(t, 1..Incoming(e).content), leave))
             /\ UNCHANGED outcome
        ELSE Fail(e, "garbled") /\ UNCHANGED result
     /\ UNCHANGED <<transfer, rangeDependent, saved, sent>>

-----------------------------------------------------------------------------
\* previous_state is restored, at the end of a value that was entered.
LeaveValue(c) ==
  LET e == c[1]
  IN /\ Doing(c, "leave")
     /\ rangeDependent' = [rangeDependent EXCEPT ![e] = saved[c][Len(saved[c])]]
     /\ saved' = [saved EXCEPT ![c] = SubSeq(@, 1, Len(@) - 1)]
     /\ result' = IF Instruction(c) = Restore THEN result
                  ELSE [result EXCEPT ![e] = Append(SubSeq(@, 1, Instruction(c).mark), <<Instruction(c).type, 0>>)]
     /\ Instead(c, <<>>)
     /\ UNCHANGED <<transfer, tokens, sent, outcome>>

ReadEnd(e) ==
  /\ outcome[e] = "reading" /\ todo[Reader(e)] = <<>>
  /\ outcome' = [outcome EXCEPT ![e] = "read"]
  /\ UNCHANGED <<transfer, rangeDependent, tokens, todo, saved, sent, result>>

CodecNext ==
  \/ \E e \in Ends : Serialize(e) \/ WriteRaw(e) \/ EnterValue(e)
  \/ \E e \in Ends : Deserialize(e) \/ Verify(e) \/ ReadRaw(e) \/ EnterRead(e) \/ ReadSize(e) \/ ReadEnd(e)
  \/ \E c \in Coros : LeaveValue(c)

CodecSpec == CodecInit /\ [][CodecNext]_codecVars

-----------------------------------------------------------------------------
\* The leaves that come back: integers that zigzag keeps, sizes that fit, containers
\* that can be filled.
Fits(leaf) ==
  LET t == leaf[1]
      n == leaf[2]
  IN /\ Shape[t].kind = "signed" => n \in -(Modulus \div 4)..(Modulus \div 4 - 1)
     /\ Shape[t].kind = "range" => n < SizeModulus /\ (Shape[t].keeps \/ n = 0)

\* What is read is what was written, leaf by leaf, whatever is nested in whatever and
\* wherever the coroutines are suspended, unless the stream is used in both directions
\* at a time or a leaf does not come back by itself.  The first value that has another
\* tag than that of the type the reader expects gives it an exception: two types that
\* share a tag are not told apart (serde_stream_base.hpp:556), nor are integers and
\* pairs, which have none.
DecodesToItself ==
  LET types == [i \in DOMAIN transfer.values |-> transfer.values[i].type]
      differsAt(i) == /\ Tagged(types[i]) /\ Tagged(transfer.expected[i]) /\ Tag(types[i]) # Tag(transfer.expected[i])
                      /\ \A j \in 1..(i - 1) : types[j] = transfer.expected[j]
  IN ~transfer.duplex /\ (\A i \in DOMAIN sent["a"] : Fits(sent["a"][i])) =>
       /\ types = transfer.expected =>
            outcome["b"] = "reading" \/ (outcome["b"] = "read" /\ result["b"] = sent["a"])
       /\ (\E i \in DOMAIN types \cap DOMAIN transfer.expected : differsAt(i)) =>
            outcome["b"] \in {"reading", "threw"}

\* What serde_stream_base.hpp:17-19 says of the library, that it "takes arbitrary data
\* types and reversibly turns them into different representations": whatever is written
\* at one end, and read as the same types at the other, is read as it was written.
Reversible ==
  LET types == [i \in DOMAIN transfer.values |-> transfer.values[i].type]
  IN types = transfer.expected =>
       \A e \in Writing(transfer) :
         outcome[Other(e)] = "reading" \/ (outcome[Other(e)] = "read" /\ result[Other(e)] = sent[e])
=============================================================================
