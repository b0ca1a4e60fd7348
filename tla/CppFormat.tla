----------------------------- MODULE CppFormat ------------------------------
(***************************************************************************)
(* BasicFormatter of cppformat (spdlog's details/format.h and format.cc):  *)
(* a format string is read from left to right, the arguments it names are  *)
(* taken from an ArgList, and what they print as goes to the writer.  One  *)
(* step reads one part of a replacement field.  Characters are strings of  *)
(* one letter; numbers have Bits bits.  Arguments are integers, booleans,  *)
(* characters, strings and pointers; floating point, wide and user-defined *)
(* types are not here.                                                     *)
(***************************************************************************)
EXTENDS Integers, SequencesExt, FiniteSetsExt, TLC

CONSTANTS
  Families,   \* what is formatted: tuples of three items from three sets, and arguments
  Letters,    \* the letters of names and types
  Bits,       \* bits of int and unsigned
  MaxPacked   \* MAX_PACKED_ARGS

VARIABLES
  input,            \* the items meant and the arguments
  format_str,       \* the format string they are written as
  s, start,         \* the next character, and the first not yet written
  writer_,          \* BasicWriter: its buffer
  next_arg_index_,  \* FormatterBase: -1 once arguments are named or numbered
  arg, spec,        \* the argument of the field being read, and its FormatSpec
  at                \* the part read next, or "done", or "failed": it threw

formatVars == <<input, format_str, s, start, writer_, next_arg_index_, arg, spec, at>>

NUL == "NUL"
Digits == <<"0", "1", "2", "3", "4", "5", "6", "7", "8", "9">>
IsDigit(c) == c \in ToSet(Digits)
DigitOf(c) == (CHOOSE i \in 1..10 : Digits[i] = c) - 1
MaxInt == 2 ^ (Bits - 1) - 1

CharAt(i) == IF i <= Len(format_str) THEN format_str[i] ELSE NUL

\* The first place from p on with a character not in C.
RunEnd(p, C) == CHOOSE q \in p..Len(format_str) + 1 :
                  CharAt(q) \notin C /\ \A r \in p..q - 1 : CharAt(r) \in C
-----------------------------------------------------------------------------
(* The arguments.                                                          *)

NoArg == [type |-> "NONE"]
IntTypes == {"INT", "UINT", "LONG_LONG", "ULONG_LONG"}
LastInteger(a) == a.type \in IntTypes \cup {"BOOL", "CHAR"}

\* ArgList: the types of the first MaxPacked arguments are packed in one word.
\* With as many arguments or more, an entry of type NONE ends the array; the
\* types of the others are in the array when there are more.
use_values == Len(input.args) < MaxPacked
StoredType(i) ==
  CASE i = Len(input.args) -> "NONE"
    [] i < Len(input.args) /\ Len(input.args) > MaxPacked -> input.args[i + 1].type

ArgAt[i \in Nat] ==
  IF i < MaxPacked
  THEN IF i < Len(input.args) THEN input.args[i + 1] ELSE NoArg
  ELSE IF use_values THEN NoArg
  ELSE LET last == CHOOSE j \in MaxPacked..Len(input.args) :
                     StoredType(j) = "NONE" /\ \A k \in MaxPacked..j - 1 : StoredType(k) # "NONE"
       IN IF i >= last THEN NoArg ELSE input.args[i + 1]

do_get_arg[i \in Nat] == LET a == ArgAt[i] IN IF a.type = "NAMED_ARG" THEN a.arg ELSE a

\* ArgMap: the first argument of a name is the one found.
find(name) ==
  LET found == {i \in 0..Len(input.args) : ArgAt[i].type = "NAMED_ARG" /\ ArgAt[i].name = name}
  IN IF found = {} THEN NoArg ELSE ArgAt[Min(found)].arg

\* What is read at a place: where it ends, its value, whether it throws.
parse_nonnegative_int[p \in Nat] ==
  LET q == RunEnd(p, ToSet(Digits))
      value[r \in p - 1..q - 1] ==
        IF r < p THEN 0 ELSE (value[r - 1] * 10 + DigitOf(format_str[r])) % 2 ^ Bits
      wrapped == \E r \in p..q - 1 : value[r] < value[r - 1]
  IN [s |-> q, value |-> value[q - 1], bad |-> wrapped \/ value[q - 1] > MaxInt]

Got(q, a, next) == [s |-> q, arg |-> a, next |-> next, bad |-> a.type = "NONE"]

next_arg(p, next) ==
  IF next >= 0 THEN Got(p, do_get_arg[next], next + 1) ELSE Got(p, NoArg, next)

check_no_auto_indexSlip(next) == TRUE
check_no_auto_index(next) == next <= 0

parse_arg_index(p, next) ==
  IF ~IsDigit(CharAt(p)) THEN next_arg(p, next)
  ELSE LET n == parse_nonnegative_int[p]
       IN IF n.bad \/ ~check_no_auto_index(next) THEN Got(n.s, NoArg, next)
          ELSE Got(n.s, do_get_arg[n.value], -1)

parse_arg_name(p, next) ==
  LET q == RunEnd(p, Letters \cup ToSet(Digits))
  IN IF ~check_no_auto_index(next) THEN Got(q, NoArg, next)
     ELSE Got(q, find(SubSeq(format_str, p, q - 1)), -1)

ParseArg(p, next) ==
  IF CharAt(p) \in Letters THEN parse_arg_name(p, next) ELSE parse_arg_index(p, next)

\* A width or a precision: digits, or an argument in braces.
ParseNumber(p, next) ==
  IF IsDigit(CharAt(p))
  THEN LET n == parse_nonnegative_int[p]
       IN [s |-> n.s, value |-> n.value, next |-> next, bad |-> n.bad]
  ELSE LET g == ParseArg(p + 1, next)
           good == /\ ~g.bad /\ CharAt(g.s) = "}" /\ g.arg.type \in IntTypes
                   /\ g.arg.value \in 0..MaxInt
       IN [s |-> g.s + 1, value |-> IF good THEN g.arg.value ELSE 0, next |-> g.next, bad |-> ~good]
-----------------------------------------------------------------------------
(* The writer: what an argument prints as, or that it throws.              *)

Prints(text) == [bad |-> FALSE, text |-> text]
Throws == [bad |-> TRUE]
Repeat(c, n) == [i \in 1..n |-> c]

fill_padding(text, sp) ==
  LET padding == sp.width - Len(text)
      left == padding \div 2
  IN Repeat(sp.fill, left) \o text \o Repeat(sp.fill, padding - left)

\* write_str of a text and a width, and visit_char's way with one character.
Padded(text, sp) ==
  LET padding == Repeat(sp.fill, sp.width - Len(text))
  IN CASE sp.width <= Len(text)  -> text
       [] sp.align = "RIGHT"     -> padding \o text
       [] sp.align = "CENTER"    -> fill_padding(text, sp)
       [] OTHER                  -> text \o padding

write_str(text, sp) ==
  IF sp.type \notin {"", "s"} THEN Throws
  ELSE Prints(Padded(IF sp.precision >= 0 /\ sp.precision < Len(text)
                     THEN SubSeq(text, 1, sp.precision) ELSE text, sp))

\* prepare_int_buffer: with a precision, zeros make up a number of that many
\* digits, which is then padded.
prepare_without_precision(digits, sp, prefix) ==
  LET size == Len(prefix) + Len(digits)
      padding == Repeat(sp.fill, sp.width - size)
  IN CASE sp.width <= size      -> prefix \o digits
       [] sp.align = "LEFT"     -> prefix \o digits \o padding
       [] sp.align = "CENTER"   -> fill_padding(prefix \o digits, sp)
       [] sp.align = "NUMERIC"  -> prefix \o padding \o digits
       [] OTHER                 -> padding \o prefix \o digits

prepare_int_buffer(digits, sp, prefix) ==
  IF sp.precision <= Len(digits) THEN prepare_without_precision(digits, sp, prefix)
  ELSE LET pre == IF prefix # <<>> /\ Last(prefix) = "0" THEN Front(prefix) ELSE prefix
           size == Len(pre) + sp.precision
           subspec == [width |-> size, fill |-> "0", align |-> "NUMERIC"]
           number == prepare_without_precision(digits, subspec, pre)
           padding == Repeat(sp.fill, sp.width - size)
       IN IF sp.align = "LEFT" THEN number \o padding ELSE padding \o number

Powers(t) == IF t = 0 THEN 0 ELSE 10 ^ t
\* The bits of n | 1.
BitLength(n) == Min({b \in 1..Bits : n < 2 ^ b})
count_digits(n) ==
  LET t == (BitLength(n) * 1233) \div 4096
  IN t - (IF n < Powers(t) THEN 1 ELSE 0) + 1

HexDigits(upper) ==
  Digits \o IF upper THEN <<"A", "B", "C", "D", "E", "F">> ELSE <<"a", "b", "c", "d", "e", "f">>
Numeral(n, base, size, upper) ==
  [i \in 1..size |-> HexDigits(upper)[((n \div base ^ (size - i)) % base) + 1]]

BaseOf == [t \in {"", "d"} |-> 10] @@ [t \in {"x", "X"} |-> 16] @@ [t \in {"b", "B"} |-> 2] @@ ("o" :> 8)

write_int(value, sp) ==
  LET abs_value == IF value < 0 THEN (0 - (value % 2 ^ Bits)) % 2 ^ Bits ELSE value
      sign == IF value < 0 THEN <<"-">>
              ELSE IF "SIGN" \notin sp.flags THEN <<>>
              ELSE IF "PLUS" \in sp.flags THEN <<"+">> ELSE <<" ">>
      hash == CASE "HASH" \notin sp.flags \/ BaseOf[sp.type] = 10 -> <<>>
                [] "HASH" \in sp.flags /\ BaseOf[sp.type] = 8      -> <<"0">>
                [] OTHER                                           -> <<"0", sp.type>>
      num_digits == IF BaseOf[sp.type] = 10 THEN count_digits(abs_value)
                    ELSE CHOOSE n \in 1..Bits : /\ abs_value < BaseOf[sp.type] ^ n
                                                /\ n = 1 \/ abs_value >= BaseOf[sp.type] ^ (n - 1)
  IN IF sp.type \notin DOMAIN BaseOf THEN Throws
     ELSE Prints(prepare_int_buffer(
                   Numeral(abs_value, BaseOf[sp.type], num_digits, sp.type = "X"), sp, sign \o hash))

write_pointer(value, sp) == write_int(value, [sp EXCEPT !.flags = {"HASH"}, !.type = "x"])

\* ArgFormatterBase.
visit_bool(value, sp) ==
  IF sp.type # "" THEN write_int(value, sp)
  ELSE write_str(IF value = 1 THEN <<"t", "r", "u", "e">> ELSE <<"f", "a", "l", "s", "e">>, sp)

visit_char(a, sp) ==
  CASE sp.type \notin {"", "c"}                  -> write_int(a.value, sp)
    [] sp.type \in {"", "c"} /\ (sp.align = "NUMERIC" \/ sp.flags # {}) -> Throws
    [] OTHER                                     -> Prints(Padded(a.text, sp))

visit_cstring(a, sp) ==
  IF sp.type = "p" THEN write_pointer(a.value, sp)
  ELSE IF a.value = 0 THEN Throws ELSE write_str(a.text, sp)

visit_pointer(value, sp) == IF sp.type \notin {"", "p"} THEN Throws ELSE write_pointer(value, sp)

visit(a, sp) ==
  CASE a.type \in IntTypes  -> write_int(a.value, sp)
    [] a.type = "BOOL"      -> visit_bool(a.value, sp)
    [] a.type = "CHAR"      -> visit_char(a, sp)
    [] a.type = "CSTRING"   -> visit_cstring(a, sp)
    [] a.type = "STRING"    -> write_str(a.text, sp)
    [] a.type = "POINTER"   -> visit_pointer(a.value, sp)
-----------------------------------------------------------------------------
(* The formatter: text, and fields {id:[[fill]align][sign][#][0][width]    *)
(* [.precision][type]}.                                                    *)

FreshSpec == [fill |-> " ", align |-> "DEFAULT", flags |-> {}, width |-> 0, precision |-> -1, type |-> ""]

Throw ==
  /\ at' = "failed"
  /\ UNCHANGED <<input, format_str, s, start, writer_, next_arg_index_, arg, spec>>

Write(last) == writer_' = writer_ \o SubSeq(format_str, start, last)

Plain ==
  /\ at = "text" /\ CharAt(s) \notin {"{", "}", NUL}
  /\ s' = s + 1
  /\ UNCHANGED <<input, format_str, start, writer_, next_arg_index_, arg, spec, at>>

Doubled ==
  /\ at = "text" /\ CharAt(s) \in {"{", "}"} /\ CharAt(s + 1) = CharAt(s)
  /\ Write(s)
  /\ s' = s + 2 /\ start' = s + 2
  /\ UNCHANGED <<input, format_str, next_arg_index_, arg, spec, at>>

Unmatched == at = "text" /\ CharAt(s) = "}" /\ CharAt(s + 1) # "}" /\ Throw

Field ==
  /\ at = "text" /\ CharAt(s) = "{" /\ CharAt(s + 1) # "{"
  /\ Write(s - 1)
  /\ LET g == ParseArg(s + 1, next_arg_index_) IN
     /\ arg' = g.arg /\ next_arg_index_' = g.next
     /\ s' = IF CharAt(g.s) = ":" THEN g.s + 1 ELSE g.s
     /\ at' = CASE g.bad -> "failed" [] ~g.bad /\ CharAt(g.s) = ":" -> "fill" [] OTHER -> "close"
  /\ spec' = FreshSpec
  /\ UNCHANGED <<input, format_str, start>>

Finish ==
  /\ at = "text" /\ CharAt(s) = NUL
  /\ Write(s - 1)
  /\ at' = "done"
  /\ UNCHANGED <<input, format_str, s, start, next_arg_index_, arg, spec>>

\* One part of a field is read: up to p, into sp, if it is legal.
Read(legal, p, sp, part) ==
  IF legal
  THEN /\ s' = p /\ spec' = sp /\ at' = part
       /\ UNCHANGED <<input, format_str, start, writer_, next_arg_index_, arg>>
  ELSE Throw

Numeric == LastInteger(arg)
Signed == Numeric /\ arg.type \notin {"UINT", "ULONG_LONG"}
AlignOf == "<" :> "LEFT" @@ ">" :> "RIGHT" @@ "=" :> "NUMERIC" @@ "^" :> "CENTER"
FlagsOf == "+" :> {"SIGN", "PLUS"} @@ "-" :> {"MINUS"} @@ " " :> {"SIGN"}

FillAlign ==
  /\ at = "fill"
  /\ LET c == CharAt(s)
         d == IF c = NUL THEN NUL ELSE CharAt(s + 1)
     IN CASE d \in DOMAIN AlignOf /\ c = "}" -> Read(TRUE, s, [spec EXCEPT !.align = AlignOf[d]], "sign")
          [] d \in DOMAIN AlignOf /\ c # "}" ->
               Read(c # "{" /\ (d = "=" => Numeric), s + 2,
                    [spec EXCEPT !.align = AlignOf[d], !.fill = c], "sign")
          [] d \notin DOMAIN AlignOf /\ c \in DOMAIN AlignOf ->
               Read(c = "=" => Numeric, s + 1, [spec EXCEPT !.align = AlignOf[c]], "sign")
          [] OTHER -> Read(TRUE, s, spec, "sign")

Sign ==
  /\ at = "sign"
  /\ IF CharAt(s) \in DOMAIN FlagsOf
     THEN Read(Signed, s + 1, [spec EXCEPT !.flags = @ \cup FlagsOf[CharAt(s)]], "hash")
     ELSE Read(TRUE, s, spec, "hash")

Hash ==
  /\ at = "hash"
  /\ IF CharAt(s) = "#"
     THEN Read(Numeric, s + 1, [spec EXCEPT !.flags = @ \cup {"HASH"}], "zero")
     ELSE Read(TRUE, s, spec, "zero")

Zero ==
  /\ at = "zero"
  /\ IF CharAt(s) = "0"
     THEN Read(Numeric, s + 1, [spec EXCEPT !.align = "NUMERIC", !.fill = "0"], "width")
     ELSE Read(TRUE, s, spec, "width")

\* A number at p for a field of the spec, which may take an argument.
ReadNumber(p, legal, field, part) ==
  LET n == ParseNumber(p, next_arg_index_) IN
  IF n.bad \/ ~legal THEN Throw
  ELSE /\ s' = n.s /\ next_arg_index_' = n.next /\ spec' = [spec EXCEPT ![field] = n.value] /\ at' = part
       /\ UNCHANGED <<input, format_str, start, writer_, arg>>

Width ==
  /\ at = "width"
  /\ IF CharAt(s) = "{" \/ IsDigit(CharAt(s))
     THEN ReadNumber(s, TRUE, "width", "precision")
     ELSE Read(TRUE, s, spec, "precision")

Precision ==
  /\ at = "precision"
  /\ CASE CharAt(s) # "."                                       -> Read(TRUE, s, spec, "type")
       [] CharAt(s) = "." /\ (CharAt(s + 1) = "{" \/ IsDigit(CharAt(s + 1))) ->
            ReadNumber(s + 1, ~LastInteger(arg) /\ arg.type # "POINTER", "precision", "type")
       [] OTHER                                               -> Throw

Type ==
  /\ at = "type"
  /\ IF CharAt(s) \notin {"}", NUL} THEN Read(TRUE, s + 1, [spec EXCEPT !.type = CharAt(s)], "close")
     ELSE Read(TRUE, s, spec, "close")

Close ==
  /\ at = "close"
  /\ IF CharAt(s) # "}" \/ visit(arg, spec).bad THEN Throw
     ELSE /\ writer_' = writer_ \o visit(arg, spec).text
          /\ s' = s + 1 /\ start' = s + 1 /\ at' = "text"
          /\ UNCHANGED <<input, format_str, next_arg_index_, arg, spec>>

FormatNext ==
  \/ Plain \/ Doubled \/ Unmatched \/ Field \/ Finish
  \/ FillAlign \/ Sign \/ Hash \/ Zero \/ Width \/ Precision \/ Type \/ Close
-----------------------------------------------------------------------------
(* The inputs: items that say what is meant, and the string they are       *)
(* written as.  Raw characters mean nothing.                               *)

SpecParts == <<"fill", "align", "sign", "hash", "zero", "width", "precision", "type">>

Written(it) ==
  CASE it.kind = "raw"   -> it.chars
    [] it.kind = "text"  -> FlattenSeq([i \in 1..Len(it.chars) |->
                              Repeat(it.chars[i], IF it.chars[i] \in {"{", "}"} THEN 2 ELSE 1)])
    [] it.kind = "field" ->
         LET tail == FlattenSeq([i \in 1..Len(SpecParts) |-> it[SpecParts[i]]])
         IN <<"{">> \o it.id \o (IF tail = <<>> THEN <<>> ELSE <<":">> \o tail) \o <<"}">>

FormatOf(i) ==
  /\ input = i
  /\ format_str = FlattenSeq([k \in 1..Len(i.items) |-> Written(i.items[k])])
  /\ s = 1 /\ start = 1 /\ writer_ = <<>> /\ next_arg_index_ = 0
  /\ arg = NoArg /\ spec = FreshSpec /\ at = "text"

FormatInit ==
  \E n \in DOMAIN Families :
    LET f == Families[n]
    IN \E x \in f.items[1], y \in f.items[2], z \in f.items[3], l \in f.args :
         FormatOf([items |-> <<x, y, z>>, args |-> l])

FormatUnused == FormatOf([items |-> <<>>, args |-> <<>>])
-----------------------------------------------------------------------------
(* The reference.                                                          *)

\* The arguments a field refers to, by their text: its own, then those of its
\* width and precision.
InBraces(n) == IF n # <<>> /\ n[1] = "{" THEN <<SubSeq(n, 2, Len(n) - 1)>> ELSE <<>>
DigitsOf(it) == [width |-> it.width, precision |-> SubSeq(it.precision, 2, Len(it.precision))]
Refs(it) ==
  IF it.kind # "field" THEN <<>>
  ELSE <<it.id>> \o InBraces(DigitsOf(it).width) \o InBraces(DigitsOf(it).precision)
RefsBefore(k) == FlattenSeq([i \in 1..k - 1 |-> Refs(input.items[i])])

Number(n) == FoldLeft(LAMBDA v, c : v * 10 + DigitOf(c), 0, n)
Unnamed(a) == IF a.type = "NAMED_ARG" THEN a.arg ELSE a
Nth(i) == IF i <= Len(input.args) THEN Unnamed(input.args[i]) ELSE NoArg

\* The argument that the reference r names, j others coming before it.
Argument(r, j) ==
  IF r = <<>> THEN Nth(j + 1)
  ELSE IF IsDigit(r[1]) THEN Nth(Number(r) + 1)
  ELSE LET named == {i \in 1..Len(input.args) :
                       input.args[i].type = "NAMED_ARG" /\ input.args[i].name = r}
       IN IF named = {} THEN NoArg ELSE Nth(Min(named))

\* What item k means: for a field the references up to its own, and its argument,
\* width and precision.
Meant(k) ==
  LET it == input.items[k]
      before == Len(RefsBefore(k))
      NumberOf(n, j, none) ==
        CASE n = <<>>        -> none
          [] InBraces(n) = <<>> /\ n # <<>> -> Number(n)
          [] OTHER           -> LET a == Argument(InBraces(n)[1], j)
                                IN IF a.type \in IntTypes /\ a.value >= 0 THEN a.value ELSE MaxInt + 1
  IN IF it.kind # "field" THEN [it |-> it]
     ELSE [it |-> it,
           refs |-> RefsBefore(k) \o Refs(it),
           arg |-> Argument(it.id, before),
           width |-> NumberOf(DigitsOf(it).width, before + 1, 0),
           precision |-> NumberOf(DigitsOf(it).precision, before + 1 + Len(InBraces(it.width)), -1)]
Meanings == {Meant(k) : k \in 1..Len(input.items)}

Chr(q) == IF q = <<>> THEN "" ELSE q[1]
AsPointer(a, it) == a.type = "POINTER" \/ (a.type = "CSTRING" /\ it.type = <<"p">>)
AsText(a, it) == \/ a.type \in {"STRING", "CSTRING"} /\ ~AsPointer(a, it)
                 \/ a.type = "BOOL" /\ it.type = <<>>
                 \/ a.type = "CHAR" /\ Chr(it.type) \in {"", "c"}

\* The field has no sense: it mixes ways to name arguments, names none, has a
\* number that is none or too large, or a part its argument does not allow.
Refused[m \in Meanings] ==
  LET it == m.it
      number == LastInteger(m.arg)
  IN it.kind = "field" /\
     (\/ \E j \in 1..Len(m.refs) : (m.refs[j] = <<>>) # (m.refs[1] = <<>>)
      \/ m.arg.type = "NONE"
      \/ m.width > MaxInt \/ m.precision > MaxInt
      \/ ~number /\ it.align \o it.sign \o it.hash \o it.zero \notin {<<>>, <<"<">>, <<">">>, <<"^">>}
      \/ it.sign # <<>> /\ m.arg.type \in {"UINT", "ULONG_LONG"}
      \/ it.precision # <<>> /\ (number \/ m.arg.type = "POINTER")
      \/ m.arg.type = "CHAR" /\ AsText(m.arg, it)
           /\ (it.sign \o it.hash \o it.zero # <<>> \/ it.align = <<"=">>)
      \/ m.arg.type = "CSTRING" /\ m.arg.value = 0 /\ ~AsPointer(m.arg, it)
      \/ it.type # <<>> /\ CASE m.arg.type = "CHAR"              -> it.type[1] \notin DOMAIN BaseOf \cup {"c"}
                             [] m.arg.type = "STRING"            -> it.type[1] # "s"
                             [] m.arg.type = "CSTRING"           -> it.type[1] \notin {"s", "p"}
                             [] m.arg.type = "POINTER"           -> it.type[1] # "p"
                             [] OTHER                            -> it.type[1] \notin DOMAIN BaseOf)

\* What an item is to print: a number after its sign and prefix, or a text, with
\* padding on the side its alignment says.  (A pointer with a precision is padded
\* on the left when it is to be centred.)
Shown[m \in Meanings] ==
  LET it == m.it
      numeric == ~AsText(m.arg, it)
      base == IF AsPointer(m.arg, it) THEN 16 ELSE BaseOf[Chr(it.type)]
      v == IF m.arg.value < 0 THEN -m.arg.value ELSE m.arg.value
      sign == CASE AsPointer(m.arg, it) -> <<>>
                [] m.arg.value < 0      -> <<"-">>
                [] OTHER                -> SelectSeq(it.sign, LAMBDA c : c # "-")
      prefix == CASE AsPointer(m.arg, it)          -> <<"0", "x">>
                  [] it.hash = <<>> \/ base = 10   -> <<>>
                  [] OTHER                         -> <<"0">> \o IF base = 8 THEN <<>> ELSE it.type
      digits == CHOOSE n \in 1..Bits : v < base ^ n /\ \A i \in 1..n - 1 : v >= base ^ i
      numeral == Repeat("0", m.precision - digits) \o Numeral(v, base, digits, Chr(it.type) = "X")
      text == CASE m.arg.type = "BOOL" /\ v = 1 -> <<"t", "r", "u", "e">>
                [] m.arg.type = "BOOL" /\ v = 0 -> <<"f", "a", "l", "s", "e">>
                [] OTHER -> SubSeq(m.arg.text, 1, IF m.precision < 0 THEN Len(m.arg.text)
                                                  ELSE Min({m.precision, Len(m.arg.text)}))
      head == IF numeric THEN sign \o prefix ELSE <<>>
      tail == IF numeric THEN numeral ELSE text
      fill == IF it.zero # <<>> THEN "0" ELSE IF it.fill # <<>> THEN it.fill[1] ELSE " "
      align == CASE it.zero # <<>>                      -> "="
                 [] it.zero = <<>> /\ it.align # <<>>   -> it.align[1]
                 [] OTHER                               -> IF numeric THEN ">" ELSE "<"
      padding == Max({0, m.width - Len(head) - Len(tail)})
      left == CASE align = ">" -> padding
                [] align = "^" -> IF numeric /\ m.precision > digits THEN padding ELSE padding \div 2
                [] OTHER       -> 0
      within == IF align = "=" /\ numeric THEN padding ELSE 0
  IN IF it.kind = "text" THEN it.chars
     ELSE Repeat(fill, left) \o head \o Repeat(fill, within) \o tail \o Repeat(fill, padding - left - within)

ShownUpTo(k) == FlattenSeq([i \in 1..k |-> Shown[Meant(i)]])

\* The formatter reads no character past the end of the string, and a format
\* string of text and fields prints what it means: each field the argument it
\* names, as its parts say.  It throws if and only if a field has no sense, and
\* then what stands before the first such field, and nothing of it, has been
\* written.  (Numbers that unsigned cannot hold may be taken for others, and are
\* not among the inputs.)
FormatsAsMeant ==
  /\ at # "failed" => s <= Len(format_str) + 1 /\ start <= s
  /\ (\A k \in 1..Len(input.items) : input.items[k].kind # "raw") =>
       LET bad == {k \in 1..Len(input.items) : Refused[Meant(k)]} IN
       /\ at = "done" => bad = {} /\ writer_ = ShownUpTo(Len(input.items))
       /\ at = "failed" => bad # {} /\ writer_ = ShownUpTo(Min(bad) - 1)
=============================================================================
