-------------------------- MODULE PatternFormatter --------------------------
(***************************************************************************)
(* spdlog's pattern_formatter: a pattern is compiled, character by         *)
(* character, to a list of flag formatters, and a line is what they write. *)
(* What is written is a sequence of pieces: a character, a number, a       *)
(* number padded to a width, or a text that is known by what it names.     *)
(***************************************************************************)
EXTENDS Integers, Sequences, SequencesExt

CONSTANTS
  Times,       \* the local times of messages, and their offsets from UTC
  MaxPattern   \* bound on the length of a pattern

VARIABLES
  pattern,     \* the characters compiled so far
  flagNext,    \* the last of them is a % that waits for its flag
  user_chars,  \* the aggregate_formatter being filled
  _formatters

patternVars == <<pattern, flagNext, user_chars, _formatters>>

PatternInit == pattern = <<>> /\ flagNext = FALSE /\ user_chars = <<>> /\ _formatters = <<>>

-----------------------------------------------------------------------------
(* The pieces.                                                             *)

Ch(c) == <<<<"ch", c>>>>
Num(n) == <<<<"num", n>>>>
Pad(n, w) == <<<<"pad", n, w>>>>
Str(what, n) == <<<<what, n>>>>

pad_n_join(ns, sep) ==
  FlattenSeq([i \in 1..Len(ns) |-> IF i = 1 THEN Pad(ns[i], 2) ELSE Ch(sep) \o Pad(ns[i], 2)])

ampm(t) == Str("ampm", IF t.hour >= 12 THEN 1 ELSE 0)
\* Slip: noon is 0.
to12hSlip(t) == IF t.hour >= 12 THEN t.hour - 12 ELSE t.hour
to12h(t) == IF t.hour > 12 THEN t.hour - 12 ELSE t.hour

\* Division and remainder of C.
Quot(a, b) == IF a >= 0 THEN a \div b ELSE -((-a) \div b)
Rest(a, b) == a - Quot(a, b) * b

-----------------------------------------------------------------------------
(* The flag formatters.                                                    *)

names(f) == Str(f, 0)   \* name, level, short level, thread id, the message
weekday(f, t) == Str(f, t.wday)
month(f, t) == Str(f, t.mon)

c_formatter(t) ==
  weekday("a", t) \o Ch(" ") \o month("b", t) \o Ch(" ") \o Num(t.mday) \o Ch(" ")
    \o pad_n_join(<<t.hour, t.min, t.sec>>, ":") \o Ch(" ") \o Num(t.year + 1900)

D_formatter(t) == pad_n_join(<<t.mon + 1, t.mday, t.year % 100>>, "/")
r_formatter(t) == pad_n_join(<<to12h(t), t.min, t.sec>>, ":") \o Ch(" ") \o ampm(t)

z_formatter(t) ==
  LET h == Quot(t.offset, 60)
      m == Rest(t.offset, 60)
  IN Ch(IF h >= 0 THEN "+" ELSE "-") \o pad_n_join(<<h, m>>, ":")

full_formatter(t) ==
  Ch("[") \o Num(t.year + 1900) \o Ch("-") \o Pad(t.mon + 1, 2) \o Ch("-") \o Pad(t.mday, 2)
    \o Ch(" ") \o Pad(t.hour, 2) \o Ch(":") \o Pad(t.min, 2) \o Ch(":") \o Pad(t.sec, 2)
    \o Ch(".") \o Pad(t.ns \div 1000000, 3) \o Ch("]") \o Ch(" ")
    \o Ch("[") \o names("n") \o Ch("]") \o Ch(" ")
    \o Ch("[") \o names("l") \o Ch("]") \o Ch(" ") \o names("v")

DateOut(f, t) ==
  CASE f \in {"a", "A"} -> weekday(f, t)
    [] f \in {"b", "B"} -> month(f, t)
    [] f = "c" -> c_formatter(t)
    [] f = "C" -> Pad(t.year % 100, 2)
    [] f = "D" -> D_formatter(t)
    [] f = "Y" -> Num(t.year + 1900)
    [] f = "m" -> Pad(t.mon + 1, 2)
    [] f = "d" -> Pad(t.mday, 2)

TimeOut(f, t) ==
  CASE f = "H" -> Pad(t.hour, 2)
    [] f = "I" -> Pad(to12h(t), 2)
    [] f = "M" -> Pad(t.min, 2)
    [] f = "S" -> Pad(t.sec, 2)
    [] f = "e" -> Pad(t.ns \div 1000000, 3)
    [] f = "f" -> Pad(t.ns \div 1000, 6)
    [] f = "F" -> Pad(t.ns, 9)
    [] f = "p" -> ampm(t)
    [] f = "r" -> r_formatter(t)
    [] f = "R" -> pad_n_join(<<t.hour, t.min>>, ":")
    [] f = "T" -> pad_n_join(<<t.hour, t.min, t.sec>>, ":")
    [] f = "z" -> z_formatter(t)

NameFlags == {"n", "l", "L", "t", "v"}
DateFlags == {"a", "A", "b", "B", "c", "C", "D", "Y", "m", "d"}
TimeFlags == {"H", "I", "M", "S", "e", "f", "F", "p", "r", "R", "T", "z"}
Flags == NameFlags \cup DateFlags \cup TimeFlags \cup {"h", "x", "X", "+"}

FlagOut(f, t) ==
  CASE f \in NameFlags -> names(f)
    [] f \in DateFlags -> DateOut(f, t)
    [] f \in TimeFlags -> TimeOut(f, t)
    [] f = "+" -> full_formatter(t)

-----------------------------------------------------------------------------
(* compile_pattern, a character at a time.                                 *)

Aggregate == IF user_chars = <<>> THEN <<>> ELSE <<[kind |-> "text", text |-> user_chars]>>
Flag(f) == <<[kind |-> "flag", flag |-> f]>>
Char(c) == <<[kind |-> "text", text |-> <<c>>]>>

\* The formatters a flag adds; an unknown one appears as it is.
handle_flag(c) ==
  CASE c = "h" -> Flag("b")
    [] c = "x" -> Flag("D")
    [] c = "X" -> Flag("T")
    [] c \in Flags \ {"h", "x", "X"} -> Flag(c)
    [] OTHER -> Char("%") \o Char(c)

compile_pattern(c) ==
  /\ Len(pattern) < MaxPattern
  /\ pattern' = Append(pattern, c)
  /\ \/ /\ flagNext
        /\ _formatters' = _formatters \o handle_flag(c)
        /\ flagNext' = FALSE /\ UNCHANGED user_chars
     \/ /\ ~flagNext /\ c = "%"
        /\ _formatters' = _formatters \o Aggregate
        /\ user_chars' = <<>> /\ flagNext' = TRUE
     \/ /\ ~flagNext /\ c # "%"
        /\ user_chars' = Append(user_chars, c)
        /\ UNCHANGED <<_formatters, flagNext>>

\* One character stands for all that are displayed as they are.
PatternNext ==
  \/ flagNext /\ \E c \in Flags \cup {"%", "."} : compile_pattern(c)
  \/ ~flagNext /\ \E c \in {"%", "."} : compile_pattern(c)

\* format: the line of a message, if the pattern ends here.
format(t) ==
  LET all == _formatters \o Aggregate
      Out(f) == IF f.kind = "flag" THEN FlagOut(f.flag, t)
                ELSE FlattenSeq([i \in 1..Len(f.text) |-> Ch(f.text[i])])
  IN FlattenSeq([i \in 1..Len(all) |-> Out(all[i])]) \o Str("eol", 0)

-----------------------------------------------------------------------------
(* Properties.                                                             *)

\* What the comments of the flags say: the ones that stand for a pattern ...
Stands ==
  [c \in {"h", "x", "X", "D", "R", "T", "r", "c", "+"} |->
    CASE c = "h" -> <<"%", "b">>
      [] c \in {"D", "x"} -> <<"%", "m", "/", "%", "d", "/", "%", "C">>
      [] c \in {"T", "X"} -> <<"%", "H", ":", "%", "M", ":", "%", "S">>
      [] c = "R" -> <<"%", "H", ":", "%", "M">>
      [] c = "r" -> <<"%", "I", ":", "%", "M", ":", "%", "S", " ", "%", "p">>
      [] c = "c" -> <<"%", "a", " ", "%", "b", " ", "mday", " ", "%", "T", " ", "%", "Y">>
      [] c = "+" -> <<"[", "%", "Y", "-", "%", "m", "-", "%", "d", " ", "%", "T", ".", "%", "e", "]", " ",
                      "[", "%", "n", "]", " ", "[", "%", "l", "]", " ", "%", "v">>]

\* ... and those that stand for a value.
Value(c, t) ==
  CASE c \in {"n", "l", "L", "t", "v"} -> Str(c, 0)
    [] c \in {"a", "A"} -> Str(c, t.wday)
    [] c \in {"b", "B"} -> Str(c, t.mon)
    [] c = "Y" -> Num(1900 + t.year)
    [] c = "C" -> Pad((1900 + t.year) % 100, 2)
    [] c = "m" -> Pad(t.mon + 1, 2)
    [] c = "d" -> Pad(t.mday, 2)
    [] c = "H" -> Pad(t.hour, 2)
    [] c = "I" -> Pad(((t.hour + 11) % 12) + 1, 2)
    [] c = "M" -> Pad(t.min, 2)
    [] c = "S" -> Pad(t.sec, 2)
    [] c \in {"e", "f", "F"} ->
         LET digits == [e |-> 3, f |-> 6, F |-> 9][c]
         IN Pad(t.ns \div 10^(9 - digits), digits)
    [] c = "p" -> Str("ampm", t.hour \div 12)
    [] c = "z" -> Ch(IF t.offset >= 0 THEN "+" ELSE "-") \o Pad(t.offset \div 60, 2) \o Ch(":") \o Pad(t.offset % 60, 2)

RECURSIVE Meaning(_, _)
Meaning(p, t) ==
  CASE p = <<>> -> <<>>
    [] p # <<>> /\ p[1] = "mday" -> Num(t.mday) \o Meaning(Tail(p), t)
    [] p # <<>> /\ p[1] \notin {"%", "mday"} -> Ch(p[1]) \o Meaning(Tail(p), t)
    [] p = <<"%">> -> <<>>
    [] OTHER -> LET c == p[2]
                    rest == SubSeq(p, 3, Len(p))
                IN CASE c \in DOMAIN Stands -> Meaning(Stands[c] \o rest, t)
                     [] c \in Flags \ DOMAIN Stands -> Value(c, t) \o Meaning(rest, t)
                     [] OTHER -> Ch("%") \o Ch(c) \o Meaning(rest, t)

\* A line is the pattern with each flag replaced by what its comment says, and
\* everything else as it is, but for a % at the end.  (In the hour after midnight
\* %I and %r give 0, not 12, and %z is not +-HH:MM west of Greenwich: these times
\* are excluded where the flags are used.)
LineAsPattern ==
  \A t \in Times :
    LET Uses(F) == \E i \in 1..Len(pattern) : pattern[i] \in F
    IN (t.hour = 0 => ~Uses({"I", "r"})) /\ (t.offset < 0 => ~Uses({"z"}))
         => format(t) = Meaning(pattern, t) \o Str("eol", 0)
=============================================================================
