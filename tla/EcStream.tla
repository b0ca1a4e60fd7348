------------------------------ MODULE EcStream ------------------------------
(***************************************************************************)
(* StreamWriter and StreamReader (libeventc++11, stream.h): values are put *)
(* to a buffer one after the other and got in the same order from it, or   *)
(* from a message that was cut short.  A byte has Base values, an integer  *)
(* two bytes, so that counts wrap at Base * Base as uint16_t does at 2^16. *)
(***************************************************************************)
EXTENDS Integers, Sequences, SequencesExt, FiniteSets

CONSTANTS
  Base,      \* values of a byte
  MaxPuts    \* bound on the values put

Types == {"int", "string", "vector", "list", "set", "map", "sequence"}
Wrap == Base * Base
Bytes(n) == <<n % Base, (n \div Base) % Base>>   \* an integer in the buffer
Unset == <<-1>>                                  \* a variable that was never assigned

VARIABLES
  phase, _buf,   \* the writer
  written,       \* what was put
  _pos,          \* the reader of _buf
  got,           \* what was got
  reused         \* a target was not fresh

streamVars == <<phase, _buf, written, _pos, got, reused>>

StreamInit ==
  /\ phase = "write" /\ _buf = <<>> /\ written = <<>>
  /\ _pos = 0 /\ got = <<>> /\ reused = FALSE

\* The value of a type with n elements: integers in an ascending order, under
\* each in a map the byte of its parity.
Elements(n) == [i \in 1..n |-> Bytes(i - 1)]
ValueOf(type, n) ==
  CASE type = "int" -> Bytes(n)
    [] type = "string" -> [i \in 1..n |-> i % Base]
    [] type \in {"vector", "list", "sequence"} -> Elements(n)
    [] type = "set" -> Range(Elements(n))
    [] type = "map" -> {<<Bytes(i - 1), <<i % Base>>>> : i \in 1..n}

-----------------------------------------------------------------------------
(* StreamWriter.                                                           *)

put(v) == v
putString(n) == put(Bytes(n)) \o ValueOf("string", n)
\* Only as many elements as the count says.
putVector(n) == put(Bytes(n)) \o FlattenSeq(Elements(n % Wrap))
putList(n) == put(Bytes(n)) \o FlattenSeq(Elements(n))
putSet(n) == put(Bytes(n)) \o FlattenSeq(Elements(n))
putMap(n) == put(Bytes(n)) \o FlattenSeq([i \in 1..n |-> Bytes(i - 1) \o <<i % Base>>])
putSequence(n) == put(Bytes(n)) \o FlattenSeq(Elements(n))

Encoded(type, n) ==
  CASE type = "int" -> put(Bytes(n))
    [] type = "string" -> putString(n) [] type = "vector" -> putVector(n)
    [] type = "list" -> putList(n)     [] type = "set" -> putSet(n)
    [] type = "map" -> putMap(n)       [] type = "sequence" -> putSequence(n)

Put(type, n) ==
  /\ phase = "write" /\ Len(written) < MaxPuts
  /\ _buf' = _buf \o Encoded(type, n)
  /\ written' = Append(written, [type |-> type, n |-> n, val |-> ValueOf(type, n)])
  /\ UNCHANGED <<phase, _pos, got, reused>>

\* The message is sent, and arrives whole or in part.
Arrive(n) ==
  /\ phase = "write" /\ phase' = "read"
  /\ _buf' = SubSeq(_buf, 1, n)
  /\ UNCHANGED <<written, _pos, got, reused>>

-----------------------------------------------------------------------------
(* StreamReader: what a call may return and where it leaves the position.  *)

left(p) == Len(_buf) - p

\* get: the next bytes, or nothing when there are not enough.
get(p, size) ==
  IF p + size > Len(_buf) THEN [pos |-> p, val |-> Unset]
  ELSE [pos |-> p + size, val |-> SubSeq(_buf, p + 1, p + size)]

\* A count; the variable holds anything if it cannot be read.
Counts(p) ==
  LET r == get(p, 2)
  IN IF r.val = Unset THEN {[pos |-> p, n |-> g] : g \in 0..(Wrap - 1)}
     ELSE {[pos |-> r.pos, n |-> r.val[1] + Base * r.val[2]]}
CountOrZero(p) == LET r == get(p, 2) IN IF r.val = Unset THEN 0 ELSE r.val[1] + Base * r.val[2]

\* n elements, each of these sizes; after a failed get the next is tried.
GetEach(p, n, sizes) ==
  FoldLeft(LAMBDA r, i : LET g == get(r.pos, sizes[((i - 1) % Len(sizes)) + 1])
                         IN [pos |-> g.pos, val |-> Append(r.val, g.val)],
           [pos |-> p, val |-> <<>>], [i \in 1..(n * Len(sizes)) |-> i])

getInt(p, old) == LET r == get(p, 2) IN {IF r.val = Unset THEN [r EXCEPT !.val = old] ELSE r}

\* Slip: the length is not compared with what is left.
getStringSlip(p, old) ==
  {IF c.n = 0 THEN [pos |-> c.pos, val |-> old]
   ELSE [pos |-> c.pos + c.n, val |-> [i \in 1..c.n |-> IF i > left(c.pos) THEN 0 ELSE _buf[c.pos + i]]]
     : c \in Counts(p)}
getString(p, old) ==
  {LET n == IF c.n > left(c.pos) THEN left(c.pos) ELSE c.n
   IN IF n = 0 THEN [pos |-> c.pos, val |-> old]
      ELSE [pos |-> c.pos + n, val |-> SubSeq(_buf, c.pos + 1, c.pos + n)] : c \in Counts(p)}

getVector(p, old) ==
  {LET n == IF left(c.pos) < 2 * c.n THEN left(c.pos) \div 2 ELSE c.n
   IN IF n = 0 THEN [pos |-> c.pos, val |-> old] ELSE GetEach(c.pos, n, <<2>>) : c \in Counts(p)}

getList(p, old) ==
  LET r == GetEach(get(p, 2).pos, CountOrZero(p), <<2>>) IN {[r EXCEPT !.val = old \o @]}

getSet(p, old) ==
  LET r == GetEach(get(p, 2).pos, CountOrZero(p), <<2>>)
  IN {[pos |-> r.pos, val |-> old \cup Range(r.val)]}

\* insert keeps the pair that is there.
getMap(p, old) ==
  LET r == GetEach(get(p, 2).pos, CountOrZero(p), <<2, 1>>)
      insert(m, i) == IF \E x \in m : x[1] = r.val[2 * i - 1] THEN m
                      ELSE m \cup {<<r.val[2 * i - 1], r.val[2 * i]>>}
  IN {[pos |-> r.pos, val |-> FoldLeft(insert, old, [i \in 1..(Len(r.val) \div 2) |-> i])]}

\* needSize is a uint16_t too.
getSequence(p, old) ==
  {LET n == IF (2 * c.n) % Wrap > left(c.pos) THEN left(c.pos) \div 2 ELSE c.n
       r == GetEach(c.pos, n, <<2>>)
   IN [r EXCEPT !.val = old \o @] : c \in Counts(p)}

Results(type, p, old) ==
  CASE type = "int" -> getInt(p, old)
    [] type = "string" -> getString(p, old) [] type = "vector" -> getVector(p, old)
    [] type = "list" -> getList(p, old)     [] type = "set" -> getSet(p, old)
    [] type = "map" -> getMap(p, old)       [] type = "sequence" -> getSequence(p, old)

\* The target is fresh, or has the value with one element.
Get(old) ==
  /\ phase = "read" /\ Len(got) < Len(written)
  /\ LET type == written[Len(got) + 1].type
     IN \E r \in Results(type, _pos, ValueOf(type, old)) :
          /\ _pos' = r.pos
          /\ got' = Append(got, [type |-> type, val |-> r.val])
  /\ reused' = (reused \/ old # 0)
  /\ UNCHANGED <<phase, _buf, written>>

StreamNext ==
  \/ \E type \in Types, n \in 0..Wrap : Put(type, n)
  \/ \E n \in 0..Len(_buf) : Arrive(n)
  \/ \E old \in {0, 1} : Get(old)

-----------------------------------------------------------------------------
(* Properties.                                                             *)

Fits(w) == w.type = "int" \/ w.n < Wrap

\* Where the value put i-th ends in the buffer.
EndOf(i) == FoldLeft(LAMBDA e, w : e + Len(Encoded(w.type, w.n)), 0, SubSeq(written, 1, i))

\* Values that were put, none with more elements than its count can tell, are got
\* back as they were into fresh targets, and leave the reader behind them, up to
\* the first that the message does not hold to its end.  Whatever the counts say,
\* the reader never goes past the end of the message.
RoundTrip ==
  /\ phase = "read" => _pos <= Len(_buf)
  /\ ~reused /\ (\A i \in 1..Len(written) : Fits(written[i])) =>
       \A i \in 1..Len(got) :
         EndOf(i) <= Len(_buf) =>
           got[i].val = written[i].val /\ (i = Len(got) => _pos = EndOf(i))
=============================================================================
