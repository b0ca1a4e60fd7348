----------------------------- MODULE MessageLog -----------------------------
(***************************************************************************)
(* MessageLog of ms_process: a message is written through a Record into    *)
(* the buffer of an Object; Objects are kept on a free list under a mutex. *)
(* Contexts are the program's threads and its signal handlers; a handler   *)
(* runs on the thread it interrupts, which waits until it returns.         *)
(***************************************************************************)
EXTENDS Naturals, Sequences, FiniteSets, SequencesExt

CONSTANTS
  Threads, Handlers,
  Host,      \* the thread a handler interrupts
  Objects,   \* bound on the Objects that new returns
  BufSize,   \* sizeof(buf) - 1
  Lengths,   \* lengths of messages
  MaxLogs,   \* bound on the messages
  None

ASSUME LogAssumption ==
  /\ Host \in [Handlers -> Threads] /\ Threads \cap Handlers = {}
  /\ None \notin Objects \cup Threads \cup Handlers
  /\ BufSize \in Nat \ {0} /\ Lengths \subseteq Nat \ {0}
  /\ MaxLogs \in Nat

Contexts == Threads \cup Handlers

VARIABLES
  lock,    \* who holds Global::lock
  heap,    \* who is inside the allocator
  cache,   \* Global::cache, the head of the free list
  next, useRef, buf,  \* members of the Objects
  made,    \* the Objects constructed
  rec,     \* what each context is doing, and the Record it has
  lens,    \* the length of every message begun
  sink,    \* what logMessage was called with
  direct   \* messages for which there was no Object: they go to std::cout

logVars == <<lock, heap, cache, next, useRef, buf, made, rec, lens, sink, direct>>

NoRec == [step |-> "idle", obj |-> None, n |-> 0, pos |-> 0]
Steps == {"idle", "get", "read", "unlink", "ref", "new", "alloc", "made", "return", "write", "put", "link", "head"}
Chars == (1..MaxLogs) \X Nat

LogTypeOK ==
  /\ {lock, heap} \subseteq Contexts \cup {None}
  /\ cache \in made \cup {None}
  /\ made \subseteq Objects
  /\ next \in [Objects -> made \cup {None}]
  /\ useRef \in [Objects -> 0..2]
  /\ \A o \in Objects : Len(buf[o]) <= BufSize /\ ToSet(buf[o]) \subseteq Chars
  /\ \A x \in Contexts : /\ rec[x].step \in Steps
                         /\ rec[x].obj \in made \cup {None}
  /\ lens \in Seq(Lengths) /\ Len(lens) <= MaxLogs

LogInit ==
  /\ lock = None /\ heap = None /\ cache = None
  /\ next = [o \in Objects |-> None]
  /\ useRef = [o \in Objects |-> 0]
  /\ buf = [o \in Objects |-> <<>>]
  /\ made = {}
  /\ rec = [x \in Contexts |-> NoRec]
  /\ lens = <<>> /\ sink = <<>> /\ direct = {}
-----------------------------------------------------------------------------
Logging(x) == rec[x].step # "idle"

\* A thread does not run while a handler runs on it.
Interrupted(x) == \E h \in Handlers : Host[h] = x /\ Logging(h)

At(x, step) == rec[x].step = step
Goto(x, step) == rec' = [rec EXCEPT ![x].step = step]

\* MESSAGE_LOG: a Record is constructed, which asks for an Object.
LogBegin(x) ==
  /\ At(x, "idle") /\ Len(lens) < MaxLogs
  /\ \E n \in Lengths : lens' = Append(lens, n)
  /\ rec' = [rec EXCEPT ![x] = [NoRec EXCEPT !.step = "get", !.n = Len(lens) + 1]]
  /\ UNCHANGED <<lock, heap, cache, next, useRef, buf, made, sink, direct>>

\* RWMutexLock::acquire and release, a mutex that is not recursive.
MayAcquire(x, l) == l = None

GetAcquire(x) ==
  /\ At(x, "get") /\ MayAcquire(x, lock)
  /\ lock' = x
  /\ Goto(x, "read")
  /\ UNCHANGED <<cache, next, useRef, buf, made, lens, sink, direct>>

\* Global::get: the head of the free list, or a new Object.
GetRead(x) ==
  /\ At(x, "read")
  /\ IF cache # None
     THEN /\ rec' = [rec EXCEPT ![x].step = "unlink", ![x].obj = cache]
          /\ UNCHANGED lock
     ELSE Goto(x, "new") /\ lock' = None
  /\ UNCHANGED <<cache, next, useRef, buf, made, lens, sink, direct>>

GetUnlink(x) ==
  /\ At(x, "unlink")
  /\ cache' = next[rec[x].obj]
  /\ lock' = None
  /\ Goto(x, "ref")
  /\ UNCHANGED <<next, useRef, buf, made, lens, sink, direct>>

\* The Object of a Record from the list, and one from new.
GetRef(x) ==
  /\ At(x, "ref")
  /\ useRef' = [useRef EXCEPT ![rec[x].obj] = @ + 1]
  /\ Goto(x, "made")
  /\ UNCHANGED <<lock, cache, next, buf, made, lens, sink, direct>>

\* The allocator is not reentrant: a handler that comes while the thread is in it
\* does not get through.
EnterHeap(x) ==
  /\ At(x, "new") /\ MayAcquire(x, heap)
  /\ heap' = x
  /\ Goto(x, "alloc")
  /\ UNCHANGED <<lock, cache, next, useRef, buf, made, lens, sink, direct>>

GetNew(x) ==
  /\ At(x, "alloc")
  /\ heap' = None
  /\ \E o \in Objects \ made :
       /\ made' = made \cup {o}
       /\ useRef' = [useRef EXCEPT ![o] = 1]
       /\ rec' = [rec EXCEPT ![x].step = "made", ![x].obj = o]
  /\ UNCHANGED <<lock, cache, next, buf, lens, sink, direct>>

\* No memory: stream() is std::cout, and there is nothing to give back.
GetNone(x) ==
  /\ At(x, "alloc")
  /\ heap' = None
  /\ direct' = direct \cup {rec[x].n}
  /\ rec' = [rec EXCEPT ![x] = NoRec]
  /\ UNCHANGED <<lock, cache, next, useRef, buf, made, lens, sink>>
-----------------------------------------------------------------------------
Flush(o) == sink' = Append(sink, buf[o])

\* overflow(c): what is in the buffer is logged, and c is the first character
\* of the next piece.
Dropped(c) == <<>>
Refilled(c) == <<c>>

\* operator<< on the stream: one more character.
Write(x) ==
  LET o == rec[x].obj
      c == <<rec[x].n, rec[x].pos + 1>>
  IN /\ At(x, "made") \/ At(x, "write")
     /\ rec[x].pos < lens[rec[x].n]
     /\ IF Len(buf[o]) < BufSize
        THEN buf' = [buf EXCEPT ![o] = Append(@, c)] /\ UNCHANGED sink
        ELSE buf' = [buf EXCEPT ![o] = Refilled(c)] /\ Flush(o)
     /\ rec' = [rec EXCEPT ![x].step = "write", ![x].pos = @ + 1]
     /\ UNCHANGED <<lock, cache, next, useRef, made, lens, direct>>

\* record() returns its Record by value: a build that does not elide the copy has
\* two until the first is destroyed, before a character is written.
Copy(x) ==
  /\ At(x, "made")
  /\ useRef' = [useRef EXCEPT ![rec[x].obj] = @ + 1]
  /\ Goto(x, "return")
  /\ UNCHANGED <<lock, cache, next, buf, made, lens, sink, direct>>

Written(x) == rec[x].pos = lens[rec[x].n]
LastRef(x) == useRef[rec[x].obj] = 1

\* ~Record: unref, and release when it was the last reference.
Unref(x) ==
  LET o == rec[x].obj
  IN /\ At(x, "return") \/ (At(x, "write") /\ Written(x))
     /\ useRef' = [useRef EXCEPT ![o] = @ - 1]
     /\ IF LastRef(x)
        THEN /\ IF buf[o] # <<>> THEN Flush(o) ELSE UNCHANGED sink
             /\ buf' = [buf EXCEPT ![o] = <<>>]
             /\ Goto(x, "put")
        ELSE /\ Goto(x, "write")
             /\ UNCHANGED <<sink, buf>>
     /\ UNCHANGED <<lock, cache, next, made, lens, direct>>

\* Global::put
PutAcquire(x) ==
  /\ At(x, "put") /\ MayAcquire(x, lock)
  /\ lock' = x
  /\ Goto(x, "link")
  /\ UNCHANGED <<cache, next, useRef, buf, made, lens, sink, direct>>

PutLink(x) ==
  /\ At(x, "link")
  /\ next' = [next EXCEPT ![rec[x].obj] = cache]
  /\ Goto(x, "head")
  /\ UNCHANGED <<lock, cache, useRef, buf, made, lens, sink, direct>>

PutHead(x) ==
  /\ At(x, "head")
  /\ cache' = rec[x].obj
  /\ lock' = None
  /\ rec' = [rec EXCEPT ![x] = NoRec]
  /\ UNCHANGED <<next, useRef, buf, made, lens, sink, direct>>

LogStep(x) ==
  /\ ~Interrupted(x)
  /\ \/ /\ UNCHANGED heap
        /\ \/ GetAcquire(x) \/ GetRead(x) \/ GetUnlink(x) \/ GetRef(x)
           \/ Copy(x) \/ Write(x) \/ Unref(x)
           \/ PutAcquire(x) \/ PutLink(x) \/ PutHead(x)
     \/ EnterHeap(x) \/ GetNew(x) \/ GetNone(x)
-----------------------------------------------------------------------------
\* The free list, followed from its head.
FreeAt[k \in 0..Cardinality(Objects)] ==
  IF k = 0 THEN cache
  ELSE IF FreeAt[k - 1] = None THEN None ELSE next[FreeAt[k - 1]]
Free == {FreeAt[k] : k \in 0..Cardinality(Objects)} \ {None}

\* What logMessage got of message n, in order.
Pieces(n) == SelectSeq(sink, LAMBDA p : p[1][1] = n)

\* Every message reaches logMessage complete and in order, apart from all others;
\* in one piece when it fits the buffer.  The free list ends; an Object on it has
\* no reference and an empty buffer, and no context holds it beyond the moves of
\* get and put themselves; two contexts never hold the same Object.
Complete ==
  /\ \A n \in 1..Len(lens) :
       ~(\E x \in Contexts : rec[x].n = n) /\ n \notin direct =>
         /\ FlattenSeq(Pieces(n)) = [i \in 1..lens[n] |-> <<n, i>>]
         /\ lens[n] <= BufSize => Len(Pieces(n)) = 1
  /\ FreeAt[Cardinality(Objects)] = None
  /\ \A o \in Free : useRef[o] = 0 /\ buf[o] = <<>>
  /\ \A x \in Contexts : rec[x].obj \in Free => At(x, "unlink")
  /\ \A x, y \in Contexts : x # y /\ rec[x].obj # None => rec[x].obj # rec[y].obj
=============================================================================
