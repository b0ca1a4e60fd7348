--------------------------- MODULE LoggerRegistry ---------------------------
(***************************************************************************)
(* spdlog's registry and loggers, the line_logger that carries a message   *)
(* to its logger when it is destroyed, and MessageLog, the wrapper that    *)
(* sends records to a file of messages and one of errors.  What a sink     *)
(* does with a line is in FileSinks.  MessageLog's pointers have no lock:  *)
(* a thread gets a line_logger while no init is running, and may hold it   *)
(* while one does.                                                         *)
(***************************************************************************)
EXTENDS Naturals, Sequences

CONSTANTS
  Threads,
  LoggerNames,  \* loggerName of an init; the empty one, with its default names, is one of them
  Levels, Warn, \* the levels used, and that of warn
  Patterns,     \* formatters, 0 is the default one
  MaxLoggers, MaxMessages, MaxInits, MaxSets   \* bounds

ASSUME RegAssumption ==
  /\ Levels \subseteq Nat /\ Warn \in Nat /\ Patterns \subseteq Nat
  /\ MaxLoggers \in Nat /\ MaxMessages \in Nat /\ MaxInits \in Nat /\ MaxSets \in Nat

NoLogger == 0
NoInit == [step |-> "none"]
NoLine == [step |-> "none"]
NoText == ""

VARIABLES
  reg,       \* registry: the loggers by name
  level, formatter,   \* registry: _level, _formatter
  loggers,   \* every logger made, with its sink: [file, level, fmt]
  ml,        \* MessageLog: singleMsgFile, msgLogger, errLogger, cerrLogger
  init,      \* the init that is running
  inits,     \* inits begun
  line,      \* the statement each thread is in: one or two line_logger objects
  messages,  \* messages begun: enabled, the file meant
  out,       \* what was written: message, file, text
  own,       \* loggers whose level was set on their own
  sets,      \* changes of levels, patterns and names made
  dropped,   \* a name was dropped
  last,      \* the kind of the last init begun
  halfway    \* that init failed before errLogger was set, or came after the other kind

regVars == <<reg, level, formatter, loggers, ml, init, inits, line, messages, out, own, sets, dropped,
             last, halfway>>

RegTypeOK ==
  /\ \A n \in DOMAIN reg : reg[n] \in 1..Len(loggers)
  /\ loggers \in Seq([file : (0..MaxInits) \X {"msg", "err", "stderr"}, level : Nat, fmt : Nat])
  /\ Len(loggers) <= MaxLoggers /\ own \subseteq 1..Len(loggers)
  /\ DOMAIN line = Threads /\ Len(messages) <= MaxMessages
  /\ inits \in 0..MaxInits /\ sets \in 0..MaxSets /\ dropped \in BOOLEAN /\ halfway \in BOOLEAN

RegInit ==
  /\ reg = [n \in {} |-> NoLogger] /\ level = 2 /\ formatter = 0
  /\ loggers = <<>>
  /\ ml = [single |-> TRUE, msg |-> NoLogger, err |-> NoLogger, cerr |-> NoLogger]
  /\ init = NoInit /\ inits = 0
  /\ line = [t \in Threads |-> NoLine]
  /\ messages = <<>> /\ out = <<>> /\ own = {} /\ sets = 0 /\ dropped = FALSE
  /\ last = "none" /\ halfway = FALSE

-----------------------------------------------------------------------------
(* The registry, under its mutex.                                          *)

Ids == 1..Len(loggers)

\* create: a logger gets the registry's level and formatter, then its name.
NewLogger(file) == [file |-> file, level |-> level, fmt |-> formatter]

create(name, file) ==
  /\ name \notin DOMAIN reg /\ Len(loggers) < MaxLoggers
  /\ loggers' = Append(loggers, NewLogger(file))
  /\ reg' = [n \in DOMAIN reg \cup {name} |-> IF n = name THEN Len(loggers) + 1 ELSE reg[n]]

Registered == {reg[n] : n \in DOMAIN reg}
OthersUnchanged == UNCHANGED <<ml, init, inits, line, messages, out, last, halfway>>
Change == sets < MaxSets /\ sets' = sets + 1

set_level(l) ==
  /\ loggers' = [i \in Ids |-> IF i \in Registered THEN [loggers[i] EXCEPT !.level = l] ELSE loggers[i]]
  /\ level' = l /\ own' = own \ Registered
SetGlobalLevel(l) == Change /\ set_level(l) /\ UNCHANGED <<reg, formatter, dropped>> /\ OthersUnchanged

\* set_pattern, set_formatter
set_pattern(p) ==
  /\ Change /\ formatter' = p
  /\ loggers' = [i \in Ids |-> IF i \in Registered THEN [loggers[i] EXCEPT !.fmt = p] ELSE loggers[i]]
  /\ UNCHANGED <<reg, level, own, dropped>> /\ OthersUnchanged

\* drop, drop_all: the names go, the loggers live on while MessageLog has them.
drop(names) ==
  /\ Change /\ reg' = [n \in DOMAIN reg \ names |-> reg[n]] /\ dropped' = TRUE
  /\ UNCHANGED <<level, formatter, loggers, own>> /\ OthersUnchanged

\* set_MsgLevel, set_ErrLevel: logger::set_level, if there is one.
SetOwnLevel(i, l) ==
  /\ Change /\ i \in {ml.msg, ml.err} \ {NoLogger}
  /\ loggers' = [loggers EXCEPT ![i].level = l]
  /\ own' = own \cup {i}
  /\ UNCHANGED <<reg, level, formatter, dropped>> /\ OthersUnchanged

-----------------------------------------------------------------------------
(* MessageLog: the inits.                                                  *)

BeginInit(kind, name, single, mixed) ==
  /\ init = NoInit /\ inits < MaxInits /\ inits' = inits + 1
  /\ init' = [step |-> "msg", kind |-> kind, name |-> name]
  /\ ml' = [ml EXCEPT !.single = single]
  /\ last' = kind /\ halfway' = (halfway \/ mixed)
  /\ UNCHANGED <<reg, level, formatter, loggers, line, messages, out, own, sets, dropped>>

\* init_single_rotating_logger leaves singleMsgFile as it is.
init_single_rotating_logger(name) == BeginInit("single", name, ml.single, ~ml.single)
\* Slip: errors go on to the file of messages.
init_rotating_loggerSlip(name) == BeginInit("both", name, TRUE, FALSE)
init_rotating_logger(name) == BeginInit("both", name, FALSE, FALSE)

\* rotating_logger_mt and stderr_logger_mt: what each step makes and where the
\* logger goes.
Made ==
  CASE init.step = "console" -> [name |-> <<"console">>, file |-> <<0, "stderr">>, to |-> "cerr"]
    [] init.kind = "single" -> [name |-> <<init.name>>, file |-> <<inits, "msg">>, to |-> "msg"]
    [] OTHER -> [name |-> <<init.name, init.step>>, file |-> <<inits, init.step>>, to |-> init.step]
NextStep ==
  CASE init.step = "msg" /\ init.kind = "both" -> "err"
    [] init.step = "err" -> "console"
    [] OTHER -> "level"

MakeLogger ==
  /\ init.step \in {"msg", "err", "console"}
  /\ create(Made.name, Made.file)
  /\ ml' = [ml EXCEPT ![Made.to] = Len(loggers')]
  /\ init' = [init EXCEPT !.step = NextStep]
  /\ halfway' = (halfway /\ init.step # "err")
  /\ UNCHANGED <<level, formatter, inits, line, messages, out, own, sets, dropped, last>>

\* The file does not open, or the name is taken: the exception ends the init.
InitThrows ==
  /\ init.step \in {"msg", "err", "console"}
  /\ init.step = "console" => Made.name \in DOMAIN reg
  /\ init' = NoInit
  /\ halfway' = (halfway \/ init.step # "console")
  /\ UNCHANGED <<reg, level, formatter, loggers, ml, inits, line, messages, out, own, sets, dropped, last>>

\* global_level(trace) at the end.
InitLevel ==
  /\ init.step = "level" /\ set_level(0)
  /\ init' = NoInit
  /\ UNCHANGED <<reg, formatter, ml, inits, line, messages, out, sets, dropped, last, halfway>>

-----------------------------------------------------------------------------
(* A logging statement: MESSGE_LOG(level) << text;                         *)

getLogger(l) == IF l >= Warn /\ ~ml.single THEN ml.err ELSE ml.msg

should_log(i, l) == l >= loggers[i].level
Object(enabled, text) == [enabled |-> enabled, text |-> text]
_log_if_enabled(i, l) == Object(should_log(i, l), NoText)
\* trace, debug, ..., emerg, in their three forms
LevelMethod(i, l) == _log_if_enabled(i, l)

\* get: a line_logger made by the logger's method for the level.  (Without a
\* logger the program ends.)
get(t, l) ==
  /\ line[t] = NoLine /\ init = NoInit /\ Len(messages) < MaxMessages
  /\ getLogger(l) # NoLogger
  /\ LET i == getLogger(l) IN
     /\ messages' = Append(messages, [enabled |-> should_log(i, l), file |-> loggers[i].file])
     /\ line' = [line EXCEPT ![t] = [step |-> "made", logger |-> i, id |-> Len(messages) + 1,
                                     objects |-> <<LevelMethod(i, l)>>]]
  /\ UNCHANGED <<reg, level, formatter, loggers, ml, init, inits, out, own, sets, dropped, last, halfway>>

\* The object is moved to the caller: the message goes with it, and the source
\* is disabled.
\* Slip: the source stays enabled.
MovedSlip(o) == <<[o EXCEPT !.text = NoText], o>>
Moved(o) == <<Object(FALSE, NoText), o>>
Move(t) ==
  /\ line[t].step = "made"
  /\ line' = [line EXCEPT ![t].step = "moved", ![t].objects = Moved(@[1])]
  /\ UNCHANGED <<reg, level, formatter, loggers, ml, init, inits, messages, out, own, sets, dropped, last, halfway>>

\* operator<<
Stream(t) ==
  /\ line[t].step \in {"made", "moved"} /\ Len(line[t].objects) = 1
  /\ line' = [line EXCEPT ![t].step = "written",
                          ![t].objects[1].text = IF line[t].objects[1].enabled THEN "text" ELSE @]
  /\ UNCHANGED <<reg, level, formatter, loggers, ml, init, inits, messages, out, own, sets, dropped, last, halfway>>

\* ~line_logger, _log_msg, through a plain pointer: when nobody holds the logger
\* any more this is undefined, and here nothing is written.  A statement whose
\* format throws writes what it had.
Alive(i) == i \in Registered \cup {ml.msg, ml.err, ml.cerr}
Destroy(t) ==
  /\ line[t].step # "none"
  /\ LET k == line[t]
         o == k.objects[1]
     IN /\ out' = IF o.enabled /\ Alive(k.logger)
                  THEN Append(out, [id |-> k.id, file |-> loggers[k.logger].file, text |-> o.text])
                  ELSE out
        /\ line' = [line EXCEPT ![t] = IF Len(k.objects) = 1 THEN NoLine
                                       ELSE [k EXCEPT !.objects = Tail(k.objects)]]
        /\ Len(k.objects) = 1 => k.step = "written" \/ (k.step = "made" /\ o.enabled)
  /\ UNCHANGED <<reg, level, formatter, loggers, ml, init, inits, messages, own, sets, dropped, last, halfway>>

RegNext ==
  \/ \E l \in Levels : SetGlobalLevel(l) \/ \E i \in Ids : SetOwnLevel(i, l)
  \/ \E p \in Patterns : set_pattern(p)
  \/ drop(DOMAIN reg) \/ \E n \in DOMAIN reg : drop({n})
  \/ \E n \in LoggerNames : init_single_rotating_logger(n) \/ init_rotating_logger(n)
  \/ MakeLogger \/ InitThrows \/ InitLevel
  \/ \E t \in Threads : (\E l \in Levels : get(t, l)) \/ Move(t) \/ Stream(t) \/ Destroy(t)

\* The registry and MessageLog by themselves.
RegSpec == RegInit /\ [][RegNext]_regVars

-----------------------------------------------------------------------------
(* Properties.                                                             *)

\* When an init has ended, records of every level have a logger, and it is one of
\* that init: warnings and errors in their own file after init_rotating_logger.
\* This is not so after an init that failed before it set errLogger (singleMsgFile
\* is cleared first) or an init_single_rotating_logger that came after the other,
\* until an init_rotating_logger gets past errLogger.  A logger that is registered
\* has the level and the formatter of the registry, whenever it was made, unless
\* its level was set on its own after the last global one.
Routed ==
  /\ RegTypeOK
  /\ init = NoInit /\ inits > 0 /\ ~halfway =>
       \A l \in Levels :
         /\ getLogger(l) # NoLogger
         /\ loggers[getLogger(l)].file = <<inits, IF l >= Warn /\ last = "both" THEN "err" ELSE "msg">>
  /\ \A i \in Registered : /\ loggers[i].fmt = formatter
                           /\ i \notin own => loggers[i].level = level

\* A statement writes its message exactly once if the level was enabled when it
\* began, and never otherwise, whatever levels and inits change meanwhile; it
\* writes it to the file of the logger it began with.  A logger is never
\* destroyed under a statement unless its name was dropped.
WrittenOnce ==
  /\ \A id \in 1..Len(messages) :
       LET Written == {n \in 1..Len(out) : out[n].id = id}
           Begun == \E t \in Threads : line[t] # NoLine /\ line[t].id = id
       IN /\ \A m, n \in Written : m = n
          /\ Written # {} => messages[id].enabled
          /\ ~Begun /\ messages[id].enabled /\ ~dropped => Written # {}
          /\ \A n \in Written : out[n].file = messages[id].file
  /\ ~dropped => \A t \in Threads : line[t] # NoLine => Alive(line[t].logger)
=============================================================================
