---------------------------- MODULE SpdlogProofs ----------------------------
(***************************************************************************)
(* Two parts of spdlog and MessageLog, for any number of threads, loggers  *)
(* and messages.                                                           *)
(*                                                                         *)
(* The registry and the line_loggers: a message goes to the file of the    *)
(* last init that went through, and is written exactly once if its level   *)
(* was enabled when its statement began.                                   *)
(*                                                                         *)
(* async_log_helper loses nothing between enqueue and the sink, for any    *)
(* queue size and either overflow policy: every message that push_msg got  *)
(* into the queue is given to the sink in that order, and all of them are  *)
(* there, and flushed, when the destructor returns, unless a sink threw.   *)
(***************************************************************************)
EXTENDS LoggerRegistry, AsyncLog, TLAPS

-----------------------------------------------------------------------------
(* The registry and the line_loggers.                                      *)

Files == (0..MaxInits) \X {"msg", "err", "stderr"}
LoggerRec == [file : Files, level : Nat, fmt : Nat]
ObjectRec == [enabled : BOOLEAN, text : {NoText, "text"}]
LineRec == [step : {"made", "moved", "written"}, logger : Nat, id : Nat, objects : Seq(ObjectRec)]
InitRec == [step : {"msg", "err", "console", "level"}, kind : {"single", "both"}, name : LoggerNames]
MlRec == [single : BOOLEAN, msg : Nat, err : Nat, cerr : Nat]
MessageRec == [enabled : BOOLEAN, file : Files]
OutRec == [id : Nat, file : Files, text : {NoText, "text"}]

\* The types of all variables, with the pointers in range.
RegTypes ==
  /\ reg = [n \in DOMAIN reg |-> reg[n]] /\ \A n \in DOMAIN reg : reg[n] \in Ids
  /\ loggers \in Seq(LoggerRec) /\ Len(loggers) <= MaxLoggers /\ own \subseteq Ids
  /\ level \in Nat /\ formatter \in Nat
  /\ ml \in MlRec /\ {ml.msg, ml.err, ml.cerr} \subseteq Ids \cup {NoLogger}
  /\ init \in InitRec \cup {NoInit} /\ inits \in 0..MaxInits
  /\ line \in [Threads -> LineRec \cup {NoLine}]
  /\ messages \in Seq(MessageRec) /\ Len(messages) <= MaxMessages
  /\ out \in Seq(OutRec)
  /\ sets \in 0..MaxSets /\ dropped \in BOOLEAN /\ halfway \in BOOLEAN
  /\ last \in {"none", "single", "both"}

\* A registered logger is set as the registry is.
Settings ==
  \A i \in Registered : /\ loggers[i].fmt = formatter
                        /\ i \notin own => loggers[i].level = level

\* Which of MessageLog's pointers are those of the last init, at each of its steps.
HasMsg == \/ init.step \in {"err", "console", "level"}
          \/ init.step = "none" /\ inits > 0 /\ ~halfway
HasErr == \/ init.step = "console"
          \/ init.step \in {"level", "none"} /\ last = "both" /\ inits > 0 /\ ~halfway
Routes ==
  /\ HasMsg => ml.msg \in Ids /\ loggers[ml.msg].file = <<inits, "msg">>
  /\ HasErr => ~ml.single /\ ml.err \in Ids /\ loggers[ml.err].file = <<inits, "err">>
  /\ init # NoInit => init.kind = last /\ inits > 0
  /\ init.step \in {"err", "console"} => last = "both"
  /\ last = "both" => ~ml.single
  /\ last = "single" /\ ~halfway => ml.single
  /\ inits > 0 => last # "none"

\* A statement and its line_logger objects, of which the last has the message.
LineOK(k) ==
  /\ k.logger \in Ids /\ k.id \in 1..Len(messages)
  /\ Len(k.objects) \in {1, 2}
  /\ k.objects[Len(k.objects)].enabled = messages[k.id].enabled
  /\ Len(k.objects) = 2 => k.step = "moved" /\ ~k.objects[1].enabled
  /\ loggers[k.logger].file = messages[k.id].file

InLine(t, id) == line[t] # NoLine /\ line[t].id = id
Lines ==
  /\ \A t \in Threads : line[t] # NoLine => LineOK(line[t])
  /\ \A t, s \in Threads : line[t] # NoLine /\ InLine(s, line[t].id) => t = s
Outs ==
  /\ \A n \in 1..Len(out) :
       /\ out[n].id \in 1..Len(messages) /\ messages[out[n].id].enabled
       /\ out[n].file = messages[out[n].id].file
       /\ \A t \in Threads : ~InLine(t, out[n].id)
  /\ \A m, n \in 1..Len(out) : out[m].id = out[n].id => m = n
Kept ==
  ~dropped =>
    /\ Ids \subseteq Registered
    /\ \A id \in 1..Len(messages) : messages[id].enabled =>
         (\E t \in Threads : InLine(t, id)) \/ \E n \in 1..Len(out) : out[n].id = id

RegInv == RegTypes /\ Settings /\ Routes /\ Lines /\ Outs /\ Kept

-----------------------------------------------------------------------------
\* Records and their absence are told apart by their step.
LEMMA StepsTell ==
  /\ \A k \in LineRec : k # NoLine /\ k.step # "none"
  /\ \A k \in InitRec : k # NoInit /\ k.step # "none"
  /\ NoLine.step = "none" /\ NoInit.step = "none"
BY DEF LineRec, InitRec, NoLine, NoInit

LEMMA PairIsSeq ==
  ASSUME NEW S, NEW a \in S, NEW b \in S
  PROVE  <<a, b>> \in Seq(S) /\ Len(<<a, b>>) = 2 /\ <<a, b>>[1] = a /\ <<a, b>>[2] = b
OBVIOUS

LEMMA MoreIds ==
  ASSUME RegTypes, RegTypes', Len(loggers) <= Len(loggers')
  PROVE  Len(loggers) \in Nat /\ Len(loggers') \in Nat /\ Ids \subseteq Ids'
<1>1. loggers \in Seq(LoggerRec) /\ loggers' \in Seq(LoggerRec)
  BY Zenon DEF RegTypes
<1> QED BY <1>1 DEF Ids

\* A step that keeps the file of every logger, makes some or drops names, and
\* leaves the statements alone, keeps what is known of them.
LEMMA FilesStay ==
  ASSUME RegInv, RegTypes', UNCHANGED <<line, messages, out>>,
         Len(loggers) <= Len(loggers'),
         \A i \in Ids : loggers'[i].file = loggers[i].file,
         dropped => dropped', ~dropped' => Ids' \subseteq Registered'
  PROVE  Lines' /\ Outs' /\ Kept'
<1>1. RegTypes /\ Lines /\ Outs /\ Kept
  BY DEF RegInv
<1>2. Len(loggers) \in Nat /\ Len(loggers') \in Nat /\ Ids \subseteq Ids'
  BY <1>1, MoreIds
<1>3. ASSUME NEW t \in Threads, line[t] # NoLine PROVE LineOK(line[t])'
  <2>1. LineOK(line[t])
    BY <1>1, <1>3 DEF Lines
  <2> QED
    BY <1>2, <2>1 DEF LineOK
<1>4. Lines'
  BY <1>1, <1>3 DEF Lines, InLine
<1>5. Outs'
  BY <1>1 DEF Outs, InLine
<1>6. Kept'
  BY <1>1 DEF Kept, InLine
<1> QED BY <1>4, <1>5, <1>6

\* The same for the pointers of MessageLog.
LEMMA RoutesStay ==
  ASSUME RegInv, RegTypes', UNCHANGED <<ml, init, inits, last, halfway>>,
         Len(loggers) <= Len(loggers'),
         \A i \in Ids : loggers'[i].file = loggers[i].file
  PROVE  Routes'
<1>1. RegTypes /\ Routes
  BY DEF RegInv
<1>2. Len(loggers) \in Nat /\ Len(loggers') \in Nat /\ Ids \subseteq Ids'
  BY <1>1, MoreIds
<1>3. (HasMsg' <=> HasMsg) /\ (HasErr' <=> HasErr)
  BY DEF HasMsg, HasErr
<1> QED
  BY <1>1, <1>2, <1>3 DEF Routes

\* loggers, of which some have another level or formatter
LEMMA Relabelled ==
  ASSUME RegTypes, NEW L \in Nat, NEW S,
         \/ loggers' = [i \in Ids |-> IF i \in S THEN [loggers[i] EXCEPT !.level = L] ELSE loggers[i]]
         \/ loggers' = [i \in Ids |-> IF i \in S THEN [loggers[i] EXCEPT !.fmt = L] ELSE loggers[i]]
  PROVE  /\ loggers' \in Seq(LoggerRec) /\ Len(loggers') = Len(loggers) /\ Ids' = Ids
         /\ \A i \in Ids : loggers'[i].file = loggers[i].file
<1>1. loggers \in Seq(LoggerRec) /\ Len(loggers) \in Nat /\ Ids = 1..Len(loggers)
  BY DEF RegTypes, Ids
<1>2. \A i \in Ids : loggers[i] \in LoggerRec
  BY <1>1
<1>3. \A i \in Ids : /\ [loggers[i] EXCEPT !.level = L] \in LoggerRec
                     /\ [loggers[i] EXCEPT !.fmt = L] \in LoggerRec
                     /\ [loggers[i] EXCEPT !.level = L].file = loggers[i].file
                     /\ [loggers[i] EXCEPT !.fmt = L].file = loggers[i].file
  BY <1>2 DEF LoggerRec
<1>4. loggers' \in [1..Len(loggers) -> LoggerRec] /\ \A i \in Ids : loggers'[i].file = loggers[i].file
  BY ZenonT(30), <1>1, <1>2, <1>3
<1>5. loggers' \in Seq(LoggerRec) /\ Len(loggers') = Len(loggers)
  BY <1>1, <1>4
<1> QED
  BY <1>4, <1>5 DEF Ids
-----------------------------------------------------------------------------
\* A global level, set by a call or at the end of an init
LEMMA LevelKeeps ==
  ASSUME RegInv, NEW l \in Nat, set_level(l), UNCHANGED <<reg, formatter>>
  PROVE  /\ loggers' \in Seq(LoggerRec) /\ Len(loggers') = Len(loggers) /\ Ids' = Ids
         /\ \A i \in Ids : loggers'[i].file = loggers[i].file
         /\ own' \subseteq Ids /\ level' = l /\ Registered' = Registered /\ Settings'
<1>1. RegTypes /\ Settings
  BY DEF RegInv
<1>2. /\ loggers' = [i \in Ids |-> IF i \in Registered THEN [loggers[i] EXCEPT !.level = l] ELSE loggers[i]]
      /\ level' = l /\ own' = own \ Registered
  BY DEF set_level
<1>3. /\ loggers' \in Seq(LoggerRec) /\ Len(loggers') = Len(loggers) /\ Ids' = Ids
      /\ \A i \in Ids : loggers'[i].file = loggers[i].file
  BY Zenon, <1>1, <1>2, Relabelled
<1>4. Registered' = Registered /\ Registered \subseteq Ids
  BY <1>1 DEF Registered, RegTypes
<1>5. \A i \in Registered : loggers[i] \in LoggerRec
  BY <1>1, <1>4 DEF RegTypes, Ids
<1>6. \A i \in Registered : loggers'[i].level = l /\ loggers'[i].fmt = loggers[i].fmt
  BY <1>2, <1>4, <1>5 DEF LoggerRec
<1> QED
  BY Zenon, <1>1, <1>2, <1>3, <1>4, <1>6 DEF Settings, RegTypes

LEMMA SetGlobalLevelKeeps ==
  ASSUME RegInv, NEW l \in Nat, SetGlobalLevel(l)
  PROVE  RegInv'
<1>0. RegTypes /\ Kept
  BY DEF RegInv
<1>1. /\ set_level(l) /\ sets < MaxSets /\ sets' = sets + 1
      /\ UNCHANGED <<reg, formatter, dropped, ml, init, inits, line, messages, out, last, halfway>>
  BY DEF SetGlobalLevel, Change, OthersUnchanged
<1>2. /\ loggers' \in Seq(LoggerRec) /\ Len(loggers') = Len(loggers) /\ Ids' = Ids
      /\ \A i \in Ids : loggers'[i].file = loggers[i].file
      /\ own' \subseteq Ids /\ level' = l /\ Registered' = Registered /\ Settings'
  BY Zenon, <1>1, LevelKeeps
<1>3. sets' \in 0..MaxSets
  BY <1>0, <1>1, RegAssumption DEF RegTypes
<1>4. RegTypes'
  BY <1>0, <1>1, <1>2, <1>3 DEF RegTypes
<1>5. Len(loggers) <= Len(loggers')
  BY <1>0, <1>2 DEF RegTypes
<1>6. Routes'
  BY Zenon, <1>1, <1>2, <1>4, <1>5, RoutesStay
<1>7. Lines' /\ Outs' /\ Kept'
  BY Zenon, <1>0, <1>1, <1>2, <1>4, <1>5, FilesStay DEF Kept
<1> QED
  BY <1>2, <1>4, <1>6, <1>7 DEF RegInv

\* global_level(trace) at the end of an init
LEMMA InitLevelKeeps ==
  ASSUME RegInv, InitLevel
  PROVE  RegInv'
<1>0. RegTypes /\ Kept /\ Routes
  BY DEF RegInv
<1>1. /\ set_level(0) /\ init.step = "level" /\ init' = NoInit
      /\ UNCHANGED <<reg, formatter, ml, inits, line, messages, out, sets, dropped, last, halfway>>
  BY DEF InitLevel
<1>2. /\ loggers' \in Seq(LoggerRec) /\ Len(loggers') = Len(loggers) /\ Ids' = Ids
      /\ \A i \in Ids : loggers'[i].file = loggers[i].file
      /\ own' \subseteq Ids /\ level' = 0 /\ Registered' = Registered /\ Settings'
  BY <1>1, LevelKeeps
<1>4. RegTypes'
  BY <1>0, <1>1, <1>2 DEF RegTypes
<1>5. Len(loggers) <= Len(loggers')
  BY <1>0, <1>2 DEF RegTypes
<1>6. Routes'
  <2>1. HasMsg /\ (HasErr' => HasErr) /\ init # NoInit
    BY <1>0, <1>1, StepsTell DEF HasMsg, HasErr
  <2>2. init'.step = "none" /\ inits > 0
    BY <1>0, <1>1, <2>1, StepsTell DEF Routes
  <2> QED
    BY <1>0, <1>1, <1>2, <2>1, <2>2 DEF Routes
<1>7. Lines' /\ Outs' /\ Kept'
  BY Zenon, <1>0, <1>1, <1>2, <1>4, <1>5, FilesStay DEF Kept
<1> QED
  BY <1>2, <1>4, <1>6, <1>7 DEF RegInv

LEMMA SetPatternKeeps ==
  ASSUME RegInv, NEW p \in Nat, set_pattern(p)
  PROVE  RegInv'
<1>0. RegTypes /\ Kept /\ Settings
  BY DEF RegInv
<1>1. /\ loggers' = [i \in Ids |-> IF i \in Registered THEN [loggers[i] EXCEPT !.fmt = p] ELSE loggers[i]]
      /\ formatter' = p /\ sets < MaxSets /\ sets' = sets + 1
      /\ UNCHANGED <<reg, level, own, dropped, ml, init, inits, line, messages, out, last, halfway>>
  BY DEF set_pattern, Change, OthersUnchanged
<1>2. /\ loggers' \in Seq(LoggerRec) /\ Len(loggers') = Len(loggers) /\ Ids' = Ids
      /\ \A i \in Ids : loggers'[i].file = loggers[i].file
  BY Zenon, <1>0, <1>1, Relabelled
<1>3. sets' \in 0..MaxSets
  BY <1>0, <1>1, RegAssumption DEF RegTypes
<1>4. RegTypes'
  BY Zenon, <1>0, <1>1, <1>2, <1>3 DEF RegTypes
<1>5. Len(loggers) <= Len(loggers')
  BY <1>0, <1>2 DEF RegTypes
<1>6. Routes'
  BY Zenon, <1>1, <1>2, <1>4, <1>5, RoutesStay
<1>s. Registered' = Registered /\ Registered \subseteq Ids
  BY <1>0, <1>1 DEF Registered, RegTypes
<1>7. Lines' /\ Outs' /\ Kept'
  BY Zenon, <1>0, <1>1, <1>2, <1>4, <1>5, <1>s, FilesStay DEF Kept
<1>8. Settings'
  <2>1. \A i \in Registered : loggers[i] \in LoggerRec
    BY <1>0, <1>s DEF RegTypes, Ids
  <2>2. \A i \in Registered : loggers'[i].fmt = p /\ loggers'[i].level = loggers[i].level
    BY <1>1, <1>s, <2>1 DEF LoggerRec
  <2> QED
    BY <1>0, <1>1, <1>s, <2>2 DEF Settings
<1> QED
  BY <1>4, <1>6, <1>7, <1>8 DEF RegInv

LEMMA SetOwnLevelKeeps ==
  ASSUME RegInv, NEW i \in Ids, NEW l \in Nat, SetOwnLevel(i, l)
  PROVE  RegInv'
<1>0. RegTypes /\ Kept /\ Settings
  BY DEF RegInv
<1>1. /\ loggers' = [loggers EXCEPT ![i].level = l] /\ own' = own \cup {i}
      /\ sets < MaxSets /\ sets' = sets + 1
      /\ UNCHANGED <<reg, level, formatter, dropped, ml, init, inits, line, messages, out, last, halfway>>
  BY DEF SetOwnLevel, Change, OthersUnchanged
<1>a. loggers \in Seq(LoggerRec) /\ Len(loggers) \in Nat /\ loggers[i] \in LoggerRec
  BY <1>0 DEF RegTypes, Ids
<1>b. /\ [loggers[i] EXCEPT !.level = l] \in LoggerRec
      /\ [loggers[i] EXCEPT !.level = l].file = loggers[i].file
      /\ [loggers[i] EXCEPT !.level = l].fmt = loggers[i].fmt
  BY Zenon, <1>a DEF LoggerRec
<1>2. /\ loggers' \in Seq(LoggerRec) /\ Len(loggers') = Len(loggers) /\ Ids' = Ids
      /\ \A j \in Ids : /\ loggers'[j].file = loggers[j].file /\ loggers'[j].fmt = loggers[j].fmt
                        /\ j # i => loggers'[j] = loggers[j]
  BY <1>1, <1>a, <1>b DEF Ids
<1>3. sets' \in 0..MaxSets
  BY <1>0, <1>1, RegAssumption DEF RegTypes
<1>4. RegTypes'
  BY <1>0, <1>1, <1>2, <1>3 DEF RegTypes
<1>5. Len(loggers) <= Len(loggers')
  BY <1>a, <1>2
<1>6. Routes'
  BY Zenon, <1>1, <1>2, <1>4, <1>5, RoutesStay
<1>s. Registered' = Registered /\ Registered \subseteq Ids
  BY <1>0, <1>1 DEF Registered, RegTypes
<1>7. Lines' /\ Outs' /\ Kept'
  BY Zenon, <1>0, <1>1, <1>2, <1>4, <1>5, <1>s, FilesStay DEF Kept
<1>8. Settings'
  BY <1>0, <1>1, <1>s, <1>2 DEF Settings
<1> QED
  BY <1>4, <1>6, <1>7, <1>8 DEF RegInv

\* The names go; what a statement needs of its logger is in the statement.
LEMMA DropKeeps ==
  ASSUME RegInv, NEW names, drop(names)
  PROVE  RegInv'
<1>0. RegTypes /\ Settings
  BY DEF RegInv
<1>1. /\ reg' = [n \in DOMAIN reg \ names |-> reg[n]] /\ dropped' = TRUE
      /\ sets < MaxSets /\ sets' = sets + 1
      /\ UNCHANGED <<level, formatter, loggers, own, ml, init, inits, line, messages, out, last, halfway>>
  BY DEF drop, Change, OthersUnchanged
<1>2. /\ reg' = [n \in DOMAIN reg' |-> reg'[n]] /\ \A n \in DOMAIN reg' : reg'[n] \in Ids
      /\ Registered' \subseteq Registered
  BY <1>0, <1>1 DEF RegTypes, Registered
<1>3. sets' \in 0..MaxSets
  BY <1>0, <1>1, RegAssumption DEF RegTypes
<1>4. RegTypes'
  BY <1>0, <1>1, <1>2, <1>3 DEF RegTypes, Ids
<1>5. Len(loggers) <= Len(loggers')
  BY <1>0, <1>1 DEF RegTypes
<1>6. Routes'
  BY Zenon, <1>1, <1>2, <1>4, <1>5, RoutesStay
<1>7. Lines' /\ Outs' /\ Kept'
  BY Zenon, <1>1, <1>4, <1>5, FilesStay
<1>8. Settings'
  BY <1>0, <1>1, <1>2 DEF Settings
<1> QED
  BY <1>4, <1>6, <1>7, <1>8 DEF RegInv
-----------------------------------------------------------------------------
LEMMA BeginInitKeeps ==
  ASSUME RegInv, NEW kind \in {"single", "both"}, NEW name \in LoggerNames,
         NEW single \in BOOLEAN, NEW mixed \in BOOLEAN, BeginInit(kind, name, single, mixed),
         kind = "both" => ~single, kind = "single" /\ ~mixed => single
  PROVE  RegInv'
<1>0. RegTypes /\ Settings /\ Kept
  BY DEF RegInv
<1>1. /\ init = NoInit /\ inits < MaxInits /\ inits' = inits + 1
      /\ init' = [step |-> "msg", kind |-> kind, name |-> name]
      /\ ml' = [ml EXCEPT !.single = single]
      /\ last' = kind /\ halfway' = (halfway \/ mixed)
      /\ UNCHANGED <<reg, level, formatter, loggers, line, messages, out, own, sets, dropped>>
  BY DEF BeginInit
<1>2. /\ inits' \in 0..MaxInits /\ inits' > 0
      /\ init' \in InitRec /\ init'.step = "msg" /\ init'.kind = kind /\ halfway' \in BOOLEAN
  BY <1>0, <1>1, RegAssumption DEF RegTypes, InitRec
<1>3. /\ ml' \in MlRec /\ ml'.single = single
      /\ ml'.msg = ml.msg /\ ml'.err = ml.err /\ ml'.cerr = ml.cerr
  BY <1>0, <1>1 DEF RegTypes, MlRec
<1>4. RegTypes'
  BY <1>0, <1>1, <1>2, <1>3 DEF RegTypes, Ids
<1>5. Len(loggers) <= Len(loggers')
  BY <1>0, <1>1 DEF RegTypes
<1>s. Registered' = Registered /\ Ids' = Ids
  BY <1>1 DEF Registered, Ids
<1>6. Routes'
  <2>1. ~HasMsg' /\ ~HasErr'
    BY <1>2 DEF HasMsg, HasErr
  <2> QED
    BY <1>1, <1>2, <1>3, <2>1 DEF Routes
<1>7. Lines' /\ Outs' /\ Kept'
  BY Zenon, <1>0, <1>1, <1>4, <1>5, <1>s, FilesStay DEF Kept
<1>8. Settings'
  BY <1>0, <1>1, <1>s DEF Settings
<1> QED
  BY <1>4, <1>6, <1>7, <1>8 DEF RegInv

\* What each step of an init makes, and the step after it
LEMMA MadeAt ==
  ASSUME RegInv, init.step \in {"msg", "err", "console"}
  PROVE  /\ init \in InitRec /\ init # NoInit /\ Made.file \in Files
         /\ init.step = "msg" => /\ Made.file = <<inits, "msg">> /\ Made.to = "msg"
                                 /\ NextStep = IF last = "both" THEN "err" ELSE "level"
         /\ init.step = "err" => /\ Made.file = <<inits, "err">> /\ Made.to = "err"
                                 /\ NextStep = "console" /\ last = "both"
         /\ init.step = "console" => Made.to = "cerr" /\ NextStep = "level" /\ last = "both"
<1>1. init \in InitRec /\ init # NoInit /\ inits \in 0..MaxInits /\ init.kind \in {"single", "both"}
  BY StepsTell DEF RegInv, RegTypes, InitRec
<1>2. init.kind = last /\ (init.step \in {"err", "console"} => last = "both")
  BY <1>1 DEF RegInv, Routes
<1>3. CASE init.step = "msg"
  BY <1>1, <1>2, <1>3 DEF Made, NextStep, Files
<1>4. CASE init.step = "err"
  BY <1>1, <1>2, <1>4 DEF Made, NextStep, Files
<1>5. CASE init.step = "console"
  BY <1>1, <1>2, <1>5, RegAssumption DEF Made, NextStep, Files
<1> QED BY <1>3, <1>4, <1>5

\* A new logger has the settings of the registry, and is the one that the pointer
\* of this step names.
LEMMA MakeLoggerKeeps ==
  ASSUME RegInv, MakeLogger
  PROVE  RegInv'
<1>0. RegTypes /\ Settings /\ Kept /\ Routes
  BY DEF RegInv
<1>1. /\ init.step \in {"msg", "err", "console"} /\ create(Made.name, Made.file)
      /\ ml' = [ml EXCEPT ![Made.to] = Len(loggers')]
      /\ init' = [init EXCEPT !.step = NextStep]
      /\ halfway' = (halfway /\ init.step # "err")
      /\ UNCHANGED <<level, formatter, inits, line, messages, out, own, sets, dropped, last>>
  BY DEF MakeLogger
<1>2. PICK n, f : n = Made.name /\ f = Made.file
  BY Zenon
<1>3. /\ n \notin DOMAIN reg /\ Len(loggers) < MaxLoggers
      /\ loggers' = Append(loggers, [file |-> f, level |-> level, fmt |-> formatter])
      /\ reg' = [m \in DOMAIN reg \cup {n} |-> IF m = n THEN Len(loggers) + 1 ELSE reg[m]]
  BY <1>1, <1>2 DEF create, NewLogger
<1>m. /\ init \in InitRec /\ init # NoInit /\ f \in Files
      /\ init.step = "msg" => /\ f = <<inits, "msg">> /\ Made.to = "msg"
                              /\ NextStep = IF last = "both" THEN "err" ELSE "level"
      /\ init.step = "err" => /\ f = <<inits, "err">> /\ Made.to = "err"
                              /\ NextStep = "console" /\ last = "both"
      /\ init.step = "console" => Made.to = "cerr" /\ NextStep = "level" /\ last = "both"
  BY <1>1, <1>2, MadeAt
<1>4. PICK k \in Nat : k = Len(loggers) + 1
  BY <1>0 DEF RegTypes
<1>5. /\ loggers' \in Seq(LoggerRec) /\ Len(loggers') = k /\ k <= MaxLoggers
      /\ loggers'[k].file = f /\ loggers'[k].level = level /\ loggers'[k].fmt = formatter
      /\ \A i \in Ids : loggers'[i] = loggers[i]
      /\ Ids' = Ids \cup {k} /\ k \notin Ids
  <2>1. /\ loggers \in Seq(LoggerRec) /\ level \in Nat /\ formatter \in Nat
        /\ Len(loggers) \in Nat /\ MaxLoggers \in Nat
    BY <1>0, RegAssumption DEF RegTypes
  <2>2. PICK g : g = [file |-> f, level |-> level, fmt |-> formatter]
    BY Zenon
  <2>3. g \in LoggerRec /\ g.file = f /\ g.level = level /\ g.fmt = formatter
    BY <1>m, <2>1, <2>2 DEF LoggerRec
  <2> QED
    BY <1>3, <1>4, <2>1, <2>2, <2>3 DEF Ids
<1>6. /\ reg' = [m \in DOMAIN reg' |-> reg'[m]] /\ \A m \in DOMAIN reg' : reg'[m] \in Ids'
      /\ Registered' = Registered \cup {k} /\ Registered \subseteq Ids
  <2>1. DOMAIN reg' = DOMAIN reg \cup {n} /\ reg' = [m \in DOMAIN reg' |-> reg'[m]]
    BY <1>3
  <2>2. reg'[n] = k /\ \A m \in DOMAIN reg : reg'[m] = reg[m] /\ reg[m] \in Ids
    BY <1>0, <1>3, <1>4 DEF RegTypes
  <2>3. k \in Registered' /\ Registered \subseteq Registered' /\ Registered \subseteq Ids
    BY Zenon, <2>1, <2>2 DEF Registered
  <2>4. ASSUME NEW i \in Registered' PROVE i \in Registered \cup {k}
    BY Zenon, <2>1, <2>2 DEF Registered
  <2>5. ASSUME NEW m \in DOMAIN reg' PROVE reg'[m] \in Ids'
    BY Zenon, <1>5, <2>1, <2>2
  <2> QED
    BY <2>1, <2>3, <2>4, <2>5
<1>7. /\ ml' \in MlRec /\ ml'.single = ml.single
      /\ ml'.msg = IF init.step = "msg" THEN k ELSE ml.msg
      /\ ml'.err = IF init.step = "err" THEN k ELSE ml.err
      /\ ml'.cerr = IF init.step = "console" THEN k ELSE ml.cerr
  <2>0. ml \in MlRec
    BY <1>0 DEF RegTypes
  <2>1. CASE init.step = "msg"
    <3>1. ml' = [ml EXCEPT !.msg = k]
      BY <1>1, <1>5, <1>m, <2>1
    <3> QED BY <2>0, <2>1, <3>1 DEF MlRec
  <2>2. CASE init.step = "err"
    <3>1. ml' = [ml EXCEPT !.err = k]
      BY <1>1, <1>5, <1>m, <2>2
    <3> QED BY <2>0, <2>2, <3>1 DEF MlRec
  <2>3. CASE init.step = "console"
    <3>1. ml' = [ml EXCEPT !.cerr = k]
      BY <1>1, <1>5, <1>m, <2>3
    <3> QED BY <2>0, <2>3, <3>1 DEF MlRec
  <2> QED BY <1>1, <2>1, <2>2, <2>3
<1>8. /\ init' \in InitRec /\ init'.step = NextStep /\ init'.kind = init.kind /\ halfway' \in BOOLEAN
  BY <1>0, <1>1, <1>m DEF InitRec, RegTypes
<1>9. RegTypes'
  <2>1. {ml'.msg, ml'.err, ml'.cerr} \subseteq Ids' \cup {NoLogger}
    BY <1>0, <1>5, <1>7 DEF RegTypes
  <2> QED
    BY <1>0, <1>1, <1>5, <1>6, <1>7, <1>8, <2>1 DEF RegTypes
<1>10. Settings'
  BY <1>0, <1>1, <1>5, <1>6 DEF Settings, RegTypes
<1>11. Routes'
  <2>1. init.kind = last /\ inits > 0 /\ init'.step # "none" /\ init' # NoInit
    BY <1>0, <1>8, <1>m, StepsTell DEF Routes
  <2>2. /\ last = "both" => ~ml.single
        /\ last = "single" /\ ~halfway => ml.single
        /\ last # "none"
    BY <1>0, <2>1 DEF Routes
  <2>3. CASE init.step = "msg"
    <3>1. ml'.msg = k /\ loggers'[k].file = <<inits, "msg">> /\ halfway' = halfway
      BY <1>1, <1>5, <1>7, <1>m, <2>3, <1>0 DEF RegTypes
    <3>2. init'.step = (IF last = "both" THEN "err" ELSE "level") /\ ~HasErr'
      BY <1>1, <1>8, <1>m, <2>3 DEF HasErr
    <3> QED
      BY <1>1, <1>5, <1>7, <1>8, <2>1, <2>2, <3>1, <3>2 DEF Routes
  <2>4. CASE init.step = "err"
    <3>1. /\ ml'.err = k /\ loggers'[k].file = <<inits, "err">> /\ ml'.msg = ml.msg
          /\ ml.msg \in Ids /\ loggers[ml.msg].file = <<inits, "msg">> /\ last = "both"
      BY <1>0, <1>5, <1>7, <1>m, <2>4 DEF Routes, HasMsg
    <3> QED
      BY <1>1, <1>5, <1>7, <1>8, <2>1, <2>2, <3>1 DEF Routes
  <2>5. CASE init.step = "console"
    <3>1. /\ ml'.err = ml.err /\ ml'.msg = ml.msg
          /\ ml.msg \in Ids /\ loggers[ml.msg].file = <<inits, "msg">>
          /\ ml.err \in Ids /\ loggers[ml.err].file = <<inits, "err">> /\ last = "both"
      BY <1>0, <1>7, <1>m, <2>5 DEF Routes, HasMsg, HasErr
    <3> QED
      BY <1>1, <1>5, <1>7, <1>8, <2>1, <2>2, <3>1 DEF Routes
  <2> QED BY <1>1, <2>3, <2>4, <2>5
<1>12. Lines' /\ Outs' /\ Kept'
  <2>1. Len(loggers) <= Len(loggers') /\ \A i \in Ids : loggers'[i].file = loggers[i].file
    BY <1>0, <1>4, <1>5 DEF RegTypes
  <2>2. ~dropped' => Ids' \subseteq Registered'
    BY <1>0, <1>1, <1>5, <1>6 DEF Kept
  <2> QED
    BY Zenon, <1>1, <1>9, <2>1, <2>2, FilesStay
<1> QED
  BY <1>9, <1>10, <1>11, <1>12 DEF RegInv

\* The exception leaves the pointers that were set.
LEMMA InitThrowsKeeps ==
  ASSUME RegInv, InitThrows
  PROVE  RegInv'
<1>0. RegTypes /\ Settings /\ Kept /\ Routes
  BY DEF RegInv
<1>1. /\ init.step \in {"msg", "err", "console"} /\ init' = NoInit
      /\ halfway' = (halfway \/ init.step # "console")
      /\ UNCHANGED <<reg, level, formatter, loggers, ml, inits, line, messages, out, own, sets, dropped, last>>
  BY DEF InitThrows
<1>4. RegTypes'
  BY <1>0, <1>1 DEF RegTypes, Ids
<1>5. Len(loggers) <= Len(loggers')
  BY <1>0, <1>1 DEF RegTypes
<1>s. Registered' = Registered /\ Ids' = Ids
  BY <1>1 DEF Registered, Ids
<1>6. Routes'
  <2>1. init # NoInit /\ init'.step = "none"
    BY <1>1, StepsTell
  <2>2. (HasMsg' => HasMsg) /\ (HasErr' => HasErr) /\ (~halfway' => ~halfway)
    BY <1>0, <1>1, <2>1 DEF HasMsg, HasErr, RegTypes
  <2> QED
    BY <1>0, <1>1, <1>s, <2>1, <2>2 DEF Routes
<1>7. Lines' /\ Outs' /\ Kept'
  BY Zenon, <1>0, <1>1, <1>4, <1>5, <1>s, FilesStay DEF Kept
<1>8. Settings'
  BY <1>0, <1>1, <1>s DEF Settings
<1> QED
  BY <1>4, <1>6, <1>7, <1>8 DEF RegInv
-----------------------------------------------------------------------------
regOnly == <<reg, level, formatter, loggers, ml, init, inits, own, sets, dropped, last, halfway>>

\* A step of a statement changes nothing of the registry and MessageLog.
LEMMA RegistryStays ==
  ASSUME RegInv, UNCHANGED regOnly, line' \in [Threads -> LineRec \cup {NoLine}],
         messages' \in Seq(MessageRec), Len(messages') <= MaxMessages, out' \in Seq(OutRec)
  PROVE  RegTypes' /\ Settings' /\ Routes' /\ Ids' = Ids /\ Registered' = Registered
<1>0. RegTypes /\ Settings /\ Routes
  BY DEF RegInv
<1>1. Ids' = Ids /\ Registered' = Registered
  BY DEF Ids, Registered, regOnly
<1>2. RegTypes'
  BY <1>0, <1>1 DEF RegTypes, regOnly
<1>3. Settings'
  BY <1>0, <1>1 DEF Settings, regOnly
<1>4. (HasMsg' <=> HasMsg) /\ (HasErr' <=> HasErr)
  BY DEF HasMsg, HasErr, regOnly
<1>5. Routes'
  BY <1>0, <1>1, <1>4 DEF Routes, regOnly
<1> QED BY <1>1, <1>2, <1>3, <1>5

\* A statement goes on with the same message.
LEMMA GoesOn ==
  ASSUME RegInv, NEW t \in Threads, line[t] # NoLine, NEW k \in LineRec, LineOK(k), k.id = line[t].id,
         line' = [line EXCEPT ![t] = k], UNCHANGED regOnly, UNCHANGED <<messages, out>>
  PROVE  RegInv'
<1>0. RegTypes /\ Lines /\ Outs /\ Kept
  BY DEF RegInv
<1>1. /\ line \in [Threads -> LineRec \cup {NoLine}] /\ k # NoLine
      /\ messages \in Seq(MessageRec) /\ Len(messages) <= MaxMessages /\ out \in Seq(OutRec)
  BY <1>0, StepsTell DEF RegTypes
<1>2. /\ line' \in [Threads -> LineRec \cup {NoLine}] /\ line'[t] = k
      /\ \A s \in Threads \ {t} : line'[s] = line[s]
  BY <1>1
<1>3. RegTypes' /\ Settings' /\ Routes' /\ Ids' = Ids /\ Registered' = Registered
  BY Zenon, <1>1, <1>2, RegistryStays
<1>4. \A s \in Threads : /\ line'[s] # NoLine <=> line[s] # NoLine
                         /\ line[s] # NoLine => line'[s].id = line[s].id
  BY Zenon, <1>1, <1>2
<1>5. \A s \in Threads : \A id : InLine(s, id)' <=> InLine(s, id)
  BY Zenon, <1>4 DEF InLine
<1>6. LineOK(k) /\ \A s \in Threads : line[s] # NoLine => LineOK(line[s])
  BY <1>0 DEF Lines
<1>7. Lines'
  <2>1. ASSUME NEW s \in Threads, line'[s] # NoLine PROVE LineOK(line[s])'
    <3>1. PICK j : j = line'[s] /\ LineOK(j)
      BY Zenon, <1>2, <1>6, <2>1
    <3> QED
      BY <1>3, <3>1 DEF LineOK, regOnly
  <2>2. \A s, r \in Threads : line'[s] # NoLine /\ line'[r] # NoLine /\ line'[r].id = line'[s].id => s = r
    BY Zenon, <1>0, <1>4 DEF Lines, InLine
  <2> QED BY Zenon, <2>1, <2>2 DEF Lines, InLine
<1>8. Outs'
  BY Zenon, <1>0, <1>5 DEF Outs
<1>9. Kept'
  BY Zenon, <1>0, <1>3, <1>5 DEF Kept, regOnly
<1> QED
  BY <1>3, <1>7, <1>8, <1>9 DEF RegInv

LEMMA MoveKeeps ==
  ASSUME RegInv, NEW t \in Threads, Move(t)
  PROVE  RegInv'
<1>1. /\ line[t].step = "made" /\ UNCHANGED regOnly /\ UNCHANGED <<messages, out>>
      /\ line' = [line EXCEPT ![t].step = "moved", ![t].objects = Moved(@[1])]
  BY DEF Move, regOnly
<1>2. line[t] # NoLine /\ line[t] \in LineRec /\ LineOK(line[t])
  BY <1>1, StepsTell DEF RegInv, RegTypes, Lines
<1>3. PICK k : k = [line[t] EXCEPT !.step = "moved", !.objects = Moved(line[t].objects[1])]
  BY Zenon
<1>4. line' = [line EXCEPT ![t] = k]
  BY <1>1, <1>2, <1>3 DEF RegInv, RegTypes
<1>5. PICK o \in ObjectRec : o = line[t].objects[1] /\ o.enabled = messages[line[t].id].enabled
  BY <1>1, <1>2 DEF LineRec, LineOK
<1>6. /\ k.step = "moved" /\ k.objects = <<Object(FALSE, NoText), o>>
      /\ k.id = line[t].id /\ k.logger = line[t].logger
  BY <1>2, <1>3, <1>5 DEF Moved, LineRec
<1>7. Object(FALSE, NoText) \in ObjectRec /\ ~Object(FALSE, NoText).enabled
  BY DEF Object, ObjectRec
<1>8. k.objects \in Seq(ObjectRec) /\ Len(k.objects) = 2 /\ ~k.objects[1].enabled /\ k.objects[2] = o
  <2>1. PICK a \in ObjectRec : a = Object(FALSE, NoText) /\ ~a.enabled
    BY Zenon, <1>7
  <2>2. k.objects = <<a, o>>
    BY Zenon, <1>6, <2>1
  <2>3. k.objects \in Seq(ObjectRec) /\ Len(k.objects) = 2 /\ k.objects[1] = a /\ k.objects[2] = o
    <3>1. <<a, o>> \in Seq(ObjectRec) /\ Len(<<a, o>>) = 2 /\ <<a, o>>[1] = a /\ <<a, o>>[2] = o
      BY <1>5, <2>1, PairIsSeq
    <3> QED BY Zenon, <2>2, <3>1
  <2> QED BY Zenon, <2>1, <2>3
<1>r. k \in LineRec
  BY <1>2, <1>3, <1>6, <1>8 DEF LineRec
<1>9. LineOK(k)
  <2>1. /\ line[t].logger \in Ids /\ line[t].id \in 1..Len(messages)
        /\ loggers[line[t].logger].file = messages[line[t].id].file
    BY <1>2 DEF LineOK
  <2> QED
    BY <1>5, <1>6, <1>8, <2>1 DEF LineOK
<1> QED
  BY Zenon, <1>1, <1>2, <1>4, <1>6, <1>r, <1>9, GoesOn

LEMMA StreamKeeps ==
  ASSUME RegInv, NEW t \in Threads, Stream(t)
  PROVE  RegInv'
<1>1. /\ line[t].step \in {"made", "moved"} /\ Len(line[t].objects) = 1
      /\ UNCHANGED regOnly /\ UNCHANGED <<messages, out>>
      /\ line' = [line EXCEPT ![t].step = "written",
                              ![t].objects[1].text = IF line[t].objects[1].enabled THEN "text" ELSE @]
  BY DEF Stream, regOnly
<1>2. line[t] # NoLine /\ line[t] \in LineRec /\ LineOK(line[t])
  BY <1>1, StepsTell DEF RegInv, RegTypes, Lines
<1>3. PICK o \in ObjectRec : o = line[t].objects[1] /\ o.enabled = messages[line[t].id].enabled
  BY <1>1, <1>2 DEF LineRec, LineOK
<1>4. PICK p : p = [o EXCEPT !.text = IF o.enabled THEN "text" ELSE @]
  BY Zenon
<1>5. p \in ObjectRec /\ p.enabled = o.enabled
  BY <1>4 DEF ObjectRec
<1>6. PICK k : k = [line[t] EXCEPT !.step = "written", !.objects = [@ EXCEPT ![1] = p]]
  BY Zenon
<1>7. line' = [line EXCEPT ![t] = k]
  BY <1>1, <1>2, <1>3, <1>4, <1>6 DEF RegInv, RegTypes
<1>8. /\ k.step = "written" /\ k.id = line[t].id /\ k.logger = line[t].logger
      /\ k.objects = [line[t].objects EXCEPT ![1] = p]
  BY <1>2, <1>6 DEF LineRec
<1>9. line[t].objects \in Seq(ObjectRec)
  BY <1>2 DEF LineRec
<1>10. k.objects \in Seq(ObjectRec) /\ Len(k.objects) = 1 /\ k.objects[1] = p
  BY <1>1, <1>5, <1>8, <1>9
<1>11. k \in LineRec
  BY <1>2, <1>6, <1>8, <1>10 DEF LineRec
<1>12. LineOK(k)
  <2>1. /\ line[t].logger \in Ids /\ line[t].id \in 1..Len(messages)
        /\ loggers[line[t].logger].file = messages[line[t].id].file
    BY <1>2 DEF LineOK
  <2>2. 1 # 2
    OBVIOUS
  <2> QED
    BY Zenon, <1>3, <1>5, <1>8, <1>10, <2>1, <2>2 DEF LineOK
<1> QED
  BY Zenon, <1>1, <1>2, <1>7, <1>8, <1>11, <1>12, GoesOn

\* A statement begins: its message is new, and its object is enabled exactly if
\* the message is.
LEMMA GetKeeps ==
  ASSUME RegInv, NEW t \in Threads, NEW l \in Levels, get(t, l)
  PROVE  RegInv'
<1>0. RegTypes /\ Lines /\ Outs /\ Kept
  BY DEF RegInv
<1>1. PICK i : i = getLogger(l)
  BY Zenon
<1>2. /\ line[t] = NoLine /\ Len(messages) < MaxMessages /\ i # NoLogger
      /\ messages' = Append(messages, [enabled |-> should_log(i, l), file |-> loggers[i].file])
      /\ line' = [line EXCEPT ![t] = [step |-> "made", logger |-> i, id |-> Len(messages) + 1,
                                      objects |-> <<LevelMethod(i, l)>>]]
      /\ UNCHANGED regOnly /\ UNCHANGED out
  BY <1>1 DEF get, regOnly
<1>4. i \in Ids /\ loggers[i] \in LoggerRec /\ loggers[i].file \in Files
  <2>1. i \in Ids
    BY <1>0, <1>1, <1>2 DEF getLogger, RegTypes
  <2>2. loggers[i] \in LoggerRec
    BY <1>0, <2>1 DEF RegTypes, Ids
  <2> QED BY <2>1, <2>2 DEF LoggerRec
<1>3. PICK e \in BOOLEAN : e = should_log(i, l)
  <2>1. l \in Nat /\ loggers[i].level \in Nat
    BY <1>4, RegAssumption DEF LoggerRec
  <2>2. (l >= loggers[i].level) \in BOOLEAN
    BY <2>1
  <2> QED BY Zenon, <2>2 DEF should_log
<1>5. PICK d \in Nat : d = Len(messages) + 1
  BY <1>0 DEF RegTypes
<1>6. PICK o : o = LevelMethod(i, l)
  BY Zenon
<1>7. o \in ObjectRec /\ o.enabled = e
  BY <1>3, <1>6 DEF LevelMethod, _log_if_enabled, Object, ObjectRec
<1>8. PICK k : k = [step |-> "made", logger |-> i, id |-> d, objects |-> <<o>>]
  BY Zenon
<1>9. /\ k \in LineRec /\ k.step = "made" /\ k.logger = i /\ k.id = d /\ k.objects = <<o>> /\ k # NoLine
  <2>1. <<o>> \in Seq(ObjectRec) /\ i \in Nat
    BY <1>0, <1>4, <1>7 DEF RegTypes, Ids
  <2>2. k \in LineRec
    BY <1>8, <2>1 DEF LineRec
  <2> QED BY <1>8, <2>2, StepsTell
<1>10. /\ messages \in Seq(MessageRec) /\ Len(messages) \in Nat /\ messages' \in Seq(MessageRec)
       /\ Len(messages') = d /\ d <= MaxMessages
       /\ messages'[d].enabled = e /\ messages'[d].file = loggers[i].file
       /\ \A j \in 1..Len(messages) : messages'[j] = messages[j]
  <2>1. messages \in Seq(MessageRec) /\ Len(messages) \in Nat /\ MaxMessages \in Nat
    BY <1>0, RegAssumption DEF RegTypes
  <2>2. PICK m : m = [enabled |-> e, file |-> loggers[i].file]
    BY Zenon
  <2>3. m \in MessageRec /\ m.enabled = e /\ m.file = loggers[i].file
    BY <1>4, <2>2 DEF MessageRec
  <2>4. messages' = Append(messages, m)
    BY <1>2, <1>3, <2>2
  <2> QED
    BY <1>2, <1>5, <2>1, <2>3, <2>4
<1>11. /\ line' \in [Threads -> LineRec \cup {NoLine}] /\ line'[t] = k
       /\ \A s \in Threads \ {t} : line'[s] = line[s]
  <2>1. line' = [line EXCEPT ![t] = k]
    BY Zenon, <1>2, <1>5, <1>6, <1>8
  <2> QED
    BY <1>0, <1>9, <2>1 DEF RegTypes
<1>12. out \in Seq(OutRec)
  BY <1>0 DEF RegTypes
<1>13. RegTypes' /\ Settings' /\ Routes' /\ Ids' = Ids /\ Registered' = Registered
  BY Zenon, <1>2, <1>10, <1>11, <1>12, RegistryStays
<1>14. \A s \in Threads : line[s] # NoLine => LineOK(line[s]) /\ line[s].id \in 1..Len(messages)
  BY <1>0 DEF Lines, LineOK
<1>15. Lines'
  <2>1. ASSUME NEW s \in Threads, line'[s] # NoLine PROVE LineOK(line[s])'
    <3>1. CASE s = t
      BY <1>2, <1>4, <1>7, <1>9, <1>10, <1>11, <1>13, <3>1 DEF LineOK, regOnly
    <3>2. CASE s # t
      <4>1. line'[s] = line[s] /\ LineOK(line[s])
        BY <1>11, <1>14, <2>1, <3>2
      <4>2. line[s].id \in 1..Len(messages') /\ messages'[line[s].id] = messages[line[s].id]
        BY <1>5, <1>10, <4>1 DEF LineOK
      <4> QED
        BY <1>2, <1>13, <4>1, <4>2 DEF LineOK, regOnly
    <3> QED BY <3>1, <3>2
  <2>2. \A s \in Threads \ {t} : line'[s] # NoLine => line'[s].id # d
    BY <1>5, <1>10, <1>11, <1>14
  <2>3. \A s, r \in Threads : line'[s] # NoLine /\ line'[r] # NoLine /\ line'[r].id = line'[s].id => s = r
    BY Zenon, <1>0, <1>9, <1>11, <2>2 DEF Lines, InLine
  <2> QED BY Zenon, <2>1, <2>3 DEF Lines, InLine
<1>16. Outs'
  <2>1. \A n \in 1..Len(out) : /\ out[n].id \in 1..Len(messages) /\ messages[out[n].id].enabled
                               /\ out[n].file = messages[out[n].id].file
                               /\ \A s \in Threads : ~InLine(s, out[n].id)
    BY Zenon, <1>0 DEF Outs
  <2>2. \A n \in 1..Len(out) : /\ out[n].id \in 1..Len(messages') /\ out[n].id # d
                               /\ messages'[out[n].id] = messages[out[n].id]
    BY <1>5, <1>10, <2>1
  <2>3. \A n \in 1..Len(out), s \in Threads : line'[s] # NoLine => line'[s].id # out[n].id
    BY <1>9, <1>11, <2>1, <2>2 DEF InLine
  <2> QED
    BY <1>0, <1>2, <2>1, <2>2, <2>3 DEF Outs, InLine
<1>17. Kept'
  <2> SUFFICES ASSUME ~dropped' PROVE Kept'
    BY DEF Kept
  <2>1. ~dropped /\ Ids' \subseteq Registered'
    BY <1>0, <1>2, <1>13 DEF Kept, regOnly
  <2>2. ASSUME NEW id \in 1..Len(messages'), messages'[id].enabled
        PROVE  (\E s \in Threads : InLine(s, id)') \/ \E n \in 1..Len(out) : out[n].id = id
    <3>1. CASE id = d
      BY <1>9, <1>11, <3>1 DEF InLine
    <3>2. CASE id # d
      <4>1. id \in 1..Len(messages) /\ messages[id].enabled
        BY <1>5, <1>10, <2>2, <3>2
      <4>2. \A s \in Threads : InLine(s, id) => InLine(s, id)'
        BY <1>2, <1>11 DEF InLine
      <4> QED
        BY Zenon, <1>0, <2>1, <4>1, <4>2 DEF Kept
    <3> QED BY <3>1, <3>2
  <2> QED
    BY <1>2, <2>1, <2>2 DEF Kept
<1> QED
  BY <1>13, <1>15, <1>16, <1>17 DEF RegInv

\* An object dies: the source of a move, which is disabled, or the one with the
\* message, which ends the statement.
LEMMA DestroyKeeps ==
  ASSUME RegInv, NEW t \in Threads, Destroy(t)
  PROVE  RegInv'
<1>0. RegTypes /\ Lines /\ Outs /\ Kept
  BY DEF RegInv
<1>1. PICK k : k = line[t]
  BY Zenon
<1>2. k.step # "none" /\ UNCHANGED regOnly /\ UNCHANGED messages
  BY <1>1 DEF Destroy, regOnly
<1>l. line' = [line EXCEPT ![t] = IF Len(k.objects) = 1 THEN NoLine
                                  ELSE [k EXCEPT !.objects = Tail(k.objects)]]
  BY Zenon, <1>1 DEF Destroy
<1>w. out' = IF k.objects[1].enabled /\ Alive(k.logger)
                THEN Append(out, [id |-> k.id, file |-> loggers[k.logger].file, text |-> k.objects[1].text])
                ELSE out
  BY Zenon, <1>1 DEF Destroy
<1>3. k # NoLine /\ k \in LineRec /\ LineOK(k)
  BY <1>0, <1>1, <1>2, StepsTell DEF RegTypes, Lines
<1>4. k.objects \in Seq(ObjectRec) /\ Len(k.objects) \in {1, 2}
  BY <1>3 DEF LineRec, LineOK
<1>5. CASE Len(k.objects) = 2
  <2>1. ~k.objects[1].enabled /\ out' = out
    BY <1>3, <1>5, <1>w DEF LineOK
  <2>2. PICK j : j = [k EXCEPT !.objects = Tail(k.objects)]
    BY Zenon
  <2>3. line' = [line EXCEPT ![t] = j]
    BY <1>5, <1>l, <2>2
  <2>4. /\ Tail(k.objects) \in Seq(ObjectRec) /\ Len(Tail(k.objects)) = 1
        /\ Tail(k.objects)[1] = k.objects[2]
    BY <1>4, <1>5
  <2>5. /\ j \in LineRec /\ j.objects = Tail(k.objects) /\ j.id = k.id /\ j.logger = k.logger
        /\ j.step = k.step
    BY <1>3, <2>2, <2>4 DEF LineRec
  <2>6. LineOK(j)
    BY <1>3, <1>5, <2>4, <2>5 DEF LineOK
  <2> QED
    BY Zenon, <1>1, <1>2, <1>3, <2>1, <2>3, <2>5, <2>6, GoesOn
<1>6. CASE Len(k.objects) = 1
  <2>1. PICK o \in ObjectRec : o = k.objects[1] /\ o.enabled = messages[k.id].enabled
    BY <1>3, <1>4, <1>6 DEF LineOK
  <2>2. /\ k.logger \in Ids /\ k.id \in 1..Len(messages) /\ k.id \in Nat
        /\ loggers[k.logger].file = messages[k.id].file /\ messages[k.id].file \in Files
    <3>1. messages[k.id] \in MessageRec
      BY <1>0, <1>3 DEF LineOK, RegTypes
    <3> QED BY <1>3, <3>1 DEF LineOK, LineRec, MessageRec
  <2>3. /\ line' \in [Threads -> LineRec \cup {NoLine}] /\ line'[t] = NoLine
        /\ \A s \in Threads \ {t} : line'[s] = line[s]
    BY <1>0, <1>6, <1>l DEF RegTypes
  <2>4. /\ messages' \in Seq(MessageRec) /\ Len(messages') <= MaxMessages /\ out \in Seq(OutRec)
    BY <1>0, <1>2 DEF RegTypes
  <2>5. PICK w : w = [id |-> k.id, file |-> loggers[k.logger].file, text |-> k.objects[1].text]
    BY Zenon
  <2>6. w \in OutRec /\ w.id = k.id /\ w.file = messages[k.id].file
    BY <2>1, <2>2, <2>5 DEF OutRec, ObjectRec
  <2>7. (out' = Append(out, w) /\ o.enabled) \/ (out' = out /\ ~(o.enabled /\ Alive(k.logger)))
    <3>1. CASE o.enabled /\ Alive(k.logger)
      BY Zenon, <1>w, <2>1, <2>5, <3>1
    <3>2. CASE ~(o.enabled /\ Alive(k.logger))
      BY Zenon, <1>w, <2>1, <3>2
    <3> QED BY <3>1, <3>2
  <2>8. out' \in Seq(OutRec)
    BY <2>4, <2>6, <2>7
  <2>9. RegTypes' /\ Settings' /\ Routes' /\ Ids' = Ids /\ Registered' = Registered
    BY Zenon, <1>2, <2>3, <2>4, <2>8, RegistryStays
  <2>10. \A s \in Threads : \A id : line'[s] # NoLine /\ line'[s].id = id <=> s # t /\ InLine(s, id)
    BY Zenon, <2>3 DEF InLine
  <2>11. InLine(t, k.id) /\ \A s \in Threads : InLine(s, k.id) => s = t
    BY Zenon, <1>0, <1>1, <1>3 DEF Lines, InLine
  <2>12. Lines'
    <3>1. ASSUME NEW s \in Threads, line'[s] # NoLine PROVE LineOK(line[s])'
      <4>1. PICK j : j = line'[s] /\ LineOK(j)
        BY Zenon, <1>0, <2>3, <3>1 DEF Lines
      <4> QED
        BY <1>2, <2>9, <4>1 DEF LineOK, regOnly
    <3>2. \A s, r \in Threads : line'[s] # NoLine /\ line'[r] # NoLine /\ line'[r].id = line'[s].id => s = r
      BY Zenon, <1>0, <2>3 DEF Lines, InLine
    <3> QED BY Zenon, <3>1, <3>2 DEF Lines, InLine
  <2>13. \A n \in 1..Len(out) : /\ out[n].id \in 1..Len(messages) /\ messages[out[n].id].enabled
                                /\ out[n].file = messages[out[n].id].file
                                /\ \A s \in Threads : ~InLine(s, out[n].id)
    BY Zenon, <1>0 DEF Outs
  <2>14. \A n \in 1..Len(out) : out[n].id # k.id
    BY Zenon, <2>11, <2>13
  <2>15. CASE out' = Append(out, w) /\ o.enabled
    <3>1. PICK e \in Nat : e = Len(out)
      BY <2>4
    <3>2. /\ Len(out') = e + 1 /\ out'[e + 1] = w
          /\ \A n \in 1..e : out'[n] = out[n]
      BY <2>4, <2>6, <2>15, <3>1
    <3>3. \A n \in 1..(e + 1) : n = e + 1 \/ n \in 1..e
      BY <3>1
    <3>4. ASSUME NEW n \in 1..(e + 1)
          PROVE  /\ out'[n].id \in 1..Len(messages) /\ messages[out'[n].id].enabled
                 /\ out'[n].file = messages[out'[n].id].file
                 /\ \A s \in Threads : ~(line'[s] # NoLine /\ line'[s].id = out'[n].id)
      <4>1. CASE n = e + 1
        BY Zenon, <2>1, <2>2, <2>6, <2>10, <2>11, <2>15, <3>2, <4>1
      <4>2. CASE n \in 1..e
        <5>1. out'[n] = out[n] /\ n \in 1..Len(out)
          BY Zenon, <3>1, <3>2, <4>2
        <5>2. \A s \in Threads : ~InLine(s, out[n].id)
          BY Zenon, <2>13, <5>1
        <5> QED BY Zenon, <2>10, <2>13, <5>1, <5>2
      <4> QED BY <3>3, <4>1, <4>2
    <3>5. \A m, n \in 1..(e + 1) : out'[m].id = out'[n].id => m = n
      <4>1. \A m, n \in 1..e : out'[m].id = out'[n].id => m = n
        BY Zenon, <1>0, <3>1, <3>2 DEF Outs
      <4>2. \A n \in 1..e : out'[n].id # out'[e + 1].id
        BY Zenon, <2>6, <2>14, <3>1, <3>2
      <4> QED BY Zenon, <3>3, <4>1, <4>2
    <3>6. Outs'
      BY Zenon, <1>2, <3>2, <3>4, <3>5 DEF Outs, InLine
    <3>7. Kept'
      <4> SUFFICES ASSUME ~dropped' PROVE Kept'
        BY DEF Kept
      <4>1. ~dropped /\ Ids' \subseteq Registered'
        BY <1>0, <1>2, <2>9 DEF Kept, regOnly
      <4>2. ASSUME NEW id \in 1..Len(messages), messages[id].enabled
            PROVE  (\E s \in Threads : line'[s] # NoLine /\ line'[s].id = id) \/ \E n \in 1..(e + 1) : out'[n].id = id
        <5>1. e + 1 \in 1..(e + 1) /\ \A n \in 1..e : n \in 1..(e + 1)
          BY <3>1
        <5>2. CASE id = k.id
          BY Zenon, <2>6, <3>2, <5>1, <5>2
        <5>3. CASE id # k.id
          <6>1. (\E s \in Threads : InLine(s, id)) \/ \E n \in 1..e : out[n].id = id
            BY Zenon, <1>0, <3>1, <4>1, <4>2 DEF Kept
          <6>2. ~InLine(t, id)
            BY Zenon, <1>1, <5>3 DEF InLine
          <6> QED BY Zenon, <2>10, <3>2, <5>1, <6>1, <6>2
        <5> QED BY <5>2, <5>3
      <4> QED
        BY Zenon, <1>2, <3>2, <4>1, <4>2 DEF Kept, InLine
    <3> QED BY <2>9, <2>12, <3>6, <3>7 DEF RegInv
  <2>16. CASE out' = out /\ ~(o.enabled /\ Alive(k.logger))
    <3>1. Outs'
      <4>1. \A n \in 1..Len(out), s \in Threads : ~(line'[s] # NoLine /\ line'[s].id = out[n].id)
        <5>1. ASSUME NEW n \in 1..Len(out), NEW s \in Threads, line'[s] # NoLine, line'[s].id = out[n].id
              PROVE  FALSE
          <6>1. InLine(s, out[n].id)
            BY Zenon, <2>10, <5>1
          <6> QED BY Zenon, <2>13, <6>1
        <5> QED BY Zenon, <5>1
      <4> QED BY Zenon, <1>0, <1>2, <2>13, <2>16, <4>1 DEF Outs, InLine
    <3>2. Kept'
      <4> SUFFICES ASSUME ~dropped' PROVE Kept'
        BY DEF Kept
      <4>1. ~dropped /\ Ids' \subseteq Registered' /\ Ids \subseteq Registered
        BY <1>0, <1>2, <2>9 DEF Kept, regOnly
      <4>2. ~messages[k.id].enabled
        BY Zenon, <2>1, <2>2, <2>16, <4>1 DEF Alive
      <4>3. ASSUME NEW id \in 1..Len(messages), messages[id].enabled
            PROVE  (\E s \in Threads : line'[s] # NoLine /\ line'[s].id = id) \/ \E n \in 1..Len(out) : out[n].id = id
        <5>1. (\E s \in Threads : InLine(s, id)) \/ \E n \in 1..Len(out) : out[n].id = id
          BY Zenon, <1>0, <4>1, <4>3 DEF Kept
        <5>2. ~InLine(t, id)
          BY Zenon, <1>1, <4>2, <4>3 DEF InLine
        <5>3. CASE \E s \in Threads : InLine(s, id)
          <6>1. PICK s \in Threads : InLine(s, id)
            BY Zenon, <5>3
          <6>2. line'[s] # NoLine /\ line'[s].id = id
            BY <2>10, <5>2, <6>1
          <6> QED BY Zenon, <6>2
        <5> QED BY Zenon, <5>1, <5>3
      <4> QED
        BY Zenon, <1>2, <2>16, <4>1, <4>3 DEF Kept, InLine
    <3> QED BY <2>9, <2>12, <3>1, <3>2 DEF RegInv
  <2> QED BY <2>7, <2>15, <2>16
<1> QED BY <1>4, <1>5, <1>6
-----------------------------------------------------------------------------
LEMMA RegInitHolds == RegInit => RegInv
<1> SUFFICES ASSUME RegInit PROVE RegInv
  OBVIOUS
<1>1. loggers = <<>> /\ messages = <<>> /\ out = <<>> /\ Ids = {} /\ Registered = {}
  BY DEF RegInit, Ids, Registered
<1>2. RegTypes
  <2>1. ml \in MlRec /\ {ml.msg, ml.err, ml.cerr} \subseteq {NoLogger}
    BY DEF RegInit, MlRec, NoLogger
  <2>2. inits \in 0..MaxInits /\ sets \in 0..MaxSets /\ level \in Nat /\ formatter \in Nat
    BY RegAssumption DEF RegInit
  <2>3. reg = [n \in DOMAIN reg |-> reg[n]] /\ \A n \in DOMAIN reg : reg[n] \in Ids
    BY DEF RegInit
  <2>4. line \in [Threads -> LineRec \cup {NoLine}]
    BY DEF RegInit
  <2>5. /\ loggers \in Seq(LoggerRec) /\ Len(loggers) <= MaxLoggers
        /\ messages \in Seq(MessageRec) /\ Len(messages) <= MaxMessages /\ out \in Seq(OutRec)
    BY <1>1, RegAssumption
  <2> QED
    BY <1>1, <2>1, <2>2, <2>3, <2>4, <2>5 DEF RegInit, RegTypes
<1>3. Settings
  BY <1>1 DEF Settings
<1>4. Routes
  BY StepsTell DEF RegInit, Routes, HasMsg, HasErr
<1>5. Lines
  BY Zenon DEF RegInit, Lines, InLine
<1>6. Outs
  BY <1>1 DEF Outs
<1>7. Kept
  BY <1>1 DEF Kept
<1> QED
  BY <1>2, <1>3, <1>4, <1>5, <1>6, <1>7 DEF RegInv

LEMMA RegStepKeeps == RegInv /\ [RegNext]_regVars => RegInv'
<1> SUFFICES ASSUME RegInv, [RegNext]_regVars PROVE RegInv'
  OBVIOUS
<1>0. (\A l \in Levels : l \in Nat) /\ (\A p \in Patterns : p \in Nat) /\ ml.single \in BOOLEAN
  BY RegAssumption DEF RegInv, RegTypes, MlRec
<1>1. CASE UNCHANGED regVars
  <2>1. UNCHANGED <<reg, level, formatter, loggers, ml, init, inits, line, messages, out, own, sets,
                    dropped, last, halfway>>
    BY Zenon, <1>1 DEF regVars
  <2>2. Ids' = Ids /\ Registered' = Registered
    BY Zenon, <2>1 DEF Ids, Registered
  <2>3. RegTypes'
    BY <2>2, <2>1 DEF RegInv, RegTypes
  <2>4. Settings'
    BY Zenon, <2>2, <2>1 DEF RegInv, Settings
  <2>5. Routes'
    BY Zenon, <2>1 DEF RegInv, Routes, HasMsg, HasErr, Ids
  <2>6. Lines'
    BY Zenon, <2>2, <2>1 DEF RegInv, Lines, LineOK, InLine
  <2>7. Outs'
    BY Zenon, <2>1 DEF RegInv, Outs, InLine
  <2>8. Kept'
    BY Zenon, <2>2, <2>1 DEF RegInv, Kept, InLine
  <2> QED BY Zenon, <2>3, <2>4, <2>5, <2>6, <2>7, <2>8 DEF RegInv
<1>2. ASSUME NEW l \in Levels, SetGlobalLevel(l) PROVE RegInv'
  BY Zenon, <1>0, <1>2, SetGlobalLevelKeeps
<1>3. ASSUME NEW l \in Levels, NEW i \in Ids, SetOwnLevel(i, l) PROVE RegInv'
  BY Zenon, <1>0, <1>3, SetOwnLevelKeeps
<1>4. ASSUME NEW p \in Patterns, set_pattern(p) PROVE RegInv'
  BY Zenon, <1>0, <1>4, SetPatternKeeps
<1>5. ASSUME NEW names, drop(names) PROVE RegInv'
  BY <1>5, DropKeeps
<1>6. ASSUME NEW n \in LoggerNames, init_single_rotating_logger(n) PROVE RegInv'
  <2>1. BeginInit("single", n, ml.single, ~ml.single)
    BY Zenon, <1>6 DEF init_single_rotating_logger
  <2> QED
    BY Zenon, <1>0, <2>1, BeginInitKeeps
<1>7. ASSUME NEW n \in LoggerNames, init_rotating_logger(n) PROVE RegInv'
  BY <1>7, BeginInitKeeps DEF init_rotating_logger
<1>8. CASE MakeLogger
  BY <1>8, MakeLoggerKeeps
<1>9. CASE InitThrows
  BY <1>9, InitThrowsKeeps
<1>10. CASE InitLevel
  BY <1>10, InitLevelKeeps
<1>11. ASSUME NEW t \in Threads, NEW l \in Levels, get(t, l) PROVE RegInv'
  BY <1>11, GetKeeps
<1>12. ASSUME NEW t \in Threads, Move(t) \/ Stream(t) \/ Destroy(t) PROVE RegInv'
  BY <1>12, MoveKeeps, StreamKeeps, DestroyKeeps
<1> QED
  BY Zenon, <1>1, <1>2, <1>3, <1>4, <1>5, <1>6, <1>7, <1>8, <1>9, <1>10, <1>11, <1>12 DEF RegNext

LEMMA RegInvHolds == RegSpec => []RegInv
BY RegInitHolds, RegStepKeeps, PTL DEF RegSpec

\* After an init that went through, the records of every level go to a logger of
\* that init and to the file meant for the level; a registered logger has the
\* registry's level and formatter.
THEOREM RoutedHolds == RegSpec => []Routed
<1>1. RegInv => Routed
  <2> SUFFICES ASSUME RegInv PROVE Routed
    OBVIOUS
  <2>0. RegTypes /\ Settings /\ Routes
    BY DEF RegInv
  <2>1. RegTypeOK
    BY <2>0 DEF RegTypes, RegTypeOK, LoggerRec, Files, Ids
  <2>2. ASSUME init = NoInit, inits > 0, ~halfway, NEW l \in Levels
        PROVE  /\ getLogger(l) # NoLogger
               /\ loggers[getLogger(l)].file = <<inits, IF l >= Warn /\ last = "both" THEN "err" ELSE "msg">>
    <3>1. HasMsg /\ (last = "both" => HasErr) /\ init.step = "none"
      BY <2>2, StepsTell DEF HasMsg, HasErr
    <3>2. /\ ml.msg \in Ids /\ loggers[ml.msg].file = <<inits, "msg">>
          /\ last = "both" => ~ml.single /\ ml.err \in Ids /\ loggers[ml.err].file = <<inits, "err">>
          /\ last = "single" => ml.single
          /\ last \in {"single", "both"}
      BY <2>0, <2>2, <3>1 DEF Routes, RegTypes
    <3>3. NoLogger \notin Ids
      BY <2>0 DEF Ids, NoLogger, RegTypes
    <3>4. CASE l >= Warn /\ last = "both"
      BY <3>2, <3>3, <3>4 DEF getLogger
    <3>5. CASE ~(l >= Warn /\ last = "both")
      BY <3>2, <3>3, <3>5 DEF getLogger
    <3> QED BY <3>4, <3>5
  <2> QED
    BY Zenon, <2>0, <2>1, <2>2 DEF Routed, Settings
<1> QED BY <1>1, RegInvHolds, PTL

\* A statement that was enabled when it began writes its message exactly once, to
\* the file of the logger it began with, and one that was not writes nothing.
THEOREM WrittenOnceHolds == RegSpec => []WrittenOnce
<1>1. RegInv => WrittenOnce
  <2> SUFFICES ASSUME RegInv PROVE WrittenOnce
    OBVIOUS
  <2>0. Lines /\ Outs /\ Kept
    BY DEF RegInv
  <2>1. ASSUME NEW id \in 1..Len(messages)
        PROVE  LET Written == {n \in 1..Len(out) : out[n].id = id}
                   Begun == \E t \in Threads : line[t] # NoLine /\ line[t].id = id
               IN /\ \A m, n \in Written : m = n
                  /\ Written # {} => messages[id].enabled
                  /\ ~Begun /\ messages[id].enabled /\ ~dropped => Written # {}
                  /\ \A n \in Written : out[n].file = messages[id].file
    <3> DEFINE Written == {n \in 1..Len(out) : out[n].id = id}
               Begun == \E t \in Threads : line[t] # NoLine /\ line[t].id = id
    <3>1. \A m, n \in Written : m = n
      BY Zenon, <2>0 DEF Outs
    <3>2. \A n \in Written : messages[id].enabled /\ out[n].file = messages[id].file
      BY Zenon, <2>0 DEF Outs
    <3>3. ~Begun /\ messages[id].enabled /\ ~dropped => \E n \in 1..Len(out) : n \in Written
      BY Zenon, <2>0 DEF Kept, InLine
    <3> QED BY Zenon, <3>1, <3>2, <3>3
  <2>2. ~dropped => \A t \in Threads : line[t] # NoLine => Alive(line[t].logger)
    BY Zenon, <2>0 DEF Lines, LineOK, Kept, Alive
  <2> QED BY Zenon, <2>1, <2>2 DEF WrittenOnce
<1> QED BY <1>1, RegInvHolds, PTL

-----------------------------------------------------------------------------
(* async_log_helper.                                                       *)

USE AsyncAssumption

Kinds == LogMsgs \cup {Flush, Terminate}

Types ==
  /\ queue \in Seq(Kinds) /\ Len(queue) <= Size
  /\ hand \in Kinds \cup {None}
  /\ worker \in {"runs", "ended", "threw"}
  /\ discard \in BOOLEAN /\ interval \in BOOLEAN /\ ex \in BOOLEAN
  /\ flushReq \in BOOLEAN /\ termReq \in BOOLEAN
  /\ client \in [Clients -> LogMsgs \cup {Flush, None}]
  /\ owner \in {"alive", "closing", "joining", "destroyed", "crashed"}
  /\ calls \in 0..MaxMsgs
  /\ sent \in Seq(LogMsgs) /\ written \in Seq(LogMsgs)
  /\ flushed \in 0..Len(written)

\* The sink was given the first messages enqueued.
Given == Len(written) <= Len(sent) /\ \A n \in 1..Len(written) : written[n] = sent[n]

\* Where the rest is.  f counts: after the message in the worker's hand and the
\* first j of the queue, f[j] messages of sent are accounted for, the last of them
\* being the j-th of the queue if that is a log message.
InHand == IF hand \in LogMsgs THEN 1 ELSE 0
Accounts(f) ==
  /\ f[0] = Len(written) + InHand /\ f[Len(queue)] = Len(sent)
  /\ hand \in LogMsgs => hand = sent[Len(written) + 1]
  /\ \A j \in 1..Len(queue) :
       IF queue[j] \in LogMsgs THEN f[j] = f[j - 1] + 1 /\ queue[j] = sent[f[j]]
                               ELSE f[j] = f[j - 1]
Accounted == worker # "threw" => \E f \in [0..Len(queue) -> 0..Len(sent)] : Accounts(f)

\* The terminate message is sent when no client is in a call and none can begin
\* one; with the request to end comes one to flush.
Ending ==
  /\ owner # "alive" => \A c \in Clients : client[c] = None
  /\ owner \in {"alive", "closing", "crashed"} =>
       /\ ~termReq /\ hand # Terminate /\ worker # "ended"
       /\ \A j \in 1..Len(queue) : queue[j] # Terminate
  /\ worker = "runs" /\ termReq => flushReq
  /\ worker = "ended" => written = sent /\ flushed = Len(written)

Inv == Types /\ Given /\ Accounted /\ Ending
-----------------------------------------------------------------------------
\* The messages are told apart by their type.
LEMMA KindsApart ==
  /\ Flush \notin LogMsgs /\ Terminate \notin LogMsgs /\ None \notin LogMsgs
  /\ Flush # Terminate /\ Flush # None /\ Terminate # None
  /\ \A n \in 1..MaxMsgs : <<"log", n>> \in LogMsgs
BY DEF Flush, Terminate, None, LogMsgs

\* A step that leaves the messages where they are keeps them accounted for.
LEMMA StillAccounted ==
  ASSUME Inv, worker' # "threw" => worker # "threw",
         UNCHANGED <<queue, sent, written>>,
         hand' = hand \/ (hand' \notin LogMsgs /\ hand \notin LogMsgs)
  PROVE  Given' /\ Accounted'
<1>1. Given'
  BY DEF Inv, Given
<1>2. InHand' = InHand
  BY DEF InHand
<1>3. ASSUME NEW f, Accounts(f) PROVE Accounts(f)'
  BY <1>2, <1>3 DEF Accounts
<1> QED
  BY <1>1, <1>3 DEF Inv, Accounted

\* What a message put into the queue does to the account
LEMMA PutAccounted ==
  ASSUME Inv, NEW m \in Kinds,
         queue' = Append(queue, m),
         sent' = (IF m \in LogMsgs THEN Append(sent, m) ELSE sent),
         UNCHANGED <<hand, worker, written>>
  PROVE  Given' /\ Accounted'
<1>0. /\ queue \in Seq(Kinds) /\ sent \in Seq(LogMsgs) /\ written \in Seq(LogMsgs)
      /\ Len(queue) \in Nat /\ Len(sent) \in Nat /\ Len(written) \in Nat
  BY DEF Inv, Types
<1>1. /\ Len(queue') = Len(queue) + 1 /\ queue'[Len(queue) + 1] = m
      /\ \A j \in 1..Len(queue) : queue'[j] = queue[j]
  BY <1>0
<1>2. /\ Len(sent') = Len(sent) + (IF m \in LogMsgs THEN 1 ELSE 0)
      /\ \A j \in 1..Len(sent) : sent'[j] = sent[j]
      /\ m \in LogMsgs => sent'[Len(sent) + 1] = m
  BY <1>0
<1>3. Given'
  BY <1>0, <1>2 DEF Inv, Given
<1>4. ASSUME worker # "threw", NEW f \in [0..Len(queue) -> 0..Len(sent)], Accounts(f)
      PROVE  \E g \in [0..Len(queue') -> 0..Len(sent')] : Accounts(g)'
  <2>0. PICK g : g = [j \in 0..(Len(queue) + 1) |-> IF j <= Len(queue) THEN f[j] ELSE Len(sent')]
    BY Zenon
  <2>1. g \in [0..Len(queue') -> 0..Len(sent')]
    BY <1>0, <1>1, <1>2, <1>4, <2>0
  <2>2. /\ g[Len(queue) + 1] = Len(sent')
        /\ \A j \in 0..Len(queue) : g[j] = f[j] /\ f[j] \in 0..Len(sent)
    <3>1. \A j \in 0..Len(queue) : f[j] \in 0..Len(sent)
      BY <1>4
    <3>2. \A j \in 0..Len(queue) : j \in 0..(Len(queue) + 1) /\ j <= Len(queue)
      BY <1>0
    <3>3. Len(queue) + 1 \in 0..(Len(queue) + 1) /\ ~(Len(queue) + 1 <= Len(queue))
      BY <1>0
    <3> QED
      BY <2>0, <3>1, <3>2, <3>3, Zenon
  <2>3. InHand' = InHand /\ InHand \in 0..1
    BY DEF InHand
  <2>4. g[0] = Len(written) + InHand /\ g[Len(queue')] = Len(sent')
    BY <1>0, <1>1, <1>4, <2>2 DEF Accounts
  <2>5. hand \in LogMsgs => hand = sent'[Len(written) + 1]
    <3> SUFFICES ASSUME hand \in LogMsgs PROVE hand = sent'[Len(written) + 1]
      OBVIOUS
    <3>1. Len(written) + 1 = f[0] /\ f[0] \in 0..Len(sent) /\ hand = sent[Len(written) + 1]
      BY <1>0, <1>4, <2>2 DEF Accounts, InHand
    <3>2. Len(written) + 1 \in 1..Len(sent)
      BY <1>0, <3>1
    <3> QED
      BY <1>2, <3>1, <3>2
  <2>6. ASSUME NEW j \in 1..Len(queue')
        PROVE  IF queue'[j] \in LogMsgs THEN g[j] = g[j - 1] + 1 /\ queue'[j] = sent'[g[j]]
                                        ELSE g[j] = g[j - 1]
    <3>1. CASE j \in 1..Len(queue)
      <4>1. /\ queue'[j] = queue[j] /\ g[j] = f[j] /\ g[j - 1] = f[j - 1]
            /\ f[j] \in 0..Len(sent) /\ f[j - 1] \in 0..Len(sent)
        BY <1>0, <1>1, <2>2, <3>1
      <4>2. IF queue[j] \in LogMsgs THEN f[j] = f[j - 1] + 1 /\ queue[j] = sent[f[j]]
                                    ELSE f[j] = f[j - 1]
        BY <1>4, <3>1 DEF Accounts
      <4>3. queue[j] \in LogMsgs => sent'[f[j]] = sent[f[j]]
        <5>1. queue[j] \in LogMsgs => f[j] \in 1..Len(sent)
          BY <4>1, <4>2, <1>0
        <5> QED
          BY <1>2, <5>1
      <4> QED
        BY <4>1, <4>2, <4>3
    <3>2. CASE j = Len(queue) + 1
      <4>1. queue'[j] = m /\ g[j] = Len(sent') /\ g[j - 1] = Len(sent)
        BY <1>0, <1>1, <1>4, <2>2, <3>2 DEF Accounts
      <4> QED
        BY <1>0, <1>2, <4>1
    <3>3. j \in 1..Len(queue) \/ j = Len(queue) + 1
      BY <1>0, <1>1, <2>6
    <3> QED
      BY Zenon, <3>1, <3>2, <3>3
  <2>7. Accounts(g)'
    BY Zenon, <2>3, <2>4, <2>5, <2>6 DEF Accounts
  <2> QED
    BY <2>1, <2>7
<1> QED
  BY <1>3, <1>4 DEF Inv, Accounted

\* dequeue moves the message from the queue into the worker's hand.
LEMMA ClaimAccounted ==
  ASSUME Inv, Claim
  PROVE  Given' /\ Accounted'
<1>0. /\ queue \in Seq(Kinds) /\ queue # <<>> /\ hand = None /\ None \notin LogMsgs
      /\ hand' = Head(queue) /\ queue' = Tail(queue)
      /\ UNCHANGED <<sent, written, worker>> /\ worker = "runs"
      /\ Len(sent) \in Nat /\ Len(written) \in Nat
  BY KindsApart DEF Inv, Types, Claim
<1>1. PICK n : n = Len(queue)
  BY Zenon
<1>2. /\ n \in Nat /\ n > 0 /\ Len(queue') = n - 1 /\ Head(queue) = queue[1]
      /\ \A j \in 1..(n - 1) : queue'[j] = queue[j + 1]
  BY <1>0, <1>1
<1>3. PICK f \in [0..n -> 0..Len(sent)] : Accounts(f)
  BY <1>0, <1>1 DEF Inv, Accounted
<1>4. PICK g : g = [j \in 0..(n - 1) |-> f[j + 1]]
  BY Zenon
<1>5. \A j \in 0..(n - 1) : g[j] = f[j + 1] /\ f[j + 1] \in 0..Len(sent)
  BY <1>2, <1>3, <1>4
<1>6. g \in [0..Len(queue') -> 0..Len(sent')]
  BY <1>0, <1>2, <1>4, <1>5
<1>7. f[0] = Len(written) /\ f[n] = Len(sent)
  BY <1>0, <1>1, <1>3 DEF Accounts, InHand
<1>8. \A j \in 1..n : IF queue[j] \in LogMsgs THEN f[j] = f[j - 1] + 1 /\ queue[j] = sent[f[j]]
                                             ELSE f[j] = f[j - 1]
  BY <1>1, <1>3 DEF Accounts
<1>9. IF queue[1] \in LogMsgs THEN f[1] = Len(written) + 1 /\ queue[1] = sent[Len(written) + 1]
                              ELSE f[1] = Len(written)
  BY <1>2, <1>7, <1>8
<1>10. g[0] = Len(written) + InHand' /\ g[n - 1] = Len(sent)
  BY <1>0, <1>2, <1>5, <1>7, <1>9 DEF InHand
<1>11. ASSUME NEW j \in 1..(n - 1)
       PROVE  IF queue'[j] \in LogMsgs THEN g[j] = g[j - 1] + 1 /\ queue'[j] = sent[g[j]]
                                       ELSE g[j] = g[j - 1]
  <2>1. j + 1 \in 1..n /\ j \in 0..(n - 1) /\ j - 1 \in 0..(n - 1) /\ (j + 1) - 1 = j /\ (j - 1) + 1 = j
    BY <1>2
  <2>2. queue'[j] = queue[j + 1] /\ g[j] = f[j + 1] /\ g[j - 1] = f[j]
    BY <1>2, <1>5, <2>1
  <2>3. IF queue[j + 1] \in LogMsgs THEN f[j + 1] = f[j] + 1 /\ queue[j + 1] = sent[f[j + 1]]
                                    ELSE f[j + 1] = f[j]
    BY <1>8, <2>1
  <2> QED
    BY <2>2, <2>3
<1>12. Accounts(g)'
  BY <1>0, <1>2, <1>9, <1>10, <1>11 DEF Accounts
<1>13. Given'
  BY <1>0 DEF Inv, Given
<1> QED
  BY <1>6, <1>12, <1>13 DEF Accounted

\* The sink gets the next message of sent.
LEMMA LogAccounted ==
  ASSUME Inv, PopLog
  PROVE  Given' /\ Accounted'
<1>0. /\ hand \in LogMsgs /\ hand' = None /\ None \notin LogMsgs
      /\ written' = Append(written, hand)
      /\ UNCHANGED <<queue, sent, worker>> /\ worker = "runs"
      /\ sent \in Seq(LogMsgs) /\ written \in Seq(LogMsgs) /\ queue \in Seq(Kinds)
      /\ Len(sent) \in Nat /\ Len(written) \in Nat /\ Len(queue) \in Nat
  BY KindsApart DEF Inv, Types, PopLog, Got
<1>1. PICK f \in [0..Len(queue) -> 0..Len(sent)] : Accounts(f)
  BY <1>0 DEF Inv, Accounted
<1>2. /\ f[0] = Len(written) + 1 /\ hand = sent[Len(written) + 1]
      /\ f[0] \in 0..Len(sent)
  <2>1. 0 \in 0..Len(queue) /\ InHand = 1
    BY <1>0 DEF InHand
  <2>2. f[0] \in 0..Len(sent)
    BY <1>1, <2>1
  <2> QED
    BY <1>0, <1>1, <2>1, <2>2 DEF Accounts
<1>3. /\ Len(written') = Len(written) + 1 /\ written'[Len(written) + 1] = hand
      /\ \A n \in 1..Len(written) : written'[n] = written[n]
  BY <1>0
<1>4. Given'
  BY <1>0, <1>2, <1>3 DEF Inv, Given
<1>5. InHand' = 0
  BY <1>0 DEF InHand
<1>6. Accounts(f)'
  BY <1>0, <1>1, <1>2, <1>3, <1>5 DEF Accounts
<1> QED
  BY <1>0, <1>1, <1>4, <1>6 DEF Accounted

\* With nothing in the queue and nothing in hand the sink has everything.
LEMMA IdleHasAll ==
  ASSUME Inv, Idle
  PROVE  written = sent
<1>0. /\ queue = <<>> /\ hand = None /\ None \notin LogMsgs /\ worker = "runs"
      /\ sent \in Seq(LogMsgs) /\ written \in Seq(LogMsgs)
  BY KindsApart DEF Inv, Types, Idle
<1>1. PICK f : Accounts(f)
  BY <1>0 DEF Inv, Accounted
<1>2. Len(written) = Len(sent)
  BY <1>0, <1>1 DEF Accounts, InHand
<1> QED
  BY <1>0, <1>2 DEF Inv, Given
-----------------------------------------------------------------------------
\* Every step of a client, of the owner and of the worker keeps Inv.
LEMMA InvStep == Inv /\ [Next]_vars => Inv'
<1> SUFFICES ASSUME Inv, [Next]_vars PROVE Inv'
  OBVIOUS
<1>0. Types /\ Ending
  BY DEF Inv
<1>1. ASSUME NEW c \in Clients, NEW m \in LogMsgs \cup {Flush}, Call(c, m),
             m # Flush => calls < MaxMsgs
      PROVE  Inv'
  <2>1. Types'
    <3>1. (IF ex THEN None ELSE m) \in LogMsgs \cup {Flush, None}
      BY <1>1
    <3>2. client' \in [Clients -> LogMsgs \cup {Flush, None}] /\ calls' \in 0..MaxMsgs
      BY <1>0, <1>1, <3>1 DEF Types, Call
    <3>3. ex' \in BOOLEAN
      BY <1>1, Zenon DEF Call
    <3> QED
      BY <1>0, <1>1, <3>2, <3>3 DEF Types, Call, options
  <2>2. Given' /\ Accounted'
    BY <1>1, StillAccounted DEF Call
  <2>3. Ending'
    BY <1>0, <1>1 DEF Types, Ending, Call
  <2> QED
    BY <2>1, <2>2, <2>3 DEF Inv
<1>2. ASSUME NEW c \in Clients, Push(c) PROVE Inv'
  <2>0. /\ client[c] \in LogMsgs \cup {Flush} /\ client[c] \in Kinds /\ client[c] # Terminate
        /\ Len(queue) < Size
    BY <1>0, <1>2, KindsApart DEF Types, Push, HasRoom, Kinds
  <2>1. Types'
    BY <1>0, <1>2, <2>0 DEF Types, Push, Logged, options
  <2>2. Given' /\ Accounted'
    <3>1. sent' = (IF client[c] \in LogMsgs THEN Append(sent, client[c]) ELSE sent)
      BY <1>2, <2>0, KindsApart DEF Push, Logged
    <3> QED
      BY <1>2, <2>0, <3>1, PutAccounted DEF Push
  <2>3. Ending'
    BY <1>0, <1>2, <2>0 DEF Types, Ending, Push
  <2> QED
    BY <2>1, <2>2, <2>3 DEF Inv
<1>3. ASSUME NEW c \in Clients, PushRefused(c) PROVE Inv'
  <2>1. Types'
    BY <1>0, <1>3 DEF Types, PushRefused, options
  <2>2. Given' /\ Accounted'
    BY <1>3, StillAccounted DEF PushRefused
  <2>3. Ending'
    BY <1>0, <1>3 DEF Types, Ending, PushRefused
  <2> QED
    BY <2>1, <2>2, <2>3 DEF Inv
<1>4. CASE Close
  <2>1. Types'
    BY Zenon, <1>0, <1>4 DEF Types, Close, options
  <2>2. Given' /\ Accounted'
    BY <1>4, StillAccounted DEF Close
  <2>3. Ending'
    BY <1>0, <1>4 DEF Types, Ending, Close
  <2> QED
    BY <2>1, <2>2, <2>3 DEF Inv
<1>5. CASE PushTerminate
  <2>1. Types'
    <3>1. queue' \in Seq(Kinds) /\ Len(queue') <= Size
      <4>1. Terminate \in Kinds
        BY DEF Kinds
      <4>2. HasRoom => Len(queue) + 1 <= Size
        BY <1>0 DEF Types, HasRoom
      <4>3. queue \in Seq(Kinds) /\ Len(queue) <= Size
        BY <1>0 DEF Types
      <4>4. CASE HasRoom /\ queue' = Append(queue, Terminate)
        BY <4>1, <4>2, <4>3, <4>4
      <4>5. CASE queue' = queue
        BY <4>3, <4>5
      <4> QED
        BY Zenon, <1>5, <4>4, <4>5 DEF PushTerminate
    <3> QED
      BY <1>0, <1>5, <3>1 DEF Types, PushTerminate, options
  <2>2. Given' /\ Accounted'
    <3>1. CASE queue' = Append(queue, Terminate)
      BY <1>5, <3>1, KindsApart, PutAccounted DEF PushTerminate, Kinds
    <3>2. CASE queue' = queue
      BY <1>5, <3>2, StillAccounted DEF PushTerminate
    <3> QED
      BY <1>5, <3>1, <3>2 DEF PushTerminate
  <2>3. Ending'
    BY <1>0, <1>5 DEF Types, Ending, PushTerminate
  <2> QED
    BY <2>1, <2>2, <2>3 DEF Inv
<1>6. CASE Join
  <2>1. Types'
    BY <1>0, <1>6 DEF Types, Join, options
  <2>2. Given' /\ Accounted'
    BY <1>6, StillAccounted DEF Join
  <2>3. Ending'
    BY <1>0, <1>6 DEF Types, Ending, Join
  <2> QED
    BY <2>1, <2>2, <2>3 DEF Inv
<1>7. CASE Claim
  <2>1. Types'
    BY <1>0, <1>7 DEF Types, Claim, options
  <2>2. Ending'
    <3>1. /\ Head(queue) = queue[1] /\ 1 \in 1..Len(queue)
          /\ \A j \in 1..Len(Tail(queue)) : j + 1 \in 1..Len(queue) /\ Tail(queue)[j] = queue[j + 1]
      BY <1>0, <1>7 DEF Types, Claim
    <3> QED
      BY <1>0, <1>7, <3>1 DEF Types, Ending, Claim
  <2> QED
    BY <1>7, <2>1, <2>2, ClaimAccounted DEF Inv
<1>8. CASE PopLog
  <2>1. Types'
    BY <1>0, <1>8 DEF Types, PopLog, Got, options
  <2>2. Ending'
    BY <1>0, <1>8, KindsApart DEF Types, Ending, PopLog, Got
  <2> QED
    BY <1>8, <2>1, <2>2, LogAccounted DEF Inv
<1>9. CASE PopFlush
  <2>1. Types'
    BY <1>0, <1>9 DEF Types, PopFlush, Request, Got, options
  <2>2. Given' /\ Accounted'
    BY <1>9, KindsApart, StillAccounted DEF PopFlush, Got
  <2>3. Ending'
    BY <1>0, <1>9, KindsApart DEF Types, Ending, PopFlush, Request, Got
  <2> QED
    BY <2>1, <2>2, <2>3 DEF Inv
<1>10. CASE PopTerminate
  <2>1. Types'
    BY <1>0, <1>10 DEF Types, PopTerminate, Got, options
  <2>2. Given' /\ Accounted'
    BY <1>10, KindsApart, StillAccounted DEF PopTerminate, Got
  <2>3. Ending'
    BY <1>0, <1>10 DEF Types, Ending, PopTerminate, Got
  <2> QED
    BY <2>1, <2>2, <2>3 DEF Inv
<1>11. CASE SinkThrows
  <2>0. /\ worker = "runs" /\ worker' = "threw" /\ ex' = TRUE /\ hand' \in {None, hand}
        /\ UNCHANGED <<options, queue, flushReq, termReq, client, owner, calls, sent, written, flushed>>
    BY <1>11 DEF SinkThrows, Got, Idle
  <2>1. Types'
    BY <1>0, <2>0 DEF Types, options
  <2>2. Given' /\ Accounted'
    BY <2>0 DEF Inv, Given, Accounted
  <2>3. Ending'
    BY <1>0, <2>0, KindsApart DEF Types, Ending
  <2> QED
    BY <2>1, <2>2, <2>3 DEF Inv
<1>12. CASE Empty
  <2>0. worker' \in {"runs", "ended"} /\ worker = "runs" /\ (worker' = "ended" <=> termReq)
    BY <1>0, <1>12 DEF Types, Empty, Idle, AfterEmpty
  <2>1. Types'
    <3>1. flushReq' \in BOOLEAN
      BY <1>0, <1>12, Zenon DEF Types, Empty
    <3>2. flushed' \in 0..Len(written')
      BY <1>0, <1>12 DEF Types, Empty
    <3> QED
      BY <1>0, <1>12, <2>0, <3>1, <3>2 DEF Types, Empty, options
  <2>2. Given' /\ Accounted'
    BY <1>12, <2>0, StillAccounted DEF Empty
  <2>3. written = sent
    BY <1>12, IdleHasAll DEF Empty
  <2>4. termReq => flushReq /\ owner \notin {"alive", "closing", "crashed"}
    BY <1>0, <2>0 DEF Ending
  <2>5. termReq => flushed' = Len(written)
    BY <1>12, <2>4 DEF Empty
  <2>6. Ending'
    BY <1>0, <1>12, <2>0, <2>3, <2>4, <2>5 DEF Types, Ending, Empty
  <2> QED
    BY <2>1, <2>2, <2>6 DEF Inv
<1>13. CASE UNCHANGED vars
  BY <1>13, StillAccounted DEF vars, options, Inv, Types, Ending
<1> QED
  <2>1. calls < MaxMsgs => <<"log", calls + 1>> \in LogMsgs
    BY <1>0, KindsApart DEF Types
  <2> QED
    BY <1>1, <1>2, <1>3, <1>4, <1>5, <1>6, <1>7, <1>8, <1>9, <1>10, <1>11, <1>12, <1>13, <2>1
    DEF Next, Worker

\* The types, what the sink was given, the account of the rest and how the helper
\* ends, in every state
LEMMA InvHolds == Spec => []Inv
<1>1. Init => Inv
  <2> SUFFICES ASSUME Init PROVE Inv
    OBVIOUS
  <2>0. /\ queue = <<>> /\ sent = <<>> /\ written = <<>> /\ flushed = 0 /\ calls = 0
        /\ hand = None /\ worker = "runs" /\ owner = "alive" /\ client = [c \in Clients |-> None]
    BY DEF Init
  <2>1. Types
    <3>1. /\ discard \in BOOLEAN /\ interval \in BOOLEAN /\ ex \in BOOLEAN
          /\ flushReq \in BOOLEAN /\ termReq \in BOOLEAN
      BY Zenon DEF Init
    <3> QED
      BY <2>0, <3>1 DEF Types
  <2>3. Given /\ Ending
    BY <2>0, KindsApart DEF Init, Given, Ending
  <2>2. Accounted
    <3>1. PICK f : f = [j \in {0} |-> 0]
      BY Zenon
    <3>2. 0..0 = {0} /\ Len(queue) = 0 /\ Len(sent) = 0 /\ Len(written) = 0 /\ hand \notin LogMsgs
      BY KindsApart DEF Init
    <3>3. f \in [0..Len(queue) -> 0..Len(sent)] /\ Accounts(f)
      BY <3>1, <3>2 DEF Accounts, InHand
    <3> QED
      BY <3>3 DEF Accounted
  <2> QED
    BY <2>1, <2>2, <2>3 DEF Inv
<1> QED
  BY <1>1, InvStep, PTL DEF Spec

\* Nothing that was enqueued is lost, doubled or given to the sink out of order,
\* and a destructor that returns, with no sink having thrown, leaves all of it
\* written and flushed: for every number of clients, size of the queue, number of
\* calls and either policy.
THEOREM DrainedHolds == Spec => []Drained
<1>1. Inv => Drained
  <2> SUFFICES ASSUME Inv PROVE Drained
    OBVIOUS
  <2>0. Types /\ Given /\ Ending
    BY DEF Inv
  <2>1. Len(written) <= Len(sent) /\ written = SubSeq(sent, 1, Len(written))
    BY <2>0 DEF Types, Given
  <2>2. Range(written) \subseteq Range(sent) /\ Range(queue) \subseteq LogMsgs \cup {Flush, Terminate}
    <3>1. ASSUME NEW n \in DOMAIN written PROVE written[n] \in Range(sent)
      <4>1. n \in 1..Len(written) /\ n \in DOMAIN sent
        BY <2>0 DEF Types, Given
      <4> QED
        BY <2>0, <4>1 DEF Given, Range
    <3>2. ASSUME NEW n \in DOMAIN queue PROVE queue[n] \in LogMsgs \cup {Flush, Terminate}
      BY <2>0 DEF Types, Kinds
    <3> QED
      BY <3>1, <3>2, Zenon DEF Range
  <2>3. TypeOK
    BY <2>0, <2>2 DEF Types, TypeOK, Kinds
  <2> QED
    BY <2>0, <2>1, <2>3 DEF Drained, Ending
<1> QED
  BY <1>1, InvHolds, PTL
=============================================================================
