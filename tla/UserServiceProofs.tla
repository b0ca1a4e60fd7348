------------------------- MODULE UserServiceProofs --------------------------
(***************************************************************************)
(* The user service, for any number of clients, users and days: a user is  *)
(* announced as registered once, a login leaves the row it announces, and  *)
(* the nickname it inserts is free.                                        *)
(***************************************************************************)
EXTENDS UserService, TLAPS

(* Calls, rows and announcements.                                          *)

CallFields ==
  {"step", "op", "user", "pwd", "asyn", "version", "nick", "num", "day", "new", "alone"}
Steps ==
  {"post", "lookup", "update", "fire", "get", "count", "set", "incr", "reget", "check", "insert"}
RowFields == {"nick", "pwd", "contact", "identity", "added", "valid"}

\* A row of the table: its flags say which contacts it has.
RowOK(r) ==
  /\ DOMAIN r = RowFields /\ r = [f \in RowFields |-> r[f]]
  /\ r.valid \cap Contacts = {f \in Contacts : r.contact[f] # ""}
  /\ "identity" \in r.valid => r.identity # ""

\* The row r is what the login k asks for.
Matches(k, r) ==
  /\ r.pwd = k.pwd
  /\ \A f \in Contacts : LET p == Profiles[k.user][k.version]
                         IN p.contact[f] # "" => r.contact[f] = p.contact[f]

CallOK(k) ==
  /\ DOMAIN k = CallFields /\ k = [f \in CallFields |-> k[f]]
  /\ k.step \in Steps /\ k.op \in Events /\ k.user \in Users /\ k.pwd \in Nat \ {0}
  /\ k.op = "register" => k.step \in {"post", "insert", "fire"}
  /\ k.step = "update" => RowOK(k.new) /\ Matches(k, k.new)

\* What a call relies on at its steps: Tuandai knows the user; the row is there
\* when the event is fired, and is what the call made of it unless another call
\* came in between.
Relies(k) ==
  /\ k.step # "post" => account[k.user] > 0
  /\ k.step = "fire" =>
       /\ row[k.user] # NoRow
       /\ k.alone => Matches(k, row[k.user]) /\ convert(row[k.user]) = convert(k.new)

\* A registration that Tuandai accepted and that is not yet announced
Registers(c, u) == /\ ucall[c].step \in {"insert", "fire"} /\ ucall[c].op = "register"
                   /\ ucall[c].user = u

Structure ==
  /\ DOMAIN ucall = Clients /\ ucall = [c \in Clients |-> ucall[c]]
  /\ \A c \in Clients : ucall[c] = NotCalling \/ CallOK(ucall[c])
  /\ account \in [Users -> Nat] /\ fired \in [Events -> [Users -> Nat]]
  /\ DOMAIN row = Users /\ row = [u \in Users |-> row[u]]
  /\ \A u \in Users : row[u] = NoRow \/ RowOK(row[u])

Reliance ==
  \A c \in Clients : ucall[c] # NotCalling =>
    /\ Relies(ucall[c])
    /\ ucall[c].alone => \A d \in Clients \ {c} : ucall[d] = NotCalling

Announced ==
  \A u \in Users :
    /\ fired["register"][u] <= 1
    /\ \A e \in Events : fired[e][u] > 0 => row[u] # NoRow /\ account[u] > 0
    /\ \A c \in Clients : Registers(c, u) =>
         /\ fired["register"][u] = 0
         /\ \A d \in Clients \ {c} : ~Registers(d, u)

UserInv == Structure /\ Reliance /\ Announced
-----------------------------------------------------------------------------
\* A call and the absence of one are told apart by their fields, and so are a row
\* and its absence.
LEMMA Present ==
  /\ \A k : CallOK(k) => k # NotCalling
  /\ \A r : RowOK(r) => r # NoRow
  /\ NotCalling.step = "none"
<1>1. DOMAIN NotCalling = {"step"} /\ "op" \in CallFields /\ NotCalling.step = "none"
  BY DEF NotCalling, CallFields
<1>2. DOMAIN NoRow = {"nick"} /\ "pwd" \in RowFields
  BY DEF NoRow, RowFields
<1>3. DOMAIN NotCalling # CallFields /\ DOMAIN NoRow # RowFields
  BY <1>1, <1>2
<1>4. \A k : CallOK(k) => DOMAIN k = CallFields
  BY DEF CallOK
<1>5. \A r : RowOK(r) => DOMAIN r = RowFields
  BY Zenon DEF RowOK
<1> QED
  BY <1>1, <1>3, <1>4, <1>5, Zenon

\* The row a login or a registration adds
LEMMA AddedRow ==
  ASSUME NEW k
  PROVE  RowOK(NewRow(k)) /\ Matches(k, NewRow(k))
BY Zenon DEF NewRow, LoginRow, RegisterRow, RowOK, RowFields, Matches, Contacts

-----------------------------------------------------------------------------
(* Nicknames.                                                              *)

\* A numbered nickname about to be inserted, and one in a row
Inflight(c) == ucall[c].step = "insert" /\ IsNumber(ucall[c].nick)
HasNumber(u) == row[u] # NoRow /\ IsNumber(row[u].nick)

NickTypes ==
  /\ late \subseteq Users /\ others \in OtherNicks
  /\ counter \in [1..Days -> Nat \cup {EmptyString}] /\ today \in 1..Days
  /\ begun \in 0..MaxUserCalls /\ calm \in BOOLEAN
  /\ \A c \in Clients : ucall[c] # NotCalling => ucall[c].num \in Nat

\* A login that checks its nickname has none with a number; one that updates a
\* row keeps the row's nickname and day; one that is alone inserts a free name.
NickSteps ==
  \A c \in Clients :
    /\ ucall[c].step = "check" => ~IsNumber(ucall[c].nick)
    /\ ucall[c].step = "update" => /\ row[ucall[c].user] # NoRow
                                   /\ ucall[c].new.nick = row[ucall[c].user].nick
                                   /\ ucall[c].new.added = row[ucall[c].user].added
    /\ Creates(c) /\ "suffixes" \in DOMAIN ucall[c].nick /\ ucall[c].alone => ucall[c].nick \notin Nicks

\* One login at a time draws a number, today's.
DrawInv ==
  /\ \A c, d \in Drawing : c = d
  /\ \A c \in Drawing : /\ ucall[c].day = today
                        /\ ucall[c].step \in {"count", "set"} <=> counter[today] = EmptyString
  /\ \A d \in 1..Days : d > today => counter[d] = EmptyString

\* The number n of today is one that the login that draws will not draw again.
Below(n) ==
  /\ counter[today] # EmptyString => n <= counter[today]
  /\ counter[today] = EmptyString => n <= AddedToday
  /\ \A c \in Drawing : /\ ucall[c].step = "reget" => n < counter[today]
                        /\ ucall[c].step = "set" => n <= ucall[c].num

Drawn(nick) ==
  \E d \in 1..Days, n \in Nat : nick = Numbered(d, n) /\ d <= today /\ (d = today => Below(n))

\* Every number in a row, or about to be, was drawn, and by one login.
UseInv ==
  /\ \A u \in Users : HasNumber(u) => Drawn(row[u].nick)
  /\ \A c \in Clients : Inflight(c) =>
       /\ Drawn(ucall[c].nick)
       /\ \A u \in Users : HasNumber(u) => row[u].nick # ucall[c].nick
       /\ \A e \in Clients \ {c} : Inflight(e) => ucall[e].nick # ucall[c].nick

NickInv == NickTypes /\ NickSteps /\ (calm => DrawInv /\ UseInv)
-----------------------------------------------------------------------------
\* Which nicknames have a number, and that it is told by the nickname
LEMMA Numbers ==
  /\ \A d, n : IsNumber(Numbered(d, n)) /\ "suffixes" \notin DOMAIN Numbered(d, n)
  /\ \A d, n, e, m : Numbered(d, n) = Numbered(e, m) => d = e /\ n = m
  /\ \A b, s : ~IsNumber(Named(b, s))
  /\ ~IsNumber(RandomNick) /\ "suffixes" \notin DOMAIN RandomNick
  /\ ~IsNumber(NoName)
<1>1. \A d, n : IsNumber(Numbered(d, n)) /\ "suffixes" \notin DOMAIN Numbered(d, n)
  BY DEF IsNumber, Numbered
<1>2. \A d, n : Numbered(d, n).day = d /\ Numbered(d, n).number = n
  BY DEF Numbered
<1>3. \A b, s : ~IsNumber(Named(b, s))
  BY DEF IsNumber, Named
<1>4. ~IsNumber(RandomNick) /\ "suffixes" \notin DOMAIN RandomNick
  BY DEF IsNumber, RandomNick
<1>5. ~IsNumber(NoName)
  BY Zenon DEF IsNumber, NoName
<1>6. ASSUME NEW d, NEW n, NEW e, NEW m, Numbered(d, n) = Numbered(e, m) PROVE d = e /\ n = m
  BY <1>2, <1>6
<1> QED
  BY <1>1, <1>3, <1>4, <1>5, <1>6

\* The sizes of sets of users: SizesHold below.
Sizes ==
  \A T \in SUBSET Users : /\ Cardinality(T) \in Nat
                          /\ \A S \in SUBSET T : Cardinality(S) <= Cardinality(T)

\* The number of users added today, which a row more never lowers
LEMMA Added ==
  ASSUME Sizes
  PROVE  /\ AddedToday \in Nat
         /\ today' = today /\ (\A u \in Users : row[u] # NoRow /\ row[u].added = today =>
                                                  row'[u] # NoRow /\ row'[u].added = today)
              => AddedToday' \in Nat /\ AddedToday <= AddedToday'
<1> DEFINE A == {u \in Users : row[u] # NoRow /\ row[u].added = today}
           B == {u \in Users : row'[u] # NoRow /\ row'[u].added = today}
<1>1. /\ Cardinality(A) \in Nat /\ Cardinality(B) \in Nat
      /\ A \subseteq B => Cardinality(A) <= Cardinality(B)
  BY DEF Sizes
<1>2. AddedToday = Cardinality(A) /\ (today' = today => AddedToday' = Cardinality(B))
  BY Zenon DEF AddedToday
<1> QED
  BY <1>1, <1>2, Zenon

\* What a step of another call may do to the call of d
Same(d) ==
  /\ ucall'[d] = NotCalling <=> ucall[d] = NotCalling
  /\ ucall'[d].step = ucall[d].step /\ ucall'[d].op = ucall[d].op /\ ucall'[d].user = ucall[d].user
  /\ ucall'[d].nick = ucall[d].nick /\ ucall'[d].new = ucall[d].new
  /\ ucall'[d].num = ucall[d].num /\ ucall'[d].day = ucall[d].day
  /\ ucall'[d].alone => ucall[d].alone

\* The types and the steps, when no row is written and the call of c goes on to
\* a step whose nickname is in order
LEMMA StepsKeep ==
  ASSUME NickTypes, NickSteps, UNCHANGED <<row, others>>,
         late' \subseteq Users, counter' \in [1..Days -> Nat \cup {EmptyString}],
         today' \in 1..Days, begun' \in 0..MaxUserCalls, calm' \in BOOLEAN,
         NEW c \in Clients, \A d \in Clients \ {c} : Same(d),
         \/ ucall'[c] = NotCalling
         \/ /\ ucall'[c].num \in Nat
            /\ ucall'[c].step = "check" => ~IsNumber(ucall'[c].nick)
            /\ ucall'[c].step = "update" =>
                 /\ row[ucall'[c].user] # NoRow
                 /\ ucall'[c].new.nick = row[ucall'[c].user].nick
                 /\ ucall'[c].new.added = row[ucall'[c].user].added
            /\ ucall'[c].step = "insert" /\ ucall'[c].op = "login"
               /\ "suffixes" \in DOMAIN ucall'[c].nick /\ ucall'[c].alone => ucall'[c].nick \notin Nicks
  PROVE  NickTypes' /\ NickSteps'
<1>1. NickTypes'
  <2>1. \A d \in Clients : ucall'[d] # NotCalling => ucall'[d].num \in Nat
    BY DEF NickTypes, Same
  <2> QED
    BY <2>1 DEF NickTypes
<1>2. Nicks' = Nicks
  BY Zenon DEF Nicks
<1>3. ASSUME NEW d \in Clients, ucall'[d].step = "check" PROVE ~IsNumber(ucall'[d].nick)
  BY <1>3, Present DEF NickSteps, Same
<1>4. ASSUME NEW d \in Clients, ucall'[d].step = "update"
      PROVE  /\ row[ucall'[d].user] # NoRow
             /\ ucall'[d].new.nick = row[ucall'[d].user].nick
             /\ ucall'[d].new.added = row[ucall'[d].user].added
  <2>1. CASE d = c
    BY <1>4, <2>1, Present
  <2>2. CASE d # c
    BY <1>4, <2>2 DEF NickSteps, Same
  <2> QED
    BY <2>1, <2>2
<1>5. ASSUME NEW d \in Clients, ucall'[d].step = "insert", ucall'[d].op = "login",
             "suffixes" \in DOMAIN ucall'[d].nick, ucall'[d].alone
      PROVE  ucall'[d].nick \notin Nicks
  <2>1. CASE d = c
    BY <1>5, <2>1, Present
  <2>2. CASE d # c
    BY <1>5, <2>2 DEF NickSteps, Same, Creates
  <2> QED
    BY <2>1, <2>2
<1>6. NickSteps'
  BY <1>2, <1>3, <1>4, <1>5 DEF NickSteps, Creates
<1> QED
  BY <1>1, <1>6

\* No number comes into use, and none that is in use can be drawn again.
LEMMA UseKeeps ==
  ASSUME UseInv, today' = today, \A n \in Nat : Below(n) => Below(n)',
         \A u \in Users : HasNumber(u)' => HasNumber(u) /\ row'[u].nick = row[u].nick,
         \A d \in Clients : Inflight(d)' => Inflight(d) /\ ucall'[d].nick = ucall[d].nick
  PROVE  UseInv'
<1>1. \A nick : Drawn(nick) =>
        \E d \in 1..Days, n \in Nat : nick = Numbered(d, n) /\ d <= today' /\ (d = today' => Below(n)')
  BY DEF Drawn
<1>2. ASSUME NEW u \in Users, HasNumber(u)' PROVE Drawn(row[u].nick)'
  <2>1. Drawn(row[u].nick) /\ row'[u].nick = row[u].nick
    BY <1>2 DEF UseInv
  <2> QED
    BY <1>1, <2>1 DEF Drawn
<1>3. ASSUME NEW d \in Clients, Inflight(d)' PROVE Drawn(ucall[d].nick)'
  <2>1. Drawn(ucall[d].nick) /\ ucall'[d].nick = ucall[d].nick
    BY <1>3 DEF UseInv
  <2> QED
    BY <1>1, <2>1 DEF Drawn
<1>4. ASSUME NEW d \in Clients, Inflight(d)', NEW u \in Users, HasNumber(u)'
      PROVE  row'[u].nick # ucall'[d].nick
  BY <1>4 DEF UseInv
<1>5. ASSUME NEW d \in Clients, Inflight(d)', NEW e \in Clients \ {d}, Inflight(e)'
      PROVE  ucall'[e].nick # ucall'[d].nick
  BY <1>5 DEF UseInv
<1> QED
  BY <1>2, <1>3, <1>4, <1>5 DEF UseInv

\* A step that neither draws a number nor is about to insert one
LEMMA ApartKeeps ==
  ASSUME DrawInv, UseInv, UNCHANGED <<row, counter, today>>,
         NEW c \in Clients, \A d \in Clients \ {c} : Same(d),
         ucall'[c].step \notin {"count", "set", "incr", "reget"}, ~Inflight(c)'
  PROVE  DrawInv' /\ UseInv'
<1>1. \A d \in Drawing' : d \in Drawing /\ d # c
  BY DEF Drawing, Same
<1>2. DrawInv'
  BY <1>1 DEF DrawInv, Same, Drawing
<1>3. AddedToday' = AddedToday
  BY Zenon DEF AddedToday
<1>4. \A n \in Nat : Below(n) => Below(n)'
  BY <1>1, <1>3 DEF Below, Same, Drawing
<1>5. \A u \in Users : HasNumber(u)' => HasNumber(u) /\ row'[u].nick = row[u].nick
  BY DEF HasNumber
<1>6. \A d \in Clients : Inflight(d)' => Inflight(d) /\ ucall'[d].nick = ucall[d].nick
  BY DEF Inflight, Same
<1> QED
  BY <1>2, <1>4, <1>5, <1>6, UseKeeps

LEMMA QuietKeeps ==
  ASSUME NickInv, UNCHANGED <<row, others, counter, today, calm>>,
         late' \subseteq Users, begun' \in 0..MaxUserCalls,
         NEW c \in Clients, \A d \in Clients \ {c} : Same(d),
         \/ ucall'[c] = NotCalling
         \/ /\ ucall'[c].num \in Nat /\ ucall'[c].step \notin {"count", "set", "incr", "reget"}
            /\ ucall'[c].step \in {"check", "insert"} => ~IsNumber(ucall'[c].nick)
            /\ ucall'[c].step = "update" =>
                 /\ row[ucall'[c].user] # NoRow
                 /\ ucall'[c].new.nick = row[ucall'[c].user].nick
                 /\ ucall'[c].new.added = row[ucall'[c].user].added
            /\ ucall'[c].step = "insert" /\ ucall'[c].op = "login"
               /\ "suffixes" \in DOMAIN ucall'[c].nick /\ ucall'[c].alone => ucall'[c].nick \notin Nicks
  PROVE  NickInv'
<1>1. NickTypes /\ NickSteps /\ (calm => DrawInv /\ UseInv)
  BY DEF NickInv
<1>2. counter \in [1..Days -> Nat \cup {EmptyString}] /\ today \in 1..Days /\ calm \in BOOLEAN
  BY <1>1 DEF NickTypes
<1>3. NickTypes' /\ NickSteps'
  BY <1>1, <1>2, StepsKeep
<1>4. ucall'[c].step \notin {"count", "set", "incr", "reget"} /\ ~Inflight(c)'
  BY Present DEF Inflight
<1>5. calm => DrawInv' /\ UseInv'
  BY <1>1, <1>4, ApartKeeps
<1> QED
  BY <1>3, <1>5 DEF NickInv

LEMMA OnlyCall ==
  ASSUME DOMAIN ucall = Clients, NEW c \in Clients, NEW k, ucall' = [ucall EXCEPT ![c] = k]
  PROVE  ucall'[c] = k /\ \A d \in Clients \ {c} : Same(d)
BY Zenon DEF Same

\* userLogin and registerUser
LEMMA BeginNicks ==
  ASSUME UserInv, NickInv, NEW c \in Clients, NEW dto, BeginCall(c, dto)
  PROVE  NickInv'
<1>0. Structure /\ NickTypes
  BY DEF UserInv, NickInv
<1>1. PICK B : B = {d \in Clients : ~InCall(d, "none")}
  BY Zenon
<1>2. PICK k : k = [step |-> "post", op |-> dto.op, user |-> dto.user, pwd |-> dto.pwd,
                    asyn |-> TuandaiRequest(dto).asyn, version |-> 0,
                    nick |-> NoName, num |-> 0, day |-> 0, new |-> NoRow, alone |-> B = {}]
  BY Zenon
<1>3. /\ ucall' = [d \in Clients |->
           IF d = c THEN k
           ELSE IF d \in B THEN [ucall[d] EXCEPT !.alone = FALSE] ELSE ucall[d]]
      /\ UNCHANGED <<late, row, others, counter, today, calm>>
      /\ begun < MaxUserCalls /\ begun' = begun + 1
  BY <1>1, <1>2 DEF BeginCall
<1>4. k.step = "post" /\ k.num = 0
  BY Zenon, <1>2
<1>5. ucall'[c] = k
  BY Zenon, <1>3
<1>6. ASSUME NEW d \in Clients \ {c} PROVE Same(d)
  <2>1. CASE d \in B
    <3>1. ucall[d] # NotCalling
      BY <1>1, <2>1, Present DEF InCall
    <3>2. CallOK(ucall[d]) /\ ucall'[d] = [ucall[d] EXCEPT !.alone = FALSE]
      BY <1>0, <1>3, <2>1, <3>1 DEF Structure
    <3>3. /\ DOMAIN ucall'[d] = CallFields
          /\ \A f \in CallFields \ {"alone"} : ucall'[d][f] = ucall[d][f]
          /\ ucall'[d].alone = FALSE
      BY Zenon, <3>2 DEF CallOK, CallFields
    <3>4. DOMAIN NotCalling # CallFields
      <4>1. DOMAIN NotCalling = {"step"} /\ "op" \in CallFields
        BY DEF NotCalling, CallFields
      <4> QED
        BY <4>1
    <3> QED
      BY <3>1, <3>3, <3>4 DEF Same, CallFields
  <2>2. CASE d \notin B
    BY <1>3, <2>2 DEF Same
  <2> QED
    BY <2>1, <2>2
<1>7. late' \subseteq Users /\ begun' \in 0..MaxUserCalls
  BY <1>0, <1>3, UserAssumption DEF NickTypes
<1> QED
  BY <1>3, <1>4, <1>5, <1>6, <1>7, QuietKeeps

\* The call ends.
LEMMA EndNicks ==
  ASSUME UserInv, NickInv, NEW c \in Clients, End(c), late' \subseteq Users,
         UNCHANGED <<row, others, counter, today, begun, calm>>
  PROVE  NickInv'
<1>1. DOMAIN ucall = Clients /\ begun \in 0..MaxUserCalls
  BY DEF UserInv, Structure, NickInv, NickTypes
<1>2. ucall'[c] = NotCalling /\ \A d \in Clients \ {c} : Same(d)
  BY Zenon, <1>1, OnlyCall DEF End
<1> QED
  BY <1>1, <1>2, QuietKeeps

\* The steps of a call that write no row and draw no number
LEMMA CallNicks ==
  ASSUME UserInv, NickInv, NEW c \in Clients, ucall[c] # NotCalling,
         PostAnswered(c) \/ lookup(c) \/ getNickName(c)
  PROVE  NickInv'
<1>0. /\ DOMAIN ucall = Clients /\ begun \in 0..MaxUserCalls /\ late \subseteq Users
      /\ ucall[c].num \in Nat /\ NickSteps
  BY DEF UserInv, Structure, NickInv, NickTypes
<1>f. CallOK(ucall[c]) /\ DOMAIN ucall[c] = CallFields /\ DOMAIN row = Users
      /\ \A u \in Users : row[u] = NoRow \/ RowOK(row[u])
  BY DEF UserInv, Structure, CallOK
<1>1. UNCHANGED <<late, row, others, counter, today, begun, calm>>
  BY Zenon DEF PostAnswered, lookup, getNickName
<1>2. CASE PostAnswered(c)
  <2>1. CASE End(c)
    BY <1>0, <1>1, <2>1, EndNicks
  <2>2. CASE ~End(c)
    <3>1. PICK v : ucall' = [ucall EXCEPT
                     ![c].step = IF ucall[c].op = "login" THEN "lookup" ELSE "insert",
                     ![c].nick = IF ucall[c].op = "login" THEN NoName ELSE RegisterNick,
                     ![c].version = v]
      BY Zenon, <1>2, <2>2 DEF PostAnswered
    <3>2. PICK k : k = [ucall[c] EXCEPT !.step = IF ucall[c].op = "login" THEN "lookup" ELSE "insert",
                          !.nick = IF ucall[c].op = "login" THEN NoName ELSE RegisterNick,
                          !.version = v]
      BY Zenon
    <3>3. ucall' = [ucall EXCEPT ![c] = k]
      BY Zenon, <1>0, <1>f, <3>1, <3>2
    <3>4. /\ k.step = (IF ucall[c].op = "login" THEN "lookup" ELSE "insert") /\ k.op = ucall[c].op
          /\ k.nick = (IF ucall[c].op = "login" THEN NoName ELSE RegisterNick)
          /\ k.num = ucall[c].num
      BY Zenon, <1>f, <3>2 DEF CallFields
    <3>5. ucall'[c] = k /\ \A d \in Clients \ {c} : Same(d)
      BY Zenon, <1>0, <3>3, OnlyCall
    <3> QED
      BY <1>0, <1>1, <3>4, <3>5, QuietKeeps, UserAssumption
  <2> QED
    BY <2>1, <2>2
<1>3. CASE lookup(c)
  <2>1. PICK u \in Users : u = ucall[c].user
    BY <1>f DEF CallOK
  <2>2. PICK s : s = Synced(row[u], Profiles[u][ucall[c].version], ucall[c].pwd)
    BY Zenon
  <2>3. PICK to : /\ to \in {"get", "check", "update", "fire"}
                  /\ to \in {"get", "check"} <=> row[u] = NoRow
                  /\ ucall' = [ucall EXCEPT ![c].nick = Unames[u],
                                            ![c].new = IF row[u] = NoRow THEN NoRow ELSE s,
                                            ![c].step = to]
    <3>1. \E to : to = (IF row[u] = NoRow THEN IF Unames[u] = NoName THEN "get" ELSE "check"
                        ELSE IF isChange(row[u], Profiles[u][ucall[c].version], ucall[c].pwd)
                             THEN "update" ELSE "fire")
      BY Zenon
    <3> QED
      BY Zenon, <1>3, <2>1, <2>2, <3>1 DEF lookup
  <2>4. PICK k : k = [ucall[c] EXCEPT !.nick = Unames[u],
                        !.new = IF row[u] = NoRow THEN NoRow ELSE s, !.step = to]
    BY Zenon
  <2>5. ucall' = [ucall EXCEPT ![c] = k]
    BY Zenon, <1>0, <1>f, <2>3, <2>4
  <2>6. /\ k.step = to /\ k.nick = Unames[u] /\ k.user = u /\ k.num = ucall[c].num
        /\ k.new = (IF row[u] = NoRow THEN NoRow ELSE s)
    BY Zenon, <1>f, <2>1, <2>4 DEF CallFields
  <2>7. row[u] # NoRow => s.nick = row[u].nick /\ s.added = row[u].added
    BY Zenon, <1>f, <2>2 DEF Synced, RowOK, RowFields
  <2>8. ucall'[c] = k /\ \A d \in Clients \ {c} : Same(d)
    BY Zenon, <1>0, <2>5, OnlyCall
  <2>9. k.step = "update" => row[k.user] # NoRow /\ k.new.nick = row[k.user].nick
                              /\ k.new.added = row[k.user].added
    BY <2>3, <2>6, <2>7
  <2> QED
    BY ZenonT(60), <1>0, <1>1, <2>3, <2>6, <2>8, <2>9, QuietKeeps, UserAssumption
<1>4. CASE getNickName(c)
  <2>1. ucall[c].step = "check" /\ ~IsNumber(ucall[c].nick)
    BY <1>0, <1>4 DEF getNickName, InCall, NickSteps
  <2>2. PICK k : k = (IF ucall[c].nick \notin Nicks THEN [ucall[c] EXCEPT !.step = "insert"]
                      ELSE IF ucall[c].num >= 3
                      THEN [ucall[c] EXCEPT !.step = "insert", !.nick = RandomNick]
                      ELSE [ucall[c] EXCEPT !.nick = NextNick(ucall[c].nick, ucall[c].num), !.num = @ + 1])
    BY Zenon
  <2>3. ucall' = [ucall EXCEPT ![c] = k]
    BY Zenon, <1>4, <2>2 DEF getNickName
  <2>4. \/ ucall[c].nick \notin Nicks /\ k.step = "insert" /\ k.nick = ucall[c].nick /\ k.num = ucall[c].num
        \/ k.step = "insert" /\ k.nick = RandomNick /\ k.num = ucall[c].num
        \/ /\ k.step = "check" /\ k.nick = NextNick(ucall[c].nick, ucall[c].num)
           /\ k.num = ucall[c].num + 1
    BY ZenonT(60), <1>f, <2>1, <2>2 DEF CallFields
  <2>5. ~IsNumber(NextNick(ucall[c].nick, ucall[c].num))
    BY Zenon, Numbers DEF NextNick
  <2>6. ucall'[c] = k /\ \A d \in Clients \ {c} : Same(d)
    BY Zenon, <1>0, <2>3, OnlyCall
  <2> QED
    BY <1>0, <1>1, <2>1, <2>4, <2>5, <2>6, Numbers, QuietKeeps
<1> QED
  BY <1>2, <1>3, <1>4

\* A login that has its row updates it: no nickname changes.
LEMMA UpdateNicks ==
  ASSUME UserInv, NickInv, NEW c \in Clients, updateUserBasicInfo(c)
  PROVE  NickInv'
<1>0. NickTypes /\ NickSteps /\ (calm => DrawInv /\ UseInv)
  BY DEF NickInv
<1>1. ucall[c].step = "update" /\ ucall[c] # NotCalling
  BY Present DEF updateUserBasicInfo, InCall
<1>2. /\ DOMAIN ucall = Clients /\ CallOK(ucall[c]) /\ DOMAIN row = Users /\ ucall[c].num \in Nat
  BY <1>0, <1>1 DEF UserInv, Structure, NickTypes
<1>3. PICK u, r : u \in Users /\ u = ucall[c].user /\ r = ucall[c].new
  BY <1>2 DEF CallOK
<1>4. row[u] # NoRow /\ r # NoRow /\ r.nick = row[u].nick /\ r.added = row[u].added
  BY <1>0, <1>1, <1>2, <1>3, Present DEF NickSteps, CallOK
<1>5. PICK k : k = [ucall[c] EXCEPT !.step = "fire"]
  BY Zenon
<1>6. ucall' = [ucall EXCEPT ![c] = k] /\ row' = [row EXCEPT ![u] = r]
      /\ UNCHANGED <<late, others, counter, today, begun, calm>>
  BY Zenon, <1>2, <1>3, <1>5 DEF updateUserBasicInfo, GoTo
<1>7. k.step = "fire" /\ k.num = ucall[c].num
  BY Zenon, <1>2, <1>5 DEF CallOK, CallFields
<1>8. ucall'[c] = k /\ \A d \in Clients \ {c} : Same(d)
  BY Zenon, <1>2, <1>6, OnlyCall
<1>9. \A v \in Users : /\ row'[v] = NoRow <=> row[v] = NoRow
                       /\ row'[v].nick = row[v].nick /\ row'[v].added = row[v].added
  BY <1>2, <1>4, <1>6
<1>10. NickTypes'
  <2>1. \A d \in Clients : ucall'[d] # NotCalling => ucall'[d].num \in Nat
    BY <1>0, <1>2, <1>7, <1>8 DEF NickTypes, Same
  <2> QED
    BY <1>0, <1>6, <2>1 DEF NickTypes
<1>11. Nicks' = Nicks
  BY ZenonT(60), <1>6, <1>9 DEF Nicks
<1>12. NickSteps'
  <2>1. \A d \in Clients : ucall'[d].step \in {"check", "update", "insert"} => d # c
    BY <1>7, <1>8
  <2>2. ASSUME NEW d \in Clients, ucall'[d].step = "update"
        PROVE  /\ row'[ucall'[d].user] # NoRow
               /\ ucall'[d].new.nick = row'[ucall'[d].user].nick
               /\ ucall'[d].new.added = row'[ucall'[d].user].added
    <3>1. /\ ucall[d].step = "update" /\ ucall'[d].user = ucall[d].user /\ ucall'[d].new = ucall[d].new
          /\ ucall[d] # NotCalling
      BY <1>8, <2>1, <2>2, Present DEF Same
    <3>2. ucall[d].user \in Users
      BY <3>1 DEF UserInv, Structure, CallOK
    <3> QED
      BY <1>0, <1>9, <3>1, <3>2 DEF NickSteps
  <2> QED
    BY <1>0, <1>8, <1>11, <2>1, <2>2 DEF NickSteps, Same, Creates
<1>13. ASSUME calm PROVE DrawInv' /\ UseInv'
  <2>1. Drawing' = Drawing /\ c \notin Drawing
    BY <1>1, <1>7, <1>8 DEF Drawing, Same
  <2>2. DrawInv'
    BY <1>0, <1>6, <1>8, <1>13, <2>1 DEF DrawInv, Same, Drawing
  <2>3. AddedToday' = AddedToday
    BY Zenon, <1>6, <1>9 DEF AddedToday
  <2>4. \A n \in Nat : Below(n) => Below(n)'
    BY <1>6, <1>8, <2>1, <2>3 DEF Below, Same, Drawing
  <2>5. \A v \in Users : HasNumber(v)' => HasNumber(v) /\ row'[v].nick = row[v].nick
    BY <1>9 DEF HasNumber
  <2>6. \A d \in Clients : Inflight(d)' => Inflight(d) /\ ucall'[d].nick = ucall[d].nick
    BY <1>7, <1>8 DEF Inflight, Same
  <2> QED
    BY <1>0, <1>6, <1>13, <2>2, <2>4, <2>5, <2>6, UseKeeps
<1> QED
  BY <1>6, <1>10, <1>12, <1>13 DEF NickInv

\* A row is added, with the nickname of the call.
LEMMA AddNicks ==
  ASSUME Sizes, UserInv, NickInv, NEW c \in Clients, addUser(c)
  PROVE  NickInv'
<1>0. NickTypes /\ NickSteps /\ (calm => DrawInv /\ UseInv)
  BY DEF NickInv
<1>1. ucall[c].step = "insert" /\ ucall[c] # NotCalling
      /\ UNCHANGED <<late, others, counter, today, begun, calm>>
  BY Present DEF addUser, InCall
<1>2. /\ DOMAIN ucall = Clients /\ CallOK(ucall[c]) /\ DOMAIN row = Users /\ ucall[c].num \in Nat
  BY <1>0, <1>1 DEF UserInv, Structure, NickTypes
<1>3. CASE End(c) /\ UNCHANGED row
  BY <1>0, <1>1, <1>3, EndNicks DEF NickTypes
<1>4. CASE ~(End(c) /\ UNCHANGED row)
  <2>1. PICK u, r : u \in Users /\ u = ucall[c].user /\ r = NewRow(ucall[c])
    BY <1>2 DEF CallOK
  <2>2. r # NoRow /\ r.nick = ucall[c].nick /\ r.added = today
    <3>1. RowOK(r)
      BY Zenon, <2>1, AddedRow
    <3> QED
      BY Zenon, <2>1, <3>1, Present DEF NewRow
  <2>3. PICK k : k = [ucall[c] EXCEPT !.step = "fire", !.new = r]
    BY Zenon
  <2>4. /\ ucall' = [ucall EXCEPT ![c] = k] /\ row' = [row EXCEPT ![u] = r] /\ row[u] = NoRow
    BY Zenon, <1>2, <1>4, <2>1, <2>3 DEF addUser
  <2>5. k.step = "fire" /\ k.num = ucall[c].num
    BY Zenon, <1>2, <2>3 DEF CallOK, CallFields
  <2>6. ucall'[c] = k /\ \A d \in Clients \ {c} : Same(d)
    BY Zenon, <1>2, <2>4, OnlyCall
  <2>7. row'[u] = r /\ \A v \in Users \ {u} : row'[v] = row[v]
    BY Zenon, <1>2, <2>1, <2>4
  <2>8. NickTypes'
    <3>1. \A d \in Clients : ucall'[d] # NotCalling => ucall'[d].num \in Nat
      BY <1>0, <1>2, <2>5, <2>6 DEF NickTypes, Same
    <3> QED
      BY <1>0, <1>1, <3>1 DEF NickTypes
  <2>9. NickSteps'
    <3>1. \A d \in Clients : ucall'[d].step \in {"check", "update", "insert"} => d # c
      BY <2>5, <2>6
    <3>2. ASSUME NEW d \in Clients, ucall'[d].step = "update"
          PROVE  /\ row'[ucall'[d].user] # NoRow
                 /\ ucall'[d].new.nick = row'[ucall'[d].user].nick
                 /\ ucall'[d].new.added = row'[ucall'[d].user].added
      <4>1. /\ ucall[d].step = "update" /\ ucall'[d].user = ucall[d].user /\ ucall'[d].new = ucall[d].new
            /\ ucall[d] # NotCalling
        BY <2>6, <3>1, <3>2, Present DEF Same
      <4>2. ucall[d].user \in Users
        BY <4>1 DEF UserInv, Structure, CallOK
      <4> QED
        BY <1>0, <2>4, <2>7, <4>1, <4>2 DEF NickSteps
    <3>3. ASSUME NEW d \in Clients, ucall'[d].step = "insert" PROVE ~ucall'[d].alone
      <4>1. d # c /\ ucall[d] # NotCalling /\ (ucall'[d].alone => ucall[d].alone)
        BY <2>6, <3>1, <3>3, Present DEF Same
      <4> QED
        BY <1>1, <4>1 DEF UserInv, Reliance
    <3> QED
      BY <1>0, <2>6, <3>1, <3>2, <3>3 DEF NickSteps, Same, Creates
  <2>10. ASSUME calm PROVE DrawInv' /\ UseInv'
    <3>1. Drawing' = Drawing /\ c \notin Drawing
      BY <1>1, <2>5, <2>6 DEF Drawing, Same
    <3>2. DrawInv'
      BY <1>0, <1>1, <2>6, <2>10, <3>1 DEF DrawInv, Same, Drawing
    <3>3. AddedToday \in Nat /\ AddedToday' \in Nat /\ AddedToday <= AddedToday'
      BY <1>1, <2>4, <2>7, Added
    <3>4. \A n \in Nat : Below(n) => Below(n)'
      BY <1>1, <2>6, <3>1, <3>3 DEF Below, Same, Drawing
    <3>5. \A nick : Drawn(nick) =>
            \E d \in 1..Days, n \in Nat : nick = Numbered(d, n) /\ d <= today' /\ (d = today' => Below(n)')
      BY <1>1, <3>4 DEF Drawn
    <3>6. \A d \in Clients : Inflight(d)' => Inflight(d) /\ ucall'[d].nick = ucall[d].nick /\ d # c
      BY <2>5, <2>6 DEF Inflight, Same
    <3>7. \A v \in Users : HasNumber(v)' =>
            \/ v # u /\ HasNumber(v) /\ row'[v].nick = row[v].nick
            \/ v = u /\ Inflight(c) /\ row'[v].nick = ucall[c].nick
      BY <1>1, <2>2, <2>7 DEF HasNumber, Inflight
    <3>8. ASSUME NEW v \in Users, HasNumber(v)' PROVE Drawn(row[v].nick)'
      <4>1. Drawn(row'[v].nick)
        BY <1>0, <2>10, <3>7, <3>8 DEF UseInv
      <4> QED
        BY <3>5, <4>1 DEF Drawn
    <3>9. ASSUME NEW d \in Clients, Inflight(d)' PROVE Drawn(ucall[d].nick)'
      <4>1. Drawn(ucall[d].nick) /\ ucall'[d].nick = ucall[d].nick
        BY <1>0, <2>10, <3>6, <3>9 DEF UseInv
      <4> QED
        BY <3>5, <4>1 DEF Drawn
    <3>10. ASSUME NEW d \in Clients, Inflight(d)', NEW v \in Users, HasNumber(v)'
           PROVE  row'[v].nick # ucall'[d].nick
      BY <1>0, <2>10, <3>6, <3>7, <3>10 DEF UseInv
    <3>11. ASSUME NEW d \in Clients, Inflight(d)', NEW e \in Clients \ {d}, Inflight(e)'
           PROVE  ucall'[e].nick # ucall'[d].nick
      BY <1>0, <2>10, <3>6, <3>11 DEF UseInv
    <3> QED
      BY <3>2, <3>8, <3>9, <3>10, <3>11 DEF UseInv
  <2> QED
    BY <1>1, <2>8, <2>9, <2>10 DEF NickInv
<1> QED
  BY <1>3, <1>4

\* The call of c goes on as k with the number of the day: numbers are drawn one
\* after the other, and those in use stay below the one that is being drawn.
Draws(c, k) ==
  calm' => /\ calm /\ Drawing \subseteq {c} /\ k.day = today
           /\ k.step \in {"count", "set"} <=> counter'[today] = EmptyString
           /\ \A d \in 1..Days : d # today => counter'[d] = counter[d]
           /\ \A n \in Nat : Below(n) =>
                /\ counter'[today] # EmptyString => n <= counter'[today]
                /\ counter'[today] = EmptyString => n <= AddedToday
                /\ k.step = "reget" => n < counter'[today]
                /\ k.step = "set" => n <= k.num

\* The commands that draw the number of the day
LEMMA DrawNicks ==
  ASSUME Sizes, UserInv, NickInv, NEW c \in Clients,
         \/ getNumber(c) \/ queryTodayAddUserNumber(c) \/ setNumber(c) \/ increment(c)
  PROVE  NickInv'
<1>0. NickTypes /\ NickSteps /\ (calm => DrawInv /\ UseInv) /\ AddedToday \in Nat
  BY Added DEF NickInv
<1>1. ucall[c].step \in {"get", "count", "set", "incr"} /\ UNCHANGED <<late, row, others, today, begun>>
  BY Zenon DEF getNumber, queryTodayAddUserNumber, setNumber, increment, InCall
<1>2. /\ DOMAIN ucall = Clients /\ DOMAIN ucall[c] = CallFields /\ ucall[c].num \in Nat
      /\ counter \in [1..Days -> Nat \cup {EmptyString}] /\ today \in 1..Days /\ calm \in BOOLEAN
      /\ late \subseteq Users /\ begun \in 0..MaxUserCalls
  BY <1>0, <1>1, Present DEF UserInv, Structure, NickTypes, CallOK
<1>3. AddedToday' = AddedToday
  BY Zenon, <1>1 DEF AddedToday
<1>4. \A u \in Users : HasNumber(u)' => HasNumber(u) /\ row'[u].nick = row[u].nick
  BY <1>1 DEF HasNumber
\* what remains to be shown of each of the four
<1>5. ASSUME NEW k, ucall' = [ucall EXCEPT ![c] = k],
             k.step \in {"count", "set", "incr", "reget"}, k.num \in Nat,
             counter' \in [1..Days -> Nat \cup {EmptyString}], calm' \in BOOLEAN, Draws(c, k)
      PROVE  NickInv'
  <2>1. ucall'[c] = k /\ \A d \in Clients \ {c} : Same(d)
    BY Zenon, <1>2, <1>5, OnlyCall
  <2>2. NickTypes' /\ NickSteps'
    BY <1>0, <1>1, <1>2, <1>5, <2>1, StepsKeep
  <2>3. ASSUME calm' PROVE DrawInv' /\ UseInv'
    <3>1. Drawing' = {c}
      BY <1>5, <2>1, <2>3 DEF Drawing, Same, Draws
    <3>2. DrawInv'
      BY <1>0, <1>1, <1>2, <1>5, <2>1, <2>3, <3>1 DEF DrawInv, Draws
    <3>3. \A n \in Nat : Below(n) => Below(n)'
      BY <1>1, <1>3, <1>5, <2>1, <2>3, <3>1 DEF Below, Draws
    <3>4. \A d \in Clients : Inflight(d)' => Inflight(d) /\ ucall'[d].nick = ucall[d].nick
      BY <1>5, <2>1 DEF Inflight, Same
    <3> QED
      BY <1>0, <1>1, <1>4, <1>5, <2>3, <3>2, <3>3, <3>4, UseKeeps DEF Draws
  <2> QED
    BY <2>2, <2>3 DEF NickInv
\* who draws, when the draws come one after the other
<1>6. ASSUME calm, ucall[c].step # "get"
      PROVE  /\ Drawing = {c} /\ ucall[c].day = today
             /\ ucall[c].step \in {"count", "set"} <=> counter[today] = EmptyString
  <2>1. c \in Drawing
    BY <1>1, <1>6 DEF Drawing
  <2> QED
    BY <1>0, <1>6, <2>1 DEF DrawInv
<1>7. CASE getNumber(c)
  <2>1. PICK to : to = (IF counter[today] = EmptyString THEN "count" ELSE "incr")
    BY Zenon
  <2>2. PICK k : k = [ucall[c] EXCEPT !.day = today, !.step = to]
    BY Zenon
  <2>3. /\ ucall' = [ucall EXCEPT ![c] = k] /\ counter' = counter
        /\ calm' = (calm /\ Drawing = {})
    BY Zenon, <1>2, <1>7, <2>1, <2>2 DEF getNumber
  <2>4. k.step = to /\ k.day = today /\ k.num = ucall[c].num
    BY Zenon, <1>2, <2>2 DEF CallFields
  <2>5. calm' \in BOOLEAN /\ (calm' => calm /\ Drawing = {})
    BY Zenon, <2>3
  <2>6. Draws(c, k)
    BY <2>1, <2>3, <2>4, <2>5 DEF Draws, Below
  <2>7. k.step \in {"count", "set", "incr", "reget"}
    BY <2>1, <2>4
  <2> QED
    BY Zenon, <1>2, <1>5, <2>3, <2>4, <2>5, <2>6, <2>7
<1>8. CASE queryTodayAddUserNumber(c)
  <2>1. PICK k : k = [ucall[c] EXCEPT !.num = AddedToday, !.step = "set"]
    BY Zenon
  <2>2. ucall' = [ucall EXCEPT ![c] = k] /\ UNCHANGED <<counter, calm>> /\ ucall[c].step = "count"
    BY Zenon, <1>2, <1>8, <2>1 DEF queryTodayAddUserNumber, InCall
  <2>3. k.step = "set" /\ k.day = ucall[c].day /\ k.num = AddedToday
    BY Zenon, <1>2, <2>1 DEF CallFields
  <2>4. Draws(c, k)
    BY <1>6, <2>2, <2>3 DEF Draws, Below
  <2> QED
    BY Zenon, <1>0, <1>2, <1>5, <2>2, <2>3, <2>4
<1>9. CASE setNumber(c)
  <2>1. PICK k : k = [ucall[c] EXCEPT !.step = "incr"]
    BY Zenon
  <2>2. /\ ucall' = [ucall EXCEPT ![c] = k] /\ UNCHANGED calm /\ ucall[c].step = "set"
        /\ counter' = [counter EXCEPT ![ucall[c].day] = ucall[c].num]
    BY Zenon, <1>2, <1>9, <2>1 DEF setNumber, GoTo, InCall
  <2>3. k.step = "incr" /\ k.day = ucall[c].day /\ k.num = ucall[c].num
    BY Zenon, <1>2, <2>1 DEF CallFields
  <2>4. counter' \in [1..Days -> Nat \cup {EmptyString}]
    BY Zenon, <1>2, <2>2
  <2>5. ASSUME calm
        PROVE  /\ counter'[today] = ucall[c].num /\ ucall[c].num # EmptyString
               /\ \A d \in 1..Days : d # today => counter'[d] = counter[d]
               /\ \A n \in Nat : Below(n) => n <= ucall[c].num
    BY <1>2, <1>6, <2>2, <2>5 DEF Below, EmptyString
  <2>6. Draws(c, k)
    BY <1>6, <2>2, <2>3, <2>5 DEF Draws
  <2> QED
    BY Zenon, <1>2, <1>5, <2>2, <2>3, <2>4, <2>6
<1>10. CASE increment(c)
  <2>1. PICK k : k = [ucall[c] EXCEPT !.step = "reget"]
    BY Zenon
  <2>2. /\ ucall' = [ucall EXCEPT ![c] = k] /\ UNCHANGED calm /\ ucall[c].step = "incr"
        /\ counter' = [counter EXCEPT ![ucall[c].day] = IF @ = EmptyString THEN 1 ELSE @ + 1]
    BY Zenon, <1>2, <1>10, <2>1 DEF increment, GoTo, InCall
  <2>3. k.step = "reget" /\ k.day = ucall[c].day /\ k.num = ucall[c].num
    BY Zenon, <1>2, <2>1 DEF CallFields
  <2>4. counter' \in [1..Days -> Nat \cup {EmptyString}]
    <3>1. PICK day, v : /\ day = ucall[c].day
                        /\ v = IF counter[day] = EmptyString THEN 1 ELSE counter[day] + 1
      BY Zenon
    <3>2. day \in 1..Days => v \in Nat
      BY <1>2, <3>1
    <3>3. counter' = [counter EXCEPT ![day] = v]
      BY Zenon, <2>2, <3>1
    <3> QED
      BY Zenon, <1>2, <3>2, <3>3
  <2>5. ASSUME calm
        PROVE  /\ counter[today] \in Nat /\ counter'[today] = counter[today] + 1
               /\ counter[today] # EmptyString /\ counter'[today] # EmptyString
               /\ \A d \in 1..Days : d # today => counter'[d] = counter[d]
    BY <1>2, <1>6, <2>2, <2>5 DEF EmptyString
  <2>6. ASSUME calm, NEW n \in Nat, Below(n) PROVE n < counter'[today]
    BY <2>5, <2>6 DEF Below
  <2>7. Draws(c, k)
    BY <1>6, <2>2, <2>3, <2>5, <2>6 DEF Draws
  <2> QED
    BY Zenon, <1>2, <1>5, <2>2, <2>3, <2>4, <2>7
<1> QED
  BY <1>7, <1>8, <1>9, <1>10

\* The number is read again, or a command throws: the nickname is there.
LEMMA NumberNicks ==
  ASSUME UserInv, NickInv, NEW c \in Clients, regetNumber(c) \/ NumberThrows(c)
  PROVE  NickInv'
<1>0. NickTypes /\ NickSteps /\ (calm => DrawInv /\ UseInv)
  BY DEF NickInv
<1>1. /\ ucall[c].step \in {"get", "count", "set", "incr", "reget"}
      /\ UNCHANGED <<late, row, others, counter, today, begun>>
  BY Zenon DEF regetNumber, NumberThrows, Drawing, InCall
<1>2. /\ DOMAIN ucall = Clients /\ DOMAIN ucall[c] = CallFields /\ ucall[c].num \in Nat
      /\ counter \in [1..Days -> Nat \cup {EmptyString}] /\ today \in 1..Days /\ calm \in BOOLEAN
      /\ late \subseteq Users /\ begun \in 0..MaxUserCalls
  BY <1>0, <1>1, Present DEF UserInv, Structure, NickTypes, CallOK
<1>3. calm' \in BOOLEAN /\ (calm' => calm /\ regetNumber(c))
  <2>1. (regetNumber(c) => calm' = calm) /\ (NumberThrows(c) => calm' = FALSE)
    BY Zenon DEF regetNumber, NumberThrows
  <2>2. calm \in BOOLEAN
    BY <1>2
  <2>3. CASE regetNumber(c)
    BY <2>1, <2>2, <2>3
  <2>4. CASE ~regetNumber(c)
    <3>1. calm' = FALSE
      BY Zenon, <2>1, <2>4
    <3> QED
      BY Zenon, <3>1
  <2> QED
    BY Zenon, <2>3, <2>4
<1>4. PICK n, d : /\ NumberIs(c, n, d)
                  /\ regetNumber(c) => n = (IF counter[ucall[c].day] = EmptyString THEN 1000
                                            ELSE counter[ucall[c].day])
  <2>1. CASE regetNumber(c)
    <3>1. PICK n : n = IF counter[ucall[c].day] = EmptyString THEN 1000 ELSE counter[ucall[c].day]
      BY SMT
    <3>2. NumberIs(c, n, ucall[c].day)
      BY <2>1, <3>1 DEF regetNumber
    <3> QED
      BY <3>1, <3>2
  <2>2. CASE ~regetNumber(c)
    BY Zenon, <2>2 DEF NumberThrows
  <2> QED
    BY <2>1, <2>2
<1>5. PICK k : k = [ucall[c] EXCEPT !.step = "insert", !.nick = Numbered(today, n), !.day = d]
  BY Zenon
<1>6. ucall' = [ucall EXCEPT ![c] = k]
  BY Zenon, <1>2, <1>4, <1>5 DEF NumberIs
<1>7. k.step = "insert" /\ k.nick = Numbered(today, n) /\ k.num = ucall[c].num
  BY Zenon, <1>2, <1>5 DEF CallFields
<1>8. ucall'[c] = k /\ \A e \in Clients \ {c} : Same(e)
  BY Zenon, <1>2, <1>6, OnlyCall
<1>9. NickTypes' /\ NickSteps'
  BY <1>0, <1>1, <1>2, <1>3, <1>7, <1>8, Numbers, StepsKeep
<1>10. ASSUME calm' PROVE DrawInv' /\ UseInv'
  <2>1. ucall[c].step = "reget" /\ c \in Drawing /\ DrawInv /\ UseInv /\ calm
    BY <1>0, <1>3, <1>10 DEF regetNumber, InCall, Drawing
  <2>2. /\ Drawing = {c} /\ ucall[c].day = today /\ counter[today] # EmptyString
        /\ counter[today] \in Nat /\ n = counter[today]
    BY <1>2, <1>3, <1>4, <1>10, <2>1 DEF DrawInv
  <2>3. Drawing' = {}
    BY <1>7, <1>8, <2>2 DEF Drawing, Same
  <2>4. DrawInv'
    BY <1>1, <2>1, <2>3 DEF DrawInv
  <2>5. \A m \in Nat : Below(m)' <=> m <= n
    BY <1>1, <2>2, <2>3 DEF Below
  <2>6. \A m \in Nat : Below(m) => m < n
    BY <2>1, <2>2 DEF Below
  <2>7. \A nick : Drawn(nick) =>
          /\ nick # Numbered(today, n)
          /\ \E e \in 1..Days, m \in Nat : nick = Numbered(e, m) /\ e <= today' /\ (e = today' => Below(m)')
    <3> SUFFICES ASSUME NEW nick, Drawn(nick)
                 PROVE  /\ nick # Numbered(today, n)
                        /\ \E e \in 1..Days, m \in Nat :
                             nick = Numbered(e, m) /\ e <= today' /\ (e = today' => Below(m)')
      OBVIOUS
    <3>1. PICK e \in 1..Days, m \in Nat : nick = Numbered(e, m) /\ e <= today /\ (e = today => Below(m))
      BY DEF Drawn
    <3>2. e = today => m < n /\ Below(m)'
      BY <2>2, <2>5, <2>6, <3>1
    <3>3. nick # Numbered(today, n)
      <4>1. e = today => m # n
        BY <2>2, <3>1, <3>2
      <4> QED
        BY Zenon, <3>1, <4>1, Numbers
    <3> QED
      BY <1>1, <3>1, <3>2, <3>3
  <2>8. \A e \in Clients : Inflight(e)' => e = c \/ (Inflight(e) /\ ucall'[e].nick = ucall[e].nick)
    BY <1>8 DEF Inflight, Same
  <2>9. \A u \in Users : HasNumber(u)' => HasNumber(u) /\ row'[u].nick = row[u].nick
    BY <1>1 DEF HasNumber
  <2>10. ASSUME NEW u \in Users, HasNumber(u)' PROVE Drawn(row[u].nick)'
    <3>1. Drawn(row'[u].nick)
      BY <2>1, <2>9, <2>10 DEF UseInv
    <3> QED
      BY <2>7, <3>1 DEF Drawn
  <2>11. ASSUME NEW e \in Clients, Inflight(e)' PROVE Drawn(ucall[e].nick)'
    <3>1. CASE e = c
      <4>1. ucall'[e].nick = Numbered(today, n) /\ n \in Nat /\ Below(n)' /\ today' = today
        BY <1>1, <1>7, <1>8, <2>2, <2>5, <3>1
      <4> QED
        BY <1>2, <4>1 DEF Drawn
    <3>2. CASE e # c
      <4>1. Drawn(ucall'[e].nick)
        BY <2>1, <2>8, <2>11, <3>2 DEF UseInv
      <4> QED
        BY <2>7, <4>1 DEF Drawn
    <3> QED
      BY <3>1, <3>2
  <2>12. /\ \A u \in Users : HasNumber(u)' => row'[u].nick # Numbered(today, n)
         /\ \A e \in Clients \ {c} : Inflight(e)' => ucall'[e].nick # Numbered(today, n)
    <3>1. ASSUME NEW u \in Users, HasNumber(u)' PROVE row'[u].nick # Numbered(today, n)
      BY <2>1, <2>7, <2>9, <3>1 DEF UseInv
    <3>2. ASSUME NEW e \in Clients \ {c}, Inflight(e)' PROVE ucall'[e].nick # Numbered(today, n)
      BY <2>1, <2>7, <2>8, <3>2 DEF UseInv
    <3> QED
      BY <3>1, <3>2
  <2>13. ucall'[c].nick = Numbered(today, n)
    BY <1>7, <1>8
  <2>14. ASSUME NEW e \in Clients, Inflight(e)', NEW u \in Users, HasNumber(u)'
         PROVE  row'[u].nick # ucall'[e].nick
    <3>1. CASE e = c
      BY <2>12, <2>13, <2>14, <3>1
    <3>2. CASE e # c
      BY <2>1, <2>8, <2>9, <2>14, <3>2 DEF UseInv
    <3> QED
      BY <3>1, <3>2
  <2>15. ASSUME NEW e \in Clients, Inflight(e)', NEW f \in Clients \ {e}, Inflight(f)'
         PROVE  ucall'[f].nick # ucall'[e].nick
    <3>1. CASE e = c \/ f = c
      BY <2>12, <2>13, <2>15, <3>1
    <3>2. CASE e # c /\ f # c
      BY <2>1, <2>8, <2>15, <3>2 DEF UseInv
    <3> QED
      BY <3>1, <3>2
  <2> QED
    BY <2>4, <2>10, <2>11, <2>14, <2>15 DEF UseInv
<1> QED
  BY <1>9, <1>10 DEF NickInv

\* Redis loses the key of the day.
LEMMA LoseNicks == Sizes /\ UserInv /\ NickInv /\ LoseNumber => NickInv'
<1> SUFFICES ASSUME Sizes, UserInv, NickInv, LoseNumber PROVE NickInv'
  OBVIOUS
<1>0. NickTypes /\ NickSteps /\ (calm => DrawInv /\ UseInv) /\ AddedToday \in Nat
  BY Added DEF NickInv
<1>1. /\ counter[today] # EmptyString /\ counter' = [counter EXCEPT ![today] = EmptyString]
      /\ UNCHANGED <<late, row, others, today, ucall, begun>>
  BY DEF LoseNumber
<1>2. calm' \in BOOLEAN /\ (calm' => calm /\ Drawing = {} /\ counter[today] <= AddedToday)
  BY Zenon DEF LoseNumber
<1>3. counter \in [1..Days -> Nat \cup {EmptyString}] /\ today \in 1..Days
  BY <1>0 DEF NickTypes
<1>4. /\ counter' \in [1..Days -> Nat \cup {EmptyString}] /\ counter'[today] = EmptyString
      /\ \A d \in 1..Days : d # today => counter'[d] = counter[d]
  BY Zenon, <1>1, <1>3
<1>5. NickTypes'
  BY <1>0, <1>1, <1>2, <1>4 DEF NickTypes
<1>6. Nicks' = Nicks /\ AddedToday' = AddedToday /\ Drawing' = Drawing
  BY Zenon, <1>1 DEF Nicks, AddedToday, Drawing
<1>7. NickSteps'
  BY <1>0, <1>1, <1>6 DEF NickSteps, Creates
<1>8. ASSUME calm' PROVE DrawInv' /\ UseInv'
  <2>1. DrawInv'
    BY <1>0, <1>1, <1>2, <1>3, <1>4, <1>6, <1>8 DEF DrawInv
  <2>2. \A n \in Nat : Below(n) => Below(n)'
    BY <1>0, <1>1, <1>2, <1>3, <1>4, <1>6, <1>8 DEF Below
  <2>3. \A u \in Users : HasNumber(u)' => HasNumber(u) /\ row'[u].nick = row[u].nick
    BY <1>1 DEF HasNumber
  <2>4. \A d \in Clients : Inflight(d)' => Inflight(d) /\ ucall'[d].nick = ucall[d].nick
    BY <1>1 DEF Inflight
  <2> QED
    BY <1>0, <1>1, <1>2, <1>8, <2>1, <2>2, <2>3, <2>4, UseKeeps
<1> QED
  BY <1>5, <1>7, <1>8 DEF NickInv

\* A new day: no number of it is in use.
LEMMA MidnightNicks == UserInv /\ NickInv /\ Midnight => NickInv'
<1> SUFFICES ASSUME UserInv, NickInv, Midnight PROVE NickInv'
  OBVIOUS
<1>0. NickTypes /\ NickSteps /\ (calm => DrawInv /\ UseInv)
  BY DEF NickInv
<1>1. today < Days /\ today' = today + 1 /\ UNCHANGED <<late, row, others, counter, ucall, begun>>
  BY DEF Midnight
<1>2. calm' \in BOOLEAN /\ (calm' => calm /\ Drawing = {})
  BY Zenon DEF Midnight
<1>3. today \in 1..Days /\ today' \in 1..Days
  BY <1>0, <1>1, UserAssumption DEF NickTypes
<1>4. NickTypes'
  BY <1>0, <1>1, <1>2, <1>3 DEF NickTypes
<1>5. Nicks' = Nicks /\ Drawing' = Drawing
  BY Zenon, <1>1 DEF Nicks, Drawing
<1>6. NickSteps'
  BY <1>0, <1>1, <1>5 DEF NickSteps, Creates
<1>7. ASSUME calm' PROVE DrawInv' /\ UseInv'
  <2>1. DrawInv'
    BY <1>0, <1>1, <1>2, <1>3, <1>5, <1>7 DEF DrawInv
  <2>2. \A nick : Drawn(nick) =>
          \E d \in 1..Days, n \in Nat : nick = Numbered(d, n) /\ d <= today' /\ (d = today' => Below(n)')
    BY <1>1, <1>3 DEF Drawn
  <2>3. ASSUME NEW u \in Users, HasNumber(u)' PROVE Drawn(row[u].nick)'
    <3>1. Drawn(row'[u].nick)
      BY <1>0, <1>1, <1>2, <1>7, <2>3 DEF UseInv, HasNumber
    <3> QED
      BY <2>2, <3>1 DEF Drawn
  <2>4. ASSUME NEW d \in Clients, Inflight(d)' PROVE Drawn(ucall[d].nick)'
    <3>1. Drawn(ucall'[d].nick)
      BY <1>0, <1>1, <1>2, <1>7, <2>4 DEF UseInv, Inflight
    <3> QED
      BY <2>2, <3>1 DEF Drawn
  <2>5. \A d \in Clients : (Inflight(d)' <=> Inflight(d)) /\ ucall'[d].nick = ucall[d].nick
    BY <1>1 DEF Inflight
  <2>6. \A u \in Users : (HasNumber(u)' <=> HasNumber(u)) /\ row'[u].nick = row[u].nick
    BY <1>1 DEF HasNumber
  <2>7. UseInv'
    BY Zenon, <1>0, <1>2, <1>7, <2>3, <2>4, <2>5, <2>6 DEF UseInv
  <2> QED
    BY <2>1, <2>7
<1> QED
  BY <1>4, <1>6, <1>7 DEF NickInv

LEMMA NickStepKeeps == Sizes /\ UserInv /\ NickInv /\ [UserNext]_userVars => NickInv'
<1> SUFFICES ASSUME Sizes, UserInv, NickInv, [UserNext]_userVars PROVE NickInv'
  OBVIOUS
<1>0. NickTypes /\ NickSteps /\ (calm => DrawInv /\ UseInv)
  BY DEF NickInv
<1>1. ASSUME NEW c \in Clients, NEW u \in Users, NEW p, registerUser(c, u) \/ userLogin(c, u, p)
      PROVE  NickInv'
  BY <1>1, BeginNicks DEF registerUser, userLogin
<1>2. ASSUME NEW c \in Clients, UserStep(c) PROVE NickInv'
  <2>1. CASE PostTimedOut(c) \/ StorageThrows(c) \/ fireSuccEvent(c)
    <3>1. End(c) /\ UNCHANGED <<late, row, others, counter, today, begun, calm>>
      BY <2>1 DEF PostTimedOut, StorageThrows, fireSuccEvent
    <3> QED
      BY <1>0, <3>1, EndNicks DEF NickTypes
  <2>2. CASE sendPostHttpFails(c)
    <3>1. ucall[c] # NotCalling
      BY <2>2, Present DEF sendPostHttpFails, InCall
    <3>2. ucall[c].user \in Users
      BY <3>1 DEF UserInv, Structure, CallOK
    <3>3. /\ End(c) /\ UNCHANGED <<row, others, counter, today, begun, calm>>
          /\ late' = late \/ late' = late \cup {ucall[c].user}
      BY <2>2 DEF sendPostHttpFails
    <3>4. late' \subseteq Users
      BY <1>0, <3>2, <3>3 DEF NickTypes
    <3> QED
      BY <3>3, <3>4, EndNicks
  <2>3. CASE PostAnswered(c) \/ lookup(c) \/ getNickName(c)
    <3>1. ucall[c] # NotCalling
      BY <2>3, Present DEF PostAnswered, lookup, getNickName, InCall
    <3> QED
      BY <2>3, <3>1, CallNicks
  <2>4. CASE updateUserBasicInfo(c)
    BY <2>4, UpdateNicks
  <2>5. CASE addUser(c)
    BY <2>5, AddNicks
  <2>6. CASE getNumber(c) \/ queryTodayAddUserNumber(c) \/ setNumber(c) \/ increment(c)
    BY <2>6, DrawNicks
  <2>7. CASE regetNumber(c) \/ NumberThrows(c)
    BY <2>7, NumberNicks
  <2> QED
    BY Zenon, <1>2, <2>1, <2>2, <2>3, <2>4, <2>5, <2>6, <2>7 DEF UserStep
<1>3. ASSUME UNCHANGED <<row, others, counter, today, ucall, begun, calm>>, late' \subseteq Users
      PROVE  NickInv'
  <2>1. NickTypes'
    BY <1>0, <1>3 DEF NickTypes
  <2>2. NickSteps'
    BY <1>0, <1>3 DEF NickSteps, Creates, Nicks
  <2>3. calm => DrawInv'
    BY <1>0, <1>3 DEF DrawInv, Drawing
  <2>4. calm => UseInv'
    <3>1. AddedToday' = AddedToday /\ Drawing' = Drawing
      BY Zenon, <1>3 DEF AddedToday, Drawing
    <3>2. \A n \in Nat : Below(n) => Below(n)'
      BY <1>3, <3>1 DEF Below
    <3>3. \A u \in Users : HasNumber(u)' => HasNumber(u) /\ row'[u].nick = row[u].nick
      BY <1>3 DEF HasNumber
    <3>4. \A d \in Clients : Inflight(d)' => Inflight(d) /\ ucall'[d].nick = ucall[d].nick
      BY <1>3 DEF Inflight
    <3> QED
      BY <1>0, <1>3, <3>2, <3>3, <3>4, UseKeeps
  <2> QED
    BY <1>3, <2>1, <2>2, <2>3, <2>4 DEF NickInv
<1>4. ASSUME NEW u \in Users, LateRegistration(u) \/ ChangeAccount(u) PROVE NickInv'
  <2>1. /\ UNCHANGED <<row, others, counter, today, ucall, begun, calm>>
        /\ late' \in {late, late \ {u}}
    BY <1>4 DEF LateRegistration, ChangeAccount
  <2> QED
    BY <1>0, <1>3, <2>1 DEF NickTypes
<1>5. CASE UNCHANGED userVars
  BY <1>0, <1>3, <1>5 DEF userVars, NickTypes
<1> QED
  BY <1>1, <1>2, <1>4, <1>5, LoseNicks, MidnightNicks DEF UserNext
-----------------------------------------------------------------------------
(* Every step keeps UserInv.                                               *)

\* What a login writes into a row that is there
LEMMA SyncedRow ==
  ASSUME NEW k, NEW r, RowOK(r)
  PROVE  LET p == Profiles[k.user][k.version]
             s == Synced(r, p, k.pwd)
         IN /\ RowOK(s) /\ Matches(k, s)
            /\ ~isChange(r, p, k.pwd) => Matches(k, r) /\ convert(s) = convert(r)
<1> DEFINE p == Profiles[k.user][k.version]
           contact == [f \in Contacts |-> IF p.contact[f] # "" THEN p.contact[f] ELSE r.contact[f]]
           identity == IF NewIdentity(r, p) THEN p.identity ELSE r.identity
           valid == r.valid \cup {f \in Contacts : contact[f] # ""}
                      \cup (IF identity # "" THEN {"identity"} ELSE {})
           s == Synced(r, p, k.pwd)
<1>1. /\ DOMAIN s = RowFields /\ s = [f \in RowFields |-> s[f]]
      /\ s.contact = contact /\ s.identity = identity /\ s.pwd = k.pwd /\ s.valid = valid
      /\ s.nick = r.nick
  BY Zenon DEF Synced, RowOK, RowFields
<1>2. \A f \in Contacts : /\ contact[f] = IF p.contact[f] # "" THEN p.contact[f] ELSE r.contact[f]
                          /\ r.contact[f] # "" => contact[f] # ""
  BY Zenon
<1>3. valid \cap Contacts = {f \in Contacts : contact[f] # ""}
  BY Zenon, <1>2 DEF RowOK, Contacts
<1>4. "identity" \in valid => identity # ""
  BY Zenon DEF RowOK, Contacts, NewIdentity
<1>5. RowOK(s)
  <2> HIDE DEF s, valid, contact, identity
  <2> QED
    BY ZenonT(60), <1>1, <1>3, <1>4 DEF RowOK
<1>6. Matches(k, s)
  BY ZenonT(60), <1>1, <1>2 DEF Matches
<1>7. ASSUME ~isChange(r, p, k.pwd) PROVE Matches(k, r) /\ convert(s) = convert(r)
  <2>1. r.pwd = k.pwd /\ s.contact = r.contact /\ ~NewIdentity(r, p)
    BY <1>7 DEF isChange
  <2> QED
    BY ZenonT(60), <1>1, <1>2, <2>1 DEF Matches, convert, User
<1> QED
  BY <1>5, <1>6, <1>7

\* Which row a call asks for is told by its user, version and password.
LEMMA MatchesSame ==
  ASSUME NEW k, NEW q, NEW r, k.user = q.user, k.version = q.version, k.pwd = q.pwd
  PROVE  Matches(k, r) <=> Matches(q, r)
BY DEF Matches

\* A step of one call that leaves the rows and the events alone
LEMMA CallKeeps ==
  ASSUME UserInv, NEW c \in Clients, ucall[c] # NotCalling, NEW k,
         ucall' = [ucall EXCEPT ![c] = k], UNCHANGED <<row, fired>>,
         account' \in [Users -> Nat], \A u \in Users : account[u] > 0 => account'[u] > 0,
         \/ k = NotCalling
         \/ /\ CallOK(k) /\ k.alone = ucall[c].alone
            /\ k.step # "post" => account'[k.user] > 0
            /\ k.step = "fire" =>
                 /\ row[k.user] # NoRow
                 /\ k.alone => Matches(k, row[k.user]) /\ convert(row[k.user]) = convert(k.new)
            /\ k.op = "register" /\ k.step \in {"insert", "fire"} =>
                 \/ Registers(c, k.user)
                 \/ fired["register"][k.user] = 0 /\ \A d \in Clients \ {c} : ~Registers(d, k.user)
  PROVE  UserInv'
<1>0. Structure /\ Reliance /\ Announced
  BY DEF UserInv
<1>1. /\ ucall'[c] = k /\ \A d \in Clients \ {c} : ucall'[d] = ucall[d]
      /\ DOMAIN ucall' = Clients /\ ucall' = [d \in Clients |-> ucall'[d]]
  BY Zenon, <1>0 DEF Structure
<1>2. Structure'
  BY <1>0, <1>1 DEF Structure
<1>3. Reliance'
  <2>1. ASSUME NEW d \in Clients, ucall'[d] # NotCalling PROVE Relies(ucall[d])'
    <3>1. CASE d = c
      BY <1>1, <2>1, <3>1 DEF Relies
    <3>2. CASE d # c
      BY <1>0, <1>1, <2>1, <3>2, Present DEF Structure, Reliance, Relies, CallOK
    <3> QED
      BY <3>1, <3>2
  <2>2. ASSUME NEW d \in Clients, ucall'[d] # NotCalling, ucall'[d].alone, NEW e \in Clients \ {d}
        PROVE  ucall'[e] = NotCalling
    BY <1>0, <1>1, <2>2 DEF Reliance
  <2> QED
    BY <2>1, <2>2 DEF Reliance
<1>4. Announced'
  <2> SUFFICES ASSUME NEW u \in Users
               PROVE  /\ \A e \in Events : fired'[e][u] > 0 => row'[u] # NoRow /\ account'[u] > 0
                      /\ fired'["register"][u] <= 1
                      /\ \A d \in Clients : Registers(d, u)' =>
                           /\ fired'["register"][u] = 0
                           /\ \A e \in Clients \ {d} : ~Registers(e, u)'
    BY DEF Announced
  <2>1. \A d \in Clients \ {c} : Registers(d, u)' <=> Registers(d, u)
    BY <1>1 DEF Registers
  <2>2. Registers(c, u)' => \/ Registers(c, u)
                            \/ fired["register"][u] = 0 /\ \A d \in Clients \ {c} : ~Registers(d, u)
    BY <1>1, Present DEF Registers
  <2> QED
    BY ZenonT(60), <1>0, <2>1, <2>2 DEF Announced
<1> QED
  BY <1>2, <1>3, <1>4 DEF UserInv

\* The call ends without a row and without an event.
LEMMA EndKeeps ==
  ASSUME UserInv, NEW c \in Clients, ucall[c] # NotCalling, End(c), UNCHANGED <<row, fired>>,
         account' \in [Users -> Nat], \A u \in Users : account[u] > 0 => account'[u] > 0
  PROVE  UserInv'
BY Zenon, CallKeeps DEF End

\* A call that is neither at "post" nor at "fire" goes to a step that is neither
\* "update" nor "fire", with another nickname, number or day.
LEMMA NickKeeps ==
  ASSUME UserInv, NEW c \in Clients, UNCHANGED <<row, fired, account>>,
         ucall[c].step \in Steps \ {"post", "fire"}, ucall[c].op = "login",
         NEW k, ucall' = [ucall EXCEPT ![c] = k],
         DOMAIN k = CallFields, k = [f \in CallFields |-> k[f]],
         k.step \in Steps \ {"post", "update", "fire"},
         \A f \in {"op", "user", "pwd", "alone"} : k[f] = ucall[c][f]
  PROVE  UserInv'
<1>1. Structure /\ Reliance
  BY DEF UserInv
<1>2. ucall[c] # NotCalling
  BY Present DEF Steps
<1>3. CallOK(ucall[c]) /\ Relies(ucall[c]) /\ account \in [Users -> Nat]
  BY <1>1, <1>2 DEF Structure, Reliance
<1>4. k.op = "login" /\ k.user = ucall[c].user /\ k.pwd = ucall[c].pwd /\ k.alone = ucall[c].alone
  OBVIOUS
<1>5. CallOK(k)
  BY <1>3, <1>4 DEF CallOK
<1>6. account[k.user] > 0
  BY <1>3, <1>4 DEF Relies
<1> QED
  BY <1>2, <1>3, <1>4, <1>5, <1>6, CallKeeps

\* userLogin and registerUser: no call is alone any more that was under way.
LEMMA BeginKeeps ==
  ASSUME UserInv, NEW c \in Clients, NEW op \in Events, NEW u \in Users, NEW p \in Nat \ {0},
         BeginCall(c, LoginRegisterDTO(op, u, p))
  PROVE  UserInv'
<1>0. Structure /\ Reliance /\ Announced
  BY DEF UserInv
<1>1. PICK B : B = {d \in Clients : ~InCall(d, "none")}
  BY Zenon
<1>2. PICK k : k = [step |-> "post", op |-> op, user |-> u, pwd |-> p,
                    asyn |-> TuandaiRequest(LoginRegisterDTO(op, u, p)).asyn, version |-> 0,
                    nick |-> NoName, num |-> 0, day |-> 0, new |-> NoRow, alone |-> B = {}]
  BY Zenon
<1>3. /\ ucall' = [d \in Clients |->
           IF d = c THEN k
           ELSE IF d \in B THEN [ucall[d] EXCEPT !.alone = FALSE] ELSE ucall[d]]
      /\ UNCHANGED <<account, row, fired>> /\ InCall(c, "none")
  BY <1>1, <1>2 DEF BeginCall, LoginRegisterDTO
<1>4. CallOK(k) /\ k.step = "post" /\ (k.alone <=> B = {})
  BY Zenon, <1>2 DEF CallOK, CallFields, Steps
<1>5. \A d \in Clients : d \in B <=> ucall[d] # NotCalling
  BY <1>0, <1>1, Present DEF Structure, InCall, CallOK, Steps
<1>6. ucall'[c] = k /\ c \notin B
  BY <1>1, <1>3
<1>7. ASSUME NEW d \in Clients \ {c}, d \notin B PROVE ucall'[d] = NotCalling
  BY <1>3, <1>5, <1>7
<1>8. ASSUME NEW d \in B
      PROVE  /\ d \in Clients \ {c} /\ CallOK(ucall[d]) /\ CallOK(ucall'[d]) /\ ~ucall'[d].alone
             /\ \A f \in CallFields \ {"alone"} : ucall'[d][f] = ucall[d][f]
  <2>1. d \in Clients \ {c} /\ ucall[d] # NotCalling
    BY <1>1, <1>5, <1>6, <1>8
  <2>2. CallOK(ucall[d]) /\ ucall'[d] = [ucall[d] EXCEPT !.alone = FALSE]
    BY <1>0, <1>3, <1>8, <2>1 DEF Structure
  <2>3. /\ DOMAIN ucall'[d] = CallFields /\ ucall'[d] = [f \in CallFields |-> ucall'[d][f]]
        /\ \A f \in CallFields \ {"alone"} : ucall'[d][f] = ucall[d][f]
        /\ ucall'[d].alone = FALSE
    BY Zenon, <2>2 DEF CallOK, CallFields
  <2>4. /\ ucall'[d].step = ucall[d].step /\ ucall'[d].op = ucall[d].op /\ ucall'[d].user = ucall[d].user
        /\ ucall'[d].pwd = ucall[d].pwd /\ ucall'[d].new = ucall[d].new
        /\ ucall'[d].version = ucall[d].version
    BY <2>3 DEF CallFields
  <2>5. CallOK(ucall'[d])
    BY ZenonT(60), <2>2, <2>3, <2>4 DEF CallOK, Matches
  <2> QED
    BY <2>1, <2>2, <2>3, <2>5
<1>9. Structure'
  <2>1. \A d \in Clients : ucall'[d] = NotCalling \/ CallOK(ucall'[d])
    BY <1>4, <1>6, <1>7, <1>8
  <2> QED
    BY Zenon, <1>0, <1>3, <2>1 DEF Structure
<1>10. Reliance'
  <2>1. ASSUME NEW d \in Clients, ucall'[d] # NotCalling PROVE Relies(ucall[d])'
    <3>1. CASE d = c
      BY <1>4, <1>6, <3>1 DEF Relies
    <3>2. CASE d \in B
      <4>1. /\ ucall'[d].step = ucall[d].step /\ ucall'[d].user = ucall[d].user /\ ~ucall'[d].alone
        BY <1>8, <3>2 DEF CallFields
      <4>2. Relies(ucall[d])
        BY <1>0, <1>5, <3>2, <2>1 DEF Reliance
      <4> QED
        BY <1>3, <4>1, <4>2 DEF Relies
    <3> QED
      BY <1>7, <2>1, <3>1, <3>2
  <2>2. ASSUME NEW d \in Clients, ucall'[d] # NotCalling, ucall'[d].alone, NEW e \in Clients \ {d}
        PROVE  ucall'[e] = NotCalling
    BY <1>4, <1>6, <1>7, <1>8, <2>2
  <2> QED
    BY <2>1, <2>2 DEF Reliance
<1>11. Announced'
  <2>1. ASSUME NEW d \in Clients, NEW v PROVE Registers(d, v)' <=> Registers(d, v)
    <3>1. CASE d = c
      BY <1>3, <1>4, <1>6, <3>1 DEF Registers, InCall
    <3>2. CASE d \in B
      BY <1>8, <3>2 DEF Registers, CallFields
    <3>3. CASE d # c /\ d \notin B
      BY <1>3, <3>3 DEF Registers
    <3> QED
      BY <3>1, <3>2, <3>3
  <2> QED
    BY <1>0, <1>3, <2>1 DEF Announced
<1> QED
  BY <1>9, <1>10, <1>11 DEF UserInv

\* The row of a user is written: by a login that found one, or a new one.
LEMMA WriteKeeps ==
  ASSUME UserInv, NEW c \in Clients, CallOK(ucall[c]), ucall[c].step # "post",
         NEW r, RowOK(r), Matches(ucall[c], r), row' = [row EXCEPT ![ucall[c].user] = r],
         NEW k, ucall' = [ucall EXCEPT ![c] = k],
         DOMAIN k = CallFields, k = [f \in CallFields |-> k[f]], k.step = "fire", k.new = r,
         \A f \in {"op", "user", "pwd", "version", "alone"} : k[f] = ucall[c][f],
         ucall[c].op = "register" => ucall[c].step \in {"insert", "fire"},
         UNCHANGED <<account, fired>>
  PROVE  UserInv'
<1>0. Structure /\ Reliance /\ Announced /\ ucall[c] # NotCalling
  BY Present DEF UserInv
<1>1. /\ ucall'[c] = k /\ \A d \in Clients \ {c} : ucall'[d] = ucall[d]
      /\ DOMAIN ucall' = Clients /\ ucall' = [d \in Clients |-> ucall'[d]]
  BY <1>0 DEF Structure
<1>2. /\ k.op = ucall[c].op /\ k.user = ucall[c].user /\ k.pwd = ucall[c].pwd
      /\ k.version = ucall[c].version /\ k.alone = ucall[c].alone
  OBVIOUS
<1>3. CallOK(k) /\ Matches(k, r) /\ k.user \in Users /\ account[k.user] > 0
  <2>1. Matches(k, r)
    BY Zenon, <1>2 DEF Matches
  <2>2. CallOK(k)
    BY <1>2 DEF CallOK, Steps
  <2>3. Relies(ucall[c])
    BY <1>0 DEF Reliance
  <2>4. account[k.user] > 0
    BY <1>2, <2>3 DEF Relies
  <2> QED
    BY <2>1, <2>2, <2>4 DEF CallOK
<1>4. /\ row'[k.user] = r /\ r # NoRow /\ \A u \in Users \ {k.user} : row'[u] = row[u]
      /\ DOMAIN row' = Users /\ row' = [u \in Users |-> row'[u]]
  BY <1>0, <1>2, <1>3, Present DEF Structure
<1>5. Structure'
  BY <1>0, <1>1, <1>3, <1>4 DEF Structure
<1>6. Reliance'
  <2>1. ASSUME NEW d \in Clients, ucall'[d] # NotCalling PROVE Relies(ucall[d])'
    <3>1. CASE d = c
      BY <1>1, <1>3, <1>4, <3>1 DEF Relies
    <3>2. CASE d # c
      <4>1. ucall'[d] = ucall[d] /\ Relies(ucall[d]) /\ ~ucall[d].alone /\ CallOK(ucall[d])
        BY <1>0, <1>1, <2>1, <3>2 DEF Reliance, Structure
      <4> QED
        BY <1>4, <4>1 DEF Relies, CallOK
    <3> QED
      BY <3>1, <3>2
  <2>2. ASSUME NEW d \in Clients, ucall'[d] # NotCalling, ucall'[d].alone, NEW e \in Clients \ {d}
        PROVE  ucall'[e] = NotCalling
    BY <1>0, <1>1, <1>2, <2>2 DEF Reliance
  <2> QED
    BY <2>1, <2>2 DEF Reliance
<1>7. Announced'
  <2>1. ASSUME NEW d \in Clients, NEW v PROVE Registers(d, v)' <=> Registers(d, v)
    <3>1. CASE d = c
      BY <1>1, <1>2, <3>1 DEF Registers
    <3>2. CASE d # c
      BY <1>1, <3>2 DEF Registers
    <3> QED
      BY <3>1, <3>2
  <2>2. \A u \in Users : row[u] # NoRow => row'[u] # NoRow
    BY <1>4
  <2> QED
    BY <1>0, <2>1, <2>2 DEF Announced
<1> QED
  BY <1>5, <1>6, <1>7 DEF UserInv

\* The event of a call is fired, and the call ends.
LEMMA FireKeeps ==
  ASSUME UserInv, NEW c \in Clients, CallOK(ucall[c]), fireSuccEvent(c)
  PROVE  UserInv'
<1>0. Structure /\ Reliance /\ Announced /\ ucall[c] # NotCalling /\ Relies(ucall[c])
  BY Present DEF UserInv, Reliance
<1>1. /\ ucall'[c] = NotCalling /\ \A d \in Clients \ {c} : ucall'[d] = ucall[d]
      /\ DOMAIN ucall' = Clients /\ ucall' = [d \in Clients |-> ucall'[d]]
      /\ ucall[c].step = "fire" /\ UNCHANGED <<account, row>>
  BY <1>0 DEF Structure, fireSuccEvent, End, InCall
<1>2. PICK o \in Events, v \in Users : o = ucall[c].op /\ v = ucall[c].user
  BY DEF CallOK
<1>3. /\ fired' \in [Events -> [Users -> Nat]]
      /\ fired'[o][v] = fired[o][v] + 1
      /\ \A e \in Events, u \in Users : e # o \/ u # v => fired'[e][u] = fired[e][u]
  BY <1>0, <1>2 DEF Structure, fireSuccEvent
<1>4. account[v] > 0 /\ row[v] # NoRow
  BY <1>0, <1>1, <1>2 DEF Relies
<1>5. Structure'
  BY <1>0, <1>1, <1>3 DEF Structure
<1>6. Reliance'
  BY <1>0, <1>1 DEF Reliance, Relies
<1>7. \A d \in Clients : \A u : Registers(d, u)' <=> d # c /\ Registers(d, u)
  BY <1>1 DEF Registers, NotCalling
<1>8. o = "register" => Registers(c, v)
  BY <1>1, <1>2 DEF Registers
<1>9. Announced'
  <2> SUFFICES ASSUME NEW u \in Users
               PROVE  /\ \A e \in Events : fired'[e][u] > 0 => row'[u] # NoRow /\ account'[u] > 0
                      /\ fired'["register"][u] <= 1
                      /\ \A d \in Clients : Registers(d, u)' =>
                           /\ fired'["register"][u] = 0
                           /\ \A e \in Clients \ {d} : ~Registers(e, u)'
    BY DEF Announced
  <2>1. "register" \in Events /\ fired["register"][u] \in Nat
    BY <1>0 DEF Structure, Events
  <2>2. \A e \in Events : fired'[e][u] > 0 => row'[u] # NoRow /\ account'[u] > 0
    BY <1>0, <1>1, <1>3, <1>4 DEF Announced
  <2>3. CASE o = "register" /\ u = v
    BY <1>0, <1>3, <1>7, <1>8, <2>1, <2>2, <2>3 DEF Announced
  <2>4. CASE o # "register" \/ u # v
    BY <1>0, <1>3, <1>7, <2>1, <2>2, <2>4 DEF Announced
  <2> QED
    BY Zenon, <2>3, <2>4
<1> QED
  BY <1>5, <1>6, <1>9 DEF UserInv

\* Every step of every call, of Tuandai and of Redis keeps the invariant.
LEMMA UserStepKeeps == UserInv /\ [UserNext]_userVars => UserInv'
<1> SUFFICES ASSUME UserInv, [UserNext]_userVars PROVE UserInv'
  OBVIOUS
<1>0. Structure /\ Reliance /\ Announced /\ account \in [Users -> Nat]
  BY DEF UserInv, Structure
<1>1. ASSUME NEW c \in Clients, NEW u \in Users, registerUser(c, u) PROVE UserInv'
  BY <1>1, BeginKeeps DEF registerUser, Events
<1>2. ASSUME NEW c \in Clients, NEW u \in Users, NEW p \in 1..Len(Profiles[u]), userLogin(c, u, p)
      PROVE  UserInv'
  <2>1. p \in Nat \ {0}
    BY <1>2
  <2> QED
    BY <1>2, <2>1, BeginKeeps DEF userLogin, Events
<1>3. ASSUME NEW c \in Clients, UserStep(c) PROVE UserInv'
  <2>0. CallOK(ucall[c]) /\ ucall[c] # NotCalling /\ Relies(ucall[c])
    <3>1. ucall[c].step # "none"
      BY Zenon, <1>3 DEF UserStep, PostAnswered, PostTimedOut, sendPostHttpFails, lookup, updateUserBasicInfo,
                  getNickName, getNumber, queryTodayAddUserNumber, setNumber, increment, regetNumber,
                  NumberThrows, Drawing, addUser, StorageThrows, fireSuccEvent, InCall
    <3>2. ucall[c] # NotCalling
      BY <3>1, Present
    <3> QED
      BY <1>0, <3>2 DEF Structure, Reliance
  <2>k. PICK o \in Events, u \in Users : o = ucall[c].op /\ u = ucall[c].user
    BY <2>0 DEF CallOK
  <2>f. /\ DOMAIN ucall[c] = CallFields /\ ucall[c] = [f \in CallFields |-> ucall[c][f]]
        /\ DOMAIN ucall = Clients
    BY <1>0, <2>0 DEF CallOK, Structure
  <2>1. CASE PostAnswered(c)
    <3>0. UNCHANGED <<row, fired>>
      BY <2>1 DEF PostAnswered
    <3>1. CASE End(c) /\ UNCHANGED account
      BY Zenon, <1>0, <2>0, <3>0, <3>1, EndKeeps
    <3>2. CASE ~(End(c) /\ UNCHANGED account)
      <4>1. /\ Accepts(o, u, ucall[c].pwd) /\ account' = Served(o, u) /\ ucall[c].step = "post"
            /\ ucall' = [ucall EXCEPT
                 ![c].step = IF o = "login" THEN "lookup" ELSE "insert",
                 ![c].nick = IF o = "login" THEN NoName ELSE RegisterNick,
                 ![c].version = account'[u]]
        BY <2>1, <2>k, <3>2 DEF PostAnswered, InCall
      <4>2. PICK k : k = [ucall[c] EXCEPT !.step = IF o = "login" THEN "lookup" ELSE "insert",
                                          !.nick = IF o = "login" THEN NoName ELSE RegisterNick,
                                          !.version = account'[u]]
        OBVIOUS
      <4>3. ucall' = [ucall EXCEPT ![c] = k]
        BY Zenon, <2>f, <4>1, <4>2
      <4>4. /\ DOMAIN k = CallFields /\ k = [f \in CallFields |-> k[f]]
            /\ k.step = (IF o = "login" THEN "lookup" ELSE "insert")
            /\ k.op = o /\ k.user = u /\ k.pwd = ucall[c].pwd /\ k.alone = ucall[c].alone
        BY Zenon, <2>f, <2>k, <4>2 DEF CallFields
      <4>5. CallOK(k)
        BY <2>0, <2>k, <4>4 DEF CallOK, Steps, Events
      <4>6. /\ account' \in [Users -> Nat] /\ account'[u] > 0
            /\ \A v \in Users : account[v] > 0 => account'[v] > 0
        <5>1. CASE o = "login"
          <6>1. account' = account /\ account[u] = ucall[c].pwd /\ ucall[c].pwd \in Nat \ {0}
            BY Zenon, <2>0, <4>1, <5>1 DEF Accepts, Served, CallOK
          <6> QED
            BY <1>0, <6>1
        <5>2. CASE o # "login"
          <6>1. account' = [account EXCEPT ![u] = 1]
            BY <4>1, <5>2 DEF Served
          <6> QED
            BY <1>0, <6>1
        <5> QED
          BY <5>1, <5>2
      <4>7. o = "register" => fired["register"][u] = 0 /\ \A d \in Clients \ {c} : ~Registers(d, u)
        <5>1. o = "register" => account[u] = 0
          BY <4>1 DEF Accepts
        <5>2. fired["register"][u] \in Nat /\ (fired["register"][u] > 0 => account[u] > 0)
          BY <1>0 DEF Structure, Announced, Events
        <5>3. ASSUME NEW d \in Clients, Registers(d, u) PROVE account[u] > 0
          <6>1. ucall[d] # NotCalling /\ ucall[d].step # "post" /\ ucall[d].user = u
            BY <5>3, Present DEF Registers
          <6> QED
            BY <1>0, <6>1 DEF Reliance, Relies
        <5> QED
          BY <1>0, <5>1, <5>2, <5>3
      <4> QED
        BY <2>0, <3>0, <4>3, <4>4, <4>5, <4>6, <4>7, CallKeeps
    <3> QED
      BY <3>1, <3>2
  <2>2. CASE PostTimedOut(c) \/ StorageThrows(c)
    BY <1>0, <2>0, <2>2, EndKeeps DEF PostTimedOut, StorageThrows
  <2>3. CASE sendPostHttpFails(c)
    <3>1. /\ account' \in [Users -> Nat]
          /\ \A v \in Users : account[v] > 0 => account'[v] > 0
      BY <1>0, <2>k, <2>3 DEF sendPostHttpFails, Served
    <3> QED
      BY <2>0, <2>3, <3>1, EndKeeps DEF sendPostHttpFails
  <2>4. CASE lookup(c)
    <3>0. UNCHANGED <<row, fired, account>> /\ ucall[c].step = "lookup" /\ o = "login"
      BY Zenon, <2>0, <2>4, <2>k DEF lookup, InCall, CallOK, Events
    <3>1. PICK p : p = Profiles[u][ucall[c].version]
      OBVIOUS
    <3>2. PICK k : k = [ucall[c] EXCEPT
                     !.nick = Unames[u],
                     !.new  = IF row[u] = NoRow THEN NoRow ELSE Synced(row[u], p, ucall[c].pwd),
                     !.step = IF row[u] = NoRow
                              THEN IF Unames[u] = NoName THEN "get" ELSE "check"
                              ELSE IF isChange(row[u], p, ucall[c].pwd) THEN "update" ELSE "fire"]
      OBVIOUS
    <3>3. ucall' = [ucall EXCEPT ![c] = k]
      BY Zenon, <2>4, <2>f, <2>k, <3>1, <3>2 DEF lookup
    <3>4. /\ DOMAIN k = CallFields /\ k = [f \in CallFields |-> k[f]]
          /\ k.step = (IF row[u] = NoRow
                       THEN IF Unames[u] = NoName THEN "get" ELSE "check"
                       ELSE IF isChange(row[u], p, ucall[c].pwd) THEN "update" ELSE "fire")
          /\ k.new = (IF row[u] = NoRow THEN NoRow ELSE Synced(row[u], p, ucall[c].pwd))
          /\ k.op = o /\ k.user = u /\ k.pwd = ucall[c].pwd /\ k.alone = ucall[c].alone
          /\ k.version = ucall[c].version
      BY ZenonT(60), <2>f, <2>k, <3>2 DEF CallFields
    <3>5. account[u] > 0
      BY Zenon, <2>0, <2>k, <3>0 DEF Relies
    <3>6. CASE row[u] = NoRow
      <4>1. CallOK(k) /\ k.step \notin {"fire", "update"}
        BY <2>0, <2>k, <3>0, <3>4, <3>6 DEF CallOK, Steps
      <4> QED
        BY <1>0, <2>0, <3>0, <3>3, <3>4, <3>5, <4>1, CallKeeps
    <3>7. CASE row[u] # NoRow
      <4>1. RowOK(row[u])
        BY <1>0, <3>7 DEF Structure
      <4>2. /\ RowOK(k.new) /\ Matches(ucall[c], k.new)
            /\ k.step = "fire" => Matches(ucall[c], row[u]) /\ convert(k.new) = convert(row[u])
        <5>1. PICK q : q = ucall[c]
          OBVIOUS
        <5>2. PICK x : x = row[u]
          OBVIOUS
        <5>3. p = Profiles[q.user][q.version] /\ RowOK(x)
          BY <2>k, <3>1, <4>1, <5>1, <5>2
        <5>4. /\ RowOK(Synced(x, p, q.pwd)) /\ Matches(q, Synced(x, p, q.pwd))
              /\ ~isChange(x, p, q.pwd) => Matches(q, x) /\ convert(Synced(x, p, q.pwd)) = convert(x)
          BY Zenon, <5>3, SyncedRow
        <5>5. k.new = Synced(x, p, q.pwd) /\ (k.step = "fire" => ~isChange(x, p, q.pwd))
          BY <3>4, <3>7, <5>1, <5>2
        <5> QED
          BY ZenonT(60), <5>1, <5>2, <5>4, <5>5
      <4>3. Matches(k, k.new) /\ (k.step = "fire" => Matches(k, row[u]))
        BY <2>k, <3>4, <4>2, MatchesSame
      <4>4. CallOK(k)
        BY <2>0, <2>k, <3>0, <3>4, <3>7, <4>2, <4>3 DEF CallOK, Steps
      <4> QED
        BY <1>0, <2>0, <3>0, <3>3, <3>4, <3>5, <3>7, <4>2, <4>3, <4>4, CallKeeps
    <3> QED
      BY <3>6, <3>7
  <2>5. CASE updateUserBasicInfo(c)
    <3>1. PICK k : k = [ucall[c] EXCEPT !.step = "fire"]
      BY Zenon
    <3>2. /\ ucall[c].step = "update" /\ ucall' = [ucall EXCEPT ![c] = k]
          /\ row' = [row EXCEPT ![ucall[c].user] = ucall[c].new] /\ UNCHANGED <<account, fired>>
      BY <2>5, <2>f, <3>1 DEF updateUserBasicInfo, GoTo, InCall
    <3>3. /\ DOMAIN k = CallFields /\ k = [f \in CallFields |-> k[f]] /\ k.step = "fire"
          /\ k.new = ucall[c].new
          /\ \A f \in {"op", "user", "pwd", "version", "alone"} : k[f] = ucall[c][f]
      BY <2>f, <3>1 DEF CallFields
    <3>4. /\ RowOK(ucall[c].new) /\ Matches(ucall[c], ucall[c].new) /\ ucall[c].op # "register"
      BY <2>0, <3>2 DEF CallOK
    <3> QED
      BY Zenon, <2>0, <3>2, <3>3, <3>4, WriteKeeps
  <2>6. CASE getNickName(c)
    <3>0. UNCHANGED <<row, fired, account>> /\ ucall[c].step = "check" /\ o = "login"
      BY <2>0, <2>6, <2>k DEF getNickName, InCall, CallOK, Events
    <3>1. PICK k : /\ ucall' = [ucall EXCEPT ![c] = k]
                   /\ k = IF ucall[c].nick \notin Nicks THEN [ucall[c] EXCEPT !.step = "insert"]
                          ELSE IF ucall[c].num >= 3
                          THEN [ucall[c] EXCEPT !.step = "insert", !.nick = RandomNick]
                          ELSE [ucall[c] EXCEPT !.nick = NextNick(ucall[c].nick, ucall[c].num),
                                                !.num = @ + 1]
      BY Zenon, <2>6 DEF getNickName
    <3>2. /\ DOMAIN k = CallFields /\ k = [f \in CallFields |-> k[f]] /\ k.step \in {"insert", "check"}
          /\ \A f \in {"op", "user", "pwd", "alone"} : k[f] = ucall[c][f]
      BY ZenonT(60), <2>f, <3>0, <3>1 DEF CallFields
    <3>3. /\ ucall[c].step \in Steps \ {"post", "fire"} /\ ucall[c].op = "login"
          /\ k.step \in Steps \ {"post", "update", "fire"}
      BY <2>k, <3>0, <3>2 DEF Steps
    <3>4. ucall' = [ucall EXCEPT ![c] = k]
      BY <3>1
    <3> QED
      BY <3>0, <3>2, <3>3, <3>4, NickKeeps
  <2>7. CASE \/ getNumber(c) \/ queryTodayAddUserNumber(c) \/ setNumber(c) \/ increment(c)
             \/ regetNumber(c) \/ NumberThrows(c)
    <3>0. /\ UNCHANGED <<row, fired, account>> /\ o = "login"
          /\ ucall[c].step \in {"get", "count", "set", "incr", "reget"}
      BY <2>0, <2>7, <2>k
      DEF getNumber, queryTodayAddUserNumber, setNumber, increment, regetNumber, NumberThrows, Drawing,
          InCall, CallOK, Events
    <3>1. ASSUME NEW k, ucall' = [ucall EXCEPT ![c] = k],
                 DOMAIN k = CallFields, k = [f \in CallFields |-> k[f]],
                 k.step \in {"count", "set", "incr", "reget", "insert"},
                 \A f \in {"op", "user", "pwd", "alone"} : k[f] = ucall[c][f]
          PROVE  UserInv'
      <4>1. /\ ucall[c].step \in Steps \ {"post", "fire"} /\ ucall[c].op = "login"
            /\ k.step \in Steps \ {"post", "update", "fire"}
        BY <2>k, <3>0, <3>1 DEF Steps
      <4> QED
        BY <3>0, <3>1, <4>1, NickKeeps
    <3>2. CASE getNumber(c)
      <4>1. PICK to \in {"count", "incr"} : ucall' = [ucall EXCEPT ![c].day = today, ![c].step = to]
        BY Zenon, <3>2 DEF getNumber
      <4>2. PICK k : k = [ucall[c] EXCEPT !.day = today, !.step = to]
        OBVIOUS
      <4>3. ucall' = [ucall EXCEPT ![c] = k]
        BY Zenon, <2>f, <4>1, <4>2
      <4>4. /\ DOMAIN k = CallFields /\ k = [f \in CallFields |-> k[f]] /\ k.step = to
            /\ \A f \in {"op", "user", "pwd", "alone"} : k[f] = ucall[c][f]
        BY Zenon, <2>f, <4>2 DEF CallFields
      <4> QED
        BY <3>1, <4>3, <4>4
    <3>3. CASE queryTodayAddUserNumber(c)
      <4>2. PICK k : k = [ucall[c] EXCEPT !.num = AddedToday, !.step = "set"]
        OBVIOUS
      <4>3. ucall' = [ucall EXCEPT ![c] = k]
        BY Zenon, <2>f, <3>3, <4>2 DEF queryTodayAddUserNumber
      <4>4. /\ DOMAIN k = CallFields /\ k = [f \in CallFields |-> k[f]] /\ k.step = "set"
            /\ \A f \in {"op", "user", "pwd", "alone"} : k[f] = ucall[c][f]
        BY Zenon, <2>f, <4>2 DEF CallFields
      <4> QED
        BY <3>1, <4>3, <4>4
    <3>4. CASE setNumber(c) \/ increment(c)
      <4>1. PICK to \in {"incr", "reget"} : ucall' = [ucall EXCEPT ![c].step = to]
        BY <3>4 DEF setNumber, increment, GoTo
      <4>2. PICK k : k = [ucall[c] EXCEPT !.step = to]
        BY Zenon
      <4>3. ucall' = [ucall EXCEPT ![c] = k]
        BY <2>f, <4>1, <4>2
      <4>4. /\ DOMAIN k = CallFields /\ k = [f \in CallFields |-> k[f]] /\ k.step = to
            /\ \A f \in {"op", "user", "pwd", "alone"} : k[f] = ucall[c][f]
        BY <2>f, <4>2 DEF CallFields
      <4> QED
        BY <3>1, <4>3, <4>4
    <3>5. CASE regetNumber(c) \/ NumberThrows(c)
      <4>1. \E n, d : NumberIs(c, n, d)
        BY <3>5 DEF regetNumber, NumberThrows
      <4>2. PICK n, d : ucall' = [ucall EXCEPT ![c].step = "insert", ![c].nick = Numbered(today, n),
                                               ![c].day = d]
        BY Zenon, <4>1 DEF NumberIs
      <4>3. PICK k : k = [ucall[c] EXCEPT !.step = "insert", !.nick = Numbered(today, n), !.day = d]
        OBVIOUS
      <4>4. ucall' = [ucall EXCEPT ![c] = k]
        BY Zenon, <2>f, <4>2, <4>3
      <4>5. /\ DOMAIN k = CallFields /\ k = [f \in CallFields |-> k[f]] /\ k.step = "insert"
            /\ \A f \in {"op", "user", "pwd", "alone"} : k[f] = ucall[c][f]
        BY Zenon, <2>f, <4>3 DEF CallFields
      <4> QED
        BY <3>1, <4>4, <4>5
    <3> QED
      BY Zenon, <2>7, <3>2, <3>3, <3>4, <3>5
  <2>8. CASE addUser(c)
    <3>1. CASE End(c) /\ UNCHANGED row
      BY <1>0, <2>0, <2>8, <3>1, EndKeeps DEF addUser
    <3>2. CASE ~(End(c) /\ UNCHANGED row)
      <4>1. PICK k : k = [ucall[c] EXCEPT !.step = "fire", !.new = NewRow(ucall[c])]
        OBVIOUS
      <4>2. /\ ucall[c].step = "insert" /\ ucall' = [ucall EXCEPT ![c] = k]
            /\ row' = [row EXCEPT ![ucall[c].user] = NewRow(ucall[c])] /\ UNCHANGED <<account, fired>>
        BY Zenon, <2>8, <2>f, <3>2, <4>1 DEF addUser, InCall
      <4>3. /\ DOMAIN k = CallFields /\ k = [f \in CallFields |-> k[f]] /\ k.step = "fire"
            /\ k.new = NewRow(ucall[c])
            /\ \A f \in {"op", "user", "pwd", "version", "alone"} : k[f] = ucall[c][f]
        BY Zenon, <2>f, <4>1 DEF CallFields
      <4> QED
        BY Zenon, <2>0, <4>2, <4>3, AddedRow, WriteKeeps
    <3> QED
      BY <3>1, <3>2
  <2>9. CASE fireSuccEvent(c)
    BY <2>0, <2>9, FireKeeps
  <2> QED
    BY Zenon, <1>3, <2>1, <2>2, <2>3, <2>4, <2>5, <2>6, <2>7, <2>8, <2>9 DEF UserStep
<1>4. ASSUME UNCHANGED <<ucall, row, fired>>, account' \in [Users -> Nat],
             \A v \in Users : account[v] > 0 => account'[v] > 0
      PROVE  UserInv'
  <2>1. Structure'
    BY <1>0, <1>4 DEF Structure
  <2>2. ASSUME NEW c \in Clients, ucall[c] # NotCalling PROVE Relies(ucall[c])'
    BY <1>0, <1>4, <2>2 DEF Structure, Reliance, Relies, CallOK
  <2>3. Reliance'
    BY <1>0, <1>4, <2>2 DEF Reliance
  <2>4. Announced'
    BY <1>0, <1>4 DEF Announced, Registers
  <2> QED
    BY <2>1, <2>3, <2>4 DEF UserInv
<1>5. ASSUME NEW u \in Users, LateRegistration(u) \/ ChangeAccount(u) PROVE UserInv'
  <2>1. /\ UNCHANGED <<ucall, row, fired>> /\ account' \in [Users -> Nat]
        /\ \A v \in Users : account[v] > 0 => account'[v] > 0
    BY <1>0, <1>5 DEF LateRegistration, ChangeAccount, Served
  <2> QED
    BY <1>4, <2>1
<1>6. CASE LoseNumber \/ Midnight \/ UNCHANGED userVars
  BY <1>0, <1>4, <1>6 DEF LoseNumber, Midnight, userVars
<1> QED
  BY <1>1, <1>2, <1>3, <1>5, <1>6 DEF UserNext

\* The calls, rows, accounts and events agree in every state.
LEMMA UserInvHolds == UserSpec => []UserInv
<1>1. UserInit => UserInv
  <2> SUFFICES ASSUME UserInit PROVE UserInv
    OBVIOUS
  <2>1. /\ account = [u \in Users |-> IF u \in Known THEN 1 ELSE 0]
        /\ row = [u \in Users |-> NoRow] /\ ucall = [c \in Clients |-> NotCalling]
        /\ fired = [e \in Events |-> [u \in Users |-> 0]]
    BY DEF UserInit
  <2>2. Structure
    BY <2>1 DEF Structure
  <2>3. \A c \in Clients : \A u : ~Registers(c, u)
    BY <2>1, Present DEF Registers
  <2>4. \A e \in Events, u \in Users : fired[e][u] = 0
    BY <2>1
  <2>5. Announced
    BY <2>3, <2>4 DEF Announced, Events
  <2>6. Reliance
    BY <2>1 DEF Reliance
  <2> QED
    BY <2>2, <2>5, <2>6 DEF UserInv
<1>2. UserInv /\ [UserNext]_userVars => UserInv'
  BY UserStepKeeps
<1> QED
  BY <1>1, <1>2, PTL DEF UserSpec

\* A user is announced as registered at most once, and only with an account at
\* Tuandai and a committed row: for any number of calls, with answers lost, late
\* and repeated.
THEOREM RegisteredOnceHolds == UserSpec => []RegisteredOnce
<1>1. UserInv => RegisteredOnce
  BY DEF UserInv, Announced, RegisteredOnce
<1> QED
  BY <1>1, UserInvHolds, PTL

\* Before a login or a registration succeeds the row is there; it is the one
\* the call made, if no other call overlapped; and the flags of every row say
\* which contacts it has.
THEOREM LoginSyncsHolds == UserSpec => []LoginSyncs
<1>1. UserInv => LoginSyncs
  <2> SUFFICES ASSUME UserInv PROVE LoginSyncs
    OBVIOUS
  <2>1. ASSUME NEW c \in Clients, InCall(c, "fire")
        PROVE  /\ row[ucall[c].user] # NoRow
               /\ ucall[c].alone => /\ Matches(ucall[c], row[ucall[c].user])
                                    /\ convert(row[ucall[c].user]) = convert(ucall[c].new)
    BY Zenon, <2>1, Present DEF UserInv, Reliance, Relies, InCall
  <2>2. ASSUME NEW u \in Users, row[u] # NoRow
        PROVE  /\ row[u].valid \cap Contacts = {f \in Contacts : row[u].contact[f] # ""}
               /\ "identity" \in row[u].valid => row[u].identity # ""
    BY Zenon, <2>2 DEF UserInv, Structure, RowOK
  <2> QED
    BY ZenonT(60), <2>1, <2>2 DEF LoginSyncs, Matches
<1> QED
  BY <1>1, UserInvHolds, PTL
-----------------------------------------------------------------------------
INSTANCE FiniteSetTheorems

\* What the counting of the rows added today relies on
LEMMA SizesHold == Sizes
<1>1. ASSUME NEW T \in SUBSET Users PROVE IsFiniteSet(T)
  BY UserAssumption, FS_Subset
<1>2. ASSUME NEW T \in SUBSET Users PROVE Cardinality(T) \in Nat
  BY <1>1, FS_CardinalityType
<1>3. ASSUME NEW T \in SUBSET Users, NEW S \in SUBSET T PROVE Cardinality(S) <= Cardinality(T)
  BY <1>1, FS_Subset
<1> QED
  BY <1>2, <1>3 DEF Sizes

\* Numbers are drawn one after the other, and every one in a row was drawn.
LEMMA NickInvHolds == UserSpec => []NickInv
<1>1. UserInit => NickInv
  <2> SUFFICES ASSUME UserInit PROVE NickInv
    OBVIOUS
  <2>1. /\ late = {} /\ row = [u \in Users |-> NoRow] /\ others \in OtherNicks
        /\ counter = [d \in 1..Days |-> EmptyString] /\ today = 1 /\ begun = 0 /\ calm = TRUE
        /\ ucall = [c \in Clients |-> NotCalling]
    BY DEF UserInit
  <2>2. \A c \in Clients : ucall[c] = NotCalling /\ ucall[c].step = "none"
    BY <2>1, Present
  <2>3. NickTypes
    BY <2>1, <2>2, UserAssumption DEF NickTypes
  <2>4. NickSteps
    BY <2>2 DEF NickSteps, Creates
  <2>5. Drawing = {}
    BY <2>2 DEF Drawing
  <2>6. DrawInv
    BY <2>1, <2>5 DEF DrawInv
  <2>7. UseInv
    BY <2>1, <2>2 DEF UseInv, Inflight, HasNumber
  <2> QED
    BY <2>3, <2>4, <2>6, <2>7 DEF NickInv
<1>2. UserInv /\ NickInv /\ [UserNext]_userVars => NickInv'
  BY SizesHold, NickStepKeeps
<1> QED
  BY <1>1, <1>2, UserInvHolds, PTL DEF UserSpec

\* The nickname that createNickName made and a login is about to insert is free:
\* a name with a suffix if no other call overlapped, a numbered one if the draws
\* of a day did not overlap and Redis kept its counter; for any number of clients,
\* users and days.
THEOREM NickIsFreeHolds == UserSpec => []NickIsFree
<1>1. UserInv /\ NickInv => NickIsFree
  <2> SUFFICES ASSUME UserInv, NickInv PROVE NickIsFree
    OBVIOUS
  <2>1. UserTypeOK
    BY DEF UserInv, Structure, NickInv, NickTypes, UserTypeOK
  <2>2. ASSUME NEW c \in Clients, Creates(c), "suffixes" \in DOMAIN ucall[c].nick, ucall[c].alone
        PROVE  ucall[c].nick \notin Nicks
    BY <2>2 DEF NickInv, NickSteps
  <2>3. ASSUME NEW c \in Clients, Creates(c), IsNumber(ucall[c].nick), calm
        PROVE  ucall[c].nick \notin Nicks
    <3>1. Inflight(c) /\ UseInv
      BY <2>3 DEF Creates, Inflight, NickInv
    <3>2. ucall[c].nick \notin {row[u].nick : u \in {v \in Users : row[v] # NoRow}}
      BY <2>3, <3>1 DEF UseInv, HasNumber
    <3>3. ucall[c].nick \notin others
      BY Zenon, <2>3, UserAssumption DEF NickInv, NickTypes
    <3> QED
      BY <3>2, <3>3 DEF Nicks
  <2> QED
    BY <2>1, <2>2, <2>3 DEF NickIsFree, IsNumber
<1> QED
  BY <1>1, UserInvHolds, NickInvHolds, PTL
=============================================================================
