----------------------------- MODULE UserService -----------------------------
(***************************************************************************)
(* dubbo-user: UserServiceImpl asks Tuandai to log in or to register a     *)
(* user (TuandaiUserServiceImpl.post), brings the local row in line        *)
(* (UserStorageServiceImpl) and fires an event.  Threads of the service    *)
(* interleave between the commands to Tuandai, the database and Redis.     *)
(* A transaction reads committed rows and takes effect in its last step;   *)
(* a command may throw, which rolls it back.                               *)
(***************************************************************************)
EXTENDS Integers, Sequences, FiniteSets

CONSTANTS
  Clients,      \* threads of the service
  Users,        \* user ids
  Known,        \* users that Tuandai knows from the start
  Unames,       \* the Uname Tuandai has for each user, a nickname or NoName
  Profiles,     \* what Tuandai answers of a user in each version of the account
  RegisterNick, \* the nickname a registration asks for
  OtherNicks,   \* choices of the nicknames the users outside the instance have
  Randoms,      \* numbers a Random may draw
  Days, MaxUserCalls   \* bounds on the days and the calls

\* A nickname is a name with the suffixes "_n" appended to it, the name with
\* the number createNickName draws, or a random one.
NoName == [base |-> ""]
Named(b, s) == [base |-> b, suffixes |-> s]
Numbered(d, n) == [base |-> "niiwoo", day |-> d, number |-> n]
RandomNick == [base |-> "random"]

\* A numbered nickname is only ever one that createNickName drew.
IsNumber(nick) == "number" \in DOMAIN nick

ASSUME UserAssumption ==
  /\ IsFiniteSet(Users) /\ Days \in Nat \ {0} /\ MaxUserCalls \in Nat
  /\ ~IsNumber(RegisterNick) /\ \A u \in Users : ~IsNumber(Unames[u])
  /\ \A nicks \in OtherNicks : \A nick \in nicks : ~IsNumber(nick)

Contacts == {"mobile", "email"}
NoRow == [nick |-> NoName]

VARIABLES
  account,   \* the version of each user's account at Tuandai, 0 for none
  late,      \* registrations Tuandai has yet to handle, its caller gone
  row,       \* the committed row of each user, or NoRow
  others,    \* nicknames of the users outside the instance
  counter,   \* Redis: the number of each day, or the empty string
  today,
  ucall,     \* the call each thread is in
  fired,     \* how often each event was fired for each user
  begun,     \* calls begun
  calm       \* numbers were drawn one after the other, no command threw, none was lost

userVars == <<account, late, row, others, counter, today, ucall, fired, begun, calm>>

EmptyString == -1
NotCalling == [step |-> "none"]
Events == {"login", "register"}

UserTypeOK ==
  /\ account \in [Users -> Nat] /\ late \subseteq Users
  /\ DOMAIN row = Users /\ others \in OtherNicks
  /\ counter \in [1..Days -> Nat \cup {EmptyString}] /\ today \in 1..Days
  /\ DOMAIN ucall = Clients /\ fired \in [Events -> [Users -> Nat]]
  /\ begun \in 0..MaxUserCalls /\ calm \in BOOLEAN

UserInit ==
  /\ account = [u \in Users |-> IF u \in Known THEN 1 ELSE 0]
  /\ late = {}
  /\ row = [u \in Users |-> NoRow]
  /\ others \in OtherNicks
  /\ counter = [d \in 1..Days |-> EmptyString]
  /\ today = 1
  /\ ucall = [c \in Clients |-> NotCalling]
  /\ fired = [e \in Events |-> [u \in Users |-> 0]]
  /\ begun = 0 /\ calm = TRUE

Nicks == others \cup {row[u].nick : u \in {v \in Users : row[v] # NoRow}}
AddedToday == Cardinality({u \in Users : row[u] # NoRow /\ row[u].added = today})
InCall(c, step) == ucall[c].step = step
GoTo(c, step) == ucall' = [ucall EXCEPT ![c].step = step]
\* The call ends: it answers with a RtnEnum, or throws.
End(c) == ucall' = [ucall EXCEPT ![c] = NotCalling]

-----------------------------------------------------------------------------
(* The calls, up to the answer of Tuandai.                                 *)

\* The beans, as far as the steps below tell them apart.  The parameter of a
\* call, what Tuandai answers of a user, and the User that a caller gets; only the
\* request of a login is asynchronous.
LoginRegisterDTO(op, u, p) == [op |-> op, user |-> u, pwd |-> p]
TuandaiResponse(contact, identity, full, typed) ==
  [contact |-> contact, identity |-> identity, full |-> full, typed |-> typed]
User(nick, contact, identity) == [nick |-> nick, contact |-> contact, identity |-> identity]
TuandaiRequest(dto) == [asyn |-> dto.op = "login"]

\* Calls that are under way together are marked as not alone.
BeginCall(c, dto) ==
  /\ InCall(c, "none") /\ begun < MaxUserCalls
  /\ LET Busy == {d \in Clients : ~InCall(d, "none")}
     IN ucall' = [d \in Clients |->
          IF d = c THEN [step |-> "post", op |-> dto.op, user |-> dto.user, pwd |-> dto.pwd,
                         asyn |-> TuandaiRequest(dto).asyn, version |-> 0, nick |-> NoName,
                         num |-> 0, day |-> 0, new |-> NoRow, alone |-> Busy = {}]
          ELSE IF d \in Busy THEN [ucall[d] EXCEPT !.alone = FALSE] ELSE ucall[d]]
  /\ begun' = begun + 1
  /\ UNCHANGED <<account, late, row, others, counter, today, fired, calm>>

\* userLogin and registerUser; a password stands for the version it belongs to.
userLogin(c, u, p) == BeginCall(c, LoginRegisterDTO("login", u, p))
registerUser(c, u) == BeginCall(c, LoginRegisterDTO("register", u, 1))

\* Whether Tuandai accepts the request, and what it does when it does.
Accepts(op, u, p) == IF op = "login" THEN account[u] = p ELSE account[u] = 0
Served(op, u) == IF op = "login" THEN account ELSE [account EXCEPT ![u] = 1]

\* Tuandai's answer arrives: success, or a refusal (FAILURE), or its code for
\* an exception (EXCEPTION in a login), or a text that does not parse (it throws).
\* A blank name or password has no request built: the call throws, too.
PostAnswered(c) ==
  /\ InCall(c, "post")
  /\ LET k == ucall[c] IN
     \/ /\ Accepts(k.op, k.user, k.pwd)
        /\ account' = Served(k.op, k.user)
        /\ ucall' = [ucall EXCEPT
             ![c].step = IF k.op = "login" THEN "lookup" ELSE "insert",
             ![c].nick = IF k.op = "login" THEN NoName ELSE RegisterNick,
             ![c].version = account'[k.user]]
     \/ End(c) /\ UNCHANGED account
  /\ UNCHANGED <<late, row, others, counter, today, fired, begun, calm>>

\* post: the answer to a login has not come after 5 seconds (FAILURE).
PostTimedOut(c) ==
  /\ InCall(c, "post") /\ ucall[c].asyn
  /\ End(c)
  /\ UNCHANGED <<account, late, row, others, counter, today, fired, begun, calm>>

\* sendPostHttp: no connection, another status, a socket that times out; the
\* exception is swallowed and the answer empty (FAILURE).  Tuandai may have
\* handled the request, or may still do so.
sendPostHttpFails(c) ==
  /\ InCall(c, "post")
  /\ LET k == ucall[c] IN
     \/ UNCHANGED <<account, late>>
     \/ /\ k.op = "register" /\ Accepts(k.op, k.user, k.pwd)
        /\ \/ account' = Served(k.op, k.user) /\ UNCHANGED late
           \/ late' = late \cup {k.user} /\ UNCHANGED account
  /\ End(c)
  /\ UNCHANGED <<row, others, counter, today, fired, begun, calm>>

LateRegistration(u) ==
  /\ u \in late /\ late' = late \ {u}
  /\ account' = IF account[u] = 0 THEN Served("register", u) ELSE account
  /\ UNCHANGED <<row, others, counter, today, ucall, fired, begun, calm>>

\* The user changes the account at Tuandai, password included.
ChangeAccount(u) ==
  /\ account[u] \in 1..(Len(Profiles[u]) - 1)
  /\ account' = [account EXCEPT ![u] = @ + 1]
  /\ UNCHANGED <<late, row, others, counter, today, ucall, fired, begun, calm>>

-----------------------------------------------------------------------------
(* userSync of a user that has a row.                                      *)

\* What the login changes in the row it read, and the row that it returns; it
\* is saved if one of the compared fields changed (isChange).
NewIdentity(r, p) == p.identity # "" /\ p.identity # r.identity /\ p.full
Synced(r, p, pwd) ==
  LET contact  == [f \in Contacts |-> IF p.contact[f] # "" THEN p.contact[f] ELSE r.contact[f]]
      identity == IF NewIdentity(r, p) THEN p.identity ELSE r.identity
  IN [r EXCEPT !.contact = contact, !.identity = identity, !.pwd = pwd,
               !.valid = @ \cup {f \in Contacts : contact[f] # ""}
                           \cup (IF identity # "" THEN {"identity"} ELSE {})]
\* Slip: a changed password alone is not saved.
isChangeSlip(r, p, pwd) ==
  NewIdentity(r, p) \/ Synced(r, p, pwd).contact # r.contact
isChange(r, p, pwd) ==
  NewIdentity(r, p) \/ r.pwd # pwd \/ Synced(r, p, pwd).contact # r.contact

lookup(c) ==
  /\ InCall(c, "lookup")
  /\ LET u == ucall[c].user
         p == Profiles[u][ucall[c].version]
     IN ucall' = [ucall EXCEPT
          ![c].nick = Unames[u],
          ![c].new  = IF row[u] = NoRow THEN NoRow ELSE Synced(row[u], p, ucall[c].pwd),
          ![c].step = IF row[u] = NoRow
                      THEN IF Unames[u] = NoName THEN "get" ELSE "check"
                      ELSE IF isChange(row[u], p, ucall[c].pwd) THEN "update" ELSE "fire"]
  /\ UNCHANGED <<account, late, row, others, counter, today, fired, begun, calm>>

updateUserBasicInfo(c) ==
  /\ InCall(c, "update")
  /\ row' = [row EXCEPT ![ucall[c].user] = ucall[c].new]
  /\ GoTo(c, "fire")
  /\ UNCHANGED <<account, late, others, counter, today, fired, begun, calm>>

-----------------------------------------------------------------------------
(* The nickname of a user that a login creates.                            *)

\* The candidate after the num-th is taken: the suffix "_num" becomes "_num+1",
\* a name without it gets one.
NextNick(nick, num) ==
  LET s == nick.suffixes
      Stem == IF s # <<>> /\ s[Len(s)] = num THEN SubSeq(s, 1, Len(s) - 1) ELSE s
  IN Named(nick.base, Append(Stem, num + 1))

\* getNickName: four candidates, then a random nickname.
getNickName(c) ==
  /\ InCall(c, "check")
  /\ LET k == ucall[c]
     IN ucall' = [ucall EXCEPT ![c] =
          IF k.nick \notin Nicks THEN [k EXCEPT !.step = "insert"]
          ELSE IF k.num >= 3 THEN [k EXCEPT !.step = "insert", !.nick = RandomNick]
          ELSE [k EXCEPT !.nick = NextNick(k.nick, k.num), !.num = @ + 1]]
  /\ UNCHANGED <<account, late, row, others, counter, today, fired, begun, calm>>

\* createNickName: the day's number in Redis, set from the rows of the day if it
\* is not there, then incremented and read again.
Drawing == {c \in Clients : ucall[c].step \in {"count", "set", "incr", "reget"}}
NumberIs(c, n, d) ==
  ucall' = [ucall EXCEPT ![c].step = "insert", ![c].nick = Numbered(today, n), ![c].day = d]

getNumber(c) ==
  /\ InCall(c, "get")
  /\ ucall' = [ucall EXCEPT ![c].day = today,
                            ![c].step = IF counter[today] = EmptyString THEN "count" ELSE "incr"]
  /\ calm' = (calm /\ Drawing = {})
  /\ UNCHANGED <<account, late, row, others, counter, today, fired, begun>>

queryTodayAddUserNumber(c) ==
  /\ InCall(c, "count")
  /\ ucall' = [ucall EXCEPT ![c].num = AddedToday, ![c].step = "set"]
  /\ UNCHANGED <<account, late, row, others, counter, today, fired, begun, calm>>

setNumber(c) ==
  /\ InCall(c, "set")
  /\ counter' = [counter EXCEPT ![ucall[c].day] = ucall[c].num]
  /\ GoTo(c, "incr")
  /\ UNCHANGED <<account, late, row, others, today, fired, begun, calm>>

\* Slip: the number is read, not incremented.
incrementSlip(c) ==
  /\ InCall(c, "incr") /\ GoTo(c, "reget")
  /\ UNCHANGED <<account, late, row, others, counter, today, fired, begun, calm>>
increment(c) ==
  /\ InCall(c, "incr")
  /\ counter' = [counter EXCEPT ![ucall[c].day] = IF @ = EmptyString THEN 1 ELSE @ + 1]
  /\ GoTo(c, "reget")
  /\ UNCHANGED <<account, late, row, others, today, fired, begun, calm>>

regetNumber(c) ==
  /\ InCall(c, "reget")
  /\ LET n == counter[ucall[c].day]
     IN NumberIs(c, IF n = EmptyString THEN 1000 ELSE n, ucall[c].day)
  /\ UNCHANGED <<account, late, row, others, counter, today, fired, begun, calm>>

\* A command in createNickName throws: a random number.
NumberThrows(c) ==
  /\ c \in Drawing \/ InCall(c, "get")
  /\ \E n \in Randoms : NumberIs(c, n, 0)
  /\ calm' = FALSE
  /\ UNCHANGED <<account, late, row, others, counter, today, fired, begun>>

\* Redis loses the key of the day.
LoseNumber ==
  /\ counter[today] # EmptyString
  /\ counter' = [counter EXCEPT ![today] = EmptyString]
  /\ calm' = (calm /\ Drawing = {} /\ counter[today] <= AddedToday)
  /\ UNCHANGED <<account, late, row, others, today, ucall, fired, begun>>

Midnight ==
  /\ today < Days /\ today' = today + 1
  /\ calm' = (calm /\ Drawing = {})
  /\ UNCHANGED <<account, late, row, others, counter, ucall, fired, begun>>

-----------------------------------------------------------------------------
(* The row and the tables initialised with it (addUser), and the event.    *)

Creates(c) == ucall[c].step = "insert" /\ ucall[c].op = "login"
\* What userSync and the public addUser put into a new row, and what the
\* private addUser makes of it: an identity card of 15 or 18 characters is valid.
LoginRow(k) == [contact |-> Profiles[k.user][k.version].contact,
                identity |-> Profiles[k.user][k.version].identity]
RegisterRow(k) == [contact |-> Profiles[k.user][k.version].contact, identity |-> ""]
NewRow(k) ==
  LET r == IF k.op = "login" THEN LoginRow(k) ELSE RegisterRow(k)
  IN [nick |-> k.nick, pwd |-> k.pwd, contact |-> r.contact, identity |-> r.identity, added |-> today,
      valid |-> {f \in Contacts : r.contact[f] # ""}
                  \cup (IF r.identity = "card" THEN {"identity"} ELSE {})]

\* The key of the row is the user id: a second insert fails.  A login's user
\* type is parsed on the way.  Five more tables get their rows in the transaction.
addUser(c) ==
  /\ InCall(c, "insert")
  /\ LET k == ucall[c] IN
     IF row[k.user] # NoRow \/ (k.op = "login" /\ ~Profiles[k.user][k.version].typed)
     THEN End(c) /\ UNCHANGED row
     ELSE /\ row' = [row EXCEPT ![k.user] = NewRow(k)]
          /\ ucall' = [ucall EXCEPT ![c].step = "fire", ![c].new = NewRow(k)]
  /\ UNCHANGED <<account, late, others, counter, today, fired, begun, calm>>

\* Slip: the failure is logged and the call goes on.
StorageThrowsSlip(c) ==
  /\ ucall[c].step \in {"lookup", "check", "insert", "update"}
  /\ GoTo(c, "fire")
  /\ UNCHANGED <<account, late, row, others, counter, today, fired, begun, calm>>
\* A command to the database throws: the transaction is rolled back.
StorageThrows(c) ==
  /\ ucall[c].step \in {"lookup", "check", "insert", "update"}
  /\ End(c)
  /\ UNCHANGED <<account, late, row, others, counter, today, fired, begun, calm>>

convert(r) == User(r.nick, r.contact, r.identity)

\* fireLoginSuccEvent, fireRegisterSuccEvent; multicastEvent catches what a
\* listener throws.
fireSuccEvent(c) ==
  /\ InCall(c, "fire")
  /\ fired' = [fired EXCEPT ![ucall[c].op][ucall[c].user] = @ + 1]
  /\ End(c)
  /\ UNCHANGED <<account, late, row, others, counter, today, begun, calm>>

UserStep(c) ==
  \/ PostAnswered(c) \/ PostTimedOut(c) \/ sendPostHttpFails(c)
  \/ lookup(c) \/ updateUserBasicInfo(c)
  \/ getNickName(c) \/ getNumber(c) \/ queryTodayAddUserNumber(c) \/ setNumber(c)
  \/ increment(c) \/ regetNumber(c) \/ NumberThrows(c)
  \/ addUser(c) \/ StorageThrows(c) \/ fireSuccEvent(c)

UserNext ==
  \/ \E c \in Clients :
       \/ \E u \in Users : \/ registerUser(c, u)
                           \/ \E p \in 1..Len(Profiles[u]) : userLogin(c, u, p)
       \/ UserStep(c)
  \/ \E u \in Users : LateRegistration(u) \/ ChangeAccount(u)
  \/ LoseNumber \/ Midnight

UserSpec == UserInit /\ [][UserNext]_userVars

-----------------------------------------------------------------------------
(* Properties.                                                             *)

\* The variables have their types.
\* The nickname a login is about to insert is free: one made of the user's name
\* if no other call overlapped, and a number that came from Redis if, in all calls
\* so far, numbers were drawn one after the other, each within a day, no command
\* of createNickName threw (the random number taken then may be one that is drawn
\* later) and Redis did not lose the key after a number was drawn in vain.  An
\* insert that fails, a reset of the key and other users' rows do not make a
\* number come back.  (Names that users bring have another form: UserAssumption.)
NickIsFree ==
  /\ UserTypeOK
  /\ \A c \in Clients :
       Creates(c) /\ (\/ "suffixes" \in DOMAIN ucall[c].nick /\ ucall[c].alone
                      \/ "number" \in DOMAIN ucall[c].nick /\ ucall[c].day # 0 /\ calm)
         => ucall[c].nick \notin Nicks

\* Before a login or a registration answers SUCCESS the row of the user is there.
\* If no other call overlapped, the row has the password used and each contact
\* Tuandai told, and but for the flags it is what the call answers.  In every row
\* the flag of a contact is up exactly if the row has that contact, and that of
\* the identity card only if it has one.
LoginSyncs ==
  /\ \A c \in Clients : InCall(c, "fire") =>
       LET k == ucall[c]
           p == Profiles[k.user][k.version]
       IN /\ row[k.user] # NoRow
          /\ k.alone => /\ row[k.user].pwd = k.pwd
                        /\ \A f \in Contacts : p.contact[f] # "" => row[k.user].contact[f] = p.contact[f]
                        /\ convert(row[k.user]) = convert(k.new)
  /\ \A u \in Users : row[u] # NoRow =>
       /\ row[u].valid \cap Contacts = {f \in Contacts : row[u].contact[f] # ""}
       /\ "identity" \in row[u].valid => row[u].identity # ""

\* An event is about a user that Tuandai knows and whose row is committed, and a
\* user is announced as registered at most once, whatever is lost, late or
\* retried.
RegisteredOnce ==
  \A u \in Users : /\ fired["register"][u] <= 1
                   /\ \A e \in Events : fired[e][u] > 0 => row[u] # NoRow /\ account[u] > 0
=============================================================================
