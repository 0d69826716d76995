--------------------------- MODULE AccountsProofs ---------------------------
(***************************************************************************)
(* What holds of Accounts for every set of handlers, addresses, passwords  *)
(* and sign-ups.                                                           *)
(*                                                                         *)
(* A handler depends on the tables only through what can no longer be      *)
(* undone: a user, its address and the request that made it, a role row    *)
(* (with its user or without), a visit, an activation.  So a step of one   *)
(* handler breaks nothing of another (OthersKeepTypes), and each step has  *)
(* to be looked at only for the handler that takes it.                     *)
(***************************************************************************)
EXTENDS Accounts, SequenceTheorems, FiniteSetTheorems, TLAPS

IsPerHandler(f) == f = [h \in Handlers |-> f[h]]

Functions ==
    /\ IsPerHandler(request) /\ IsPerHandler(entity)
    /\ IsPerHandler(change) /\ IsPerHandler(pending)
    /\ pc \in [Handlers -> {"idle"} \cup Steps]
    /\ answer \in [Handlers -> Answers \cup {NoValue}]

MadeRequests   == SignUpRequests \cup SocialRequest
VerifyLinks    == [op: {"verify"}, user: Ids]
SavingRequests == SocialRequest \cup SignInRequest \cup ResetRequest \cup VerifyLinks

RowsOf(id) == {row \in roles \cup orphans : row[1] = id}

Tables ==
    /\ users \in Seq(User)
    /\ oauths \in Seq(Nat)
    /\ asked \in Seq(MadeRequests)
    /\ Len(oauths) = Len(users) /\ Len(asked) = Len(users)
    /\ roles \subseteq Ids \X Roles /\ orphans \subseteq Ids \X Roles
    /\ codes \subseteq Ids /\ visited \subseteq Ids /\ activated \subseteq Ids
    /\ mails \subseteq [kind: {"verify", "reset"}, user: Ids]

\* The request that a step belongs to.
RequestOK(h) ==
    /\ (pc[h] = "idle") <=> (request[h] = NoValue)
    /\ pc[h] \in {"findEmail", "insertUser", "children"} => request[h] \in MadeRequests
    /\ pc[h] \in {"findLinked", "link"} => request[h] \in SocialRequest
    /\ pc[h] \in {"findUser", "compare"} => request[h] \in SignInRequest
    /\ pc[h] = "findForgotten" => request[h] \in ForgotRequest
    /\ pc[h] = "findAccount" => request[h] \in ResetRequest
    /\ pc[h] \in {"findCode", "deleteCode"} => request[h] \in VerifyLinks
    /\ pc[h] \in {"diff", "write"} => request[h] \in SavingRequests

\* The entity that a step works on.
EntityOK(h) ==
    pc[h] \in {"children", "link", "compare", "diff", "write", "deleteCode"} =>
        /\ entity[h].id \in Ids
        /\ entity[h].roles \subseteq RowsOf(entity[h].id)
        /\ ColumnsOK(entity[h].columns)
        /\ pc[h] \in {"children", "link"} => users[entity[h].id].email = request[h].email
        /\ pc[h] \in {"diff", "write"} /\ request[h].op = "verify" => entity[h].id = request[h].user

\* What a save writes: columns of the table, and rows that there are.
ChangeOK(h) ==
    pc[h] = "write" =>
        /\ ColumnsOK(change[h].columns)
        /\ change[h].link \cup change[h].unlink \subseteq RowsOf(entity[h].id)

\* The inserts that are still to come are those of the request.
CreatorOK(h) ==
    pc[h] = "children" =>
        /\ asked[entity[h].id] = request[h]
        /\ pending[h] \subseteq Inserts(request[h])

HandlerOK(h) == RequestOK(h) /\ EntityOK(h) /\ ChangeOK(h) /\ CreatorOK(h)

\* No two requests insert the roles of one user, and none inserts a role twice.
RolesAreOnce ==
    /\ \A g, h \in Handlers :
         pc[g] = "children" /\ pc[h] = "children" /\ entity[g].id = entity[h].id => g = h
    /\ \A h \in Handlers :
         pc[h] = "children" =>
             \A role \in pending[h] \cap Roles : <<entity[h].id, role>> \notin roles \cup orphans
    /\ roles \cap orphans = {}

Types == Functions /\ Tables /\ (\A h \in Handlers : HandlerOK(h)) /\ RolesAreOnce

LEMMA TypesImplyTypeOK == Types => TypeOK
<1> SUFFICES ASSUME Types
             PROVE  TypeOK
  OBVIOUS
<1> USE DEF Types, Tables, Functions
<1>1. ASSUME NEW h \in Handlers
      PROVE  /\ pc[h] = "idle" <=> request[h] = NoValue
             /\ pc[h] = "children" => pending[h] \subseteq Roles \cup {"code", "oauth"}
             /\ pc[h] \in {"children", "link", "compare", "diff", "write", "deleteCode"} =>
                  /\ entity[h].id \in Ids
                  /\ entity[h].roles \subseteq RolesOf(entity[h].id) \cup orphans
                  /\ ColumnsOK(entity[h].columns)
             /\ pc[h] = "write" => ColumnsOK(change[h].columns)
  <2>1. HandlerOK(h)
    OBVIOUS
  <2>2. pc[h] = "children" => pending[h] \subseteq Roles \cup {"code", "oauth"}
    <3>1. \A r \in MadeRequests : Inserts(r) \subseteq Roles \cup {"code", "oauth"}
      BY AccountsAssumption DEF MadeRequests, Inserts, SignUpRequest, SocialRequest, Roles
    <3>2. QED
      BY <2>1, <3>1 DEF HandlerOK, RequestOK, CreatorOK
  <2>3. QED
    BY <2>1, <2>2 DEF HandlerOK, RequestOK, EntityOK, ChangeOK, RowsOf, RolesOf
<1>2. roles \cap orphans = {}
  BY DEF RolesAreOnce
<1>3. QED
  BY <1>1, <1>2 DEF TypeOK

LEMMA TypesInit == Init => Types
<1> SUFFICES ASSUME Init
             PROVE  Types
  OBVIOUS
<1> USE DEF Init
<1>1. Functions
  BY DEF Functions, IsPerHandler
<1>2. Tables
  BY DEF Tables, Ids
<1>3. \A h \in Handlers : HandlerOK(h)
  BY DEF HandlerOK, RequestOK, EntityOK, ChangeOK, CreatorOK
<1>4. RolesAreOnce
  BY DEF RolesAreOnce
<1>5. QED
  BY <1>1, <1>2, <1>3, <1>4 DEF Types

----------------------------------------------------------------------------
(***************************************************************************)
(* What a step of one handler leaves of the others.                        *)
(***************************************************************************)
Grown ==
    /\ Ids \subseteq Ids'
    /\ \A id \in Ids : users'[id].email = users[id].email /\ asked'[id] = asked[id]
    /\ roles \cup orphans \subseteq roles' \cup orphans'

Same(g) ==
    /\ pc'[g] = pc[g] /\ request'[g] = request[g] /\ entity'[g] = entity[g]
    /\ change'[g] = change[g] /\ pending'[g] = pending[g] /\ answer'[g] = answer[g]

LEMMA OthersKeepTypes ==
  ASSUME NEW g, HandlerOK(g), Grown, Same(g)
  PROVE  HandlerOK(g)'
<1>1. RequestOK(g)'
  BY DEF HandlerOK, RequestOK, Grown, Same, SavingRequests, VerifyLinks
<1>2. \A id \in Ids : RowsOf(id) \subseteq RowsOf(id)'
  BY DEF Grown, RowsOf
<1>3. EntityOK(g)'
  BY <1>2 DEF HandlerOK, EntityOK, Grown, Same
<1>4. ChangeOK(g)'
  BY <1>2 DEF HandlerOK, EntityOK, ChangeOK, Grown, Same
<1>5. CreatorOK(g)'
  BY DEF HandlerOK, EntityOK, CreatorOK, Grown, Same
<1>6. QED
  BY <1>1, <1>3, <1>4, <1>5 DEF HandlerOK

\* The role rows stay, and nobody else inserts any.
NoNewCreator ==
    \A g \in Handlers :
       pc'[g] = "children" =>
           pc[g] = "children" /\ entity'[g] = entity[g] /\ pending'[g] \subseteq pending[g]

LEMMA RolesStayOnce ==
  ASSUME RolesAreOnce, NoNewCreator, roles' \cup orphans' = roles \cup orphans,
         roles' \cap orphans' = {}
  PROVE  RolesAreOnce'
BY DEF RolesAreOnce, NoNewCreator

\* The two ways in which a handler goes on.
LEMMA ContinueFrame ==
  ASSUME Functions, NEW h \in Handlers, NEW step \in Steps, NEW e, NEW a \in Answers \cup {NoValue},
         Continue(h, step, e, a)
  PROVE  /\ Functions'
         /\ \A g \in Handlers : g # h => Same(g)
         /\ pc'[h] = step /\ entity'[h] = e /\ answer'[h] = a
         /\ request'[h] = request[h] /\ change'[h] = change[h] /\ pending'[h] = pending[h]
BY DEF Functions, Continue, IsPerHandler, Same

LEMMA EndFrame ==
  ASSUME Functions, NEW h \in Handlers, NEW a \in Answers \cup {NoValue}, End(h, a)
  PROVE  /\ Functions'
         /\ \A g \in Handlers : g # h => Same(g)
         /\ pc'[h] = "idle" /\ request'[h] = NoValue /\ answer'[h] = a
BY DEF Functions, End, IsPerHandler, Same

LEMMA ReceiveFrame ==
  ASSUME Functions, NEW h \in Handlers, NEW step \in Steps, NEW r, Receive(h, step, r)
  PROVE  /\ Functions'
         /\ \A g \in Handlers : g # h => Same(g)
         /\ pc'[h] = step /\ request'[h] = r
         /\ UNCHANGED <<tables, mails, entity, change, pending, history>>
BY DEF Functions, Receive, IsPerHandler, Same

\* The tables stay, and the handler h takes a step that begins no insert.
LEMMA QuietStep ==
  ASSUME Types, NEW h \in Handlers, Functions', \A g \in Handlers : g # h => Same(g),
         UNCHANGED tables, UNCHANGED asked, UNCHANGED activated,
         mails' \subseteq [kind: {"verify", "reset"}, user: Ids], visited' \subseteq Ids,
         pc'[h] = "children" =>
             pc[h] = "children" /\ entity'[h] = entity[h] /\ pending'[h] \subseteq pending[h],
         HandlerOK(h)'
  PROVE  Types'
<1>1. Grown
  BY DEF Grown, tables, Ids
<1>2. \A g \in Handlers : HandlerOK(g)'
  BY <1>1, OthersKeepTypes DEF Types
<1>3. Tables'
  BY DEF Types, Tables, tables, Ids
<1>4. NoNewCreator
  BY DEF NoNewCreator, Same
<1>5. RolesAreOnce'
  BY <1>4, RolesStayOnce DEF Types, tables, RolesAreOnce
<1>6. QED
  BY <1>2, <1>3, <1>5 DEF Types

\* A handler that has ended is in order.
LEMMA IdleIsOK ==
  ASSUME NEW h, pc'[h] = "idle", request'[h] = NoValue
  PROVE  HandlerOK(h)'
BY DEF HandlerOK, RequestOK, EntityOK, ChangeOK, CreatorOK

LEMMA EndTypes ==
  ASSUME Types, NEW h \in Handlers, NEW a \in Answers \cup {NoValue}, End(h, a),
         UNCHANGED <<tables, history>>, mails' \subseteq [kind: {"verify", "reset"}, user: Ids]
  PROVE  Types'
<1>1. /\ Functions' /\ \A g \in Handlers : g # h => Same(g)
      /\ pc'[h] = "idle" /\ request'[h] = NoValue
  BY EndFrame DEF Types
<1>2. HandlerOK(h)'
  BY <1>1, IdleIsOK
<1>3. visited' \subseteq Ids
  BY DEF Types, Tables, history
<1>4. QED
  BY <1>1, <1>2, <1>3, QuietStep DEF history

LEMMA ReceiveTypes ==
  ASSUME Types, NEW h \in Handlers, NEW step \in Steps, NEW r, Receive(h, step, r),
         \/ step = "findEmail" /\ r \in SignUpRequests
         \/ step = "findLinked" /\ r \in SocialRequest
         \/ step = "findUser" /\ r \in SignInRequest
         \/ step = "findForgotten" /\ r \in ForgotRequest
         \/ step = "findAccount" /\ r \in ResetRequest
         \/ step = "findCode" /\ r \in VerifyLinks
  PROVE  Types'
<1>1. /\ Functions' /\ \A g \in Handlers : g # h => Same(g)
      /\ pc'[h] = step /\ request'[h] = r
      /\ UNCHANGED <<tables, mails, history>>
  BY ReceiveFrame DEF Types
<1>2. Ids \subseteq Nat
  BY LenProperties DEF Types, Tables, Ids
<1>3. r # NoValue /\ step # "idle"
  BY <1>2, AccountsAssumption DEF Steps, VerifyLinks, VerifyRequest
<1>4. RequestOK(h)'
  BY <1>1, <1>3 DEF RequestOK, MadeRequests, VerifyLinks, tables, Ids
<1>5. EntityOK(h)' /\ ChangeOK(h)' /\ CreatorOK(h)'
  BY <1>1 DEF EntityOK, ChangeOK, CreatorOK
<1>6. /\ mails' \subseteq [kind: {"verify", "reset"}, user: Ids] /\ visited' \subseteq Ids
      /\ pc'[h] # "children"
  BY <1>1 DEF Types, Tables, history
<1>7. QED
  BY <1>1, <1>4, <1>5, <1>6, QuietStep DEF HandlerOK, history

LEMMA ContinueTypes ==
  ASSUME Types, NEW h \in Handlers, NEW step \in Steps, NEW e, NEW a \in Answers \cup {NoValue},
         Continue(h, step, e, a), pc[h] # "idle",
         UNCHANGED <<tables, mails, asked, activated>>, visited' \subseteq Ids,
         step \notin {"children", "write"}, RequestOK(h)',
         step \in {"link", "compare", "diff", "deleteCode"} =>
             /\ e.id \in Ids /\ e.roles \subseteq RowsOf(e.id) /\ ColumnsOK(e.columns)
             /\ step = "link" => users[e.id].email = request[h].email
             /\ step = "diff" /\ request[h].op = "verify" => e.id = request[h].user
  PROVE  Types'
<1>1. /\ Functions' /\ \A g \in Handlers : g # h => Same(g)
      /\ pc'[h] = step /\ entity'[h] = e /\ request'[h] = request[h]
  BY ContinueFrame DEF Types
<1>2. EntityOK(h)'
  BY <1>1 DEF EntityOK, RowsOf, tables, Ids
<1>3. ChangeOK(h)' /\ CreatorOK(h)'
  BY <1>1 DEF ChangeOK, CreatorOK
<1>4. mails' \subseteq [kind: {"verify", "reset"}, user: Ids]
  BY DEF Types, Tables
<1>5. QED
  BY <1>1, <1>2, <1>3, <1>4, QuietStep DEF HandlerOK

----------------------------------------------------------------------------
(***************************************************************************)
(* Types: the rows that are found and the entities that are made of them.  *)
(***************************************************************************)
LEMMA RowExists ==
  ASSUME NEW email, Exists(email)
  PROVE  Row(email) \in Ids /\ users[Row(email)].email = email
BY DEF Exists, Row, Matching

LEMMA LoadedIsOK ==
  ASSUME Tables, NEW id \in Ids
  PROVE  /\ Loaded(id).id = id /\ Loaded(id).roles = RolesOf(id)
         /\ Loaded(id).columns = [password |-> users[id].password, verified |-> users[id].verified]
         /\ RolesOf(id) \subseteq RowsOf(id)
         /\ ColumnsOK(Loaded(id).columns)
<1>1. users[id] \in User
  BY ElementOfSeq, LenProperties DEF Tables, Ids
<1>2. QED
  BY <1>1 DEF Loaded, RolesOf, RowsOf, ColumnsOK, Column, User

LEMMA EmailsAreEmails ==
  ASSUME Tables, NEW id \in Ids
  PROVE  users[id].email \in Emails
<1>1. users[id] \in User
  BY ElementOfSeq, LenProperties DEF Tables, Ids
<1>2. QED
  BY <1>1 DEF User

----------------------------------------------------------------------------
(***************************************************************************)
(* Types: the steps, in the order of the module.                           *)
(***************************************************************************)
LEMMA ReceiveAnyTypes ==
  ASSUME Types, NEW h \in Handlers, ReceiveAny(h)
  PROVE  Types'
<1>1. CASE ReceiveSignUp(h)
  BY <1>1, ReceiveTypes DEF ReceiveSignUp, Steps
<1>2. CASE ReceiveSocial(h)
  BY <1>2, ReceiveTypes DEF ReceiveSocial, Steps, SocialRequest
<1>3. CASE ReceiveSignIn(h)
  BY <1>3, ReceiveTypes DEF ReceiveSignIn, Steps
<1>4. CASE ReceiveForgot(h)
  BY <1>4, ReceiveTypes DEF ReceiveForgot, Steps, ForgotRequest
<1>5. CASE ReceiveReset(h)
  <2>1. PICK mail \in mails, password \in Passwords :
          Receive(h, "findAccount",
                  [op |-> "reset", email |-> users[mail.user].email, password |-> password])
    BY <1>5 DEF ReceiveReset
  <2>2. users[mail.user].email \in Emails
    BY EmailsAreEmails DEF Types, Tables
  <2>3. QED
    BY <2>1, <2>2, ReceiveTypes DEF Steps, ResetRequest
<1>6. CASE ReceiveVerify(h)
  <2>1. PICK mail \in mails : Receive(h, "findCode", [op |-> "verify", user |-> mail.user])
    BY <1>6 DEF ReceiveVerify
  <2>2. mail.user \in Ids
    BY DEF Types, Tables
  <2>3. QED
    BY <2>1, <2>2, ReceiveTypes DEF Steps, VerifyLinks
<1>7. QED
  BY <1>1, <1>2, <1>3, <1>4, <1>5, <1>6 DEF ReceiveAny

LEMMA FindLinkedTypes ==
  ASSUME Types, NEW h \in Handlers, FindLinked(h)
  PROVE  Types'
<1>1. /\ pc[h] = "findLinked" /\ request[h] \in SocialRequest /\ request[h] # NoValue
      /\ UNCHANGED <<tables, mails, history>> /\ visited' \subseteq Ids /\ Tables
  BY DEF FindLinked, Types, HandlerOK, RequestOK, Tables, history
<1>2. ASSUME NEW id \in Matching(request[h].email), Continue(h, "diff", Loaded(id), "signedIn")
      PROVE  Types'
  <2>1. id \in Ids
    BY DEF Matching
  <2>2. RequestOK(h)'
    BY <1>1, <1>2, ContinueFrame DEF RequestOK, SavingRequests, Types, Steps, Answers
  <2>3. /\ Loaded(id).id \in Ids /\ Loaded(id).roles \subseteq RowsOf(Loaded(id).id)
        /\ ColumnsOK(Loaded(id).columns)
    BY <1>1, <2>1, LoadedIsOK
  <2>4. request[h].op # "verify"
    BY <1>1 DEF SocialRequest
  <2>5. QED
    BY <1>1, <1>2, <2>2, <2>3, <2>4, ContinueTypes DEF Steps, Answers, history
<1>3. ASSUME Continue(h, "findEmail", NoValue, NoValue)
      PROVE  Types'
  <2>1. RequestOK(h)'
    BY <1>1, <1>3, ContinueFrame DEF RequestOK, MadeRequests, Types, Steps
  <2>2. QED
    BY <1>1, <1>3, <2>1, ContinueTypes DEF Steps, history
<1>4. QED
  BY <1>2, <1>3 DEF FindLinked

LEMMA FindEmailTypes ==
  ASSUME Types, NEW h \in Handlers, FindEmail(h)
  PROVE  Types'
<1>1. /\ pc[h] = "findEmail" /\ request[h] \in MadeRequests /\ request[h] # NoValue
      /\ UNCHANGED <<tables, mails, history>> /\ visited' \subseteq Ids
      /\ mails' \subseteq [kind: {"verify", "reset"}, user: Ids]
  BY DEF FindEmail, Types, HandlerOK, RequestOK, Tables, history
<1>2. CASE Continue(h, "insertUser", NoValue, NoValue)
  <2>1. RequestOK(h)'
    BY <1>1, <1>2, ContinueFrame DEF RequestOK, Types, MadeRequests, Steps
  <2>2. QED
    BY <1>1, <1>2, <2>1, ContinueTypes DEF Steps, history
<1>3. CASE End(h, "serverError")
  BY <1>1, <1>3, EndTypes DEF Answers
<1>4. ASSUME Exists(request[h].email), request[h].op = "social",
             Continue(h, "link", OnlyId(Row(request[h].email)), NoValue)
      PROVE  Types'
  <2> DEFINE id == Row(request[h].email)
  <2>1. id \in Ids /\ users[id].email = request[h].email
    BY <1>4, RowExists
  <2>2. request[h] \in SocialRequest
    BY <1>1, <1>4, AccountsAssumption DEF MadeRequests, SignUpRequest
  <2>3. RequestOK(h)'
    BY <1>1, <1>4, <2>2, ContinueFrame DEF RequestOK, Types, MadeRequests, Steps
  <2>4. /\ OnlyId(id).id = id /\ OnlyId(id).roles \subseteq RowsOf(id)
        /\ ColumnsOK(OnlyId(id).columns)
    BY DEF OnlyId, RolesOf, RowsOf, ColumnsOK, Column
  <2> HIDE DEF id
  <2>5. QED
    BY <1>1, <1>4, <2>1, <2>3, <2>4, ContinueTypes DEF id, Steps, history
<1>5. QED
  BY <1>2, <1>3, <1>4 DEF FindEmail

\* The row of a user is added, with its number of links and its request.
LEMMA InsertedUser ==
  ASSUME Tables, NEW r \in MadeRequests, NEW row \in User,
         users' = Append(users, row), oauths' = Append(oauths, 0), asked' = Append(asked, r)
  PROVE  LET id == Len(users) + 1
         IN  /\ users' \in Seq(User) /\ oauths' \in Seq(Nat) /\ asked' \in Seq(MadeRequests)
             /\ Len(oauths') = Len(users') /\ Len(asked') = Len(users')
             /\ Ids' = Ids \cup {id} /\ id \notin Ids
             /\ \A i \in Ids : /\ users'[i] = users[i] /\ oauths'[i] = oauths[i]
                               /\ asked'[i] = asked[i]
             /\ users'[id] = row /\ oauths'[id] = 0 /\ asked'[id] = r
<1> USE DEF Tables, Ids
<1>1. /\ DOMAIN users = 1 .. Len(users) /\ Len(users) \in Nat
      /\ Len(oauths) = Len(users) /\ Len(asked) = Len(users)
  BY LenProperties
<1>2. /\ users' \in Seq(User) /\ Len(users') = Len(users) + 1
      /\ \A i \in 1 .. Len(users) : users'[i] = users[i]
      /\ users'[Len(users) + 1] = row
  BY AppendProperties
<1>3. /\ oauths' \in Seq(Nat) /\ Len(oauths') = Len(oauths) + 1
      /\ \A i \in 1 .. Len(oauths) : oauths'[i] = oauths[i]
      /\ oauths'[Len(oauths) + 1] = 0
  BY AppendProperties
<1>4. /\ asked' \in Seq(MadeRequests) /\ Len(asked') = Len(asked) + 1
      /\ \A i \in 1 .. Len(asked) : asked'[i] = asked[i]
      /\ asked'[Len(asked) + 1] = r
  BY AppendProperties
<1>5. DOMAIN users' = 1 .. Len(users')
  BY <1>2, LenProperties
<1>6. QED
  BY <1>1, <1>2, <1>3, <1>4, <1>5

LEMMA NewUserIsUser ==
  ASSUME NEW r \in MadeRequests
  PROVE  NewUser(r) \in User
BY AccountsAssumption DEF MadeRequests, SignUpRequest, SocialRequest, NewUser, User

LEMMA InsertUserTypes ==
  ASSUME Types, NEW h \in Handlers, InsertUser(h)
  PROVE  Types'
<1> DEFINE r == request[h]
<1>1. /\ pc[h] = "insertUser" /\ r \in MadeRequests /\ r # NoValue
      /\ UNCHANGED <<roles, orphans, codes, mails, visited, activated>> /\ Tables
  BY DEF InsertUser, Types, HandlerOK, RequestOK
<1>2. ASSUME users' = Append(users, NewUser(r)), oauths' = Append(oauths, 0),
             asked' = Append(asked, r), pc' = [pc EXCEPT ![h] = "children"],
             entity' = [entity EXCEPT ![h] =
                           [id |-> Len(users) + 1, roles |-> {}, columns |-> <<>>]],
             pending' = [pending EXCEPT ![h] = Inserts(r)],
             UNCHANGED <<request, change, answer>>
      PROVE  Types'
  <2> DEFINE id == Len(users) + 1
  <2>1. /\ users' \in Seq(User) /\ oauths' \in Seq(Nat) /\ asked' \in Seq(MadeRequests)
        /\ Len(oauths') = Len(users') /\ Len(asked') = Len(users')
        /\ Ids' = Ids \cup {id} /\ id \notin Ids
        /\ \A i \in Ids : users'[i] = users[i] /\ asked'[i] = asked[i]
        /\ users'[id] = NewUser(r) /\ asked'[id] = r
    BY <1>1, <1>2, InsertedUser, NewUserIsUser
  <2> HIDE DEF id
  <2>2. /\ Functions' /\ \A g \in Handlers : g # h => Same(g)
        /\ pc'[h] = "children" /\ entity'[h] = [id |-> id, roles |-> {}, columns |-> <<>>]
        /\ pending'[h] = Inserts(r) /\ request'[h] = r
    BY <1>2 DEF Types, Functions, IsPerHandler, Same, Steps, id
  <2>3. Tables'
    BY <1>1, <2>1 DEF Tables
  <2>4. Grown
    BY <1>1, <2>1 DEF Grown
  <2>5. HandlerOK(h)'
    <3>1. RequestOK(h)'
      BY <1>1, <2>2 DEF RequestOK, MadeRequests
    <3>2. EntityOK(h)'
      BY <2>1, <2>2 DEF EntityOK, ColumnsOK, Column, NewUser
    <3>3. ChangeOK(h)' /\ CreatorOK(h)'
      BY <2>1, <2>2 DEF ChangeOK, CreatorOK, Inserts
    <3>4. QED
      BY <3>1, <3>2, <3>3 DEF HandlerOK
  <2>6. \A g \in Handlers : HandlerOK(g)'
    BY <2>2, <2>4, <2>5, OthersKeepTypes DEF Types
  <2>7. \A row \in roles \cup orphans : row[1] # id
    BY <1>1, <2>1 DEF Tables
  <2>8. \A g \in Handlers : g # h /\ pc'[g] = "children" =>
              pc[g] = "children" /\ entity'[g] = entity[g] /\ pending'[g] = pending[g]
              /\ entity[g].id # id
    BY <2>1, <2>2 DEF Same, Types, HandlerOK, EntityOK
  <2>9. RolesAreOnce'
    BY <1>1, <2>2, <2>7, <2>8 DEF Types, RolesAreOnce
  <2>10. QED
    BY <2>2, <2>3, <2>6, <2>9 DEF Types
<1>3. ASSUME End(h, "databaseError"), UNCHANGED <<users, oauths, asked>>
      PROVE  Types'
  <2>1. mails' \subseteq [kind: {"verify", "reset"}, user: Ids]
    BY <1>1 DEF Tables
  <2>2. QED
    BY <1>1, <1>3, <2>1, EndTypes DEF Answers, tables, history
<1>4. QED
  BY <1>2, <1>3 DEF InsertUser

LEMMA InsertChildTypes ==
  ASSUME Types, NEW h \in Handlers, InsertChild(h)
  PROVE  Types'
<1> DEFINE id == entity[h].id
<1>1. PICK child \in pending[h] :
        /\ pending' = [pending EXCEPT ![h] = @ \ {child}]
        /\ roles' = roles \cup {<<id, role>> : role \in {child} \cap Roles}
        /\ codes' = codes \cup {i \in {id} : child = "code"}
        /\ oauths' = [oauths EXCEPT ![id] = @ + IF child = "oauth" THEN 1 ELSE 0]
  BY DEF InsertChild
<1>2. /\ pc[h] = "children" /\ Tables /\ id \in Ids /\ HandlerOK(h)
      /\ UNCHANGED <<users, orphans, mails, pc, request, entity, change, answer, history>>
  BY DEF InsertChild, Types, HandlerOK, EntityOK
<1> HIDE DEF id
<1>3. /\ Functions' /\ \A g \in Handlers : g # h => Same(g)
      /\ pending'[h] = pending[h] \ {child}
  BY <1>1, <1>2 DEF Types, Functions, IsPerHandler, Same
<1>4. oauths' \in Seq(Nat) /\ Len(oauths') = Len(oauths)
  <2>1. id \in 1 .. Len(oauths) /\ oauths[id] \in Nat
    BY <1>2, LenProperties, ElementOfSeq DEF Tables, Ids
  <2>2. oauths[id] + (IF child = "oauth" THEN 1 ELSE 0) \in Nat
    BY <2>1
  <2>3. QED
    BY <1>1, <1>2, <2>1, <2>2, ExceptSeq DEF Tables
<1>5. /\ roles' \subseteq Ids \X Roles /\ codes' \subseteq Ids /\ Ids' = Ids
      /\ UNCHANGED <<asked, visited, activated>>
  BY <1>1, <1>2 DEF Tables, Ids, history
<1>6. Tables'
  BY <1>2, <1>4, <1>5 DEF Tables
<1>7. Grown
  BY <1>1, <1>2, <1>5 DEF Grown
<1>8. HandlerOK(h)'
  <2>1. RequestOK(h)' /\ ChangeOK(h)'
    BY <1>2, <1>5 DEF HandlerOK, RequestOK, ChangeOK
  <2>2. EntityOK(h)'
    BY <1>1, <1>2, <1>5 DEF HandlerOK, EntityOK, RowsOf
  <2>3. CreatorOK(h)'
    BY <1>2, <1>3, <1>5 DEF HandlerOK, CreatorOK
  <2>4. QED
    BY <2>1, <2>2, <2>3 DEF HandlerOK
<1>9. \A g \in Handlers : HandlerOK(g)'
  BY <1>3, <1>7, <1>8, OthersKeepTypes DEF Types
<1>10. RolesAreOnce'
  <2>1. \A row \in roles' \ roles : row = <<id, child>> /\ child \in Roles
    BY <1>1
  <2>2. ASSUME NEW g \in Handlers, pc[g] = "children", NEW role \in pending'[g] \cap Roles
        PROVE  <<entity[g].id, role>> \notin roles' \cup orphans
    <3>1. <<entity[g].id, role>> \notin roles \cup orphans
      BY <1>3, <2>2 DEF Types, RolesAreOnce, Same
    <3>2. CASE g = h
      BY <1>3, <2>1, <3>1, <3>2
    <3>3. CASE g # h
      <4>1. entity[g].id # id
        BY <1>2, <2>2, <3>3 DEF Types, RolesAreOnce, id
      <4>2. QED
        BY <2>1, <3>1, <4>1
    <3>4. QED
      BY <3>2, <3>3
  <2>3. roles' \cap orphans = {}
    BY <1>2, <2>1 DEF Types, RolesAreOnce, id
  <2>4. QED
    BY <1>2, <2>2, <2>3 DEF Types, RolesAreOnce
<1>11. QED
  BY <1>3, <1>6, <1>9, <1>10 DEF Types

LEMMA ChildFailsTypes ==
  ASSUME Types, NEW h \in Handlers, ChildFails(h)
  PROVE  Types'
<1>1. PICK child \in pending[h] : pending' = [pending EXCEPT ![h] = @ \ {child}]
  BY DEF ChildFails
<1>2. /\ pc[h] = "children" /\ HandlerOK(h)
      /\ UNCHANGED <<tables, mails, pc, request, entity, change, history>>
  BY DEF ChildFails, Types
<1>3. Failure(h) \in Answers \cup {NoValue}
  BY DEF Failure, Answers, Types, Functions
<1>4. /\ Functions' /\ \A g \in Handlers : g # h => Same(g)
      /\ pending'[h] = pending[h] \ {child}
  BY <1>1, <1>2, <1>3 DEF ChildFails, Types, Functions, IsPerHandler, Same
<1>5. HandlerOK(h)'
  BY <1>2, <1>4 DEF HandlerOK, RequestOK, EntityOK, ChangeOK, CreatorOK, RowsOf, tables, Ids, history
<1>6. mails' \subseteq [kind: {"verify", "reset"}, user: Ids] /\ visited' \subseteq Ids
  BY <1>2 DEF Types, Tables, history
<1>7. QED
  BY <1>2, <1>4, <1>5, <1>6, QuietStep DEF history

\* A link to a user is mailed.
LEMMA MailsAreTyped ==
  ASSUME Tables, NEW kind \in {"verify", "reset"}, NEW id \in Ids, Send(kind, id)
  PROVE  mails' \subseteq [kind: {"verify", "reset"}, user: Ids]
BY DEF Tables, Send

LEMMA SignUpDoneTypes ==
  ASSUME Types, NEW h \in Handlers, SignUpDone(h)
  PROVE  Types'
<1>1. Tables /\ entity[h].id \in Ids /\ UNCHANGED <<tables, history>>
  BY DEF SignUpDone, Types, HandlerOK, EntityOK
<1>2. ASSUME Send("verify", entity[h].id), End(h, "created")
      PROVE  Types'
  BY <1>1, <1>2, MailsAreTyped, EndTypes DEF Answers
<1>3. ASSUME UNCHANGED mails, End(h, answer[h])
      PROVE  Types'
  <2>1. answer[h] \in Answers \cup {NoValue} /\ mails' \subseteq [kind: {"verify", "reset"}, user: Ids]
    BY <1>3 DEF Types, Functions, Tables
  <2>2. QED
    BY <1>1, <1>3, <2>1, EndTypes
<1>4. QED
  BY <1>2, <1>3 DEF SignUpDone

LEMMA LinkTypes ==
  ASSUME Types, NEW h \in Handlers, Link(h)
  PROVE  Types'
<1> DEFINE id == entity[h].id
<1>1. /\ pc[h] = "link" /\ Tables /\ id \in Ids /\ HandlerOK(h)
      /\ UNCHANGED <<users, roles, orphans, codes, mails, history>>
      /\ oauths' = [oauths EXCEPT ![id] = @ + 1] /\ Continue(h, "diff", entity[h], "signedIn")
  BY DEF Link, Types, HandlerOK, EntityOK
<1> HIDE DEF id
<1>2. /\ Functions' /\ \A g \in Handlers : g # h => Same(g)
      /\ pc'[h] = "diff" /\ entity'[h] = entity[h] /\ request'[h] = request[h]
  BY <1>1, ContinueFrame DEF Types, Steps, Answers
<1>3. oauths' \in Seq(Nat) /\ Len(oauths') = Len(oauths)
  <2>1. id \in 1 .. Len(oauths) /\ oauths[id] \in Nat
    BY <1>1, LenProperties, ElementOfSeq DEF Tables, Ids
  <2>2. oauths[id] + 1 \in Nat
    BY <2>1
  <2>3. QED
    BY <1>1, <2>1, <2>2, ExceptSeq DEF Tables
<1>4. Ids' = Ids /\ UNCHANGED <<asked, visited, activated>>
  BY <1>1 DEF Ids, history
<1>5. Tables'
  BY <1>1, <1>3, <1>4 DEF Tables
<1>6. Grown
  BY <1>1, <1>4 DEF Grown
<1>7. HandlerOK(h)'
  <2>1. request[h].op # "verify" /\ request[h] \in SocialRequest
    BY <1>1 DEF HandlerOK, RequestOK, SocialRequest
  <2>2. RequestOK(h)'
    BY <1>1, <1>2, <2>1 DEF HandlerOK, RequestOK, SavingRequests
  <2>3. EntityOK(h)'
    BY <1>1, <1>2, <1>4, <2>1 DEF HandlerOK, EntityOK, RowsOf
  <2>4. QED
    BY <1>2, <2>2, <2>3 DEF HandlerOK, ChangeOK, CreatorOK
<1>8. \A g \in Handlers : HandlerOK(g)'
  BY <1>2, <1>6, <1>7, OthersKeepTypes DEF Types
<1>9. RolesAreOnce'
  <2>1. NoNewCreator
    BY <1>2 DEF NoNewCreator, Same
  <2>2. QED
    BY <1>1, <2>1, RolesStayOnce DEF Types, RolesAreOnce
<1>10. QED
  BY <1>2, <1>5, <1>8, <1>9 DEF Types

LEMMA FindUserTypes ==
  ASSUME Types, NEW h \in Handlers, FindUser(h)
  PROVE  Types'
<1>1. /\ pc[h] = "findUser" /\ request[h] \in SignInRequest /\ request[h] # NoValue /\ Tables
      /\ UNCHANGED <<tables, mails, history>> /\ visited' \subseteq Ids
      /\ mails' \subseteq [kind: {"verify", "reset"}, user: Ids]
  BY DEF FindUser, Types, HandlerOK, RequestOK, Tables, history
<1>2. ASSUME Exists(request[h].email), Continue(h, "compare", Loaded(Row(request[h].email)), NoValue)
      PROVE  Types'
  <2> DEFINE id == Row(request[h].email)
  <2>1. id \in Ids
    BY <1>2, RowExists
  <2>2. RequestOK(h)'
    BY <1>1, <1>2, ContinueFrame DEF RequestOK, Types, Steps
  <2>3. Loaded(id).id \in Ids /\ Loaded(id).roles \subseteq RowsOf(Loaded(id).id) /\ ColumnsOK(Loaded(id).columns)
    BY <1>1, <2>1, LoadedIsOK
  <2> HIDE DEF id
  <2>4. QED
    BY <1>1, <1>2, <2>2, <2>3, ContinueTypes DEF id, Steps, history
<1>3. CASE End(h, "unauthorized")
  BY <1>1, <1>3, EndTypes DEF Answers
<1>4. QED
  BY <1>2, <1>3 DEF FindUser

LEMMA CompareTypes ==
  ASSUME Types, NEW h \in Handlers, Compare(h)
  PROVE  Types'
<1>1. /\ pc[h] = "compare" /\ request[h] \in SignInRequest /\ request[h] # NoValue /\ EntityOK(h)
      /\ UNCHANGED <<tables, mails, history>> /\ visited' \subseteq Ids
      /\ mails' \subseteq [kind: {"verify", "reset"}, user: Ids]
  BY DEF Compare, Types, HandlerOK, RequestOK, Tables, history
<1>2. CASE Continue(h, "diff", entity[h], "signedIn")
  <2>1. RequestOK(h)'
    BY <1>1, <1>2, ContinueFrame DEF RequestOK, SavingRequests, Types, Steps, Answers
  <2>2. request[h].op # "verify"
    BY <1>1 DEF SignInRequest
  <2>3. QED
    BY <1>1, <1>2, <2>1, <2>2, ContinueTypes DEF EntityOK, Steps, Answers, history
<1>3. CASE End(h, "serverError") \/ End(h, "unauthorized")
  BY <1>1, <1>3, EndTypes DEF Answers
<1>4. QED
  BY <1>2, <1>3 DEF Compare

LEMMA FindForgottenTypes ==
  ASSUME Types, NEW h \in Handlers, FindForgotten(h)
  PROVE  Types'
<1>1. Tables /\ UNCHANGED <<tables, history>>
  BY DEF FindForgotten, Types
<1>2. ASSUME Exists(request[h].email), Send("reset", Row(request[h].email)), End(h, "accepted")
      PROVE  Types'
  BY <1>1, <1>2, RowExists, MailsAreTyped, EndTypes DEF Answers
<1>3. ASSUME UNCHANGED mails, End(h, "notFound")
      PROVE  Types'
  <2>1. mails' \subseteq [kind: {"verify", "reset"}, user: Ids]
    BY <1>3 DEF Types, Tables
  <2>2. QED
    BY <1>1, <1>3, <2>1, EndTypes DEF Answers
<1>4. QED
  BY <1>2, <1>3 DEF FindForgotten

LEMMA FindAccountTypes ==
  ASSUME Types, NEW h \in Handlers, FindAccount(h)
  PROVE  Types'
<1>1. /\ pc[h] = "findAccount" /\ request[h] \in ResetRequest /\ request[h] # NoValue /\ Tables
      /\ UNCHANGED <<tables, mails, history>> /\ visited' \subseteq Ids
      /\ mails' \subseteq [kind: {"verify", "reset"}, user: Ids]
  BY DEF FindAccount, Types, HandlerOK, RequestOK, Tables, history
<1>2. ASSUME NEW id, id = Row(request[h].email), Exists(request[h].email), NEW e,
             e = [Loaded(id) EXCEPT !.columns.password = request[h].password],
             Continue(h, "diff", e, "accepted")
      PROVE  Types'
  <2>1. id \in Ids
    BY <1>2, RowExists
  <2>2. RequestOK(h)'
    BY <1>1, <1>2, ContinueFrame DEF RequestOK, SavingRequests, Types, Steps, Answers
  <2>3. e.id \in Ids /\ e.roles \subseteq RowsOf(e.id) /\ ColumnsOK(e.columns)
    <3>1. /\ Loaded(id).id = id /\ Loaded(id).roles \subseteq RowsOf(id)
          /\ ColumnsOK(Loaded(id).columns)
      BY <1>1, <2>1, LoadedIsOK
    <3>2. request[h].password \in Passwords
      BY <1>1 DEF ResetRequest
    <3>3. e.id = Loaded(id).id /\ e.roles = Loaded(id).roles
          /\ e.columns = [Loaded(id).columns EXCEPT !.password = request[h].password]
      BY <1>2 DEF Loaded
    <3>4. QED
      BY <2>1, <3>1, <3>2, <3>3 DEF ColumnsOK, Loaded
  <2>4. request[h].op # "verify"
    BY <1>1 DEF ResetRequest
  <2>5. QED
    BY <1>1, <1>2, <2>2, <2>3, <2>4, ContinueTypes DEF Steps, Answers, history
<1>3. CASE End(h, "unauthorized")
  BY <1>1, <1>3, EndTypes DEF Answers
<1>4. QED
  BY <1>2, <1>3 DEF FindAccount

LEMMA FindCodeTypes ==
  ASSUME Types, NEW h \in Handlers, FindCode(h)
  PROVE  Types'
<1> DEFINE id == request[h].user
<1>1. /\ pc[h] = "findCode" /\ request[h] \in VerifyLinks /\ request[h] # NoValue /\ Tables
      /\ UNCHANGED <<tables, mails, asked, activated>> /\ id \in Ids
      /\ mails' \subseteq [kind: {"verify", "reset"}, user: Ids]
  BY DEF FindCode, Types, HandlerOK, RequestOK, Tables, history, VerifyLinks
<1>2. ASSUME NEW e, e = [Loaded(id) EXCEPT !.columns.verified = TRUE],
             Continue(h, "diff", e, NoValue), visited' = visited \cup {id}
      PROVE  Types'
  <2>1. RequestOK(h)'
    BY <1>1, <1>2, ContinueFrame DEF RequestOK, SavingRequests, Types, Steps, Answers,
       VerifyLinks, tables, Ids
  <2>2. e.id = id /\ e.roles \subseteq RowsOf(e.id) /\ ColumnsOK(e.columns)
    <3>1. /\ Loaded(id).id = id /\ Loaded(id).roles \subseteq RowsOf(id)
          /\ ColumnsOK(Loaded(id).columns)
      BY <1>1, LoadedIsOK
    <3>2. e.id = Loaded(id).id /\ e.roles = Loaded(id).roles
          /\ e.columns = [Loaded(id).columns EXCEPT !.verified = TRUE]
      BY <1>2 DEF Loaded
    <3>3. QED
      BY <3>1, <3>2 DEF ColumnsOK, Loaded
  <2>3. visited' \subseteq Ids
    BY <1>1, <1>2 DEF Tables
  <2>4. QED
    BY <1>1, <1>2, <2>1, <2>2, <2>3, ContinueTypes DEF Steps
<1>3. ASSUME End(h, "badRequest"), UNCHANGED visited
      PROVE  Types'
  BY <1>1, <1>3, EndTypes DEF Answers, history
<1>4. QED
  BY <1>2, <1>3 DEF FindCode

LEMMA DeleteCodeTypes ==
  ASSUME Types, NEW h \in Handlers, DeleteCode(h)
  PROVE  Types'
<1>1. /\ codes' \subseteq codes /\ End(h, "verified")
      /\ UNCHANGED <<users, oauths, roles, orphans, mails, history>>
  BY DEF DeleteCode
<1>2. /\ Functions' /\ \A g \in Handlers : g # h => Same(g)
      /\ pc'[h] = "idle" /\ request'[h] = NoValue
  BY <1>1, EndFrame DEF Types, Answers
<1>3. Tables'
  BY <1>1 DEF Types, Tables, Ids, history
<1>4. Grown
  BY <1>1 DEF Grown, Ids, history
<1>5. \A g \in Handlers : HandlerOK(g)'
  BY <1>2, <1>4, IdleIsOK, OthersKeepTypes DEF Types
<1>6. NoNewCreator
  BY <1>2 DEF NoNewCreator, Same
<1>7. RolesAreOnce'
  BY <1>1, <1>6, RolesStayOnce DEF Types, RolesAreOnce
<1>8. QED
  BY <1>2, <1>3, <1>5, <1>7 DEF Types

LEMMA DiffTypes ==
  ASSUME Types, NEW h \in Handlers, Diff(h)
  PROVE  Types'
<1> DEFINE e       == entity[h]
           columns == [c \in Differing(e.columns, users[e.id]) |-> e.columns[c]]
<1>1. /\ pc[h] = "diff" /\ HandlerOK(h) /\ pc' = [pc EXCEPT ![h] = "write"]
      /\ change' = [change EXCEPT ![h] = [columns |-> columns,
                                          link    |-> e.roles \ RolesOf(e.id),
                                          unlink  |-> RolesOf(e.id) \ e.roles]]
      /\ UNCHANGED <<tables, mails, request, entity, pending, answer, history>>
  BY DEF Diff, Types
<1>2. ColumnsOK(columns)
  BY <1>1 DEF HandlerOK, EntityOK, ColumnsOK, Differing
<1> HIDE DEF columns
<1>3. /\ Functions' /\ \A g \in Handlers : g # h => Same(g) /\ pc'[h] = "write"
      /\ pc'[h] = "write" /\ entity'[h] = e /\ request'[h] = request[h]
      /\ change'[h] = [columns |-> columns, link |-> e.roles \ RolesOf(e.id),
                       unlink |-> RolesOf(e.id) \ e.roles]
  BY <1>1 DEF Types, Functions, IsPerHandler, Same, Steps
<1>4. RequestOK(h)' /\ EntityOK(h)' /\ CreatorOK(h)'
  BY <1>1, <1>3 DEF HandlerOK, RequestOK, EntityOK, CreatorOK, SavingRequests, VerifyLinks,
     RowsOf, tables, Ids
<1>5. ChangeOK(h)'
  <2>1. e.roles \cup RolesOf(e.id) \subseteq RowsOf(e.id)
    BY <1>1 DEF HandlerOK, EntityOK, RowsOf, RolesOf
  <2>2. RowsOf(e.id)' = RowsOf(e.id)
    BY <1>1, <1>3 DEF RowsOf, tables
  <2>3. QED
    BY <1>2, <1>3, <2>1, <2>2 DEF ChangeOK
<1>6. mails' \subseteq [kind: {"verify", "reset"}, user: Ids] /\ visited' \subseteq Ids
  BY <1>1 DEF Types, Tables, history
<1>7. QED
  BY <1>1, <1>3, <1>4, <1>5, <1>6, QuietStep DEF HandlerOK, history

\* A save overwrites columns of one row, its address not among them.
LEMMA WrittenUser ==
  ASSUME Tables, NEW id \in Ids, NEW columns, ColumnsOK(columns),
         users' = [users EXCEPT ![id] =
                     [c \in DOMAIN @ |-> IF c \in DOMAIN columns THEN columns[c] ELSE @[c]]]
  PROVE  /\ users' \in Seq(User) /\ Len(users') = Len(users) /\ Ids' = Ids
         /\ \A i \in Ids : i # id => users'[i] = users[i]
         /\ users'[id].email = users[id].email
         /\ users'[id].verified = IF "verified" \in DOMAIN columns THEN columns.verified
                                  ELSE users[id].verified
         /\ users'[id].password = IF "password" \in DOMAIN columns THEN columns.password
                                  ELSE users[id].password
<1> DEFINE row == [c \in DOMAIN users[id] |->
                     IF c \in DOMAIN columns THEN columns[c] ELSE users[id][c]]
<1>1. users \in Seq(User) /\ id \in 1 .. Len(users) /\ users[id] \in User
  BY LenProperties, ElementOfSeq DEF Tables, Ids
<1>2. /\ row \in User /\ row.email = users[id].email
      /\ row.verified = IF "verified" \in DOMAIN columns THEN columns.verified
                        ELSE users[id].verified
      /\ row.password = IF "password" \in DOMAIN columns THEN columns.password
                        ELSE users[id].password
  BY <1>1 DEF User, ColumnsOK, Column
<1>3. users' = [users EXCEPT ![id] = row]
  OBVIOUS
<1> HIDE DEF row
<1>4. /\ users' \in Seq(User) /\ Len(users') = Len(users)
      /\ \A i \in 1 .. Len(users) : users'[i] = IF i = id THEN row ELSE users[i]
  BY <1>1, <1>2, <1>3, ExceptSeq
<1>5. Ids = 1 .. Len(users) /\ Ids' = 1 .. Len(users')
  BY <1>1, <1>4, LenProperties DEF Ids
<1>6. QED
  BY <1>1, <1>2, <1>4, <1>5

LEMMA WriteTypes ==
  ASSUME Types, NEW h \in Handlers, Write(h)
  PROVE  Types'
<1> DEFINE id == entity[h].id
<1>1. /\ pc[h] = "write" /\ Tables /\ HandlerOK(h) /\ id \in Ids /\ ColumnsOK(change[h].columns)
      /\ roles' = (roles \ change[h].unlink) \cup change[h].link
      /\ orphans' = (orphans \cup change[h].unlink) \ change[h].link
      /\ change[h].link \cup change[h].unlink \subseteq roles \cup orphans
      /\ activated' = activated \cup {i \in Ids : users'[i].verified}
      /\ UNCHANGED <<oauths, codes, mails, asked, visited>>
  BY DEF Write, Orphaned, Types, HandlerOK, EntityOK, ChangeOK, RowsOf
<1>2. /\ users' \in Seq(User) /\ Len(users') = Len(users) /\ Ids' = Ids
      /\ \A i \in Ids : users'[i].email = users[i].email
  BY <1>1, WrittenUser DEF Write
<1> HIDE DEF id
<1>3. roles' \cup orphans' = roles \cup orphans /\ roles' \cap orphans' = {}
  BY <1>1 DEF Types, RolesAreOnce
<1>4. Tables'
  BY <1>1, <1>2, <1>3 DEF Tables
<1>5. Grown
  BY <1>1, <1>2, <1>3 DEF Grown
<1>6. /\ Functions' /\ \A g \in Handlers : g # h => Same(g)
      /\ pc'[h] # "children" /\ HandlerOK(h)'
  <2>1. CASE request[h].op = "verify" /\ Continue(h, "deleteCode", entity[h], NoValue)
    <3>1. /\ Functions' /\ \A g \in Handlers : g # h => Same(g)
          /\ pc'[h] = "deleteCode" /\ entity'[h] = entity[h] /\ request'[h] = request[h]
      BY <2>1, ContinueFrame DEF Types, Steps
    <3>2. request[h] \in VerifyLinks /\ request[h] # NoValue
      BY <1>1, <2>1 DEF HandlerOK, RequestOK, SavingRequests, SocialRequest, SignInRequest,
         ResetRequest
    <3>3. RequestOK(h)'
      BY <1>2, <3>1, <3>2 DEF RequestOK, VerifyLinks
    <3>4. EntityOK(h)'
      BY <1>1, <1>2, <1>3, <3>1 DEF HandlerOK, EntityOK, RowsOf
    <3>5. QED
      BY <3>1, <3>3, <3>4 DEF HandlerOK, ChangeOK, CreatorOK
  <2>2. CASE End(h, answer[h])
    <3>1. answer[h] \in Answers \cup {NoValue}
      BY DEF Types, Functions
    <3>2. QED
      BY <2>2, <3>1, EndFrame, IdleIsOK DEF Types
  <2>3. QED
    BY <2>1, <2>2 DEF Write
<1>7. \A g \in Handlers : HandlerOK(g)'
  BY <1>5, <1>6, OthersKeepTypes DEF Types
<1>8. NoNewCreator
  BY <1>6 DEF NoNewCreator, Same
<1>9. RolesAreOnce'
  BY <1>3, <1>8, RolesStayOnce DEF Types
<1>10. QED
  BY <1>4, <1>6, <1>7, <1>9 DEF Types

LEMMA FailureTypes ==
  ASSUME Types, NEW h \in Handlers, DatabaseError(h) \/ Crash(h)
  PROVE  Types'
<1>1. /\ answer[h] \in Answers \cup {NoValue} /\ Failure(h) \in Answers \cup {NoValue}
      /\ UNCHANGED <<tables, mails, history>>
      /\ mails' \subseteq [kind: {"verify", "reset"}, user: Ids]
  BY DEF Types, Functions, Tables, Failure, Answers, DatabaseError, Crash
<1>2. QED
  BY <1>1, EndTypes DEF DatabaseError, Crash

LEMMA TypesNext == Types /\ [Next]_vars => Types'
<1> SUFFICES ASSUME Types, [Next]_vars
             PROVE  Types'
  OBVIOUS
<1>1. ASSUME NEW h \in Handlers, Step(h)
      PROVE  Types'
  BY <1>1, FindLinkedTypes, FindEmailTypes, InsertUserTypes, InsertChildTypes, SignUpDoneTypes,
     LinkTypes, FindUserTypes, CompareTypes, FindForgottenTypes, FindAccountTypes, FindCodeTypes,
     DeleteCodeTypes, DiffTypes, WriteTypes DEF Step
<1>2. ASSUME NEW h \in Handlers,
             ReceiveAny(h) \/ ChildFails(h) \/ DatabaseError(h) \/ Crash(h)
      PROVE  Types'
  BY <1>2, ReceiveAnyTypes, ChildFailsTypes, FailureTypes
<1>3. CASE UNCHANGED vars
  <2>1. UNCHANGED <<users, oauths, roles, orphans, codes, mails, pc, request, entity, change,
                    pending, answer, asked, visited, activated>>
    BY <1>3 DEF vars, tables, handling, history
  <2>2. Functions' /\ Tables'
    BY <2>1 DEF Types, Functions, IsPerHandler, Tables, Ids
  <2>3. Grown /\ \A g \in Handlers : Same(g)
    BY <2>1 DEF Grown, Same, Ids
  <2>4. NoNewCreator
    BY <2>1 DEF NoNewCreator
  <2>5. QED
    BY <2>1, <2>2, <2>3, <2>4, OthersKeepTypes, RolesStayOnce DEF Types, RolesAreOnce
<1>4. QED
  BY <1>1, <1>2, <1>3 DEF Next

\* In every reachable state the tables and what the handlers hold fit together.
THEOREM TypesHold == Spec => []Types
BY TypesInit, TypesNext, PTL DEF Spec

\* Every variable keeps its type, and a role row is inserted once and never lost.
THEOREM TypeCorrectness == Spec => []TypeOK
BY TypesHold, TypesImplyTypeOK, PTL

----------------------------------------------------------------------------
(***************************************************************************)
(* What the other invariants need of a step: who takes it, and what it     *)
(* does to the tables.                                                     *)
(***************************************************************************)
Acts(h) == Step(h) \/ ReceiveAny(h) \/ ChildFails(h) \/ DatabaseError(h) \/ Crash(h)

LEMMA OthersAreSame ==
  ASSUME Types, NEW h \in Handlers, Acts(h), NEW g \in Handlers, g # h
  PROVE  Same(g)
<1> USE DEF Types, Functions, IsPerHandler, Same
<1>1. CASE ReceiveAny(h)
  BY <1>1 DEF ReceiveAny, ReceiveSignUp, ReceiveSocial, ReceiveSignIn, ReceiveForgot,
     ReceiveReset, ReceiveVerify, Receive
<1>2. CASE FindLinked(h) \/ FindEmail(h) \/ FindUser(h) \/ Compare(h) \/ FindAccount(h)
           \/ FindCode(h) \/ Write(h) \/ Link(h)
  BY <1>2 DEF FindLinked, FindEmail, FindUser, Compare, FindAccount, FindCode, Write, Link,
     Continue, End
<1>3. CASE InsertUser(h) \/ InsertChild(h) \/ ChildFails(h) \/ Diff(h)
  BY <1>3 DEF InsertUser, InsertChild, ChildFails, Diff, End
<1>4. CASE SignUpDone(h) \/ FindForgotten(h) \/ DeleteCode(h) \/ DatabaseError(h) \/ Crash(h)
  BY <1>4 DEF SignUpDone, FindForgotten, DeleteCode, DatabaseError, Crash, End
<1>5. QED
  BY <1>1, <1>2, <1>3, <1>4 DEF Acts, Step

LEMMA WhoWrites ==
  ASSUME NEW h \in Handlers, Acts(h)
  PROVE  /\ InsertUser(h) \/ Write(h) \/ UNCHANGED users
         /\ InsertUser(h) \/ InsertChild(h) \/ Link(h) \/ UNCHANGED oauths
         /\ InsertUser(h) \/ UNCHANGED asked
         /\ InsertChild(h) \/ Write(h) \/ UNCHANGED <<roles, orphans>>
         /\ InsertChild(h) \/ DeleteCode(h) \/ UNCHANGED codes
         /\ SignUpDone(h) \/ FindForgotten(h) \/ UNCHANGED mails
         /\ FindCode(h) \/ UNCHANGED visited
         /\ Write(h) \/ UNCHANGED activated
<1> USE DEF tables, history
<1>1. CASE ReceiveAny(h)
  BY <1>1 DEF ReceiveAny, ReceiveSignUp, ReceiveSocial, ReceiveSignIn, ReceiveForgot,
     ReceiveReset, ReceiveVerify, Receive
<1>2. CASE Step(h)
  BY <1>2 DEF Step, FindLinked, FindEmail, InsertUser, InsertChild, SignUpDone, Link, FindUser,
     Compare, FindForgotten, FindAccount, FindCode, DeleteCode, Diff, Write
<1>3. CASE ChildFails(h) \/ DatabaseError(h) \/ Crash(h)
  BY <1>3 DEF ChildFails, DatabaseError, Crash
<1>4. QED
  BY <1>1, <1>2, <1>3 DEF Acts

\* What a save does to the tables.
LEMMA WriteEffect ==
  ASSUME Types, NEW h \in Handlers, Write(h)
  PROVE  LET id == entity[h].id
         IN  /\ id \in Ids /\ Ids' = Ids
             /\ \A i \in Ids : users'[i].email = users[i].email
             /\ \A i \in Ids : i # id => users'[i] = users[i]
             /\ users'[id].verified = IF "verified" \in DOMAIN change[h].columns
                                      THEN change[h].columns.verified ELSE users[id].verified
             /\ users'[id].password = IF "password" \in DOMAIN change[h].columns
                                      THEN change[h].columns.password ELSE users[id].password
             /\ roles' \cup orphans' = roles \cup orphans
<1>1. /\ pc[h] = "write" /\ Tables /\ HandlerOK(h)
      /\ entity[h].id \in Ids /\ ColumnsOK(change[h].columns)
      /\ roles' = (roles \ change[h].unlink) \cup change[h].link
      /\ orphans' = (orphans \cup change[h].unlink) \ change[h].link
      /\ change[h].link \cup change[h].unlink \subseteq roles \cup orphans
  BY DEF Write, Orphaned, Types, HandlerOK, EntityOK, ChangeOK, RowsOf
<1>2. roles' \cup orphans' = roles \cup orphans
  BY <1>1
<1>3. QED
  BY <1>1, <1>2, WrittenUser DEF Write

\* What the first insert of an account does to the tables.
LEMMA InsertEffect ==
  ASSUME Types, NEW h \in Handlers, InsertUser(h)
  PROVE  \/ UNCHANGED <<users, oauths, asked>> /\ End(h, "databaseError")
         \/ LET id == Len(users) + 1
            IN  /\ IsUnique(request[h].email)
                /\ Ids' = Ids \cup {id} /\ id \notin Ids
                /\ \A i \in Ids : /\ users'[i] = users[i] /\ oauths'[i] = oauths[i]
                                  /\ asked'[i] = asked[i]
                /\ users'[id] = NewUser(request[h]) /\ oauths'[id] = 0 /\ asked'[id] = request[h]
                /\ pc'[h] = "children" /\ entity'[h].id = id /\ pending'[h] = Inserts(request[h])
                /\ request'[h] = request[h]
<1>1. request[h] \in MadeRequests /\ Tables
  BY DEF InsertUser, Types, HandlerOK, RequestOK
<1>2. ASSUME IsUnique(request[h].email), users' = Append(users, NewUser(request[h])),
             oauths' = Append(oauths, 0), asked' = Append(asked, request[h])
      PROVE  LET id == Len(users) + 1
             IN  /\ Ids' = Ids \cup {id} /\ id \notin Ids
                 /\ \A i \in Ids : /\ users'[i] = users[i] /\ oauths'[i] = oauths[i]
                                   /\ asked'[i] = asked[i]
                 /\ users'[id] = NewUser(request[h]) /\ oauths'[id] = 0 /\ asked'[id] = request[h]
  BY <1>1, <1>2, InsertedUser, NewUserIsUser
<1>3. QED
  BY <1>2 DEF InsertUser, Types, Functions, IsPerHandler

\* The invariants of accounts are about the tables and about each handler.
LEMMA GrownByStep ==
  ASSUME Types, NEW h \in Handlers, Acts(h)
  PROVE  Grown /\ visited \subseteq visited' /\ activated \subseteq activated'
<1>1. visited \subseteq visited'
  BY WhoWrites DEF FindCode
<1>2. activated \subseteq activated'
  BY WhoWrites DEF Write
<1>3. Ids \subseteq Ids' /\ \A id \in Ids : users'[id].email = users[id].email
  BY WhoWrites, WriteEffect, InsertEffect DEF Ids
<1>4. \A id \in Ids : asked'[id] = asked[id]
  BY WhoWrites, InsertEffect
<1>5. roles \cup orphans \subseteq roles' \cup orphans'
  <2>1. CASE InsertChild(h)
    BY <2>1 DEF InsertChild
  <2>2. QED
    BY <2>1, WhoWrites, WriteEffect
<1>6. QED
  BY <1>1, <1>2, <1>3, <1>4, <1>5 DEF Grown

----------------------------------------------------------------------------
(***************************************************************************)
(* One account per address: the unique column.                             *)
(***************************************************************************)
LEMMA OneAccountNext == Types /\ OneAccountPerEmail /\ [Next]_vars => OneAccountPerEmail'
<1> SUFFICES ASSUME Types, OneAccountPerEmail, [Next]_vars
             PROVE  OneAccountPerEmail'
  OBVIOUS
<1>1. CASE UNCHANGED vars
  BY <1>1 DEF vars, tables, OneAccountPerEmail, Ids
<1>2. ASSUME NEW h \in Handlers, Acts(h)
      PROVE  OneAccountPerEmail'
  <2>1. CASE InsertUser(h)
    <3>1. NewUser(request[h]).email = request[h].email
      BY DEF NewUser
    <3>2. QED
      BY <2>1, <3>1, InsertEffect DEF OneAccountPerEmail, IsUnique, Exists, Matching, Ids
  <2>2. CASE Write(h)
    BY <2>2, WriteEffect DEF OneAccountPerEmail
  <2>3. CASE UNCHANGED users
    BY <2>3 DEF OneAccountPerEmail, Ids
  <2>4. QED
    BY <1>2, <2>1, <2>2, <2>3, WhoWrites
<1>3. QED
  BY <1>1, <1>2 DEF Next, Acts

\* However many requests find an address free, they make one account.
THEOREM OneAccount == Spec => []OneAccountPerEmail
<1>1. Init => OneAccountPerEmail
  BY DEF Init, OneAccountPerEmail, Ids
<1>2. QED
  BY <1>1, OneAccountNext, TypesHold, PTL DEF Spec

----------------------------------------------------------------------------
(***************************************************************************)
(* Verification: an entity, or a change, that has `verified` set belongs   *)
(* to a user who has followed the link.                                    *)
(***************************************************************************)
Sure(columns) == "verified" \in DOMAIN columns /\ columns.verified = TRUE

SureOK(h) ==
    /\ pc[h] \in {"link", "compare", "diff"} /\ Sure(entity[h].columns) => entity[h].id \in visited
    /\ pc[h] = "diff" /\ request[h].op = "verify" => Sure(entity[h].columns)
    /\ pc[h] = "write" /\ Sure(change[h].columns) => entity[h].id \in visited
    /\ pc[h] = "write" /\ request[h].op = "verify" =>
         entity[h].id \in activated \/ Sure(change[h].columns)
    /\ pc[h] = "deleteCode" => request[h].user \in activated

VerifiedIsActivated == \A id \in Ids : users[id].verified = TRUE => id \in activated
VerifiedIsVisited   == \A id \in Ids : users[id].verified = TRUE => id \in visited

Verification == VerifiedIsVisited /\ VerifiedIsActivated /\ \A h \in Handlers : SureOK(h)

LEMMA VerificationImplies == Types /\ Verification => VerifiedByMail
<1> SUFFICES ASSUME Types, Verification, NEW id \in Ids, users[id].verified
             PROVE  id \in visited
  BY DEF VerifiedByMail
<1>1. users[id] \in User
  BY ElementOfSeq, LenProperties DEF Types, Tables, Ids
<1>2. users[id].verified = TRUE
  BY <1>1 DEF User
<1>3. QED
  BY <1>2 DEF Verification, VerifiedIsVisited

LEMMA SureLoaded ==
  ASSUME Types, Verification, NEW id \in Ids, Sure(Loaded(id).columns)
  PROVE  id \in visited
BY DEF Verification, VerifiedIsVisited, Sure, Loaded

\* A step that does not lead to where an entity or a change is at stake.
LEMMA NothingSure ==
  ASSUME NEW h, pc'[h] \notin {"link", "compare", "diff", "write", "deleteCode"}
  PROVE  SureOK(h)'
BY DEF SureOK

LEMMA ActorIsSure ==
  ASSUME Types, Verification, NEW h \in Handlers, Acts(h)
  PROVE  SureOK(h)'
<1> USE DEF Types, Functions
<1>0. Tables /\ HandlerOK(h) /\ SureOK(h) /\ visited \subseteq visited' /\ activated \subseteq activated'
  BY GrownByStep DEF Verification
<1>1. CASE ReceiveAny(h)
  BY <1>1, NothingSure DEF ReceiveAny, ReceiveSignUp, ReceiveSocial, ReceiveSignIn,
     ReceiveForgot, ReceiveReset, ReceiveVerify, Receive
<1>2. CASE InsertUser(h) \/ InsertChild(h) \/ ChildFails(h)
  BY <1>2, NothingSure DEF InsertUser, InsertChild, ChildFails, End
<1>3. CASE SignUpDone(h) \/ FindForgotten(h) \/ DeleteCode(h) \/ DatabaseError(h) \/ Crash(h)
  BY <1>3, NothingSure DEF SignUpDone, FindForgotten, DeleteCode, DatabaseError, Crash, End
<1>4. CASE FindLinked(h)
  <2>1. request[h].op # "verify"
    BY <1>0, <1>4 DEF FindLinked, HandlerOK, RequestOK, SocialRequest
  <2>2. ASSUME NEW id \in Ids, Continue(h, "diff", Loaded(id), "signedIn")
        PROVE  SureOK(h)'
    <3>1. Loaded(id).id = id
      BY DEF Loaded
    <3>2. QED
      BY <1>0, <2>1, <2>2, <3>1, SureLoaded, ContinueFrame DEF SureOK, Steps, Answers
  <2>3. CASE Continue(h, "findEmail", NoValue, NoValue)
    BY <2>3, NothingSure DEF Continue
  <2>4. QED
    BY <1>4, <2>2, <2>3 DEF FindLinked, Matching
<1>5. CASE FindEmail(h)
  <2>1. ASSUME NEW id, Continue(h, "link", OnlyId(id), NoValue)
        PROVE  SureOK(h)'
    <3>1. ~Sure(OnlyId(id).columns)
      BY DEF Sure, OnlyId
    <3>2. QED
      BY <2>1, <3>1, ContinueFrame DEF SureOK, Steps
  <2>2. CASE Continue(h, "insertUser", NoValue, NoValue) \/ End(h, "serverError")
    BY <2>2, NothingSure DEF Continue, End
  <2>3. QED
    BY <1>5, <2>1, <2>2 DEF FindEmail
<1>6. CASE Link(h)
  <2>1. request[h].op # "verify"
    BY <1>0, <1>6 DEF Link, HandlerOK, RequestOK, SocialRequest
  <2>2. QED
    BY <1>0, <1>6, <2>1, ContinueFrame DEF Link, SureOK, Steps, Answers
<1>7. CASE FindUser(h)
  <2>1. ASSUME NEW id \in Ids, Continue(h, "compare", Loaded(id), NoValue)
        PROVE  SureOK(h)'
    <3>1. Loaded(id).id = id
      BY DEF Loaded
    <3>2. QED
      BY <1>0, <2>1, <3>1, SureLoaded, ContinueFrame DEF SureOK, Steps
  <2>2. CASE End(h, "unauthorized")
    BY <2>2, NothingSure DEF End
  <2>3. QED
    BY <1>7, <2>1, <2>2, RowExists DEF FindUser
<1>8. CASE Compare(h)
  <2>1. request[h].op # "verify"
    BY <1>0, <1>8 DEF Compare, HandlerOK, RequestOK, SignInRequest
  <2>2. CASE Continue(h, "diff", entity[h], "signedIn")
    BY <1>0, <1>8, <2>1, <2>2, ContinueFrame DEF Compare, SureOK, Steps, Answers
  <2>3. CASE End(h, "serverError") \/ End(h, "unauthorized")
    BY <2>3, NothingSure DEF End
  <2>4. QED
    BY <1>8, <2>2, <2>3 DEF Compare
<1>9. CASE FindAccount(h)
  <2>1. request[h].op # "verify"
    BY <1>0, <1>9 DEF FindAccount, HandlerOK, RequestOK, ResetRequest
  <2>2. ASSUME NEW id \in Ids, NEW e,
               e = [Loaded(id) EXCEPT !.columns.password = request[h].password],
               Continue(h, "diff", e, "accepted")
        PROVE  SureOK(h)'
    <3>1. e.id = id /\ (Sure(e.columns) => Sure(Loaded(id).columns))
      BY <2>2 DEF Loaded, Sure
    <3>2. pc'[h] = "diff" /\ entity'[h] = e /\ request'[h] = request[h]
      BY <2>2, ContinueFrame DEF Steps, Answers
    <3>3. Sure(e.columns) => id \in visited
      BY <3>1, SureLoaded
    <3>4. QED
      BY <1>0, <2>1, <3>1, <3>2, <3>3 DEF SureOK
  <2>3. CASE End(h, "unauthorized")
    BY <2>3, NothingSure DEF End
  <2>4. QED
    BY <1>9, <2>2, <2>3, RowExists DEF FindAccount
<1>10. CASE FindCode(h)
  <2>1. ASSUME NEW id, NEW e, e = [Loaded(id) EXCEPT !.columns.verified = TRUE],
               Continue(h, "diff", e, NoValue), visited' = visited \cup {id}
        PROVE  SureOK(h)'
    <3>1. e.id = id /\ Sure(e.columns)
      BY <2>1 DEF Loaded, Sure
    <3>2. QED
      BY <2>1, <3>1, ContinueFrame DEF SureOK, Steps
  <2>2. CASE End(h, "badRequest")
    BY <2>2, NothingSure DEF End
  <2>3. QED
    BY <1>10, <2>1, <2>2 DEF FindCode
<1>11. CASE Diff(h)
  <2> DEFINE e       == entity[h]
             columns == [c \in Differing(e.columns, users[e.id]) |-> e.columns[c]]
  <2>1. /\ pc[h] = "diff" /\ pc'[h] = "write" /\ entity'[h] = e /\ request'[h] = request[h]
        /\ change'[h].columns = columns
    BY <1>11 DEF Diff, IsPerHandler
  <2>2. Sure(columns) => Sure(e.columns)
    BY DEF Sure, Differing
  <2>3. Sure(e.columns) => Sure(columns) \/ users[e.id].verified = TRUE
    BY DEF Sure, Differing
  <2>4. e.id \in Ids
    BY <1>0, <2>1 DEF HandlerOK, EntityOK
  <2> HIDE DEF columns
  <2>5. QED
    BY <1>0, <2>1, <2>2, <2>3, <2>4 DEF SureOK, Verification, VerifiedIsActivated
<1>12. CASE Write(h)
  <2>1. CASE request[h].op = "verify" /\ Continue(h, "deleteCode", entity[h], NoValue)
    <3>1. /\ pc[h] = "write" /\ entity[h].id = request[h].user /\ entity[h].id \in Ids
          /\ activated' = activated \cup {i \in Ids : users'[i].verified}
      BY <1>0, <1>12, <2>1 DEF Write, HandlerOK, EntityOK
    <3>2. entity[h].id \in activated'
      <4>1. CASE entity[h].id \in activated
        BY <1>0, <4>1
      <4>2. CASE Sure(change[h].columns)
        <5>1. users'[entity[h].id].verified = TRUE
          BY <1>12, <4>2, WriteEffect DEF Sure
        <5>2. QED
          BY <3>1, <5>1
      <4>3. QED
        BY <1>0, <2>1, <3>1, <4>1, <4>2 DEF SureOK
    <3>3. pc'[h] = "deleteCode" /\ request'[h] = request[h]
      BY <2>1, ContinueFrame DEF Steps
    <3>4. QED
      BY <3>1, <3>2, <3>3 DEF SureOK
  <2>2. CASE End(h, answer[h])
    BY <2>2, NothingSure DEF End
  <2>3. QED
    BY <1>12, <2>1, <2>2 DEF Write
<1>13. QED
  BY <1>1, <1>2, <1>3, <1>4, <1>5, <1>6, <1>7, <1>8, <1>9, <1>10, <1>11, <1>12 DEF Acts, Step

LEMMA VerificationNext == Types /\ Verification /\ [Next]_vars => Verification'
<1> SUFFICES ASSUME Types, Verification, [Next]_vars
             PROVE  Verification'
  OBVIOUS
<1>1. CASE UNCHANGED vars
  BY <1>1 DEF vars, tables, handling, history, Verification, VerifiedIsVisited,
     VerifiedIsActivated, SureOK, Sure, Ids
<1>2. ASSUME NEW h \in Handlers, Acts(h)
      PROVE  Verification'
  <2>1. visited \subseteq visited' /\ activated \subseteq activated'
    BY <1>2, GrownByStep
  <2>2. ASSUME NEW g \in Handlers
        PROVE  SureOK(g)'
    <3>1. CASE g = h
      BY <1>2, <3>1, ActorIsSure
    <3>2. CASE g # h
      BY <1>2, <2>1, <3>2, OthersAreSame DEF Same, SureOK, Verification
    <3>3. QED
      BY <3>1, <3>2
  <2>3. VerifiedIsVisited' /\ VerifiedIsActivated'
    <3>1. CASE InsertUser(h)
      <4>1. NewUser(request[h]).verified = FALSE
        BY DEF NewUser
      <4>2. QED
        BY <2>1, <3>1, <4>1, InsertEffect
           DEF Verification, VerifiedIsVisited, VerifiedIsActivated, Ids
    <3>2. CASE Write(h)
      <4>1. activated' = activated \cup {i \in Ids : users'[i].verified}
        BY <3>2 DEF Write
      <4>2. pc[h] = "write" /\ SureOK(h)
        BY <3>2 DEF Write, Verification
      <4>3. QED
        BY <2>1, <3>2, <4>1, <4>2, WriteEffect
           DEF Verification, VerifiedIsVisited, VerifiedIsActivated, SureOK, Sure
    <3>3. CASE UNCHANGED users
      BY <2>1, <3>3 DEF Verification, VerifiedIsVisited, VerifiedIsActivated, Ids
    <3>4. QED
      BY <1>2, <3>1, <3>2, <3>3, WhoWrites
  <2>4. QED
    BY <2>2, <2>3 DEF Verification
<1>3. QED
  BY <1>1, <1>2 DEF Next, Acts

LEMMA VerificationHolds == Spec => []Verification
<1>1. Init => Verification
  BY DEF Init, Verification, VerifiedIsVisited, VerifiedIsActivated, SureOK, Ids
<1>2. QED
  BY <1>1, VerificationNext, TypesHold, PTL DEF Spec

\* No stale save and no reset makes an account a verified one.
THEOREM OnlyMailVerifies == Spec => []VerifiedByMail
BY VerificationHolds, VerificationImplies, TypesHold, PTL

----------------------------------------------------------------------------
(***************************************************************************)
(* Administrators: a role row is inserted by the request that asked for    *)
(* it, which had the key before the account was there.                     *)
(***************************************************************************)
KeyOK(h) == pc[h] \in {"insertUser", "children"} => HasKey(request[h])

Keys == AdminNeedsKey /\ \A h \in Handlers : KeyOK(h)

LEMMA ActorHasKey ==
  ASSUME Types, Keys, NEW h \in Handlers, Acts(h)
  PROVE  KeyOK(h)'
<1> USE DEF Types, Functions, IsPerHandler, KeyOK
<1>1. CASE FindEmail(h)
  BY <1>1 DEF FindEmail, Continue, End
<1>2. CASE InsertUser(h) \/ InsertChild(h) \/ ChildFails(h)
  BY <1>2 DEF InsertUser, InsertChild, ChildFails, End, Keys
<1>3. CASE ReceiveAny(h)
  BY <1>3 DEF ReceiveAny, ReceiveSignUp, ReceiveSocial, ReceiveSignIn, ReceiveForgot,
     ReceiveReset, ReceiveVerify, Receive
<1>4. CASE FindLinked(h) \/ FindUser(h) \/ Compare(h) \/ FindAccount(h)
           \/ FindCode(h) \/ Write(h) \/ Link(h) \/ Diff(h)
  BY <1>4 DEF FindLinked, FindUser, Compare, FindAccount, FindCode, Write, Link, Diff,
     Continue, End
<1>5. CASE SignUpDone(h) \/ FindForgotten(h) \/ DeleteCode(h) \/ DatabaseError(h) \/ Crash(h)
  BY <1>5 DEF SignUpDone, FindForgotten, DeleteCode, DatabaseError, Crash, End
<1>6. QED
  BY <1>1, <1>2, <1>3, <1>4, <1>5 DEF Acts, Step

LEMMA KeysNext == Types /\ Keys /\ [Next]_vars => Keys'
<1> SUFFICES ASSUME Types, Keys, [Next]_vars
             PROVE  Keys'
  OBVIOUS
<1>1. CASE UNCHANGED vars
  BY <1>1 DEF vars, tables, handling, history, Keys, AdminNeedsKey, KeyOK
<1>2. ASSUME NEW h \in Handlers, Acts(h)
      PROVE  Keys'
  <2>1. ASSUME NEW g \in Handlers
        PROVE  KeyOK(g)'
    <3>1. CASE g = h
      BY <1>2, <3>1, ActorHasKey
    <3>2. CASE g # h
      BY <1>2, <3>2, OthersAreSame DEF Same, KeyOK, Keys
    <3>3. QED
      BY <3>1, <3>2
  <2>2. \A row \in roles \cup orphans : row[1] \in Ids /\ asked'[row[1]] = asked[row[1]]
    BY <1>2, GrownByStep DEF Grown, Types, Tables
  <2>3. AdminNeedsKey'
    <3>1. CASE InsertChild(h)
      <4> DEFINE id == entity[h].id
      <4>1. /\ pc[h] = "children" /\ id \in Ids /\ asked[id] = request[h]
            /\ pending[h] \subseteq Inserts(request[h]) /\ KeyOK(h)
            /\ request[h] \in MadeRequests
        BY <3>1 DEF InsertChild, Types, HandlerOK, RequestOK, EntityOK, CreatorOK, Keys
      <4>2. PICK child \in pending[h] :
              roles' = roles \cup {<<id, role>> : role \in {child} \cap Roles}
        BY <3>1 DEF InsertChild
      <4>3. asked' = asked /\ orphans' = orphans
        BY <3>1 DEF InsertChild, history
      <4>4. child = "Admin" =>
              request[h].op = "signUp" /\ "Admin" \in request[h].roles /\ request[h].keyMatches
        BY <4>1 DEF Inserts, KeyOK, HasKey
      <4> HIDE DEF id
      <4>5. ASSUME NEW row \in roles' \cup orphans', row[2] = "Admin"
            PROVE  LET r == asked'[row[1]]
                   IN  r.op = "signUp" /\ "Admin" \in r.roles /\ r.keyMatches
        <5>1. CASE row \in roles \cup orphans
          BY <4>3, <4>5, <5>1 DEF Keys, AdminNeedsKey
        <5>2. CASE row \notin roles \cup orphans
          <6>1. row = <<id, child>>
            BY <4>2, <4>3, <4>5, <5>2
          <6>2. row[1] = id /\ child = "Admin"
            BY <4>5, <6>1
          <6>3. QED
            BY <4>1, <4>3, <4>4, <6>2
        <5>3. QED
          BY <5>1, <5>2
      <4>6. QED
        BY <4>5 DEF AdminNeedsKey
    <3>2. CASE roles' \cup orphans' = roles \cup orphans
      BY <2>2, <3>2 DEF Keys, AdminNeedsKey
    <3>3. QED
      BY <1>2, <3>1, <3>2, WhoWrites, WriteEffect
  <2>4. QED
    BY <2>1, <2>3 DEF Keys
<1>3. QED
  BY <1>1, <1>2 DEF Next, Acts

\* A role row of an administrator goes back to a sign-up that had the key.
THEOREM AdminsHadTheKey == Spec => []AdminNeedsKey
<1>1. Init => Keys
  BY DEF Init, Keys, AdminNeedsKey, KeyOK
<1>2. Spec => []Keys
  BY <1>1, KeysNext, TypesHold, PTL DEF Spec
<1>3. Keys => AdminNeedsKey
  BY DEF Keys
<1>4. QED
  BY <1>2, <1>3, PTL

----------------------------------------------------------------------------
(***************************************************************************)
(* The welcome mail: as long as a sign-up has not failed, what it no       *)
(* longer waits for is in the tables.  A code leaves them only for an      *)
(* account that has been activated.                                        *)
(***************************************************************************)
HasRoles(id, which) == \A role \in which \cap Roles : <<id, role>> \in roles \cup orphans

InsertedOK(h) ==
    pc[h] = "children" /\ answer[h] = NoValue =>
        /\ HasRoles(entity[h].id, Inserts(request[h]) \ pending[h])
        /\ "code" \in pending[h] \/ entity[h].id \in codes \cup activated

Kept == WelcomeMailIsKept /\ \A h \in Handlers : InsertedOK(h)

LEMMA ActorHasInserted ==
  ASSUME Types, Kept, NEW h \in Handlers, Acts(h)
  PROVE  InsertedOK(h)'
<1> USE DEF Types, Functions, IsPerHandler
<1>1. CASE InsertUser(h)
  <2>1. CASE pc'[h] = "children" /\ pending'[h] = Inserts(request[h]) /\ request'[h] = request[h]
    BY <2>1 DEF InsertedOK, HasRoles, Inserts
  <2>2. CASE End(h, "databaseError")
    BY <2>2 DEF InsertedOK, End
  <2>3. QED
    BY <1>1, <2>1, <2>2, InsertEffect
<1>2. CASE InsertChild(h)
  <2> DEFINE id == entity[h].id
  <2>1. PICK child \in pending[h] :
          /\ pending' = [pending EXCEPT ![h] = @ \ {child}]
          /\ roles' = roles \cup {<<id, role>> : role \in {child} \cap Roles}
          /\ codes' = codes \cup {i \in {id} : child = "code"}
    BY <1>2 DEF InsertChild
  <2>2. /\ pc[h] = "children" /\ InsertedOK(h) /\ activated' = activated
        /\ UNCHANGED <<orphans, pc, request, entity, answer>>
    BY <1>2 DEF InsertChild, Kept, history
  <2>3. pending'[h] = pending[h] \ {child}
    BY <2>1
  <2> HIDE DEF id
  <2>4. ASSUME answer[h] = NoValue
        PROVE  /\ \A role \in (Inserts(request[h]) \ pending'[h]) \cap Roles :
                    <<id, role>> \in roles' \cup orphans'
               /\ "code" \in pending'[h] \/ id \in codes' \cup activated'
    <3>1. /\ \A role \in (Inserts(request[h]) \ pending[h]) \cap Roles :
               <<id, role>> \in roles \cup orphans
          /\ "code" \in pending[h] \/ id \in codes \cup activated
      BY <2>2, <2>4 DEF InsertedOK, HasRoles, id
    <3>2. ASSUME NEW role \in (Inserts(request[h]) \ pending'[h]) \cap Roles
          PROVE  <<id, role>> \in roles' \cup orphans'
      <4>1. CASE role = child
        BY <2>1, <3>2, <4>1
      <4>2. CASE role # child
        BY <2>1, <2>2, <2>3, <3>1, <3>2, <4>2
      <4>3. QED
        BY <4>1, <4>2
    <3>3. "code" \in pending'[h] \/ id \in codes' \cup activated'
      BY <2>1, <2>2, <2>3, <3>1
    <3>4. QED
      BY <3>2, <3>3
  <2>5. InsertedOK(h)'
    <3>1. entity'[h].id = id /\ request'[h] = request[h] /\ answer'[h] = answer[h]
      BY <2>2 DEF id
    <3>2. QED
      BY <2>4, <3>1 DEF InsertedOK, HasRoles
  <2>6. QED
    BY <2>5
<1>3. CASE ChildFails(h)
  <2>1. answer'[h] # NoValue
    BY <1>3, AccountsAssumption DEF ChildFails, Failure, Answers
  <2>2. QED
    BY <2>1 DEF InsertedOK
<1>4. CASE ReceiveAny(h)
  BY <1>4 DEF ReceiveAny, ReceiveSignUp, ReceiveSocial, ReceiveSignIn, ReceiveForgot,
     ReceiveReset, ReceiveVerify, Receive, InsertedOK
<1>5. CASE FindLinked(h) \/ FindEmail(h) \/ FindUser(h) \/ Compare(h) \/ FindAccount(h)
           \/ FindCode(h) \/ Write(h) \/ Link(h) \/ Diff(h)
  BY <1>5 DEF FindLinked, FindEmail, FindUser, Compare, FindAccount, FindCode, Write, Link, Diff,
     Continue, End, InsertedOK
<1>6. CASE SignUpDone(h) \/ FindForgotten(h) \/ DeleteCode(h) \/ DatabaseError(h) \/ Crash(h)
  BY <1>6 DEF SignUpDone, FindForgotten, DeleteCode, DatabaseError, Crash, End, InsertedOK
<1>7. QED
  BY <1>1, <1>2, <1>3, <1>4, <1>5, <1>6 DEF Acts, Step

LEMMA CodesAreUsed ==
  ASSUME Types, Verification, NEW h \in Handlers, Acts(h)
  PROVE  codes \cup activated \subseteq codes' \cup activated'
<1>1. activated \subseteq activated'
  BY GrownByStep
<1>2. CASE InsertChild(h)
  BY <1>1, <1>2 DEF InsertChild
<1>3. CASE DeleteCode(h)
  BY <1>1, <1>3 DEF DeleteCode, Verification, SureOK
<1>4. QED
  BY <1>1, <1>2, <1>3, WhoWrites

LEMMA KeptNext == Types /\ Verification /\ Kept /\ [Next]_vars => Kept'
<1> SUFFICES ASSUME Types, Verification, Kept, [Next]_vars
             PROVE  Kept'
  OBVIOUS
<1>1. CASE UNCHANGED vars
  BY <1>1 DEF vars, tables, handling, history, Kept, WelcomeMailIsKept, InsertedOK, HasRoles
<1>2. ASSUME NEW h \in Handlers, Acts(h)
      PROVE  Kept'
  <2>1. Grown /\ codes \cup activated \subseteq codes' \cup activated'
    BY <1>2, GrownByStep, CodesAreUsed
  <2>2. ASSUME NEW g \in Handlers
        PROVE  InsertedOK(g)'
    <3>1. CASE g = h
      BY <1>2, <3>1, ActorHasInserted
    <3>2. CASE g # h
      <4>1. Same(g) /\ InsertedOK(g)
        BY <1>2, <3>2, OthersAreSame DEF Kept
      <4>2. QED
        BY <2>1, <4>1 DEF Same, InsertedOK, HasRoles, Grown
    <3>3. QED
      BY <3>1, <3>2
  <2>3. ASSUME NEW mail \in mails, mail.kind = "verify"
        PROVE  /\ \A role \in Inserts(asked'[mail.user]) \cap Roles :
                    <<mail.user, role>> \in roles' \cup orphans'
               /\ mail.user \in codes' \cup activated'
    <3>1. mail.user \in Ids
      BY DEF Types, Tables
    <3>2. QED
      BY <2>1, <2>3, <3>1 DEF Grown, Kept, WelcomeMailIsKept
  <2>4. WelcomeMailIsKept'
    <3>1. CASE SignUpDone(h)
      <4> DEFINE id == entity[h].id
      <4>1. /\ pc[h] = "children" /\ pending[h] = {} /\ InsertedOK(h) /\ asked[id] = request[h]
            /\ UNCHANGED <<roles, orphans, codes, activated, asked>>
        BY <3>1 DEF SignUpDone, AllInserted, Types, HandlerOK, CreatorOK, Kept, tables, history
      <4>2. CASE UNCHANGED mails
        BY <2>3, <4>2 DEF WelcomeMailIsKept
      <4>3. CASE answer[h] = NoValue /\ Send("verify", id)
        <5>1. /\ \A role \in Inserts(asked'[id]) \cap Roles : <<id, role>> \in roles' \cup orphans'
              /\ id \in codes' \cup activated'
          BY <4>1, <4>3 DEF InsertedOK, HasRoles
        <5>2. mails' = mails \cup {[kind |-> "verify", user |-> id]}
          BY <4>3 DEF Send
        <5> HIDE DEF id
        <5>3. QED
          BY <2>3, <5>1, <5>2 DEF WelcomeMailIsKept
      <4>4. QED
        BY <3>1, <4>2, <4>3 DEF SignUpDone
    <3>2. CASE FindForgotten(h)
      <4>1. \A mail \in mails' : mail.kind = "verify" => mail \in mails
        BY <3>2 DEF FindForgotten, Send
      <4>2. QED
        BY <2>3, <4>1 DEF WelcomeMailIsKept
    <3>3. CASE UNCHANGED mails
      BY <2>3, <3>3 DEF WelcomeMailIsKept
    <3>4. QED
      BY <1>2, <3>1, <3>2, <3>3, WhoWrites
  <2>5. QED
    BY <2>2, <2>4 DEF Kept
<1>3. QED
  BY <1>1, <1>2 DEF Next, Acts

\* Whoever got the welcome mail has the roles they asked for and a link that works.
THEOREM WelcomeIsKept == Spec => []WelcomeMailIsKept
<1>1. Init => Kept
  BY DEF Init, Kept, WelcomeMailIsKept, InsertedOK
<1>2. Spec => []Kept
  BY <1>1, KeptNext, TypesHold, VerificationHolds, PTL DEF Spec
<1>3. Kept => WelcomeMailIsKept
  BY DEF Kept
<1>4. QED
  BY <1>2, <1>3, PTL

----------------------------------------------------------------------------
(***************************************************************************)
(* Links: once an account has one, only requests that had found none       *)
(* before can add another, and each of them adds one.                      *)
(***************************************************************************)
IsLinking(h) ==
    \/ pc[h] \in {"findEmail", "insertUser", "link"}
    \/ pc[h] = "children" /\ "oauth" \in pending[h]

\* The requests that may still link a Google account to the account `id`.
Linkers(id) ==
    {h \in Handlers : /\ IsLinking(h)
                      /\ request[h].op = "social" /\ request[h].email = users[id].email}

LinkersAreLeft ==
    \A id \in Ids : oauths[id] > 0 => oauths[id] + Cardinality(Linkers(id)) <= Cardinality(Handlers)

LEMMA LinkersAreFinite ==
  ASSUME NEW some \in SUBSET Handlers, NEW fewer \in SUBSET some
  PROVE  /\ Cardinality(fewer) \in Nat /\ Cardinality(some) \in Nat /\ Cardinality(Handlers) \in Nat
         /\ Cardinality(fewer) <= Cardinality(some)
         /\ Cardinality(some) <= Cardinality(Handlers)
         /\ \A h \in some \ fewer : Cardinality(fewer) + 1 <= Cardinality(some)
<1>1. IsFiniteSet(Handlers) /\ IsFiniteSet(some) /\ IsFiniteSet(fewer)
  BY AccountsAssumption, FS_Subset
<1>2. /\ Cardinality(fewer) \in Nat /\ Cardinality(some) \in Nat /\ Cardinality(Handlers) \in Nat
      /\ Cardinality(fewer) <= Cardinality(some) /\ Cardinality(some) <= Cardinality(Handlers)
  BY <1>1, FS_Subset, FS_CardinalityType
<1>3. ASSUME NEW h \in some \ fewer
      PROVE  Cardinality(fewer) + 1 <= Cardinality(some)
  <2>1. fewer \in SUBSET (some \ {h})
    BY <1>3
  <2>2. IsFiniteSet(some \ {h}) /\ Cardinality(some \ {h}) = Cardinality(some) - 1
    BY <1>1, <1>3, FS_RemoveElement
  <2>3. Cardinality(fewer) <= Cardinality(some \ {h})
    BY <2>1, <2>2, FS_Subset
  <2>4. QED
    BY <1>2, <2>2, <2>3
<1>4. QED
  BY <1>2, <1>3

\* A request begins to link only while the account has no link.
LEMMA ActorDoesNotJoin ==
  ASSUME Types, NEW h \in Handlers, Acts(h), NEW id \in Ids, oauths[id] > 0, h \in Linkers(id)'
  PROVE  h \in Linkers(id)
<1> USE DEF Types, Functions, IsPerHandler
<1>1. /\ IsLinking(h)' /\ request'[h].op = "social" /\ request'[h].email = users[id].email
  BY GrownByStep DEF Linkers, Grown
<1>2. SUFFICES IsLinking(h) /\ request'[h] = request[h]
  BY <1>1 DEF Linkers
<1>3. CASE ReceiveAny(h)
  <2>1. \A r \in SignUpRequests : r.op = "signUp"
    BY AccountsAssumption DEF SignUpRequest
  <2>2. QED
    BY <1>1, <1>3, <2>1 DEF ReceiveAny, ReceiveSignUp, ReceiveSocial, ReceiveSignIn,
       ReceiveForgot, ReceiveReset, ReceiveVerify, Receive, IsLinking
<1>4. CASE FindLinked(h)
  <2>1. ASSUME \A i \in Matching(request[h].email) : oauths[i] = 0, request'[h] = request[h]
        PROVE  FALSE
    BY <1>1, <2>1 DEF Matching
  <2>2. QED
    BY <1>1, <1>4, <2>1 DEF FindLinked, Continue, IsLinking
<1>5. CASE FindEmail(h)
  BY <1>1, <1>5 DEF FindEmail, Continue, End, IsLinking
<1>6. CASE InsertUser(h)
  BY <1>1, <1>6 DEF InsertUser, End, IsLinking
<1>7. CASE InsertChild(h) \/ ChildFails(h)
  BY <1>1, <1>7 DEF InsertChild, ChildFails, IsLinking
<1>8. CASE Link(h) \/ FindUser(h) \/ Compare(h) \/ FindAccount(h) \/ FindCode(h) \/ Diff(h)
           \/ Write(h)
  BY <1>1, <1>8 DEF Link, FindUser, Compare, FindAccount, FindCode, Diff, Write, Continue, End,
     IsLinking
<1>9. CASE SignUpDone(h) \/ FindForgotten(h) \/ DeleteCode(h) \/ DatabaseError(h) \/ Crash(h)
  BY <1>1, <1>9 DEF SignUpDone, FindForgotten, DeleteCode, DatabaseError, Crash, End, IsLinking
<1>10. QED
  BY <1>3, <1>4, <1>5, <1>6, <1>7, <1>8, <1>9 DEF Acts, Step

LEMMA LinkersOnlyLeave ==
  ASSUME Types, NEW h \in Handlers, Acts(h), NEW id \in Ids, oauths[id] > 0
  PROVE  Linkers(id)' \subseteq Linkers(id)
<1> SUFFICES ASSUME NEW g \in Handlers, g \in Linkers(id)'
             PROVE  g \in Linkers(id)
  BY DEF Linkers
<1>1. CASE g = h
  BY <1>1, ActorDoesNotJoin
<1>2. CASE g # h
  BY <1>2, OthersAreSame, GrownByStep DEF Same, Grown, Linkers, IsLinking
<1>3. QED
  BY <1>1, <1>2

\* Who adds a link has been among those who may, and is no longer.
LEMMA LinkerLeaves ==
  ASSUME Types, NEW h \in Handlers, InsertChild(h) \/ Link(h),
         NEW id \in Ids, oauths'[id] # oauths[id]
  PROVE  /\ oauths[id] \in Nat /\ oauths'[id] = oauths[id] + 1
         /\ h \in Linkers(id) /\ h \notin Linkers(id)'
         /\ Linkers(id)' \subseteq Linkers(id)
<1> USE DEF Types, Functions, IsPerHandler
<1>1. /\ HandlerOK(h) /\ Tables /\ oauths[id] \in Nat /\ id \in DOMAIN oauths
      /\ users' = users
  BY LenProperties, ElementOfSeq DEF Tables, Ids, InsertChild, Link
<1>2. ASSUME NEW g \in Handlers, g # h
      PROVE  g \in Linkers(id)' <=> g \in Linkers(id)
  BY <1>1, <1>2, OthersAreSame DEF Acts, Step, Same, Linkers, IsLinking
<1>3. CASE InsertChild(h)
  <2>1. PICK child \in pending[h] :
          /\ pending' = [pending EXCEPT ![h] = @ \ {child}]
          /\ oauths' = [oauths EXCEPT ![entity[h].id] = @ + IF child = "oauth" THEN 1 ELSE 0]
    BY <1>3 DEF InsertChild
  <2>2. /\ pc[h] = "children" /\ UNCHANGED <<pc, request>>
        /\ users[entity[h].id].email = request[h].email
        /\ request[h] \in MadeRequests /\ pending[h] \subseteq Inserts(request[h])
    BY <1>1, <1>3 DEF InsertChild, HandlerOK, RequestOK, EntityOK, CreatorOK
  <2>3. id = entity[h].id /\ child = "oauth" /\ oauths'[id] = oauths[id] + 1
    BY <1>1, <2>1
  <2>4. request[h].op = "social"
    BY <2>2, <2>3, AccountsAssumption DEF Inserts, MadeRequests, SignUpRequest, SocialRequest
  <2>5. h \in Linkers(id) /\ h \notin Linkers(id)'
    BY <2>1, <2>2, <2>3, <2>4 DEF Linkers, IsLinking
  <2>6. QED
    BY <1>1, <1>2, <2>3, <2>5 DEF Linkers
<1>4. CASE Link(h)
  <2>1. /\ oauths' = [oauths EXCEPT ![entity[h].id] = @ + 1]
        /\ pc[h] = "link" /\ pc'[h] = "diff" /\ request[h] \in SocialRequest
        /\ users[entity[h].id].email = request[h].email
    BY <1>1, <1>4 DEF Link, Continue, HandlerOK, RequestOK, EntityOK
  <2>2. id = entity[h].id /\ oauths'[id] = oauths[id] + 1
    BY <1>1, <2>1
  <2>3. h \in Linkers(id) /\ h \notin Linkers(id)'
    BY <2>1, <2>2 DEF Linkers, IsLinking, SocialRequest
  <2>4. QED
    BY <1>1, <1>2, <2>2, <2>3 DEF Linkers
<1>5. QED
  BY <1>3, <1>4

LEMMA LinksNext == Types /\ LinkersAreLeft /\ [Next]_vars => LinkersAreLeft'
<1> SUFFICES ASSUME Types, LinkersAreLeft, [Next]_vars
             PROVE  LinkersAreLeft'
  OBVIOUS
<1>1. CASE UNCHANGED vars
  <2>1. UNCHANGED <<users, oauths, pc, request, pending>>
    BY <1>1 DEF vars, tables, handling
  <2>2. \A id : Linkers(id)' = Linkers(id)
    BY <2>1 DEF Linkers, IsLinking
  <2>3. QED
    BY <2>1, <2>2 DEF LinkersAreLeft, Ids
<1>2. ASSUME NEW h \in Handlers, Acts(h)
      PROVE  LinkersAreLeft'
  <2>1. ASSUME NEW id \in Ids, oauths'[id] > 0
        PROVE  oauths'[id] + Cardinality(Linkers(id)') <= Cardinality(Handlers)
    <3> DEFINE before == Linkers(id)
               after  == Linkers(id)'
    <3>1. oauths[id] \in Nat /\ before \in SUBSET Handlers
      BY LenProperties, ElementOfSeq DEF Types, Tables, Ids, Linkers
    <3>2. oauths[id] > 0 => oauths[id] + Cardinality(before) <= Cardinality(Handlers)
      BY DEF LinkersAreLeft
    <3> HIDE DEF before, after
    <3>3. CASE oauths'[id] = oauths[id]
      <4>1. after \in SUBSET before
        BY <1>2, <2>1, <3>3, LinkersOnlyLeave DEF before, after
      <4>2. QED
        BY <2>1, <3>1, <3>2, <3>3, <4>1, LinkersAreFinite DEF before, after
    <3>4. CASE oauths'[id] # oauths[id]
      <4>1. InsertChild(h) \/ Link(h)
        BY <1>2, <3>4, WhoWrites, InsertEffect
      <4>2. /\ oauths'[id] = oauths[id] + 1 /\ h \in before /\ h \notin after
            /\ after \in SUBSET before
        BY <3>4, <4>1, LinkerLeaves DEF before, after
      <4>3. /\ Cardinality(after) + 1 <= Cardinality(before)
            /\ Cardinality(before) <= Cardinality(Handlers)
            /\ Cardinality(after) \in Nat /\ Cardinality(before) \in Nat
            /\ Cardinality(Handlers) \in Nat
        BY <3>1, <4>2, LinkersAreFinite
      <4>4. oauths'[id] + Cardinality(after) <= Cardinality(Handlers)
        BY <3>1, <3>2, <4>2, <4>3
      <4>5. QED
        BY <4>4 DEF after
    <3>5. QED
      BY <3>3, <3>4
  <2>2. \A id \in Ids' : id \notin Ids => oauths'[id] = 0
    BY <1>2, WhoWrites, WriteEffect, InsertEffect DEF Ids
  <2>3. QED
    BY <2>1, <2>2 DEF LinkersAreLeft
<1>3. QED
  BY <1>1, <1>2 DEF Next, Acts

\* Signing in with Google again and again adds no links: there are never more
\* than requests in flight.
THEOREM LinksStayBounded == Spec => []LinksAreBounded
<1>1. Init => LinkersAreLeft
  BY DEF Init, LinkersAreLeft, Ids
<1>2. Spec => []LinkersAreLeft
  BY <1>1, LinksNext, TypesHold, PTL DEF Spec
<1>3. Types /\ LinkersAreLeft => LinksAreBounded
  <2> SUFFICES ASSUME Types, LinkersAreLeft, NEW id \in Ids
               PROVE  oauths[id] <= Cardinality(Handlers)
    BY DEF LinksAreBounded
  <2>1. oauths[id] \in Nat
    BY LenProperties, ElementOfSeq DEF Types, Tables, Ids
  <2>2. Linkers(id) \in SUBSET Handlers
    BY DEF Linkers
  <2>3. Cardinality(Linkers(id)) \in Nat /\ Cardinality(Handlers) \in Nat
    BY <2>2, LinkersAreFinite
  <2>4. QED
    BY <2>1, <2>3 DEF LinkersAreLeft
<1>4. QED
  BY <1>2, <1>3, TypesHold, PTL

----------------------------------------------------------------------------
(***************************************************************************)
(* One request at a time, with the save that it leaves behind: an entity   *)
(* is still what is in the tables, except for what its operation is about. *)
(***************************************************************************)
IsAbout(h, c, value) ==
    \/ c = "password" /\ request[h].op = "reset" /\ value = request[h].password
    \/ c = "verified" /\ request[h].op = "verify" /\ value = TRUE

FreshOK(h) ==
    /\ pc[h] \in {"link", "compare", "diff"} =>
         /\ entity[h].roles = RolesOf(entity[h].id)
         /\ \A c \in DOMAIN entity[h].columns :
              \/ entity[h].columns[c] = users[entity[h].id][c]
              \/ pc[h] = "diff" /\ IsAbout(h, c, entity[h].columns[c])
    /\ pc[h] = "write" =>
         /\ change[h].unlink = {}
         /\ \A c \in DOMAIN change[h].columns : IsAbout(h, c, change[h].columns[c])

Fresh == \A h \in Handlers : FreshOK(h)

\* A step that does not lead to where an entity or a change is at stake.
LEMMA NothingFresh ==
  ASSUME NEW h, pc'[h] \notin {"link", "compare", "diff", "write"}
  PROVE  FreshOK(h)'
BY DEF FreshOK

\* A user that was loaded in this very step.
LEMMA LoadedIsFresh ==
  ASSUME Types, NEW h \in Handlers, NEW id, NEW e, UNCHANGED tables,
         e.id = id /\ e.roles = RolesOf(id),
         pc'[h] \in {"link", "compare", "diff"}, entity'[h] = e, request'[h] = request[h],
         \A c \in DOMAIN e.columns :
            e.columns[c] = users[id][c] \/ (pc'[h] = "diff" /\ IsAbout(h, c, e.columns[c]))
  PROVE  FreshOK(h)'
<1>1. users' = users /\ roles' = roles
  BY DEF tables
<1>2. RolesOf(id)' = RolesOf(id)
  BY <1>1 DEF RolesOf
<1>3. \A c, value : IsAbout(h, c, value)' = IsAbout(h, c, value)
  BY DEF IsAbout
<1>4. QED
  BY <1>1, <1>2, <1>3 DEF FreshOK

LEMMA ActorIsFresh ==
  ASSUME Types, Fresh, NEW h \in Handlers, Acts(h)
  PROVE  FreshOK(h)'
<1> USE DEF Types, Functions
<1>0. Tables /\ HandlerOK(h) /\ FreshOK(h)
  BY DEF Fresh
<1>1. CASE ReceiveAny(h)
  BY <1>1, NothingFresh DEF ReceiveAny, ReceiveSignUp, ReceiveSocial, ReceiveSignIn,
     ReceiveForgot, ReceiveReset, ReceiveVerify, Receive
<1>2. CASE InsertUser(h) \/ InsertChild(h) \/ ChildFails(h)
  BY <1>2, NothingFresh DEF InsertUser, InsertChild, ChildFails, End
<1>3. CASE SignUpDone(h) \/ FindForgotten(h) \/ DeleteCode(h) \/ DatabaseError(h) \/ Crash(h)
  BY <1>3, NothingFresh DEF SignUpDone, FindForgotten, DeleteCode, DatabaseError, Crash, End
<1>4. CASE Write(h)
  BY <1>4, NothingFresh DEF Write, Continue, End
<1>5. \A id : /\ Loaded(id).id = id /\ Loaded(id).roles = RolesOf(id)
              /\ \A c \in DOMAIN Loaded(id).columns : Loaded(id).columns[c] = users[id][c]
  BY DEF Loaded
<1>6. CASE FindLinked(h)
  <2>1. ASSUME NEW id, Continue(h, "diff", Loaded(id), "signedIn")
        PROVE  FreshOK(h)'
    <3>1. pc'[h] = "diff" /\ entity'[h] = Loaded(id) /\ request'[h] = request[h]
      BY <2>1, ContinueFrame DEF Steps, Answers
    <3>2. UNCHANGED tables
      BY <1>6 DEF FindLinked
    <3>3. QED
      BY <1>5, <3>1, <3>2, LoadedIsFresh
  <2>2. CASE Continue(h, "findEmail", NoValue, NoValue)
    BY <2>2, NothingFresh DEF Continue
  <2>3. QED
    BY <1>6, <2>1, <2>2 DEF FindLinked
<1>7. CASE FindEmail(h)
  <2>1. ASSUME NEW id, Continue(h, "link", OnlyId(id), NoValue)
        PROVE  FreshOK(h)'
    <3>1. pc'[h] = "link" /\ entity'[h] = OnlyId(id) /\ request'[h] = request[h]
      BY <2>1, ContinueFrame DEF Steps
    <3>2. UNCHANGED tables
      BY <1>7 DEF FindEmail
    <3>3. OnlyId(id).id = id /\ OnlyId(id).roles = RolesOf(id) /\ DOMAIN OnlyId(id).columns = {}
      BY DEF OnlyId
    <3>4. QED
      BY <3>1, <3>2, <3>3, LoadedIsFresh
  <2>2. CASE Continue(h, "insertUser", NoValue, NoValue) \/ End(h, "serverError")
    BY <2>2, NothingFresh DEF Continue, End
  <2>3. QED
    BY <1>7, <2>1, <2>2 DEF FindEmail
<1>8. CASE Link(h)
  <2>1. /\ pc[h] = "link" /\ pc'[h] = "diff" /\ entity'[h] = entity[h] /\ request'[h] = request[h]
        /\ users' = users /\ roles' = roles
    BY <1>8, ContinueFrame DEF Link, Steps, Answers
  <2>2. RolesOf(entity[h].id)' = RolesOf(entity[h].id)
    BY <2>1 DEF RolesOf
  <2>3. QED
    BY <1>0, <2>1, <2>2 DEF FreshOK
<1>9. CASE FindUser(h)
  <2>1. ASSUME NEW id, Continue(h, "compare", Loaded(id), NoValue)
        PROVE  FreshOK(h)'
    <3>1. pc'[h] = "compare" /\ entity'[h] = Loaded(id) /\ request'[h] = request[h]
      BY <2>1, ContinueFrame DEF Steps
    <3>2. UNCHANGED tables
      BY <1>9 DEF FindUser
    <3>3. QED
      BY <1>5, <3>1, <3>2, LoadedIsFresh
  <2>2. CASE End(h, "unauthorized")
    BY <2>2, NothingFresh DEF End
  <2>3. QED
    BY <1>9, <2>1, <2>2 DEF FindUser
<1>10. CASE Compare(h)
  <2>1. CASE Continue(h, "diff", entity[h], "signedIn")
    <3>1. /\ pc[h] = "compare" /\ pc'[h] = "diff" /\ entity'[h] = entity[h]
          /\ request'[h] = request[h] /\ UNCHANGED tables
      BY <1>10, <2>1, ContinueFrame DEF Compare, Steps, Answers
    <3>2. /\ entity[h].roles = RolesOf(entity[h].id)
          /\ \A c \in DOMAIN entity[h].columns : entity[h].columns[c] = users[entity[h].id][c]
      BY <1>0, <3>1 DEF FreshOK
    <3>3. QED
      BY <3>1, <3>2, LoadedIsFresh
  <2>2. CASE End(h, "serverError") \/ End(h, "unauthorized")
    BY <2>2, NothingFresh DEF End
  <2>3. QED
    BY <1>10, <2>1, <2>2 DEF Compare
<1>11. CASE FindAccount(h)
  <2>1. ASSUME NEW id, NEW e, e = [Loaded(id) EXCEPT !.columns.password = request[h].password],
               Continue(h, "diff", e, "accepted")
        PROVE  FreshOK(h)'
    <3>1. /\ pc'[h] = "diff" /\ entity'[h] = e /\ request'[h] = request[h]
          /\ request[h].op = "reset" /\ UNCHANGED tables
      BY <1>0, <1>11, <2>1, ContinueFrame
         DEF FindAccount, HandlerOK, RequestOK, ResetRequest, Steps, Answers
    <3>2. /\ e.id = id /\ e.roles = RolesOf(id)
          /\ e.columns = [password |-> request[h].password, verified |-> users[id].verified]
      BY <2>1 DEF Loaded
    <3>3. \A c \in DOMAIN e.columns :
             e.columns[c] = users[id][c] \/ IsAbout(h, c, e.columns[c])
      BY <3>1, <3>2 DEF IsAbout
    <3>4. QED
      BY <3>1, <3>2, <3>3, LoadedIsFresh
  <2>2. CASE End(h, "unauthorized")
    BY <2>2, NothingFresh DEF End
  <2>3. QED
    BY <1>11, <2>1, <2>2 DEF FindAccount
<1>12. CASE FindCode(h)
  <2>1. ASSUME NEW id, NEW e, e = [Loaded(id) EXCEPT !.columns.verified = TRUE],
               Continue(h, "diff", e, NoValue)
        PROVE  FreshOK(h)'
    <3>1. /\ pc'[h] = "diff" /\ entity'[h] = e /\ request'[h] = request[h]
          /\ request[h].op = "verify" /\ UNCHANGED tables
      BY <1>0, <1>12, <2>1, ContinueFrame
         DEF FindCode, HandlerOK, RequestOK, VerifyLinks, Steps
    <3>2. /\ e.id = id /\ e.roles = RolesOf(id)
          /\ e.columns = [password |-> users[id].password, verified |-> TRUE]
      BY <2>1 DEF Loaded
    <3>3. \A c \in DOMAIN e.columns :
             e.columns[c] = users[id][c] \/ IsAbout(h, c, e.columns[c])
      BY <3>1, <3>2 DEF IsAbout
    <3>4. QED
      BY <3>1, <3>2, <3>3, LoadedIsFresh
  <2>2. CASE End(h, "badRequest")
    BY <2>2, NothingFresh DEF End
  <2>3. QED
    BY <1>12, <2>1, <2>2 DEF FindCode
<1>13. CASE Diff(h)
  <2> DEFINE e       == entity[h]
             columns == [c \in Differing(e.columns, users[e.id]) |-> e.columns[c]]
  <2>1. /\ pc[h] = "diff" /\ pc'[h] = "write" /\ request'[h] = request[h]
        /\ change'[h].columns = columns /\ change'[h].unlink = RolesOf(e.id) \ e.roles
    BY <1>13 DEF Diff, IsPerHandler
  <2>2. \A c \in DOMAIN columns : IsAbout(h, c, columns[c])
    BY <1>0, <2>1 DEF FreshOK, Differing
  <2>3. RolesOf(e.id) \ e.roles = {}
    BY <1>0, <2>1 DEF FreshOK
  <2> HIDE DEF columns
  <2>4. \A c, value : IsAbout(h, c, value)' = IsAbout(h, c, value)
    BY <2>1 DEF IsAbout
  <2>5. QED
    BY <2>1, <2>2, <2>3, <2>4 DEF FreshOK
<1>14. QED
  BY <1>1, <1>2, <1>3, <1>4, <1>6, <1>7, <1>8, <1>9, <1>10, <1>11, <1>12, <1>13 DEF Acts, Step

OneAtATime == \A g, h \in Handlers : g = h

LEMMA FreshNext == OneAtATime /\ Types /\ Fresh /\ [Next]_vars => Fresh'
<1> SUFFICES ASSUME OneAtATime, Types, Fresh, [Next]_vars
             PROVE  Fresh'
  OBVIOUS
<1>1. CASE UNCHANGED vars
  <2>1. UNCHANGED <<users, roles, pc, request, entity, change>>
    BY <1>1 DEF vars, tables, handling
  <2>2. QED
    BY <2>1 DEF Fresh, FreshOK, RolesOf, IsAbout
<1>2. ASSUME NEW h \in Handlers, Acts(h)
      PROVE  Fresh'
  BY <1>2, ActorIsFresh DEF OneAtATime, Fresh
<1>3. QED
  BY <1>1, <1>2 DEF Next, Acts

\* What a save of fresh entities does, and what an insert does, to accounts that exist.
LEMMA FreshStep ==
  ASSUME Types, Fresh, [Next]_vars
  PROVE  /\ \A id \in Ids : users[id].verified => users'[id].verified
         /\ \A id \in Ids : users'[id].password # users[id].password =>
              \E h \in Handlers : /\ pc[h] = "write"
                                  /\ request[h].op = "reset"
                                  /\ request[h].password = users'[id].password
         /\ roles \subseteq roles'
<1>1. CASE UNCHANGED vars
  BY <1>1 DEF vars, tables
<1>2. ASSUME NEW h \in Handlers, Acts(h)
      PROVE  /\ \A id \in Ids : users[id].verified => users'[id].verified
             /\ \A id \in Ids : users'[id].password # users[id].password =>
                  \E g \in Handlers : /\ pc[g] = "write"
                                      /\ request[g].op = "reset"
                                      /\ request[g].password = users'[id].password
             /\ roles \subseteq roles'
  <2>1. CASE Write(h)
    <3>1. /\ pc[h] = "write" /\ change[h].unlink = {}
          /\ \A c \in DOMAIN change[h].columns : IsAbout(h, c, change[h].columns[c])
      BY <2>1 DEF Write, Fresh, FreshOK
    <3>2. "verified" \in DOMAIN change[h].columns => change[h].columns.verified = TRUE
      BY <3>1 DEF IsAbout
    <3>3. "password" \in DOMAIN change[h].columns =>
            request[h].op = "reset" /\ change[h].columns.password = request[h].password
      BY <3>1 DEF IsAbout
    <3>4. roles \subseteq roles'
      BY <2>1, <3>1 DEF Write
    <3>5. \A id \in Ids : users[id].verified => users'[id].verified
      BY <2>1, <3>2, WriteEffect
    <3>6. \A id \in Ids : users'[id].password # users[id].password =>
            id = entity[h].id /\ request[h].op = "reset" /\ request[h].password = users'[id].password
      BY <2>1, <3>3, WriteEffect
    <3>7. QED
      BY <3>1, <3>4, <3>5, <3>6
  <2>2. CASE InsertUser(h)
    BY <2>2, InsertEffect DEF InsertUser
  <2>3. CASE InsertChild(h)
    BY <2>3 DEF InsertChild
  <2>4. CASE UNCHANGED <<users, roles>>
    BY <2>4
  <2>5. QED
    BY <1>2, <2>1, <2>2, <2>3, <2>4, WhoWrites
<1>3. QED
  BY <1>1, <1>2 DEF Next, Acts

LEMMA FreshHolds == ASSUME OneAtATime PROVE Spec => []Fresh
<1>1. Init => Fresh
  BY DEF Init, Fresh, FreshOK
<1>2. Types /\ Fresh /\ [Next]_vars => Fresh'
  BY FreshNext
<1>3. QED
  BY <1>1, <1>2, TypesHold, PTL DEF Spec

(***************************************************************************)
(* With one request at a time, its background save included, an account    *)
(* that was verified stays so: to undo it takes a second request.          *)
(***************************************************************************)
THEOREM SerialVerificationsLast == ASSUME OneAtATime PROVE Spec => VerificationIsForever
<1>1. Types /\ Fresh /\ [Next]_vars =>
        [\A id \in Ids : users[id].verified => users'[id].verified]_users
  BY FreshStep
<1>2. QED
  BY <1>1, FreshHolds, TypesHold, PTL DEF Spec, VerificationIsForever

(***************************************************************************)
(* With one request at a time, a password changes only by a reset: what    *)
(* the run reset_undone shows needs a second request.                      *)
(***************************************************************************)
THEOREM SerialResetsLast == ASSUME OneAtATime PROVE Spec => PasswordOnlyByReset
<1>1. Types /\ Fresh /\ [Next]_vars =>
        [\A id \in Ids : users'[id].password # users[id].password =>
           \E h \in Handlers : /\ pc[h] = "write"
                               /\ request[h].op = "reset"
                               /\ request[h].password = users'[id].password]_users
  BY FreshStep
<1>2. QED
  BY <1>1, FreshHolds, TypesHold, PTL DEF Spec, PasswordOnlyByReset

(***************************************************************************)
(* With one request at a time, no save takes a role from an account.       *)
(***************************************************************************)
THEOREM SerialRolesAreKept == ASSUME OneAtATime PROVE Spec => RolesAreKept
<1>1. Types /\ Fresh /\ [Next]_vars => [roles \subseteq roles']_roles
  BY FreshStep
<1>2. QED
  BY <1>1, FreshHolds, TypesHold, PTL DEF Spec, RolesAreKept

----------------------------------------------------------------------------
(* The refinement of UserTable.                                            *)

SeenUser == [verified: BOOLEAN, roles: SUBSET Roles]

\* One row for each user.
RowsMatch ==
    /\ UserRows \in Seq(SeenUser)
    /\ Len(UserRows) = Len(users)
    /\ DOMAIN UserRows = Ids
    /\ \A id \in Ids : UserRows[id] = Seen(id)

LEMMA RowsMatchUsers == Tables => RowsMatch
<1> SUFFICES ASSUME Tables
             PROVE  RowsMatch
  OBVIOUS
<1>1. /\ Ids = 1 .. Len(users) /\ Len(users) \in Nat
      /\ \A id \in Ids : users[id] \in User
  BY LenProperties, ElementOfSeq DEF Tables, Ids
<1>2. \A id \in Ids : Seen(id) \in SeenUser
  BY <1>1 DEF Seen, SeenUser, User
<1>3. UserRows \in [1 .. Len(users) -> SeenUser]
  BY <1>1, <1>2 DEF UserRows
<1>4. QED
  BY <1>1, <1>3, IsASeq, LenProperties, SeqDef DEF UserRows, RowsMatch

\* Only what the guards see of one user changes: a save.
LEMMA OneUserIsSaved ==
  ASSUME Tables, Tables', NEW id \in Ids, Ids' = Ids,
         \A i \in Ids : i # id => Seen(i)' = Seen(i),
         activated' = IF users'[id].verified THEN activated \cup {id} ELSE activated
  PROVE  Table!Save
<1> DEFINE verified == users'[id].verified
           own      == {role \in Roles : <<id, role>> \in roles'}
           next     == [UserRows EXCEPT ![id] = [verified |-> verified, roles |-> own]]
<1>1. /\ DOMAIN UserRows = Ids /\ UserRows = [i \in Ids |-> Seen(i)]
      /\ \A i \in Ids : UserRows[i] = Seen(i)
  BY RowsMatchUsers DEF RowsMatch, UserRows
<1>2. verified \in BOOLEAN /\ own \in SUBSET Roles
  <2>1. users' \in Seq(User) /\ id \in DOMAIN users'
    BY DEF Tables, Ids
  <2>2. users'[id] \in User
    BY <2>1, LenProperties, ElementOfSeq
  <2>3. QED
    BY <2>2 DEF User
<1>3. UserRows' = [i \in Ids |-> Seen(i)']
  BY DEF UserRows
<1>4. Seen(id)' = [verified |-> verified, roles |-> own]
  BY DEF Seen
<1>5. UserRows' = next
  BY <1>1, <1>3, <1>4
<1>6. QED
  BY <1>1, <1>2, <1>5 DEF Table!Save

\* A new user is inserted, unverified and without a role.
LEMMA NewUserIsInserted ==
  ASSUME Types, Tables', NEW h \in Handlers, InsertUser(h), ~UNCHANGED users
  PROVE  Table!Insert
<1> DEFINE new == [verified |-> FALSE, roles |-> {}]
<1>1. Tables
  BY DEF Types
<1> PICK id \in Nat : id = Len(users) + 1
  BY <1>1, LenProperties DEF Tables
<1>2. /\ Ids' = Ids \cup {id} /\ id \notin Ids
      /\ \A i \in Ids : users'[i] = users[i]
      /\ users'[id].verified = FALSE
  <2>1. LET new1 == Len(users) + 1
        IN  /\ Ids' = Ids \cup {new1} /\ new1 \notin Ids
            /\ \A i \in Ids : users'[i] = users[i]
            /\ users'[new1] = NewUser(request[h])
    BY InsertEffect
  <2>2. NewUser(request[h]).verified = FALSE
    BY DEF NewUser
  <2>3. QED
    BY <2>1, <2>2
<1>3. /\ UserRows \in Seq(SeenUser) /\ UserRows' \in Seq(SeenUser)
      /\ Len(UserRows) = Len(users) /\ Len(UserRows') = Len(users')
      /\ \A i \in Ids : UserRows[i] = Seen(i)
      /\ \A i \in Ids' : UserRows'[i] = Seen(i)'
  <2>1. Tables' => RowsMatch'
    BY RowsMatchUsers, PTL
  <2>2. QED
    BY <1>1, <2>1, RowsMatchUsers DEF RowsMatch
<1>4. /\ Len(users) \in Nat /\ Ids = 1 .. Len(users) /\ Ids' = 1 .. Len(users')
      /\ Len(users') \in Nat
  BY <1>1, LenProperties DEF Tables, Ids
<1>5. UNCHANGED <<roles, activated>> /\ roles \subseteq Ids \X Roles
  BY <1>1 DEF InsertUser, Tables
<1>6. \A i \in Ids : Seen(i)' = Seen(i)
  BY <1>2, <1>5 DEF Seen
<1>7. Seen(id)' = new
  BY <1>2, <1>5 DEF Seen
<1>8. new \in SeenUser
  BY DEF SeenUser
<1> HIDE DEF new
<1>9. UserRows' = Append(UserRows, new)
  <2> DEFINE next == Append(UserRows, new)
  <2>1. /\ next \in Seq(SeenUser) /\ Len(next) = Len(UserRows) + 1
        /\ \A i \in 1 .. Len(UserRows) : next[i] = UserRows[i]
        /\ next[Len(UserRows) + 1] = new
    BY <1>3, <1>8, AppendProperties
  <2>2. \A i \in Ids : UserRows'[i] = next[i]
    BY <1>2, <1>3, <1>4, <1>6, <2>1
  <2>3. UserRows'[id] = next[id]
    BY <1>2, <1>3, <1>7, <2>1
  <2>4. Len(next) = Len(UserRows') /\ 1 .. Len(UserRows') = Ids \cup {id}
    BY <1>2, <1>3, <1>4, <2>1
  <2> HIDE DEF next
  <2>5. UserRows' = next
    BY <1>3, <2>1, <2>2, <2>3, <2>4, SeqEqual
  <2>6. QED
    BY <2>5 DEF next
<1>10. QED
  BY <1>5, <1>9 DEF Table!Insert, new

\* A save of an entity touches its own user.
LEMMA WriteIsASave ==
  ASSUME Types, Tables', VerifiedIsActivated, NEW h \in Handlers, Write(h)
  PROVE  Table!Save
<1> DEFINE id == entity[h].id
<1>1. /\ Tables /\ id \in Ids /\ Ids' = Ids
      /\ \A i \in Ids : i # id => users'[i] = users[i]
  BY WriteEffect DEF Types
<1>2. /\ change[h].link \cup change[h].unlink \subseteq RowsOf(id)
      /\ roles' = (roles \ change[h].unlink) \cup change[h].link
      /\ activated' = activated \cup {i \in Ids : users'[i].verified}
  BY DEF Write, Types, HandlerOK, ChangeOK
<1> HIDE DEF id
<1>3. \A i \in Ids : i # id => Seen(i)' = Seen(i)
  <2> SUFFICES ASSUME NEW i \in Ids, i # id
               PROVE  Seen(i)' = Seen(i)
    OBVIOUS
  <2>1. \A role : <<i, role>> \in roles' <=> <<i, role>> \in roles
    BY <1>2 DEF RowsOf
  <2>2. users'[i] = users[i]
    BY <1>1
  <2>3. QED
    BY <2>1, <2>2 DEF Seen
<1>4. activated' = IF users'[id].verified THEN activated \cup {id} ELSE activated
  <2>1. \A i \in Ids : users[i].verified \in BOOLEAN
    <3>1. \A i \in Ids : users[i] \in User
      BY <1>1, LenProperties, ElementOfSeq DEF Tables, Ids
    <3>2. QED
      BY <1>1, <3>1 DEF User
  <2>2. \A i \in Ids : i # id /\ users'[i].verified => i \in activated
    BY <1>1, <2>1 DEF VerifiedIsActivated
  <2>3. QED
    BY <1>1, <1>2, <2>2
<1>5. QED
  BY <1>1, <1>3, <1>4, OneUserIsSaved

\* An insert of a role, of a code or of a link is a save of its user, too.
LEMMA InsertChildIsASave ==
  ASSUME Types, Tables', VerifiedIsActivated, NEW h \in Handlers, InsertChild(h)
  PROVE  Table!Save
<1> DEFINE id == entity[h].id
<1>1. Tables /\ id \in Ids /\ UNCHANGED <<users, activated>>
  BY DEF InsertChild, Types, HandlerOK, EntityOK, history
<1>2. PICK child \in pending[h] : roles' = roles \cup {<<id, role>> : role \in {child} \cap Roles}
  BY DEF InsertChild
<1> HIDE DEF id
<1>3. Ids' = Ids
  BY <1>1 DEF Ids
<1>4. \A i \in Ids : i # id => Seen(i)' = Seen(i)
  BY <1>1, <1>2 DEF Seen
<1>5. activated' = IF users'[id].verified THEN activated \cup {id} ELSE activated
  <2>1. users[id].verified \in BOOLEAN
    <3>1. \A i \in Ids : users[i] \in User
      BY <1>1, LenProperties, ElementOfSeq DEF Tables, Ids
    <3>2. QED
      BY <1>1, <3>1 DEF User
  <2>2. users[id].verified => id \in activated
    BY <1>1, <2>1 DEF VerifiedIsActivated
  <2>3. QED
    BY <1>1, <2>2
<1>6. QED
  BY <1>1, <1>3, <1>4, <1>5, OneUserIsSaved

(***************************************************************************)
(* What module Access assumes of the users is what Accounts makes of them, *)
(* for any number of accounts, requests and roles.                         *)
(***************************************************************************)
THEOREM UsersAreAsAssumed == Spec => ImplementsUserTable
<1>1. Init => Table!Init
  <2> SUFFICES ASSUME Init PROVE Table!Init
    OBVIOUS
  <2>1. Tables
    BY TypesInit DEF Types
  <2>2. UserRows = <<>>
    BY <2>1, RowsMatchUsers, EmptySeq DEF Init, RowsMatch
  <2>3. QED
    BY <2>2 DEF Init, Table!Init
<1>2. Types /\ Types' /\ Verification /\ [Next]_vars =>
        [Table!Insert \/ Table!Save]_<<UserRows, activated>>
  <2> SUFFICES ASSUME Types, Types', Verification, [Next]_vars
               PROVE  [Table!Insert \/ Table!Save]_<<UserRows, activated>>
    OBVIOUS
  <2>1. Tables' /\ VerifiedIsActivated
    BY DEF Types, Verification
  <2>2. CASE UNCHANGED <<users, roles, activated>>
    BY <2>2 DEF UserRows, Seen, Ids
  <2>3. ASSUME NEW h \in Handlers, Acts(h), ~UNCHANGED <<users, roles, activated>>
        PROVE  Table!Insert \/ Table!Save
    <3>1. CASE InsertUser(h)
      <4>1. ~UNCHANGED users
        BY <2>3, <3>1 DEF InsertUser
      <4>2. QED
        BY <2>1, <3>1, <4>1, NewUserIsInserted
    <3>2. CASE Write(h)
      BY <2>1, <3>2, WriteIsASave
    <3>3. CASE InsertChild(h)
      BY <2>1, <3>3, InsertChildIsASave
    <3>4. QED
      BY <2>3, <3>1, <3>2, <3>3, WhoWrites
  <2>4. QED
    BY <2>2, <2>3 DEF Next, Acts, vars, tables, history
<1>3. QED
  BY <1>1, <1>2, TypesHold, VerificationHolds, PTL DEF Spec, ImplementsUserTable, Table!Spec

=============================================================================
