------------------------------ MODULE Accounts ------------------------------
(***************************************************************************)
(* UsersService and AuthService: signing up, signing in (with a password   *)
(* or with Google), resetting a password and verifying an email address,   *)
(* over the tables user, role, verification and oauth.                     *)
(*                                                                         *)
(* A Handler is a request in flight, in any worker, together with what it  *)
(* leaves running: signIn and createNewPassword answer before the save     *)
(* they have started is done.  The transaction that signUp and             *)
(* loginWithSocialNetwork open belongs to a connection none of their       *)
(* queries uses, because the repositories take theirs from the pool: each  *)
(* query commits by itself and the rollback undoes nothing.                *)
(*                                                                         *)
(* `save` of a loaded entity reads the row again, then writes, in a        *)
(* transaction of its own, the columns in which the entity differs from    *)
(* that reading.  It treats the eager relation `roles` in the same way:    *)
(* role rows the entity does not have lose their user, and those it has    *)
(* get it.                                                                 *)
(***************************************************************************)
EXTENDS Integers, Sequences, FiniteSets

CONSTANTS
    Handlers,        \* requests that may be in flight at the same time
    Emails,
    Passwords,
    SignUpRequests,  \* bodies of POST /users/sign-up
    NoValue          \* null, or an undefined variable of a handler

Roles == {"Guest", "Host", "Admin"}

SignUpRequest ==
    [op: {"signUp"}, email: Emails, password: Passwords, roles: SUBSET {"Host", "Admin"},
     keyMatches: BOOLEAN]
SignInRequest == [op: {"signIn"}, email: Emails, password: Passwords]
SocialRequest == [op: {"social"}, email: Emails]
ForgotRequest == [op: {"forgot"}, email: Emails]
ResetRequest  == [op: {"reset"}, email: Emails, password: Passwords]
VerifyRequest == [op: {"verify"}, user: Nat]

\* serverError: a 500 that the code makes; databaseError: one for a failed query.
Answers == {"created", "signedIn", "accepted", "verified", "unauthorized", "notFound",
            "badRequest", "serverError", "databaseError"}

ASSUME AccountsAssumption ==
    /\ IsFiniteSet(Handlers)
    /\ SignUpRequests \subseteq SignUpRequest
    /\ NoValue \notin Passwords \cup Answers
    /\ NoValue \notin SignUpRequest \cup SignInRequest \cup SocialRequest
                    \cup ForgotRequest \cup ResetRequest \cup VerifyRequest

VARIABLES
    users,    \* the rows of the table user, by id
    oauths,   \* by user id: how many rows of the table oauth it has
    roles,    \* <<user id, role>>: the role rows that have their user
    orphans,  \* <<user id, role>>: the role rows whose user has become null
    codes,    \* the ids of the users that have a row in verification
    mails,    \* the links that were mailed
    pc,       \* what the handler waits for
    request,
    entity,   \* the User that the handler has loaded
    change,   \* what its save is about to write
    pending,  \* the inserts that run in parallel
    answer,   \* the last answer of the handler
    asked,    \* history, by user id: the request that created the account
    visited,  \* history: the users whose mailed link was followed
    activated \* history: the users that have been verified, at one time or another

tables   == <<users, oauths, roles, orphans, codes>>
handling == <<pc, request, entity, change, pending, answer>>
history  == <<asked, visited, activated>>
vars     == <<tables, mails, handling, history>>

Ids == DOMAIN users

Steps == {"findLinked", "findEmail", "insertUser", "children", "link", "findUser",
          "compare", "findForgotten", "findAccount", "findCode", "diff", "write",
          "deleteCode"}

----------------------------------------------------------------------------
Init ==
    /\ users = <<>>
    /\ oauths = <<>>
    /\ roles = {}
    /\ orphans = {}
    /\ codes = {}
    /\ mails = {}
    /\ pc = [h \in Handlers |-> "idle"]
    /\ request = [h \in Handlers |-> NoValue]
    /\ entity = [h \in Handlers |-> NoValue]
    /\ change = [h \in Handlers |-> NoValue]
    /\ pending = [h \in Handlers |-> {}]
    /\ answer = [h \in Handlers |-> NoValue]
    /\ asked = <<>>
    /\ visited = {}
    /\ activated = {}

Receive(h, step, r) ==
    /\ pc[h] = "idle"
    /\ pc' = [pc EXCEPT ![h] = step]
    /\ request' = [request EXCEPT ![h] = r]
    /\ answer' = [answer EXCEPT ![h] = NoValue]
    /\ UNCHANGED <<tables, mails, entity, change, pending, history>>

\* The handler goes on with the entity e; `a` is its answer, if it has answered.
Continue(h, step, e, a) ==
    /\ pc' = [pc EXCEPT ![h] = step]
    /\ entity' = [entity EXCEPT ![h] = e]
    /\ answer' = [answer EXCEPT ![h] = a]
    /\ UNCHANGED <<request, change, pending>>

\* Nothing of the request is left but its answer.
End(h, a) ==
    /\ pc' = [pc EXCEPT ![h] = "idle"]
    /\ request' = [request EXCEPT ![h] = NoValue]
    /\ entity' = [entity EXCEPT ![h] = NoValue]
    /\ change' = [change EXCEPT ![h] = NoValue]
    /\ pending' = [pending EXCEPT ![h] = {}]
    /\ answer' = [answer EXCEPT ![h] = a]

\* What an exception makes of the answer: a request is answered once.
Failure(h) == IF answer[h] = NoValue THEN "databaseError" ELSE answer[h]

\* A mail is the link in it, and stays in the mailbox.
Send(kind, id) == mails' = mails \cup {[kind |-> kind, user |-> id]}

Matching(email) == {id \in Ids : users[id].email = email}
Exists(email)   == Matching(email) # {}
Row(email)      == CHOOSE id \in Matching(email) : TRUE

RolesOf(id) == {row \in roles : row[1] = id}

\* Mutants: a column, or the roles, are not selected.
LoadedWithoutPassword(id) ==
    [id |-> id, roles |-> RolesOf(id),
     columns |-> [password |-> NoValue, verified |-> users[id].verified]]
LoadedUnverified(id) ==
    [id |-> id, roles |-> RolesOf(id),
     columns |-> [password |-> users[id].password, verified |-> FALSE]]
LoadedWithoutRoles(id) ==
    [id |-> id, roles |-> {},
     columns |-> [password |-> users[id].password, verified |-> users[id].verified]]

\* A User as find returns it, and one of which only the id was selected.
Loaded(id) ==
    [id |-> id, roles |-> RolesOf(id),
     columns |-> [password |-> users[id].password, verified |-> users[id].verified]]
OnlyId(id) == [id |-> id, roles |-> RolesOf(id), columns |-> <<>>]

----------------------------------------------------------------------------
(* POST /users/sign-up, and the first half of a sign-in with Google.       *)

ReceiveSignUp(h) == \E r \in SignUpRequests : Receive(h, "findEmail", r)

ReceiveSocial(h) ==
    \E email \in Emails : Receive(h, "findLinked", [op |-> "social", email |-> email])

\* Mutant: every sign-in with Google is taken for the first one.
FindLinkedNever(h) ==
    /\ pc[h] = "findLinked"
    /\ Continue(h, "findEmail", NoValue, NoValue)
    /\ UNCHANGED <<tables, mails, history>>

\* An account of that address which is linked to the Google account.
FindLinked(h) ==
    /\ pc[h] = "findLinked"
    /\ \/ \E id \in Matching(request[h].email) :
            oauths[id] > 0 /\ Continue(h, "diff", Loaded(id), "signedIn")
       \/ /\ \A id \in Matching(request[h].email) : oauths[id] = 0
          /\ Continue(h, "findEmail", NoValue, NoValue)
    /\ UNCHANGED <<tables, mails, history>>

\* Mutant: the key is not looked at.
NoKeyNeeded(r) == TRUE

HasKey(r) == r.op = "signUp" /\ "Admin" \in r.roles => r.keyMatches

\* What signUp throws is caught in signUp, and becomes a 500 there.
FindEmail(h) ==
    /\ pc[h] = "findEmail"
    /\ LET r == request[h]
       IN  \/ /\ HasKey(r) /\ ~Exists(r.email)
              /\ Continue(h, "insertUser", NoValue, NoValue)
           \/ /\ ~HasKey(r) \/ Exists(r.email)
              /\ r.op = "signUp"
              /\ End(h, "serverError")
           \/ /\ Exists(r.email)
              /\ r.op = "social"
              /\ Continue(h, "link", OnlyId(Row(r.email)), NoValue)
    /\ UNCHANGED <<tables, mails, history>>

\* The rows that are inserted once the user is there: its roles and its code.
Inserts(r) ==
    {"Guest", "code"} \cup IF r.op = "signUp" THEN r.roles ELSE {"oauth"}

\* Mutant: the account is made as a verified one.
NewUserVerified(r) ==
    [email |-> r.email, verified |-> TRUE,
     password |-> IF r.op = "signUp" THEN r.password ELSE NoValue]

NewUser(r) ==
    [email |-> r.email, verified |-> FALSE,
     password |-> IF r.op = "signUp" THEN r.password ELSE NoValue]

\* Mutant: the column email is not unique.
IsFree(email) == TRUE

IsUnique(email) == ~Exists(email)

\* The unique column decides, however long ago findEmail was.
InsertUser(h) ==
    /\ pc[h] = "insertUser"
    /\ LET r == request[h]
       IN  \/ /\ IsUnique(r.email)
              /\ users' = Append(users, NewUser(r))
              /\ oauths' = Append(oauths, 0)
              /\ asked' = Append(asked, r)
              /\ pc' = [pc EXCEPT ![h] = "children"]
              /\ entity' = [entity EXCEPT ![h] =
                               [id |-> Len(users) + 1, roles |-> {}, columns |-> <<>>]]
              /\ pending' = [pending EXCEPT ![h] = Inserts(r)]
              /\ UNCHANGED <<request, change, answer>>
           \/ /\ ~IsUnique(r.email)
              /\ End(h, "databaseError")
              /\ UNCHANGED <<users, oauths, asked>>
    /\ UNCHANGED <<roles, orphans, codes, mails, visited, activated>>

\* One of the parallel inserts commits, in any order.
InsertChild(h) ==
    /\ pc[h] = "children"
    /\ \E child \in pending[h] :
         LET id == entity[h].id
         IN  /\ pending' = [pending EXCEPT ![h] = @ \ {child}]
             /\ roles' = roles \cup {<<id, role>> : role \in {child} \cap Roles}
             /\ codes' = codes \cup {i \in {id} : child = "code"}
             /\ oauths' = [oauths EXCEPT ![id] = @ + IF child = "oauth" THEN 1 ELSE 0]
    /\ UNCHANGED <<users, orphans, mails, pc, request, entity, change, answer, history>>

\* One fails: Promise.all rejects and the 500 is sent while the others go on.
ChildFails(h) ==
    /\ pc[h] = "children"
    /\ \E child \in pending[h] : pending' = [pending EXCEPT ![h] = @ \ {child}]
    /\ answer' = [answer EXCEPT ![h] = Failure(h)]
    /\ UNCHANGED <<tables, mails, pc, request, entity, change, history>>

\* Mutant: parallelAsync.done() is not awaited.
NotAwaited(h) == TRUE

AllInserted(h) == pending[h] = {}

SignUpDone(h) ==
    /\ pc[h] = "children"
    /\ AllInserted(h)
    /\ \/ /\ answer[h] = NoValue
          /\ Send("verify", entity[h].id)
          /\ End(h, "created")
       \/ /\ answer[h] # NoValue
          /\ UNCHANGED mails
          /\ End(h, answer[h])
    /\ UNCHANGED <<tables, history>>

\* The account is there, without the Google account: link them, without a look.
Link(h) ==
    /\ pc[h] = "link"
    /\ oauths' = [oauths EXCEPT ![entity[h].id] = @ + 1]
    /\ Continue(h, "diff", entity[h], "signedIn")
    /\ UNCHANGED <<users, roles, orphans, codes, mails, history>>

----------------------------------------------------------------------------
(* POST /users/sign-in                                                     *)

ReceiveSignIn(h) ==
    \E r \in SignInRequest : Receive(h, "findUser", r)

FindUser(h) ==
    /\ pc[h] = "findUser"
    /\ \/ /\ Exists(request[h].email)
          /\ Continue(h, "compare", Loaded(Row(request[h].email)), NoValue)
       \/ /\ ~Exists(request[h].email)
          /\ End(h, "unauthorized")
    /\ UNCHANGED <<tables, mails, history>>

\* bcrypt throws on the null password of an account made by Google.
Compare(h) ==
    /\ pc[h] = "compare"
    /\ LET password == entity[h].columns.password
       IN  \/ /\ password = request[h].password
              /\ Continue(h, "diff", entity[h], "signedIn")
           \/ /\ password # request[h].password
              /\ End(h, IF password = NoValue THEN "serverError" ELSE "unauthorized")
    /\ UNCHANGED <<tables, mails, history>>

----------------------------------------------------------------------------
(* POST /users/forgot-password, POST /users/create-new-password            *)

ReceiveForgot(h) ==
    \E email \in Emails : Receive(h, "findForgotten", [op |-> "forgot", email |-> email])

FindForgotten(h) ==
    /\ pc[h] = "findForgotten"
    /\ LET email == request[h].email
       IN  \/ /\ Exists(email)
              /\ Send("reset", Row(email))
              /\ End(h, "accepted")
           \/ /\ ~Exists(email)
              /\ UNCHANGED mails
              /\ End(h, "notFound")
    /\ UNCHANGED <<tables, history>>

\* The link is good for an hour, any number of times.
ReceiveReset(h) ==
    \E mail \in mails, password \in Passwords :
        /\ mail.kind = "reset"
        /\ Receive(h, "findAccount", [op |-> "reset", email |-> users[mail.user].email,
                                      password |-> password])

\* updatePassword is not awaited: the answer is sent first.
FindAccount(h) ==
    /\ pc[h] = "findAccount"
    /\ \/ /\ Exists(request[h].email)
          /\ Continue(h, "diff",
                      [Loaded(Row(request[h].email)) EXCEPT
                         !.columns.password = request[h].password],
                      "accepted")
       \/ /\ ~Exists(request[h].email)
          /\ End(h, "unauthorized")
    /\ UNCHANGED <<tables, mails, history>>

----------------------------------------------------------------------------
(* GET /auth/verification/:code                                            *)

ReceiveVerify(h) ==
    \E mail \in mails :
        /\ mail.kind = "verify"
        /\ Receive(h, "findCode", [op |-> "verify", user |-> mail.user])

FindCode(h) ==
    /\ pc[h] = "findCode"
    /\ LET id == request[h].user
       IN  \/ /\ id \in codes
              /\ Continue(h, "diff", [Loaded(id) EXCEPT !.columns.verified = TRUE], NoValue)
              /\ visited' = visited \cup {id}
           \/ /\ id \notin codes
              /\ End(h, "badRequest")
              /\ UNCHANGED visited
    /\ UNCHANGED <<tables, mails, asked, activated>>

DeleteCode(h) ==
    /\ pc[h] = "deleteCode"
    /\ codes' = codes \ {request[h].user}
    /\ End(h, "verified")
    /\ UNCHANGED <<users, oauths, roles, orphans, mails, history>>

----------------------------------------------------------------------------
(* userRepository.save(user), in the two steps of TypeORM.                 *)

Differing(columns, row) == {c \in DOMAIN columns : columns[c] # row[c]}

Diff(h) ==
    /\ pc[h] = "diff"
    /\ pc' = [pc EXCEPT ![h] = "write"]
    /\ LET e == entity[h]
       IN  change' = [change EXCEPT ![h] =
             [columns |-> [c \in Differing(e.columns, users[e.id]) |-> e.columns[c]],
              link    |-> e.roles \ RolesOf(e.id),
              unlink  |-> RolesOf(e.id) \ e.roles]]
    /\ UNCHANGED <<tables, mails, request, entity, pending, answer, history>>

\* Mutant: a role row that gets its user back is still counted as without one.
OrphanedForGood(h) == orphans \cup change[h].unlink

Orphaned(h) == (orphans \cup change[h].unlink) \ change[h].link

\* The save commits.  verifyEmail goes on with the code; the others are done.
Write(h) ==
    /\ pc[h] = "write"
    /\ users' = [users EXCEPT ![entity[h].id] =
          [c \in DOMAIN @ |->
             IF c \in DOMAIN change[h].columns THEN change[h].columns[c] ELSE @[c]]]
    /\ roles' = (roles \ change[h].unlink) \cup change[h].link
    /\ orphans' = Orphaned(h)
    /\ \/ /\ request[h].op = "verify"
          /\ Continue(h, "deleteCode", entity[h], NoValue)
       \/ /\ request[h].op # "verify"
          /\ End(h, answer[h])
    /\ activated' = activated \cup {id \in Ids : users'[id].verified}
    /\ UNCHANGED <<oauths, codes, mails, asked, visited>>

----------------------------------------------------------------------------
(* The environment.                                                        *)

\* A query is refused: what was committed stays, and a save that nobody awaits
\* fails without a trace.
DatabaseError(h) ==
    /\ pc[h] \in Steps \ {"children", "compare"}
    /\ End(h, Failure(h))
    /\ UNCHANGED <<tables, mails, history>>

\* The worker is killed.
Crash(h) ==
    /\ pc[h] # "idle"
    /\ End(h, answer[h])
    /\ UNCHANGED <<tables, mails, history>>

Step(h) ==
    \/ FindLinked(h) \/ FindEmail(h) \/ InsertUser(h) \/ InsertChild(h) \/ SignUpDone(h)
    \/ Link(h) \/ FindUser(h) \/ Compare(h) \/ FindForgotten(h) \/ FindAccount(h)
    \/ FindCode(h) \/ DeleteCode(h) \/ Diff(h) \/ Write(h)

ReceiveAny(h) ==
    \/ ReceiveSignUp(h) \/ ReceiveSocial(h) \/ ReceiveSignIn(h)
    \/ ReceiveForgot(h) \/ ReceiveReset(h) \/ ReceiveVerify(h)

Next ==
    \E h \in Handlers : Step(h) \/ ReceiveAny(h) \/ ChildFails(h) \/ DatabaseError(h) \/ Crash(h)

Spec == Init /\ [][Next]_vars

----------------------------------------------------------------------------
(* Properties.                                                             *)

User == [email: Emails, password: Passwords \cup {NoValue}, verified: BOOLEAN]

Column == {"password", "verified"}

ColumnsOK(columns) ==
    /\ DOMAIN columns \subseteq Column
    /\ "password" \in DOMAIN columns => columns.password \in Passwords \cup {NoValue}
    /\ "verified" \in DOMAIN columns => columns.verified \in BOOLEAN

\* Every variable has its type, and a handler holds what its step works on.
TypeOK ==
    /\ users \in Seq(User)
    /\ oauths \in Seq(Nat)
    /\ Len(oauths) = Len(users) /\ Len(asked) = Len(users)
    /\ roles \subseteq Ids \X Roles /\ orphans \subseteq Ids \X Roles
    /\ roles \cap orphans = {}
    /\ codes \subseteq Ids /\ visited \subseteq Ids /\ activated \subseteq Ids
    /\ mails \subseteq [kind: {"verify", "reset"}, user: Ids]
    /\ pc \in [Handlers -> {"idle"} \cup Steps]
    /\ answer \in [Handlers -> Answers \cup {NoValue}]
    /\ \A h \in Handlers :
         /\ pc[h] = "idle" <=> request[h] = NoValue
         /\ pc[h] = "children" => pending[h] \subseteq Roles \cup {"code", "oauth"}
         /\ pc[h] \in {"children", "link", "compare", "diff", "write", "deleteCode"} =>
              /\ entity[h].id \in Ids
              /\ entity[h].roles \subseteq RolesOf(entity[h].id) \cup orphans
              /\ ColumnsOK(entity[h].columns)
         /\ pc[h] = "write" => ColumnsOK(change[h].columns)

(***************************************************************************)
(* Two requests with the same address that both found it free (two sign-   *)
(* ups, two sign-ins with Google, or one of each) make one account.        *)
(***************************************************************************)
OneAccountPerEmail == \A i, j \in Ids : users[i].email = users[j].email => i = j

(***************************************************************************)
(* Whoever was sent the welcome mail has all the role rows they asked for, *)
(* and a link that works: the code is there until the account has been     *)
(* verified with it, whatever fails or crashes in between.  (A row whose   *)
(* user has become null counts: a concurrent save can do that.)            *)
(***************************************************************************)
WelcomeMailIsKept ==
    \A mail \in mails : mail.kind = "verify" =>
        /\ \A role \in Inserts(asked[mail.user]) \cap Roles :
             <<mail.user, role>> \in roles \cup orphans
        /\ mail.user \in codes \cup activated

(***************************************************************************)
(* An account is verified only if its mailed link was followed: no save of *)
(* a stale entity makes it so, nor does a reset of the password.           *)
(***************************************************************************)
VerifiedByMail == \A id \in Ids : users[id].verified => id \in visited

(***************************************************************************)
(* Only a sign-up with the admin key makes an administrator, also when a   *)
(* stale save puts role rows back.                                         *)
(***************************************************************************)
AdminNeedsKey ==
    \A row \in roles \cup orphans :
        row[2] = "Admin" =>
            LET r == asked[row[1]]
            IN  r.op = "signUp" /\ "Admin" \in r.roles /\ r.keyMatches

(***************************************************************************)
(* loginWithSocialNetwork looks for the link in one query and inserts it   *)
(* in another.  An account can get several rows for one Google account,    *)
(* but never more than there were requests in flight at once: signing in   *)
(* over and over again does not add to them.                               *)
(***************************************************************************)
LinksAreBounded == \A id \in Ids : oauths[id] <= Cardinality(Handlers)

(***************************************************************************)
(* "click the link below to activate your account" (mail.service.ts:49):   *)
(* an account that was activated stays so.                                 *)
(***************************************************************************)
VerificationIsForever ==
    [][\A id \in Ids : users[id].verified => users'[id].verified]_users

(***************************************************************************)
(* "you can reset your password by using the link below"                   *)
(* (mail.service.ts:64): the password of an account changes only to the    *)
(* one of a reset that is under way, never back to one it replaced.        *)
(***************************************************************************)
PasswordOnlyByReset ==
    [][\A id \in Ids : users'[id].password # users[id].password =>
         \E h \in Handlers : /\ pc[h] = "write"
                             /\ request[h].op = "reset"
                             /\ request[h].password = users'[id].password]_users

(***************************************************************************)
(* No save takes a role away from an account: nothing in the code revokes  *)
(* a role.                                                                 *)
(***************************************************************************)
RolesAreKept == [][roles \subseteq roles']_roles

(***************************************************************************)
(* The refinement: what JwtStrategy can see of an account is the row with  *)
(* its flag, and the roles whose rows have their user at that moment.      *)
(***************************************************************************)
Seen(id) ==
    [verified |-> users[id].verified, roles |-> {role \in Roles : <<id, role>> \in roles}]

UserRows == [id \in Ids |-> Seen(id)]

Table == INSTANCE UserTable WITH users <- UserRows, RoleSets <- SUBSET Roles

(***************************************************************************)
(* The tables change only as the guards may rely on (UserTable): not even  *)
(* the save of a stale entity, whose roles are other rows than those that  *)
(* there are, writes to a user but its own.                                *)
(***************************************************************************)
ImplementsUserTable == Table!Spec
=============================================================================
