--------------------------- MODULE ConnectionPool ---------------------------
(***************************************************************************)
(* The database connections of one worker: which connection each query of  *)
(* a handler runs on, who waits for one, and what becomes of a transaction *)
(* when its connection goes back to the pool.                              *)
(*                                                                         *)
(* A repository takes a connection from the pool for each of its calls and *)
(* gives it back after it.  UsersService also takes one of its own         *)
(* (createQueryRunner, connect), opens a transaction on it and keeps it    *)
(* until the `finally`; its queries still go through repositories, so they *)
(* wait for a second connection while it holds the first.  Nothing limits  *)
(* the wait: no timeout is configured.                                     *)
(*                                                                         *)
(* A request is served once, by the program of its kind: the database      *)
(* calls of the service method in their order, the answer among them.  A   *)
(* call that waits for a connection or has one is a task.                  *)
(***************************************************************************)
EXTENDS Integers, Sequences, FiniteSets, SequencesExt

CONSTANTS
    Connections,  \* at most so many connections are open at a time
    Requests,     \* the requests that this worker gets
    Workloads,    \* what they may ask for: functions from requests to kinds
    Parallel,     \* how many queries a ParallelAsync starts: 2 to 5 in the code
    NoTask

(***************************************************************************)
(* The operations of a program:                                            *)
(*   check, find      a SELECT; after a check the handler may refuse       *)
(*   save             an INSERT within a transaction (Repository.save)     *)
(*   saveLoaded       a SELECT, then an UPDATE within a transaction        *)
(*   statement        an INSERT, UPDATE or DELETE that commits by itself   *)
(*   saves, statements   several of them in parallel (ParallelAsync)       *)
(*   background       a saveLoaded that nobody awaits                      *)
(*   connect, begin, ownSave, commit, rollback, release    on a connection *)
(*                    of its own (QueryRunner)                             *)
(*   log              HttpExceptionFilter writes a row of the table log    *)
(*   answer, fail     the response                                         *)
(***************************************************************************)
SignUpProgram ==
    <<"connect", "begin", "check", "save", "saves", "commit", "release", "answer">>

\* The first sign-in with Google; one that finds the account; one that finds the link.
FirstSocialProgram ==
    <<"connect", "begin", "find", "find", "save", "saves", "commit", "release", "answer">>
LinkSocialProgram ==
    <<"connect", "begin", "find", "find", "save", "background", "release", "answer">>
SocialProgram == <<"connect", "begin", "find", "background", "release", "answer">>

\* Mutant: signIn opens a transaction in the way of signUp.
TransactionalSignIn ==
    <<"connect", "begin", "check", "background", "commit", "release", "answer">>

SignInProgram == <<"check", "background", "answer">>

\* Mutant: updatePassword does not commit.
UncommittedReset == <<"check", "answer", "connect", "begin", "ownSave", "release">>

\* updatePassword is not awaited: the answer is there first.
ResetProgram == <<"check", "answer", "connect", "begin", "ownSave", "commit", "release">>

VerifyProgram  == <<"check", "saveLoaded", "statement", "answer">>
CountryProgram == <<"check", "statement", "answer">>

(***************************************************************************)
(* POST /rooms and POST /reservations.  JwtAuthGuard is there twice        *)
(* (app.module.ts:144, main.ts:39), and JwtStrategy reads the user each    *)
(* time.  The wrapper of @Transactional() finds no CLS namespace, for      *)
(* nothing initialises one, and throws: that is `wrapped`.  The other two  *)
(* are what the services do behind it, were it to call them.               *)
(***************************************************************************)
WrappedProgram == <<"check", "check", "fail">>
RoomProgram    == <<"check", "check", "statement", "statements", "answer">>
ReserveProgram == <<"check", "check", "check", "save", "answer">>

Program ==
    [signUp            |-> SignUpProgram,
     firstSocial       |-> FirstSocialProgram,
     linkSocial        |-> LinkSocialProgram,
     social            |-> SocialProgram,
     signIn            |-> SignInProgram,
     createNewPassword |-> ResetProgram,
     verifyEmail       |-> VerifyProgram,
     createCountry     |-> CountryProgram,
     wrapped           |-> WrappedProgram,
     createRoom        |-> RoomProgram,
     reserve           |-> ReserveProgram]

Kinds == DOMAIN Program

\* The kinds that take a connection of their own.
Transactional == {"signUp", "firstSocial", "linkSocial", "social", "createNewPassword"}

\* Those that return from within their transaction.
EarlyReturns == {"social", "linkSocial"}

Single == {"check", "find", "save", "saveLoaded", "statement", "connect", "log"}
Writes == {"save", "saveLoaded", "statement"}
Ops    == Single \cup {"saves", "statements", "background", "begin", "ownSave",
                       "commit", "rollback", "release", "answer", "fail"}

\* The calls that are made on a connection of one's own.
OwnCalls == {"begin", "ownSave", "commit", "rollback", "release"}

Task == [of: Requests, nr: Nat, op: Single]

ASSUME PoolAssumption ==
    /\ IsFiniteSet(Connections) /\ IsFiniteSet(Requests)
    /\ Workloads \subseteq [Requests -> Kinds]
    /\ Parallel \in Nat \ {0}
    /\ NoTask \notin Task

VARIABLES
    kind,      \* what each request asks for
    ops,       \* the rest of its program
    awaiting,  \* the numbers of the tasks it awaits
    issued,    \* how many tasks it has started
    answer,    \* "none", "success" or "error"
    queue,     \* the tasks that wait for a connection, first come first served
    holder,    \* the task that a connection works for
    idle,      \* open connections without a task: the last one is taken first
    tx,        \* the transaction on a connection: "none", "open" or "aborted"
    unsaved,   \* the rows that its open transaction has written
    stored,    \* the rows that are committed
    written,   \* the rows of which a handler has been told that they are written
    leaks      \* the requests that gave a connection back within a transaction: a history

requests    == <<kind, ops, awaiting, issued, answer>>
connections == <<holder, idle, tx, unsaved>>
vars        == <<requests, queue, connections, stored, written, leaks>>

Row == Requests \X Nat

Init ==
    /\ kind \in Workloads
    /\ ops = [r \in Requests |-> Program[kind[r]]]
    /\ awaiting = [r \in Requests |-> {}]
    /\ issued = [r \in Requests |-> 0]
    /\ answer = [r \in Requests |-> "none"]
    /\ queue = <<>>
    /\ holder = [c \in Connections |-> NoTask]
    /\ idle = <<>>
    /\ tx = [c \in Connections |-> "none"]
    /\ unsaved = [c \in Connections |-> {}]
    /\ stored = {}
    /\ written = {}
    /\ leaks = {}

----------------------------------------------------------------------------
(* The handlers.                                                           *)

\* The connection c is r's own.
Owns(r, c) == holder[c] # NoTask /\ holder[c].op = "connect" /\ holder[c].of = r

\* r is about to do op: nothing is awaited any more.
At(r, op) == awaiting[r] = {} /\ ops[r] # <<>> /\ Head(ops[r]) = op

Advance(r) == ops' = [ops EXCEPT ![r] = Tail(@)]

\* n calls of one sort join the queue; r awaits them or does not.
Submit(r, op, n, awaited) ==
    /\ Advance(r)
    /\ issued' = [issued EXCEPT ![r] = @ + n]
    /\ awaiting' = [awaiting EXCEPT ![r] =
          IF awaited THEN issued[r] + 1 .. issued[r] + n ELSE {}]
    /\ queue' = queue \o [i \in 1 .. n |-> [of |-> r, nr |-> issued[r] + i, op |-> op]]
    /\ UNCHANGED <<kind, answer, connections, stored, written, leaks>>

Call(r)       == \E op \in Single : At(r, op) /\ Submit(r, op, 1, TRUE)
Fork(r)       == \/ At(r, "saves") /\ Submit(r, "save", Parallel, TRUE)
                 \/ At(r, "statements") /\ Submit(r, "statement", Parallel, TRUE)
Background(r) == At(r, "background") /\ Submit(r, "saveLoaded", 1, FALSE)

\* The response is sent.
Answer(r) ==
    /\ \/ At(r, "answer") /\ answer' = [answer EXCEPT ![r] = "success"]
       \/ At(r, "fail") /\ answer' = [answer EXCEPT ![r] = "error"]
    /\ Advance(r)
    /\ UNCHANGED <<kind, awaiting, issued, queue, connections, stored, written, leaks>>

\* Mutant: nothing is rolled back.
ReleaseOnly(r) == IF \E c \in Connections : Owns(r, c) THEN <<"release">> ELSE <<>>

\* An exception within the `try` of a method with a transaction.
Undo(r) == IF \E c \in Connections : Owns(r, c) THEN <<"rollback", "release">> ELSE <<>>

LoggedFailure == <<"log", "fail">>

(***************************************************************************)
(* An HttpException (every refusal, and what a `catch` makes of a failed   *)
(* query) is logged before it is sent; another one is sent as it is.  Once *)
(* the answer is sent nobody hears of it.                                  *)
(***************************************************************************)
Report(r, isHttp) ==
    IF answer[r] # "none" THEN <<>> ELSE IF isHttp THEN LoggedFailure ELSE <<"fail">>

Throw(r, isHttp) ==
    ops' = [ops EXCEPT ![r] = Undo(r) \o Report(r, isHttp \/ Undo(r) # <<>>)]

(***************************************************************************)
(* The calls on an own connection.                                         *)
(***************************************************************************)
\* Mutant: the task goes on using its connection.
GiveBackAndKeep(c) ==
    /\ UNCHANGED holder
    /\ idle' = Append(idle, c)

GiveBack(c) ==
    /\ holder' = [holder EXCEPT ![c] = NoTask]
    /\ idle' = Append(idle, c)

\* The transaction of c goes on, is refused from now on, or is over.
Leave(c, status, rows) ==
    /\ tx' = [tx EXCEPT ![c] = status]
    /\ unsaved' = [unsaved EXCEPT ![c] = rows]

\* A query that fails takes an open transaction with it.
Spoiled(c) == IF tx[c] = "open" THEN "aborted" ELSE tx[c]

\* START TRANSACTION within a transaction is a warning.  The call comes before the
\* `try`: when it fails the connection is never released.
Begin(r, c) ==
    /\ At(r, "begin")
    /\ \/ /\ tx[c] # "aborted"
          /\ Leave(c, "open", unsaved[c])
          /\ Advance(r)
       \/ /\ Leave(c, Spoiled(c), {})
          /\ ops' = [ops EXCEPT ![r] = Report(r, FALSE)]
    /\ UNCHANGED <<holder, idle, stored, leaks>>

OwnSave(r, c) ==
    /\ At(r, "ownSave")
    /\ \/ /\ Leave(c, tx[c], unsaved[c] \cup {<<r, 0>>})
          /\ Advance(r)
       \/ /\ Leave(c, Spoiled(c), {})
          /\ Throw(r, TRUE)
    /\ UNCHANGED <<holder, idle, stored, leaks>>

Commit(r, c) ==
    /\ At(r, "commit")
    /\ Leave(c, "none", {})
    /\ \/ stored' = stored \cup unsaved[c] /\ Advance(r)
       \/ UNCHANGED stored /\ Throw(r, TRUE)
    /\ UNCHANGED <<holder, idle, leaks>>

\* Its own failure is thrown in place of the HttpException that was to follow; the
\* `finally` runs all the same.
Rollback(r, c) ==
    /\ At(r, "rollback")
    /\ Leave(c, "none", {})
    /\ \/ Advance(r)
       \/ ops' = [ops EXCEPT ![r] = <<"release">> \o Report(r, FALSE)]
    /\ UNCHANGED <<holder, idle, stored, leaks>>

\* No transaction is open on c.
IsClean(c) == tx[c] = "none" /\ unsaved[c] = {}

\* The connection goes back as it is: a transaction on it stays open.
Release(r, c) ==
    /\ At(r, "release")
    /\ GiveBack(c)
    /\ Advance(r)
    /\ leaks' = IF IsClean(c) THEN leaks ELSE leaks \cup {r}
    /\ UNCHANGED <<tx, unsaved, stored>>

OnOwnConnection(r) ==
    /\ \E c \in Connections :
         /\ Owns(r, c)
         /\ Begin(r, c) \/ OwnSave(r, c) \/ Commit(r, c) \/ Rollback(r, c) \/ Release(r, c)
    /\ UNCHANGED <<kind, awaiting, issued, answer, queue, written>>

\* A task in the queue gets an idle connection before anything else happens.
Urgent == queue # <<>> /\ idle # <<>>

\* A handler runs from one await to the next.
Handle(r) ==
    /\ ~Urgent
    /\ Call(r) \/ Fork(r) \/ Background(r) \/ Answer(r) \/ OnOwnConnection(r)

----------------------------------------------------------------------------
(* The pool and the database.                                              *)

Unopened == {c \in Connections : holder[c] = NoTask /\ \A i \in DOMAIN idle : idle[i] # c}

Settled(t) == awaiting' = [awaiting EXCEPT ![t.of] = @ \ {t.nr}]

\* The first in the queue gets the connection that was released last, or a new one.
Assign ==
    /\ queue # <<>>
    /\ LET t == Head(queue)
       IN  /\ \E c \in Connections :
                /\ holder' = [holder EXCEPT ![c] = t]
                /\ \/ idle # <<>> /\ c = Last(idle) /\ idle' = Front(idle)
                   \/ idle = <<>> /\ c \in Unopened /\ UNCHANGED idle
           /\ \/ t.op = "connect" /\ Settled(t)
              \/ t.op # "connect" /\ UNCHANGED awaiting
    /\ queue' = Tail(queue)
    /\ UNCHANGED <<kind, ops, issued, answer, tx, unsaved, stored, written, leaks>>

IsAwaited(t) == t.nr \in awaiting[t.of]

\* The handler hears that its query succeeded; what it has read may be a reason to refuse.
Resume(t) ==
    /\ Settled(t)
    /\ \/ UNCHANGED ops
       \/ /\ t.op = "check" /\ IsAwaited(t)
          /\ \E isHttp \in BOOLEAN : Throw(t.of, isHttp)
    /\ written' = written \cup {row \in {<<t.of, t.nr>>} : IsAwaited(t) /\ t.op \in Writes}

Succeed(c) ==
    /\ tx[c] # "aborted"
    /\ LET t    == holder[c]
           rows == {row \in {<<t.of, t.nr>>} : t.op \in Writes}
       IN  /\ \/ /\ t.op \in {"check", "find"}
                 /\ UNCHANGED <<tx, unsaved, stored>>
              \/ \* it becomes part of a transaction that is open on c
                 /\ t.op = "statement"
                 /\ tx[c] = "open"
                 /\ Leave(c, "open", unsaved[c] \cup rows)
                 /\ UNCHANGED stored
              \/ \* its COMMIT ends a transaction that is open on c
                 /\ t.op \in {"save", "saveLoaded", "log"} \/ tx[c] = "none"
                 /\ t.op \notin {"check", "find"}
                 /\ Leave(c, "none", {})
                 /\ stored' = stored \cup unsaved[c] \cup rows
           /\ Resume(t)

\* Mutant: HttpExceptionFilter does not catch it, and sends no response.
UncaughtInFilter(r) == <<>>

\* The row of the log could not be written: HttpExceptionFilter goes on.
CaughtInFilter(r) == ops[r]

\* The first failure is thrown; Promise.all does not wait for the other queries.
Reject(t) ==
    \/ /\ IsAwaited(t) /\ t.op # "log"
       /\ awaiting' = [awaiting EXCEPT ![t.of] = {}]
       /\ Throw(t.of, FALSE)
    \/ /\ IsAwaited(t) /\ t.op = "log"
       /\ Settled(t)
       /\ ops' = [ops EXCEPT ![t.of] = CaughtInFilter(t.of)]
    \/ /\ ~IsAwaited(t)
       /\ UNCHANGED <<awaiting, ops>>

\* `save` rolls back what is open on c, once it has got as far as START TRANSACTION.
Fail(c) ==
    /\ \/ /\ holder[c].op \in {"check", "find", "statement", "saveLoaded"}
          /\ Leave(c, Spoiled(c), {})
       \/ /\ holder[c].op \in {"save", "saveLoaded", "log"}
          /\ Leave(c, "none", {})
    /\ Reject(holder[c])
    /\ UNCHANGED <<stored, written>>

\* A query runs, and its connection goes back to the pool.
Run(c) ==
    /\ ~Urgent
    /\ holder[c] # NoTask
    /\ holder[c].op # "connect"
    /\ Succeed(c) \/ Fail(c)
    /\ GiveBack(c)
    /\ UNCHANGED <<kind, issued, answer, queue, leaks>>

\* No connection can be opened for the first in the queue.
OpenFails ==
    /\ queue # <<>> /\ idle = <<>> /\ Unopened # {}
    /\ queue' = Tail(queue)
    /\ Reject(Head(queue))
    /\ UNCHANGED <<kind, issued, answer, connections, stored, written, leaks>>

\* A connection that was idle for 10 s is closed; the database rolls back what is open.
IdleTimeout ==
    /\ ~Urgent
    /\ \E i \in DOMAIN idle :
         /\ idle' = RemoveAt(idle, i)
         /\ Leave(idle[i], "none", {})
    /\ UNCHANGED <<requests, queue, holder, stored, written, leaks>>

Next ==
    \/ \E r \in Requests : Handle(r)
    \/ \E c \in Connections : Run(c)
    \/ Assign \/ OpenFails \/ IdleTimeout

Spec == Init /\ [][Next]_vars

(***************************************************************************)
(* A handler whose awaited calls have ended is resumed, a waiting task is  *)
(* given a connection that is there, and a query ends, well or badly: the  *)
(* event loop and the queue of the pool are first come, first served.      *)
(***************************************************************************)
Fairness ==
    /\ \A r \in Requests : WF_vars(Handle(r))
    /\ \A c \in Connections : WF_vars(Run(c))
    /\ WF_vars(Assign \/ OpenFails)

FairSpec == Spec /\ Fairness

----------------------------------------------------------------------------
(* Properties.                                                             *)

\* Fewer requests that keep a connection than there are connections.
FewerHolders ==
    \A w \in Workloads :
        Cardinality({r \in Requests : w[r] \in Transactional}) < Cardinality(Connections)

\* Every variable has its type; a connection is idle at most once, and then without a task.
TypeOK ==
    /\ kind \in Workloads
    /\ ops \in [Requests -> Seq(Ops)]
    /\ issued \in [Requests -> Nat]
    /\ awaiting \in [Requests -> SUBSET Nat]
    /\ answer \in [Requests -> {"none", "success", "error"}]
    /\ queue \in Seq(Task)
    /\ holder \in [Connections -> Task \cup {NoTask}]
    /\ idle \in Seq(Connections)
    /\ \A i, j \in DOMAIN idle : idle[i] = idle[j] => i = j
    /\ \A i \in DOMAIN idle : holder[idle[i]] = NoTask
    /\ tx \in [Connections -> {"none", "open", "aborted"}]
    /\ unsaved \in [Connections -> SUBSET Row]
    /\ stored \subseteq Row /\ written \subseteq Row /\ leaks \subseteq Requests

(***************************************************************************)
(* With FewerHolders, whoever waits for a connection does not wait for     *)
(* requests that themselves wait: some connection is free or runs a query. *)
(* Neither the transactions in flight nor those whose START TRANSACTION    *)
(* failed can take all connections.                                        *)
(***************************************************************************)
WaitingIsNotInVain ==
    queue # <<>> => \E c \in Connections : holder[c] = NoTask \/ holder[c].op # "connect"

\* Nothing keeps the handler from its next call: if that is to a connection of its
\* own, it has one.
CanGoOn(r) ==
    /\ awaiting[r] = {} /\ ops[r] # <<>>
    /\ Head(ops[r]) \in OwnCalls => \E c \in Connections : Owns(r, c)

IsInLine(r, nr) == \E i \in DOMAIN queue : queue[i].of = r /\ queue[i].nr = nr

IsRunning(r, nr) ==
    \E c \in Connections :
        /\ holder[c] # NoTask /\ holder[c].op # "connect"
        /\ holder[c].of = r /\ holder[c].nr = nr

(***************************************************************************)
(* No exception, refusal or failing query, in whatever order the parallel  *)
(* ones end, makes a handler wait for a call that is over or never began,  *)
(* or leaves it at a call that it cannot make: until it is answered, a     *)
(* request can go on, or each call it awaits runs or is in line.           *)
(***************************************************************************)
NobodyIsStuck ==
    \A r \in Requests :
        answer[r] = "none" =>
            \/ CanGoOn(r)
            \/ awaiting[r] # {} /\ \A nr \in awaiting[r] : IsInLine(r, nr) \/ IsRunning(r, nr)

(***************************************************************************)
(* What a client is told is done is committed (response.interceptor.ts:46  *)
(* says `success: true`): every row of a request that was answered well.   *)
(* It does not hold beside a sign-in with Google that returns early        *)
(* (users.service.ts:150, 165): the transaction that this leaves open on   *)
(* its connection takes in the statements of whoever gets that next.       *)
(***************************************************************************)
AnsweredIsStored == \A row \in written : answer[row[1]] = "success" => row \in stored

(***************************************************************************)
(* Nothing else loses rows.  Whatever fails, is refused or runs in         *)
(* parallel, only those early returns give a connection back within a      *)
(* transaction (the `finally` of users.service.ts:131, 215 and 336); until *)
(* one has, every row of a request that was answered well is committed.    *)
(***************************************************************************)
OnlyEarlyReturnsLoseRows ==
    /\ \A r \in leaks : kind[r] \in EarlyReturns
    /\ leaks = {} => AnsweredIsStored

(***************************************************************************)
(* "exit process after responding to old requests" (main.ts:62): every     *)
(* request that was accepted gets a response, whatever fails.              *)
(***************************************************************************)
EveryRequestIsAnswered == \A r \in Requests : <>(answer[r] # "none")
=============================================================================
