----------------------------- MODULE Lifecycle -----------------------------
(***************************************************************************)
(* The life of the workers behind one slot of the pm2 cluster: each is the *)
(* successor of the one before.  A deployment starts the successor, waits  *)
(* for its 'ready' (wait_ready, listen_timeout), sends SIGINT to the old   *)
(* worker, and kills it when it has not exited after kill_timeout.  With   *)
(* `watch` a changed file has the old worker interrupted first.            *)
(*                                                                         *)
(* SIGINT starts app.close(): the HTTP server accepts no new connection,   *)
(* waits for those it has, and then TypeORM ends its pool, which waits for *)
(* the database connections in use but serves nobody who waits for one.    *)
(* Then process.exit.                                                      *)
(*                                                                         *)
(* A request may leave a write behind that nobody awaits, as sign-in does. *)
(***************************************************************************)
EXTENDS Naturals

CONSTANTS
    Generations,  \* how many workers the slot ever has
    Clients       \* each has at most one connection, and leaves at most one write behind

ASSUME LifecycleAssumption == Generations \in Nat \ {0}

Workers  == 1 .. Generations
NoWorker == 0

VARIABLES
    phase,       \* of each worker
    overdue,     \* workers for whose 'ready' pm2 waited in vain
    restarted,   \* workers interrupted because a file has changed
    worker,      \* of each client: the worker it is connected to
    connection,  \* of each client
    write,       \* of each client: what became of the write left behind
    writer       \* of each client: the worker of that write

pm2     == <<phase, overdue, restarted>>
traffic == <<worker, connection>>
writes  == <<write, writer>>
vars    == <<phase, overdue, restarted, worker, connection, write, writer>>

Phases      == {"down", "booting", "listening", "closing", "draining", "exited", "killed"}
Gone        == {"exited", "killed"}
\* lastBusy: a request that will be answered with `Connection: close`.
Connections == {"none", "idle", "busy", "lastBusy", "reset"}
Busy        == {"busy", "lastBusy"}
Writes      == {"none", "waiting", "writing", "done", "dropped", "cut"}

Init ==
    /\ phase = [w \in Workers |-> "down"]
    /\ overdue = {}
    /\ restarted = {}
    /\ worker = [c \in Clients |-> NoWorker]
    /\ connection = [c \in Clients |-> "none"]
    /\ write = [c \in Clients |-> "none"]
    /\ writer = [c \in Clients |-> NoWorker]

ClientsOf(w) == {c \in Clients : worker[c] = w}

Become(w, p) == phase' = [phase EXCEPT ![w] = p]

----------------------------------------------------------------------------
(* pm2 and the process.                                                    *)

\* The successor is started beside the old worker, or after it is gone.
Boot(w) ==
    /\ phase[w] = "down"
    /\ w > 1 => phase[w - 1] \in {"listening"} \cup Gone
    /\ Become(w, "booting")
    /\ UNCHANGED <<overdue, restarted, traffic, writes>>

\* app.listen has called back, which sends 'ready'.
Listen(w) ==
    /\ phase[w] = "booting"
    /\ Become(w, "listening")
    /\ UNCHANGED <<overdue, restarted, traffic, writes>>

ListenTimeout(w) ==
    /\ phase[w] = "booting"
    /\ overdue' = overdue \cup {w}
    /\ UNCHANGED <<phase, restarted, traffic, writes>>

\* Mutant: 'ready' is sent before the port is listened on.
ReadyAtBoot(w) == phase[w] \in {"booting", "listening"}

SentReady(w) == phase[w] = "listening"

\* Mutant: process.exit without waiting for app.close().
ExitAtOnce(w) ==
    /\ phase[w] = "listening"
    /\ Become(w, "exited")
    /\ connection' = [c \in Clients |->
         IF worker[c] = w /\ connection[c] \in Busy THEN "reset" ELSE connection[c]]
    /\ UNCHANGED <<worker, writes>>

\* The handler of SIGINT.
Close(w) ==
    /\ phase[w] = "listening"
    /\ Become(w, "closing")
    /\ UNCHANGED <<traffic, writes>>

Reload(w) ==
    /\ w + 1 \in Workers
    /\ SentReady(w + 1) \/ w + 1 \in overdue
    /\ Close(w)
    /\ UNCHANGED <<overdue, restarted>>

FilesChange(w) ==
    /\ Close(w)
    /\ restarted' = restarted \cup {w}
    /\ UNCHANGED overdue

\* server.close is done: it waited for every connection, idle ones too.
ServerClosed(w) ==
    /\ phase[w] = "closing"
    /\ ClientsOf(w) = {}
    /\ Become(w, "draining")
    /\ UNCHANGED <<overdue, restarted, traffic, writes>>

\* Mutant: the pool is not waited for.
NothingAwaited(w) == TRUE

\* What becomes of the writes of a process that ends: PostgreSQL rolls back
\* what was not committed.
Lost(w) == [c \in Clients |->
    IF writer[c] # w THEN write[c]
    ELSE CASE write[c] = "waiting" -> "dropped"
           [] write[c] = "writing" -> "cut"
           [] OTHER                -> write[c]]

\* pool.end is done: no connection of the pool is in use.
PoolEnded(w) == \A c \in Clients : writer[c] = w => write[c] # "writing"

Exit(w) ==
    /\ phase[w] = "draining"
    /\ PoolEnded(w)
    /\ Become(w, "exited")
    /\ write' = Lost(w)
    /\ UNCHANGED <<overdue, restarted, traffic, writer>>

\* SIGKILL after kill_timeout.
Kill(w) ==
    /\ phase[w] \in {"closing", "draining"}
    /\ Become(w, "killed")
    /\ connection' = [c \in Clients |-> IF worker[c] # w THEN connection[c]
                                        ELSE IF connection[c] \in Busy THEN "reset" ELSE "none"]
    /\ worker' = [c \in Clients |-> IF worker[c] = w /\ connection[c] \notin Busy
                                    THEN NoWorker ELSE worker[c]]
    /\ write' = Lost(w)
    /\ UNCHANGED <<overdue, restarted, writer>>

----------------------------------------------------------------------------
(* Clients.                                                                *)

Connect(c) ==
    /\ connection[c] \in {"none", "reset"}
    /\ \E w \in Workers :
         /\ phase[w] = "listening"
         /\ worker' = [worker EXCEPT ![c] = w]
    /\ connection' = [connection EXCEPT ![c] = "idle"]
    /\ UNCHANGED <<pm2, writes>>

\* Mutant: isDisableKeepAlive is never set.
KeepAliveForEver(w) == FALSE

IsDisableKeepAlive(w) == phase[w] # "listening"

\* The middleware of main.ts looks at the flag when the request comes in.
Send(c) ==
    /\ connection[c] = "idle"
    /\ connection' = [connection EXCEPT ![c] =
                        IF IsDisableKeepAlive(worker[c]) THEN "lastBusy" ELSE "busy"]
    /\ UNCHANGED <<pm2, worker, writes>>

\* Mutant: the server forgets a socket that stays open.
ForgetSocket(c) ==
    /\ worker' = [worker EXCEPT ![c] = NoWorker]
    /\ UNCHANGED connection

Disconnect(c) ==
    /\ connection' = [connection EXCEPT ![c] = "none"]
    /\ worker' = [worker EXCEPT ![c] = NoWorker]

\* The answer, after which a save may still wait for bcrypt or for the pool.
Respond(c) ==
    /\ \/ connection[c] = "lastBusy" /\ Disconnect(c)
       \/ /\ connection[c] = "busy"
          /\ connection' = [connection EXCEPT ![c] = "idle"]
          /\ UNCHANGED worker
    /\ \/ /\ write[c] = "none"
          /\ write' = [write EXCEPT ![c] = "waiting"]
          /\ writer' = [writer EXCEPT ![c] = worker[c]]
       \/ UNCHANGED writes
    /\ UNCHANGED pm2

\* keepAliveTimeout of the server, or the client leaves.
Hangup(c) ==
    /\ connection[c] = "idle"
    /\ Disconnect(c)
    /\ UNCHANGED <<pm2, writes>>

\* A pool that is being ended gives out no more connections.
StartWrite(c) ==
    /\ write[c] = "waiting"
    /\ phase[writer[c]] \in {"listening", "closing"}
    /\ write' = [write EXCEPT ![c] = "writing"]
    /\ UNCHANGED <<pm2, traffic, writer>>

EndWrite(c) ==
    /\ write[c] = "writing"
    /\ write' = [write EXCEPT ![c] = "done"]
    /\ UNCHANGED <<pm2, traffic, writer>>

----------------------------------------------------------------------------
WorkerStep(w) ==
    \/ Boot(w) \/ Listen(w) \/ ListenTimeout(w) \/ Reload(w) \/ FilesChange(w)
    \/ ServerClosed(w) \/ Exit(w) \/ Kill(w)

ClientStep(c) ==
    Connect(c) \/ Send(c) \/ Respond(c) \/ Hangup(c) \/ StartWrite(c) \/ EndWrite(c)

Next == (\E w \in Workers : WorkerStep(w)) \/ (\E c \in Clients : ClientStep(c))

(***************************************************************************)
(* Requests are answered, the server closes idle connections, writes that  *)
(* have begun end, and the process goes on when it may.  No client has to  *)
(* do anything, and nothing is killed.                                     *)
(***************************************************************************)
Fairness ==
    /\ \A w \in Workers : WF_vars(ServerClosed(w)) /\ WF_vars(Exit(w))
    /\ \A c \in Clients : WF_vars(Respond(c)) /\ WF_vars(Hangup(c)) /\ WF_vars(EndWrite(c))

Spec == Init /\ [][Next]_vars /\ Fairness

----------------------------------------------------------------------------
(* Properties.                                                             *)

\* Every variable has its type, and who is connected is connected to a live worker.
TypeOK ==
    /\ phase \in [Workers -> Phases]
    /\ overdue \subseteq Workers /\ restarted \subseteq Workers
    /\ worker \in [Clients -> Workers \cup {NoWorker}]
    /\ connection \in [Clients -> Connections]
    /\ write \in [Clients -> Writes]
    /\ writer \in [Clients -> Workers \cup {NoWorker}]
    /\ \A c \in Clients :
         /\ connection[c] \in {"idle"} \cup Busy => worker[c] \in Workers
         /\ write[c] # "none" => writer[c] \in Workers

(***************************************************************************)
(* "Do not receive a new request, and exit process after responding to old *)
(* requests" (main.ts:62): a request that was accepted, also on a kept     *)
(* connection after SIGINT, is answered unless its worker is killed.       *)
(***************************************************************************)
CloseAnswersAll ==
    \A c \in Clients :
       /\ connection[c] = "reset" => phase[worker[c]] = "killed"
       /\ connection[c] \in {"idle"} \cup Busy => phase[worker[c]] \in {"listening", "closing"}

(***************************************************************************)
(* The exit waits for no save that is still waiting, but a save that has   *)
(* begun is finished unless the worker is killed.                          *)
(***************************************************************************)
StartedWritesFinish ==
    \A c \in Clients : write[c] = "cut" => phase[writer[c]] = "killed"

(***************************************************************************)
(* Deployment without downtime (ecosystem.config.js:13-15): once a worker  *)
(* listens, one always does, unless the successor was not ready in time or *)
(* a changed file had the worker restarted.                                *)
(***************************************************************************)
SomeoneListens ==
    (\E w \in Workers : phase[w] \in {"closing", "draining"} \cup Gone) /\ overdue = {} /\ restarted = {}
       => \E w \in Workers : phase[w] = "listening"

(***************************************************************************)
(* A worker that was interrupted exits without being killed, however many  *)
(* requests its clients send on the connections that they keep.            *)
(***************************************************************************)
ShutdownEnds == \A w \in Workers : phase[w] = "closing" ~> phase[w] \in Gone
=============================================================================
