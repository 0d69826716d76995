------------------------------- MODULE Access -------------------------------
(***************************************************************************)
(* Who a request is made as: the guards that run before the handler of a   *)
(* route.  They are, in the order in which Nest calls them, JwtAuthGuard   *)
(* and RolesGuard as APP_GUARD, and JwtAuthGuard again from main.ts, whose *)
(* user replaces that of the first.  Each JwtAuthGuard runs JwtStrategy,   *)
(* which reads the table of users.                                         *)
(*                                                                         *)
(* The modules that extend this one are the handlers of the routes: pc is  *)
(* then the name of the route, and later that of a step of it.             *)
(***************************************************************************)
EXTENDS Naturals, Sequences, FiniteSets

CONSTANTS
    Handlers,   \* requests that may be in flight at the same time
    Requests,   \* [route, token, ...]: token is a user's id, or NoValue
    RoleSets,   \* the sets of roles that a user may come to have
    MaxUsers,   \* bound: sign-ups
    NoValue

Routes == {"createCountry", "removeCountry", "createRoom", "reserve", "findReservations"}

PublicRoutes == {"createCountry"}

ASSUME AccessAssumption ==
    /\ IsFiniteSet(Handlers)
    /\ \A r \in Requests : r.route \in Routes
    /\ RoleSets \subseteq SUBSET {"Guest", "Host", "Admin"}
    /\ NoValue \notin Requests
    /\ NoValue \notin {"notFound", "badRequest", "databaseError"}

RequiredRoles(route) ==
    CASE route = "reserve"          -> {"Guest"}
      [] route = "findReservations" -> {"Admin"}
      [] OTHER                      -> {}

VARIABLES
    users,      \* the rows of the table, by id: verified and the eager roles
    activated,  \* history: who has ever had a verified address
    pc, request, acting, answer   \* by handler; acting is request.user.id

account  == <<users, activated>>
handling == <<pc, request, acting, answer>>
access   == <<account, handling>>

AccessInit ==
    /\ users = <<>>
    /\ activated = {}
    /\ pc = [h \in Handlers |-> "idle"]
    /\ request = [h \in Handlers |-> NoValue]
    /\ acting = [h \in Handlers |-> NoValue]
    /\ answer = [h \in Handlers |-> NoValue]

Answer(h, a) ==
    /\ pc' = [pc EXCEPT ![h] = "idle"]
    /\ request' = [request EXCEPT ![h] = NoValue]
    /\ acting' = [acting EXCEPT ![h] = NoValue]
    /\ answer' = [answer EXCEPT ![h] = a]

Await(h, step) ==
    /\ pc' = [pc EXCEPT ![h] = step]
    /\ UNCHANGED <<request, acting, answer>>

\* A statement has committed; its acknowledgement or the worker may be lost.
AnswerCommitted(h, a) == \E b \in {a, "databaseError", NoValue} : Answer(h, b)

----------------------------------------------------------------------------
(* The guards.                                                             *)

(***************************************************************************)
(* A public route needs no token.  Otherwise a token that is missing,      *)
(* expired or forged ends in handleRequest, where `new customThrowError`   *)
(* is applied to an arrow function and is itself a TypeError: a 500.       *)
(***************************************************************************)
Receive(h) ==
    /\ pc[h] = "idle"
    /\ \E r \in Requests :
         /\ request' = [request EXCEPT ![h] = r]
         /\ UNCHANGED acting
         /\ answer' = [answer EXCEPT ![h] = NoValue]
         /\ \/ /\ r.route \in PublicRoutes
               /\ pc' = [pc EXCEPT ![h] = r.route]
            \/ /\ r.route \notin PublicRoutes
               /\ r.token \in DOMAIN users
               /\ pc' = [pc EXCEPT ![h] = "authenticate"]
    /\ UNCHANGED account

ReceiveWithoutToken(h) ==
    /\ pc[h] = "idle"
    /\ \E r \in Requests : r.route \notin PublicRoutes /\ r.token = NoValue
    /\ Answer(h, "serverError")
    /\ UNCHANGED account

(***************************************************************************)
(* With passReqToCallback the first argument of validate is the request,   *)
(* not the payload.  A request has no id, findOneBy({ id: undefined }) has *)
(* no condition, and it returns the user with the lowest id.               *)
(***************************************************************************)
FoundUser(token) == 1

\* Mutant: whether the address was verified is not looked at.
RefusalIfMissing(token) == IF users = <<>> THEN "notFound" ELSE NoValue

\* What validate throws, if anything.
Refusal(token) ==
    IF users = <<>> THEN "notFound"
    ELSE IF ~users[FoundUser(token)].verified THEN "badRequest"
    ELSE NoValue

HasRole(user, route) ==
    RequiredRoles(route) = {} \/ RequiredRoles(route) \cap users[user].roles # {}

\* The first JwtAuthGuard, and RolesGuard, which does not wait for anything.
Authenticate(h) ==
    /\ pc[h] = "authenticate"
    /\ LET token == request[h].token
       IN  \/ /\ Refusal(token) = NoValue /\ HasRole(FoundUser(token), request[h].route)
              /\ Await(h, "authenticateAgain")
           \/ /\ Refusal(token) = NoValue /\ ~HasRole(FoundUser(token), request[h].route)
              /\ Answer(h, "forbidden")
           \/ /\ Refusal(token) # NoValue
              /\ Answer(h, Refusal(token))
    /\ UNCHANGED account

\* The second JwtAuthGuard: the handler runs as the user that it finds.
AuthenticateAgain(h) ==
    /\ pc[h] = "authenticateAgain"
    /\ LET token == request[h].token
       IN  \/ /\ Refusal(token) = NoValue
              /\ pc' = [pc EXCEPT ![h] = request[h].route]
              /\ acting' = [acting EXCEPT ![h] = FoundUser(token)]
              /\ UNCHANGED <<request, answer>>
           \/ /\ Refusal(token) # NoValue
              /\ Answer(h, Refusal(token))
    /\ UNCHANGED account

\* GET /reservations only reads.
FindReservations(h) ==
    /\ pc[h] = "findReservations"
    /\ Answer(h, "found")
    /\ UNCHANGED account

----------------------------------------------------------------------------
(* The environment: what module Accounts writes into a user, and failures. *)

Table == INSTANCE UserTable


SignUp ==
    /\ Len(users) < MaxUsers
    /\ Table!Insert
    /\ UNCHANGED handling

SaveUser == Table!Save /\ UNCHANGED handling

\* The query that a handler waits for fails, or its worker is killed.
Lose(h, steps) ==
    /\ pc[h] \in steps
    /\ \E a \in {"databaseError", NoValue} : Answer(h, a)
    /\ UNCHANGED account

AccessNext ==
    \/ \E h \in Handlers :
         \/ Receive(h) \/ ReceiveWithoutToken(h)
         \/ Authenticate(h) \/ AuthenticateAgain(h) \/ FindReservations(h)
         \/ Lose(h, {"authenticate", "authenticateAgain", "findReservations"})
    \/ SignUp \/ SaveUser

----------------------------------------------------------------------------
(* Properties.                                                             *)

AccessTypeOK ==
    /\ users \in Seq([verified: BOOLEAN, roles: SUBSET {"Guest", "Host", "Admin"}])
    /\ activated \subseteq DOMAIN users
    /\ request \in [Handlers -> Requests \cup {NoValue}]
    /\ acting \in [Handlers -> DOMAIN users \cup {NoValue}]
    /\ \A h \in Handlers : (pc[h] = "idle") <=> (request[h] = NoValue)

(***************************************************************************)
(* RolesGuard lets a request pass only if the user whom its token was      *)
(* issued for has a role that the route requires (test/users.e2e-spec.ts   *)
(* :154-159: with the token of a guest the answer is "Forbidden").         *)
(***************************************************************************)
RoleOfItsToken ==
    [][\A h \in Handlers :
         pc[h] = "authenticate" /\ pc'[h] = "authenticateAgain" =>
            HasRole(request[h].token, request[h].route)]_access
=============================================================================
