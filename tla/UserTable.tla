------------------------------ MODULE UserTable ------------------------------
(***************************************************************************)
(* What the guards may rely on about the table of users, whatever saves of *)
(* stale entities, parallel inserts and crashes write into it: a user gets *)
(* the next id, unverified and without a role; from then on its flag and   *)
(* its roles may change in any way, but never those of two users at once,  *)
(* and no user disappears.                                                 *)
(***************************************************************************)
EXTENDS Sequences

CONSTANT RoleSets   \* the sets of roles that a user may come to have

VARIABLES
    users,      \* by id: whether the address is verified, and the roles
    activated   \* history: who has ever had a verified address

Init == users = <<>> /\ activated = {}

Insert ==
    /\ users' = Append(users, [verified |-> FALSE, roles |-> {}])
    /\ UNCHANGED activated

\* A verification, an insert of a role, or a save of a user that was read earlier.
Save ==
    \E id \in DOMAIN users, verified \in BOOLEAN, roles \in RoleSets :
       /\ users' = [users EXCEPT ![id] = [verified |-> verified, roles |-> roles]]
       /\ activated' = IF verified THEN activated \cup {id} ELSE activated

Spec == Init /\ [][Insert \/ Save]_<<users, activated>>
=============================================================================
