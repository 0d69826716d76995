----------------------------- MODULE MCAccounts -----------------------------
(***************************************************************************)
(* Small instances of Accounts: one address, so that all requests meet on  *)
(* one account, and two passwords.  The sign-ups ask for a guest, for an   *)
(* administrator, and for one with a wrong key.                            *)
(***************************************************************************)
EXTENDS Accounts, TLC

CONSTANTS h1, h2, h3, ann, p1, p2

SignUp(asRoles, keyMatches) ==
    [op |-> "signUp", email |-> ann, password |-> p1, roles |-> asRoles,
     keyMatches |-> keyMatches]

MCSignUps   == {SignUp({}, FALSE), SignUp({"Admin"}, TRUE), SignUp({"Admin"}, FALSE)}
GuestSignUp == {SignUp({}, FALSE)}

Symmetry == Permutations(Handlers)
=============================================================================
