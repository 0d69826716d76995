------------------------- MODULE MCConnectionPool --------------------------
(* Instances of ConnectionPool for TLC.                                    *)
EXTENDS ConnectionPool

CONSTANTS r1, r2, r3

\* One request that keeps a connection, beside two others.
MixedWorkloads ==
    {(r1 :> a) @@ (r2 :> b) @@ (r3 :> c) :
        a \in {"signUp", "firstSocial", "linkSocial", "social", "createNewPassword"},
        b \in {"signIn", "verifyEmail"}, c \in {"createCountry", "wrapped"}}
    \cup {(r1 :> a) @@ (r2 :> "signIn") @@ (r3 :> "createRoom") :
            a \in {"social", "createNewPassword"}}

\* A sign-in with Google that finds its account, beside a request that writes.
EarlyReturnWorkloads ==
    {(r1 :> a) @@ (r2 :> "createCountry") : a \in {"social", "linkSocial"}}

\* Two sign-ups.
SignUpWorkloads == {(r1 :> "signUp") @@ (r2 :> "signUp")}

\* One that leaves its transaction open, beside one that commits statement by statement
\* and one that saves.
LiveWorkloads ==
    {(r1 :> "social")     @@ (r2 :> "createCountry") @@ (r3 :> "reserve"),
     (r1 :> "linkSocial") @@ (r2 :> "createCountry") @@ (r3 :> "signIn")}
=============================================================================
