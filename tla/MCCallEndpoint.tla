---------------------------- MODULE MCCallEndpoint ----------------------------
(* Two calls.  A deployment of beta needs no token; those of acme take     *)
(* that of the platform, of the default helper, or of their own.           *)
EXTENDS CallEndpoint, TLC

CONSTANTS r1, r2

MCIds      == {r1, r2}
MCHeaderOf == "login" :> <<"authorization", "Title">> @@ "admin" :> <<"x-token", "lower">>

Prod == <<"acme", "eu", "ads", "prod">>
Dev  == <<"acme", "eu", "ads", "dev">>
Beta == <<"beta", "eu", "ads", "prod">>

Defaults == <<"acme", "eu", "ads", Omitted>>

(* One of Threshold bytes, one of more bytes and no more characters, one   *)
(* of more characters, and null.                                           *)
MCBodies ==
    {[size |-> size, width |-> width, null |-> FALSE] :
        <<size, width>> \in {<<3, 1>>, <<2, 2>>, <<5, 1>>}}
    \cup {[size |-> 4, width |-> 1, null |-> TRUE]}

(* The levels at which the helpers are named.                              *)
MCConfigs ==
    {[deployments |-> {Prod, Dev, Beta}, address |-> Defaults, user |-> user,
      headers |-> {<<"authorization", "lower">>, <<"x-tenant", "lower">>},
      helper |-> helper] :
        user \in {Omitted, "ann"},
        helper \in {<<"acme">> :> "login" @@ Dev :> "admin",
                    <<"services", "acme", "eu">> :> "admin" @@ <<"acme", "eu">> :> "login",
                    << >> :> "login" @@ <<"acme", "eu", "ads">> :> "admin"}}

Base == [address |-> <<Omitted, Omitted, Omitted, "prod">>, user |-> Omitted,
         target |-> "operation", paramsGiven |-> TRUE, headers |-> {}]

(* One argument at a time is not the first choice, and one call of beta    *)
(* brings an authorization of its own.                                     *)
MCRequests ==
    {Base, [Base EXCEPT !.paramsGiven = FALSE], [Base EXCEPT !.user = "bob"],
     [Base EXCEPT !.address[1] = "beta", !.headers = {<<"authorization", "Title">>}]}
    \cup {[Base EXCEPT !.address[n] = x] :
             <<n, x>> \in {<<1, "beta">>, <<4, "dev">>, <<4, "stage">>, <<4, Omitted>>}}
    \cup {[Base EXCEPT !.target = x] : x \in {"path", Omitted}}
    \cup {[Base EXCEPT !.headers = x] :
             x \in {{<<"authorization", "Title">>},
                    {<<"authorization", "UPPER">>, <<"x-tenant", "lower">>}}}
=============================================================================
