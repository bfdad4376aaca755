----------------------------- MODULE MCConfigLoad -----------------------------
(* Two platforms and a helper; config.json declares up to two of the parts *)
(* below, the first drop-in up to two of those that replace others, and    *)
(* the second any one.                                                     *)
EXTENDS ConfigLoad

MCPlatforms == {"acme", "beta"}
MCHelpers   == {"login"}

(* The defaults of a file, as far as it goes. *)
Address(d) == {<<DefaultPaths[n], d[n]>> : n \in {k \in 1..4 : d[k] # "-"}}

Parts == {{x} : x \in {<<DefaultHelper, "login">>, <<Helper("login"), Good>>,
                       <<AllPlatforms, Null>>, <<Platform("acme"), Bad>>,
                       <<Regions("acme"), Good>>, <<Regions("acme"), Bad>>,
                       <<HelperOf("acme"), "login">>, <<HelperOf("acme"), Null>>,
                       <<Regions("beta"), Good>>}}
         \cup {Address(d) : d \in {<<"acme", "-", "-", "-">>, <<Null, "-", "-", "-">>,
                                   <<"acme", Here, Here, Here>>, <<"acme", Here, "-", "-">>,
                                   <<"-", "-", Gone, "-">>, <<"-", "-", "-", Here>>}}

Replacing == {{<<AllPlatforms, Null>>}, {<<Platform("acme"), Bad>>},
              {<<Regions("acme"), Good>>}, {<<Regions("acme"), Bad>>},
              {<<HelperOf("acme"), Null>>},
              Address(<<"acme", Here, "-", "-">>), Address(<<"-", "-", "-", Here>>)}

Content(S) == [r \in {x[1] : x \in S} |-> (CHOOSE x \in S : x[1] = r)[2]]

UpTo(n, P) ==
    {Content(S) : S \in {T \in {UNION Q : Q \in UNION {kSubset(k, P) : k \in 0..n}} :
                            \A x, y \in T : Related(x[1], y[1]) => x = y}}

MCContentsOf == << UpTo(2, Replacing), UpTo(1, Parts) >> @@ 0 :> UpTo(2, Parts)
=============================================================================
