----------------------------- MODULE CallEndpoint -----------------------------
(***************************************************************************)
(* The calls of one server: call_endpoint (tools/call_endpoint.py) and     *)
(* ApiClient.call (api_client.py), from the arguments and the defaults of  *)
(* the configuration to the deployment, the token, the request and the     *)
(* result that ResponseCache keeps.                                        *)
(*                                                                         *)
(* A step lasts from one await to the next.  Of the parts with modules of  *)
(* their own a call sees this much: get_operation finds an operation or    *)
(* raises (SpecRegistry), header_for returns the cached token or one       *)
(* minted for it, or raises (TokenProvider, TokenStore).                   *)
(***************************************************************************)
EXTENDS ResponseCache, Sequences, Functions

CONSTANTS
    Configs,        \* configurations that load (ConfigLoad)
    Requests,       \* arguments of a call
    HeaderOf,       \* HeaderOf[h]: the header the tokens of helper h go into
    NoToken,        \* no token
    MaxTokens       \* bound on the tokens minted for a key

Omitted == "omitted"    \* no such argument, default or token_helper

VARIABLES
    config,         \* what load_config returned when the server started
    call,           \* call[i]: a call under way, and how far it is
    cached,         \* cached[k]: the token the server would reuse for key k
    minted,         \* minted[k]: how many tokens of k there have been
    refused         \* the tokens a 401 came back for

tokens == <<cached, minted, refused>>
vars   == <<cache, config, call, tokens>>

(* Header names are pairs of a name and a spelling: the names of the dict  *)
(* are compared with the spelling, those on the wire without.              *)
SameName(x, y) == x[1] = y[1]

-----------------------------------------------------------------------------
(* resolve: an argument, or else its default. *)
Resolved(arg, default) == IF arg = Omitted THEN default ELSE arg

(* <<platform, region, service, env>> *)
Address(r) == [n \in 1..4 |-> Resolved(r.address[n], config.address[n])]

User(r) == Resolved(r.user, config.user)

(* resolve_token_helper_name walks outward from the deployment:            *)
(* env, service, services, region, platform, defaults.                     *)
Levels(d) ==
    << d, SubSeq(d, 1, 3), <<"services", d[1], d[2]>>, SubSeq(d, 1, 2), <<d[1]>>, << >> >>

NamedAt(level) == IF level \in DOMAIN config.helper THEN config.helper[level] ELSE Omitted

Bound(d) ==
    LET levels == Levels(d)
        named  == {n \in DOMAIN levels : NamedAt(levels[n]) # Omitted}
    IN  IF named = {} THEN Omitted
        ELSE NamedAt(levels[CHOOSE n \in named : \A m \in named : n <= m])

(* The key of the tokens of a call: cache_key of its helper and its user.  *)
Key(r) == <<Bound(Address(r)), User(r)>>

Keys == (DOMAIN HeaderOf) \X ({c.user : c \in Configs} \cup {r.user : r \in Requests})

(* A configuration names only helpers it has (HelperFound of ConfigLoad).  *)
ASSUME CallAssumption == /\ \A c \in Configs : Range(c.helper) \subseteq DOMAIN HeaderOf
                         /\ Omitted \notin DOMAIN HeaderOf
                         /\ NoToken \notin [key : Keys, serial : Nat]
                         /\ MaxTokens \in Nat

(* get_deployment *)
Deployed(r) == Address(r) \in config.deployments

(* Mutant: the path parameters are not looked at. *)
UrlUnchecked(r) == Deployed(r)

(* There is a deployment, and _build_url finds the parameters of the path. *)
UrlBuilt(r) == Deployed(r) /\ r.paramsGiven

(* Config headers, and the caller's over them: a dict, spelled names.      *)
Merged(r) == [x \in r.headers \cup config.headers |->
                 IF x \in r.headers THEN "caller" ELSE "config"]

(* Mutants: the token's header is set as any other of the dict, or only    *)
(* where the caller has given none.                                        *)
BearingSpelled(merged, h) ==
    [x \in {HeaderOf[h]} \cup DOMAIN merged |-> IF x = HeaderOf[h] THEN "token" ELSE merged[x]]
BearingLast(merged, h) ==
    [x \in {HeaderOf[h]} \cup DOMAIN merged |-> IF x \in DOMAIN merged THEN merged[x] ELSE "token"]

(* The token of helper h replaces every header of its name, whatever the   *)
(* spelling.                                                               *)
Bearing(merged, h) ==
    [x \in {HeaderOf[h]} \cup {y \in DOMAIN merged : ~SameName(y, HeaderOf[h])} |->
        IF x = HeaderOf[h] THEN "token" ELSE merged[x]]

-----------------------------------------------------------------------------
(***************************************************************************)
(*   new        not made yet                                               *)
(*   resolving  awaiting get_operation                                     *)
(*   token      awaiting header_for                                        *)
(*   sent       awaiting the deployment's answer                           *)
(*   ended      the tool has returned or raised                            *)
(***************************************************************************)
New   == [at |-> "new"]
Ended == [at |-> "ended"]

Init ==
    /\ CacheInit
    /\ config \in Configs
    /\ call = [i \in Ids |-> New]
    /\ cached = [k \in Keys |-> NoToken]
    /\ minted = [k \in Keys |-> 0]
    /\ refused = {}

End(i) == call' = [call EXCEPT ![i] = Ended]

Send(i, r, headers, token) ==
    call' = [call EXCEPT ![i] = [at |-> "sent", request |-> r, headers |-> headers,
                                 token |-> token]]

(* From get_deployment to the first await: no token is asked for before    *)
(* the deployment and the URL are there, and none without a helper.        *)
Proceed(i, r) ==
    IF ~UrlBuilt(r) THEN End(i)
    ELSE IF Bound(Address(r)) = Omitted THEN Send(i, r, Merged(r), NoToken)
    ELSE call' = [call EXCEPT ![i] = [at |-> "token", request |-> r]]

(* An operation_id wins over a method and a path, which need no spec.      *)
Start(i, r) ==
    /\ call[i] = New
    /\ IF Omitted \in Range(Address(r)) \/ r.target = Omitted THEN End(i)
       ELSE IF r.target = "path" THEN Proceed(i, r)
       ELSE call' = [call EXCEPT ![i] = [at |-> "resolving", request |-> r]]
    /\ UNCHANGED <<cache, config, tokens>>

OperationFound(i) ==
    /\ call[i].at = "resolving"
    /\ Proceed(i, call[i].request)
    /\ UNCHANGED <<cache, config, tokens>>

(* header_for returns: the request is sent without another await. *)
TokenGiven(i) ==
    /\ call[i].at = "token"
    /\ LET r == call[i].request
           k == Key(r)
           new == [key |-> k, serial |-> minted[k] + 1]
       IN  /\ \/ /\ cached[k] # NoToken
                 /\ Send(i, r, Bearing(Merged(r), k[1]), cached[k])
                 /\ UNCHANGED <<cached, minted>>
              \/ /\ cached[k] = NoToken
                 /\ minted[k] < MaxTokens
                 /\ Send(i, r, Bearing(Merged(r), k[1]), new)
                 /\ cached' = [cached EXCEPT ![k] = new]
                 /\ minted' = [minted EXCEPT ![k] = @ + 1]
    /\ UNCHANGED <<cache, config, refused>>

(* Mutants: retire is given the user as the caller named it, or the helper *)
(* of the defaults.                                                        *)
RetiredKeyAsNamed(r) == <<Bound(Address(r)), r.user>>
RetiredKeyOfDefaults(r) == <<NamedAt(<< >>), User(r)>>

(* retire drops what is cached for the deployment and the user. *)
RetiredKey(r) == Key(r)

(* A 401 retires the token the request bore, if it bore one; the body is   *)
(* shown as that of any other answer.                                      *)
Answer(i, unauthorized, body) ==
    /\ call[i].at = "sent"
    /\ End(i)
    /\ IF unauthorized /\ call[i].token # NoToken
       THEN /\ cached' = [k \in Keys |-> IF k = RetiredKey(call[i].request) THEN NoToken
                                                                           ELSE cached[k]]
            /\ refused' = refused \cup {call[i].token}
       ELSE UNCHANGED <<cached, refused>>
    /\ BuildResult(i, body)
    /\ UNCHANGED <<config, minted>>

(* No operation, no token, no answer in time, or a cancelled call. *)
Fail(i) ==
    /\ call[i].at \in {"resolving", "token", "sent"}
    /\ End(i)
    /\ UNCHANGED <<cache, config, tokens>>

(* A token expires, or another server's 401 retires it. *)
Expire(k) ==
    /\ cached[k] # NoToken
    /\ cached' = [cached EXCEPT ![k] = NoToken]
    /\ UNCHANGED <<cache, config, call, minted, refused>>

Next ==
    \/ \E i \in Ids :
          \/ \E r \in Requests : Start(i, r)
          \/ OperationFound(i)
          \/ TokenGiven(i)
          \/ \E unauthorized \in BOOLEAN, body \in Bodies : Answer(i, unauthorized, body)
          \/ Fail(i)
          \/ \E kind \in Kinds : Get(i, kind) /\ UNCHANGED <<config, call, tokens>>
    \/ \E k \in Keys : Expire(k)
    \/ Tick /\ UNCHANGED <<config, call, tokens>>

Spec == Init /\ [][Next]_vars

-----------------------------------------------------------------------------
(* api_client.py:116: "two spellings of one name are two headers on the    *)
(* wire".  A request to a deployment with a token helper carries exactly   *)
(* one header of the token's name, the token: of the helper named nearest  *)
(* to the deployment, for the user of the call.  Every other header of the *)
(* caller, and of the configuration where the caller has not replaced it,  *)
(* is carried too.                                                         *)
OneCredential ==
    \A i \in Ids : call[i].at = "sent" /\ call[i].token # NoToken =>
        LET r == call[i].request
            headers == call[i].headers
            helper == call[i].token.key[1]
            name == HeaderOf[helper]
            levels == Levels(Address(r))
        IN  /\ {x \in DOMAIN headers : SameName(x, name)} = {name}
            /\ headers[name] = "token"
            /\ \A x \in r.headers : SameName(x, name) \/ headers[x] = "caller"
            /\ \A x \in config.headers \ r.headers :
                  SameName(x, name) \/ headers[x] = "config"
            /\ call[i].token.key[2] = User(r)
            /\ \E n \in DOMAIN levels : /\ NamedAt(levels[n]) = helper
                                        /\ \A m \in 1..(n - 1) : NamedAt(levels[m]) = Omitted

(* A call that cannot be sent costs nothing: no helper is asked for a      *)
(* token, and no request sent, for arguments that name no deployment, no   *)
(* operation or path, or leave a path parameter out.                       *)
NothingForNothing ==
    \A i \in Ids : call[i].at \in {"token", "sent"} =>
        LET r == call[i].request
        IN  /\ \E d \in config.deployments : \A n \in 1..4 :
                  d[n] = IF r.address[n] = Omitted THEN config.address[n] ELSE r.address[n]
            /\ r.target # Omitted
            /\ r.paramsGiven

(* auth.py:436: the next call mints a fresh token "instead of replaying a  *)
(* credential the upstream API has already refused": once a 401 has come   *)
(* back, no request leaves with the token it refused.                      *)
RefusedStayUnsent ==
    [][\A i \in Ids :
          (call[i].at # "sent" /\ call'[i].at = "sent") => call'[i].token \notin refused]_vars

-----------------------------------------------------------------------------
(* server.py:465, of a call's headers: "Authorization is always            *)
(* overridden".  It is the caller's where no token helper is bound.        *)
AuthorizationOverridden ==
    \A i \in Ids, x \in {HeaderOf[h] : h \in DOMAIN HeaderOf} :
        (call[i].at = "sent" /\ x \in DOMAIN call[i].headers) =>
            call[i].headers[x] # "caller"
=============================================================================
