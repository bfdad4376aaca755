-------------------------- MODULE CallEndpointProofs --------------------------
(***************************************************************************)
(* For any configurations that load, any arguments and any number of       *)
(* calls: what a request carries, and that none carries what was refused.  *)
(***************************************************************************)
EXTENDS CallEndpoint, TLAPS

Tokens == [key : Keys, serial : Nat]

(* A call under way has been resolved as far as its place says. *)
Resolvable(r) == /\ r \in Requests
                 /\ Omitted \notin Range(Address(r))
                 /\ r.target # Omitted

Sendable(r) == Resolvable(r) /\ UrlBuilt(r)

CallOK(c, counts) ==
    /\ c.at \in {"new", "resolving", "token", "sent", "ended"}
    /\ c.at = "resolving" => Resolvable(c.request)
    /\ c.at = "token" => Sendable(c.request) /\ Bound(Address(c.request)) # Omitted
    /\ c.at = "sent" =>
          /\ Sendable(c.request)
          /\ c.token # NoToken =>
                /\ c.token \in Tokens
                /\ c.token.key = Key(c.request)
                /\ c.token.serial <= counts[c.token.key]
                /\ Bound(Address(c.request)) # Omitted
                /\ c.headers = Bearing(Merged(c.request), c.token.key[1])

CallsOK == \A i \in Ids : \A c, counts : (c = call[i] /\ counts = minted) => CallOK(c, counts)

(* A cached token is of its key, and no newer than the last one minted.    *)
TokensOK ==
    /\ minted \in [Keys -> Nat]
    /\ cached \in [Keys -> Tokens \cup {NoToken}]
    /\ refused \subseteq Tokens
    /\ \A t \in refused : t.serial <= minted[t.key]
    /\ \A k \in Keys : cached[k] # NoToken =>
          cached[k].key = k /\ cached[k].serial <= minted[k] /\ cached[k] \notin refused

Inv == /\ config \in Configs
       /\ call = [i \in Ids |-> call[i]]
       /\ CallsOK
       /\ TokensOK

-----------------------------------------------------------------------------
(* The levels are walked in order: what is bound is named, and nothing is  *)
(* named nearer to the deployment.                                         *)
LEMMA NearestIsBound ==
    ASSUME NEW d, Bound(d) # Omitted
    PROVE  \E n \in DOMAIN Levels(d) :
              /\ NamedAt(Levels(d)[n]) = Bound(d)
              /\ \A m \in 1..(n - 1) : NamedAt(Levels(d)[m]) = Omitted
<1> DEFINE levels == Levels(d)
           named == {n \in DOMAIN levels : NamedAt(levels[n]) # Omitted}
<1>1. DOMAIN levels = 1..6
  BY DEF Levels
<1> HIDE DEF levels
<1>2. named # {} /\ Bound(d) = NamedAt(levels[CHOOSE n \in named : \A m \in named : n <= m])
  BY DEF Bound, levels
<1>3. \E n \in named : \A m \in named : n <= m
  BY <1>1, <1>2
<1>4. PICK n \in named : /\ Bound(d) = NamedAt(levels[n])
                         /\ \A m \in named : n <= m
  BY <1>2, <1>3
<1>5. \A m \in 1..(n - 1) : m \in DOMAIN levels /\ m \notin named
  BY <1>1, <1>4
<1> QED
  BY <1>4, <1>5 DEF levels

(* What is bound is a helper that is configured, *)
LEMMA BoundIsDeclared ==
    ASSUME config \in Configs, NEW d, Bound(d) # Omitted
    PROVE  Bound(d) \in DOMAIN HeaderOf
<1>1. PICK level : NamedAt(level) = Bound(d)
  BY NearestIsBound
<1> QED
  BY <1>1, CallAssumption DEF NamedAt, Range

(* and the key of a call with a helper one of the keys.                    *)
LEMMA KeyIsKey ==
    ASSUME config \in Configs, NEW r \in Requests, Bound(Address(r)) # Omitted
    PROVE  Key(r) \in Keys
<1>1. User(r) \in {c.user : c \in Configs} \cup {q.user : q \in Requests}
  BY DEF User, Resolved
<1> QED
  BY <1>1, BoundIsDeclared DEF Key, Keys

(* To begin with nothing is called, cached or refused.                     *)
LEMMA InvInit == Init => Inv
BY DEF Init, Inv, CallsOK, CallOK, TokensOK, New

-----------------------------------------------------------------------------
(* The configuration stays, and with it whatever is read off it.           *)
LEMMA ConfigKept ==
    ASSUME UNCHANGED config
    PROVE  /\ \A r : Address(r)' = Address(r)
           /\ \A r : User(r)' = User(r)
           /\ \A r : Merged(r)' = Merged(r)
           /\ \A r : UrlBuilt(r)' = UrlBuilt(r)
           /\ \A d : Bound(d)' = Bound(d)
           /\ \A r : Key(r)' = Key(r)
           /\ \A c, counts : CallOK(c, counts)' = CallOK(c, counts)
<1>1. \A r : Address(r)' = Address(r)
  BY DEF Address
<1>2. \A r : User(r)' = User(r)
  BY DEF User
<1>3. \A r : Merged(r)' = Merged(r)
  BY DEF Merged
<1>4. \A r : UrlBuilt(r)' = UrlBuilt(r)
  BY <1>1 DEF UrlBuilt, Deployed
<1>5. \A d : Bound(d)' = Bound(d)
  BY DEF Bound, NamedAt
<1>6. \A r : Key(r)' = Key(r)
  BY <1>1, <1>2, <1>5 DEF Key
<1>7. \A c, counts : CallOK(c, counts)' = CallOK(c, counts)
  BY DEF CallOK, Resolvable, Sendable, UrlBuilt, Deployed, Address, User, Merged, Bound, NamedAt, Key
<1> QED
  BY <1>1, <1>2, <1>3, <1>4, <1>5, <1>6, <1>7

(* A step of call i leaves the others as they are, and they stay what they *)
(* are while more tokens are minted.                                       *)
LEMMA CallsStep ==
    ASSUME Inv, UNCHANGED config, TokensOK', NEW i \in Ids, NEW c,
           call' = [call EXCEPT ![i] = c],
           \A counts : counts = minted' => CallOK(c, counts),
           \A k \in Keys : minted[k] <= minted'[k]
    PROVE  CallsOK'
<1> SUFFICES ASSUME NEW j \in Ids, NEW d, NEW counts, d = call'[j], counts = minted'
             PROVE  CallOK(d, counts)
  BY ConfigKept DEF CallsOK
<1>1. CASE j = i
  BY <1>1 DEF Inv
<1>2. CASE j # i
  <2>1. d = call[j]
    BY <1>2 DEF Inv
  <2>2. CallOK(d, minted)
    BY <2>1 DEF Inv, CallsOK
  <2>3. \A t \in Tokens : t.serial <= minted[t.key] => t.serial <= counts[t.key]
    BY DEF Inv, TokensOK, Tokens
  <2> QED
    BY <2>2, <2>3 DEF CallOK
<1> QED
  BY <1>1, <1>2


-----------------------------------------------------------------------------
(* From get_deployment on: sent bare, on its way to a token, or over.      *)
LEMMA ProceedStep ==
    ASSUME Inv, NEW i \in Ids, NEW r, Resolvable(r), Proceed(i, r), UNCHANGED <<config, tokens>>
    PROVE  CallsOK'
<1>1. TokensOK' /\ UNCHANGED config /\ \A k \in Keys : minted[k] <= minted'[k]
  BY DEF tokens, Inv, TokensOK
<1>2. CASE ~UrlBuilt(r)
  BY <1>1, <1>2, CallsStep DEF Proceed, End, Ended, CallOK
<1>3. CASE UrlBuilt(r) /\ Bound(Address(r)) = Omitted
  <2> DEFINE c == [at |-> "sent", request |-> r, headers |-> Merged(r), token |-> NoToken]
  <2>1. \A counts : CallOK(c, counts)
    BY <1>3 DEF CallOK, Sendable
  <2>2. call' = [call EXCEPT ![i] = c]
    BY <1>3 DEF Proceed, Send
  <2> HIDE DEF c
  <2> QED
    BY <1>1, <2>1, <2>2, CallsStep
<1>4. CASE UrlBuilt(r) /\ Bound(Address(r)) # Omitted
  <2> DEFINE c == [at |-> "token", request |-> r]
  <2>1. \A counts : CallOK(c, counts)
    BY <1>4 DEF CallOK, Sendable
  <2>2. call' = [call EXCEPT ![i] = c]
    BY <1>4 DEF Proceed
  <2> HIDE DEF c
  <2> QED
    BY <1>1, <2>1, <2>2, CallsStep
<1> QED
  BY <1>2, <1>3, <1>4

(* The token given is cached, or newer than any that was refused.          *)
LEMMA TokenGivenStep ==
    ASSUME Inv, NEW i \in Ids, TokenGiven(i)
    PROVE  TokensOK' /\ CallsOK'
<1> DEFINE r == call[i].request
           k == Key(r)
           new == [key |-> k, serial |-> minted[k] + 1]
           Sent(token) == [at |-> "sent", request |-> r,
                           headers |-> Bearing(Merged(r), k[1]), token |-> token]
<1>1. /\ Sendable(r) /\ Bound(Address(r)) # Omitted
      /\ config \in Configs /\ UNCHANGED <<config, refused>>
  <2>1. CallOK(call[i], minted) /\ call[i].at = "token"
    BY DEF Inv, CallsOK, TokenGiven
  <2> QED
    BY <2>1 DEF CallOK, TokenGiven, Inv
<1>2. k \in Keys
  BY <1>1, KeyIsKey DEF Sendable, Resolvable
<1>3. \A token \in Tokens : \A counts :
         token.key = k /\ token.serial <= counts[k] => CallOK(Sent(token), counts)
  BY <1>1 DEF CallOK
<1> HIDE DEF r, k
<1>4. CASE cached[k] # NoToken /\ UNCHANGED <<cached, minted>>
           /\ call' = [call EXCEPT ![i] = Sent(cached[k])]
  <2>1. TokensOK' /\ \A q \in Keys : minted[q] <= minted'[q]
    BY <1>1, <1>4 DEF Inv, TokensOK
  <2>2. \A counts : counts = minted' => CallOK(Sent(cached[k]), counts)
    BY <1>2, <1>3, <1>4 DEF Inv, TokensOK
  <2> HIDE DEF Sent
  <2> QED
    BY <1>1, <1>4, <2>1, <2>2, CallsStep
<1>5. CASE cached[k] = NoToken /\ call' = [call EXCEPT ![i] = Sent(new)]
           /\ cached' = [cached EXCEPT ![k] = new] /\ minted' = [minted EXCEPT ![k] = @ + 1]
  <2>1. new \in Tokens /\ new \notin refused /\ new # NoToken
    BY <1>2, CallAssumption DEF Inv, TokensOK, Tokens
  <2>2. TokensOK' /\ \A q \in Keys : minted[q] <= minted'[q]
    <3>1. minted' \in [Keys -> Nat] /\ \A q \in Keys : minted[q] <= minted'[q]
      BY <1>2, <1>5 DEF Inv, TokensOK
    <3>2. cached' \in [Keys -> Tokens \cup {NoToken}]
      BY <1>2, <1>5, <2>1 DEF Inv, TokensOK
    <3>3. \A t \in refused' : t \in Tokens /\ t.serial <= minted'[t.key]
      BY <1>1, <3>1 DEF Inv, TokensOK, Tokens
    <3>4. ASSUME NEW q \in Keys, cached'[q] # NoToken
          PROVE  cached'[q].key = q /\ cached'[q].serial <= minted'[q] /\ cached'[q] \notin refused'
      <4>1. CASE q = k
        <5>1. cached'[q] = new /\ minted'[q] = minted[k] + 1
          BY <1>2, <1>5, <4>1 DEF Inv, TokensOK
        <5> QED
          BY <1>1, <1>2, <2>1, <4>1, <5>1 DEF Inv, TokensOK
      <4>2. CASE q # k
        BY <1>1, <1>5, <3>4, <4>2 DEF Inv, TokensOK
      <4> QED
        BY <4>1, <4>2
    <3> QED
      BY <3>1, <3>2, <3>3, <3>4 DEF TokensOK
  <2>3. \A counts : counts = minted' => CallOK(Sent(new), counts)
    <3>1. new.key = k /\ new.serial <= minted'[k]
      BY <1>2, <1>5 DEF Inv, TokensOK
    <3> HIDE DEF new, Sent
    <3> QED
      BY <1>3, <2>1, <3>1
  <2> HIDE DEF Sent, new
  <2> QED
    BY <1>1, <1>5, <2>2, <2>3, CallsStep
<1> QED
  BY <1>4, <1>5 DEF TokenGiven, Send, r, k

(* A 401 refuses the token that was sent and drops what is cached under    *)
(* its key, so what stays cached is of other keys.                         *)
LEMMA AnswerStep ==
    ASSUME Inv, NEW i \in Ids, NEW unauthorized, NEW body,
           Answer(i, unauthorized, body)
    PROVE  TokensOK' /\ CallsOK'
<1> DEFINE token == call[i].token
<1>1. CallOK(call[i], minted) /\ call[i].at = "sent"
  BY DEF Inv, CallsOK, Answer
<1>2. TokensOK'
  <2>1. CASE UNCHANGED <<cached, refused>>
    BY <2>1 DEF Inv, TokensOK, Answer
  <2>2. CASE /\ token # NoToken
             /\ cached' = [k \in Keys |-> IF k = Key(call[i].request) THEN NoToken ELSE cached[k]]
             /\ refused' = refused \cup {token}
    <3>1. /\ token \in Tokens /\ token.key = Key(call[i].request)
          /\ token.serial <= minted[token.key]
      BY <1>1, <2>2 DEF CallOK
    <3> HIDE DEF token
    <3> QED
      BY <2>2, <3>1 DEF Inv, TokensOK, Answer
  <2> QED
    BY <2>1, <2>2 DEF Answer, RetiredKey
<1>3. /\ call' = [call EXCEPT ![i] = Ended] /\ UNCHANGED <<config, minted>>
      /\ \A counts : CallOK(Ended, counts)
  BY DEF Answer, End, Ended, CallOK
<1>4. \A k \in Keys : minted[k] <= minted'[k]
  BY <1>3 DEF Inv, TokensOK
<1> QED
  BY <1>2, <1>3, <1>4, CallsStep

(* Every other step ends a call, takes it on, or leaves it alone.          *)
LEMMA InvStep == Inv /\ [Next]_vars => Inv'
<1> SUFFICES ASSUME Inv, [Next]_vars PROVE Inv'
  OBVIOUS
<1>1. config' = config
  BY DEF Next, Start, OperationFound, TokenGiven, Answer, Fail, Expire, vars
<1>2. call' = [i \in Ids |-> call'[i]]
  BY DEF Next, Start, OperationFound, TokenGiven, Answer, Fail, Expire, vars, Inv, End, Proceed,
     Send
<1>3. ASSUME UNCHANGED call, TokensOK', UNCHANGED minted PROVE CallsOK'
  BY <1>1, <1>3, ConfigKept DEF Inv, CallsOK
<1>4. ASSUME NEW i \in Ids, call' = [call EXCEPT ![i] = Ended], UNCHANGED tokens
      PROVE  TokensOK' /\ CallsOK'
  <2>1. TokensOK' /\ \A k \in Keys : minted[k] <= minted'[k]
    BY <1>4 DEF tokens, Inv, TokensOK
  <2>2. \A counts : CallOK(Ended, counts)
    BY DEF CallOK, Ended
  <2> QED
    BY <1>1, <1>4, <2>1, <2>2, CallsStep
<1>5. ASSUME NEW i \in Ids, NEW r \in Requests, Start(i, r) PROVE TokensOK' /\ CallsOK'
  <2>1. UNCHANGED <<config, tokens>> /\ TokensOK' /\ \A k \in Keys : minted[k] <= minted'[k]
    BY <1>5 DEF Start, tokens, Inv, TokensOK
  <2>2. CASE Omitted \in Range(Address(r)) \/ r.target = Omitted
    BY <1>4, <1>5, <2>1, <2>2 DEF Start, End
  <2>3. CASE Resolvable(r) /\ Proceed(i, r)
    BY <2>1, <2>3, ProceedStep
  <2>4. CASE Resolvable(r) /\ call' = [call EXCEPT ![i] = [at |-> "resolving", request |-> r]]
    <3>1. \A counts : CallOK([at |-> "resolving", request |-> r], counts)
      BY <2>4 DEF CallOK
    <3> QED
      BY <2>1, <2>4, <3>1, CallsStep
  <2> QED
    BY <1>5, <2>2, <2>3, <2>4 DEF Start, Resolvable
<1>6. ASSUME NEW i \in Ids, OperationFound(i) PROVE TokensOK' /\ CallsOK'
  <2>1. Resolvable(call[i].request)
    <3>1. CallOK(call[i], minted) /\ call[i].at = "resolving"
      BY <1>6 DEF Inv, CallsOK, OperationFound
    <3> QED
      BY <3>1 DEF CallOK
  <2>2. UNCHANGED <<config, tokens>> /\ TokensOK'
    BY <1>6 DEF OperationFound, tokens, Inv, TokensOK
  <2> QED
    BY <1>6, <2>1, <2>2, ProceedStep DEF OperationFound
<1>7. ASSUME NEW i \in Ids, Fail(i) PROVE TokensOK' /\ CallsOK'
  BY <1>4, <1>7 DEF Fail, End
<1>8. ASSUME NEW k \in Keys, Expire(k) PROVE TokensOK' /\ CallsOK'
  <2>1. TokensOK'
    BY <1>8 DEF Expire, Inv, TokensOK
  <2> QED
    BY <1>3, <1>8, <2>1 DEF Expire
<1>9. ASSUME UNCHANGED <<config, call, tokens>> PROVE TokensOK' /\ CallsOK'
  <2>1. TokensOK'
    BY <1>9 DEF tokens, Inv, TokensOK
  <2> QED
    BY <1>3, <1>9, <2>1 DEF tokens, Inv
<1>10. TokensOK' /\ CallsOK'
  <2>1. ASSUME NEW i \in Ids, TokenGiven(i) PROVE TokensOK' /\ CallsOK'
    BY <2>1, TokenGivenStep
  <2>2. ASSUME NEW i \in Ids, NEW unauthorized \in BOOLEAN, NEW body \in Bodies,
               Answer(i, unauthorized, body)
        PROVE  TokensOK' /\ CallsOK'
    BY <2>2, AnswerStep
  <2>3. ASSUME UNCHANGED vars PROVE TokensOK' /\ CallsOK'
    <3>1. UNCHANGED <<config, call, tokens>>
      BY <2>3 DEF vars
    <3> QED
      BY <1>9, <3>1
  <2>4. \/ \E i \in Ids, r \in Requests : Start(i, r)
        \/ \E i \in Ids : OperationFound(i) \/ TokenGiven(i) \/ Fail(i)
        \/ \E i \in Ids, unauthorized \in BOOLEAN, body \in Bodies :
              Answer(i, unauthorized, body)
        \/ \E k \in Keys : Expire(k)
        \/ UNCHANGED <<config, call, tokens>>
        \/ UNCHANGED vars
    BY DEF Next
  <2> QED
    BY <1>5, <1>6, <1>7, <1>8, <1>9, <2>1, <2>2, <2>3, <2>4
<1> QED
  BY <1>1, <1>2, <1>10 DEF Inv

(* The invariant in full.                                                  *)
LEMMA InvAlways == Spec => []Inv
BY InvInit, InvStep, PTL DEF Spec

-----------------------------------------------------------------------------
(* No helper is asked for a token and no request is sent for arguments     *)
(* that name no deployment and no target (NothingForNothing).              *)
THEOREM NothingIsSentForNothing == Spec => []NothingForNothing
<1>1. ASSUME Inv PROVE NothingForNothing
  <2> SUFFICES ASSUME NEW i \in Ids, call[i].at \in {"token", "sent"}
               PROVE  LET r == call[i].request
                      IN  /\ \E d \in config.deployments : \A n \in 1..4 :
                                d[n] = IF r.address[n] = Omitted THEN config.address[n]
                                                                 ELSE r.address[n]
                          /\ r.target # Omitted
                          /\ r.paramsGiven
    BY DEF NothingForNothing
  <2>1. CallOK(call[i], minted)
    BY <1>1 DEF Inv, CallsOK
  <2>2. Sendable(call[i].request)
    BY <2>1 DEF CallOK
  <2> QED
    BY <2>2 DEF Sendable, Resolvable, UrlBuilt, Deployed, Address, Resolved
<1> QED
  BY <1>1, InvAlways, PTL

(* A request bears one header of its token's name, the token of the helper *)
(* named nearest to its deployment, for its user (OneCredential).          *)
THEOREM CredentialIsOne == Spec => []OneCredential
<1>1. ASSUME Inv, NEW i \in Ids, call[i].at = "sent", call[i].token # NoToken
      PROVE  LET r == call[i].request
                 headers == call[i].headers
                 helper == call[i].token.key[1]
                 name == HeaderOf[helper]
                 levels == Levels(Address(r))
             IN  /\ {x \in DOMAIN headers : SameName(x, name)} = {name}
                 /\ headers[name] = "token"
                 /\ \A x \in r.headers : SameName(x, name) \/ headers[x] = "caller"
                 /\ \A x \in config.headers \ r.headers :
                       SameName(x, name) \/ headers[x] = "config"
                 /\ call[i].token.key[2] = User(r)
                 /\ \E n \in DOMAIN levels : /\ NamedAt(levels[n]) = helper
                                             /\ \A m \in 1..(n - 1) : NamedAt(levels[m]) = Omitted
  <2> DEFINE r == call[i].request
             headers == call[i].headers
             helper == call[i].token.key[1]
             name == HeaderOf[helper]
  <2>1. CallOK(call[i], minted)
    BY <1>1 DEF Inv, CallsOK
  <2>2. /\ helper = Bound(Address(r)) /\ helper # Omitted
        /\ call[i].token.key[2] = User(r)
        /\ headers = Bearing(Merged(r), helper)
    BY <1>1, <2>1 DEF CallOK, Key
  <2>3. \E n \in DOMAIN Levels(Address(r)) :
           /\ NamedAt(Levels(Address(r))[n]) = helper
           /\ \A m \in 1..(n - 1) : NamedAt(Levels(Address(r))[m]) = Omitted
    BY <2>2, NearestIsBound
  <2> HIDE DEF r, headers, helper
  <2>4. /\ {x \in DOMAIN headers : SameName(x, name)} = {name}
        /\ headers[name] = "token"
    BY <2>2 DEF Bearing, SameName
  <2>5. \A x \in r.headers : SameName(x, name) \/ headers[x] = "caller"
    BY <2>2 DEF Bearing, Merged, SameName
  <2>6. \A x \in config.headers \ r.headers : SameName(x, name) \/ headers[x] = "config"
    BY <2>2 DEF Bearing, Merged, SameName
  <2> QED
    BY <2>2, <2>3, <2>4, <2>5, <2>6 DEF r, headers, helper
<1>2. Inv => OneCredential
  BY <1>1 DEF OneCredential
<1> QED
  BY <1>2, InvAlways, PTL

(* No request leaves with a token a 401 has come back for: what is cached  *)
(* is never refused, and what is minted is new (RefusedStayUnsent).        *)
THEOREM RefusedAreUnsent == Spec => RefusedStayUnsent
<1>1. ASSUME Inv, Inv', [Next]_vars, NEW i \in Ids, call[i].at # "sent", call'[i].at = "sent"
      PROVE  call'[i].token \notin refused
  <2>1. ASSUME NEW j \in Ids, NEW r, Proceed(j, r) PROVE call'[i].token \notin refused
    <3>1. call'[i].token = NoToken
      BY <1>1, <2>1 DEF Proceed, End, Ended, Send, Inv
    <3> QED
      BY <1>1, <3>1, CallAssumption DEF Inv, TokensOK, Tokens
  <2>2. ASSUME NEW j \in Ids, call' = [call EXCEPT ![j] = Ended] \/ UNCHANGED call PROVE FALSE
    BY <1>1, <2>2 DEF Ended, Inv
  <2>3. ASSUME NEW j \in Ids, NEW r \in Requests, Start(j, r) PROVE call'[i].token \notin refused
    <3>1. \/ Proceed(j, r)
          \/ call' = [call EXCEPT ![j] = Ended]
          \/ call' = [call EXCEPT ![j] = [at |-> "resolving", request |-> r]]
      BY <2>3 DEF Start, End
    <3>2. CASE call' = [call EXCEPT ![j] = [at |-> "resolving", request |-> r]]
      BY <1>1, <3>2 DEF Inv
    <3> QED
      BY <2>1, <2>2, <3>1, <3>2
  <2>4. ASSUME NEW j \in Ids, OperationFound(j) PROVE call'[i].token \notin refused
    BY <2>1, <2>4 DEF OperationFound
  <2>5. ASSUME NEW j \in Ids, TokenGiven(j) PROVE call'[i].token \notin refused
    <3>1. TokensOK' /\ UNCHANGED refused
      BY <1>1, <2>5 DEF Inv, TokenGiven
    <3>2. /\ i = j /\ call'[i].token = cached'[Key(call[j].request)]
          /\ cached'[Key(call[j].request)] # NoToken /\ Key(call[j].request) \in Keys
      <4>1. CallOK(call[j], minted) /\ call[j].at = "token"
        BY <1>1, <2>5 DEF Inv, CallsOK, TokenGiven
      <4>2. Key(call[j].request) \in Keys
        BY <1>1, <4>1, KeyIsKey DEF CallOK, Sendable, Resolvable, Inv
      <4>3. [key |-> Key(call[j].request), serial |-> minted[Key(call[j].request)] + 1] \in Tokens
        BY <1>1, <4>2 DEF Inv, TokensOK, Tokens
      <4>4. i = j
        BY <1>1, <2>5 DEF Inv, TokenGiven, Send
      <4> QED
        BY <1>1, <2>5, <4>2, <4>3, <4>4, CallAssumption DEF Inv, TokensOK, TokenGiven, Send, Tokens
    <3> QED
      BY <3>1, <3>2 DEF TokensOK
  <2>6. \/ \E j \in Ids : \/ \E r \in Requests : Start(j, r)
                          \/ OperationFound(j) \/ TokenGiven(j)
        \/ \E j \in Ids : call' = [call EXCEPT ![j] = Ended] \/ UNCHANGED call
    BY <1>1 DEF Next, Answer, Fail, End, Expire, vars
  <2> QED
    BY <2>2, <2>3, <2>4, <2>5, <2>6
<1>2. Inv /\ Inv' /\ [Next]_vars =>
         [\A i \in Ids : (call[i].at # "sent" /\ call'[i].at = "sent") =>
                            call'[i].token \notin refused]_vars
  BY <1>1
<1> QED
  BY <1>2, InvAlways, PTL DEF Spec, RefusedStayUnsent

-----------------------------------------------------------------------------
AnyBody == [size : Int, width : Int, null : BOOLEAN]
Entries == [body : AnyBody, at : Int]
Results == [shown : Int, body : AnyBody, linked : BOOLEAN, at : Int]

Stale(at) == now - at > TTL

Entry(i) == [body |-> result[i].body, at |-> result[i].at]

(* An entry of a result is there, or was deleted when it had expired.      *)
Kept(i, kind) == store[i][kind] = Entry(i) \/ (Stale(result[i].at) /\ store[i][kind] = None)

CacheOK ==
    /\ now \in Nat
    /\ store \in [Ids -> [Kinds -> Entries]]
    /\ result \in [Ids -> Results]
    /\ \A i \in Ids : result[i] # NotCalled =>
          /\ Kept(i, "curl")
          /\ IF result[i].linked THEN Kept(i, "body") ELSE result[i].shown = result[i].body.size

(* Nothing is stored to begin with.                                        *)
LEMMA CacheStarts == Init => CacheOK
BY DEF Init, CacheInit, CacheOK, NotCalled, None, NoBody, AnyBody, Entries, Results, Kinds

(* A call stores its own entries whole.                                    *)
LEMMA BuildResultStep ==
    ASSUME CacheOK, NEW i \in Ids, NEW body \in AnyBody, BuildResult(i, body)
    PROVE  CacheOK'
<1> DEFINE entry == [body |-> body, at |-> now]
           large == Oversized(body)
           new == [shown |-> IF large THEN Preview(body) ELSE body.size,
                   body |-> body, linked |-> large, at |-> now]
<1>1. /\ store' = [store EXCEPT ![i].curl = entry, ![i].body = IF large THEN entry ELSE @]
      /\ result' = [result EXCEPT ![i] = new] /\ now' = now
  BY DEF BuildResult
<1>2. entry \in Entries /\ new \in Results
  BY CacheAssumption DEF CacheOK, AnyBody, Entries, Results, Oversized, Preview
<1>3. large \in BOOLEAN /\ new.body = body /\ new.at = now
      /\ new.linked = large /\ (~large => new.shown = body.size)
  BY DEF Oversized
<1> HIDE DEF entry, large, new
<1>4. store' \in [Ids -> [Kinds -> Entries]] /\ result' \in [Ids -> Results] /\ now' \in Nat
  BY <1>1, <1>2 DEF CacheOK, Kinds
<1>5. /\ store'[i]["curl"] = entry
      /\ large => store'[i]["body"] = entry
      /\ result'[i] = new
  BY <1>1 DEF CacheOK, Kinds
<1>6. ASSUME NEW j \in Ids \ {i} PROVE store'[j] = store[j] /\ result'[j] = result[j]
  BY <1>1 DEF CacheOK
<1>7. ASSUME NEW j \in Ids, result'[j] # NotCalled
      PROVE  /\ Kept(j, "curl")'
             /\ IF result'[j].linked THEN Kept(j, "body")' ELSE result'[j].shown = result'[j].body.size
  <2>1. CASE j = i
    BY <1>3, <1>5, <2>1 DEF Kept, Entry, entry
  <2>2. CASE j # i
    BY <1>1, <1>6, <1>7, <2>2 DEF CacheOK, Kept, Entry, Stale
  <2> QED
    BY <2>1, <2>2
<1> QED
  BY <1>4, <1>7 DEF CacheOK

(* Only what has expired is deleted, *)
LEMMA GetStep ==
    ASSUME CacheOK, NEW i \in Ids, NEW kind \in Kinds, Get(i, kind)
    PROVE  CacheOK'
<1>1. /\ store' = [store EXCEPT ![i][kind] = Present(i, kind)] /\ UNCHANGED <<now, result>>
      /\ Present(i, kind) \in {None, store[i][kind]}
      /\ Present(i, kind) # store[i][kind] => Stale(store[i][kind].at)
  BY DEF Get, Present, Expired, Stale
<1>2. None \in Entries
  BY DEF None, NoBody, AnyBody, Entries
<1>3. store' \in [Ids -> [Kinds -> Entries]]
  BY <1>1, <1>2 DEF CacheOK
<1>4. ASSUME NEW j \in Ids, NEW k \in Kinds, Kept(j, k) PROVE Kept(j, k)'
  <2>1. CASE j = i /\ k = kind
    BY <1>1, <1>4, <2>1 DEF CacheOK, Kept, Entry, Stale
  <2>2. CASE ~(j = i /\ k = kind)
    BY <1>1, <1>4, <2>2 DEF CacheOK, Kept, Entry, Stale
  <2> QED
    BY <2>1, <2>2
<1> QED
  BY <1>1, <1>3, <1>4 DEF CacheOK, Kinds

(* and what has expired stays so.                                          *)
LEMMA TickStep == CacheOK /\ Tick => CacheOK'
BY CacheAssumption DEF CacheOK, Tick, Kept, Entry, Stale, Results

(* What a call does not show whole it links to, for exactly as long as     *)
(* response_cache_ttl says (LinksStayGood).                                *)
THEOREM LinksAreGood == Spec => []LinksStayGood
<1>1. CacheOK /\ [Next]_vars => CacheOK'
  <2> SUFFICES ASSUME CacheOK, [Next]_vars PROVE CacheOK'
    OBVIOUS
  <2>1. ASSUME UNCHANGED cache PROVE CacheOK'
    BY <2>1 DEF cache, CacheOK, Kept, Entry, Stale
  <2>2. ASSUME NEW i \in Ids, NEW unauthorized \in BOOLEAN, NEW body \in Bodies,
               Answer(i, unauthorized, body)
        PROVE  CacheOK'
    <3>1. body \in AnyBody
      BY CacheAssumption DEF AnyBody
    <3> QED
      BY <2>2, <3>1, BuildResultStep DEF Answer
  <2>3. \/ UNCHANGED cache
        \/ \E i \in Ids, unauthorized \in BOOLEAN, body \in Bodies :
              Answer(i, unauthorized, body)
        \/ \E i \in Ids, kind \in Kinds : Get(i, kind)
        \/ Tick
    BY DEF Next, Start, OperationFound, TokenGiven, Fail, Expire, vars
  <2> QED
    BY <2>1, <2>2, <2>3, GetStep, TickStep
<1>2. CacheOK => LinksStayGood
  <2> SUFFICES ASSUME CacheOK, NEW i \in Ids, result[i] # NotCalled
               PROVE  LET readable == IF now <= result[i].at + TTL THEN Entry(i) ELSE None
                      IN  /\ Found(i, "curl") = readable
                          /\ result[i].linked /\ ~result[i].body.null => Found(i, "body") = readable
                          /\ ~result[i].linked => result[i].shown = result[i].body.size
    BY DEF LinksStayGood, Entry
  <2>1. ASSUME NEW kind \in Kinds, Kept(i, kind)
        PROVE  Present(i, kind) = IF now <= result[i].at + TTL THEN Entry(i) ELSE None
    BY <2>1, CacheAssumption DEF CacheOK, Kept, Entry, Stale, Present, Expired, Results
  <2>2. Found(i, "curl") = Present(i, "curl")
    BY DEF Found
  <2>3. ASSUME Kept(i, "body"), ~result[i].body.null PROVE Found(i, "body") = Present(i, "body")
    BY <2>3 DEF Found, Kept, Entry, None, NoBody
  <2> QED
    BY <2>1, <2>2, <2>3 DEF CacheOK, Kinds
<1> QED
  BY <1>1, <1>2, CacheStarts, PTL DEF Spec
================================================================================
