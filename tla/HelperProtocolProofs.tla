------------------------- MODULE HelperProtocolProofs -------------------------
(***************************************************************************)
(* Theorems about what is believed of a helper, for any declarations,      *)
(* users and default identity, and any outputs in any order: no token goes *)
(* to another identity, and what is refused is what the contract refuses.  *)
(***************************************************************************)
EXTENDS HelperProtocol, TLAPS

(* Every call has a key. *)
LEMMA KeysOfCalls == \A d \in Declarations, u \in Requested : CacheKey(d, u) \in Keys
BY DEF Keys

USE NamesAssumption DEF NoUser, Nameless, Wrong, Absent, Requested, Malformed, Errors, Identities

(* A call's user may be told to a helper, or nobody is. *)
LEMMA EnvIsUser == \A u \in Requested : BuildEnv(u) \in Users \cup {NoUser}
BY DEF BuildEnv

(* Whatever an object holds, what is read of it is an identity or an error. *)
LEMMA ParseType ==
    \A o \in Texts \cup Objects, u \in Requested : Parse(o, u) \in Identities \cup Errors
<1> SUFFICES ASSUME NEW o \in Texts \cup Objects, NEW u \in Requested
             PROVE  Parse(o, u) \in Identities \cup Errors
  OBVIOUS
<1>1. CASE o \in Texts
  BY <1>1 DEF Texts, Parse
<1>2. CASE o \in Objects
  <2>1. o.form = "object" /\ o.username \in Users \cup {Default, Absent, Wrong}
    BY <1>2 DEF Objects
  <2>2. PayloadOutcome(o, u) \in Identities \cup Errors
    BY <2>1 DEF PayloadOutcome, ForRequested
  <2>3. ErrorOutcome(o) \in Errors
    BY DEF ErrorOutcome
  <2> QED
    BY <2>1, <2>2, <2>3 DEF Parse
<1> QED
  BY <1>1, <1>2

(* Two calls share a key only if they share the declaration, and the user  *)
(* unless neither says who it is.                                          *)
LEMMA KeysTellApart ==
    ASSUME NEW c \in Declarations, NEW d \in Declarations,
           NEW u \in Requested, NEW v \in Requested,
           CacheKey(c, u) = CacheKey(d, v)
    PROVE  c = d /\ (u = v \/ {u, v} \subseteq {NoUser, Nameless})
<1>1. c[1] = d[1] /\ c[2] = d[2]
  BY DEF CacheKey
<1>2. c = d
  BY <1>1, DeclarationsAssumption
<1>3. (IF u = NoUser THEN Nameless ELSE u) = (IF v = NoUser THEN Nameless ELSE v)
  BY DEF CacheKey
<1> QED
  BY <1>2, <1>3

-----------------------------------------------------------------------------
(* The types hold to begin with, *)
LEMMA TypeInit == Init => TypeOK
<1> SUFFICES ASSUME Init PROVE TypeOK
  OBVIOUS
<1>1. NoToken \in [identity : Identities, by : Declarations \cup {<<>>},
                   told : Users \cup {NoUser}, obeyed : BOOLEAN]
  BY DEF NoToken
<1> QED
  BY <1>1 DEF Init, TypeOK

(* and no step leaves them. *)
LEMMA TypeStep == TypeOK /\ [Next]_vars => TypeOK'
<1> SUFFICES ASSUME TypeOK, [Next]_vars PROVE TypeOK'
  OBVIOUS
<1> USE DEF TypeOK
<1>1. ASSUME NEW d \in Declarations, NEW u \in Requested, Call(d, u) PROVE TypeOK'
  <2>1. CacheKey(d, u) \in Keys
    BY KeysOfCalls
  <2>2. tokens[CacheKey(d, u)].identity \in Identities
    BY <2>1
  <2> QED
    BY <1>1, <2>2, EnvIsUser DEF Call
<1>2. ASSUME place = "running", NEW o \in Texts \cup Objects, HelperPrints(o) PROVE TypeOK'
  <2>1. outcome' = Parse(o, username) /\ outcome' \in Identities \cup Errors
    BY <1>2, ParseType DEF HelperPrints
  <2>2. Obeys(o, env) \in BOOLEAN
    BY DEF Obeys
  <2>3. CASE outcome' \in Errors
    BY <1>2, <2>1, <2>3 DEF HelperPrints
  <2>4. CASE outcome' \notin Errors
    <3>1. tokens' = [tokens EXCEPT ![CacheKey(decl, username)] =
                       [identity |-> outcome', by |-> decl, told |-> env,
                        obeyed |-> Obeys(o, env)]]
      BY <1>2, <2>4 DEF HelperPrints
    <3>2. outcome' \in Identities
      BY <2>1, <2>4
    <3> QED
      BY <1>2, <2>1, <2>2, <3>1, <3>2 DEF HelperPrints
  <2> QED
    BY <2>3, <2>4
<1>3. CASE Return
  BY <1>3 DEF Return
<1>4. ASSUME NEW k \in Keys, Forget(k) PROVE TypeOK'
  BY <1>4 DEF Forget, NoToken
<1>5. CASE UNCHANGED vars
  BY <1>5 DEF vars
<1> QED
  BY <1>1, <1>2, <1>3, <1>4, <1>5 DEF Next

(* Every variable keeps its type: whatever a helper prints, a token is a   *)
(* bare one or names an identity.                                          *)
THEOREM TypeCorrect == Spec => []TypeOK
BY TypeInit, TypeStep, PTL DEF Spec

-----------------------------------------------------------------------------
(***************************************************************************)
(* Identities.  A token that is cached suits every call that would find    *)
(* it; the helper that runs has been told the user of the call it runs     *)
(* for.                                                                    *)
(***************************************************************************)
Suits(t, d, u) ==
    /\ t.by = d
    /\ t.told = BuildEnv(u)
    /\ u \in Users => t.identity \in {u, NoUser}
    /\ t.obeyed /\ u \notin Users => t.identity = Default

CachedSuit ==
    \A d \in Declarations, u \in Requested :
        tokens[CacheKey(d, u)] # NoToken => Suits(tokens[CacheKey(d, u)], d, u)

ToldWhoFor == place = "running" => env = BuildEnv(username)

AnswersAreCached ==
    place = "answered" /\ outcome \notin Errors => tokens[CacheKey(decl, username)] # NoToken

IdentityInv == TypeOK /\ CachedSuit /\ ToldWhoFor /\ AnswersAreCached

(* What is read of an output suits the call it was printed for. *)
LEMMA ParsedSuits ==
    ASSUME NEW o \in Texts \cup Objects, NEW d \in Declarations, NEW u \in Requested,
           Parse(o, u) \notin Errors
    PROVE  Suits([identity |-> Parse(o, u), by |-> d, told |-> BuildEnv(u),
                  obeyed |-> Obeys(o, BuildEnv(u))], d, u)
<1>1. CASE o \in Texts
  <2>1. Parse(o, u) = NoUser /\ ~Obeys(o, BuildEnv(u))
    BY <1>1 DEF Texts, Parse, Obeys
  <2> QED
    BY <2>1 DEF Suits
<1>2. CASE o \in Objects
  <2>1. o.form = "object" /\ o.username \in Users \cup {Default, Absent, Wrong}
    BY <1>2 DEF Objects
  <2>2. Parse(o, u) = PayloadOutcome(o, u)
    BY <2>1 DEF Parse, ErrorOutcome
  <2>3. Parse(o, u) = o.username /\ ForRequested(o, u)
    BY <2>2 DEF PayloadOutcome
  <2>4. u \in Users => o.username = u
    BY <2>3 DEF ForRequested
  <2>5. u \notin Users /\ Obeys(o, BuildEnv(u)) => o.username = Default
    BY DEF Obeys, BuildEnv
  <2> QED
    BY <2>3, <2>4, <2>5 DEF Suits
<1> QED
  BY <1>1, <1>2

(* A token that suits one call suits all those that share its key. *)
LEMMA SuitsTheKey ==
    ASSUME NEW c \in Declarations, NEW d \in Declarations,
           NEW u \in Requested, NEW v \in Requested,
           CacheKey(c, u) = CacheKey(d, v), NEW t, Suits(t, c, u)
    PROVE  Suits(t, d, v)
<1>1. c = d /\ (u = v \/ {u, v} \subseteq {NoUser, Nameless})
  BY KeysTellApart
<1> QED
  BY <1>1 DEF Suits, BuildEnv

(* Nothing is cached to begin with. *)
LEMMA IdentityInit == Init => IdentityInv
BY TypeInit, KeysOfCalls DEF Init, IdentityInv, CachedSuit, ToldWhoFor, AnswersAreCached

(* A call that is answered is given what is cached under its own key. *)
LEMMA CallSuits ==
    ASSUME IdentityInv, NEW d \in Declarations, NEW u \in Requested, Call(d, u)
    PROVE  CachedSuit' /\ ToldWhoFor' /\ AnswersAreCached'
<1>1. decl' = d /\ username' = u /\ tokens' = tokens
  BY DEF Call
<1>2. CachedSuit'
  BY <1>1 DEF IdentityInv, CachedSuit
<1>3. CASE tokens[CacheKey(d, u)] # NoToken
  BY <1>1, <1>2, <1>3 DEF Call, ToldWhoFor, AnswersAreCached
<1>4. CASE tokens[CacheKey(d, u)] = NoToken
  BY <1>1, <1>2, <1>4 DEF Call, ToldWhoFor, AnswersAreCached
<1> QED
  BY <1>3, <1>4

(* What a helper prints is cached where only such calls find it. *)
LEMMA OutputSuits ==
    ASSUME IdentityInv, place = "running", NEW o \in Texts \cup Objects, HelperPrints(o)
    PROVE  CachedSuit' /\ ToldWhoFor' /\ AnswersAreCached'
<1> DEFINE k == CacheKey(decl, username)
           t == [identity |-> Parse(o, username), by |-> decl, told |-> env,
                 obeyed |-> Obeys(o, env)]
<1>1. /\ place = "running" /\ place' = "answered" /\ outcome' = Parse(o, username)
      /\ UNCHANGED <<decl, username, env>>
      /\ decl \in Declarations /\ username \in Requested /\ k \in Keys
      /\ env = BuildEnv(username)
  BY KeysOfCalls DEF HelperPrints, IdentityInv, TypeOK, ToldWhoFor
<1>2. CASE outcome' \in Errors
  BY <1>1, <1>2 DEF HelperPrints, IdentityInv, CachedSuit, ToldWhoFor, AnswersAreCached
<1>3. CASE outcome' \notin Errors
  <2>1. tokens' = [tokens EXCEPT ![k] = t] /\ DOMAIN tokens = Keys
    BY <1>1, <1>3 DEF HelperPrints, IdentityInv, TypeOK
  <2>2. Suits(t, decl, username)
    BY <1>1, <1>3, ParsedSuits
  <2>3. t # NoToken
    <3>1. t.by = decl /\ NoToken.by = <<>>
      BY DEF NoToken
    <3>2. decl # <<>>
      BY <1>1, DeclarationsAssumption
    <3> QED
      BY <3>1, <3>2
  <2>4. CachedSuit'
    <3> SUFFICES ASSUME NEW d \in Declarations, NEW u \in Requested,
                        tokens'[CacheKey(d, u)] # NoToken
                 PROVE  Suits(tokens'[CacheKey(d, u)], d, u)
      BY DEF CachedSuit
    <3>1. CacheKey(d, u) \in Keys
      BY KeysOfCalls
    <3>2. CASE CacheKey(d, u) = k
      <4>1. tokens'[CacheKey(d, u)] = t
        BY <2>1, <3>1, <3>2
      <4> HIDE DEF t
      <4> QED
        BY <1>1, <2>2, <3>2, <4>1, SuitsTheKey
    <3>3. CASE CacheKey(d, u) # k
      BY <2>1, <3>1, <3>3 DEF IdentityInv, CachedSuit
    <3> QED
      BY <3>2, <3>3
  <2>5. tokens'[CacheKey(decl', username')] # NoToken
    BY <1>1, <2>1, <2>3
  <2> QED
    BY <1>1, <2>4, <2>5 DEF ToldWhoFor, AnswersAreCached
<1> QED
  BY <1>2, <1>3

(* The invariant in full. *)
LEMMA IdentityAlways == Spec => []IdentityInv
<1>1. IdentityInv /\ [Next]_vars => IdentityInv'
  <2> SUFFICES ASSUME IdentityInv, [Next]_vars
               PROVE  CachedSuit' /\ ToldWhoFor' /\ AnswersAreCached'
    BY TypeStep DEF IdentityInv
  <2>1. CASE Return
    BY <2>1 DEF Return, IdentityInv, CachedSuit, ToldWhoFor, AnswersAreCached
  <2>2. ASSUME NEW k \in Keys, Forget(k)
        PROVE  CachedSuit' /\ ToldWhoFor' /\ AnswersAreCached'
    <3>1. \A j \in Keys : tokens'[j] \in {tokens[j], NoToken}
      BY <2>2 DEF Forget, IdentityInv, TypeOK
    <3>2. CachedSuit'
      BY <3>1, KeysOfCalls DEF IdentityInv, CachedSuit
    <3> QED
      BY <2>2, <3>2 DEF Forget, ToldWhoFor, AnswersAreCached
  <2>3. CASE UNCHANGED vars
    BY <2>3 DEF vars, IdentityInv, CachedSuit, ToldWhoFor, AnswersAreCached
  <2> QED
    BY <2>1, <2>2, <2>3, CallSuits, OutputSuits DEF Next
<1> QED
  BY <1>1, IdentityInit, PTL DEF Spec

(* §4.9: no token is reused across declarations or identities; one that    *)
(* names an identity is for the user of the call it is given to, and an    *)
(* obedient helper's for the default if the call names none.               *)
THEOREM IdentitiesKeptApart == Spec => []NeverAcrossIdentities
<1>1. IdentityInv => NeverAcrossIdentities
  <2> SUFFICES ASSUME IdentityInv, place = "answered", outcome \notin Errors
               PROVE  NeverAcrossIdentities
    BY DEF NeverAcrossIdentities
  <2>1. decl \in Declarations /\ username \in Requested
    BY DEF IdentityInv, TypeOK
  <2>2. Suits(tokens[CacheKey(decl, username)], decl, username)
    BY <2>1 DEF IdentityInv, CachedSuit, AnswersAreCached
  <2> QED
    BY <2>1, <2>2 DEF NeverAcrossIdentities, Suits, BuildEnv
<1> QED
  BY <1>1, IdentityAlways, PTL

-----------------------------------------------------------------------------
(* What the code takes an output for differs from it in nothing else.      *)
LEMMA TakenForObject ==
    ASSUME NEW o \in Objects
    PROVE  /\ TakenFor(o).form = "object" /\ TakenFor(o).ends = "plain"
           /\ TakenFor(o).access_token = o.access_token
           /\ TakenFor(o).error = o.error
           /\ TakenFor(o).username = o.username
           /\ TakenFor(o).token_type = o.token_type
           /\ TakenFor(o).header = o.header
           /\ TakenFor(o).expires_at \in {Wrong, "null"} <=> o.expires_at \in {Wrong, "infinite"}
BY DEF Objects, TakenFor

LEMMA TakenForText ==
    ASSUME NEW o \in Texts
    PROVE  TakenFor(o).form = o.form /\ TakenFor(o).ends = "plain"
BY DEF Texts, TakenFor

(* §4.10: for a call with a user, or none, the code calls malformed what   *)
(* the contract does of the output it takes this one for, whatever the     *)
(* fields hold and however many are wrong.                                 *)
LEMMA ContractMatched ==
    ASSUME NEW o \in Texts \cup Objects, NEW u \in Users \cup {NoUser}
    PROVE  Parse(o, u) = Malformed <=> ContractRejects(TakenFor(o), BuildEnv(u))
<1>1. CASE o \in Texts
  <2>1. o.form \in {"empty", "control", "bare"}
    BY <1>1 DEF Texts
  <2>2. Parse(o, u) = Malformed <=> o.form \in {"empty", "control"}
    BY <2>1 DEF Parse
  <2>3. ContractRejects(TakenFor(o), BuildEnv(u)) <=> o.form \in {"empty", "control"}
    BY <1>1, <2>1, TakenForText DEF ContractRejects
  <2> QED
    BY <2>2, <2>3
<1>2. CASE o \in Objects
  <2> DEFINE e == BuildEnv(u)
             t == TakenFor(o)
  <2>1. /\ o.form = "object"
        /\ o.access_token \in {Absent, Wrong, "token"}
        /\ o.error \in {Absent, Wrong, "unrecognized", "needs_human", "transient"}
        /\ o.username \in Users \cup {Default, Absent, Wrong}
    BY <1>2 DEF Objects
  <2>2. e = u
    BY DEF BuildEnv
  <2>3. /\ t.form = "object" /\ t.ends = "plain"
        /\ t.access_token = o.access_token /\ t.error = o.error /\ t.username = o.username
        /\ t.token_type = o.token_type /\ t.header = o.header
        /\ t.expires_at \in {Wrong, "null"} <=> o.expires_at \in {Wrong, "infinite"}
    BY <1>2, TakenForObject
  <2> HIDE DEF e, t
  <2>4. CASE o.access_token = Absent
    <3>1. Parse(o, u) = Malformed <=> o.error \in {Absent, Wrong, "unrecognized"}
      BY <2>1, <2>4 DEF Parse, OneDiscriminant, ErrorOutcome
    <3>2. ContractRejects(t, e) <=> o.error \in {Absent, Wrong, "unrecognized"}
      BY <2>1, <2>3, <2>4 DEF ContractRejects
    <3> QED
      BY <3>1, <3>2 DEF e, t
  <2>5. CASE o.access_token # Absent /\ o.error # Absent
    <3>1. Parse(o, u) = Malformed
      BY <2>1, <2>5 DEF Parse, OneDiscriminant
    <3>2. ContractRejects(t, e)
      BY <2>3, <2>5 DEF ContractRejects
    <3> QED
      BY <3>1, <3>2 DEF e, t
  <2>6. CASE o.access_token # Absent /\ o.error = Absent
    <3>1. Parse(o, u) = PayloadOutcome(o, u)
      BY <2>1, <2>6 DEF Parse, OneDiscriminant
    <3>2. PayloadOutcome(o, u) = Malformed <=>
             \/ o.username \in {Absent, Wrong}
             \/ u # NoUser /\ o.username # u
             \/ Wrong \in {o.access_token, o.token_type, o.header}
             \/ o.expires_at \in {Wrong, "infinite"}
      BY <2>1 DEF PayloadOutcome, ForRequested
    <3>3. ContractRejects(t, e) <=>
             \/ o.username \in {Absent, Wrong}
             \/ u # NoUser /\ o.username # u
             \/ Wrong \in {o.access_token, o.token_type, o.header}
             \/ o.expires_at \in {Wrong, "infinite"}
      BY <2>1, <2>2, <2>3, <2>6 DEF ContractRejects
    <3> QED
      BY <3>1, <3>2, <3>3 DEF e, t
  <2> QED
    BY <2>4, <2>5, <2>6 DEF e, t
<1> QED
  BY <1>1, <1>2

(* What is printed is read once, for the user its helper was told. *)
ReadAsPrinted ==
    /\ place # "answered" => output = Nothing
    /\ output # Nothing => /\ output \in Texts \cup Objects
                           /\ env = BuildEnv(username)
                           /\ outcome = Parse(output, username)

(* An output is malformed exactly where the contract has it so of what the *)
(* code takes it for: with whitespace of any kind and \x1c to \x1f gone    *)
(* from its ends, a null expires_at absent, and one beyond every float no  *)
(* number.  No liberty is taken but these, with a user and without.        *)
THEOREM MalformedAsAgreed == Spec => []ContractKept
<1> DEFINE Inv == IdentityInv /\ ReadAsPrinted
<1>1. Init => ReadAsPrinted
  BY DEF Init, ReadAsPrinted
<1>2. Inv /\ [Next]_vars => ReadAsPrinted'
  <2> SUFFICES ASSUME IdentityInv, ReadAsPrinted, [Next]_vars PROVE ReadAsPrinted'
    OBVIOUS
  <2> USE DEF ReadAsPrinted
  <2>1. ASSUME NEW d \in Declarations, NEW u \in Requested, Call(d, u) PROVE ReadAsPrinted'
    BY <2>1 DEF Call
  <2>2. ASSUME place = "running", NEW o \in Texts \cup Objects, HelperPrints(o) PROVE ReadAsPrinted'
    BY <2>2 DEF HelperPrints, IdentityInv, ToldWhoFor
  <2>3. CASE Return
    BY <2>3 DEF Return
  <2>4. ASSUME NEW k \in Keys, Forget(k) PROVE ReadAsPrinted'
    BY <2>4 DEF Forget
  <2>5. CASE UNCHANGED vars
    BY <2>5 DEF vars
  <2> QED
    BY <2>1, <2>2, <2>3, <2>4, <2>5 DEF Next
<1>3. Inv => ContractKept
  <2> SUFFICES ASSUME Inv, output # Nothing, username # Nameless
               PROVE  outcome = Malformed <=> ContractRejects(TakenFor(output), env)
    BY DEF ContractKept
  <2>1. username \in Users \cup {NoUser}
    BY DEF IdentityInv, TypeOK
  <2>2. /\ output \in Texts \cup Objects /\ env = BuildEnv(username)
        /\ outcome = Parse(output, username)
    BY DEF ReadAsPrinted
  <2> QED
    BY <2>1, <2>2, ContractMatched
<1> QED
  BY <1>1, <1>2, <1>3, IdentityAlways, PTL DEF Spec
=============================================================================
