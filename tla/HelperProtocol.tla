---------------------------- MODULE HelperProtocol ----------------------------
(***************************************************************************)
(* What a token helper is told and what is believed of its answer:         *)
(* cache_key, _build_env, _parse_stdout, _helper_error and _token_payload  *)
(* of src/src/mcp_openapix/auth.py, for one call after another.  Outputs   *)
(* are those of a helper that exited 0 within its limits (HelperProcess);  *)
(* a field is one of the kinds of value that the code tells apart.         *)
(***************************************************************************)
EXTENDS Integers, FiniteSets

CONSTANTS
    Declarations,   \* <<name, args>> of token helpers, the same name with other args included
    Users,          \* usernames a call may name
    Default,        \* the identity a helper falls back to
    MaxTokens       \* bound on the tokens cached at a time

NoUser   == "none"  \* username: None, or no such variable
Nameless == ""      \* username: "", which a config may say
Wrong    == "wrong" \* a value of the wrong type or shape
Absent   == "absent"

Requested == Users \cup {NoUser, Nameless}

Malformed == "malformed"

(* What run_helper may raise: no name, though strings stand for both. *)
Errors == {Malformed, "needs_human", "transient"}

ASSUME NamesAssumption ==
    ({NoUser, Nameless, Wrong, Absent} \cup Errors) \cap (Users \cup {Default}) = {}

ASSUME DeclarationsAssumption == \A d \in Declarations : d = <<d[1], d[2]>>

(* The stdout of a helper: not JSON, or not an object, or the six fields,  *)
(* with nothing or ASCII whitespace at its ends, or with control or space  *)
(* characters there that are not, as \x1c and the no-break space.  A number *)
(* may be too large for a float, as 1e999; an absent token_type or header  *)
(* is as good as one.                                                      *)
Ends    == {"plain", "control", "space"}
Texts   == [form : {"empty", "control", "bare"}, ends : Ends]
Objects == [form         : {"object"},
            ends         : Ends,
            access_token : {Absent, Wrong, "token"},
            error        : {Absent, Wrong, "unrecognized", "needs_human", "transient"},
            username     : Users \cup {Default, Absent, Wrong},
            expires_at   : {Absent, Wrong, "null", "number", "infinite"},
            token_type   : {Wrong, "good"},
            header       : {Wrong, "good"}]

Nothing == [form |-> "nothing"]

VARIABLES
    decl, username, \* the call under way
    env,            \* TOKEN_HELPER_USERNAME of the helper it runs
    place,          \* "idle", "running" its helper, or "answered"
    output,         \* what its helper has printed
    outcome,        \* what the call came to
    tokens          \* tokens[k]: the token cached under the key k

vars == <<decl, username, env, place, output, outcome, tokens>>

NoToken == [identity |-> NoUser, by |-> <<>>, told |-> NoUser, obeyed |-> FALSE]

(* Mutant: the key leaves out the user. *)
KeyWithoutUser(d, u) == <<d[1], d[2], Nameless>>

(* cache_key: a call without a user and one with "" share it. *)
CacheKey(d, u) == <<d[1], d[2], IF u = NoUser THEN Nameless ELSE u>>

Keys == {CacheKey(d, u) : d \in Declarations, u \in Requested}

(* _build_env: the variable is dropped, and set for a user that is not "". *)
BuildEnv(u) == IF u \in {NoUser, Nameless} THEN NoUser ELSE u

-----------------------------------------------------------------------------
(* Mutant: an object that carries both is read for its token. *)
EitherDiscriminant(o) == o.access_token # Absent \/ o.error # Absent

(* Exactly one of access_token and error. *)
OneDiscriminant(o) == (o.access_token # Absent) # (o.error # Absent)

ErrorOutcome(o) == IF o.error \in {"needs_human", "transient"} THEN o.error ELSE Malformed

(* Mutant: a payload that does not say for whom it was minted passes. *)
ForWhoever(o, u) == u # NoUser => o.username = u

(* Minted for the user of the call: any user, if it was None. *)
ForRequested(o, u) ==
    /\ o.username \notin {Absent, Wrong}
    /\ u # NoUser => o.username = u

(* A null is taken for no expires_at at all. *)
PayloadOutcome(o, u) ==
    IF /\ o.access_token # Wrong
       /\ ForRequested(o, u)
       /\ o.expires_at \notin {Wrong, "infinite"}
       /\ Wrong \notin {o.token_type, o.header}
    THEN o.username ELSE Malformed

(* What run_helper returns or raises: the identity of a token (NoUser for  *)
(* a bare one), "needs_human", "transient" or Malformed.  str.strip() has  *)
(* taken the ends off, whatever they were.                                 *)
Parse(o, u) ==
    CASE o.form \in {"empty", "control"} -> Malformed
      [] o.form = "bare"                -> NoUser
      [] o.form = "object"              ->
            IF ~OneDiscriminant(o) THEN Malformed
            ELSE IF o.access_token = Absent THEN ErrorOutcome(o)
                                            ELSE PayloadOutcome(o, u)

(* §3.2: the helper mints for the user it is told, or for its default, and *)
(* says so; the payload is as §4.2 has it.                                 *)
Obeys(o, e) ==
    /\ o.form = "object" /\ o.ends = "plain"
    /\ o.access_token = "token" /\ o.error = Absent
    /\ o.username = IF e = NoUser THEN Default ELSE e
    /\ o.expires_at \in {Absent, "number"}
    /\ Wrong \notin {o.token_type, o.header}

-----------------------------------------------------------------------------
Init ==
    /\ decl \in Declarations
    /\ username = NoUser
    /\ env = NoUser
    /\ place = "idle"
    /\ output = Nothing
    /\ outcome = Malformed
    /\ tokens = [k \in Keys |-> NoToken]

(* A call finds its token, or runs the helper. *)
Call(d, u) ==
    /\ place = "idle"
    /\ decl' = d
    /\ username' = u
    /\ IF tokens[CacheKey(d, u)] # NoToken
       THEN /\ place' = "answered"
            /\ outcome' = tokens[CacheKey(d, u)].identity
            /\ UNCHANGED env
       ELSE /\ Cardinality({k \in Keys : tokens[k] # NoToken}) < MaxTokens
            /\ place' = "running"
            /\ env' = BuildEnv(u)
            /\ outcome' = Malformed
    /\ UNCHANGED <<output, tokens>>

(* A helper that runs prints whatever it likes, and run_helper makes of it *)
(* what it can: an error is raised, a token is cached.                     *)
HelperPrints(o) ==
    /\ place' = "answered"
    /\ output' = o
    /\ outcome' = Parse(o, username)
    /\ IF outcome' \in Errors
       THEN UNCHANGED tokens
       ELSE tokens' = [tokens EXCEPT ![CacheKey(decl, username)] =
                          [identity |-> outcome', by |-> decl, told |-> env,
                           obeyed |-> Obeys(o, env)]]
    /\ UNCHANGED <<decl, username, env>>

Return ==
    /\ place = "answered"
    /\ decl' = decl
    /\ username' = NoUser
    /\ env' = NoUser
    /\ place' = "idle"
    /\ output' = Nothing
    /\ outcome' = Malformed
    /\ UNCHANGED tokens

(* A token expires or is retired. *)
Forget(k) ==
    /\ place = "idle"
    /\ tokens' = [tokens EXCEPT ![k] = NoToken]
    /\ UNCHANGED <<decl, username, env, place, output, outcome>>

Next == \/ \E d \in Declarations, u \in Requested : Call(d, u)
        \/ place = "running" /\ \E o \in Texts \cup Objects : HelperPrints(o)
        \/ Return
        \/ \E k \in Keys : Forget(k)

Spec == Init /\ [][Next]_vars

-----------------------------------------------------------------------------
Identities == Users \cup {Default, NoUser}

(* Every variable keeps its type: whatever a helper prints, a token is a   *)
(* bare one or names an identity.                                          *)
TypeOK ==
    /\ decl \in Declarations
    /\ username \in Requested
    /\ env \in Users \cup {NoUser}
    /\ place \in {"idle", "running", "answered"}
    /\ output \in {Nothing} \cup Texts \cup Objects
    /\ outcome \in Identities \cup Errors
    /\ tokens \in [Keys -> [identity : Identities,
                            by : Declarations \cup {<<>>},
                            told : Users \cup {NoUser}, obeyed : BOOLEAN]]

(* token-protocol.md §4.9: a token is reused "never across declarations    *)
(* and never across identities".  What a call is given was minted by its   *)
(* own declaration, told its own user, and for that user if it says for    *)
(* whom; an obedient helper's is for the default if the call names none.   *)
NeverAcrossIdentities ==
    place = "answered" /\ outcome \notin Errors =>
        LET t == tokens[CacheKey(decl, username)]
        IN  /\ t.by = decl
            /\ t.told = IF username \in Users THEN username ELSE NoUser
            /\ username \in Users => t.identity \in {username, NoUser}
            /\ t.obeyed /\ username \notin Users => t.identity = Default

(* §4.1 and §4.10, to the letter: what makes an output malformed.  Ends    *)
(* that are not ASCII whitespace belong to the output: control characters  *)
(* are malformed there too, and with others it is a bare token.            *)
ContractRejects(o, e) ==
    \/ "control" \in {o.form, o.ends}
    \/ o.form = "empty" /\ o.ends = "plain"
    \/ /\ o.form = "object" /\ o.ends = "plain"
       /\ \/ o.access_token = Absent /\ o.error \in {Absent, Wrong, "unrecognized"}
          \/ o.access_token # Absent /\
                 \/ o.error # Absent
                 \/ Wrong \in {o.access_token, o.username, o.token_type, o.header}
                 \/ o.expires_at \in {Wrong, "null"}
                 \/ o.username = Absent
                 \/ e # NoUser /\ o.username # e

(* The output the code takes this one for, by three liberties: Unicode     *)
(* whitespace and \x1c to \x1f do not count at the ends (auth.py:174), a   *)
(* null expires_at is an absent one (auth.py:248), and one that no float   *)
(* holds is no number (auth.py:251).                                       *)
TakenFor(o) ==
    IF o.form # "object" THEN [o EXCEPT !.ends = "plain"]
    ELSE [o EXCEPT !.ends = "plain",
                   !.expires_at = CASE @ = "null" -> Absent
                                    [] @ = "infinite" -> Wrong
                                    [] OTHER -> @]

(* token-protocol.md §4.10: an output is malformed exactly where the       *)
(* contract has it so of what the code takes it for: no liberty is taken   *)
(* but those three, in calls with a user and without.                      *)
ContractKept ==
    output # Nothing /\ username # Nameless =>
        (outcome = Malformed <=> ContractRejects(TakenFor(output), env))

(* Without the liberties it does not hold (README, section 5).             *)
ContractKeptToTheLetter ==
    output # Nothing /\ username # Nameless =>
        (outcome = Malformed <=> ContractRejects(output, env))

-----------------------------------------------------------------------------
(* token-protocol.md §4.5: the caller rejects a username that differs from *)
(* a TOKEN_HELPER_USERNAME it set, "and otherwise learns from the field    *)
(* which identity it was given".  For a call with username "" it sets no   *)
(* variable, and rejects every payload.                                    *)
ObedientHelpersServe == Obeys(output, env) => outcome \notin Errors
=============================================================================
