---------------------------- MODULE ResponseCache ----------------------------
(***************************************************************************)
(* What a server keeps of the responses it has given: ResponseCache        *)
(* (responses.py), _build_result (tools/call_endpoint.py), which fills it, *)
(* and the two resources (server.py) that read it.  list_ids has no caller *)
(* in the server, and is not a step here.  CallEndpoint has the calls.     *)
(***************************************************************************)
EXTENDS Integers, FiniteSets

CONSTANTS
    Ids,            \* request ids, unique to a call
    TTL,            \* response_cache_ttl
    Threshold,      \* truncate_threshold
    Bodies,         \* bodies: their characters, the bytes of each, whether JSON null
    MaxTime         \* bound on the clock

(* null is written in four characters.                                     *)
ASSUME CacheAssumption == /\ TTL \in Nat /\ MaxTime \in Nat /\ Threshold \in Nat \ {0}
                          /\ Bodies \subseteq [size : Nat, width : Nat \ {0}, null : BOOLEAN]
                          /\ \A b \in Bodies : b.null => b.size = 4 /\ b.width = 1

Kinds  == {"body", "curl"}
NoBody == [size |-> -1, width |-> 0, null |-> FALSE]
None   == [body |-> NoBody, at |-> -1]

VARIABLES
    now,            \* time.monotonic()
    store,          \* store[i][kind]: the entry, with the time it was put
    result          \* result[i]: the body a call has shown, with its link and time

cache == <<now, store, result>>

NotCalled == [shown |-> -1, body |-> NoBody, linked |-> FALSE, at |-> -1]

CacheInit ==
    /\ now = 0
    /\ store = [i \in Ids |-> [kind \in Kinds |-> None]]
    /\ result = [i \in Ids |-> NotCalled]

(* The size of a body is that of its UTF-8 encoding,                       *)
Oversized(body) == body.size * body.width > Threshold

(* and the preview a slice of the string, of one line here.                *)
Preview(body) == IF body.size > Threshold THEN Threshold ELSE body.size

(* The result of a call, stored and shown in one step of the event loop.   *)
BuildResult(i, body) ==
    LET entry == [body |-> body, at |-> now]
        large == Oversized(body)
    IN  /\ store' = [store EXCEPT ![i].curl = entry,
                                  ![i].body = IF large THEN entry ELSE @]
        /\ result' = [result EXCEPT ![i] =
                         [shown |-> IF large THEN Preview(body) ELSE body.size,
                          body |-> body, linked |-> large, at |-> now]]
        /\ UNCHANGED now

(* Mutants: an entry expires a moment too early, or never.                 *)
ExpiredAtTTL(at) == now - at >= TTL
ExpiredNever(at) == at > now

Expired(at) == now - at > TTL

Present(i, kind) == IF Expired(store[i][kind].at) THEN None ELSE store[i][kind]

(* What a resource that is read now returns, None if "it may have expired" *)
(* -- or if the body is the None that JSON null is read as.                *)
Found(i, kind) ==
    IF kind = "body" /\ store[i][kind].body.null THEN None ELSE Present(i, kind)

(* get: only an expired entry that is asked for is deleted.                *)
Get(i, kind) ==
    /\ store' = [store EXCEPT ![i][kind] = Present(i, kind)]
    /\ UNCHANGED <<now, result>>

Tick ==
    /\ now < MaxTime
    /\ now' = now + 1
    /\ UNCHANGED <<store, result>>

-----------------------------------------------------------------------------
(* Nothing of a response is lost while its link is good, and nothing       *)
(* outlives it: what a call does not show whole it links to, and a body    *)
(* other than null, or a curl command, stays readable, unaltered, for      *)
(* response_cache_ttl seconds, to the last moment of them and no longer,   *)
(* whatever else is called and read meanwhile (README.md:239).             *)
LinksStayGood ==
    \A i \in Ids : result[i] # NotCalled =>
        LET e == [body |-> result[i].body, at |-> result[i].at]
            readable == IF now <= result[i].at + TTL THEN e ELSE None
        IN  /\ Found(i, "curl") = readable
            /\ result[i].linked /\ ~result[i].body.null => Found(i, "body") = readable
            /\ ~result[i].linked => result[i].shown = result[i].body.size

(* README.md:239, "Both expire response_cache_ttl seconds after the call": *)
(* not sooner, and a link to null is no exception.                         *)
NullStaysReadable ==
    \A i \in Ids : (result[i].linked /\ now <= result[i].at + TTL) => Found(i, "body") # None

(* README.md:141, of truncate_threshold: "Response bytes returned inline   *)
(* before truncating to a preview".  A body that is larger shows at most   *)
(* as many bytes; the slice counts characters.                             *)
ShownWithinThreshold ==
    \A i \in Ids : result[i] # NotCalled =>
        result[i].shown * result[i].body.width <= Threshold
=============================================================================
