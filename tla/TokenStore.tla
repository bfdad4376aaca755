------------------------------ MODULE TokenStore ------------------------------
(***************************************************************************)
(* What the token cache promises the sessions that share it, with no       *)
(* locks, files or tasks: per key, one token all sessions may reuse.       *)
(*   - At most one session at a time is minting for a key.                 *)
(*   - Nobody starts minting while the shared token is fresh, and nobody   *)
(*     replaces a fresh token, save a session that could not read it.      *)
(*   - A token that was refused is never published afterwards.             *)
(***************************************************************************)
EXTENDS Integers

CONSTANTS Keys, NoToken, ExpiryBuffer

VARIABLES
    now,
    store,      \* store[k]: the shared token of k
    minting,    \* the keys some session is minting for
    unread,     \* those of them whose session could not read the store
    retired     \* the tokens some session has seen refused

vars == <<now, store, minting, unread, retired>>

Token == [key : Keys, serial : Nat, exp : Int]

Fresh(token) == token # NoToken /\ now + ExpiryBuffer < token.exp

Init ==
    /\ now = 0
    /\ store = [k \in Keys |-> NoToken]
    /\ minting = {}
    /\ unread = {}
    /\ retired = {}

StartMint(k) ==
    /\ k \notin minting
    /\ \/ ~Fresh(store[k]) /\ UNCHANGED unread
       \/ unread' = unread \cup {k}
    /\ minting' = minting \cup {k}
    /\ UNCHANGED <<now, store, retired>>

Publish(k) ==
    /\ k \in minting
    /\ k \notin unread => ~Fresh(store[k])
    /\ store'[k] \in Token \ retired
    /\ store'[k].key = k
    /\ store' = [store EXCEPT ![k] = store'[k]]
    /\ minting' = minting \ {k}
    /\ unread' = unread \ {k}
    /\ UNCHANGED <<now, retired>>

(* A failure, a token that is not shared, or the death of a session. *)
Abandon ==
    /\ minting' \subseteq minting
    /\ unread' = unread \cap minting'
    /\ UNCHANGED <<now, store, retired>>

Retire(k) ==
    /\ store' = [store EXCEPT ![k] = NoToken]
    /\ retired \subseteq retired'
    /\ UNCHANGED <<now, minting, unread>>

Tick ==
    /\ now' = now + 1
    /\ UNCHANGED <<store, minting, unread, retired>>

Next ==
    \/ \E k \in Keys : StartMint(k) \/ Publish(k) \/ Retire(k)
    \/ Abandon
    \/ Tick

Spec == Init /\ [][Next]_vars
=============================================================================
