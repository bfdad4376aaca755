------------------------------ MODULE TokenLogout ------------------------------
(***************************************************************************)
(* `mcp-openapix --logout` (server.py _logout, TokenProvider.purge): a     *)
(* process of its own that unlinks the files of the cache directory one by *)
(* one while the servers of TokenProvider go on.  It takes no lock.        *)
(***************************************************************************)
EXTENDS TokenProvider

VARIABLES
    litter,     \* the tokens in .<pid>.tmp files whose writer died
    unlinking,  \* the directory entries purge has still to visit
    logout,     \* "before", "running" or "done": one logout
    doomed      \* the tokens on disk when it started

logoutVars == <<litter, unlinking, logout, doomed>>

LogoutInit ==
    /\ Init
    /\ litter = {}
    /\ unlinking = {}
    /\ logout = "before"
    /\ doomed = {}

(* A server step.  A task that leaves "staged" other than through Install  *)
(* leaves its .tmp file behind: the next process has another pid, and      *)
(* nothing else removes it.                                                *)
ServerStep ==
    /\ Next
    /\ litter' = litter \cup
          {tok[t] : t \in {u \in Tasks : pc[u] = "staged" /\ pc'[u] = "idle"}}
    /\ UNCHANGED <<unlinking, logout, doomed>>

(* Mutant: purge visits the lock files only. *)
PurgeableLocks == Keys \X {".lock"}

(* The entries purge acts on: suffix .json or .lock, never .tmp.  A lock   *)
(* file, once created, is never removed by the servers.                    *)
Purgeable == ({k \in Keys : disk[k] # NoToken} \X {".json"}) \cup (Keys \X {".lock"})

PurgeStart ==
    /\ logout = "before"
    /\ logout' = "running"
    /\ unlinking' = Purgeable
    /\ doomed' = ({disk[k] : k \in Keys} \ {NoToken}) \cup litter
    /\ UNCHANGED <<vars, litter>>

(* Unlinking a lock file leaves its holder the lock of a file without a    *)
(* name: the next lock.acquire makes a new file and finds it free.         *)
PurgeUnlink(k, suffix) ==
    /\ logout = "running"
    /\ <<k, suffix>> \in unlinking
    /\ unlinking' = unlinking \ {<<k, suffix>>}
    /\ \/ suffix = ".json" /\ disk' = Retired(k) /\ UNCHANGED fileLock
       \/ suffix = ".lock" /\ fileLock' = [fileLock EXCEPT ![k] = Nobody] /\ UNCHANGED disk
    /\ UNCHANGED <<clock, memory, waiters, orphans, pc, req, tok, refused, blind,
                   litter, logout, doomed>>

PurgeEnd ==
    /\ logout = "running"
    /\ unlinking = {}
    /\ logout' = "done"
    /\ UNCHANGED <<vars, litter, unlinking, doomed>>

LogoutNext ==
    \/ ServerStep
    \/ PurgeStart
    \/ \E k \in Keys, suffix \in {".json", ".lock"} : PurgeUnlink(k, suffix)
    \/ PurgeEnd

LogoutSpec == LogoutInit /\ [][LogoutNext]_<<vars, logoutVars>>

(* The servers' fairness is their own; a logout need not be made, nor end. *)
FairLogoutSpec == LogoutSpec /\ Fairness

-----------------------------------------------------------------------------
(* Once logout has ended, no token that was installed when it started is   *)
(* installed, whatever the servers did meanwhile (purge).                  *)
LogoutWipesInstalled ==
    logout = "done" => \A k \in Keys : disk[k] \notin doomed

(* Whether the lock file of k still has its name: purge has not visited it *)
(* yet.                                                                    *)
Named(k) == logout = "before" \/ <<k, ".lock">> \in unlinking

(* Two tasks fetch one key side by side only once a logout has unlinked    *)
(* the key's lock file, and then never two of one process: what is left to *)
(* exclude is each process's asyncio.Lock (_fetch, token).                 *)
OnlyUnlinkingLetsTwoFetch ==
    \A t, u \in Tasks :
        (t # u /\ pc[t] \in Fetching /\ pc[u] \in Fetching /\ req[t] = req[u])
            => ProcOf[t] # ProcOf[u] /\ ~Named(req[t])

(* server.py:548 and README: logout wipes every cached token at rest.  The *)
(* staged file of a server that died is not wiped.                         *)
LogoutWipes ==
    logout = "done" => doomed \cap ({disk[k] : k \in Keys} \cup litter) = {}

(* auth.py:469: under the lock, concurrent sessions do not stampede the    *)
(* helper.  They do once logout has unlinked a lock file that is held.     *)
OneMinterPerKey ==
    \A t, u \in Tasks :
        (t # u /\ pc[t] \in Minting /\ pc[u] \in Minting) => req[t] # req[u]
=============================================================================
