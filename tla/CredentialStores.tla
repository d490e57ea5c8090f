--------------------------- MODULE CredentialStores ---------------------------
(***************************************************************************)
(* The chain of credential stores (turya-auth/src/store.rs): the keychain  *)
(* of the system, then a file, as the login, logout and status commands    *)
(* (turya-cli/src/auth_cmd.rs) and the running program use it.  A process  *)
(* calls the chain one operation at a time; nothing locks the file between *)
(* processes, and a write of it truncates first.                           *)
(***************************************************************************)
EXTENDS Naturals, FiniteSets

CONSTANTS
    Processes,
    Accounts,
    Secrets,
    MaxWeather  \* bound: changes of the keychain's state

VARIABLES
    mood,      \* the keychain: works, is missing, or lasts for one command
    weather,   \* how often it changed
    keychain,  \* its entries
    store,     \* the file's map; empty while the file is cut short
    whole,     \* whether the file is complete
    op,        \* what each process is doing
    forgotten, \* history: accounts since a logout that returned Ok
    promised,  \* history: what a set that returned Ok last promised
    cut        \* history: whether a write of the file was cut short

credVars == <<mood, weather, keychain, store, whole, op, forgotten, promised, cut>>

None == 0
Empty == [a \in Accounts |-> None]
Free == [do |-> "none", at |-> "idle", account |-> None, secret |-> None, map |-> Empty, bad |-> FALSE]

Init ==
    /\ mood = "works" /\ weather = 0
    /\ keychain = Empty /\ store = Empty /\ whole = TRUE
    /\ op = [p \in Processes |-> Free]
    /\ forgotten = {} /\ promised = Empty /\ cut = FALSE

-----------------------------------------------------------------------------
(* Reading. *)

\* A keyring that lasts for one command knows nothing of the user's own.
KeychainGet(a) == IF mood = "works" THEN keychain[a] ELSE None

\* load_map: what cannot be read or parsed is an empty map.
LoadMap == IF whole THEN store ELSE Empty

\* ChainStore::get: the first backend that has the account.
Get(a) == IF KeychainGet(a) # None THEN KeychainGet(a) ELSE LoadMap[a]

-----------------------------------------------------------------------------
(* The system. *)

\* A session without a bus, a locked keyring, a keyring that does not persist.
KeychainChanges ==
    /\ weather < MaxWeather
    /\ weather' = weather + 1
    /\ mood' \in {"works", "missing", "fleeting"} \ {mood}
    /\ UNCHANGED <<keychain, store, whole, op, forgotten, promised, cut>>

\* The process dies; a file it was writing stays cut short.
Crash(p) ==
    /\ op[p].at # "idle"
    /\ op' = [op EXCEPT ![p] = Free]
    /\ cut' = (cut \/ op[p].at = "write")
    /\ promised' = IF op[p].do = "set" THEN [promised EXCEPT ![op[p].account] = None] ELSE promised
    /\ UNCHANGED <<mood, weather, keychain, store, whole, forgotten>>

-----------------------------------------------------------------------------
(* set: login, submit_input, a refreshed token, the probe of status. *)

At(p, do, at) == op[p].do = do /\ op[p].at = at
Moves(p, at) == op' = [op EXCEPT ![p].at = at]
Returns(p) == op' = [op EXCEPT ![p] = Free]

StartSet(p) ==
    /\ op[p].at = "idle"
    /\ \E a \in Accounts, s \in Secrets :
           /\ op' = [op EXCEPT ![p] = [Free EXCEPT !.do = "set", !.at = "keychain",
                                                   !.account = a, !.secret = s]]
           /\ forgotten' = forgotten \ {a}
           /\ promised' = [promised EXCEPT ![a] = None]
    /\ UNCHANGED <<mood, weather, keychain, store, whole, cut>>

\* The read-back of what the keychain accepted.
ReadsBack(p) == mood = "works"

SetKeychain(p) ==
    /\ At(p, "set", "keychain")
    /\ mood # "missing" /\ ReadsBack(p)
    /\ keychain' = IF mood = "works" THEN [keychain EXCEPT ![op[p].account] = op[p].secret]
                   ELSE keychain
    /\ promised' = [promised EXCEPT ![op[p].account] = op[p].secret]
    /\ Returns(p)
    /\ UNCHANGED <<mood, weather, store, whole, forgotten, cut>>

\* The keychain is missing or swallowed the write: the file is next.
SkipKeychain(p) ==
    /\ At(p, "set", "keychain") /\ ~ReadsBack(p)
    /\ Moves(p, "load")
    /\ UNCHANGED <<mood, weather, keychain, store, whole, forgotten, promised, cut>>

\* FileStore::set and delete: load_map, insert or remove, save_map.
LoadFile(p) ==
    /\ op[p].at = "load"
    /\ op' = [op EXCEPT ![p].at = "cut", ![p].map = [LoadMap EXCEPT ![op[p].account] = op[p].secret]]
    /\ UNCHANGED <<mood, weather, keychain, store, whole, forgotten, promised, cut>>

\* fs::write truncates the file ...
CutFile(p) ==
    /\ op[p].at = "cut"
    /\ store' = Empty /\ whole' = FALSE
    /\ Moves(p, "write")
    /\ UNCHANGED <<mood, weather, keychain, forgotten, promised, cut>>

\* ... and writes it.
WriteFile(p) ==
    /\ op[p].at = "write"
    /\ store' = op[p].map /\ whole' = TRUE
    /\ Moves(p, "wrote")
    /\ UNCHANGED <<mood, weather, keychain, forgotten, promised, cut>>

\* No directory, a full disk: the set, or the logout, ends in an error.
FileFails(p) ==
    /\ op[p].at \in {"cut", "write"}
    /\ cut' = (cut \/ op[p].at = "write")
    /\ Returns(p)
    /\ UNCHANGED <<mood, weather, keychain, store, whole, forgotten, promised>>

\* The file's read-back; what it holds was promised.
SetReturns(p) ==
    /\ At(p, "set", "wrote")
    /\ promised' = IF LoadMap[op[p].account] = op[p].secret
                   THEN [promised EXCEPT ![op[p].account] = op[p].secret] ELSE promised
    /\ Returns(p)
    /\ UNCHANGED <<mood, weather, keychain, store, whole, forgotten, cut>>

-----------------------------------------------------------------------------
(* delete: logout. *)

StartDelete(p) ==
    /\ op[p].at = "idle"
    /\ \E a \in Accounts :
           /\ op' = [op EXCEPT ![p] = [Free EXCEPT !.do = "delete", !.at = "keychain", !.account = a]]
           /\ promised' = [promised EXCEPT ![a] = None]
    /\ UNCHANGED <<mood, weather, keychain, store, whole, forgotten, cut>>

\* Mutant: the first backend that has the entry is enough.
FirstOnly(p) == IF keychain[op[p].account] # None THEN "wrote" ELSE "load"

\* Every backend is asked.
NextBackend(p) == "load"

\* A missing entry is a success, a missing keychain an error kept for the end.
\* "bad" stands for both: what is not there to be removed is not forgotten.
DeleteKeychain(p) ==
    /\ At(p, "delete", "keychain")
    /\ op' = [op EXCEPT ![p].bad = mood # "works", ![p].at = NextBackend(p)]
    /\ keychain' = IF mood = "works" THEN [keychain EXCEPT ![op[p].account] = None] ELSE keychain
    /\ UNCHANGED <<mood, weather, store, whole, forgotten, promised, cut>>

\* "Forgot credentials", or the errors; a success that removed nothing from a
\* fleeting keychain is not held to its word.
DeleteReturns(p) ==
    /\ At(p, "delete", "wrote")
    /\ forgotten' = IF op[p].bad THEN forgotten ELSE forgotten \cup {op[p].account}
    /\ Returns(p)
    /\ UNCHANGED <<mood, weather, keychain, store, whole, promised, cut>>

FileStep(p) == LoadFile(p) \/ CutFile(p) \/ WriteFile(p) \/ FileFails(p)
Step(p) ==
    \/ StartSet(p) \/ SetKeychain(p) \/ SkipKeychain(p) \/ SetReturns(p)
    \/ StartDelete(p) \/ DeleteKeychain(p) \/ DeleteReturns(p)
    \/ FileStep(p) \/ Crash(p)

Next == KeychainChanges \/ \E p \in Processes : Step(p)

CredSpec == Init /\ [][Next]_credVars

-----------------------------------------------------------------------------

\* After a logout that reached the keychain and reported success no backend
\* has the secret, whichever took it while the other was away
\* (ChainStore::delete, logout).
LogoutForgets == \A a \in forgotten : keychain[a] = None /\ store[a] = None

\* A secret whose store reported success is in a backend that keeps it, until
\* it is replaced or removed, or a write of the file is cut short
\* (ChainStore::set: "skip backends that swallow writes").
OkMeansKept ==
    \A a \in Accounts :
        promised[a] # None /\ whole /\ ~cut => promised[a] \in {keychain[a], store[a]}

\* What set and delete report can be relied on.
StoresKeepTheirWord == LogoutForgets /\ OkMeansKept

\* A secret stored last is the one that is read.
LatestIsRead ==
    \A a \in Accounts :
        promised[a] # None /\ mood = "works" /\ whole => Get(a) = promised[a]

\* A crash while one account is written keeps the others.
OthersAreKept ==
    \A a \in Accounts :
        promised[a] # None /\ (\A p \in Processes : op[p].at = "idle")
            => promised[a] \in {keychain[a], LoadMap[a]}
=============================================================================
