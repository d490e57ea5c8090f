------------------------------ MODULE StoreOpening ------------------------------
(***************************************************************************)
(* Opening the session store (turya-memory/src/lib.rs: MemoryStore::open): *)
(* the format is probed, a foreign database is moved aside and its side    *)
(* files removed, a new one is opened and its tables and format tag are    *)
(* written in transactions of their own.  The program opens it at start,   *)
(* on resume and for the host's session commands; a second turya may too.  *)
(***************************************************************************)
EXTENDS Naturals, Sequences

CONSTANTS
    Openers,   \* the processes, and their later opens
    MaxFiles,  \* bound: databases made
    Starts     \* the kinds of database that may be there at first

VARIABLES
    dbs,      \* the databases made so far: their kind and whether they hold sessions
    path,     \* which of them is turya.db, 0 for none
    backups,  \* the .bak file of each format found
    opener,   \* where each open is, what it found, what it has open
    raced     \* history: whether two opens ever overlapped

openVars == <<dbs, path, backups, opener, raced>>

\* A database is of another format ("other"), older than any tag ("pre-A1"),
\* has nothing, a header, tables, or the format tag.
Foreign == {"other", "pre-A1"}
Formats == {"other", "pre-A1", "unversioned", "tagged"}

\* What the probe calls it: without the table of the tag it is pre-A1.
FoundAs(kind) == IF kind \in {"empty", "header"} THEN "pre-A1" ELSE IF kind = "tables" THEN "unversioned" ELSE kind

Db(kind, used) == [kind |-> kind, used |-> used]
Closed == [at |-> "closed", found |-> "none", db |-> 0]

Init ==
    /\ \E kind \in Starts :
           IF kind = "none" THEN dbs = <<>> /\ path = 0
           ELSE dbs = <<Db(kind, TRUE)>> /\ path = 1
    /\ backups = [f \in Formats |-> 0]
    /\ opener = [o \in Openers |-> Closed]
    /\ raced = FALSE

-----------------------------------------------------------------------------

At(o, at) == opener[o].at = at
Goes(o, at) == opener' = [opener EXCEPT ![o].at = at]

\* exists, and not empty.
Look(o) ==
    /\ At(o, "closed")
    /\ Goes(o, IF path # 0 /\ dbs[path].kind # "empty" THEN "probe" ELSE "connect")
    /\ raced' = (raced \/ \E other \in Openers : opener[other].at \notin {"closed", "open"})
    /\ UNCHANGED <<dbs, path, backups>>

\* Connection::open makes the file if there is none by now.
Made ==
    IF path # 0 THEN UNCHANGED <<dbs, path>>
    ELSE /\ Len(dbs) < MaxFiles
         /\ dbs' = Append(dbs, Db("empty", FALSE))
         /\ path' = Len(dbs')

\* probe_format
Probe(o) ==
    /\ At(o, "probe")
    /\ Made
    /\ LET kind == dbs'[path'].kind
       IN  opener' = [opener EXCEPT ![o].found = FoundAs(kind),
                                    ![o].at = IF kind = "tagged" THEN "connect" ELSE "aside"]
    /\ UNCHANGED <<backups, raced>>

\* The rename takes whatever is there by now, over an older backup of the same
\* format; its error is ignored.
MoveAside(o) ==
    /\ At(o, "aside")
    /\ \/ path # 0 /\ backups' = [backups EXCEPT ![opener[o].found] = path] /\ path' = 0
       \/ UNCHANGED <<path, backups>>
    /\ Goes(o, "connect")
    /\ UNCHANGED <<dbs, raced>>

\* Connection::open
Connect(o) ==
    /\ At(o, "connect")
    /\ Made
    /\ opener' = [opener EXCEPT ![o].at = "header", ![o].db = path']
    /\ UNCHANGED <<backups, raced>>

\* init: the journal mode is the first thing written.
WriteHeader(o) ==
    /\ At(o, "header")
    /\ dbs' = [dbs EXCEPT ![opener[o].db].kind = IF @ = "empty" THEN "header" ELSE @]
    /\ Goes(o, "tables")
    /\ UNCHANGED <<path, backups, raced>>

\* CREATE TABLE IF NOT EXISTS, whatever else the database holds.
CreateTables(o) ==
    /\ At(o, "tables")
    /\ dbs' = [dbs EXCEPT ![opener[o].db].kind = IF @ = "header" THEN "tables" ELSE @]
    /\ Goes(o, "tag")
    /\ UNCHANGED <<path, backups, raced>>

\* Mutant: the tag waits for the first session.
TagLater(db) == db

\* INSERT OR IGNORE: a foreign database whose table has a tag keeps its own.
Tagged(db) == IF db.kind = "tables" THEN [db EXCEPT !.kind = "tagged"] ELSE db

WriteTag(o) ==
    /\ At(o, "tag")
    /\ dbs' = [dbs EXCEPT ![opener[o].db] = Tagged(@)]
    /\ Goes(o, "open")
    /\ UNCHANGED <<path, backups, raced>>

\* begin_session, append_turn: the store is in use.
UseStore(o) ==
    /\ At(o, "open")
    /\ dbs' = [dbs EXCEPT ![opener[o].db].used = TRUE]
    /\ UNCHANGED <<path, backups, opener, raced>>

\* The store is dropped, or the process ends anywhere.
Leave(o) ==
    /\ ~At(o, "closed")
    /\ opener' = [opener EXCEPT ![o] = Closed]
    /\ UNCHANGED <<dbs, path, backups, raced>>

Step(o) == Look(o) \/ Probe(o) \/ MoveAside(o) \/ Connect(o) \/ WriteHeader(o)
               \/ CreateTables(o) \/ WriteTag(o) \/ UseStore(o) \/ Leave(o)

Next == \E o \in Openers : Step(o)

OpenSpec == Init /\ [][Next]_openVars

-----------------------------------------------------------------------------

\* A database with sessions of this program stays in place, and a foreign one
\* stays somewhere, wherever earlier opens died, unless two opens overlapped
\* (open, init).
Kept(i) == i = path \/ (dbs[i].kind \in Foreign /\ \E f \in Formats : backups[f] = i)
SessionsStay == ~raced => \A i \in DOMAIN dbs : dbs[i].used => Kept(i)

\* The same when two opens overlap, or over a database older than any tag
\* ("backed up to ... and started fresh").
SessionsAlwaysStay == \A i \in DOMAIN dbs : dbs[i].used => Kept(i)

\* "backed up and started fresh": sessions are not written into a database of
\* another format.
StartsFresh == \A o \in Openers : At(o, "open") => dbs[opener[o].db].kind = "tagged"
=============================================================================
