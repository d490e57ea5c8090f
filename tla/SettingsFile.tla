------------------------------ MODULE SettingsFile ------------------------------
(***************************************************************************)
(* config.toml (turya-cli/src/config.rs) as every turya of the user loads  *)
(* and saves it: at the start, and around each setting that a command      *)
(* changes.  A file of another version, or one that cannot be parsed, is   *)
(* moved aside.  Nothing locks the file between processes.                 *)
(***************************************************************************)
EXTENDS Naturals, FiniteSets

CONSTANTS
    Processes,
    Fields,     \* settings
    Values,
    MaxForeign  \* bound: foreign files a user or an older turya puts there

VARIABLES
    path,     \* config.toml
    backup,   \* config.toml.old
    proc,     \* what each process is doing, and the settings in its hands
    foreign,  \* foreign files so far
    kept,     \* history: the settings that saves have reported
    raced     \* history: whether two processes overlapped

setVars == <<path, backup, proc, foreign, kept, raced>>

\* A file is missing, cut short, foreign (which one) or holds settings.
NoSettings == [f \in Fields |-> 0]
File(is, n, cfg) == [is |-> is, n |-> n, cfg |-> cfg]
Missing == File("missing", 0, NoSettings)
CutShort == File("cut", 0, NoSettings)
Foreign(n) == File("foreign", n, NoSettings)
Whole(cfg) == File("whole", 0, cfg)

Rest == [at |-> "idle", cfg |-> NoSettings, starts |-> FALSE]

Init ==
    /\ path = Missing /\ backup = Missing
    /\ proc = [p \in Processes |-> Rest]
    /\ foreign = 0 /\ kept = NoSettings /\ raced = FALSE

-----------------------------------------------------------------------------

\* A file of another version of turya, or one edited into something else.
PutForeign ==
    /\ foreign < MaxForeign
    /\ foreign' = foreign + 1
    /\ path' = Foreign(foreign + 1)
    /\ kept' = NoSettings
    /\ raced' = (raced \/ \E p \in Processes : proc[p].at # "idle")
    /\ UNCHANGED <<backup, proc>>

\* load reads the file, at the start and for a command; what it finds decides
\* whether the file is moved.  (read looks and never moves: nothing changes.)
LoadReads(p) ==
    /\ proc[p].at = "idle"
    /\ \E starts \in BOOLEAN :
           proc' = [proc EXCEPT ![p] =
                      [at |-> IF path.is \in {"foreign", "cut"} THEN "aside" ELSE "loaded",
                       cfg |-> path.cfg, starts |-> starts]]
    /\ raced' = (raced \/ \E q \in Processes : proc[q].at # "idle")
    /\ UNCHANGED <<path, backup, foreign, kept>>

\* backup_path: there is one name for it.  The rename takes whatever is there
\* by now; its error is ignored.
MoveAside(p) ==
    /\ proc[p].at = "aside"
    /\ \/ path # Missing /\ backup' = path /\ path' = Missing
       \/ UNCHANGED <<path, backup>>
    /\ proc' = [proc EXCEPT ![p].at = "loaded"]
    /\ UNCHANGED <<foreign, kept, raced>>

\* The start only reads, as some commands do; others change one setting.
JustRead(p) ==
    /\ proc[p].at = "loaded"
    /\ proc' = [proc EXCEPT ![p] = Rest]
    /\ UNCHANGED <<path, backup, foreign, kept, raced>>

\* save writes the file under a name of its own first.
WriteScratch(p) ==
    /\ proc[p].at = "loaded" /\ ~proc[p].starts
    /\ \E f \in Fields, v \in Values :
           proc' = [proc EXCEPT ![p].at = "scratch", ![p].cfg[f] = v]
    /\ UNCHANGED <<path, backup, foreign, kept, raced>>

\* Mutant: the settings are written in place.
InPlace(p) == path' = CutShort

\* A disk that is full, or a crash, while the scratch file is written.
Interrupted(p) == UNCHANGED path

SaveFails(p) ==
    /\ proc[p].at = "scratch"
    /\ Interrupted(p)
    /\ proc' = [proc EXCEPT ![p] = Rest]
    /\ UNCHANGED <<backup, foreign, kept, raced>>

\* The rename replaces the file at once.
SaveRenames(p) ==
    /\ proc[p].at = "scratch"
    /\ path' = Whole(proc[p].cfg) /\ kept' = proc[p].cfg
    /\ proc' = [proc EXCEPT ![p] = Rest]
    /\ UNCHANGED <<backup, foreign, raced>>

Crash(p) ==
    /\ proc[p].at \in {"aside", "loaded"}
    /\ proc' = [proc EXCEPT ![p] = Rest]
    /\ UNCHANGED <<path, backup, foreign, kept, raced>>

Step(p) == LoadReads(p) \/ MoveAside(p) \/ JustRead(p) \/ WriteScratch(p)
               \/ SaveFails(p) \/ SaveRenames(p) \/ Crash(p)

Next == PutForeign \/ \E p \in Processes : Step(p)

SettingsSpec == Init /\ [][Next]_setVars

-----------------------------------------------------------------------------

\* Whatever fails or dies, each setting stays as the last save that reported
\* success left it, until a foreign file takes the place of the settings or
\* two processes overlap ("a crash mid-write must not leave a half-written
\* file", save; load).
SettingsAreKept ==
    /\ CutShort \notin {path, backup}
    /\ ~raced => \/ path.is = "whole" /\ path.cfg = kept
                \/ kept = NoSettings

\* "One writer for the settings file: it keeps the version tag and every other
\* setting": a save changes one setting.
SavesKeepTheRest ==
    [][\A p \in Processes : SaveRenames(p) /\ path.is = "whole" =>
           Cardinality({f \in Fields : path'.cfg[f] # path.cfg[f]}) <= 1]_setVars

\* "Internal reads - saving a setting, switching a model - must never decide to
\* replace the user's settings: that decision belongs to startup": refuted, as
\* the commands that save load the file.
OnlyTheStartReplaces == [][\A p \in Processes : MoveAside(p) => proc[p].starts]_setVars

\* "an incompatible file is replaced and reported": what is moved aside was
\* incompatible.
OnlyForeignIsMoved == backup.is # "whole"
=============================================================================
