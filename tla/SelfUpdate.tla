------------------------------- MODULE SelfUpdate -------------------------------
(***************************************************************************)
(* turya update and turya upgrade (turya-cli/src/update.rs): the version   *)
(* to install, the user's consent, the verified download, and the two      *)
(* renames that replace the running binary, with crashes between them.     *)
(***************************************************************************)
EXTENDS Naturals

CONSTANTS
    Versions,  \* releases: pairs of a major and a minor number
    First,     \* the version installed at first
    RunFrom    \* the files the user starts it from: "exe", "bak"

VARIABLES
    files,   \* turya and turya.bak: version and permission, or nothing
    job,     \* the update in progress
    staged   \* the download: nothing, the target or something else

updateVars == <<files, job, staged>>

Names == {"exe", "bak"}
Nothing == [version |-> <<0, 0>>, runs |-> FALSE]
Binary(v, runs) == [version |-> v, runs |-> runs]
NoJob == [at |-> "none", from |-> "exe", target |-> <<0, 0>>,
          allowMajor |-> FALSE, force |-> FALSE, pinned |-> FALSE, yes |-> FALSE, asked |-> FALSE]

Init ==
    /\ files = [n \in Names |-> IF n = "exe" THEN Binary(First, TRUE) ELSE Nothing]
    /\ job = NoJob
    /\ staged = Nothing

-----------------------------------------------------------------------------
(* The version decision. *)

Older(v, w) == v[1] < w[1] \/ (v[1] = w[1] /\ v[2] < w[2])
Running == files[job.from].version

\* decide; force skips it.
Decide ==
    IF job.force \/ job.pinned THEN "proceed"
    ELSE IF job.target = Running THEN "up to date"
    ELSE IF Older(job.target, Running) THEN "downgrade blocked"
    ELSE IF job.target[1] > Running[1] /\ ~job.allowMajor THEN "refuse major"
    ELSE "proceed"

\* The command line: `update` allows no major and has no --yes; without a
\* pinned version the target is the latest release.
StartUpdate ==
    /\ job = NoJob
    /\ \E from \in RunFrom, target \in Versions, force, pinned, upgrade, yes \in BOOLEAN :
           /\ files[from].runs
           /\ yes => upgrade
           /\ job' = [at |-> "decide", from |-> from, target |-> target, allowMajor |-> upgrade,
                      force |-> force, pinned |-> pinned, yes |-> yes, asked |-> FALSE]
    /\ UNCHANGED <<files, staged>>

\* Nothing to do, a refusal, --check, a user who says no, a failed download,
\* an unsupported platform.
GiveUp ==
    /\ job.at \in {"decide", "ask", "download"}
    /\ job' = NoJob /\ staged' = Nothing
    /\ UNCHANGED files

Proceed ==
    /\ job.at = "decide" /\ Decide = "proceed"
    /\ job' = [job EXCEPT !.at = "ask"]
    /\ UNCHANGED <<files, staged>>

\* confirm_major_upgrade and confirm_breaking.
MustAsk == ~job.yes /\ ~job.force /\ (job.target[1] > Running[1] \/ Running[1] = 0)

Agree ==
    /\ job.at = "ask"
    /\ job' = [job EXCEPT !.at = "download", !.asked = MustAsk]
    /\ UNCHANGED <<files, staged>>

\* verify_sha256: the bytes are the release's.
Verified(v) == v = job.target

Download ==
    /\ job.at = "download"
    /\ \E v \in Versions \cup {<<0, 0>>} :
           /\ Verified(v)
           /\ staged' = Binary(v, v # <<0, 0>>)
    /\ job' = [job EXCEPT !.at = "drop backup"]
    /\ UNCHANGED files

-----------------------------------------------------------------------------
(* replace_current_exe *)

\* The backup of turya.bak is turya.bak.
Backup == "bak"
Goes(at) == job' = [job EXCEPT !.at = at]

DropBackup ==
    /\ job.at = "drop backup"
    /\ files' = [files EXCEPT ![Backup] = Nothing]
    /\ Goes("keep old")
    /\ UNCHANGED staged

\* Mutant: the old binary is deleted, as if the backup were made elsewhere.
Deleted == [files EXCEPT ![job.from] = Nothing]

\* The old binary becomes the backup.
Renamed == [files EXCEPT ![job.from] = Nothing, ![Backup] = files[job.from]]

KeepOld ==
    /\ job.at = "keep old" /\ files[job.from] # Nothing
    /\ files' = Renamed
    /\ Goes("install")
    /\ UNCHANGED staged

KeepOldFails ==
    /\ job.at = "keep old"
    /\ job' = NoJob /\ staged' = Nothing
    /\ UNCHANGED files

\* The rename fails across file systems, and the old binary is put back if
\* that rename works.
InstallFails ==
    /\ job.at = "install"
    /\ \/ files' = [files EXCEPT ![job.from] = files[Backup], ![Backup] = Nothing]
       \/ UNCHANGED files
    /\ job' = NoJob /\ staged' = Nothing

\* The file was written without the permission to run.
Install ==
    /\ job.at = "install"
    /\ files' = [files EXCEPT ![job.from] = [staged EXCEPT !.runs = FALSE]]
    /\ Goes("chmod")
    /\ UNCHANGED staged

Permit ==
    /\ job.at = "chmod"
    /\ files' = [files EXCEPT ![job.from].runs = staged.runs]
    /\ job' = NoJob /\ staged' = Nothing

\* The process dies, or the permissions cannot be set.
Stop ==
    /\ job.at \in {"drop backup", "keep old", "install", "chmod"}
    /\ job' = NoJob /\ staged' = Nothing
    /\ UNCHANGED files

\* The user puts the backup back.
Rollback ==
    /\ job = NoJob /\ files["bak"].runs
    /\ files' = [files EXCEPT !["exe"] = files["bak"], !["bak"] = Nothing]
    /\ UNCHANGED <<job, staged>>

Next ==
    \/ StartUpdate \/ GiveUp \/ Proceed \/ Agree \/ Download
    \/ DropBackup \/ KeepOld \/ KeepOldFails \/ InstallFails \/ Install \/ Permit \/ Stop
    \/ Rollback

UpdateSpec == Init /\ [][Next]_updateVars

-----------------------------------------------------------------------------

\* Wherever an update fails or dies, a binary that runs is left, under its own
\* name or as the backup ("a backup for rollback"; replace_current_exe).
BinaryRemains == \E n \in Names : files[n].runs

\* A new major version replaces an old one only if the user said so: by
\* --force, by a yes to the question, or by upgrade --yes (decide, run).
MajorsAreWanted ==
    [][Install /\ staged.version[1] > files[Backup].version[1]
       => job.force \/ job.yes \/ job.asked]_updateVars
=============================================================================
