------------------------------ MODULE Host_proofs ------------------------------
(***************************************************************************)
(* Proofs about the host, whatever the values of the model's constants.    *)
(* The files turya keeps:                                                  *)
(*   - the update leaves a binary that runs: replace_current_exe renames   *)
(*     before it writes, and wherever it stops one of the two is whole;    *)
(*     and a new major version is one the user agreed to;                  *)
(*   - saved settings stay: a save writes a file of its own and renames    *)
(*     it, and while no two processes overlap, what a load decided about   *)
(*     the file is still so when it moves the file aside;                  *)
(*   - opening the store loses no sessions: what the probe called a        *)
(*     database is still so when it is moved aside, one being opened stays *)
(*     in place, and no second one is made to overwrite a backup;          *)
(*   - the chain of credential stores keeps its word: what a set or a      *)
(*     delete found stays so until it returns, and what it is about to     *)
(*     write to the file keeps every other account.                        *)
(* Its services:                                                           *)
(*   - a listing of the models is honest: what it collects is in a static  *)
(*     list or went to the cache in the same step;                         *)
(*   - a dialog that asks, asks for a flow the host still has: the answer  *)
(*     that ends it is on its way the moment the flow is gone;             *)
(*   - a browser task stores only for a live flow: a cancelled one was     *)
(*     told to stop before it held its token;                              *)
(*   - the settings that run are those saved, and the bar comes to show    *)
(*     them: the newest answer about a setting tells what runs;            *)
(*   - a compacted turn has the tail of the log word for word: what was    *)
(*     loaded stays a prefix of the log, whoever appends meanwhile.        *)
(***************************************************************************)
EXTENDS MCHost, Sequences, SequenceTheorems, TLAPS

-----------------------------------------------------------------------------
(* The update of the binary.                                                *)

AnyVersion == Versions \cup {FirstVersion, <<0, 0>>}
BinaryFile == [version : AnyVersion, runs : BOOLEAN]

Starting == {"decide", "ask", "download", "drop backup", "keep old"}
Replacing == {"install", "chmod"}

UpdateTypeOK ==
    /\ binaries \in [Update!Names -> BinaryFile]
    /\ update \in [at : Starting \cup Replacing \cup {"none"}, from : {"exe"}, target : AnyVersion,
                allowMajor : BOOLEAN, force : BOOLEAN, pinned : BOOLEAN, yes : BOOLEAN,
                asked : BOOLEAN]
    /\ staged \in BinaryFile

\* turya runs until it is renamed, and turya.bak runs from then on.
UpdateInv ==
    /\ UpdateTypeOK
    /\ update.at \in Starting => binaries["exe"].runs
    /\ update.at \in Replacing => binaries["bak"].runs
    /\ Update!BinaryRemains

\* Putting the backup back, by hand or when the rename fails.
Restored == [binaries EXCEPT !["exe"] = binaries["bak"], !["bak"] = Update!Nothing]

LEMMA RestoringKeepsOne ==
  ASSUME binaries \in [Update!Names -> BinaryFile], binaries["bak"].runs
  PROVE  Restored \in [Update!Names -> BinaryFile] /\ Restored["exe"].runs
  <1>1. Update!Nothing \in BinaryFile
    BY DEF Update!Nothing, BinaryFile, AnyVersion
  <1>2. binaries["bak"] \in BinaryFile /\ "exe" \in Update!Names /\ "bak" \in Update!Names
    BY DEF Update!Names
  <1>3. Restored["exe"] = binaries["bak"] /\ Restored["bak"] = Update!Nothing
    BY <1>2, Zenon DEF Restored
  <1>4. Restored \in [Update!Names -> BinaryFile]
    BY <1>1, <1>2, Zenon DEF Restored
  <1> QED BY <1>3, <1>4

LEMMA UpdateInvInit == Update!Init => UpdateInv
  <1> SUFFICES ASSUME Update!Init PROVE UpdateInv
    OBVIOUS
  <1>1. UpdateTypeOK
    BY DEF Update!Init, UpdateTypeOK, Update!Names, BinaryFile, AnyVersion, Update!Binary, Update!Nothing, Update!NoJob
  <1>2. binaries["exe"].runs /\ update.at = "none"
    BY DEF Update!Init, Update!Names, Update!Binary, Update!NoJob
  <1> QED BY <1>1, <1>2 DEF UpdateInv, Update!BinaryRemains, Starting, Replacing, Update!Names

LEMMA UpdateInvStep == ASSUME RunFrom = {"exe"}, UpdateInv, [Update!Next]_mcUpdateVars PROVE UpdateInv'
  <1> USE DEF UpdateInv, UpdateTypeOK, Update!BinaryRemains, Update!Names, BinaryFile, Starting, Replacing
  <1>1. ASSUME Update!StartUpdate PROVE UpdateInv'
    BY <1>1 DEF Update!StartUpdate, AnyVersion, Update!NoJob
  <1>2. ASSUME Update!GiveUp PROVE UpdateInv'
    BY <1>2 DEF Update!GiveUp, Update!NoJob, Update!Nothing, AnyVersion
  <1>3. ASSUME Update!Proceed PROVE UpdateInv'
    BY <1>3 DEF Update!Proceed
  <1>4. ASSUME Update!Agree PROVE UpdateInv'
    BY <1>4 DEF Update!Agree, Update!MustAsk
  <1>5. ASSUME Update!Download PROVE UpdateInv'
    <2>1. PICK v \in Versions \cup {<<0, 0>>} : staged' = Update!Binary(v, v # <<0, 0>>)
      BY <1>5 DEF Update!Download
    <2>2. staged' \in BinaryFile
      <3>1. v \in AnyVersion /\ (v # <<0, 0>>) \in BOOLEAN
        BY DEF AnyVersion
      <3> QED BY <2>1, <3>1, Zenon DEF Update!Binary
    <2> QED BY <1>5, <2>2 DEF Update!Download
  <1>6. ASSUME Update!DropBackup PROVE UpdateInv'
    BY <1>6 DEF Update!DropBackup, Update!Goes, Update!Backup, Update!Nothing, AnyVersion
  <1>7. ASSUME Update!KeepOld PROVE UpdateInv'
    BY <1>7 DEF Update!KeepOld, Update!Renamed, Update!Goes, Update!Backup, Update!Nothing, AnyVersion
  <1>8. ASSUME Update!KeepOldFails PROVE UpdateInv'
    BY <1>8 DEF Update!KeepOldFails, Update!NoJob, Update!Nothing, AnyVersion
  <1>9. ASSUME Update!InstallFails PROVE UpdateInv'
    <2>1. /\ update' = Update!NoJob /\ staged' = Update!Nothing /\ binaries["bak"].runs
          /\ binaries' = Restored \/ binaries' = binaries
      BY <1>9 DEF Update!InstallFails, Update!Backup, Restored
    <2>2. Update!BinaryRemains' /\ binaries' \in [Update!Names -> BinaryFile]
      BY <2>1, RestoringKeepsOne
    <2> QED BY <2>1, <2>2 DEF Update!NoJob, Update!Nothing, AnyVersion
  <1>10. ASSUME Update!Install PROVE UpdateInv'
    BY <1>10 DEF Update!Install, Update!Goes
  <1>11. ASSUME Update!Permit PROVE UpdateInv'
    BY <1>11 DEF Update!Permit, Update!NoJob, Update!Nothing, AnyVersion
  <1>12. ASSUME Update!Stop PROVE UpdateInv'
    BY <1>12 DEF Update!Stop, Update!NoJob, Update!Nothing, AnyVersion
  <1>13. ASSUME Update!Rollback PROVE UpdateInv'
    <2>1. binaries' = Restored /\ update' = update /\ staged' = staged /\ binaries["bak"].runs /\ update.at = "none"
      BY <1>13 DEF Update!Rollback, Restored, Update!NoJob
    <2> QED BY <2>1, RestoringKeepsOne
  <1>14. ASSUME UNCHANGED mcUpdateVars PROVE UpdateInv'
    BY ZenonT(30), <1>14 DEF mcUpdateVars
  <1> QED
    BY <1>1, <1>2, <1>3, <1>4, <1>5, <1>6, <1>7, <1>8, <1>9, <1>10, <1>11, <1>12, <1>13, <1>14
    DEF Update!Next

(* Wherever an update of turya, started from turya, fails or dies, a binary *)
(* that runs is left: turya until it is renamed, turya.bak from then on     *)
(* (replace_current_exe).                                                   *)
THEOREM ABinaryRemains == ASSUME RunFrom = {"exe"} PROVE MCSpec => []BinaryRemains
  <1>1. MCInit => UpdateInv
    BY UpdateInvInit DEF MCInit
  <1>2. UpdateInv /\ [MCNext]_<<focus, services, fileVars>> => UpdateInv'
    BY UpdateInvStep DEF MCNext, services, fileVars
  <1>3. UpdateInv => BinaryRemains
    BY DEF BinaryRemains, UpdateInv
  <1> QED BY <1>1, <1>2, <1>3, PTL DEF MCSpec

(* What the user agreed to.                                                 *)

BinaryOf(name) == binaries[name].version
Wanted == update.force \/ update.yes \/ update.asked
Orders == [at : {"none", "decide", "ask", "download", "drop backup", "keep old", "install", "chmod"},
           from : Update!Names, target : AnyVersion, allowMajor : BOOLEAN, force : BOOLEAN,
           pinned : BOOLEAN, yes : BOOLEAN, asked : BOOLEAN]

(* Once the user has agreed, what is downloaded is what they agreed to, and *)
(* the binary it replaces, until it is the backup, is the one they ran;     *)
(* turya.bak deletes itself before that.                                    *)
Agreed ==
    /\ update \in Orders
    /\ DOMAIN binaries = Update!Names
    /\ update.at \in {"download", "drop backup", "keep old"} =>
         (update.target[1] > BinaryOf(update.from)[1] => Wanted)
         \/ (update.at = "keep old" /\ update.from = "bak")
    /\ update.at = "keep old" /\ update.from = "bak" => binaries["bak"] = Update!Nothing
    /\ update.at \in {"drop backup", "keep old", "install"} => staged.version = update.target
    /\ update.at = "install" => (update.target[1] > BinaryOf("bak")[1] => Wanted)

LEMMA AgreedInit == Update!Init => Agreed
  BY DEF Update!Init, Agreed, Update!Names, Update!NoJob, Orders, AnyVersion

LEMMA AgreedStep == ASSUME RunFrom \subseteq Update!Names, Agreed, [Update!Next]_mcUpdateVars PROVE Agreed'
  <1> USE DEF Agreed, Wanted, BinaryOf, Update!Names, Orders, AnyVersion
  <1>1. CASE Update!StartUpdate
    BY <1>1 DEF Update!StartUpdate, Update!NoJob
  <1>2. CASE Update!GiveUp \/ Update!KeepOldFails \/ Update!Stop
    <2>1. update' = Update!NoJob /\ binaries' = binaries
      BY <1>2 DEF Update!GiveUp, Update!KeepOldFails, Update!Stop
    <2> QED BY <2>1 DEF Update!NoJob
  <1>3. CASE Update!Proceed
    BY <1>3 DEF Update!Proceed, Update!NoJob
  <1>4. CASE Update!Agree
    BY <1>4 DEF Update!Agree, Update!MustAsk, Update!Running, Update!NoJob
  <1>5. CASE Update!Download
    <2>1. /\ update.at = "download" /\ update' = [update EXCEPT !.at = "drop backup"]
          /\ binaries' = binaries /\ staged'.version = update.target
      <3>1. PICK v : v = update.target /\ staged' = Update!Binary(v, v # <<0, 0>>)
        BY <1>5 DEF Update!Download, Update!Verified
      <3> HIDE DEF Agreed, Wanted, BinaryOf, Update!Names, Orders, AnyVersion
      <3>2. staged'.version = v
        BY <3>1, Zenon DEF Update!Binary
      <3> QED BY <1>5, <3>1, <3>2 DEF Update!Download
    <2> QED BY <2>1
  <1>6. CASE Update!DropBackup
    BY <1>6 DEF Update!DropBackup, Update!Goes, Update!Backup, Update!NoJob
  <1>7. CASE Update!KeepOld
    BY <1>7 DEF Update!KeepOld, Update!Renamed, Update!Goes, Update!Backup, Update!NoJob
  <1>8. CASE Update!InstallFails
    BY <1>8 DEF Update!InstallFails, Update!NoJob
  <1>9. CASE Update!Install
    BY <1>9 DEF Update!Install, Update!Goes, Update!NoJob
  <1>10. CASE Update!Permit
    BY <1>10 DEF Update!Permit, Update!NoJob
  <1>11. CASE Update!Rollback
    BY <1>11 DEF Update!Rollback, Update!NoJob
  <1>12. CASE UNCHANGED mcUpdateVars
    BY <1>12 DEF mcUpdateVars
  <1> QED
    BY <1>1, <1>2, <1>3, <1>4, <1>5, <1>6, <1>7, <1>8, <1>9, <1>10, <1>11, <1>12 DEF Update!Next

(* A new major version replaces an old one only if the user said so, by     *)
(* --force, upgrade --yes or a yes to the question, wherever the update was *)
(* started from (decide, confirm_major_upgrade, replace_current_exe).       *)
THEOREM NewMajorsAreWanted == ASSUME RunFrom \subseteq Update!Names PROVE MCSpec => Update!MajorsAreWanted
  <1>1. MCInit => Agreed
    BY AgreedInit DEF MCInit
  <1>2. Agreed /\ [MCNext]_<<focus, services, fileVars>> => Agreed'
    BY AgreedStep DEF MCNext, services, fileVars
  <1>3. Agreed /\ [MCNext]_<<focus, services, fileVars>> =>
          [Update!Install /\ staged.version[1] > binaries[Update!Backup].version[1]
             => update.force \/ update.yes \/ update.asked]_(Update!updateVars)
    BY DEF Agreed, Wanted, BinaryOf, Update!Install, Update!Backup
  <1> QED BY <1>1, <1>2, <1>3, PTL DEF MCSpec, Update!MajorsAreWanted

-----------------------------------------------------------------------------
(* The settings file.                                                       *)

SettingsMap == [Fields -> Values \cup {0}]
FileType == [is : {"missing", "foreign", "whole"}, n : Nat, cfg : SettingsMap]
ProcType == [at : {"idle", "aside", "loaded", "scratch"}, cfg : SettingsMap, starts : BOOLEAN]

\* No file is ever cut short.
SettingsTypeOK ==
    /\ path \in FileType /\ backup \in FileType
    /\ proc \in [Processes -> ProcType]
    /\ foreign \in Nat /\ kept \in SettingsMap /\ collided \in BOOLEAN

\* Without an overlap one process is at work at most, and the file it is about
\* to move aside is still not one with settings.
OneAtWork == \A p, q \in Processes : proc[p].at # "idle" /\ proc[q].at # "idle" => p = q
AsideIsForeign == \A p \in Processes : proc[p].at = "aside" => path.is # "whole"
InPlaceIsKept == (path.is = "whole" /\ path.cfg = kept) \/ kept = Config!NoSettings

SettingsInv == SettingsTypeOK /\ (~collided => OneAtWork /\ AsideIsForeign /\ InPlaceIsKept)

LEMMA NoSettingsType == Config!NoSettings \in SettingsMap
  BY DEF Config!NoSettings, SettingsMap

LEMMA RestType == Config!Rest \in ProcType /\ Config!Rest.at = "idle"
  BY NoSettingsType DEF Config!Rest, ProcType

LEMMA MissingType == Config!Missing \in FileType /\ Config!Missing.is = "missing"
  BY NoSettingsType DEF Config!Missing, Config!File, FileType

LEMMA SettingsInvInit == Config!Init => SettingsInv
  <1> SUFFICES ASSUME Config!Init PROVE SettingsInv
    OBVIOUS
  <1>1. SettingsTypeOK
    BY NoSettingsType, RestType, MissingType DEF Config!Init, SettingsTypeOK
  <1>2. \A p \in Processes : proc[p].at = "idle"
    BY RestType DEF Config!Init
  <1> QED BY <1>1, <1>2 DEF Config!Init, SettingsInv, OneAtWork, AsideIsForeign, InPlaceIsKept

(* A process that goes idle, or on with what it has, races with nobody.     *)
LEMMA ResumeKeepsOrder ==
  ASSUME SettingsInv, NEW p \in Processes, NEW r \in ProcType,
         proc[p].at # "idle", r.at # "aside", proc' = [proc EXCEPT ![p] = r],
         collided' = collided
  PROVE  /\ proc' \in [Processes -> ProcType]
         /\ ~collided' => OneAtWork' /\ \A q \in Processes : proc'[q].at # "aside"
  <1>1. proc' \in [Processes -> ProcType]
    BY DEF SettingsInv, SettingsTypeOK
  <1>2. \A q \in Processes : proc'[q] = IF q = p THEN r ELSE proc[q]
    BY DEF SettingsInv, SettingsTypeOK
  <1>3. ASSUME ~collided PROVE OneAtWork' /\ \A q \in Processes : proc'[q].at # "aside"
    <2>1. \A q \in Processes : q # p => proc[q].at = "idle"
      BY <1>3 DEF SettingsInv, OneAtWork
    <2> QED BY <1>2, <2>1 DEF OneAtWork
  <1> QED BY <1>1, <1>3

LEMMA SettingsInvStep == ASSUME SettingsInv, [Config!Next]_mcConfigVars PROVE SettingsInv'
  <1>1. ASSUME Config!PutForeign PROVE SettingsInv'
    <2>1. path' \in FileType /\ path'.is = "foreign" /\ kept' \in SettingsMap /\ foreign' \in Nat
      BY <1>1, NoSettingsType DEF Config!PutForeign, SettingsInv, SettingsTypeOK, Config!Foreign, Config!File, FileType
    <2>2. SettingsTypeOK'
      BY <1>1, <2>1 DEF Config!PutForeign, SettingsInv, SettingsTypeOK
    <2>3. ~collided' => \A p \in Processes : proc'[p].at = "idle"
      BY <1>1 DEF Config!PutForeign
    <2>4. kept' = Config!NoSettings
      BY <1>1 DEF Config!PutForeign
    <2> QED BY <2>2, <2>3, <2>4
      DEF SettingsInv, OneAtWork, AsideIsForeign, InPlaceIsKept, Config!NoSettings
  <1>2. ASSUME NEW p \in Processes, Config!LoadReads(p) PROVE SettingsInv'
    <2>1. PICK r \in ProcType : proc' = [proc EXCEPT ![p] = r] /\ (r.at = "aside" => path.is # "whole")
      <3> DEFINE read(starts) == [at |-> IF path.is \in {"foreign", "cut"} THEN "aside" ELSE "loaded",
                                  cfg |-> path.cfg, starts |-> starts]
      <3>1. PICK starts \in BOOLEAN : proc' = [proc EXCEPT ![p] = read(starts)]
        BY <1>2 DEF Config!LoadReads
      <3>2. read(starts) \in ProcType /\ (read(starts).at = "aside" => path.is # "whole")
        BY DEF ProcType, SettingsInv, SettingsTypeOK, FileType
      <3> QED BY <3>1, <3>2
    <2>2. SettingsTypeOK'
      BY <1>2, <2>1 DEF Config!LoadReads, SettingsInv, SettingsTypeOK
    <2>3. ASSUME ~collided' PROVE OneAtWork' /\ AsideIsForeign' /\ InPlaceIsKept'
      <3>1. ~collided /\ \A q \in Processes : proc[q].at = "idle"
        BY <1>2, <2>3 DEF Config!LoadReads
      <3>2. \A q \in Processes : proc'[q] = IF q = p THEN r ELSE proc[q]
        BY <2>1 DEF SettingsInv, SettingsTypeOK
      <3>3. path' = path /\ kept' = kept
        BY <1>2 DEF Config!LoadReads
      <3> QED BY <2>1, <3>1, <3>2, <3>3
        DEF SettingsInv, OneAtWork, AsideIsForeign, InPlaceIsKept, Config!NoSettings
    <2> QED BY <2>2, <2>3 DEF SettingsInv
  <1>3. ASSUME NEW p \in Processes, Config!MoveAside(p) PROVE SettingsInv'
    <2>1. PICK r \in ProcType : r.at = "loaded" /\ proc' = [proc EXCEPT ![p] = r]
      <3>1. [proc[p] EXCEPT !.at = "loaded"] \in ProcType
        BY DEF SettingsInv, SettingsTypeOK, ProcType
      <3> QED BY <1>3, <3>1 DEF Config!MoveAside, ProcType
    <2>2. proc[p].at # "idle" /\ proc[p].at = "aside" /\ collided' = collided /\ kept' = kept
      BY <1>3 DEF Config!MoveAside
    <2>3. /\ proc' \in [Processes -> ProcType]
          /\ ~collided' => OneAtWork' /\ \A q \in Processes : proc'[q].at # "aside"
      BY <2>1, <2>2, ResumeKeepsOrder
    <2>4. path' \in FileType /\ backup' \in FileType
      BY <1>3, MissingType DEF Config!MoveAside, SettingsInv, SettingsTypeOK
    <2>5. ~collided => kept = Config!NoSettings
      BY <2>2 DEF SettingsInv, AsideIsForeign, InPlaceIsKept
    <2>6. SettingsTypeOK'
      BY <1>3, <2>3, <2>4 DEF Config!MoveAside, SettingsInv, SettingsTypeOK
    <2> QED BY <2>2, <2>3, <2>5, <2>6
      DEF SettingsInv, AsideIsForeign, InPlaceIsKept, Config!NoSettings
  <1>4. ASSUME NEW p \in Processes, Config!JustRead(p) \/ Config!SaveFails(p) \/ Config!Crash(p) PROVE SettingsInv'
    <2>1. /\ proc[p].at # "idle" /\ proc' = [proc EXCEPT ![p] = Config!Rest]
          /\ UNCHANGED <<path, backup, foreign, kept, collided>>
      BY <1>4 DEF Config!JustRead, Config!SaveFails, Config!Interrupted, Config!Crash
    <2>2. /\ proc' \in [Processes -> ProcType]
          /\ ~collided' => OneAtWork' /\ \A q \in Processes : proc'[q].at # "aside"
      BY <2>1, RestType, ResumeKeepsOrder
    <2> QED BY <2>1, <2>2
      DEF SettingsInv, SettingsTypeOK, AsideIsForeign, InPlaceIsKept, Config!NoSettings
  <1>5. ASSUME NEW p \in Processes, Config!WriteScratch(p) PROVE SettingsInv'
    <2>1. PICK f \in Fields, v \in Values :
              proc' = [proc EXCEPT ![p].at = "scratch", ![p].cfg[f] = v]
      BY <1>5 DEF Config!WriteScratch
    <2>2. PICK r \in ProcType : r.at = "scratch" /\ proc' = [proc EXCEPT ![p] = r]
      <3> DEFINE r == [[proc[p] EXCEPT !.at = "scratch"] EXCEPT !.cfg[f] = v]
      <3>1. r \in ProcType /\ r.at = "scratch"
        BY <2>1 DEF SettingsInv, SettingsTypeOK, ProcType, SettingsMap
      <3>2. proc' = [proc EXCEPT ![p] = r]
        BY <2>1 DEF SettingsInv, SettingsTypeOK
      <3> QED BY <3>1, <3>2
    <2>3. proc[p].at # "idle" /\ UNCHANGED <<path, backup, foreign, kept, collided>>
      BY <1>5 DEF Config!WriteScratch
    <2>4. /\ proc' \in [Processes -> ProcType]
          /\ ~collided' => OneAtWork' /\ \A q \in Processes : proc'[q].at # "aside"
      BY <2>2, <2>3, ResumeKeepsOrder
    <2> QED BY <2>3, <2>4
      DEF SettingsInv, SettingsTypeOK, AsideIsForeign, InPlaceIsKept, Config!NoSettings
  <1>6. ASSUME NEW p \in Processes, Config!SaveRenames(p) PROVE SettingsInv'
    <2>1. /\ proc[p].at # "idle" /\ proc' = [proc EXCEPT ![p] = Config!Rest]
          /\ path' = Config!Whole(proc[p].cfg) /\ kept' = proc[p].cfg
          /\ UNCHANGED <<backup, foreign, collided>>
      BY <1>6 DEF Config!SaveRenames
    <2>2. /\ proc' \in [Processes -> ProcType]
          /\ ~collided' => OneAtWork' /\ \A q \in Processes : proc'[q].at # "aside"
      BY <2>1, RestType, ResumeKeepsOrder
    <2>3. path' \in FileType /\ path'.is = "whole" /\ path'.cfg = kept' /\ kept' \in SettingsMap
      BY <2>1 DEF Config!Whole, Config!File, FileType, SettingsInv, SettingsTypeOK, ProcType
    <2> QED BY <2>1, <2>2, <2>3
      DEF SettingsInv, SettingsTypeOK, AsideIsForeign, InPlaceIsKept
  <1>7. ASSUME UNCHANGED mcConfigVars PROVE SettingsInv'
    BY <1>7 DEF mcConfigVars, SettingsInv, SettingsTypeOK, OneAtWork, AsideIsForeign, InPlaceIsKept,
                Config!NoSettings
  <1> QED
    BY <1>1, <1>2, <1>3, <1>4, <1>5, <1>6, <1>7 DEF Config!Next, Config!Step

(* config.toml and its backup are never half written, and until two         *)
(* processes overlap or a foreign file takes its place it holds what the    *)
(* last save reported, for any number of processes (save, load).            *)
THEOREM SettingsStay == MCSpec => []SettingsAreKept
  <1>1. SettingsInv => SettingsAreKept
    <2>1. Config!CutShort.is = "cut"
      BY DEF Config!CutShort, Config!File
    <2> QED BY <2>1 DEF SettingsInv, SettingsTypeOK, FileType, SettingsAreKept, Config!SettingsAreKept, InPlaceIsKept
  <1>2. MCInit => SettingsInv
    BY SettingsInvInit DEF MCInit
  <1>3. SettingsInv /\ [MCNext]_<<focus, services, fileVars>> => SettingsInv'
    BY SettingsInvStep DEF MCNext, services, fileVars
  <1> QED BY <1>1, <1>2, <1>3, PTL DEF MCSpec

-----------------------------------------------------------------------------
(* The opening of the store.                                                *)

Kinds == {"other", "empty", "header", "tables", "tagged"}
DbType == [kind : Kinds, used : BOOLEAN]
StillOpening == {"probe", "aside", "connect", "header", "tables", "tag"}
OpenerType == [at : StillOpening \cup {"closed", "open"}, found : Opening!Formats \cup {"none"}, db : Nat]

OpenTypeOK ==
    /\ dbs \in Seq(DbType) /\ turyaDb \in 0 .. Len(dbs)
    /\ backups \in [Opening!Formats -> Nat]
    /\ opener \in [Openers -> OpenerType]
    /\ raced \in BOOLEAN

\* From the connection on an opener has a database.
HaveDbs ==
    \A o \in Openers :
        opener[o].at \in {"header", "tables", "tag", "open"} => opener[o].db \in DOMAIN dbs

Busy(o) == opener[o].at \in StillOpening
OneOpening == \A o, p \in Openers : Busy(o) /\ Busy(p) => o = p

\* The other format's database is the first, in place or in its backup; no
\* other database holds sessions unless it is tagged and in place.
WellKept(i) ==
    IF dbs[i].kind = "other" THEN i = 1 /\ (turyaDb = 1 \/ backups["other"] = 1)
    ELSE dbs[i].used => dbs[i].kind = "tagged" /\ i = turyaDb

InPlace(o, kinds) == opener[o].db = turyaDb /\ turyaDb # 0 /\ dbs[turyaDb].kind \in kinds

\* How far an open has come, and what that says of the database.
FarAsItSays(o) ==
    LET at == opener[o].at
    IN  /\ at = "probe" => turyaDb # 0
        /\ at = "aside" => /\ turyaDb # 0 /\ dbs[turyaDb].kind # "tagged"
                           /\ opener[o].found = Opening!FoundAs(dbs[turyaDb].kind)
        /\ at = "header" => InPlace(o, Kinds)
        /\ at = "tables" => InPlace(o, Kinds \ {"empty"})
        /\ at = "tag" => InPlace(o, Kinds \ {"empty", "header"})
        /\ at = "open" => \/ opener[o].db \in DOMAIN dbs /\ dbs[opener[o].db].kind = "other"
                          \/ InPlace(o, {"tagged"})

OpenInv ==
    /\ OpenTypeOK /\ HaveDbs
    /\ ~raced => /\ OneOpening
                 /\ \A i \in DOMAIN dbs : WellKept(i)
                 /\ \A o \in Openers : FarAsItSays(o)

(* Changing one database of the sequence, or making one more.               *)
LEMMA OneDbChanges ==
  ASSUME NEW s \in Seq(DbType), NEW i \in 1 .. Len(s), NEW d \in DbType
  PROVE  LET t == [s EXCEPT ![i] = d]
         IN  /\ t \in Seq(DbType) /\ Len(t) = Len(s) /\ DOMAIN t = DOMAIN s
             /\ \A j \in DOMAIN s : t[j] = IF j = i THEN d ELSE s[j]
  OBVIOUS

LEMMA OneDb ==
  ASSUME NEW d \in DbType
  PROVE  <<d>> \in Seq(DbType) /\ Len(<<d>>) = 1
  OBVIOUS

LEMMA OneDbMore ==
  ASSUME NEW s \in Seq(DbType), NEW d \in DbType
  PROVE  LET t == Append(s, d)
         IN  /\ t \in Seq(DbType) /\ Len(t) = Len(s) + 1 /\ DOMAIN t = 1 .. Len(s) + 1
             /\ \A j \in DOMAIN s : t[j] = s[j]
             /\ t[Len(s) + 1] = d
  OBVIOUS

LEMMA MadeDbs ==
  ASSUME OpenTypeOK, Opening!Made
  PROVE  /\ dbs' \in Seq(DbType) /\ turyaDb' \in 1 .. Len(dbs')
         /\ Len(dbs) <= Len(dbs')
         /\ \A i \in DOMAIN dbs : dbs'[i] = dbs[i]
         /\ turyaDb # 0 => dbs' = dbs /\ turyaDb' = turyaDb
         /\ turyaDb = 0 => /\ turyaDb' \notin DOMAIN dbs /\ DOMAIN dbs' = DOMAIN dbs \cup {turyaDb'}
                        /\ dbs'[turyaDb'] = Opening!Db("empty", FALSE)
  <1>1. Opening!Db("empty", FALSE) \in DbType
    BY DEF Opening!Db, DbType, Kinds
  <1>2. dbs \in Seq(DbType) /\ turyaDb \in 0 .. Len(dbs) /\ Len(dbs) \in Nat /\ DOMAIN dbs = 1 .. Len(dbs)
    BY DEF OpenTypeOK
  <1>3. CASE turyaDb # 0
    <2>1. dbs' = dbs /\ turyaDb' = turyaDb
      BY <1>3 DEF Opening!Made
    <2>2. turyaDb' \in 1 .. Len(dbs') /\ Len(dbs) <= Len(dbs')
      BY <1>2, <1>3, <2>1
    <2>3. dbs' \in Seq(DbType) /\ \A i \in DOMAIN dbs : dbs'[i] = dbs[i]
      BY <1>2, <2>1, Zenon
    <2> QED BY <1>3, <2>1, <2>2, <2>3, Zenon
  <1>4. CASE turyaDb = 0
    <2> DEFINE d == Opening!Db("empty", FALSE)
    <2>1. dbs' = Append(dbs, d) /\ turyaDb' = Len(dbs')
      BY <1>4 DEF Opening!Made
    <2>2. d \in DbType
      BY <1>1
    <2> HIDE DEF d
    <2>3. /\ dbs' \in Seq(DbType) /\ Len(dbs') = Len(dbs) + 1 /\ DOMAIN dbs' = 1 .. Len(dbs) + 1
          /\ \A j \in DOMAIN dbs : dbs'[j] = dbs[j]
          /\ dbs'[Len(dbs) + 1] = d
      BY <1>2, <2>1, <2>2, OneDbMore
    <2>4. turyaDb' = Len(dbs) + 1 /\ turyaDb' \notin DOMAIN dbs /\ DOMAIN dbs' = DOMAIN dbs \cup {turyaDb'}
      BY <1>2, <2>1, <2>3
    <2>5. turyaDb' \in 1 .. Len(dbs') /\ Len(dbs) <= Len(dbs')
      BY <1>2, <2>3, <2>4
    <2>6. dbs'[turyaDb'] = d
      BY <2>3, <2>4
    <2> QED BY <1>4, <2>3, <2>4, <2>5, <2>6, Zenon DEF d
  <1> QED BY <1>3, <1>4

LEMMA OpenInvInit == ASSUME Starts \subseteq {"none", "other", "tagged"}, Opening!Init PROVE OpenInv
  <1>1. \/ dbs = <<>> /\ turyaDb = 0
        \/ \E kind \in {"other", "tagged"} : dbs = <<Opening!Db(kind, TRUE)>> /\ turyaDb = 1
    BY DEF Opening!Init
  <1>2. OpenTypeOK
    <2>1. dbs \in Seq(DbType) /\ turyaDb \in 0 .. Len(dbs)
      <3>1. CASE dbs = <<>> /\ turyaDb = 0
        BY <3>1
      <3>2. ASSUME NEW kind \in {"other", "tagged"}, dbs = <<Opening!Db(kind, TRUE)>> /\ turyaDb = 1
            PROVE  dbs \in Seq(DbType) /\ turyaDb \in 0 .. Len(dbs)
        <4>1. Opening!Db(kind, TRUE) \in DbType
          BY DEF Opening!Db, DbType, Kinds
        <4>2. <<Opening!Db(kind, TRUE)>> \in Seq(DbType) /\ Len(<<Opening!Db(kind, TRUE)>>) = 1
          BY <4>1, OneDb
        <4>3. 1 \in 0 .. 1
          OBVIOUS
        <4> QED BY <3>2, <4>2, <4>3, Zenon
      <3> QED BY <1>1, <3>1, <3>2
    <2>2. backups \in [Opening!Formats -> Nat] /\ raced \in BOOLEAN
      BY DEF Opening!Init
    <2>3. opener \in [Openers -> OpenerType]
      BY DEF Opening!Init, OpenerType, Opening!Closed, Opening!Formats
    <2> QED BY <2>1, <2>2, <2>3 DEF OpenTypeOK
  <1>3. \A o \in Openers : opener[o].at = "closed"
    BY DEF Opening!Init, Opening!Closed
  <1>4. \A i \in DOMAIN dbs : WellKept(i)
    BY <1>1 DEF WellKept, Opening!Db
  <1> QED BY <1>2, <1>3, <1>4 DEF OpenInv, HaveDbs, OneOpening, Busy, StillOpening, FarAsItSays

(* An opener that is at work already races with nobody.                     *)
LEMMA GoingOn ==
  ASSUME OpenInv, NEW o \in Openers, NEW r \in OpenerType, Busy(o),
         opener' = [opener EXCEPT ![o] = r], ~raced, raced' = raced
  PROVE  /\ opener' \in [Openers -> OpenerType] /\ opener'[o] = r
         /\ \A p \in Openers \ {o} : opener'[p] = opener[p] /\ ~Busy(p)
         /\ OneOpening'
  <1>1. opener' \in [Openers -> OpenerType] /\ opener'[o] = r
    BY DEF OpenInv, OpenTypeOK
  <1>2. \A p \in Openers \ {o} : opener'[p] = opener[p]
    BY DEF OpenInv, OpenTypeOK
  <1>3. \A p \in Openers \ {o} : ~Busy(p)
    BY DEF OpenInv, OneOpening
  <1>4. OneOpening'
    BY <1>2, <1>3 DEF OneOpening, Busy
  <1> QED BY <1>1, <1>2, <1>3, <1>4

(* What an opener that is not at work says stays true while the databases   *)
(* keep their kinds and turya.db its place.                                 *)
LEMMA OthersAreFar ==
  ASSUME OpenInv, ~raced, NEW p \in Openers, ~Busy(p), opener'[p] = opener[p],
         DOMAIN dbs \subseteq DOMAIN dbs',
         \A i \in DOMAIN dbs : dbs[i].kind = "other" => dbs'[i].kind = "other",
         turyaDb # 0 /\ dbs[turyaDb].kind = "tagged" => turyaDb' = turyaDb /\ dbs'[turyaDb].kind = "tagged"
  PROVE  FarAsItSays(p)'
  <1>1. FarAsItSays(p)
    BY DEF OpenInv
  <1>2. CASE opener[p].at = "open"
    BY <1>1, <1>2 DEF FarAsItSays, InPlace
  <1>3. CASE opener[p].at # "open"
    BY <1>3 DEF FarAsItSays, Busy, StillOpening
  <1> QED BY <1>2, <1>3

LEMMA LookKeeps == ASSUME OpenInv, NEW o \in Openers, Opening!Look(o) PROVE OpenInv'
  <1> DEFINE at == IF turyaDb # 0 /\ dbs[turyaDb].kind # "empty" THEN "probe" ELSE "connect"
             r == [opener[o] EXCEPT !.at = at]
  <1>1. /\ opener[o].at = "closed" /\ UNCHANGED <<dbs, turyaDb, backups>>
        /\ raced' = (raced \/ \E other \in Openers : opener[other].at \notin {"closed", "open"})
        /\ opener' = [opener EXCEPT ![o].at = at]
    BY DEF Opening!Look, Opening!At, Opening!Goes
  <1>2. r \in OpenerType /\ r.at = at /\ opener' = [opener EXCEPT ![o] = r]
    BY <1>1 DEF OpenInv, OpenTypeOK, OpenerType, StillOpening
  <1>3. opener' \in [Openers -> OpenerType] /\ opener'[o] = r
        /\ \A p \in Openers \ {o} : opener'[p] = opener[p]
    BY <1>2 DEF OpenInv, OpenTypeOK
  <1>4. OpenTypeOK'
    BY <1>1, <1>3 DEF OpenInv, OpenTypeOK
  <1>5. ASSUME ~raced' PROVE OneOpening' /\ \A p \in Openers : FarAsItSays(p)'
    <2>1. ~raced /\ \A p \in Openers : ~Busy(p)
      BY <1>1, <1>5 DEF Busy, StillOpening
    <2>2. OneOpening'
      BY <1>3, <2>1 DEF OneOpening, Busy
    <2>3. \A p \in Openers \ {o} : FarAsItSays(p)'
      BY <1>1, <1>3, <2>1 DEF OpenInv, FarAsItSays, InPlace
    <2>4. FarAsItSays(o)'
      BY <1>1, <1>2, <1>3 DEF FarAsItSays
    <2> QED BY <2>2, <2>3, <2>4
  <1>6. ~raced' => \A i \in DOMAIN dbs' : WellKept(i)'
    BY <1>1 DEF OpenInv, WellKept
  <1>7. HaveDbs'
    BY <1>1, <1>2, <1>3 DEF OpenInv, HaveDbs
  <1> QED BY <1>4, <1>5, <1>6, <1>7 DEF OpenInv

LEMMA ProbeKeeps == ASSUME OpenInv, NEW o \in Openers, Opening!Probe(o) PROVE OpenInv'
  <1> DEFINE kind == dbs'[turyaDb'].kind
             r == [opener[o] EXCEPT !.found = Opening!FoundAs(kind),
                                    !.at = IF kind = "tagged" THEN "connect" ELSE "aside"]
  <1>1. /\ opener[o].at = "probe" /\ Opening!Made /\ UNCHANGED <<backups, raced>>
        /\ opener' = [opener EXCEPT ![o].found = Opening!FoundAs(kind),
                                    ![o].at = IF kind = "tagged" THEN "connect" ELSE "aside"]
    BY DEF Opening!Probe, Opening!At
  <1>2. /\ dbs' \in Seq(DbType) /\ turyaDb' \in 1 .. Len(dbs')
        /\ turyaDb # 0 => dbs' = dbs /\ turyaDb' = turyaDb
    BY <1>1, MadeDbs DEF OpenInv
  <1>3. dbs'[turyaDb'] \in DbType /\ kind \in Kinds /\ Opening!FoundAs(kind) \in Opening!Formats
    <2>1. dbs'[turyaDb'] \in DbType
      BY <1>2
    <2> QED BY <2>1 DEF DbType, Kinds, Opening!FoundAs, Opening!Formats
  <1>4. /\ r \in OpenerType /\ r.at = (IF kind = "tagged" THEN "connect" ELSE "aside")
        /\ r.found = Opening!FoundAs(kind) /\ opener' = [opener EXCEPT ![o] = r]
    <2>1. opener[o] \in OpenerType
      BY DEF OpenInv, OpenTypeOK
    <2> QED BY <1>1, <1>3, <2>1 DEF OpenInv, OpenTypeOK, OpenerType, StillOpening
  <1> HIDE DEF r
  <1>5. OpenTypeOK'
    <2>1. turyaDb' \in 0 .. Len(dbs')
      BY <1>2
    <2>2. opener' \in [Openers -> OpenerType]
      BY <1>4 DEF OpenInv, OpenTypeOK
    <2> QED BY <1>1, <1>2, <2>1, <2>2 DEF OpenInv, OpenTypeOK
  <1>6. ASSUME ~raced' PROVE OneOpening' /\ (\A i \in DOMAIN dbs' : WellKept(i)')
                             /\ \A p \in Openers : FarAsItSays(p)'
    <2>1. ~raced /\ Busy(o)
      BY <1>1, <1>6 DEF Busy, StillOpening
    <2>2. turyaDb # 0 /\ UNCHANGED <<dbs, turyaDb>>
      BY <1>1, <1>2, <2>1 DEF OpenInv, FarAsItSays
    <2>3. /\ opener'[o] = r /\ OneOpening'
          /\ \A p \in Openers \ {o} : opener'[p] = opener[p] /\ ~Busy(p)
      BY <1>1, <1>4, <2>1, GoingOn
    <2>4. \A i \in DOMAIN dbs' : WellKept(i)'
      BY <1>1, <2>1, <2>2 DEF OpenInv, WellKept
    <2>5. \A p \in Openers \ {o} : FarAsItSays(p)'
      BY <2>1, <2>2, <2>3, OthersAreFar
    <2>6. FarAsItSays(o)'
      BY <1>2, <1>4, <2>2, <2>3 DEF FarAsItSays
    <2> QED BY <2>3, <2>4, <2>5, <2>6
  <1>7. HaveDbs'
    <2>1. DOMAIN dbs \subseteq DOMAIN dbs'
      BY <1>1, MadeDbs, Zenon DEF OpenInv
    <2>2. opener'[o].at \notin {"header", "tables", "tag", "open"}
          /\ \A p \in Openers \ {o} : opener'[p] = opener[p]
      BY <1>4 DEF OpenInv, OpenTypeOK
    <2> QED BY <2>1, <2>2 DEF OpenInv, HaveDbs
  <1> QED BY <1>5, <1>6, <1>7 DEF OpenInv

LEMMA AsideKeeps == ASSUME OpenInv, NEW o \in Openers, Opening!MoveAside(o) PROVE OpenInv'
  <1> DEFINE r == [opener[o] EXCEPT !.at = "connect"]
  <1>1. /\ opener[o].at = "aside" /\ UNCHANGED <<dbs, raced>>
        /\ opener' = [opener EXCEPT ![o].at = "connect"]
        /\ \/ turyaDb # 0 /\ backups' = [backups EXCEPT ![opener[o].found] = turyaDb] /\ turyaDb' = 0
           \/ UNCHANGED <<turyaDb, backups>>
    BY DEF Opening!MoveAside, Opening!At, Opening!Goes
  <1>2. r \in OpenerType /\ r.at = "connect" /\ opener' = [opener EXCEPT ![o] = r]
    BY <1>1 DEF OpenInv, OpenTypeOK, OpenerType, StillOpening
  <1> HIDE DEF r
  <1>3. OpenTypeOK'
    <2>1. /\ dbs \in Seq(DbType) /\ Len(dbs) \in Nat /\ turyaDb \in 0 .. Len(dbs)
          /\ backups \in [Opening!Formats -> Nat]
      BY DEF OpenInv, OpenTypeOK
    <2>2. turyaDb' \in 0 .. Len(dbs') /\ backups' \in [Opening!Formats -> Nat]
      BY <1>1, <2>1
    <2>3. opener' \in [Openers -> OpenerType]
      BY <1>2 DEF OpenInv, OpenTypeOK
    <2> QED BY <1>1, <2>1, <2>2, <2>3 DEF OpenInv, OpenTypeOK
  <1>4. ASSUME ~raced' PROVE OneOpening' /\ (\A i \in DOMAIN dbs' : WellKept(i)')
                             /\ \A p \in Openers : FarAsItSays(p)'
    <2>1. ~raced /\ Busy(o)
      BY <1>1, <1>4 DEF Busy, StillOpening
    <2>2. /\ opener'[o] = r /\ OneOpening'
          /\ \A p \in Openers \ {o} : opener'[p] = opener[p] /\ ~Busy(p)
      BY <1>1, <1>2, <2>1, GoingOn
    <2>3. turyaDb # 0 /\ dbs[turyaDb].kind # "tagged" /\ opener[o].found = Opening!FoundAs(dbs[turyaDb].kind)
      BY <1>1, <2>1 DEF OpenInv, FarAsItSays
    <2>4. ASSUME NEW i \in DOMAIN dbs' PROVE WellKept(i)'
      <3>1. WellKept(i) /\ WellKept(turyaDb) /\ dbs' = dbs
        BY <1>1, <2>1, <2>3, <2>4 DEF OpenInv, OpenTypeOK
      <3>2. CASE dbs[i].kind = "other"
        <4>1. i = 1 /\ (turyaDb = 1 \/ backups["other"] = 1)
          BY <3>1, <3>2 DEF WellKept
        <4>2. turyaDb' = 1 \/ backups'["other"] = 1
          <5>1. CASE UNCHANGED <<turyaDb, backups>>
            BY <4>1, <5>1
          <5>2. CASE backups' = [backups EXCEPT ![opener[o].found] = turyaDb]
            <6>1. turyaDb = 1 => opener[o].found = "other"
              BY <2>3, <3>2, <4>1 DEF Opening!FoundAs
            <6>2. turyaDb # 1 => dbs[turyaDb].kind # "other" /\ opener[o].found # "other"
              BY <2>3, <3>1 DEF WellKept, Opening!FoundAs
            <6> QED BY <4>1, <5>2, <6>1, <6>2 DEF OpenInv, OpenTypeOK, Opening!Formats
          <5> QED BY <1>1, <5>1, <5>2
        <4> QED BY <3>1, <3>2, <4>1, <4>2 DEF WellKept
      <3>3. CASE dbs[i].kind # "other"
        BY <2>3, <3>1, <3>3 DEF WellKept
      <3> QED BY <3>2, <3>3
    <2>5. \A p \in Openers \ {o} : FarAsItSays(p)'
      BY <1>1, <2>1, <2>2, <2>3, OthersAreFar
    <2>6. FarAsItSays(o)'
      BY <1>2, <2>2 DEF FarAsItSays
    <2> QED BY <2>2, <2>4, <2>5, <2>6
  <1>5. HaveDbs'
    <2>1. opener'[o].at = "connect" /\ \A p \in Openers \ {o} : opener'[p] = opener[p]
      BY <1>2 DEF OpenInv, OpenTypeOK
    <2> QED BY <1>1, <2>1 DEF OpenInv, HaveDbs
  <1> QED BY <1>3, <1>4, <1>5 DEF OpenInv

LEMMA ConnectKeeps == ASSUME OpenInv, NEW o \in Openers, Opening!Connect(o) PROVE OpenInv'
  <1> DEFINE r == [opener[o] EXCEPT !.at = "header", !.db = turyaDb']
  <1>1. /\ opener[o].at = "connect" /\ Opening!Made /\ UNCHANGED <<backups, raced>>
        /\ opener' = [opener EXCEPT ![o].at = "header", ![o].db = turyaDb']
    BY DEF Opening!Connect, Opening!At
  <1>2. /\ dbs' \in Seq(DbType) /\ turyaDb' \in 1 .. Len(dbs')
        /\ \A i \in DOMAIN dbs : dbs'[i] = dbs[i]
        /\ turyaDb # 0 => dbs' = dbs /\ turyaDb' = turyaDb
        /\ turyaDb = 0 => /\ turyaDb' \notin DOMAIN dbs /\ DOMAIN dbs' = DOMAIN dbs \cup {turyaDb'}
                       /\ dbs'[turyaDb'] = Opening!Db("empty", FALSE)
    BY <1>1, MadeDbs DEF OpenInv
  <1>3. /\ r \in OpenerType /\ r.at = "header" /\ r.db = turyaDb'
        /\ opener' = [opener EXCEPT ![o] = r]
    <2>1. opener[o] \in OpenerType
      BY DEF OpenInv, OpenTypeOK
    <2>2. turyaDb' \in Nat
      BY <1>2
    <2> QED BY <1>1, <2>1, <2>2 DEF OpenInv, OpenTypeOK, OpenerType, StillOpening
  <1> HIDE DEF r
  <1>4. OpenTypeOK'
    <2>1. turyaDb' \in 0 .. Len(dbs')
      BY <1>2
    <2>2. opener' \in [Openers -> OpenerType]
      BY <1>3 DEF OpenInv, OpenTypeOK
    <2> QED BY <1>1, <1>2, <2>1, <2>2 DEF OpenInv, OpenTypeOK
  <1>5. ASSUME ~raced' PROVE OneOpening' /\ (\A i \in DOMAIN dbs' : WellKept(i)')
                             /\ \A p \in Openers : FarAsItSays(p)'
    <2>1. ~raced /\ Busy(o)
      BY <1>1, <1>5 DEF Busy, StillOpening
    <2>2. /\ opener'[o] = r /\ OneOpening'
          /\ \A p \in Openers \ {o} : opener'[p] = opener[p] /\ ~Busy(p)
      BY <1>1, <1>3, <2>1, GoingOn
    <2>3. ASSUME NEW i \in DOMAIN dbs' PROVE WellKept(i)'
      <3>1. CASE turyaDb # 0
        BY <1>1, <1>2, <2>1, <3>1 DEF OpenInv, WellKept
      <3>2. CASE turyaDb = 0 /\ i = turyaDb'
        BY <1>2, <3>2 DEF WellKept, Opening!Db
      <3>3. CASE turyaDb = 0 /\ i # turyaDb'
        <4>1. i \in DOMAIN dbs /\ dbs'[i] = dbs[i] /\ WellKept(i) /\ i # 0
          BY <1>2, <2>1, <3>3 DEF OpenInv, OpenTypeOK
        <4> QED BY <1>1, <3>3, <4>1 DEF WellKept
      <3> QED BY <3>1, <3>2, <3>3
    <2>4. \A p \in Openers \ {o} : FarAsItSays(p)'
      <3>1. DOMAIN dbs \subseteq DOMAIN dbs' /\ (turyaDb # 0 => turyaDb \in DOMAIN dbs)
        <4>1. turyaDb # 0 => turyaDb \in DOMAIN dbs
          BY DEF OpenInv, OpenTypeOK
        <4>2. DOMAIN dbs \subseteq DOMAIN dbs'
          BY <1>2, Zenon
        <4> QED BY <4>1, <4>2
      <3> QED BY <1>2, <2>1, <2>2, <3>1, OthersAreFar
    <2>5. FarAsItSays(o)'
      <3>1. dbs'[turyaDb'].kind \in Kinds /\ turyaDb' # 0
        <4>1. dbs'[turyaDb'] \in DbType
          BY <1>2
        <4> QED BY <1>2, <4>1 DEF DbType
      <3> QED BY <1>3, <2>2, <3>1 DEF FarAsItSays, InPlace
    <2> QED BY <2>2, <2>3, <2>4, <2>5
  <1>6. HaveDbs'
    <2>1. DOMAIN dbs \subseteq DOMAIN dbs'
      BY <1>1, MadeDbs, Zenon DEF OpenInv
    <2>2. opener'[o].db \in DOMAIN dbs' /\ \A p \in Openers \ {o} : opener'[p] = opener[p]
      BY <1>2, <1>3 DEF OpenInv, OpenTypeOK
    <2> QED BY <2>1, <2>2 DEF OpenInv, HaveDbs
  <1> QED BY <1>4, <1>5, <1>6 DEF OpenInv

OneFurther == {"tables", "tag", "open"}

(* init: the header, the tables and the tag each take a database that is    *)
(* not of another format one step on, and leave its place and its use.      *)
LEMMA OneStepOn ==
  ASSUME OpenInv, NEW o \in Openers, NEW d \in DbType, NEW at \in OneFurther,
         opener[o].at \in {"header", "tables", "tag"},
         UNCHANGED <<turyaDb, backups, raced>>,
         opener' = [opener EXCEPT ![o].at = at],
         dbs' = [dbs EXCEPT ![opener[o].db] = d],
         ~raced => /\ d.used = dbs[turyaDb].used
                   /\ (dbs[turyaDb].kind = "other") <=> (d.kind = "other")
                   /\ dbs[turyaDb].kind = "tagged" => d.kind = "tagged"
                   /\ at = "tables" => d.kind # "empty"
                   /\ at = "tag" => d.kind \notin {"empty", "header"}
                   /\ at = "open" => d.kind \in {"other", "tagged"}
  PROVE  OpenInv'
  <1> DEFINE r == [opener[o] EXCEPT !.at = at]
  <1>1. /\ r \in OpenerType /\ r.at = at /\ r.db = opener[o].db
        /\ opener' = [opener EXCEPT ![o] = r]
    <2>1. opener[o] \in OpenerType
      BY DEF OpenInv, OpenTypeOK
    <2> QED BY <2>1 DEF OpenInv, OpenTypeOK, OpenerType, StillOpening, OneFurther
  <1> HIDE DEF r
  <1>2. /\ dbs' \in Seq(DbType) /\ Len(dbs') = Len(dbs) /\ DOMAIN dbs' = DOMAIN dbs
        /\ \A j \in DOMAIN dbs : dbs'[j] = IF j = opener[o].db THEN d ELSE dbs[j]
    <2>1. opener[o].db \in 1 .. Len(dbs) /\ dbs \in Seq(DbType)
      BY DEF OpenInv, OpenTypeOK, HaveDbs
    <2> QED BY <2>1, OneDbChanges
  <1>3. OpenTypeOK'
    <2>1. turyaDb' \in 0 .. Len(dbs')
      BY <1>2 DEF OpenInv, OpenTypeOK
    <2>2. opener' \in [Openers -> OpenerType]
      BY <1>1 DEF OpenInv, OpenTypeOK
    <2> QED BY <1>2, <2>1, <2>2 DEF OpenInv, OpenTypeOK
  <1>4. ASSUME ~raced' PROVE OneOpening' /\ (\A i \in DOMAIN dbs' : WellKept(i)')
                             /\ \A p \in Openers : FarAsItSays(p)'
    <2>1. ~raced /\ Busy(o)
      BY <1>4 DEF Busy, StillOpening
    <2>2. /\ opener'[o] = r /\ OneOpening'
          /\ \A p \in Openers \ {o} : opener'[p] = opener[p] /\ ~Busy(p)
      BY <1>1, <2>1, GoingOn
    <2>3. opener[o].db = turyaDb /\ turyaDb # 0 /\ turyaDb \in DOMAIN dbs
      BY <2>1 DEF OpenInv, OpenTypeOK, FarAsItSays, InPlace
    <2>4. dbs'[turyaDb'] = d /\ turyaDb' = turyaDb /\ \A j \in DOMAIN dbs : j # turyaDb => dbs'[j] = dbs[j]
      BY <1>2, <2>3
    <2>5. ASSUME NEW i \in DOMAIN dbs' PROVE WellKept(i)'
      <3>1. WellKept(i) /\ i \in DOMAIN dbs
        BY <1>2, <2>1, <2>5 DEF OpenInv
      <3>2. CASE i = turyaDb
        BY <2>1, <2>3, <2>4, <3>1, <3>2 DEF WellKept
      <3>3. CASE i # turyaDb
        BY <2>4, <3>1, <3>3 DEF WellKept
      <3> QED BY <3>2, <3>3
    <2>6. \A p \in Openers \ {o} : FarAsItSays(p)'
      <3>1. \A i \in DOMAIN dbs : dbs[i].kind = "other" => dbs'[i].kind = "other"
        BY <2>1, <2>3, <2>4
      <3>2. turyaDb # 0 /\ dbs[turyaDb].kind = "tagged" => turyaDb' = turyaDb /\ dbs'[turyaDb].kind = "tagged"
        BY <2>1, <2>4
      <3> QED BY <1>2, <2>1, <2>2, <3>1, <3>2, OthersAreFar
    <2>7. FarAsItSays(o)'
      <3>1. opener'[o].at = at /\ opener'[o].db = turyaDb' /\ turyaDb' # 0
        BY <1>1, <2>2, <2>3, <2>4
      <3>2. d.kind \in Kinds /\ turyaDb' \in DOMAIN dbs'
        BY <1>2, <2>3, <2>4 DEF DbType
      <3> QED BY <2>1, <2>4, <3>1, <3>2 DEF FarAsItSays, InPlace, Kinds, OneFurther
    <2> QED BY <2>2, <2>5, <2>6, <2>7
  <1>5. HaveDbs'
    <2>1. opener'[o].db \in DOMAIN dbs /\ \A p \in Openers \ {o} : opener'[p] = opener[p]
      BY <1>1 DEF OpenInv, OpenTypeOK, HaveDbs
    <2> QED BY <1>2, <2>1 DEF OpenInv, HaveDbs
  <1> QED BY <1>3, <1>4, <1>5 DEF OpenInv

LEMMA InitKeeps ==
  ASSUME OpenInv, NEW o \in Openers, Opening!WriteHeader(o) \/ Opening!CreateTables(o) \/ Opening!WriteTag(o)
  PROVE  OpenInv'
  <1> DEFINE i == opener[o].db
             d == dbs[i]
  <1>1. ~raced => i = turyaDb /\ turyaDb # 0
    BY DEF OpenInv, FarAsItSays, InPlace, Opening!WriteHeader, Opening!CreateTables, Opening!WriteTag, Opening!At
  <1>2. i \in DOMAIN dbs
    BY DEF OpenInv, HaveDbs, Opening!WriteHeader, Opening!CreateTables, Opening!WriteTag, Opening!At
  <1>3. d \in DbType
    BY <1>2 DEF OpenInv, OpenTypeOK
  <1>4. CASE Opening!WriteHeader(o)
    <2> DEFINE e == [d EXCEPT !.kind = IF @ = "empty" THEN "header" ELSE @]
    <2>1. e \in DbType /\ e.used = d.used /\ e.kind = IF d.kind = "empty" THEN "header" ELSE d.kind
      BY <1>3 DEF DbType, Kinds
    <2>2. dbs' = [dbs EXCEPT ![i] = e]
      BY <1>2, <1>4 DEF Opening!WriteHeader, OpenInv, OpenTypeOK
    <2> HIDE DEF e
    <2>4. /\ opener[o].at \in {"header", "tables", "tag"} /\ UNCHANGED <<turyaDb, backups, raced>>
          /\ opener' = [opener EXCEPT ![o].at = "tables"]
          /\ dbs' = [dbs EXCEPT ![opener[o].db] = e]
      BY <1>4, <2>2 DEF Opening!WriteHeader, Opening!At, Opening!Goes
    <2>5. ~raced => /\ e.used = dbs[turyaDb].used /\ e.kind # "empty"
                    /\ (dbs[turyaDb].kind = "other") <=> (e.kind = "other")
                    /\ dbs[turyaDb].kind = "tagged" => e.kind = "tagged"
      BY <1>1, <2>1 DEF Kinds
    <2> HIDE DEF d, i
    <2>6. "tables" \in OneFurther
      BY DEF OneFurther
    <2> QED BY <2>1, <2>4, <2>5, <2>6, OneStepOn
  <1>5. CASE Opening!CreateTables(o)
    <2> DEFINE e == [d EXCEPT !.kind = IF @ = "header" THEN "tables" ELSE @]
    <2>1. e \in DbType /\ e.used = d.used /\ e.kind = IF d.kind = "header" THEN "tables" ELSE d.kind
      BY <1>3 DEF DbType, Kinds
    <2>2. dbs' = [dbs EXCEPT ![i] = e]
      BY <1>2, <1>5 DEF Opening!CreateTables, OpenInv, OpenTypeOK
    <2>3. ~raced => d.kind # "empty"
      BY <1>1, <1>5 DEF Opening!CreateTables, Opening!At, OpenInv, FarAsItSays, InPlace
    <2> HIDE DEF e
    <2>4. /\ opener[o].at \in {"header", "tables", "tag"} /\ UNCHANGED <<turyaDb, backups, raced>>
          /\ opener' = [opener EXCEPT ![o].at = "tag"]
          /\ dbs' = [dbs EXCEPT ![opener[o].db] = e]
      BY <1>5, <2>2 DEF Opening!CreateTables, Opening!At, Opening!Goes
    <2>5. ~raced => /\ e.used = dbs[turyaDb].used /\ e.kind \notin {"empty", "header"}
                    /\ (dbs[turyaDb].kind = "other") <=> (e.kind = "other")
                    /\ dbs[turyaDb].kind = "tagged" => e.kind = "tagged"
      BY <1>1, <2>1, <2>3 DEF Kinds
    <2> HIDE DEF d, i
    <2>6. "tag" \in OneFurther
      BY DEF OneFurther
    <2> QED BY <2>1, <2>4, <2>5, <2>6, OneStepOn
  <1>6. CASE Opening!WriteTag(o)
    <2> DEFINE e == [d EXCEPT !.kind = IF @ = "tables" THEN "tagged" ELSE @]
    <2>1. e \in DbType /\ e.used = d.used /\ e.kind = IF d.kind = "tables" THEN "tagged" ELSE d.kind
      BY <1>3 DEF DbType, Kinds
    <2>2. dbs' = [dbs EXCEPT ![i] = e]
      <3>1. Opening!Tagged(d) = e
        BY <1>3 DEF Opening!Tagged, DbType
      <3>2. dbs' = [dbs EXCEPT ![i] = Opening!Tagged(d)]
        BY <1>6 DEF Opening!WriteTag
      <3> HIDE DEF e, d
      <3> QED BY <3>1, <3>2
    <2>3. ~raced => d.kind \in Kinds \ {"empty", "header"}
      BY <1>1, <1>6 DEF Opening!WriteTag, Opening!At, OpenInv, FarAsItSays, InPlace
    <2> HIDE DEF e
    <2>4. /\ opener[o].at \in {"header", "tables", "tag"} /\ UNCHANGED <<turyaDb, backups, raced>>
          /\ opener' = [opener EXCEPT ![o].at = "open"]
          /\ dbs' = [dbs EXCEPT ![opener[o].db] = e]
      BY <1>6, <2>2 DEF Opening!WriteTag, Opening!At, Opening!Goes
    <2>5. ~raced => /\ e.used = dbs[turyaDb].used /\ e.kind \in {"other", "tagged"}
                    /\ (dbs[turyaDb].kind = "other") <=> (e.kind = "other")
                    /\ dbs[turyaDb].kind = "tagged" => e.kind = "tagged"
      BY <1>1, <2>1, <2>3 DEF Kinds
    <2> HIDE DEF d, i
    <2>6. "open" \in OneFurther
      BY DEF OneFurther
    <2> QED BY <2>1, <2>4, <2>5, <2>6, OneStepOn
  <1> QED BY <1>4, <1>5, <1>6

LEMMA UseStoreKeeps == ASSUME OpenInv, NEW o \in Openers, Opening!UseStore(o) PROVE OpenInv'
  <1> DEFINE i == opener[o].db
             d == [dbs[i] EXCEPT !.used = TRUE]
  <1>1. /\ opener[o].at = "open" /\ UNCHANGED <<turyaDb, backups, opener, raced>>
        /\ i \in DOMAIN dbs
    BY DEF Opening!UseStore, Opening!At, OpenInv, HaveDbs
  <1>2. dbs[i] \in DbType /\ d \in DbType /\ d.kind = dbs[i].kind /\ d.used
    <2>1. dbs[i] \in DbType
      BY <1>1 DEF OpenInv, OpenTypeOK
    <2>2. d \in DbType /\ d.kind = dbs[i].kind
      BY <2>1 DEF DbType
    <2>3. d.used = TRUE
      BY <2>1 DEF DbType
    <2> QED BY <2>1, <2>2, <2>3
  <1>3. dbs' = [dbs EXCEPT ![i] = d]
    BY <1>1 DEF Opening!UseStore, OpenInv, OpenTypeOK
  <1>4. /\ dbs' \in Seq(DbType) /\ Len(dbs') = Len(dbs) /\ DOMAIN dbs' = DOMAIN dbs
        /\ \A j \in DOMAIN dbs : dbs'[j] = IF j = i THEN d ELSE dbs[j]
    <2>1. dbs \in Seq(DbType) /\ i \in 1 .. Len(dbs)
      BY <1>1 DEF OpenInv, OpenTypeOK
    <2> HIDE DEF d, i
    <2> QED BY <1>2, <1>3, <2>1, OneDbChanges
  <1>5. \A j \in DOMAIN dbs : dbs'[j].kind = dbs[j].kind
    BY <1>2, <1>4
  <1>6. OpenTypeOK'
    <2>1. turyaDb' \in 0 .. Len(dbs')
      BY <1>1, <1>4 DEF OpenInv, OpenTypeOK
    <2> QED BY <1>1, <1>4, <2>1 DEF OpenInv, OpenTypeOK
  <1>7. ASSUME ~raced' PROVE OneOpening' /\ (\A j \in DOMAIN dbs' : WellKept(j)')
                             /\ \A p \in Openers : FarAsItSays(p)'
    <2>1. ~raced /\ FarAsItSays(o)
      BY <1>1, <1>7 DEF OpenInv
    <2>2. dbs[i].kind = "other" \/ (dbs[i].kind = "tagged" /\ i = turyaDb)
      BY <1>1, <2>1 DEF FarAsItSays, InPlace
    <2>3. ASSUME NEW j \in DOMAIN dbs' PROVE WellKept(j)'
      <3>1. WellKept(j) /\ j \in DOMAIN dbs /\ dbs'[j].kind = dbs[j].kind
        BY <1>4, <1>5, <2>1, <2>3 DEF OpenInv
      <3>2. j # i => dbs'[j] = dbs[j]
        BY <1>4, <3>1
      <3> QED BY <1>1, <2>2, <3>1, <3>2 DEF WellKept
    <2>4. ASSUME NEW p \in Openers PROVE FarAsItSays(p)'
      <3>1. turyaDb # 0 => turyaDb \in DOMAIN dbs
        BY DEF OpenInv, OpenTypeOK
      <3>2. turyaDb # 0 => dbs'[turyaDb].kind = dbs[turyaDb].kind
        BY <1>5, <3>1
      <3>3. opener[p].at \in {"probe", "aside", "header", "tables", "tag"} => turyaDb # 0
        BY <2>1, <2>4 DEF OpenInv, FarAsItSays, InPlace
      <3>4. FarAsItSays(p)
        BY <2>1 DEF OpenInv
      <3> QED BY <1>1, <1>4, <1>5, <3>2, <3>3, <3>4 DEF FarAsItSays, InPlace
    <2>5. OneOpening'
      BY <1>1, <2>1 DEF OpenInv, OneOpening, Busy
    <2> QED BY <2>3, <2>4, <2>5
  <1>8. HaveDbs'
    BY <1>1, <1>4 DEF OpenInv, HaveDbs
  <1> QED BY <1>6, <1>7, <1>8 DEF OpenInv

LEMMA LeaveKeeps == ASSUME OpenInv, NEW o \in Openers, Opening!Leave(o) PROVE OpenInv'
  <1>1. opener' = [opener EXCEPT ![o] = Opening!Closed] /\ UNCHANGED <<dbs, turyaDb, backups, raced>>
    BY DEF Opening!Leave
  <1>2. Opening!Closed \in OpenerType /\ Opening!Closed.at = "closed"
    BY DEF Opening!Closed, OpenerType
  <1>3. /\ opener' \in [Openers -> OpenerType] /\ opener'[o] = Opening!Closed
        /\ \A p \in Openers \ {o} : opener'[p] = opener[p]
    BY <1>1, <1>2 DEF OpenInv, OpenTypeOK
  <1>4. OpenTypeOK'
    BY <1>1, <1>3 DEF OpenInv, OpenTypeOK
  <1>5. HaveDbs'
    BY <1>1, <1>2, <1>3 DEF OpenInv, HaveDbs
  <1>6. ~raced' => OneOpening'
    BY <1>1, <1>2, <1>3 DEF OpenInv, OneOpening, Busy, StillOpening
  <1>7. ~raced' => \A i \in DOMAIN dbs' : WellKept(i)'
    BY <1>1 DEF OpenInv, WellKept
  <1>8. ~raced' => \A p \in Openers : FarAsItSays(p)'
    BY <1>1, <1>2, <1>3 DEF OpenInv, FarAsItSays, InPlace
  <1> QED BY <1>4, <1>5, <1>6, <1>7, <1>8 DEF OpenInv

LEMMA OpenInvStep == ASSUME OpenInv, [Opening!Next]_mcOpeningVars PROVE OpenInv'
  <1>1. CASE UNCHANGED mcOpeningVars
    BY <1>1 DEF mcOpeningVars, OpenInv, OpenTypeOK, HaveDbs, OneOpening, Busy, WellKept, FarAsItSays,
                InPlace
  <1>2. ASSUME NEW o \in Openers, Opening!Step(o) PROVE OpenInv'
    BY <1>2, LookKeeps, ProbeKeeps, AsideKeeps, ConnectKeeps, InitKeeps, UseStoreKeeps,
       LeaveKeeps DEF Opening!Step
  <1> QED BY <1>1, <1>2 DEF Opening!Next

(* Sessions stay where the program finds them, and a foreign database stays *)
(* in place or in its backup, for any number of opens, wherever earlier     *)
(* ones died, as long as no two overlap and the store is at first missing,  *)
(* tagged or of another format (open, init).                                *)
THEOREM SessionsAreKept ==
  ASSUME Starts \subseteq {"none", "other", "tagged"} PROVE MCSpec => []SessionsStay
  <1>1. MCInit => OpenInv
    BY OpenInvInit DEF MCInit
  <1>2. OpenInv /\ [MCNext]_<<focus, services, fileVars>> => OpenInv'
    BY OpenInvStep DEF MCNext, services, fileVars
  <1>3. OpenInv => SessionsStay
    BY DEF SessionsStay, OpenInv, OpenTypeOK, Opening!SessionsStay, Opening!Kept, WellKept, Opening!Foreign, Opening!Formats
  <1> QED BY <1>1, <1>2, <1>3, PTL DEF MCSpec

-----------------------------------------------------------------------------
(* The credential stores.                                                   *)

Entries == [Accounts -> Secrets \cup {Credentials!None}]
AtWork == {"keychain", "load", "cut", "write", "wrote"}
OpType == [do : {"none", "set", "delete"}, at : {"idle"} \cup AtWork, account : Accounts \cup {Credentials!None},
           secret : Secrets \cup {Credentials!None}, map : Entries, bad : BOOLEAN]

CredTypeOK ==
    /\ keychain \in Entries /\ store \in Entries /\ promised \in Entries
    /\ op \in [Writers -> OpType]
    /\ whole \in BOOLEAN /\ cut \in BOOLEAN

\* What an operation under way relies on: nothing is promised of its account,
\* a logout writes nothing, and its backends are already empty.
Working(o) ==
    o.at \in AtWork =>
        /\ o.account \in Accounts /\ o.do \in {"set", "delete"}
        /\ promised[o.account] = Credentials!None
        /\ o.do = "set" => o.account \notin forgotten
        /\ o.do = "delete" => o.secret = Credentials!None
        /\ o.do = "delete" /\ o.at # "keychain" /\ ~o.bad => keychain[o.account] = Credentials!None
        /\ o.do = "delete" /\ o.at = "wrote" => store[o.account] = Credentials!None
        /\ o.do = "delete" /\ o.at \in {"cut", "write"} => o.map[o.account] = Credentials!None

\* The map in hand forgets what was forgotten and keeps what was promised.
MapInHand(o) ==
    o.at \in {"cut", "write"} =>
        /\ \A a \in forgotten : o.map[a] = Credentials!None
        /\ ~cut => \A a \in Accounts : promised[a] # Credentials!None => promised[a] \in {keychain[a], o.map[a]}

\* Only a write that is under way or was cut short leaves the file incomplete.
FileIsWhole(o) == ~cut /\ ~whole => o.at = "write"

Orderly == \A p \in Writers : Working(op[p]) /\ MapInHand(op[p]) /\ FileIsWhole(op[p])

CredInv ==
    /\ CredTypeOK /\ Credentials!LogoutForgets /\ Credentials!OkMeansKept
    /\ forgotten \subseteq Accounts
    /\ Orderly

LEMMA EmptyType == Credentials!Empty \in Entries /\ \A a \in Accounts : Credentials!Empty[a] = Credentials!None
  BY DEF Credentials!Empty, Entries

LEMMA FreeType == Credentials!Free \in OpType /\ Credentials!Free.at = "idle"
  BY EmptyType DEF Credentials!Free, OpType

LEMMA CredInvInit == Credentials!Init => CredInv
  BY EmptyType, FreeType
  DEF Credentials!Init, CredInv, CredTypeOK, Credentials!LogoutForgets, Credentials!OkMeansKept, Orderly, Working, MapInHand,
      FileIsWhole, AtWork

\* One process uses the stores.
OneProcess == \A p, q \in Writers : p = q

(* A step of the one process that leaves it with the operation r.           *)
LEMMA OneOp ==
  ASSUME OneProcess, CredInv, NEW p \in Writers, NEW r \in OpType, op' = [op EXCEPT ![p] = r],
         Working(r)', MapInHand(r)', FileIsWhole(r)'
  PROVE  op' \in [Writers -> OpType] /\ Orderly'
  <1>1. op' \in [Writers -> OpType] /\ op'[p] = r
    BY DEF CredInv, CredTypeOK
  <1>2. \A q \in Writers : op'[q] = r
    BY <1>1 DEF OneProcess
  <1> QED BY <1>1, <1>2 DEF Orderly, Working, MapInHand, FileIsWhole

LEMMA StartKeeps ==
  ASSUME OneProcess, CredInv, NEW p \in Writers, Credentials!StartSet(p) \/ Credentials!StartDelete(p)
  PROVE  CredInv'
  <1>1. op[p].at = "idle" /\ UNCHANGED <<mood, weather, keychain, store, whole, cut>>
    BY DEF Credentials!StartSet, Credentials!StartDelete
  <1>2. PICK a \in Accounts, r \in OpType :
            /\ op' = [op EXCEPT ![p] = r] /\ promised' = [promised EXCEPT ![a] = Credentials!None]
            /\ r.at = "keychain" /\ r.account = a
            /\ \/ r.do = "set" /\ forgotten' = forgotten \ {a}
               \/ r.do = "delete" /\ r.secret = Credentials!None /\ forgotten' = forgotten
    <2>1. CASE Credentials!StartSet(p)
      <3>1. PICK a \in Accounts, s \in Secrets :
                /\ op' = [op EXCEPT ![p] = [Credentials!Free EXCEPT !.do = "set", !.at = "keychain",
                                                        !.account = a, !.secret = s]]
                /\ forgotten' = forgotten \ {a} /\ promised' = [promised EXCEPT ![a] = Credentials!None]
        BY <2>1 DEF Credentials!StartSet
      <3> DEFINE r == [Credentials!Free EXCEPT !.do = "set", !.at = "keychain", !.account = a, !.secret = s]
      <3>2. r \in OpType /\ r.at = "keychain" /\ r.account = a /\ r.do = "set"
        BY FreeType DEF OpType, AtWork
      <3> HIDE DEF r
      <3> QED BY <3>1, <3>2 DEF r
    <2>2. CASE Credentials!StartDelete(p)
      <3>1. PICK a \in Accounts :
                /\ op' = [op EXCEPT ![p] = [Credentials!Free EXCEPT !.do = "delete", !.at = "keychain",
                                                        !.account = a]]
                /\ promised' = [promised EXCEPT ![a] = Credentials!None]
        BY <2>2 DEF Credentials!StartDelete
      <3> DEFINE r == [Credentials!Free EXCEPT !.do = "delete", !.at = "keychain", !.account = a]
      <3>2. /\ r \in OpType /\ r.at = "keychain" /\ r.account = a /\ r.do = "delete"
            /\ r.secret = Credentials!None
        BY FreeType DEF OpType, AtWork, Credentials!Free
      <3>3. forgotten' = forgotten
        BY <2>2 DEF Credentials!StartDelete
      <3> HIDE DEF r
      <3> QED BY <3>1, <3>2, <3>3 DEF r
    <2> QED BY <2>1, <2>2
  <1>3. /\ promised' \in Entries /\ promised'[a] = Credentials!None
        /\ \A b \in Accounts : promised'[b] # Credentials!None => promised'[b] = promised[b]
    BY <1>2 DEF CredInv, CredTypeOK, Entries
  <1>4. ~cut => whole
    BY <1>1 DEF CredInv, Orderly, FileIsWhole
  <1>5. Working(r)' /\ MapInHand(r)' /\ FileIsWhole(r)'
    BY <1>1, <1>2, <1>3, <1>4 DEF Working, MapInHand, FileIsWhole
  <1>6. op' \in [Writers -> OpType] /\ Orderly'
    BY <1>2, <1>5, OneOp
  <1>7. Credentials!LogoutForgets' /\ forgotten' \subseteq Accounts
    BY <1>1, <1>2 DEF CredInv, Credentials!LogoutForgets
  <1>8. Credentials!OkMeansKept'
    BY <1>1, <1>3 DEF CredInv, Credentials!OkMeansKept
  <1> QED BY <1>1, <1>3, <1>6, <1>7, <1>8 DEF CredInv, CredTypeOK

(* An operation that ends leaves a whole file, unless it cut it short.      *)
LEMMA EndKeeps ==
  ASSUME OneProcess, CredInv, NEW p \in Writers, Credentials!Returns(p), ~cut' => whole'
  PROVE  op' \in [Writers -> OpType] /\ Orderly'
  <1>1. Working(Credentials!Free)' /\ MapInHand(Credentials!Free)' /\ FileIsWhole(Credentials!Free)'
    BY FreeType DEF Working, MapInHand, FileIsWhole, AtWork
  <1> QED BY <1>1, FreeType, OneOp DEF Credentials!Returns

LEMMA SetKeychainKeeps ==
  ASSUME OneProcess, CredInv, NEW p \in Writers, Credentials!SetKeychain(p) PROVE CredInv'
  <1> DEFINE a == op[p].account
             s == op[p].secret
  <1>1. /\ Credentials!At(p, "set", "keychain") /\ mood = "works" /\ Credentials!Returns(p)
        /\ keychain' = [keychain EXCEPT ![a] = s] /\ promised' = [promised EXCEPT ![a] = s]
        /\ UNCHANGED <<store, whole, forgotten, cut>>
    BY DEF Credentials!SetKeychain, Credentials!ReadsBack
  <1>2. a \in Accounts /\ a \notin forgotten /\ s \in Secrets \cup {Credentials!None} /\ (~cut => whole)
    BY <1>1 DEF Credentials!At, AtWork, CredInv, CredTypeOK, Orderly, Working, FileIsWhole, OpType
  <1>3. op' \in [Writers -> OpType] /\ Orderly'
    BY <1>1, <1>2, EndKeeps
  <1>4. keychain' \in Entries /\ promised' \in Entries
    BY <1>1, <1>2 DEF CredInv, CredTypeOK, Entries
  <1>5. Credentials!LogoutForgets'
    BY <1>1, <1>2 DEF CredInv, CredTypeOK, Entries, Credentials!LogoutForgets
  <1>6. Credentials!OkMeansKept'
    BY <1>1, <1>2 DEF CredInv, CredTypeOK, Entries, Credentials!OkMeansKept
  <1> QED BY <1>1, <1>3, <1>4, <1>5, <1>6 DEF CredInv, CredTypeOK

LEMMA DeleteKeychainKeeps ==
  ASSUME OneProcess, CredInv, NEW p \in Writers, Credentials!DeleteKeychain(p) PROVE CredInv'
  <1> DEFINE a == op[p].account
  <1>1. /\ Credentials!At(p, "delete", "keychain") /\ UNCHANGED <<store, whole, forgotten, promised, cut>>
        /\ op' = [op EXCEPT ![p].bad = mood # "works", ![p].at = "load"]
        /\ keychain' = IF mood = "works" THEN [keychain EXCEPT ![a] = Credentials!None] ELSE keychain
    BY DEF Credentials!DeleteKeychain, Credentials!NextBackend
  <1>2. op[p] \in OpType /\ a \in Accounts /\ promised[a] = Credentials!None /\ op[p].secret = Credentials!None /\ (~cut => whole)
    BY <1>1 DEF Credentials!At, AtWork, CredInv, CredTypeOK, Orderly, Working, FileIsWhole
  <1>3. PICK r \in OpType :
            /\ r.at = "load" /\ r.do = "delete" /\ r.account = a /\ r.secret = Credentials!None
            /\ ~r.bad => mood = "works"
            /\ op' = [op EXCEPT ![p] = r]
    <2> DEFINE next == [op[p] EXCEPT !.bad = mood # "works", !.at = "load"]
    <2>1. (mood # "works") \in BOOLEAN
      OBVIOUS
    <2>2. /\ next \in OpType /\ next.at = "load" /\ next.do = "delete" /\ next.account = a
          /\ next.secret = Credentials!None /\ (~next.bad => mood = "works") /\ op' = [op EXCEPT ![p] = next]
      BY <1>1, <1>2, <2>1 DEF Credentials!At, OpType, AtWork, CredInv, CredTypeOK
    <2> QED BY <2>2
  <1>4. /\ keychain' \in Entries
        /\ mood = "works" => keychain'[a] = Credentials!None
        /\ \A b \in Accounts \ {a} : keychain'[b] = keychain[b]
        /\ \A b \in Accounts : keychain[b] = Credentials!None => keychain'[b] = Credentials!None
    BY <1>1, <1>2 DEF CredInv, CredTypeOK, Entries
  <1>5. Working(r)' /\ MapInHand(r)' /\ FileIsWhole(r)'
    BY <1>1, <1>2, <1>3, <1>4 DEF Working, MapInHand, FileIsWhole
  <1>6. op' \in [Writers -> OpType] /\ Orderly'
    BY <1>3, <1>5, OneOp
  <1>7. Credentials!LogoutForgets' /\ Credentials!OkMeansKept'
    BY <1>1, <1>2, <1>4 DEF CredInv, Credentials!LogoutForgets, Credentials!OkMeansKept
  <1> QED BY <1>1, <1>4, <1>6, <1>7 DEF CredInv, CredTypeOK

(* A step that changes no entry and goes on with the operation.             *)
LEMMA GoingOnKeeps ==
  ASSUME OneProcess, CredInv, NEW p \in Writers, NEW r \in OpType,
         op' = [op EXCEPT ![p] = r], UNCHANGED <<keychain, store, whole, forgotten, promised, cut>>,
         Working(r)', MapInHand(r)', FileIsWhole(r)'
  PROVE  CredInv'
  <1>1. op' \in [Writers -> OpType] /\ Orderly'
    BY OneOp
  <1> QED BY <1>1 DEF CredInv, CredTypeOK, Credentials!LogoutForgets, Credentials!OkMeansKept

LEMMA SkipKeychainKeeps ==
  ASSUME OneProcess, CredInv, NEW p \in Writers, Credentials!SkipKeychain(p) PROVE CredInv'
  <1>1. /\ Credentials!At(p, "set", "keychain") /\ op' = [op EXCEPT ![p].at = "load"]
        /\ UNCHANGED <<keychain, store, whole, forgotten, promised, cut>>
    BY DEF Credentials!SkipKeychain, Credentials!Moves
  <1>2. op[p] \in OpType /\ Working(op[p]) /\ FileIsWhole(op[p])
    BY DEF CredInv, CredTypeOK, Orderly
  <1>3. PICK r \in OpType :
            /\ r.at = "load" /\ r.do = "set" /\ r.account = op[p].account
            /\ op' = [op EXCEPT ![p] = r]
    <2> DEFINE next == [op[p] EXCEPT !.at = "load"]
    <2>1. /\ next \in OpType /\ next.at = "load" /\ next.do = "set" /\ next.account = op[p].account
          /\ op' = [op EXCEPT ![p] = next]
      BY <1>1, <1>2 DEF Credentials!At, OpType, AtWork, CredInv, CredTypeOK
    <2> QED BY <2>1
  <1>4. Working(r)' /\ MapInHand(r)' /\ FileIsWhole(r)'
    BY <1>1, <1>2, <1>3 DEF Credentials!At, Working, MapInHand, FileIsWhole, AtWork
  <1> QED BY <1>1, <1>3, <1>4, GoingOnKeeps

LEMMA LoadFileKeeps ==
  ASSUME OneProcess, CredInv, NEW p \in Writers, Credentials!LoadFile(p) PROVE CredInv'
  <1> DEFINE a == op[p].account
             m == [Credentials!LoadMap EXCEPT ![a] = op[p].secret]
  <1>1. /\ op[p].at = "load" /\ op' = [op EXCEPT ![p].at = "cut", ![p].map = m]
        /\ UNCHANGED <<keychain, store, whole, forgotten, promised, cut>>
    BY DEF Credentials!LoadFile
  <1>2. op[p] \in OpType /\ Working(op[p]) /\ FileIsWhole(op[p])
    BY DEF CredInv, CredTypeOK, Orderly
  <1>3. Credentials!LoadMap \in Entries /\ (whole => Credentials!LoadMap = store) /\ (~whole => Credentials!LoadMap = Credentials!Empty)
    BY EmptyType DEF Credentials!LoadMap, CredInv, CredTypeOK
  <1>4. /\ a \in Accounts /\ op[p].secret \in Secrets \cup {Credentials!None} /\ m \in Entries
        /\ m[a] = op[p].secret /\ \A b \in Accounts \ {a} : m[b] = Credentials!LoadMap[b]
    <2>1. a \in Accounts /\ op[p].secret \in Secrets \cup {Credentials!None}
      BY <1>1, <1>2 DEF Working, OpType, AtWork
    <2> QED BY <1>3, <2>1 DEF Entries
  <1> HIDE DEF m
  <1>5. PICK r \in OpType :
            /\ r.at = "cut" /\ r.do = op[p].do /\ r.account = a
            /\ r.secret = op[p].secret /\ r.map = m /\ r.bad = op[p].bad
            /\ op' = [op EXCEPT ![p] = r]
    <2> DEFINE next == [op[p] EXCEPT !.at = "cut", !.map = m]
    <2>1. /\ next \in OpType /\ next.at = "cut" /\ next.do = op[p].do /\ next.account = a
          /\ next.secret = op[p].secret /\ next.map = m /\ next.bad = op[p].bad
          /\ op' = [op EXCEPT ![p] = next]
      BY <1>1, <1>2, <1>4 DEF OpType, AtWork, CredInv, CredTypeOK
    <2> QED BY <2>1
  <1>6. \A b \in forgotten : m[b] = Credentials!None
    <2>1. \A b \in forgotten \ {a} : m[b] = Credentials!None
      BY <1>3, <1>4, EmptyType DEF CredInv, Credentials!LogoutForgets
    <2>2. a \in forgotten => m[a] = Credentials!None
      BY <1>1, <1>2, <1>4 DEF Working, AtWork
    <2> QED BY <2>1, <2>2
  <1>7. ~cut => \A b \in Accounts : promised[b] # Credentials!None => promised[b] \in {keychain[b], m[b]}
    <2>1. promised[a] = Credentials!None /\ (~cut => whole)
      BY <1>1, <1>2 DEF Working, FileIsWhole, AtWork
    <2> QED BY <1>3, <1>4, <2>1 DEF CredInv, Credentials!OkMeansKept
  <1>8. Working(r)' /\ MapInHand(r)' /\ FileIsWhole(r)'
    BY <1>1, <1>2, <1>4, <1>5, <1>6, <1>7 DEF Working, MapInHand, FileIsWhole, AtWork
  <1> QED BY <1>1, <1>5, <1>8, GoingOnKeeps

LEMMA CutFileKeeps ==
  ASSUME OneProcess, CredInv, NEW p \in Writers, Credentials!CutFile(p) PROVE CredInv'
  <1>1. /\ op[p].at = "cut" /\ op' = [op EXCEPT ![p].at = "write"] /\ store' = Credentials!Empty /\ whole' = FALSE
        /\ UNCHANGED <<keychain, forgotten, promised, cut>>
    BY DEF Credentials!CutFile, Credentials!Moves
  <1>2. op[p] \in OpType /\ Working(op[p]) /\ MapInHand(op[p])
    BY DEF CredInv, CredTypeOK, Orderly
  <1>3. PICK r \in OpType :
            /\ r.at = "write" /\ r.do = op[p].do /\ r.account = op[p].account
            /\ r.secret = op[p].secret /\ r.map = op[p].map /\ r.bad = op[p].bad
            /\ op' = [op EXCEPT ![p] = r]
    <2> DEFINE next == [op[p] EXCEPT !.at = "write"]
    <2>1. /\ next \in OpType /\ next.at = "write" /\ next.do = op[p].do
          /\ next.account = op[p].account /\ next.secret = op[p].secret
          /\ next.map = op[p].map /\ next.bad = op[p].bad /\ op' = [op EXCEPT ![p] = next]
      BY <1>1, <1>2 DEF OpType, AtWork, CredInv, CredTypeOK
    <2> QED BY <2>1
  <1>4. Working(r)' /\ MapInHand(r)' /\ FileIsWhole(r)'
    BY <1>1, <1>2, <1>3 DEF Working, MapInHand, FileIsWhole, AtWork
  <1>5. op' \in [Writers -> OpType] /\ Orderly'
    BY <1>3, <1>4, OneOp
  <1>6. Credentials!LogoutForgets' /\ Credentials!OkMeansKept'
    BY <1>1, EmptyType DEF CredInv, Credentials!LogoutForgets, Credentials!OkMeansKept
  <1> QED BY <1>1, <1>5, <1>6, EmptyType DEF CredInv, CredTypeOK

LEMMA WriteFileKeeps ==
  ASSUME OneProcess, CredInv, NEW p \in Writers, Credentials!WriteFile(p) PROVE CredInv'
  <1>1. /\ op[p].at = "write" /\ op' = [op EXCEPT ![p].at = "wrote"]
        /\ store' = op[p].map /\ whole' = TRUE
        /\ UNCHANGED <<keychain, forgotten, promised, cut>>
    BY DEF Credentials!WriteFile, Credentials!Moves
  <1>2. op[p] \in OpType /\ Working(op[p]) /\ MapInHand(op[p])
    BY DEF CredInv, CredTypeOK, Orderly
  <1>3. PICK r \in OpType :
            /\ r.at = "wrote" /\ r.do = op[p].do /\ r.account = op[p].account
            /\ r.secret = op[p].secret /\ r.bad = op[p].bad
            /\ op' = [op EXCEPT ![p] = r]
    <2> DEFINE next == [op[p] EXCEPT !.at = "wrote"]
    <2>1. /\ next \in OpType /\ next.at = "wrote" /\ next.do = op[p].do
          /\ next.account = op[p].account /\ next.secret = op[p].secret
          /\ next.bad = op[p].bad /\ op' = [op EXCEPT ![p] = next]
      BY <1>1, <1>2 DEF OpType, AtWork, CredInv, CredTypeOK
    <2> QED BY <2>1
  <1>4. Working(r)' /\ MapInHand(r)' /\ FileIsWhole(r)'
    BY <1>1, <1>2, <1>3 DEF Working, MapInHand, FileIsWhole, AtWork
  <1>5. op' \in [Writers -> OpType] /\ Orderly'
    BY <1>3, <1>4, OneOp
  <1>6. store' \in Entries
    BY <1>1, <1>2 DEF OpType
  <1>7. Credentials!LogoutForgets' /\ Credentials!OkMeansKept'
    BY <1>1, <1>2 DEF CredInv, Credentials!LogoutForgets, Credentials!OkMeansKept, MapInHand
  <1> QED BY <1>1, <1>5, <1>6, <1>7 DEF CredInv, CredTypeOK

LEMMA FileEndsKeep ==
  ASSUME OneProcess, CredInv, NEW p \in Writers, Credentials!FileFails(p) \/ Credentials!Crash(p) PROVE CredInv'
  <1>1. /\ Credentials!Returns(p) /\ cut' = (cut \/ op[p].at = "write")
        /\ UNCHANGED <<keychain, store, whole, forgotten>>
        /\ op[p].at # "idle"
    BY DEF Credentials!FileFails, Credentials!Crash, Credentials!Returns
  <1>2. op[p] \in OpType /\ Working(op[p]) /\ FileIsWhole(op[p])
    BY DEF CredInv, CredTypeOK, Orderly
  <1>3. op' \in [Writers -> OpType] /\ Orderly'
    BY <1>1, <1>2, EndKeeps DEF FileIsWhole, CredInv, CredTypeOK
  <1>4. promised' = promised
    <2>1. op[p].account \in Accounts /\ promised[op[p].account] = Credentials!None
      BY <1>1, <1>2 DEF Working, OpType
    <2>2. [promised EXCEPT ![op[p].account] = Credentials!None] = promised
      BY <2>1 DEF CredInv, CredTypeOK, Entries
    <2> QED BY <2>2 DEF Credentials!FileFails, Credentials!Crash
  <1>5. cut' \in BOOLEAN /\ (~cut' => ~cut)
    BY <1>1
  <1> QED BY <1>1, <1>3, <1>4, <1>5 DEF CredInv, CredTypeOK, Credentials!LogoutForgets, Credentials!OkMeansKept

LEMMA ReturnsKeep ==
  ASSUME OneProcess, CredInv, NEW p \in Writers, Credentials!SetReturns(p) \/ Credentials!DeleteReturns(p)
  PROVE  CredInv'
  <1> DEFINE a == op[p].account
  <1>1. Credentials!Returns(p) /\ op[p].at = "wrote" /\ UNCHANGED <<keychain, store, whole, cut>>
    BY DEF Credentials!SetReturns, Credentials!DeleteReturns, Credentials!At
  <1>2. op[p] \in OpType /\ Working(op[p]) /\ (~cut => whole)
    BY <1>1 DEF CredInv, CredTypeOK, Orderly, FileIsWhole
  <1>3. a \in Accounts /\ op[p].secret \in Secrets \cup {Credentials!None}
    BY <1>1, <1>2 DEF Working, OpType, AtWork
  <1>4. op' \in [Writers -> OpType] /\ Orderly'
    BY <1>1, <1>2, EndKeeps
  <1>5. CASE Credentials!SetReturns(p)
    <2>1. forgotten' = forgotten
      BY <1>5 DEF Credentials!SetReturns
    <2>2. \/ promised' = promised
          \/ promised' = [promised EXCEPT ![a] = op[p].secret] /\ Credentials!LoadMap[a] = op[p].secret
      BY <1>5 DEF Credentials!SetReturns
    <2>3. promised' \in Entries
      BY <1>3, <2>2 DEF CredInv, CredTypeOK, Entries
    <2>4. Credentials!OkMeansKept'
      BY <1>1, <1>3, <2>2 DEF CredInv, CredTypeOK, Entries, Credentials!OkMeansKept, Credentials!LoadMap
    <2> QED BY <1>1, <1>4, <2>1, <2>3, <2>4 DEF CredInv, CredTypeOK, Credentials!LogoutForgets
  <1>6. CASE Credentials!DeleteReturns(p)
    <2>1. /\ promised' = promised /\ op[p].do = "delete"
          /\ forgotten' = IF op[p].bad THEN forgotten ELSE forgotten \cup {a}
      BY <1>6 DEF Credentials!DeleteReturns, Credentials!At
    <2>2. ~op[p].bad => keychain[a] = Credentials!None /\ store[a] = Credentials!None
      BY <1>1, <1>2, <2>1 DEF Working, AtWork
    <2>3. Credentials!LogoutForgets' /\ forgotten' \subseteq Accounts
      BY <1>1, <1>3, <2>1, <2>2 DEF CredInv, Credentials!LogoutForgets
    <2> QED BY <1>1, <1>4, <2>1, <2>3 DEF CredInv, CredTypeOK, Credentials!OkMeansKept
  <1> QED BY <1>5, <1>6

LEMMA CredInvStep == ASSUME OneProcess, CredInv, [Credentials!Next]_mcCredVars PROVE CredInv'
  <1>1. CASE Credentials!KeychainChanges \/ UNCHANGED mcCredVars
    BY <1>1 DEF Credentials!KeychainChanges, mcCredVars, CredInv, CredTypeOK, Credentials!LogoutForgets, Credentials!OkMeansKept, Orderly,
                Working, MapInHand, FileIsWhole
  <1>2. ASSUME NEW p \in Writers, Credentials!Step(p) PROVE CredInv'
    BY <1>2, StartKeeps, SetKeychainKeeps, SkipKeychainKeeps, DeleteKeychainKeeps, LoadFileKeeps,
       CutFileKeeps, WriteFileKeeps, FileEndsKeep, ReturnsKeep DEF Credentials!Step, Credentials!FileStep
  <1> QED BY <1>1, <1>2 DEF Credentials!Next

(* As long as one process uses the stores, a logout that reached the        *)
(* keychain and reported success leaves the secret in no backend, and one   *)
(* that a backend accepted is in one of them until it is replaced, removed, *)
(* or a write of the file is cut short (ChainStore::set and delete).        *)
THEOREM TheChainKeepsItsWord ==
  ASSUME OneProcess PROVE MCSpec => []StoresKeepTheirWord
  <1>1. CredInv => StoresKeepTheirWord
    BY DEF StoresKeepTheirWord, CredInv, Credentials!StoresKeepTheirWord
  <1>2. MCInit => CredInv
    BY CredInvInit DEF MCInit
  <1>3. CredInv /\ [MCNext]_<<focus, services, fileVars>> => CredInv'
    BY CredInvStep DEF MCNext, services, fileVars
  <1> QED BY <1>1, <1>2, <1>3, PTL DEF MCSpec

-----------------------------------------------------------------------------
(* The listing of the models.                                               *)

Listable == UNION {StaticLists[p] \cup LiveLists[p] : p \in Providers}
ModelLists == [Providers -> SUBSET Listable]
JobType == [at : {"idle", "gate", "live", "load", "done"}, todo : SUBSET Providers,
            provider : Providers \cup {Listing!NoProvider}, live : BOOLEAN, authed : BOOLEAN,
            meta : BOOLEAN, ids : SUBSET Listable]

CatTypeOK ==
    /\ cache \in ModelLists /\ rows \in ModelLists /\ offered \in ModelLists
    /\ job \in JobType
    /\ job.at \in {"live", "load"} => job.provider \in Providers

\* A cache that is not empty holds the catalog's list: what is written is merged
\* with it.  A listing of a locked provider, which shows that list whatever is
\* cached, therefore shows models that are accepted once any were cached.
CacheHoldsStatic == \A p \in Providers : cache[p] = {} \/ StaticLists[p] \subseteq cache[p]

\* What a listing has collected so far is accepted already.
RowsAreAccepted ==
    \A p \in Providers :
        \/ rows[p] \subseteq Listing!Accepted(p)
        \/ p \in unwritten
        \/ cache[p] = {} /\ rows[p] \subseteq StaticLists[p]

CatInv ==
    /\ CatTypeOK /\ CacheHoldsStatic /\ RowsAreAccepted
    /\ Listing!KnownIsAccepted /\ Listing!LockedIsSilent

LEMMA EmptyLists == Listing!Nothing \in ModelLists /\ \A p \in Providers : Listing!Nothing[p] = {}
  BY DEF Listing!Nothing, ModelLists

LEMMA IdleType == Listing!Idle \in JobType /\ Listing!Idle.at = "idle"
  BY DEF Listing!Idle, JobType

LEMMA StaticModels == \A p \in Providers : StaticLists[p] \subseteq Listable /\ LiveLists[p] \subseteq Listable
  BY DEF Listable

LEMMA CatInvInit == Listing!Init => CatInv
  BY EmptyLists, IdleType
  DEF Listing!Init, CatInv, CatTypeOK, CacheHoldsStatic, RowsAreAccepted, Listing!KnownIsAccepted,
      Listing!LockedIsSilent, Listing!Accepted, Listing!NoOne, Listing!NoProvider

(* A provider's row is set to models that are accepted from then on, or to  *)
(* the catalog's as long as none were cached; the rows of the others stand. *)
LEMMA RowIsSet ==
  ASSUME CatInv, NEW p \in Providers, NEW models \in SUBSET Listable,
         rows' = [rows EXCEPT ![p] = models],
         \/ models \subseteq BuiltinLists[p] \cup cache'[p]
         \/ p \in unwritten'
         \/ cache'[p] = {} /\ models \subseteq StaticLists[p],
         \A q \in Providers \ {p} : cache'[q] = cache[q] /\ (q \in unwritten => q \in unwritten')
  PROVE  rows' \in ModelLists /\ RowsAreAccepted'
  BY DEF CatInv, CatTypeOK, CacheHoldsStatic, RowsAreAccepted, Listing!Accepted, ModelLists

LEMMA LoadedType ==
  ASSUME CatInv, job.at = "load", Listing!Loaded
  PROVE  job' \in JobType /\ job'.at \in {"done", "gate"} /\ job.provider \in Providers
  BY DEF CatInv, CatTypeOK, Listing!Loaded, JobType

LEMMA CatInvStep == ASSUME CatInv, [Listing!Next]_mcListingVars PROVE CatInv'
  <1>1. ASSUME Listing!KeyChanges \/ UNCHANGED mcListingVars PROVE CatInv'
    BY <1>1 DEF Listing!KeyChanges, mcListingVars, CatInv, CatTypeOK, CacheHoldsStatic, RowsAreAccepted, Listing!KnownIsAccepted,
                Listing!LockedIsSilent, Listing!Accepted
  <1>2. ASSUME Listing!StartListing PROVE CatInv'
    <2>1. job' \in JobType /\ job'.at = "gate" /\ rows' = Listing!Nothing /\ UNCHANGED <<cache, offered>>
      <3>1. PICK got \in BOOLEAN :
                job' = [Listing!Idle EXCEPT !.at = "gate", !.todo = Providers, !.meta = Listing!AnyAuthed /\ got]
        BY <1>2 DEF Listing!StartListing
      <3>2. (Listing!AnyAuthed /\ got) \in BOOLEAN
        OBVIOUS
      <3> HIDE DEF Listing!AnyAuthed
      <3> QED BY <1>2, <3>1, <3>2 DEF Listing!StartListing, Listing!Idle, JobType
    <2>2. Listing!LockedIsSilent'
      <3>1. CASE Listing!AnyAuthed
        <4>1. asked' = [who |-> Listing!ModelsDev, key |-> keys # {}] /\ keys # {}
          BY <1>2, <3>1 DEF Listing!StartListing, Listing!AnyAuthed, Listing!Authenticated
        <4> QED BY <4>1 DEF Listing!LockedIsSilent
      <3>2. CASE ~Listing!AnyAuthed
        BY <1>2, <3>2 DEF Listing!StartListing, CatInv, Listing!LockedIsSilent
      <3> QED BY <3>1, <3>2
    <2> QED BY <2>1, <2>2, EmptyLists
      DEF CatInv, CatTypeOK, CacheHoldsStatic, RowsAreAccepted, Listing!KnownIsAccepted
  <1>3. ASSUME Listing!Gate PROVE CatInv'
    <2>1. PICK p \in job.todo :
              job' = [job EXCEPT !.at = IF Listing!LiveAllowed(p) THEN "live" ELSE "load",
                                 !.provider = p, !.todo = @ \ {p}, !.ids = {},
                                 !.authed = Listing!Authenticated(p), !.live = Listing!LiveAllowed(p)]
      BY <1>3 DEF Listing!Gate
    <2>2. Listing!Authenticated(p) \in BOOLEAN /\ Listing!LiveAllowed(p) \in BOOLEAN
      BY DEF Listing!Authenticated, Listing!LiveAllowed
    <2>3. job' \in JobType /\ job'.at # "idle" /\ job'.provider \in Providers
      BY <2>1, <2>2 DEF CatInv, CatTypeOK, JobType
    <2> QED BY <1>3, <2>3 DEF Listing!Gate, CatInv, CatTypeOK, CacheHoldsStatic, RowsAreAccepted, Listing!KnownIsAccepted,
                              Listing!LockedIsSilent, Listing!Accepted
  <1>4. ASSUME Listing!AskServer PROVE CatInv'
    <2> DEFINE p == job.provider
    <2>1. p \in Providers
      BY <1>4 DEF Listing!AskServer, CatInv, CatTypeOK
    <2>2. PICK ids \in SUBSET Listable : job' = [job EXCEPT !.at = "load", !.ids = ids]
      <3>1. CASE Listing!Resolves(p)
        BY <1>4, <2>1, <3>1, StaticModels DEF Listing!AskServer
      <3>2. CASE ~Listing!Resolves(p)
        <4>1. job' = [job EXCEPT !.at = "load"]
          BY <1>4, <3>2 DEF Listing!AskServer
        <4>2. job' = [job EXCEPT !.at = "load", !.ids = job.ids] /\ job.ids \in SUBSET Listable
          BY <4>1 DEF CatInv, CatTypeOK, JobType
        <4> QED BY <4>2
      <3> QED BY <3>1, <3>2
    <2>3. job' \in JobType /\ job'.at = "load" /\ job'.provider = p
      BY <2>2 DEF CatInv, CatTypeOK, JobType
    <2>4. Listing!LockedIsSilent'
      <3>1. CASE Listing!Resolves(p)
        <4>1. asked' = [who |-> p, key |-> p \in keys] /\ (p \in Keyless \/ p \in keys)
          BY <1>4, <3>1 DEF Listing!AskServer, Listing!Resolves
        <4> QED BY <4>1 DEF Listing!LockedIsSilent
      <3>2. CASE ~Listing!Resolves(p)
        BY <1>4, <3>2 DEF Listing!AskServer, CatInv, Listing!LockedIsSilent
      <3> QED BY <3>1, <3>2
    <2> QED BY <1>4, <2>1, <2>3, <2>4 DEF Listing!AskServer, CatInv, CatTypeOK, CacheHoldsStatic, RowsAreAccepted,
                                   Listing!KnownIsAccepted, Listing!Accepted
  <1>5. ASSUME Listing!LoadSnapshot \/ Listing!LoadOffline PROVE CatInv'
    <2> DEFINE p == job.provider
    <2>1. job.at = "load" /\ Listing!Loaded /\ UNCHANGED <<cache, offered, unwritten, asked>>
      BY <1>5 DEF Listing!LoadSnapshot, Listing!LoadOffline
    <2>2. job' \in JobType /\ job'.at \in {"done", "gate"} /\ p \in Providers
      BY <2>1, LoadedType
    <2>3. PICK models \in SUBSET Listable :
              /\ rows' = [rows EXCEPT ![p] = models]
              /\ \/ models \subseteq cache[p]
                 \/ cache[p] = {} /\ models \subseteq StaticLists[p]
      <3>1. StaticLists[p] \in SUBSET Listable /\ cache[p] \in SUBSET Listable
        BY <2>2, StaticModels DEF CatInv, CatTypeOK, ModelLists
      <3>2. cache[p] = {} \/ StaticLists[p] \subseteq cache[p]
        BY <2>2 DEF CatInv, CacheHoldsStatic
      <3>3. CASE rows' = [rows EXCEPT ![p] = StaticLists[p]]
        BY <3>1, <3>2, <3>3
      <3>4. CASE rows' = [rows EXCEPT ![p] = cache[p]]
        BY <3>1, <3>4
      <3> QED BY <1>5, <3>3, <3>4 DEF Listing!LoadSnapshot, Listing!LoadOffline
    <2>4. rows' \in ModelLists /\ RowsAreAccepted'
      BY <2>1, <2>2, <2>3, RowIsSet
    <2> QED BY <2>1, <2>2, <2>4
      DEF CatInv, CatTypeOK, CacheHoldsStatic, Listing!KnownIsAccepted, Listing!LockedIsSilent
  <1>6. ASSUME Listing!LoadFetched PROVE CatInv'
    <2> DEFINE p == job.provider
    <2>1. job.at = "load" /\ Listing!Loaded /\ UNCHANGED <<offered, asked>> /\ Listing!Keep(p)
          /\ rows' = [rows EXCEPT ![p] = Listing!Merged(p)]
      BY <1>6 DEF Listing!LoadFetched, Listing!Fetched
    <2>2. job' \in JobType /\ job'.at \in {"done", "gate"} /\ p \in Providers
      BY <2>1, LoadedType
    <2>3. Listing!Merged(p) \in SUBSET Listable
      BY <2>2, StaticModels DEF Listing!Merged, CatInv, CatTypeOK, JobType
    <2>4. /\ cache' \in ModelLists /\ CacheHoldsStatic'
          /\ Listing!Merged(p) \subseteq cache'[p] \/ p \in unwritten'
          /\ \A q \in Providers \ {p} : cache'[q] = cache[q] /\ (q \in unwritten => q \in unwritten')
      <3>1. CASE cache' = [cache EXCEPT ![p] = Listing!Merged(p)] /\ unwritten' = unwritten \ {p}
        <4>1. StaticLists[p] \subseteq Listing!Merged(p)
          BY DEF Listing!Merged
        <4> QED BY <2>2, <2>3, <3>1, <4>1 DEF CatInv, CatTypeOK, CacheHoldsStatic, ModelLists
      <3>2. CASE unwritten' = unwritten \cup {p} /\ cache' \in {cache, [cache EXCEPT ![p] = {}]}
        BY <2>2, <3>2 DEF CatInv, CatTypeOK, CacheHoldsStatic, ModelLists
      <3> QED BY <2>1, <3>1, <3>2 DEF Listing!Keep
    <2>5. rows' \in ModelLists /\ RowsAreAccepted'
      BY <2>1, <2>2, <2>3, <2>4, RowIsSet
    <2> QED BY <2>1, <2>2, <2>4, <2>5 DEF CatInv, CatTypeOK, Listing!KnownIsAccepted, Listing!LockedIsSilent
  <1>7. ASSUME Listing!Listed \/ Listing!Restart PROVE CatInv'
    <2>1. /\ job' = Listing!Idle /\ rows' = Listing!Nothing /\ offered' \in {rows, Listing!Nothing}
          /\ UNCHANGED <<cache, unwritten, asked>>
      BY <1>7 DEF Listing!Listed, Listing!Restart
    <2> QED BY <2>1, EmptyLists, IdleType
      DEF CatInv, CatTypeOK, CacheHoldsStatic, RowsAreAccepted, Listing!KnownIsAccepted, Listing!LockedIsSilent, Listing!Accepted
  <1> QED BY <1>1, <1>2, <1>3, <1>4, <1>5, <1>6, <1>7 DEF Listing!Next

(* What a server listed and the model browser shows can be chosen, and only *)
(* the catalog's own list, while nothing is cached, may name models that    *)
(* the switch does not know; and showing it told nobody more than the       *)
(* user's keys allow.  This holds for any providers, lists and models,      *)
(* whether the catalog and the plugins name the same or not, and however    *)
(* keys change while the listing waits (ListProviders, switch_model).       *)
THEOREM ListingsAreHonest == MCSpec => []ListingIsHonest
  <1>1. CatInv => ListingIsHonest
    BY DEF ListingIsHonest, CatInv, Listing!ListingIsHonest
  <1>2. MCInit => CatInv
    BY CatInvInit DEF MCInit
  <1>3. CatInv /\ [MCNext]_<<focus, services, fileVars>> => CatInv'
    BY CatInvStep DEF MCNext, services, fileVars
  <1> QED BY <1>1, <1>2, <1>3, PTL DEF MCSpec

-----------------------------------------------------------------------------
(* Connecting a provider.                                                   *)

Prompts == dialog.open /\ dialog.stage \in Auth!Prompting

FlowEvents == [is : {"started", "completed", "failed"}, flow : Nat, asks : Auth!Prompting]
              \cup [is : {"completed", "failed"}, flow : Nat]

Commands == [op : {"begin"}, provider : LoginProviders \cup {0}, method : Auth!Methods]
            \cup [op : {"submit"}, flow : Nat, payload : LoginProviders \cup {0}]
            \cup [op : {"cancel"}, flow : Nat]

AuthTyped ==
    /\ cmds \in Seq(Commands)
    /\ dialog \in [open : BOOLEAN, provider : LoginProviders \cup {0},
                   stage : Auth!Prompting \cup {"pick", "done", "failed"}, flow : Nat]
    /\ events \in Seq(FlowEvents)
    /\ flowSeq \in Nat /\ flows \subseteq 1 .. flowSeq

(* Whoever takes a flow tells so: a flow the newest event announces, or the *)
(* dialog asks for when there is no event, is still there.                  *)
Announced ==
    events # <<>> /\ events[Len(events)].is = "started" => events[Len(events)].flow \in flows

AskedFor == events = <<>> /\ Prompts => dialog.flow \in flows

PromptInv == AuthTyped /\ Announced /\ AskedFor

LEMMA PromptInit == Auth!Init => PromptInv
  BY DEF Auth!Init, Auth!Closed, Auth!NoFlow, Auth!Prompting, PromptInv, AuthTyped, Announced,
         AskedFor, Prompts

(* An event that is emitted is the newest one.                              *)
LEMMA Emitted ==
    ASSUME AuthTyped, NEW e \in FlowEvents, Auth!Emit(e)
    PROVE  /\ events' \in Seq(FlowEvents) /\ events' # <<>>
           /\ events'[Len(events')] = e
  BY DEF AuthTyped, Auth!Emit

(* A step of the host or of a task that ends something.                     *)
LEMMA Ending ==
    ASSUME PromptInv, NEW e \in FlowEvents, e.is # "started", Auth!Emit(e),
           cmds' \in Seq(Commands), dialog' = dialog, flowSeq' = flowSeq,
           flows' \subseteq flows
    PROVE  PromptInv'
  <1>1. events' \in Seq(FlowEvents) /\ events' # <<>> /\ events'[Len(events')] = e
    BY Emitted DEF PromptInv
  <1>2. AuthTyped'
    BY <1>1 DEF PromptInv, AuthTyped
  <1> QED BY <1>1, <1>2 DEF PromptInv, Announced, AskedFor

LEMMA EndEvents ==
    \A f \in Nat : Auth!Completed(f) \in FlowEvents /\ Auth!Failed(f) \in FlowEvents
                   /\ Auth!Completed(f).is # "started" /\ Auth!Failed(f).is # "started"
  BY DEF Auth!Completed, Auth!Failed, FlowEvents

LEMMA PromptStep == PromptInv /\ [Auth!Next]_mcAuthVars => PromptInv'
  <1> SUFFICES ASSUME PromptInv, [Auth!Next]_mcAuthVars PROVE PromptInv'
    OBVIOUS
  <1>0. AuthTyped /\ dialog.flow \in Nat
    BY DEF PromptInv, AuthTyped
  <1>1. CASE UNCHANGED mcAuthVars
    BY <1>1 DEF mcAuthVars, PromptInv, AuthTyped, Announced, AskedFor, Prompts
  <1>2. CASE Auth!User
    <2>1. events' = events /\ flowSeq' = flowSeq /\ flows' = flows
      BY <1>2 DEF Auth!User, Auth!OpenDialog, Auth!PickMethod, Auth!SubmitInput, Auth!Retry,
                  Auth!CloseDone, Auth!Esc, Auth!ByUser, Auth!hostVars
    <2>2. cmds' \in Seq(Commands)
      <3>1. ASSUME NEW c \in Commands, Auth!Send(c) PROVE cmds' \in Seq(Commands)
        BY <1>0, <3>1 DEF AuthTyped, Auth!Send
      <3>2. CASE Auth!PickMethod
        <4>1. PICK m \in Auth!Methods :
                  Auth!Send([op |-> "begin", provider |-> dialog.provider, method |-> m])
          BY <3>2 DEF Auth!PickMethod
        <4>2. [op |-> "begin", provider |-> dialog.provider, method |-> m] \in Commands
          BY <1>0 DEF AuthTyped, Commands
        <4> QED BY <3>1, <4>1, <4>2
      <3>3. CASE Auth!SubmitInput
        <4>1. PICK typed \in {dialog.provider, 0} :
                  Auth!Send([op |-> "submit", flow |-> dialog.flow, payload |-> typed])
          BY <3>3 DEF Auth!SubmitInput, Auth!NoKey
        <4>2. [op |-> "submit", flow |-> dialog.flow, payload |-> typed] \in Commands
          BY <1>0 DEF AuthTyped, Commands
        <4> QED BY <3>1, <4>1, <4>2
      <3>4. CASE Auth!Esc
        <4>1. [op |-> "cancel", flow |-> dialog.flow] \in Commands
          BY <1>0 DEF Commands
        <4> QED BY <1>0, <3>1, <3>4, <4>1 DEF Auth!Esc, AuthTyped
      <3>5. CASE Auth!OpenDialog \/ Auth!Retry \/ Auth!CloseDone
        BY <1>0, <3>5 DEF Auth!OpenDialog, Auth!Retry, Auth!CloseDone, AuthTyped
      <3> QED BY <1>2, <3>2, <3>3, <3>4, <3>5 DEF Auth!User
    <2>3. /\ dialog' \in [open : BOOLEAN, provider : LoginProviders \cup {0},
                          stage : Auth!Prompting \cup {"pick", "done", "failed"}, flow : Nat]
          /\ Prompts' => dialog' = dialog
      <3>1. CASE UNCHANGED dialog
        BY <1>0, <3>1 DEF AuthTyped
      <3>2. CASE dialog' = Auth!Closed
        BY <3>2 DEF Auth!Closed, Auth!NoFlow, Prompts
      <3>3. CASE Auth!Retry
        BY <1>0, <3>3 DEF Auth!Retry, AuthTyped, Prompts, Auth!Prompting
      <3>4. CASE Auth!OpenDialog
        <4>1. PICK p \in LoginProviders : dialog' =
                  [open |-> TRUE, provider |-> p, stage |-> "pick", flow |-> 0]
          BY <3>4 DEF Auth!OpenDialog, Auth!NoFlow
        <4> QED BY <4>1 DEF Prompts, Auth!Prompting
      <3> QED BY <1>2, <3>1, <3>2, <3>3, <3>4 DEF Auth!User, Auth!PickMethod,
              Auth!SubmitInput, Auth!CloseDone, Auth!Esc
    <2> QED BY <2>1, <2>2, <2>3 DEF PromptInv, AuthTyped, Announced, AskedFor, Prompts
  <1>3. CASE Auth!FeedEvent
    <2> DEFINE e == Head(events)
    <2>1. /\ events # <<>> /\ events' = Tail(events) /\ dialog' = Auth!Fed(e)
          /\ cmds' = cmds /\ flowSeq' = flowSeq /\ flows' = flows
      BY <1>3 DEF Auth!FeedEvent, Auth!hostVars
    <2>2. /\ e \in FlowEvents /\ e = events[1] /\ events' \in Seq(FlowEvents)
          /\ Len(events') = Len(events) - 1 /\ Len(events) \in Nat \ {0}
          /\ \A i \in 1 .. Len(events') : events'[i] = events[i + 1]
      BY <1>0, <2>1 DEF AuthTyped
    <2>3. /\ dialog' \in [open : BOOLEAN, provider : LoginProviders \cup {0},
                          stage : Auth!Prompting \cup {"pick", "done", "failed"}, flow : Nat]
          /\ Prompts' => e.is = "started" /\ dialog'.flow = e.flow
      <3> HIDE DEF e
      <3>1. CASE ~dialog.open
        BY <1>0, <2>1, <3>1 DEF Auth!Fed, Prompts, AuthTyped
      <3>2. CASE dialog.open /\ e.is = "started"
        <4>1. e.flow \in Nat /\ e.asks \in Auth!Prompting
          BY <2>2, <3>2 DEF FlowEvents
        <4> QED BY <1>0, <2>1, <3>2, <4>1 DEF Auth!Fed, AuthTyped
      <3>3. CASE dialog.open /\ e.is # "started"
        <4>1. e.is \in {"completed", "failed"}
          BY <2>2, <3>3 DEF FlowEvents
        <4> QED BY <1>0, <2>1, <3>3, <4>1 DEF Auth!Fed, AuthTyped, Prompts, Auth!Prompting
      <3> QED BY <3>1, <3>2, <3>3
    <2>4. Announced'
      <3>1. ASSUME events' # <<>> PROVE events'[Len(events')] = events[Len(events)]
        <4>1. Len(events') \in 1 .. Len(events')
          BY <2>2, <3>1
        <4> QED BY <2>2, <4>1
      <3> QED BY <2>1, <3>1 DEF PromptInv, Announced
    <2>5. AskedFor'
      <3>1. ASSUME events' = <<>> PROVE e = events[Len(events)]
        <4>1. Len(events') = 0
          BY <3>1
        <4>2. Len(events) = 1
          BY <2>2, <4>1
        <4> QED BY <2>2, <4>2
      <3> QED BY <2>1, <2>3, <3>1 DEF PromptInv, Announced, AskedFor
    <2> QED BY <1>0, <2>1, <2>2, <2>3, <2>4, <2>5 DEF PromptInv, AuthTyped
  <1>4. CASE Auth!Host
    <2> DEFINE c == Head(cmds)
    <2>1. /\ cmds # <<>> /\ cmds' = Tail(cmds) /\ cmds' \in Seq(Commands) /\ c \in Commands
      <3>1. cmds # <<>> /\ cmds' = Tail(cmds)
        BY <1>4 DEF Auth!Host, Auth!BeginFlow, Auth!BeginFails, Auth!SubmitUnknown,
           Auth!SubmitRefused, Auth!SubmitKey, Auth!SubmitCode, Auth!CancelFlow, Auth!Takes
      <3>2. cmds \in Seq(Commands)
        BY <1>0 DEF AuthTyped
      <3> QED BY <3>1, <3>2
    <2>2. c.op \in {"submit", "cancel"} => c.flow \in Nat
      BY <2>1 DEF Commands
    <2>3. CASE Auth!BeginFlow
      <3> DEFINE f == flowSeq + 1
                 e == Auth!Started(f, IF c.method = "oauth" THEN "oauth" ELSE "key")
      <3>1. Auth!Emit(e) /\ flowSeq' = f /\ flows' = flows \cup {f} /\ dialog' = dialog
        BY <2>3 DEF Auth!BeginFlow
      <3>2. e \in FlowEvents /\ e.flow = f
        BY <1>0 DEF Auth!Started, FlowEvents, AuthTyped, Auth!Prompting
      <3>3. events' \in Seq(FlowEvents) /\ events' # <<>> /\ events'[Len(events')] = e
        BY <1>0, <3>1, <3>2, Emitted
      <3>4. AuthTyped'
        BY <1>0, <2>1, <3>1, <3>3 DEF AuthTyped
      <3> QED BY <3>1, <3>2, <3>3, <3>4 DEF PromptInv, Announced, AskedFor
    <2>4. CASE Auth!BeginFails
      BY <2>1, <2>4, Ending, EndEvents DEF Auth!BeginFails, Auth!hostVars, Auth!NoFlow
    <2>5. CASE Auth!SubmitUnknown
      BY <2>1, <2>2, <2>5, Ending, EndEvents DEF Auth!SubmitUnknown, Auth!hostVars, Auth!Takes
    <2>6. CASE Auth!SubmitRefused \/ Auth!SubmitKey \/ Auth!SubmitCode
      BY <2>1, <2>2, <2>6, Ending, EndEvents
      DEF Auth!SubmitRefused, Auth!SubmitKey, Auth!SubmitCode, Auth!Refuse, Auth!Taken, Auth!Takes
    <2>7. CASE Auth!CancelFlow
      <3>1. CASE c.flow \in flows
        BY <2>1, <2>2, <2>7, <3>1, Ending, EndEvents DEF Auth!CancelFlow, Auth!Taken, Auth!Takes
      <3>2. CASE c.flow \notin flows
        <4>1. UNCHANGED <<dialog, events, flowSeq, flows>>
          BY <2>7, <3>2 DEF Auth!CancelFlow, Auth!hostVars
        <4> QED BY <2>1, <4>1 DEF PromptInv, AuthTyped, Announced, AskedFor, Prompts
      <3> QED BY <3>1, <3>2
    <2> QED BY <1>4, <2>3, <2>4, <2>5, <2>6, <2>7 DEF Auth!Host
  <1>5. ASSUME NEW f \in 1 .. flowSeq, Auth!Task(f) PROVE PromptInv'
    <2>1. cmds' = cmds /\ dialog' = dialog /\ flowSeq' = flowSeq /\ flows' = flows /\ f \in Nat
      BY <1>0, <1>5 DEF Auth!Task, Auth!Callback, Auth!WaitEnds, Auth!ExchangeFails,
         Auth!Exchanged, Auth!StoreToken, Auth!ByTask, Auth!dialogVars, Auth!hostVars, AuthTyped
    <2>2. events' = events \/ Auth!Emit(Auth!Completed(f)) \/ Auth!Emit(Auth!Failed(f))
      BY <1>5 DEF Auth!Task, Auth!Callback, Auth!WaitEnds, Auth!ExchangeFails,
         Auth!Exchanged, Auth!StoreToken
    <2>3. CASE events' = events
      BY <2>1, <2>3 DEF PromptInv, AuthTyped, Announced, AskedFor, Prompts
    <2>4. CASE events' # events
      BY <1>0, <2>1, <2>2, <2>4, Ending, EndEvents DEF AuthTyped
    <2> QED BY <2>3, <2>4
  <1> QED BY <1>1, <1>2, <1>3, <1>4, <1>5 DEF Auth!Next, Auth!Client

(* When nothing is in flight, a dialog that asks for a key or a code asks   *)
(* for a flow the host still has, for any providers and however the user,   *)
(* the host and the browser tasks interleave: whoever takes a flow tells    *)
(* the client in the same step (submit_input, cancel_flow).                 *)
THEOREM DialogsAskLiveFlows == MCSpec => []PromptsAreLive
  <1>1. MCInit => PromptInv
    BY PromptInit DEF MCInit
  <1>2. PromptInv /\ [MCNext]_<<focus, services, fileVars>> => PromptInv'
    BY PromptStep DEF MCNext, services, fileVars
  <1>3. PromptInv => PromptsAreLive
    BY DEF PromptInv, AskedFor, Prompts, PromptsAreLive, Auth!PromptsAreLive
  <1> QED BY <1>1, <1>2, <1>3, PTL DEF MCSpec

(* A browser task that has not stored its token works for a flow that is    *)
(* still pending; only one that holds the token may have been told to stop. *)
TaskStates == {"none", "waiting", "exchanging", "storing", "over"}

TasksHaveFlows ==
    /\ flowSeq \in Nat /\ flows \subseteq 1 .. flowSeq
    /\ task \in Seq(TaskStates) /\ Len(task) = flowSeq
    /\ \A f \in 1 .. flowSeq :
          /\ task[f] \in {"waiting", "exchanging"} => f \in flows
          /\ task[f] = "storing" => f \in flows \cup aborted

LEMMA TasksInit == Auth!Init => TasksHaveFlows
  BY DEF Auth!Init, TasksHaveFlows

(* A flow that is taken aborts its task, or marks it.                       *)
LEMMA TakenKeeps ==
    ASSUME TasksHaveFlows, NEW f \in flows, Auth!Taken(f) PROVE TasksHaveFlows'
  <1>1. /\ f \in 1 .. flowSeq /\ flowSeq' = flowSeq /\ flows' = flows \ {f}
        /\ aborted' = IF task[f] = "storing" THEN aborted \cup {f} ELSE aborted
        /\ task' = IF task[f] \in {"waiting", "exchanging"}
                   THEN [task EXCEPT ![f] = "over"] ELSE task
    BY DEF TasksHaveFlows, Auth!Taken, Auth!Aborted
  <1>2. CASE task[f] \in {"waiting", "exchanging"}
    <2>1. /\ task' \in Seq(TaskStates) /\ Len(task') = flowSeq
          /\ \A g \in 1 .. flowSeq : task'[g] = IF g = f THEN "over" ELSE task[g]
      BY <1>1, <1>2 DEF TasksHaveFlows, TaskStates
    <2> QED BY <1>1, <1>2, <2>1 DEF TasksHaveFlows
  <1>3. CASE task[f] \notin {"waiting", "exchanging"}
    BY <1>1, <1>3 DEF TasksHaveFlows
  <1> QED BY <1>2, <1>3

LEMMA TasksStep == TasksHaveFlows /\ [Auth!Next]_mcAuthVars => TasksHaveFlows'
  <1> SUFFICES ASSUME TasksHaveFlows, [Auth!Next]_mcAuthVars PROVE TasksHaveFlows'
    OBVIOUS
  <1>1. CASE UNCHANGED <<flowSeq, flows, task, aborted>>
    BY <1>1 DEF TasksHaveFlows
  <1>2. CASE Auth!BeginFlow
    <2> DEFINE f == flowSeq + 1
    <2>1. PICK t \in TaskStates : task' = Append(task, t) /\ (t = "waiting" \/ t = "none")
      BY <1>2 DEF Auth!BeginFlow, TaskStates
    <2>2. flowSeq' = f /\ flows' = flows \cup {f} /\ aborted' = aborted
      BY <1>2 DEF Auth!BeginFlow
    <2>3. /\ task' \in Seq(TaskStates) /\ Len(task') = f
          /\ \A g \in 1 .. flowSeq : task'[g] = task[g]
      BY <2>1 DEF TasksHaveFlows
    <2>4. flowSeq \in Nat /\ \A g \in 1 .. f : g \in 1 .. flowSeq \/ g = f
      BY DEF TasksHaveFlows
    <2> QED BY <2>1, <2>2, <2>3, <2>4 DEF TasksHaveFlows
  <1>3. CASE Auth!SubmitRefused \/ Auth!SubmitKey \/ Auth!SubmitCode
    BY <1>3, TakenKeeps DEF Auth!SubmitRefused, Auth!SubmitKey, Auth!SubmitCode
  <1>4. CASE Auth!CancelFlow
    <2>1. CASE Head(cmds).flow \in flows
      BY <1>4, <2>1, TakenKeeps DEF Auth!CancelFlow
    <2>2. CASE Head(cmds).flow \notin flows
      BY <1>1, <1>4, <2>2 DEF Auth!CancelFlow, Auth!hostVars
    <2> QED BY <2>1, <2>2
  <1>5. ASSUME NEW f \in 1 .. flowSeq, Auth!Task(f) PROVE TasksHaveFlows'
    <2>1. flowSeq' = flowSeq /\ flows' = flows /\ aborted' = aborted
      BY <1>5 DEF Auth!Task, Auth!Callback, Auth!WaitEnds, Auth!ExchangeFails,
         Auth!Exchanged, Auth!StoreToken, Auth!ByTask, Auth!hostVars
    <2>2. PICK t \in {"exchanging", "storing", "over"} :
              /\ task' = [task EXCEPT ![f] = t]
              /\ t # "over" => task[f] \in {"waiting", "exchanging"}
      BY <1>5 DEF Auth!Task, Auth!Callback, Auth!WaitEnds, Auth!ExchangeFails,
         Auth!Exchanged, Auth!StoreToken, Auth!TaskAt
    <2>3. /\ task' \in Seq(TaskStates) /\ Len(task') = flowSeq
          /\ \A g \in 1 .. flowSeq : task'[g] = IF g = f THEN t ELSE task[g]
      BY <2>2 DEF TasksHaveFlows, TaskStates
    <2> QED BY <2>1, <2>2, <2>3 DEF TasksHaveFlows
  <1>6. CASE UNCHANGED mcAuthVars \/ Auth!Client \/ Auth!BeginFails \/ Auth!SubmitUnknown
    BY <1>1, <1>6 DEF mcAuthVars, Auth!Client, Auth!User, Auth!FeedEvent, Auth!OpenDialog,
       Auth!PickMethod, Auth!SubmitInput, Auth!Retry, Auth!CloseDone, Auth!Esc, Auth!ByUser,
       Auth!BeginFails, Auth!SubmitUnknown, Auth!hostVars
  <1> QED BY <1>2, <1>3, <1>4, <1>5, <1>6 DEF Auth!Next, Auth!Host

(* A browser task stores a token only for a flow that is pending, or for    *)
(* one that was cancelled when the task already held the token, for any     *)
(* number of flows (cancel_flow, submit_input).                             *)
THEOREM TokensAreOfLiveFlows == MCSpec => OnlyLiveFlowsStore
  <1>1. MCInit => TasksHaveFlows
    BY TasksInit DEF MCInit
  <1>2. TasksHaveFlows /\ [MCNext]_<<focus, services, fileVars>> => TasksHaveFlows'
    BY TasksStep DEF MCNext, services, fileVars
  <1>3. TasksHaveFlows =>
          [\A f \in 1 .. flowSeq : Auth!StoreToken(f) => f \in flows \cup aborted]_Auth!authVars
    BY DEF TasksHaveFlows, Auth!StoreToken, Auth!TaskAt
  <1> QED BY <1>1, <1>2, <1>3, PTL DEF MCSpec, OnlyLiveFlowsStore, Auth!OnlyLiveFlowsStore

-----------------------------------------------------------------------------
(* The settings commands.                                                   *)

(* What runs can only be one of these, in any field.                        *)
AnyModel == Models \cup {NoModel, Mock} \cup {Default[p] : p \in {First} \cup {Home[m] : m \in Models}}
AnyMode == Modes \cup {"review"}
AnyEffort == Levels \cup {Settings!NoEffort}

Choices == [op : {"switch"}, arg : Models] \cup [op : {"mode"}, arg : Modes]
           \cup [op : {"effort"}, arg : AnyEffort] \cup [op : {"list"}, arg : {NoModel}]
Answers == [is : {"model"}, arg : AnyModel] \cup [is : {"mode"}, arg : AnyMode]
           \cup [is : {"error", "effort", "refused", "providers"}, arg : AnyModel \cup AnyEffort]

SettingsTyped ==
    /\ file \in [model : Models \cup {NoModel}, effort : AnyEffort, mode : AnyMode]
    /\ live \in [model : AnyModel, effort : AnyEffort, mode : AnyMode]
    /\ label \in [model : AnyModel, mode : AnyMode]
    /\ asks \in Seq(Choices) /\ answers \in Seq(Answers)

(* Either a choice of this kind is still to be taken, or the last thing the *)
(* bar will hear of it, or shows if it will hear nothing, is what runs.     *)
Newest(i, what) ==
    answers[i].is = what /\ \A j \in DOMAIN answers : j > i => answers[j].is # what
Unheard(what) == \E i \in DOMAIN answers : answers[i].is = what
WillShow(what, shown, real) ==
    /\ \A i \in DOMAIN answers : Newest(i, what) => answers[i].arg = real
    /\ Unheard(what) \/ shown = real
Waiting(kind) == \E i \in DOMAIN asks : asks[i].op = kind

Excused == failed \/ fellBack \/ "model" \in unsaved

SelectionInv ==
    /\ SettingsTyped /\ Settings!WhatRunsIsSaved
    /\ Excused \/ Waiting("switch") \/ WillShow("model", label.model, live.model)
    /\ Waiting("mode") \/ WillShow("mode", label.mode, live.mode)

(* One more answer: it is the newest of its kind, and of the others it      *)
(* changes nothing.                                                         *)
LEMMA OneMore ==
    ASSUME answers \in Seq(Answers), NEW e \in Answers, answers' = Append(answers, e)
    PROVE  /\ answers' \in Seq(Answers)
           /\ \A shown : WillShow(e.is, shown, e.arg)'
           /\ \A what, shown, real :
                  what # e.is /\ WillShow(what, shown, real) => WillShow(what, shown, real)'
  <1>1. /\ answers' \in Seq(Answers) /\ DOMAIN answers = 1 .. Len(answers)
        /\ DOMAIN answers' = 1 .. Len(answers) + 1 /\ answers'[Len(answers) + 1] = e
        /\ \A i \in DOMAIN answers : answers'[i] = answers[i] /\ i \in DOMAIN answers'
        /\ Len(answers) \in Nat
    OBVIOUS
  <1>2. ASSUME NEW shown PROVE WillShow(e.is, shown, e.arg)'
    <2>1. ASSUME NEW i \in DOMAIN answers', Newest(i, e.is)' PROVE i = Len(answers) + 1
      BY <1>1, <2>1 DEF Newest
    <2>2. Unheard(e.is)'
      BY <1>1 DEF Unheard
    <2> QED BY <1>1, <2>1, <2>2 DEF WillShow
  <1>3. ASSUME NEW what, NEW shown, NEW real, what # e.is, WillShow(what, shown, real)
        PROVE  WillShow(what, shown, real)'
    <2>1. ASSUME NEW i \in DOMAIN answers', Newest(i, what)' PROVE answers'[i].arg = real
      <3>1. i # Len(answers) + 1
        BY <1>1, <1>3, <2>1 DEF Newest
      <3>2. i \in DOMAIN answers
        BY <1>1, <3>1
      <3>3. Newest(i, what)
        BY <1>1, <2>1, <3>2 DEF Newest
      <3> QED BY <1>1, <1>3, <3>2, <3>3 DEF WillShow
    <2>2. Unheard(what) => Unheard(what)'
      BY <1>1 DEF Unheard
    <2> QED BY <1>3, <2>1, <2>2 DEF WillShow
  <1> QED BY <1>1, <1>2, <1>3

(* The first answer is heard: the bar shows it, if it is of that kind.      *)
LEMMA OneLess ==
    ASSUME answers \in Seq(Answers), answers # <<>>, answers' = Tail(answers),
           NEW what, NEW shown, NEW next, NEW real, WillShow(what, shown, real),
           next = IF Head(answers).is = what THEN Head(answers).arg ELSE shown
    PROVE  WillShow(what, next, real)'
  <1>1. /\ DOMAIN answers = 1 .. Len(answers) /\ Len(answers) \in Nat \ {0}
        /\ answers' \in Seq(Answers) /\ Len(answers') = Len(answers) - 1
        /\ DOMAIN answers' = 1 .. Len(answers')
        /\ \A i \in DOMAIN answers' : answers'[i] = answers[i + 1] /\ i + 1 \in DOMAIN answers
        /\ Head(answers) = answers[1]
    OBVIOUS
  <1>2. ASSUME NEW i \in DOMAIN answers', Newest(i, what)' PROVE Newest(i + 1, what)
    <2>1. ASSUME NEW j \in DOMAIN answers, j > i + 1 PROVE answers[j].is # what
      <3>1. j - 1 \in DOMAIN answers' /\ j - 1 > i /\ (j - 1) + 1 = j
        BY <1>1, <2>1
      <3> QED BY <1>1, <1>2, <3>1 DEF Newest
    <2> QED BY <1>1, <1>2, <2>1 DEF Newest
  <1>3. \A i \in DOMAIN answers' : Newest(i, what)' => answers'[i].arg = real
    BY <1>1, <1>2 DEF WillShow
  <1>4. ASSUME ~Unheard(what)' PROVE next = real
    <2>1. \A j \in DOMAIN answers : j > 1 => answers[j].is # what
      <3> SUFFICES ASSUME NEW j \in DOMAIN answers, j > 1 PROVE answers[j].is # what
        OBVIOUS
      <3>1. j - 1 \in DOMAIN answers' /\ (j - 1) + 1 = j
        BY <1>1
      <3> QED BY <1>1, <1>4, <3>1 DEF Unheard
    <2>2. CASE Head(answers).is = what
      <3>1. Newest(1, what) /\ 1 \in DOMAIN answers
        BY <1>1, <2>1, <2>2 DEF Newest
      <3> QED BY <1>1, <2>2, <3>1 DEF WillShow
    <2>3. CASE Head(answers).is # what
      <3>1. ~Unheard(what)
        BY <1>1, <2>1, <2>3 DEF Unheard
      <3> QED BY <2>3, <3>1 DEF WillShow
    <2> QED BY <2>2, <2>3
  <1> QED BY <1>3, <1>4 DEF WillShow

(* A choice is sent behind the others, and the first of them is taken.      *)
LEMMA OneAsks ==
    ASSUME asks \in Seq(Choices), NEW c \in Choices, Settings!Sends(c)
    PROVE  /\ asks' \in Seq(Choices) /\ Waiting(c.op)'
           /\ \A kind : Waiting(kind) => Waiting(kind)'
  <1>1. /\ asks' \in Seq(Choices) /\ asks'[Len(asks) + 1] = c
        /\ Len(asks) + 1 \in DOMAIN asks'
        /\ \A i \in DOMAIN asks : asks'[i] = asks[i] /\ i \in DOMAIN asks'
    BY DEF Settings!Sends
  <1> QED BY <1>1 DEF Waiting

LEMMA OneTaken ==
    ASSUME asks \in Seq(Choices), NEW kind, Settings!Takes(kind)
    PROVE  /\ asks' \in Seq(Choices) /\ Head(asks) \in Choices /\ Head(asks).op = kind
           /\ \A other : other # kind /\ Waiting(other) => Waiting(other)'
  <1>1. /\ asks # <<>> /\ asks' = Tail(asks) /\ Head(asks).op = kind
    BY DEF Settings!Takes
  <1>2. /\ DOMAIN asks = 1 .. Len(asks) /\ Len(asks) \in Nat \ {0}
        /\ asks' \in Seq(Choices) /\ DOMAIN asks' = 1 .. Len(asks) - 1
        /\ \A i \in DOMAIN asks' : asks'[i] = asks[i + 1]
        /\ Head(asks) = asks[1] /\ Head(asks) \in Choices
    BY <1>1
  <1>3. ASSUME NEW other, other # kind, Waiting(other) PROVE Waiting(other)'
    <2>1. PICK i \in DOMAIN asks : asks[i].op = other
      BY <1>3 DEF Waiting
    <2>2. i - 1 \in DOMAIN asks' /\ asks'[i - 1] = asks[i]
      <3>1. i # 1
        BY <1>1, <1>2, <1>3, <2>1
      <3>2. i - 1 \in DOMAIN asks' /\ (i - 1) + 1 = i
        BY <1>2, <2>1, <3>1
      <3> QED BY <1>2, <3>2
    <2> QED BY <2>1, <2>2 DEF Waiting
  <1> QED BY <1>1, <1>2, <1>3

LEMMA AnyModels ==
    /\ Models \cup {NoModel, Mock} \subseteq AnyModel
    /\ \A m \in Models \cup {NoModel} : \A ready :
          Settings!Told(m) \in AnyModel /\ Settings!Started(m, ready) \in AnyModel
  BY DEF AnyModel, Settings!Told, Settings!Started

(* The two answers to the client's first question.                          *)
LEMMA StartAnswers ==
    ASSUME NEW m \in Models \cup {NoModel}, NEW mode \in AnyMode,
           answers' = Settings!State(m, mode)
    PROVE  /\ answers' \in Seq(Answers)
           /\ \A shown : WillShow("model", shown, Settings!Told(m))'
           /\ \A shown : WillShow("mode", shown, mode)'
  <1>1. /\ Settings!Say("model", Settings!Told(m)) \in Answers
        /\ Settings!Say("mode", mode) \in Answers
    BY AnyModels DEF Settings!Say, Answers
  <1>2. /\ answers' \in Seq(Answers) /\ DOMAIN answers' = 1 .. 2
        /\ answers'[1] = Settings!Say("model", Settings!Told(m))
        /\ answers'[2] = Settings!Say("mode", mode)
    BY <1>1 DEF Settings!State
  <1>3. /\ answers'[1].is = "model" /\ answers'[1].arg = Settings!Told(m)
        /\ answers'[2].is = "mode" /\ answers'[2].arg = mode
    BY <1>2 DEF Settings!Say
  <1>4. \A i \in DOMAIN answers' : i = 1 \/ i = 2
    BY <1>2
  <1>5. 1 \in DOMAIN answers' /\ 2 \in DOMAIN answers'
    BY <1>2
  <1> QED BY <1>2, <1>3, <1>4, <1>5 DEF WillShow, Unheard, Newest

LEMMA SelectionInit == Settings!Init => SelectionInv
  <1> SUFFICES ASSUME Settings!Init PROVE SelectionInv
    OBVIOUS
  <1>1. /\ file = [model |-> NoModel, effort |-> Settings!NoEffort, mode |-> "review"]
        /\ live = [model |-> Settings!Started(NoModel, usable), effort |-> Settings!NoEffort,
                   mode |-> "review"]
        /\ label = [model |-> NoModel, mode |-> "review"]
        /\ asks = <<>> /\ answers = Settings!State(NoModel, "review")
        /\ fellBack = (live.model = Mock)
    BY DEF Settings!Init
  <1>2. Settings!Started(NoModel, usable) \in AnyModel /\ Settings!Told(NoModel) \in AnyModel
    BY AnyModels
  <1>3. /\ Settings!Say("model", Settings!Told(NoModel)) \in Answers
        /\ Settings!Say("mode", "review") \in Answers
    BY <1>2 DEF Settings!Say, Answers, AnyMode
  <1>4. SettingsTyped
    BY <1>1, <1>2, <1>3, AnyModels DEF SettingsTyped, AnyMode, AnyEffort, Settings!State
  <1>5. live.model = Settings!Told(NoModel) \/ fellBack
    BY <1>1 DEF Settings!Started, Settings!Told
  <1>6. WillShow("mode", "review", "review") /\ WillShow("model", NoModel, Settings!Told(NoModel))
    <2>1. /\ DOMAIN answers = 1 .. 2 /\ answers[1].is = "model" /\ answers[2].is = "mode"
          /\ answers[1].arg = Settings!Told(NoModel) /\ answers[2].arg = "review"
      BY <1>1, <1>3 DEF Settings!State, Settings!Say
    <2>2. 1 \in 1 .. 2 /\ 2 \in 1 .. 2 /\ \A i \in 1 .. 2 : i = 1 \/ i = 2
      OBVIOUS
    <2> QED BY <2>1, <2>2 DEF WillShow, Unheard, Newest
  <1> QED BY <1>1, <1>4, <1>5, <1>6 DEF SelectionInv, Excused, Settings!WhatRunsIsSaved

LEMMA ClientKeeps == ASSUME SelectionInv, Settings!Client PROVE SelectionInv'
  <1>0. SettingsTyped
    BY DEF SelectionInv
  <1>1. UNCHANGED <<file, live, unsaved, fellBack, failed>>
    BY DEF Settings!Client, Settings!PickModel, Settings!PickMode, Settings!PickEffort,
       Settings!OpenBrowser, Settings!Hear, Settings!ByClient
  <1>2. Settings!WhatRunsIsSaved' /\ (Excused => Excused')
    BY <1>1 DEF SelectionInv, Settings!WhatRunsIsSaved, Settings!Told, Excused
  <1>3. CASE Settings!PickModel
    <2>1. PICK m \in Models : /\ Settings!Sends(Settings!Ask("switch", m))
                              /\ label' = [label EXCEPT !.model = m] /\ answers' = answers
      BY <1>3 DEF Settings!PickModel
    <2>2. Settings!Ask("switch", m) \in Choices /\ Settings!Ask("switch", m).op = "switch"
      BY DEF Settings!Ask, Choices
    <2>3. /\ asks' \in Seq(Choices) /\ Waiting("switch")'
          /\ Waiting("mode") => Waiting("mode")'
      BY <1>0, <2>1, <2>2, OneAsks DEF SettingsTyped
    <2>4. label' \in [model : AnyModel, mode : AnyMode] /\ label'.mode = label.mode
      BY <1>0, <2>1, AnyModels DEF SettingsTyped
    <2>5. WillShow("mode", label.mode, live.mode) => WillShow("mode", label.mode, live.mode)'
      BY <1>1, <2>1, <2>4 DEF WillShow, Unheard, Newest
    <2> QED BY <1>0, <1>1, <1>2, <2>1, <2>3, <2>4, <2>5 DEF SelectionInv, SettingsTyped
  <1>4. CASE Settings!PickMode
    <2>1. PICK m \in Modes : /\ Settings!Sends(Settings!Ask("mode", m))
                             /\ label' = [label EXCEPT !.mode = m] /\ answers' = answers
      BY <1>4 DEF Settings!PickMode
    <2>2. Settings!Ask("mode", m) \in Choices /\ Settings!Ask("mode", m).op = "mode"
      BY DEF Settings!Ask, Choices
    <2>3. /\ asks' \in Seq(Choices) /\ Waiting("mode")'
          /\ Waiting("switch") => Waiting("switch")'
      BY <1>0, <2>1, <2>2, OneAsks DEF SettingsTyped
    <2>4. label' \in [model : AnyModel, mode : AnyMode] /\ label'.model = label.model
      BY <1>0, <2>1 DEF SettingsTyped, AnyMode
    <2>5. WillShow("model", label.model, live.model) => WillShow("model", label.model, live.model)'
      BY <1>1, <2>1, <2>4 DEF WillShow, Unheard, Newest
    <2> QED BY <1>0, <1>1, <1>2, <2>1, <2>3, <2>4, <2>5 DEF SelectionInv, SettingsTyped
  <1>5. CASE Settings!PickEffort \/ Settings!OpenBrowser
    <2>1. PICK c \in Choices : Settings!Sends(c) /\ label' = label /\ answers' = answers
      <3>1. Settings!Ask("list", NoModel) \in Choices
        BY DEF Settings!Ask, Choices
      <3>2. \A level \in AnyEffort : Settings!Ask("effort", level) \in Choices
        BY DEF Settings!Ask, Choices
      <3> QED BY <1>5, <3>1, <3>2 DEF Settings!PickEffort, Settings!OpenBrowser, AnyEffort
    <2>2. asks' \in Seq(Choices) /\ \A kind : Waiting(kind) => Waiting(kind)'
      BY <1>0, <2>1, OneAsks DEF SettingsTyped
    <2>3. \A what, shown, real : WillShow(what, shown, real) => WillShow(what, shown, real)'
      BY <2>1 DEF WillShow, Unheard, Newest
    <2> QED BY <1>0, <1>1, <1>2, <2>1, <2>2, <2>3 DEF SelectionInv, SettingsTyped
  <1>6. CASE Settings!Hear
    <2> DEFINE e == Head(answers)
    <2>1. /\ answers # <<>> /\ answers' = Tail(answers) /\ asks' = asks
          /\ label' = CASE e.is = "model" -> [label EXCEPT !.model = e.arg]
                        [] e.is = "mode" -> [label EXCEPT !.mode = e.arg]
                        [] OTHER -> label
      BY <1>6 DEF Settings!Hear
    <2>2. e \in Answers /\ answers' \in Seq(Answers)
      BY <1>0, <2>1 DEF SettingsTyped
    <2>3. /\ label' \in [model : AnyModel, mode : AnyMode]
          /\ label'.model = IF e.is = "model" THEN e.arg ELSE label.model
          /\ label'.mode = IF e.is = "mode" THEN e.arg ELSE label.mode
      <3> HIDE DEF e
      <3>1. /\ e.is = "model" => e.arg \in AnyModel
            /\ e.is = "mode" => e.arg \in AnyMode
        BY <2>2 DEF Answers
      <3> QED BY <1>0, <2>1, <3>1 DEF SettingsTyped
    <2>4. /\ WillShow("model", label.model, live.model) =>
                 WillShow("model", label.model, live.model)'
          /\ WillShow("mode", label.mode, live.mode) => WillShow("mode", label.mode, live.mode)'
      <3>1. PICK m, n, model : m = label.model /\ n = label'.model /\ model = live.model
        OBVIOUS
      <3>2. WillShow("model", m, model) => WillShow("model", n, model)'
        BY <1>0, <2>1, <2>3, <3>1, OneLess DEF SettingsTyped
      <3>3. PICK k, l, mode : k = label.mode /\ l = label'.mode /\ mode = live.mode
        OBVIOUS
      <3>4. WillShow("mode", k, mode) => WillShow("mode", l, mode)'
        BY <1>0, <2>1, <2>3, <3>3, OneLess DEF SettingsTyped
      <3> QED BY <1>1, <3>1, <3>2, <3>3, <3>4 DEF WillShow
    <2>5. \A kind : Waiting(kind) => Waiting(kind)'
      BY <2>1 DEF Waiting
    <2> QED BY <1>0, <1>1, <1>2, <2>1, <2>2, <2>3, <2>4, <2>5 DEF SelectionInv, SettingsTyped
  <1> QED BY <1>3, <1>4, <1>5, <1>6 DEF Settings!Client

(* A saved field, and the others.                                           *)
LEMMA Saved ==
    ASSUME SettingsTyped, NEW field \in {"model", "effort", "mode"}, NEW value,
           Settings!Save(field, value),
           field = "model" => value \in Models, field = "effort" => value \in AnyEffort,
           field = "mode" => value \in AnyMode
    PROVE  /\ file' \in [model : Models \cup {NoModel}, effort : AnyEffort, mode : AnyMode]
           /\ field # "model" => /\ file'.model = file.model
                                 /\ "model" \in unsaved' <=> "model" \in unsaved
           /\ field # "mode" => /\ file'.mode = file.mode
                                /\ "mode" \in unsaved' <=> "mode" \in unsaved
           /\ field = "model" => file'.model = value \/ "model" \in unsaved'
           /\ field = "mode" => file'.mode = value \/ "mode" \in unsaved'
  <1>1. CASE file' = [file EXCEPT ![field] = value] /\ unsaved' = unsaved \ {field}
    <2>1. CASE field = "model"
      BY <1>1, <2>1 DEF SettingsTyped
    <2>2. CASE field = "effort"
      BY <1>1, <2>2 DEF SettingsTyped
    <2>3. CASE field = "mode"
      BY <1>1, <2>3 DEF SettingsTyped
    <2> QED BY <2>1, <2>2, <2>3
  <1>2. CASE file' = file /\ unsaved' = unsaved \cup {field}
    BY <1>2 DEF SettingsTyped
  <1> QED BY <1>1, <1>2 DEF Settings!Save

(* A command is answered.                                                   *)
LEMMA Answered ==
    ASSUME SettingsTyped, NEW e \in Answers, Settings!Emit(e), label' = label
    PROVE  /\ answers' \in Seq(Answers)
           /\ e.is = "model" /\ live'.model = e.arg => WillShow("model", label.model, live.model)'
           /\ e.is = "mode" /\ live'.mode = e.arg => WillShow("mode", label.mode, live.mode)'
           /\ e.is # "model" /\ live'.model = live.model =>
                 (WillShow("model", label.model, live.model) => WillShow("model", label.model, live.model)')
           /\ e.is # "mode" /\ live'.mode = live.mode =>
                 (WillShow("mode", label.mode, live.mode) => WillShow("mode", label.mode, live.mode)')
  <1>1. PICK m, k, model, mode :
            m = label.model /\ k = label.mode /\ model = live'.model /\ mode = live'.mode
    OBVIOUS
  <1>2. /\ answers' \in Seq(Answers)
        /\ \A shown : WillShow(e.is, shown, e.arg)'
        /\ \A what, shown, real :
                  what # e.is /\ WillShow(what, shown, real) => WillShow(what, shown, real)'
    BY OneMore DEF SettingsTyped, Settings!Emit
  <1>3. /\ WillShow(e.is, m, e.arg)' /\ WillShow(e.is, k, e.arg)'
        /\ "model" # e.is /\ WillShow("model", m, model) => WillShow("model", m, model)'
        /\ "mode" # e.is /\ WillShow("mode", k, mode) => WillShow("mode", k, mode)'
    BY <1>2
  <1> QED BY <1>1, <1>2, <1>3 DEF WillShow

LEMMA HostKeeps ==
    ASSUME NoModel \notin Models, SelectionInv, Settings!Host PROVE SelectionInv'
  <1>0. SettingsTyped /\ Settings!Arg = Head(asks).arg /\ label' = label
    BY DEF SelectionInv, Settings!Arg, Settings!Host, Settings!SwitchRefused, Settings!ConnectFails,
       Settings!Switched, Settings!SetEffort, Settings!SetMode, Settings!ListProviders
  <1>1. CASE Settings!SwitchRefused \/ Settings!ConnectFails
    <2> DEFINE e == Settings!Say("error", Settings!Arg)
    <2>1. /\ Settings!Takes("switch") /\ Settings!Emit(e) /\ failed' = TRUE
          /\ UNCHANGED <<file, live, unsaved, fellBack>>
      BY <1>1 DEF Settings!SwitchRefused, Settings!ConnectFails, Settings!NotSaved
    <2>2. /\ asks' \in Seq(Choices) /\ Head(asks) \in Choices /\ Head(asks).op = "switch"
          /\ Waiting("mode") => Waiting("mode")'
      BY <1>0, <2>1, OneTaken DEF SettingsTyped
    <2>3. e \in Answers /\ e.is = "error"
      BY <1>0, <2>2, AnyModels DEF Settings!Say, Answers, Choices
    <2>4. /\ answers' \in Seq(Answers)
          /\ WillShow("mode", label.mode, live.mode) => WillShow("mode", label.mode, live.mode)'
      BY <1>0, <2>1, <2>3, Answered
    <2> QED BY <1>0, <2>1, <2>2, <2>4
      DEF SelectionInv, SettingsTyped, Excused, Settings!WhatRunsIsSaved, Settings!Told
  <1>2. CASE Settings!Switched
    <2> DEFINE e == Settings!Say("model", Settings!Arg)
    <2>1. /\ Settings!Takes("switch") /\ Settings!Emit(e)
          /\ live' = [live EXCEPT !.model = Settings!Arg, !.effort = Settings!NoEffort]
          /\ Settings!Save("model", Settings!Arg) /\ fellBack' = FALSE /\ failed' = FALSE
      BY <1>2 DEF Settings!Switched, Settings!Announce
    <2>2. /\ asks' \in Seq(Choices) /\ Head(asks) \in Choices /\ Head(asks).op = "switch"
          /\ Waiting("mode") => Waiting("mode")'
      BY <1>0, <2>1, OneTaken DEF SettingsTyped
    <2>3. Settings!Arg \in Models
      BY <1>0, <2>2 DEF Choices
    <2>4. e \in Answers /\ e.is = "model" /\ e.arg = Settings!Arg
      BY <2>3, AnyModels DEF Settings!Say, Answers
    <2>5. /\ live' \in [model : AnyModel, effort : AnyEffort, mode : AnyMode]
          /\ live'.model = Settings!Arg /\ live'.mode = live.mode
      BY <1>0, <2>1, <2>3, AnyModels DEF SettingsTyped, AnyEffort
    <2>6. /\ answers' \in Seq(Answers) /\ WillShow("model", label.model, live.model)'
          /\ WillShow("mode", label.mode, live.mode) => WillShow("mode", label.mode, live.mode)'
      BY <1>0, <2>1, <2>4, <2>5, Answered
    <2>7. /\ file' \in [model : Models \cup {NoModel}, effort : AnyEffort, mode : AnyMode]
          /\ file'.mode = file.mode /\ ("mode" \in unsaved' <=> "mode" \in unsaved)
          /\ file'.model = Settings!Arg \/ "model" \in unsaved'
      BY <1>0, <2>1, <2>3, Saved
    <2>8. Settings!WhatRunsIsSaved'
      BY <2>3, <2>5, <2>7 DEF SelectionInv, Settings!WhatRunsIsSaved, Settings!Told
    <2> QED BY <1>0, <2>2, <2>5, <2>6, <2>7, <2>8 DEF SelectionInv, SettingsTyped
  <1>3. CASE Settings!SetEffort
    <2>1. /\ Settings!Takes("effort")
          /\ live' = [live EXCEPT !.effort =
                         IF live.model = Mock THEN Settings!NoEffort ELSE Settings!Arg]
          /\ \/ /\ Settings!Save("effort", Settings!Arg)
                /\ Settings!Emit(Settings!Say("effort", Settings!Arg))
             \/ /\ UNCHANGED <<file, unsaved>>
                /\ Settings!Emit(Settings!Say("refused", Settings!Arg))
          /\ UNCHANGED <<fellBack, failed>>
      BY <1>3 DEF Settings!SetEffort
    <2>2. /\ asks' \in Seq(Choices) /\ Head(asks) \in Choices /\ Head(asks).op = "effort"
          /\ Waiting("mode") => Waiting("mode")'
          /\ Waiting("switch") => Waiting("switch")'
      BY <1>0, <2>1, OneTaken DEF SettingsTyped
    <2>3. Settings!Arg \in AnyEffort
      BY <1>0, <2>2 DEF Choices
    <2>4. PICK e \in Answers : e.is \notin {"model", "mode"} /\ Settings!Emit(e)
      <3>1. /\ Settings!Say("effort", Settings!Arg) \in Answers
            /\ Settings!Say("refused", Settings!Arg) \in Answers
            /\ Settings!Say("effort", Settings!Arg).is = "effort"
            /\ Settings!Say("refused", Settings!Arg).is = "refused"
        BY <2>3 DEF Settings!Say, Answers
      <3> QED BY <2>1, <3>1
    <2>5. /\ live' \in [model : AnyModel, effort : AnyEffort, mode : AnyMode]
          /\ live'.model = live.model /\ live'.mode = live.mode
      BY <1>0, <2>1, <2>3 DEF SettingsTyped, AnyEffort
    <2>6. /\ answers' \in Seq(Answers)
          /\ WillShow("model", label.model, live.model) =>
                 WillShow("model", label.model, live.model)'
          /\ WillShow("mode", label.mode, live.mode) => WillShow("mode", label.mode, live.mode)'
      BY <1>0, <2>4, <2>5, Answered
    <2>7. /\ file' \in [model : Models \cup {NoModel}, effort : AnyEffort, mode : AnyMode]
          /\ file'.mode = file.mode /\ ("mode" \in unsaved' <=> "mode" \in unsaved)
          /\ file'.model = file.model /\ ("model" \in unsaved' <=> "model" \in unsaved)
      <3>1. CASE Settings!Save("effort", Settings!Arg)
        BY <1>0, <2>3, <3>1, Saved
      <3>2. CASE UNCHANGED <<file, unsaved>>
        BY <1>0, <3>2 DEF SettingsTyped
      <3> QED BY <2>1, <3>1, <3>2
    <2>8. Settings!WhatRunsIsSaved' /\ (Excused => Excused')
      BY <2>1, <2>5, <2>7 DEF SelectionInv, Settings!WhatRunsIsSaved, Settings!Told, Excused
    <2> QED BY <1>0, <2>2, <2>5, <2>6, <2>7, <2>8 DEF SelectionInv, SettingsTyped
  <1>4. CASE Settings!SetMode
    <2> DEFINE e == Settings!Say("mode", Settings!Arg)
    <2>1. /\ Settings!Takes("mode") /\ Settings!Emit(e)
          /\ live' = [live EXCEPT !.mode = Settings!Arg]
          /\ Settings!Save("mode", Settings!Arg) /\ UNCHANGED <<fellBack, failed>>
      BY <1>4 DEF Settings!SetMode
    <2>2. /\ asks' \in Seq(Choices) /\ Head(asks) \in Choices /\ Head(asks).op = "mode"
          /\ Waiting("switch") => Waiting("switch")'
      BY <1>0, <2>1, OneTaken DEF SettingsTyped
    <2>3. Settings!Arg \in AnyMode
      BY <1>0, <2>2 DEF Choices, AnyMode
    <2>4. e \in Answers /\ e.is = "mode" /\ e.arg = Settings!Arg
      BY <2>3 DEF Settings!Say, Answers
    <2>5. /\ live' \in [model : AnyModel, effort : AnyEffort, mode : AnyMode]
          /\ live'.mode = Settings!Arg /\ live'.model = live.model
      BY <1>0, <2>1, <2>3 DEF SettingsTyped
    <2>6. /\ answers' \in Seq(Answers) /\ WillShow("mode", label.mode, live.mode)'
          /\ WillShow("model", label.model, live.model) =>
                 WillShow("model", label.model, live.model)'
      BY <1>0, <2>1, <2>4, <2>5, Answered
    <2>7. /\ file' \in [model : Models \cup {NoModel}, effort : AnyEffort, mode : AnyMode]
          /\ file'.model = file.model /\ ("model" \in unsaved' <=> "model" \in unsaved)
          /\ file'.mode = Settings!Arg \/ "mode" \in unsaved'
      BY <1>0, <2>1, <2>3, Saved
    <2>8. Settings!WhatRunsIsSaved' /\ (Excused => Excused')
      BY <2>1, <2>5, <2>7 DEF SelectionInv, Settings!WhatRunsIsSaved, Settings!Told, Excused
    <2> QED BY <1>0, <2>2, <2>5, <2>6, <2>7, <2>8 DEF SelectionInv, SettingsTyped
  <1>5. CASE Settings!ListProviders
    <2> DEFINE e == Settings!Say("providers", NoModel)
    <2>1. /\ Settings!Takes("list") /\ Settings!Emit(e)
          /\ UNCHANGED <<file, live, unsaved, fellBack, failed>>
      BY <1>5 DEF Settings!ListProviders
    <2>2. /\ asks' \in Seq(Choices)
          /\ Waiting("mode") => Waiting("mode")'
          /\ Waiting("switch") => Waiting("switch")'
      BY <1>0, <2>1, OneTaken DEF SettingsTyped
    <2>3. e \in Answers /\ e.is = "providers"
      BY AnyModels DEF Settings!Say, Answers
    <2>4. /\ answers' \in Seq(Answers)
          /\ WillShow("model", label.model, live.model) =>
                 WillShow("model", label.model, live.model)'
          /\ WillShow("mode", label.mode, live.mode) => WillShow("mode", label.mode, live.mode)'
      BY <1>0, <2>1, <2>3, Answered
    <2> QED BY <1>0, <2>1, <2>2, <2>4
      DEF SelectionInv, SettingsTyped, Excused, Settings!WhatRunsIsSaved, Settings!Told
  <1> QED BY <1>1, <1>2, <1>3, <1>4, <1>5 DEF Settings!Host

LEMMA RestartKeeps == ASSUME SelectionInv, Settings!Restart PROVE SelectionInv'
  <1> DEFINE m == file.model
  <1>1. /\ live' = [model |-> Settings!Started(m, usable), effort |-> Settings!NoEffort,
                    mode |-> file.mode]
        /\ label' = [model |-> NoModel, mode |-> file.mode] /\ file' = file
        /\ asks' = <<>> /\ answers' = Settings!State(m, file.mode)
        /\ fellBack' = (Settings!Started(m, usable) # Settings!Told(m))
    BY DEF Settings!Restart
  <1>2. m \in Models \cup {NoModel} /\ file.mode \in AnyMode
    BY DEF SelectionInv, SettingsTyped
  <1>3. Settings!Started(m, usable) \in AnyModel /\ NoModel \in AnyModel
    BY <1>2, AnyModels
  <1>4. PICK model, mode, told : model = m /\ mode = file.mode /\ told = Settings!Told(m)
    OBVIOUS
  <1>5. /\ answers' \in Seq(Answers)
        /\ \A shown : WillShow("model", shown, Settings!Told(model))'
        /\ \A shown : WillShow("mode", shown, mode)'
    BY <1>1, <1>2, <1>4, StartAnswers
  <1>6. SettingsTyped'
    BY <1>1, <1>2, <1>3, <1>5 DEF SelectionInv, SettingsTyped, AnyEffort
  <1>7. WillShow("mode", label.mode, live.mode)'
    BY <1>1, <1>4, <1>5 DEF WillShow
  <1>8. fellBack' \/ WillShow("model", label.model, live.model)'
    BY <1>1, <1>4, <1>5 DEF WillShow, Settings!Told
  <1>9. Settings!WhatRunsIsSaved'
    BY <1>1 DEF Settings!WhatRunsIsSaved, Settings!Told
  <1> QED BY <1>6, <1>7, <1>8, <1>9 DEF SelectionInv, Excused

LEMMA SelectionStep ==
    ASSUME NoModel \notin Models, SelectionInv, [Settings!Next]_mcSettingsVars PROVE SelectionInv'
  <1>1. CASE UNCHANGED mcSettingsVars \/ Settings!Credential
    BY <1>1 DEF mcSettingsVars, Settings!Credential, SelectionInv, SettingsTyped, Excused,
       Waiting, WillShow, Unheard, Newest, Settings!WhatRunsIsSaved, Settings!Told
  <1> QED BY <1>1, ClientKeeps, HostKeeps, RestartKeeps DEF Settings!Next

(* The file, the engine and the bar agree on the selection, for any models, *)
(* providers and modes and any number of choices on their way at once: the  *)
(* newest answer about a setting tells what runs (switch_model,             *)
(* UpdateConfig).  The value that stands for no model is not a model.       *)
THEOREM SelectionsAreTrue ==
    ASSUME NoModel \notin Models PROVE MCSpec => []SelectionIsTrue
  <1>1. MCInit => SelectionInv
    BY SelectionInit DEF MCInit
  <1>2. SelectionInv /\ [MCNext]_<<focus, services, fileVars>> => SelectionInv'
    BY SelectionStep DEF MCNext, services, fileVars
  <1>3. SelectionInv => SelectionIsTrue
    <2>1. answers = <<>> => /\ WillShow("model", label.model, live.model) => label.model = live.model
                            /\ WillShow("mode", label.mode, live.mode) => label.mode = live.mode
      BY DEF WillShow, Unheard
    <2>2. asks = <<>> => ~Waiting("switch") /\ ~Waiting("mode")
      BY DEF Waiting
    <2> QED BY <2>1, <2>2 DEF SelectionInv, SelectionIsTrue, Settings!SelectionIsTrue,
                             Settings!LabelsSettle, Excused
  <1> QED BY <1>1, <1>2, <1>3, PTL DEF MCSpec

-----------------------------------------------------------------------------
(* The context of the turns.                                                *)

TurnKinds == {"tool", "plain", "pruned", "summary", "no_summary"}
Turns == [at : Nat, kind : TurnKinds]
Phases == {"idle", "compact", "summarise", "running"}
Tries == {"no", "yes", "failed", "gave_up"}

ContextTyped ==
    /\ log \in Seq(Compact!Kinds)
    /\ phase \in [Compact!Actors -> Phases]
    /\ ctx \in [Compact!Actors -> Seq(Turns)]
    /\ tried \in [Runners -> Tries]

(* What waits for its summary still has its tail as the log has it ...      *)
Unpruned(turns) ==
    /\ MinTurns <= Len(turns) /\ Len(turns) <= Len(log)
    /\ \A i \in DOMAIN turns : i > Len(turns) - KeepTail => turns[i] = Compact!Turn(i, log[i])

(* ... and so has the turn that runs on the summary and that tail.          *)
Verbatim(turns) ==
    /\ Len(turns) = KeepTail + 1 /\ turns[1].at = 0
    /\ \A i \in 1 .. KeepTail :
          /\ turns[i + 1].at \in DOMAIN log /\ turns[i + 1].kind = log[turns[i + 1].at]
          /\ turns[i + 1].at = turns[2].at + i - 1

ContextInv ==
    /\ ContextTyped
    /\ \A a \in Compact!Actors : phase[a] = "summarise" => Unpruned(ctx[a])
    /\ \A r \in Runners : phase[r] = "running" /\ tried[r] = "yes" => Verbatim(ctx[r])

(* A session shorter than its tail is never compacted (context.rs: 2, 3).   *)
TailFits == KeepTail \in Nat /\ MinTurns \in Nat \ {0} /\ KeepTail <= MinTurns

LEMMA ContextInit == Compact!Init => ContextInv
  BY DEF Compact!Init, Compact!Actors, Compact!Kinds, ContextInv, ContextTyped, Phases, Tries

(* The log only grows.                                                      *)
LEMMA LogGrows ==
    ASSUME log \in Seq(Compact!Kinds), NEW kind \in Compact!Kinds, log' = Append(log, kind)
    PROVE  /\ log' \in Seq(Compact!Kinds) /\ Len(log) <= Len(log')
           /\ \A i \in DOMAIN log : i \in DOMAIN log' /\ log'[i] = log[i]
  OBVIOUS

LEMMA StillSo ==
    ASSUME TailFits, log \in Seq(Compact!Kinds), log' \in Seq(Compact!Kinds), Len(log) <= Len(log'),
           \A i \in DOMAIN log : i \in DOMAIN log' /\ log'[i] = log[i],
           NEW turns \in Seq(Turns)
    PROVE  (Unpruned(turns) => Unpruned(turns)') /\ (Verbatim(turns) => Verbatim(turns)')
  <1>1. ASSUME Unpruned(turns) PROVE Unpruned(turns)'
    <2>1. Len(turns) <= Len(log) /\ Len(turns) <= Len(log') /\ \A i \in DOMAIN turns : i \in DOMAIN log
      BY <1>1 DEF Unpruned
    <2> QED BY <1>1, <2>1 DEF Unpruned, Compact!Turn
  <1>2. ASSUME Verbatim(turns) PROVE Verbatim(turns)'
    BY <1>2 DEF Verbatim
  <1> QED BY <1>1, <1>2

LEMMA StoredTurns ==
    ASSUME log \in Seq(Compact!Kinds)
    PROVE  /\ Compact!Stored \in Seq(Turns) /\ Len(Compact!Stored) = Len(log)
           /\ \A i \in DOMAIN log : Compact!Stored[i] = Compact!Turn(i, log[i])
           /\ DOMAIN Compact!Stored = DOMAIN log
  <1>1. DOMAIN log = 1 .. Len(log) /\ Len(log) \in Nat /\ \A i \in DOMAIN log : log[i] \in Compact!Kinds
    OBVIOUS
  <1>2. \A kind \in Compact!Kinds, i \in Nat : Compact!Turn(i, kind) \in Turns
    BY DEF Compact!Turn, Turns, TurnKinds, Compact!Kinds
  <1>3. \A i \in 1 .. Len(log) : Compact!Turn(i, log[i]) \in Turns
    BY <1>1, <1>2
  <1> DEFINE s == [i \in 1 .. Len(log) |-> Compact!Turn(i, log[i])]
  <1>4. s \in Seq(Turns) /\ Len(s) = Len(log) /\ DOMAIN s = 1 .. Len(log)
    BY <1>1, <1>3, SeqDef
  <1>5. Compact!Stored = s
    BY <1>1 DEF Compact!Stored
  <1> QED BY <1>1, <1>4, <1>5

LEMMA PrunedTurns ==
    ASSUME TailFits, log \in Seq(Compact!Kinds), MinTurns <= Len(log)
    PROVE  Compact!Pruned(Compact!Stored) \in Seq(Turns) /\ Unpruned(Compact!Pruned(Compact!Stored))
  <1> PICK s : s = Compact!Stored
    OBVIOUS
  <1>1. /\ DOMAIN log = 1 .. Len(log) /\ Len(log) \in Nat
        /\ s \in Seq(Turns) /\ Len(s) = Len(log) /\ DOMAIN s = 1 .. Len(log)
        /\ \A i \in DOMAIN s : s[i] = Compact!Turn(i, log[i])
    <2>1. DOMAIN log = 1 .. Len(log) /\ Len(log) \in Nat
      OBVIOUS
    <2> QED BY <2>1, StoredTurns
  <1>2. \A turn \in Turns : Compact!Turn(turn.at, "pruned") \in Turns
    BY DEF Compact!Turn, Turns, TurnKinds
  <1>3. \A i \in DOMAIN s : s[i] \in Turns
    BY <1>1
  <1> DEFINE p == [i \in 1 .. Len(log) |-> IF i <= Compact!Cutoff(s) /\ s[i].kind = "tool"
                                           THEN Compact!Turn(s[i].at, "pruned") ELSE s[i]]
  <1>4. Compact!Pruned(Compact!Stored) = p
    BY <1>1 DEF Compact!Pruned
  <1>5. \A i \in 1 .. Len(log) : p[i] \in Turns
    BY <1>1, <1>2, <1>3
  <1>6. p \in [1 .. Len(log) -> Turns] /\ DOMAIN p = 1 .. Len(log)
    BY <1>5
  <1>7. p \in Seq(Turns) /\ Len(p) = Len(log)
    BY <1>1, <1>6, SeqDef
  <1>8. ASSUME NEW i \in DOMAIN p, i > Len(p) - KeepTail PROVE p[i] = Compact!Turn(i, log[i])
    <2>1. ~(i <= Compact!Cutoff(s)) /\ i \in 1 .. Len(log)
      BY <1>1, <1>6, <1>7, <1>8 DEF Compact!Cutoff, TailFits
    <2>2. p[i] = s[i]
      BY <2>1
    <2> QED BY <1>1, <2>1, <2>2
  <1> HIDE DEF p
  <1>9. Unpruned(p)
    BY <1>1, <1>7, <1>8 DEF Unpruned
  <1> QED BY <1>4, <1>7, <1>9

LEMMA CompactedTurns ==
    ASSUME TailFits, log \in Seq(Compact!Kinds), NEW turns \in Seq(Turns), Unpruned(turns),
           NEW said \in {"summary", "no_summary"}
    PROVE  /\ Compact!Compacted(turns, said) \in Seq(Turns)
           /\ Verbatim(Compact!Compacted(turns, said))
  <1> PICK n, len : n = Len(turns) - KeepTail /\ len = Len(turns)
    OBVIOUS
  <1>1. Len(turns) \in Nat /\ DOMAIN turns = 1 .. Len(turns) /\ Len(log) \in Nat /\ DOMAIN log = 1 .. Len(log)
    OBVIOUS
  <1>2. len \in Nat /\ n \in Nat /\ KeepTail \in Nat /\ len = n + KeepTail /\ len <= Len(log)
    BY <1>1 DEF Unpruned, TailFits
  <1> PICK t : t = Compact!TailTurns(turns)
    OBVIOUS
  <1>3. t \in Seq(Turns) /\ Len(t) = KeepTail /\ \A i \in 1 .. KeepTail : t[i] = turns[n + i]
    <2>1. t = SubSeq(turns, n + 1, len)
      <3>1. (IF Len(turns) > KeepTail THEN Len(turns) - KeepTail + 1 ELSE 1) = n + 1
        BY <1>1, <1>2
      <3> QED BY <3>1 DEF Compact!TailTurns
    <2>2. SubSeq(turns, n + 1, len) = [i \in 1 .. KeepTail |-> turns[n + i]]
      BY <1>1, <1>2
    <2>3. \A i \in 1 .. KeepTail : n + i \in DOMAIN turns
      BY <1>1, <1>2
    <2>4. \A i \in DOMAIN turns : turns[i] \in Turns
      OBVIOUS
    <2>5. t \in [1 .. KeepTail -> Turns]
      BY <2>1, <2>2, <2>3, <2>4
    <2> QED BY <1>2, <2>1, <2>2, <2>5, SeqDef
  <1> PICK first : first = Compact!Turn(0, said)
    OBVIOUS
  <1>4. first \in Turns /\ first.at = 0
    BY DEF Compact!Turn, Turns, TurnKinds
  <1> PICK c : c = <<first>> \o t
    OBVIOUS
  <1>5. Compact!Compacted(turns, said) = c
    BY DEF Compact!Compacted
  <1>6. c \in Seq(Turns) /\ Len(c) = KeepTail + 1
    BY <1>2, <1>3, <1>4
  <1>7. c[1] = first /\ \A i \in 1 .. KeepTail : c[i + 1] = t[i]
    BY <1>2, <1>3, <1>4
  <1>8. ASSUME NEW i \in 1 .. KeepTail
        PROVE  c[i + 1].at = n + i /\ n + i \in DOMAIN log /\ c[i + 1].kind = log[n + i]
    <2>1. n + i \in DOMAIN turns /\ n + i > Len(turns) - KeepTail /\ n + i \in DOMAIN log
      BY <1>1, <1>2
    <2>2. turns[n + i] = Compact!Turn(n + i, log[n + i])
      BY <2>1 DEF Unpruned
    <2>3. c[i + 1] = Compact!Turn(n + i, log[n + i])
      BY <1>3, <1>7, <2>2
    <2> PICK turn, at, kind : turn = c[i + 1] /\ at = n + i /\ kind = log[n + i]
      OBVIOUS
    <2>4. turn = Compact!Turn(at, kind)
      BY <2>3
    <2>5. turn.at = at /\ turn.kind = kind
      <3>1. turn = [at |-> at, kind |-> kind]
        BY <2>4 DEF Compact!Turn
      <3> QED BY ONLY <3>1
    <2> QED BY <2>1, <2>5
  <1>9. \A i \in 1 .. KeepTail : c[i + 1].at = c[2].at + i - 1
    <2> SUFFICES ASSUME NEW i \in 1 .. KeepTail PROVE c[i + 1].at = c[2].at + i - 1
      OBVIOUS
    <2>1. 1 \in 1 .. KeepTail /\ 1 + 1 = 2
      BY <1>2
    <2>2. c[2].at = n + 1
      BY <1>8, <2>1
    <2>3. c[i + 1].at = n + i
      BY <1>8
    <2>4. n + i = (n + 1) + i - 1
      BY <1>2
    <2> QED BY <2>2, <2>3, <2>4, Zenon
  <1>10. Verbatim(c)
    BY <1>4, <1>6, <1>7, <1>8, <1>9 DEF Verbatim
  <1> QED BY <1>5, <1>6, <1>10

(* One runner, or the host, moves: its phase and its context change, and    *)
(* the log may grow.                                                        *)
LEMMA OneMoves ==
    ASSUME TailFits, ContextInv, NEW a \in Compact!Actors, NEW next \in Phases, NEW turns \in Seq(Turns),
           phase' = [phase EXCEPT ![a] = next], ctx' = [ctx EXCEPT ![a] = turns],
           tried' \in [Runners -> Tries], \A r \in Runners : r # a => tried'[r] = tried[r],
           log' \in Seq(Compact!Kinds), Len(log) <= Len(log'),
           \A i \in DOMAIN log : i \in DOMAIN log' /\ log'[i] = log[i],
           next = "summarise" => Unpruned(turns)',
           next = "running" /\ a \in Runners /\ tried'[a] = "yes" => Verbatim(turns)'
    PROVE  ContextInv'
  <1>1. phase \in [Compact!Actors -> Phases] /\ ctx \in [Compact!Actors -> Seq(Turns)]
    BY DEF ContextInv, ContextTyped
  <1>2. /\ phase' \in [Compact!Actors -> Phases] /\ ctx' \in [Compact!Actors -> Seq(Turns)]
        /\ phase'[a] = next /\ ctx'[a] = turns
        /\ \A b \in Compact!Actors : b # a => phase'[b] = phase[b] /\ ctx'[b] = ctx[b]
    BY <1>1
  <1>3. ContextTyped'
    BY <1>2 DEF ContextTyped, Compact!Actors, Compact!Host
  <1>4. \A old \in Seq(Turns) : (Unpruned(old) => Unpruned(old)') /\ (Verbatim(old) => Verbatim(old)')
    BY StillSo DEF ContextInv, ContextTyped
  <1>5. ASSUME NEW b \in Compact!Actors, phase'[b] = "summarise" PROVE Unpruned(ctx[b])'
    <2> PICK new : new = ctx'[b]
      OBVIOUS
    <2>1. Unpruned(new)'
      <3>1. CASE b = a
        BY <1>2, <1>5, <3>1
      <3>2. CASE b # a
        <4>1. new = ctx[b] /\ phase[b] = "summarise"
          BY <1>2, <1>5, <3>2
        <4> QED BY <1>1, <1>4, <4>1 DEF ContextInv
      <3> QED BY <3>1, <3>2
    <2> QED BY <2>1 DEF Unpruned
  <1>6. ASSUME NEW r \in Runners, phase'[r] = "running", tried'[r] = "yes" PROVE Verbatim(ctx[r])'
    <2> PICK new : new = ctx'[r]
      OBVIOUS
    <2>0. r \in Compact!Actors
      BY DEF Compact!Actors
    <2>1. Verbatim(new)'
      <3>1. CASE r = a
        BY <1>2, <1>6, <3>1
      <3>2. CASE r # a
        <4>1. new = ctx[r] /\ phase[r] = "running" /\ tried[r] = "yes"
          BY <1>2, <1>6, <2>0, <3>2
        <4> QED BY <1>1, <1>4, <2>0, <4>1 DEF ContextInv
      <3> QED BY <3>1, <3>2
    <2> QED BY <2>1 DEF Verbatim
  <1> QED BY <1>3, <1>5, <1>6 DEF ContextInv

(* What the log may do in a step: nothing, or grow by a turn.               *)
LEMMA LogMoves ==
    ASSUME log \in Seq(Compact!Kinds),
           \/ UNCHANGED log
           \/ \E kind \in Compact!Kinds : log' = Append(log, kind)
    PROVE  /\ log' \in Seq(Compact!Kinds) /\ Len(log) <= Len(log')
           /\ \A i \in DOMAIN log : i \in DOMAIN log' /\ log'[i] = log[i]
  <1>1. CASE UNCHANGED log
    BY <1>1
  <1>2. CASE \E kind \in Compact!Kinds : log' = Append(log, kind)
    BY <1>2, LogGrows
  <1> QED BY <1>1, <1>2

LEMMA TurnKeepsContext ==
    ASSUME TailFits, ContextInv, NEW r \in Runners, Compact!RunnerStep(r) PROVE ContextInv'
  <1>1. /\ log \in Seq(Compact!Kinds) /\ ctx \in [Compact!Actors -> Seq(Turns)]
        /\ tried \in [Runners -> Tries] /\ r \in Compact!Actors /\ ctx[r] \in Seq(Turns)
    BY DEF ContextInv, ContextTyped, Compact!Actors
  <1>2. {"compact", "running", "idle"} \subseteq Phases /\ <<>> \in Seq(Turns)
    BY DEF Phases
  <1>3. ASSUME NEW try \in Tries, tried' = [tried EXCEPT ![r] = try]
        PROVE  /\ tried' \in [Runners -> Tries] /\ tried'[r] = try
               /\ \A other \in Runners : other # r => tried'[other] = tried[other]
    BY <1>1, <1>3
  <1>4. CASE Compact!StartTurn(r)
    <2> PICK next, turns, try :
            /\ next \in {"compact", "running"} /\ turns = Compact!Stored /\ try \in {"gave_up", "no"}
            /\ phase' = [phase EXCEPT ![r] = next] /\ ctx' = [ctx EXCEPT ![r] = turns]
            /\ tried' = [tried EXCEPT ![r] = try] /\ UNCHANGED log
      BY <1>4 DEF Compact!StartTurn
    <2>1. turns \in Seq(Turns) /\ try \in Tries /\ next \in Phases
      BY <1>1, StoredTurns DEF Tries, Phases
    <2> QED BY <1>1, <1>3, <2>1, LogMoves, OneMoves
  <1>5. CASE Compact!CompactFails(r)
    <2> PICK turns : turns = ctx[r]
      OBVIOUS
    <2>1. /\ phase' = [phase EXCEPT ![r] = "running"] /\ ctx' = [ctx EXCEPT ![r] = turns]
          /\ tried' = [tried EXCEPT ![r] = "failed"] /\ UNCHANGED log /\ "failed" \in Tries
      BY <1>1, <1>5 DEF Compact!CompactFails, Tries
    <2> QED BY <1>1, <1>2, <1>3, <2>1, LogMoves, OneMoves
  <1>6. CASE Compact!CompactSucceeds(r)
    <2> PICK said \in {"summary", "no_summary"} :
            ctx' = [ctx EXCEPT ![r] = Compact!Compacted(ctx[r], said)]
      BY <1>6 DEF Compact!CompactSucceeds
    <2>1. /\ phase[r] = "summarise" /\ phase' = [phase EXCEPT ![r] = "running"]
          /\ tried' = [tried EXCEPT ![r] = "yes"] /\ "yes" \in Tries
          /\ UNCHANGED log \/ \E kind \in Compact!Kinds : log' = Append(log, kind)
      BY <1>6 DEF Compact!CompactSucceeds, Compact!Kinds, Tries
    <2> PICK old, turns : old = ctx[r] /\ turns = Compact!Compacted(old, said)
      OBVIOUS
    <2>2. Unpruned(old)
      BY <1>1, <2>1 DEF ContextInv
    <2>3. turns \in Seq(Turns) /\ Verbatim(turns)
      BY <1>1, <2>2, CompactedTurns
    <2>4. Verbatim(turns)'
      BY <1>1, <2>1, <2>3, LogMoves, StillSo
    <2> QED BY <1>1, <1>2, <1>3, <2>1, <2>3, <2>4, LogMoves, OneMoves
  <1>7. CASE Compact!EndTurn(r)
    <2>1. /\ phase' = [phase EXCEPT ![r] = "idle"] /\ ctx' = [ctx EXCEPT ![r] = <<>>]
          /\ tried' = [tried EXCEPT ![r] = "no"] /\ "no" \in Tries
          /\ UNCHANGED log \/ \E kind \in Compact!Kinds : log' = Append(log, kind)
      BY <1>7 DEF Compact!EndTurn, Tries
    <2> QED BY <1>1, <1>2, <1>3, <2>1, LogMoves, OneMoves
  <1> QED BY <1>4, <1>5, <1>6, <1>7 DEF Compact!RunnerStep

LEMMA SummaryKeepsContext ==
    ASSUME TailFits, ContextInv, NEW a \in Compact!Actors, Compact!Summarise(a) PROVE ContextInv'
  <1> PICK turns : turns = Compact!Pruned(Compact!Stored)
    OBVIOUS
  <1>1. /\ MinTurns <= Len(log) /\ log \in Seq(Compact!Kinds) /\ UNCHANGED log
        /\ phase' = [phase EXCEPT ![a] = "summarise"] /\ ctx' = [ctx EXCEPT ![a] = turns]
        /\ tried' = tried /\ tried \in [Runners -> Tries] /\ "summarise" \in Phases
    <2>1. MinTurns <= Len(log)
      BY DEF Compact!Summarise, TailFits, ContextInv, ContextTyped
    <2> QED BY <2>1 DEF Compact!Summarise, ContextInv, ContextTyped, Phases
  <1>2. turns \in Seq(Turns) /\ Unpruned(turns)
    BY <1>1, PrunedTurns
  <1>3. Unpruned(turns)'
    BY <1>1, <1>2, LogMoves, StillSo
  <1> QED BY <1>1, <1>2, <1>3, LogMoves, OneMoves

LEMMA HostKeepsContext ==
    ASSUME TailFits, ContextInv, Compact!HostStep PROVE ContextInv'
  <1> PICK host : host = Compact!Host
    OBVIOUS
  <1>1. /\ log \in Seq(Compact!Kinds) /\ ctx \in [Compact!Actors -> Seq(Turns)] /\ host \in Compact!Actors
        /\ phase \in [Compact!Actors -> Phases] /\ tried \in [Runners -> Tries]
    BY DEF ContextInv, ContextTyped, Compact!Actors
  <1>2. UNCHANGED <<log, tried>>
    BY DEF Compact!HostStep, Compact!SetWindow, Compact!HostCompact, Compact!HostRefused, Compact!HostCompacted
  <1>3. CASE Compact!SetWindow
    <2> PICK next, turns : next = phase[host] /\ turns = ctx[host]
      OBVIOUS
    <2>1. UNCHANGED <<log, phase, ctx, tried>>
      BY <1>3 DEF Compact!SetWindow
    <2> QED BY <2>1 DEF ContextInv, ContextTyped, Unpruned, Verbatim
  <1>4. ASSUME ~Compact!SetWindow PROVE ContextInv'
    <2> PICK next \in {"idle", "compact"}, turns \in Seq(Turns) :
            phase' = [phase EXCEPT ![host] = next] /\ ctx' = [ctx EXCEPT ![host] = turns]
      <3>1. CASE Compact!HostCompact \/ Compact!HostRefused
        <4>1. ctx' = [ctx EXCEPT ![host] = ctx[host]] /\ ctx[host] \in Seq(Turns)
          BY <1>1, <3>1 DEF Compact!HostCompact, Compact!HostRefused
        <4> QED BY <3>1, <4>1 DEF Compact!HostCompact, Compact!HostRefused
      <3>2. CASE Compact!HostCompacted
        <4>1. <<>> \in Seq(Turns)
          OBVIOUS
        <4> QED BY <3>2, <4>1 DEF Compact!HostCompacted, Compact!Host
      <3> QED BY <1>4, <3>1, <3>2 DEF Compact!HostStep
    <2>1. next \in Phases /\ next # "summarise" /\ next # "running"
      BY DEF Phases
    <2> QED BY <1>1, <1>2, <2>1, LogMoves, OneMoves
  <1> QED BY <1>3, <1>4

LEMMA ContextStep ==
    ASSUME TailFits, ContextInv, [Compact!Next]_mcCompactVars PROVE ContextInv'
  <1>1. CASE UNCHANGED mcCompactVars
    BY <1>1 DEF mcCompactVars, ContextInv, ContextTyped, Unpruned, Verbatim
  <1> QED BY <1>1, TurnKeepsContext, SummaryKeepsContext, HostKeepsContext DEF Compact!Next

(* A compacted turn runs on one summary and the last turns of the log, word *)
(* for word, for any number of subagents on the same log, any windows and   *)
(* any weights (compacted, prune_transcript).                               *)
THEOREM TailsAreVerbatim == ASSUME TailFits PROVE MCSpec => []TailIsVerbatim
  <1>1. MCInit => ContextInv
    BY ContextInit DEF MCInit
  <1>2. ContextInv /\ [MCNext]_<<focus, services, fileVars>> => ContextInv'
    BY ContextStep DEF MCNext, services, fileVars
  <1>3. ContextInv => TailIsVerbatim
    <2> SUFFICES ASSUME ContextInv, NEW r \in Runners, phase[r] = "running", tried[r] = "yes"
                 PROVE  /\ Head(ctx[r]).at = 0 /\ Len(Tail(ctx[r])) = KeepTail
                        /\ \A i \in DOMAIN Tail(ctx[r]) :
                              /\ Tail(ctx[r])[i].kind = log[Tail(ctx[r])[i].at]
                              /\ Tail(ctx[r])[i].at = Tail(ctx[r])[1].at + i - 1
      BY DEF TailIsVerbatim, Compact!TailIsVerbatim
    <2> PICK turns : turns = ctx[r]
      OBVIOUS
    <2>1. turns \in Seq(Turns) /\ Verbatim(turns) /\ KeepTail \in Nat
      BY DEF ContextInv, ContextTyped, Compact!Actors, TailFits
    <2>2. /\ Len(turns) = KeepTail + 1 /\ turns # <<>> /\ Head(turns) = turns[1] /\ turns[1].at = 0
      BY <2>1 DEF Verbatim
    <2> PICK tail : tail = Tail(turns)
      OBVIOUS
    <2>3. Len(tail) = KeepTail /\ DOMAIN tail = 1 .. KeepTail
      BY <2>1, <2>2
    <2>4. \A i \in 1 .. KeepTail : tail[i] = turns[i + 1]
      BY <2>1, <2>2
    <2>5. ASSUME NEW i \in 1 .. KeepTail
          PROVE  tail[i].kind = log[tail[i].at] /\ tail[i].at = tail[1].at + i - 1
      <3>1. 1 \in 1 .. KeepTail /\ 1 + 1 = 2
        BY <2>1
      <3>2. tail[1] = turns[2] /\ tail[i] = turns[i + 1]
        BY <2>4, <3>1
      <3>3. turns[i + 1].kind = log[turns[i + 1].at] /\ turns[i + 1].at = turns[2].at + i - 1
        BY <2>1 DEF Verbatim
      <3> QED BY <3>2, <3>3, Zenon
    <2> QED BY <2>2, <2>3, <2>5
  <1> QED BY <1>1, <1>2, <1>3, PTL DEF MCSpec

(* A turn starts on more than its window holds only if the session is young *)
(* or the compaction was tried, or given up, for that turn (maybe_compact). *)
THEOREM LongTurnsGetCompacted == ASSUME TailFits PROVE MCSpec => LongTurnsAreCompacted
  <1>1. MCInit => ContextInv
    BY ContextInit DEF MCInit
  <1>2. ContextInv /\ [MCNext]_<<focus, services, fileVars>> => ContextInv'
    BY ContextStep DEF MCNext, services, fileVars
  <1>3. ContextInv /\ [MCNext]_<<focus, services, fileVars>> =>
          [\A r \in Runners :
              phase[r] # "running" /\ phase'[r] = "running" /\ Compact!Weighs(ctx'[r]) > window =>
                  \/ Len(ctx'[r]) < MinTurns
                  \/ tried'[r] \in {"yes", "failed", "gave_up"}]_Compact!compactVars
    <2> SUFFICES ASSUME ContextInv, [MCNext]_<<focus, services, fileVars>>,
                        ~UNCHANGED Compact!compactVars, NEW r \in Runners,
                        phase[r] # "running", phase'[r] = "running",
                        Compact!Weighs(ctx'[r]) > window
                 PROVE  \/ Len(ctx'[r]) < MinTurns
                        \/ tried'[r] \in {"yes", "failed", "gave_up"}
      OBVIOUS
    <2>1. /\ log \in Seq(Compact!Kinds) /\ r \in Compact!Actors /\ phase \in [Compact!Actors -> Phases]
          /\ ctx \in [Compact!Actors -> Seq(Turns)] /\ tried \in [Runners -> Tries]
      BY DEF ContextInv, ContextTyped, Compact!Actors
    <2>2. Compact!Next
      BY DEF MCNext, services, fileVars, mcCompactVars, Compact!compactVars
    <2>3. PICK mover \in Runners : Compact!RunnerStep(mover)
      <3>1. ~\E a \in Compact!Actors : Compact!Summarise(a)
        BY <2>1 DEF Compact!Summarise
      <3>2. ~Compact!HostStep
        BY <2>1 DEF Compact!HostStep, Compact!SetWindow, Compact!HostCompact, Compact!HostRefused,
           Compact!HostCompacted
      <3> QED BY <2>2, <3>1, <3>2 DEF Compact!Next
    <2>4. mover = r
      BY <2>1, <2>3 DEF Compact!RunnerStep, Compact!StartTurn, Compact!CompactFails,
         Compact!CompactSucceeds, Compact!EndTurn
    <2>5. ~Compact!EndTurn(r)
      BY <2>1 DEF Compact!EndTurn
    <2>6. CASE Compact!CompactFails(r) \/ Compact!CompactSucceeds(r)
      BY <2>1, <2>6 DEF Compact!CompactFails, Compact!CompactSucceeds
    <2>7. CASE Compact!StartTurn(r)
      <3> PICK s : s = Compact!Stored
        OBVIOUS
      <3>1. ctx'[r] = s /\ tried'[r] = IF Compact!GaveUp THEN "gave_up" ELSE "no"
        BY <2>1, <2>7 DEF Compact!StartTurn
      <3>2. ~(s # <<>> /\ ~Compact!GaveUp /\ Compact!Demanded(s))
        BY <2>1, <2>7 DEF Compact!StartTurn
      <3>3. CASE s = <<>>
        BY <3>1, <3>3 DEF TailFits
      <3>4. CASE Compact!GaveUp
        BY <3>1, <3>4
      <3>5. CASE ~Compact!Demanded(s)
        <4>1. Compact!Weighs(s) > window /\ s \in Seq(Turns)
          BY <2>1, <3>1, StoredTurns
        <4>2. ~(Len(s) >= MinTurns)
          BY <3>5, <4>1 DEF Compact!Demanded, Compact!ShouldCompact
        <4> QED BY <3>1, <4>1, <4>2 DEF TailFits
      <3> QED BY <3>2, <3>3, <3>4, <3>5
    <2> QED BY <2>3, <2>4, <2>5, <2>6, <2>7 DEF Compact!RunnerStep
  <1> QED BY <1>1, <1>2, <1>3, PTL DEF MCSpec, LongTurnsAreCompacted, Compact!LongTurnsAreCompacted
=============================================================================
