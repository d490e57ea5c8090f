-------------------------------- MODULE MCHost --------------------------------
(* The host's services for TLC, one at a time: connecting a provider, the   *)
(* context of the turns, the settings commands, the listing of models, and  *)
(* the files turya keeps: credentials, settings, sessions, its own binary.  *)
(* They share no state that one of them leaves between two steps.           *)
EXTENDS Naturals

CONSTANTS
    Providers, MaxFlows, MaxCmds, MaxEvents,
    Runners, Windows, Heavy, KeepTail, MinTurns, MaxFailures, MaxLog,
    Levels, Modes, Keyless, Unwritable,
    Processes, Accounts, Secrets, MaxWeather, Fields, Values, MaxForeign,
    Openers, MaxFiles, Starts,
    LoginProviders,                              \* of AuthFlows
    Models, Home, Default, Static, First, Advertised, NoModel, Mock,
    MaxAsks, MaxAnswers,                         \* of HostCommands
    StaticLists, BuiltinLists, LiveLists,        \* of ModelCatalog
    Writers,                                     \* of CredentialStores
    Versions, FirstVersion, RunFrom              \* of SelfUpdate

VARIABLES
    focus,
    dialog, cmds, events, flowSeq, flows, made, task, aborted, key, refresh,
    log, window, deferred, failures, phase, ctx, tried, freed,
    file, live, budget, cached, usable, label, asks, answers, unsaved, fellBack, failed,
    keys, cache, facts, job, rows, offered, unwritten, asked,
    mood, weather, keychain, store, whole, op, forgotten, promised, cut,
    path, backup, proc, foreign, kept, collided,
    dbs, turyaDb, backups, opener, raced,
    binaries, update, staged

Auth == INSTANCE AuthFlows WITH Providers <- LoginProviders
Compact == INSTANCE Compaction
Settings == INSTANCE HostCommands WITH
    MaxCmds <- MaxAsks, MaxEvents <- MaxAnswers,
    window <- budget, cmds <- asks, events <- answers
Listing == INSTANCE ModelCatalog WITH
    Static <- StaticLists, Builtin <- BuiltinLists, Live <- LiveLists
Credentials == INSTANCE CredentialStores WITH Processes <- Writers
Config == INSTANCE SettingsFile WITH raced <- collided
Opening == INSTANCE StoreOpening WITH path <- turyaDb
Update == INSTANCE SelfUpdate WITH First <- FirstVersion, files <- binaries, job <- update

\* Two models of one provider: its static default, and one only its server
\* lists; each advertises another effort.
HomeOf == <<1, 1>>
DefaultOf == <<1>>
AdvertisedBy == <<{"high"}, {"low"}>>

\* A provider with a key and one without, of which neither the catalog nor the
\* plugin names a model.  Of the first both name one, each names another, and
\* its server lists one of the catalog's and one that only it knows.
StaticOf == [p \in Providers |-> IF p \in Keyless THEN {} ELSE {1, 3}]
BuiltinOf == [p \in Providers |-> IF p \in Keyless THEN {} ELSE {1, 4}]
LiveOf == [p \in Providers |-> IF p \in Keyless THEN {3, 4} ELSE {1, 2}]

\* Two releases of one major version and one of the next.
Releases == {<<0, 1>>, <<0, 2>>, <<1, 0>>}
FirstRelease == <<0, 1>>

mcAuthVars == <<dialog, cmds, events, flowSeq, flows, made, task, aborted, key, refresh>>
mcCompactVars == <<log, window, deferred, failures, phase, ctx, tried, freed>>
mcSettingsVars == <<file, live, budget, cached, usable, label, asks, answers,
                    unsaved, fellBack, failed>>
mcListingVars == <<keys, cache, facts, job, rows, offered, unwritten, asked>>

mcCredVars == <<mood, weather, keychain, store, whole, op, forgotten, promised, cut>>
mcConfigVars == <<path, backup, proc, foreign, kept, collided>>
mcOpeningVars == <<dbs, turyaDb, backups, opener, raced>>
mcUpdateVars == <<binaries, update, staged>>

services == <<mcAuthVars, mcCompactVars, mcSettingsVars, mcListingVars>>
fileVars == <<mcCredVars, mcConfigVars, mcOpeningVars, mcUpdateVars>>

MCInit ==
    /\ focus \in {"auth", "compact", "settings", "listing",
                  "credentials", "config", "opening", "update"}
    /\ Auth!Init /\ Compact!Init /\ Settings!Init /\ Listing!Init
    /\ Credentials!Init /\ Config!Init /\ Opening!Init /\ Update!Init
    /\ focus # "opening" => dbs = <<>>
    /\ focus # "compact" => \A w \in Windows : window <= w
    /\ focus # "settings" => usable = {}
    /\ focus # "listing" => keys = {}

MCNext ==
    /\ \/ /\ focus = "auth" /\ Auth!Next
          /\ UNCHANGED <<mcCompactVars, mcSettingsVars, mcListingVars, fileVars>>
       \/ /\ focus = "compact" /\ Compact!Next
          /\ UNCHANGED <<mcAuthVars, mcSettingsVars, mcListingVars, fileVars>>
       \/ /\ focus = "settings" /\ Settings!Next
          /\ UNCHANGED <<mcAuthVars, mcCompactVars, mcListingVars, fileVars>>
       \/ /\ focus = "listing" /\ Listing!Next
          /\ UNCHANGED <<mcAuthVars, mcCompactVars, mcSettingsVars, fileVars>>
       \/ /\ focus = "credentials" /\ Credentials!Next
          /\ UNCHANGED <<services, mcConfigVars, mcOpeningVars, mcUpdateVars>>
       \/ /\ focus = "config" /\ Config!Next
          /\ UNCHANGED <<services, mcCredVars, mcOpeningVars, mcUpdateVars>>
       \/ /\ focus = "opening" /\ Opening!Next
          /\ UNCHANGED <<services, mcCredVars, mcConfigVars, mcUpdateVars>>
       \/ /\ focus = "update" /\ Update!Next
          /\ UNCHANGED <<services, mcCredVars, mcConfigVars, mcOpeningVars>>
    /\ UNCHANGED focus

MCSpec == MCInit /\ [][MCNext]_<<focus, services, fileVars>>

\* A browser task stores a token only for a live flow (AuthFlows).
OnlyLiveFlowsStore == Auth!OnlyLiveFlowsStore

\* A dialog that asks, asks for a flow the host still has (AuthFlows).
PromptsAreLive == focus = "auth" => Auth!PromptsAreLive

\* The last turns reach the model word for word (Compaction).
TailIsVerbatim == focus = "compact" => Compact!TailIsVerbatim

\* A turn over the window was compacted, or could not be (Compaction).
LongTurnsAreCompacted == Compact!LongTurnsAreCompacted

\* The model and the mode that run are the saved ones, and the bar settles on
\* them (HostCommands).
SelectionIsTrue == focus = "settings" => Settings!SelectionIsTrue

\* A model a server listed and the browser offers is accepted by the switch, and
\* nobody is asked without a key, if they need one (ModelCatalog).
ListingIsHonest == focus = "listing" => Listing!ListingIsHonest

\* Every model the browser offers of a provider the user may use is accepted by
\* the switch, or its cache could not be written (switch_model's own claim: it
\* validates "against the same sources the /models browser shows").
OfferedIsAccepted == focus = "listing" => Listing!OfferedIsAccepted

\* What storing and forgetting a secret report is true (CredentialStores).
StoresKeepTheirWord == focus = "credentials" => Credentials!StoresKeepTheirWord

\* The settings stay as saved, whatever fails (SettingsFile).
SettingsAreKept == focus = "config" => Config!SettingsAreKept

\* No session is left in a file nobody will find (StoreOpening).
SessionsStay == focus = "opening" => Opening!SessionsStay

\* A binary that runs is left, wherever an update dies (SelfUpdate).
BinaryRemains == focus = "update" => Update!BinaryRemains
=============================================================================
