------------------------------ MODULE ModelCatalog ------------------------------
(***************************************************************************)
(* Listing the models (turya-cli/src/host_services.rs: ListProviders, and  *)
(* the check of switch_model) from the catalog's lists, the providers' own *)
(* servers, models.dev and the disk cache (turya-catalog/src/lib.rs).  The *)
(* switch knows another list, the one of the provider's plugin.  The       *)
(* listing awaits the network several times; keys come and go meanwhile,   *)
(* from the flows' tasks or another turya.                                 *)
(***************************************************************************)
EXTENDS Naturals, FiniteSets

CONSTANTS
    Providers,
    Keyless,  \* providers that need no credential
    Static,   \* the catalog's models of each provider (static_models)
    Builtin,  \* the models each provider's plugin names (models)
    Live,     \* the models each provider's server may list
    Unwritable \* whether cache writes may fail

VARIABLES
    keys,     \* providers with a credential in hand
    cache,    \* the models of {cache_dir}/{provider}.json
    facts,    \* cached models whose facts are known
    job,      \* the listing in progress
    rows,     \* its summaries so far
    offered,  \* what the client's browser shows of each provider
    unwritten,\* history: providers whose cache could not be written
    asked     \* history: the last server asked, and whether a key went with it

catVars == <<keys, cache, facts, job, rows, offered, unwritten, asked>>

NoProvider == 0
ModelsDev == 99
Nothing == [p \in Providers |-> {}]
Idle == [at |-> "idle", todo |-> {}, provider |-> NoProvider, live |-> FALSE,
         authed |-> FALSE, meta |-> FALSE, ids |-> {}]
NoOne == [who |-> NoProvider, key |-> FALSE]

Init ==
    /\ keys \in SUBSET (Providers \ Keyless)
    /\ cache = Nothing /\ facts = Nothing
    /\ job = Idle /\ rows = Nothing /\ offered = Nothing
    /\ unwritten = {} /\ asked = NoOne

-----------------------------------------------------------------------------
(* is_authenticated and allows_live_discovery. *)

Authenticated(p) == p \in keys
LiveAllowed(p) == Authenticated(p) \/ p \in Keyless

\* A key is stored, removed or expires.
KeyChanges ==
    /\ \E p \in Providers \ Keyless : keys' = IF p \in keys THEN keys \ {p} ELSE keys \cup {p}
    /\ UNCHANGED <<cache, facts, job, rows, offered, unwritten, asked>>

AnyAuthed == \E p \in Providers : Authenticated(p)

\* ListProviders: the document is fetched once, or not at all.
StartListing ==
    /\ job.at = "idle"
    /\ \E got \in BOOLEAN :
           /\ job' = [Idle EXCEPT !.at = "gate", !.todo = Providers, !.meta = AnyAuthed /\ got]
           /\ asked' = IF AnyAuthed THEN [who |-> ModelsDev, key |-> keys # {}] ELSE asked
    /\ rows' = Nothing
    /\ UNCHANGED <<keys, cache, facts, offered, unwritten>>

\* What the provider is allowed is read before its server is asked.
Gate ==
    /\ job.at = "gate"
    /\ \E p \in job.todo :
           job' = [job EXCEPT !.at = IF LiveAllowed(p) THEN "live" ELSE "load",
                              !.provider = p, !.todo = @ \ {p}, !.ids = {},
                              !.authed = Authenticated(p), !.live = LiveAllowed(p)]
    /\ UNCHANGED <<keys, cache, facts, rows, offered, unwritten, asked>>

\* resolve_for: the credential as it is now.
Resolves(p) == p \in keys \cup Keyless

\* live_ids: no credential or no answer is an empty list.
AskServer ==
    /\ job.at = "live"
    /\ LET p == job.provider
       IN  IF Resolves(p)
           THEN /\ \E ids \in SUBSET Live[p] : job' = [job EXCEPT !.at = "load", !.ids = ids]
                /\ asked' = [who |-> p, key |-> p \in keys]
           ELSE /\ job' = [job EXCEPT !.at = "load"]
                /\ UNCHANGED asked
    /\ UNCHANGED <<keys, cache, facts, rows, offered, unwritten>>

\* merge: the server's models first, the catalog's fill the gaps.
Merged(p) == job.ids \cup Static[p]

\* The document is used only for a provider with a key.
Meta == job.authed /\ job.meta

Loaded == job' = [job EXCEPT !.at = IF job.todo = {} THEN "done" ELSE "gate"]

\* ensure_loaded of a locked provider: the catalog's list, whatever is cached.
LoadSnapshot ==
    /\ job.at = "load" /\ ~job.live
    /\ rows' = [rows EXCEPT ![job.provider] = Static[job.provider]]
    /\ Loaded
    /\ UNCHANGED <<keys, cache, facts, offered, unwritten, asked>>

\* Mutant: what a server lists is cached only with the document.
FetchedWithMeta == Meta

Fetched == Meta \/ job.ids # {}

\* What was fetched is kept if the file can be written; one that is cut short
\* reads as none.  Without the document only static windows are known.
Keep(p) ==
    \/ /\ cache' = [cache EXCEPT ![p] = Merged(p)]
       /\ facts' = [facts EXCEPT ![p] = IF Meta THEN Merged(p) ELSE Static[p] \ job.ids]
       /\ unwritten' = unwritten \ {p}
    \/ /\ Unwritable
       /\ unwritten' = unwritten \cup {p}
       /\ cache' \in {cache, [cache EXCEPT ![p] = {}]}
       /\ UNCHANGED facts

LoadFetched ==
    /\ job.at = "load" /\ job.live
    /\ Meta \/ job.ids # {}
    /\ rows' = [rows EXCEPT ![job.provider] = Merged(job.provider)]
    /\ IF Fetched THEN Keep(job.provider) ELSE UNCHANGED <<cache, facts, unwritten>>
    /\ Loaded
    /\ UNCHANGED <<keys, offered, asked>>

\* Offline: the cache of any age, else the catalog's list.
LoadOffline ==
    /\ job.at = "load" /\ job.live /\ ~Meta /\ job.ids = {}
    /\ LET p == job.provider
       IN  rows' = [rows EXCEPT ![p] = IF cache[p] # {} THEN cache[p] ELSE Static[p]]
    /\ Loaded
    /\ UNCHANGED <<keys, cache, facts, offered, unwritten, asked>>

\* ProvidersListed reaches the browser.
Listed ==
    /\ job.at = "done"
    /\ offered' = rows
    /\ job' = Idle /\ rows' = Nothing
    /\ UNCHANGED <<keys, cache, facts, unwritten, asked>>

\* The next start shows nothing before it asked.
Restart ==
    /\ job' = Idle /\ rows' = Nothing /\ offered' = Nothing
    /\ UNCHANGED <<keys, cache, facts, unwritten, asked>>

Next ==
    \/ KeyChanges \/ StartListing \/ Gate \/ AskServer \/ Restart
    \/ LoadSnapshot \/ LoadFetched \/ LoadOffline \/ Listed

CatSpec == Init /\ [][Next]_catVars

-----------------------------------------------------------------------------

\* switch_model takes a model without asking a server if the plugin's list or
\* the cache has it.
Accepted(p) == Builtin[p] \cup cache[p]

\* Every model the browser offers of a provider the user may use is accepted by
\* the switch, also when its server no longer answers, unless its cache could
\* not be written: "Validate against the same sources the /models browser
\* shows" (switch_model), once no listing is under way that the browser has
\* not seen.
OfferedIsAccepted ==
    job.at = "idle" =>
        \A p \in Providers :
            LiveAllowed(p) => offered[p] \subseteq Accepted(p) \/ p \in unwritten

\* Whatever a server listed and the browser offers is accepted, however often
\* other listings, outages and lost keys came between: only the catalog's list
\* can be refused, while nothing was ever cached (ensure_loaded, switch_model).
KnownIsAccepted ==
    job.at = "idle" =>
        \A p \in Providers :
            \/ offered[p] \subseteq Accepted(p)
            \/ p \in unwritten
            \/ cache[p] = {} /\ offered[p] \subseteq Static[p]

\* "locked setups never phone home": a server is asked with a key or needs
\* none, and models.dev is asked only by a user with a key, though keys go
\* while the listing waits (ListProviders).
LockedIsSilent == asked.who \in Keyless \cup {NoProvider} \/ asked.key

\* What the browser knows from a server can be chosen, and showing it told
\* nobody more than the user's keys allow.
ListingIsHonest == KnownIsAccepted /\ LockedIsSilent

\* A cached model stays until the provider's own server lists without it
\* ("stale beats rejection"): the document alone does not drop it.
OutageKeepsModels ==
    [][LoadFetched /\ job.ids = {} => cache[job.provider] \subseteq cache'[job.provider]]_catVars

\* What is known of a model is not forgotten for want of the document.
FactsAreKept ==
    [][LoadFetched => facts[job.provider] \cap Merged(job.provider)
                      \subseteq facts'[job.provider]]_catVars
=============================================================================
