------------------------------- MODULE Bundles -------------------------------
(***************************************************************************)
(* Which text of a strategy a start or a preview gets: the bundler builds  *)
(* it from the entry file or SiteApi takes it from the store, with the     *)
(* cache between.  A call is a slot with a program counter, one step from  *)
(* one await to the next.                                                  *)
(*                                                                         *)
(* A text is known by the version of the file it was built from, or by the *)
(* revision of the store it was taken at and the mode it was asked for in. *)
(* One account and one strategy; what is imported by the entry file, which *)
(* no key of the cache knows of, is left out.                              *)
(***************************************************************************)
EXTENDS Naturals

CONSTANTS
  Builds,       \* slots for calls of the bundler
  MaxVersions,  \* bound: versions of the file, revisions of the store
  MaxSweeps,    \* bound: how often the cache is emptied
  MaxBuilds     \* bound: calls

VARIABLES
  entry,     \* version of the entry file: its modification time
  store,     \* revision of the bundle in the store
  hasToken,  \* the cache holds the account's token
  bundles,   \* the texts in the cache, by key
  builds,    \* the calls
  sweep,     \* deleteAllHostKeys: the keys that were read, to be deleted
  sweeps,    \* how often it has run
  begun,     \* how many calls have begun
  floor      \* history: the store's revision when the cache was last emptied

bundlesVars == <<entry, store, hasToken, bundles, builds, sweep, sweeps, begun, floor>>

Versions == 1 .. MaxVersions
Modes == {"runtime", "tester"}
Remote == {"remote start", "tester start", "remote preview"}
Previews == {"local preview", "remote preview"}
BundleCalls == Remote \cup Previews \cup {"local start", "upload"}

FromFile(version) == [file |-> version, store |-> 0, mode |-> ""]
FromStore(revision, mode) == [file |-> 0, store |-> revision, mode |-> mode]
NoText == FromFile(0)

\* The keys: getBundle's has neither the mode nor the version in it, the one of a
\* local preview has the modification time.
NoKey == <<"none", 0>>
BundleKey == <<"bundle", 0>>
LocalPreviewKey(version) == <<"preview", version>>
RemotePreviewKey == <<"preview", 0>>
Cached == DOMAIN bundles

IdleBuild == [pc |-> "idle", kind |-> "", key |-> NoKey, text |-> NoText, needs |-> NoText]
NoSweep == [keys |-> {}, token |-> FALSE, alone |-> FALSE]
BundlesIdle == \A c \in Builds : builds[c].pc \in {"idle", "done"}
Sweeping == sweep # NoSweep

BundlesInit ==
  /\ entry = 1
  /\ store = 1
  /\ hasToken = FALSE
  /\ bundles = [k \in {} |-> NoText]
  /\ builds = [c \in Builds |-> IdleBuild]
  /\ sweep = NoSweep
  /\ sweeps = 0
  /\ begun = 0
  /\ floor = 0

-----------------------------------------------------------------------------
Goes(c, pc) == builds' = [builds EXCEPT ![c].pc = pc]
Gets(c, pc, text) == builds' = [builds EXCEPT ![c].pc = pc, ![c].text = text]
Keep(under, text) ==
  bundles' = [k \in Cached \cup {under} |-> IF k = under THEN text ELSE bundles[k]]
Elsewhere == UNCHANGED <<entry, store, hasToken, sweep, sweeps, begun, floor>>

\* Mutant: the preview of a local strategy is kept by its name.
NamedKey(kind) == RemotePreviewKey

PreviewKey(kind) == IF kind = "local preview" THEN LocalPreviewKey(entry) ELSE RemotePreviewKey

\* A start, a preview or an upload begins: a preview forms its key from the
\* file's state of this moment.
BeginBuild(c, kind) ==
  /\ builds[c].pc \in {"idle", "done"}
  /\ begun < MaxBuilds
  /\ begun' = begun + 1
  /\ builds' =
       [builds EXCEPT ![c] =
          [pc |-> CASE kind \in Previews -> "look for preview"
                    [] kind \in Remote -> "look"
                    [] OTHER -> "build",
           kind |-> kind,
           key |-> IF kind \in Previews THEN PreviewKey(kind) ELSE NoKey,
           text |-> NoText,
           needs |-> [file |-> entry, store |-> floor, mode |-> ""]]]
  /\ sweep' = [sweep EXCEPT !.alone = FALSE]
  /\ UNCHANGED <<entry, store, hasToken, bundles, sweeps, floor>>

LookForPreview(c) ==
  /\ builds[c].pc = "look for preview"
  /\ IF builds[c].key \in Cached THEN Gets(c, "done", bundles[builds[c].key])
     ELSE Goes(c, IF builds[c].kind \in Remote THEN "look" ELSE "build")
  /\ UNCHANGED bundles /\ Elsewhere

\* rollup has read the file.
Build(c) ==
  /\ builds[c].pc = "build"
  /\ Gets(c, CASE builds[c].kind = "local start" -> "done"
               [] builds[c].kind = "upload" -> "token"
               [] OTHER -> "keep preview", FromFile(entry))
  /\ UNCHANGED bundles /\ Elsewhere

AfterGetBundle(c) == IF builds[c].kind \in Previews THEN "keep preview" ELSE "done"

\* getBundle looks into the cache, whatever mode its bundle was asked for in,
\* and asks the site for one it does not hold.
LookForBundle(c) ==
  /\ builds[c].pc = "look"
  /\ IF BundleKey \in Cached THEN Gets(c, AfterGetBundle(c), bundles[BundleKey])
     ELSE Goes(c, "token")
  /\ UNCHANGED bundles /\ Elsewhere

\* The site refuses a call without the token.
TokenRead(c) ==
  /\ builds[c].pc = "token"
  /\ IF hasToken THEN Goes(c, "ask") ELSE builds' = [builds EXCEPT ![c] = IdleBuild]
  /\ UNCHANGED bundles /\ Elsewhere

ModeOf(kind) == IF kind = "tester start" THEN "tester" ELSE "runtime"

SiteGivesBundle(c) ==
  /\ builds[c].pc = "ask"
  /\ builds[c].kind \in Remote
  /\ Gets(c, "keep", FromStore(store, ModeOf(builds[c].kind)))
  /\ UNCHANGED bundles /\ Elsewhere

SiteTakesUpload(c) ==
  /\ builds[c].pc = "ask"
  /\ builds[c].kind = "upload"
  /\ store < MaxVersions
  /\ store' = store + 1
  /\ Goes(c, "done")
  /\ UNCHANGED <<entry, hasToken, bundles, sweep, sweeps, begun, floor>>

KeepBundle(c) ==
  /\ builds[c].pc = "keep"
  /\ Keep(BundleKey, builds[c].text)
  /\ Goes(c, AfterGetBundle(c))
  /\ Elsewhere

KeepPreview(c) ==
  /\ builds[c].pc = "keep preview"
  /\ Keep(builds[c].key, builds[c].text)
  /\ Goes(c, "done")
  /\ Elsewhere

\* The build or the site fails.
BuildFails(c) ==
  /\ builds[c].pc \in {"build", "ask"}
  /\ builds' = [builds EXCEPT ![c] = IdleBuild]
  /\ UNCHANGED bundles /\ Elsewhere

-----------------------------------------------------------------------------
(* What happens beside the calls.                                          *)

Edit ==
  /\ entry < MaxVersions
  /\ entry' = entry + 1
  /\ UNCHANGED <<store, hasToken, bundles, builds, sweep, sweeps, begun, floor>>

LogIn ==
  /\ ~hasToken
  /\ hasToken' = TRUE
  /\ UNCHANGED <<entry, store, bundles, builds, sweep, sweeps, begun, floor>>

\* Ten minutes for a bundle, four days for a preview and the token.
Expires ==
  /\ \/ \E gone \in Cached : bundles' = [k \in Cached \ {gone} |-> bundles[k]] /\ UNCHANGED hasToken
     \/ hasToken /\ hasToken' = FALSE /\ UNCHANGED bundles
  /\ UNCHANGED <<entry, store, builds, sweep, sweeps, begun, floor>>

\* invalidateCache reads the keys of this host and then deletes them; those that
\* are written in between stay.
ReadKeys ==
  /\ ~Sweeping
  /\ sweeps < MaxSweeps
  /\ Cached # {} \/ hasToken
  /\ sweep' = [keys |-> Cached, token |-> hasToken, alone |-> BundlesIdle]
  /\ sweeps' = sweeps + 1
  /\ UNCHANGED <<entry, store, hasToken, bundles, builds, begun, floor>>

\* Mutant: the previews are kept.
DeleteOnlyBundles ==
  /\ Sweeping
  /\ bundles' = [k \in Cached \ (sweep.keys \cap {BundleKey}) |-> bundles[k]]
  /\ hasToken' = (hasToken /\ ~sweep.token)
  /\ sweep' = NoSweep
  /\ floor' = IF sweep.alone THEN store ELSE floor
  /\ UNCHANGED <<entry, store, builds, sweeps, begun>>

DeleteKeys ==
  /\ Sweeping
  /\ bundles' = [k \in Cached \ sweep.keys |-> bundles[k]]
  /\ hasToken' = (hasToken /\ ~sweep.token)
  /\ sweep' = NoSweep
  /\ floor' = IF sweep.alone THEN store ELSE floor
  /\ UNCHANGED <<entry, store, builds, sweeps, begun>>

BundlesNext ==
  \/ \E c \in Builds, kind \in BundleCalls : BeginBuild(c, kind)
  \/ \E c \in Builds :
       \/ LookForPreview(c) \/ Build(c) \/ LookForBundle(c) \/ TokenRead(c)
       \/ SiteGivesBundle(c) \/ SiteTakesUpload(c) \/ KeepBundle(c) \/ KeepPreview(c)
       \/ BuildFails(c)
  \/ Edit \/ LogIn \/ Expires \/ ReadKeys \/ DeleteKeys

BundlesSpec == BundlesInit /\ [][BundlesNext]_bundlesVars

-----------------------------------------------------------------------------
Done(c) == builds[c].pc = "done"

\* Nobody is given a text older than invalidateCache has promised: one that begins
\* after the cache was emptied with no call under way gets the bundle of that
\* moment or a later one, through whichever of the two caches (getBundle,
\* generatePreviewExecutionBundle, deleteAllHostKeys).
NewAfterEmptying ==
  \A c \in Builds : Done(c) /\ builds[c].kind \in Remote =>
    builds[c].text.store >= builds[c].needs.store

\* A preview of a local strategy shows its entry file as it was asked for or
\* later, though it may come from the cache.
PreviewShowsEntry ==
  \A c \in Builds : Done(c) /\ builds[c].kind = "local preview" =>
    builds[c].text.file >= builds[c].needs.file

\* Both: the texts that are handed out.
TextsAreCurrent == NewAfterEmptying /\ PreviewShowsEntry
===============================================================================
