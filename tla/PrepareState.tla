---------------------------- MODULE PrepareState ----------------------------
(***************************************************************************)
(* What the web app holds prepared (apps/web/src/lib/sources/               *)
(* prepareState.svelte.ts), the converted-output cache below it             *)
(* (convertedCache.ts) and the three announcements that take things out     *)
(* again: a removed file, a cleared cache category, a removed source.       *)
(*                                                                         *)
(* A source has one title, whose tool has one input that takes several      *)
(* files; file f converts into the output <<t, f>>.  The title's mapped     *)
(* artifact is <<t, Art>>.  Every `await` is a step boundary.  The verdicts  *)
(* of a run, variant attribution and a republished tool are left out.       *)
(***************************************************************************)
EXTENDS FiniteSets

CONSTANTS
  Titles,    \* one title per source; its key carries the source's repo
  Files,     \* input files the user may hold for the title's input
  Shipped,   \* files whose output the core also ships as a game, under the same key
  Calls,     \* asynchronous operations in flight, bound
  Ops,       \* which of the operations and faults that PrepareAssumption lists may happen
  None, Art, Whole

\* An entry of convertedCache's index.
Pointer == [sig : SUBSET Files, files : SUBSET Files]

ASSUME PrepareAssumption ==
  /\ Shipped \subseteq Files
  /\ {None, Art, Whole} \cap Files = {}
  /\ None \notin Titles
  /\ \A S \in SUBSET Files : S # None
  /\ \A entry \in Pointer : entry # None
  /\ Ops \subseteq {"core", "ship", "discover", "clear", "remove", "reload", "refuse", "evict"}

Keys == Titles \X (Files \cup {Art})
Outputs(t, S) == {t} \X S
Games == Titles \X Shipped

VARIABLES
  rows, known,                \* the source rows; those whose manifest has arrived
  assets, kind, mapped,       \* what an install would write, assetSource, mappedArtifacts
  produced,                   \* title -> the keys it contributed, {} when it has no entry
  supplied,                   \* title -> names of the files that answer its input, {} after a
                              \* restore (names unknown), None when there is no entry
  discovered,                 \* title -> files found in the user's folders
  removed,                    \* <<t, Whole>> or <<t, f>>: taken out by the user (localStorage)
  extracting, busy,           \* titles being prepared, and extractingFiles per title
  restored,                   \* restore() runs once per session
  index, cache,               \* convertedCache's pointers (localStorage), and the blobs in OPFS
  calls,                      \* the asynchronous operations in flight
  lossy,                      \* history: the browser has dropped blobs
  disturbed                   \* history: operations have overlapped that the code does not order,
                              \* or OPFS has refused an output

shelf == <<assets, kind, mapped>>
inputs == <<supplied, discovered, removed>>
spinner == <<extracting, busy>>
disk == <<index, cache>>
history == <<lossy, disturbed>>
session == <<rows, known, restored>>
vars == <<session, shelf, produced, inputs, spinner, disk, calls, history>>

RunStages == {"fetch", "look", "read", "exec", "point"}
Stages == RunStages \cup {"idle", "restore", "core", "ship", "discover", "clear"}
CallType == [at : Stages, title : Titles \cup {None}, files : SUBSET Files,
             got : SUBSET Files, scope : {"artifact", "converted", "all", None},
             found : [Titles -> Pointer \cup {None}]]
Idle == [at |-> "idle", title |-> None, files |-> {}, got |-> {}, scope |-> None,
         found |-> [t \in Titles |-> None]]

TypeOK ==
  /\ rows \subseteq Titles /\ known \subseteq rows /\ restored \in BOOLEAN
  /\ assets \subseteq Keys /\ mapped \subseteq Keys
  /\ kind \in [Keys -> {None, "artifact", "converted"}]
  /\ produced \in [Titles -> SUBSET Keys]
  /\ supplied \in [Titles -> (SUBSET Files) \cup {None}]
  /\ discovered \in [Titles -> SUBSET Files]
  /\ removed \subseteq Titles \X (Files \cup {Whole})
  /\ extracting \subseteq Titles /\ busy \in [Titles -> SUBSET Files]
  /\ index \in [Titles -> Pointer \cup {None}] /\ cache \subseteq Keys
  /\ calls \in [Calls -> CallType] /\ lossy \in BOOLEAN /\ disturbed \in BOOLEAN

Init ==
  /\ rows = Titles /\ known = {} /\ restored = FALSE
  /\ assets = {} /\ kind = [k \in Keys |-> None] /\ mapped = {}
  /\ produced = [t \in Titles |-> {}]
  /\ supplied = [t \in Titles |-> None] /\ discovered = [t \in Titles |-> {}] /\ removed = {}
  /\ extracting = {} /\ busy = [t \in Titles |-> {}]
  /\ index = [t \in Titles |-> None] /\ cache = {}
  /\ calls = [c \in Calls |-> Idle] /\ lossy = FALSE /\ disturbed = FALSE

-----------------------------------------------------------------------------
\* Whom an operation may find at work.
Busy == \E c \in Calls : calls[c].at # "idle"
Filling == \E c \in Calls : calls[c].at \notin {"idle", "discover"}
Sweeping == \E c \in Calls : calls[c].at \in {"restore", "clear"}
Runs(t) == {c \in Calls : calls[c].at \in RunStages /\ calls[c].title = t}
Disturbs(p) == disturbed' = (disturbed \/ p) /\ UNCHANGED lossy

Begin(c, call) == calls[c].at = "idle" /\ calls' = [calls EXCEPT ![c] = call]
Goto(c, at) == calls' = [calls EXCEPT ![c].at = at]
End(c) == calls' = [calls EXCEPT ![c] = Idle]
Marked(K, source) == [k \in Keys |-> IF k \in K THEN source ELSE kind[k]]

\* Take keys off the shelf, as every removal does.
Drop(K) == assets' = assets \ K /\ kind' = Marked(K, None) /\ mapped' = mapped \ K

-----------------------------------------------------------------------------
\* run() of a title with the files the user offers, or those discovered if there are none.
RunStart(c, t, offer) ==
  LET files == IF offer = {} THEN discovered[t] ELSE offer IN
  /\ t \in known
  /\ Begin(c, [Idle EXCEPT !.at = "fetch", !.title = t, !.files = files])
  /\ extracting' = extracting \cup {t}
  /\ busy' = [busy EXCEPT ![t] = @ \cup files]
  /\ Disturbs(Sweeping)
  /\ UNCHANGED <<session, shelf, produced, inputs, disk>>

\* The finally block drops only this run's files; the title stays busy while any are left.
LeftOverNone(c) == busy[calls[c].title]
LeftOver(c) == busy[calls[c].title] \ calls[c].files
Settle(c) ==
  LET t == calls[c].title
      left == LeftOver(c) IN
  /\ busy' = [busy EXCEPT ![t] = left]
  /\ extracting' = IF left = {} THEN extracting \ {t} ELSE extracting
  /\ End(c)

\* A title's contributions accumulate, a run of one file at a time.
ContributedLast(t, keys) == [produced EXCEPT ![t] = keys]
Contributed(t, keys) == [produced EXCEPT ![t] = @ \cup keys]

\* The end of a run that worked: its artifact and these outputs are prepared, the offer answers
\* the input, and undoes the removal of it.
Deliver(c, out) ==
  LET t == calls[c].title
      files == calls[c].files
      keys == Outputs(t, out \cup {Art}) IN
  /\ assets' = assets \cup keys
  /\ produced' = Contributed(t, keys)
  /\ supplied' = IF files = {} THEN supplied
                 ELSE [supplied EXCEPT ![t] = files \cup (IF @ = None THEN {} ELSE @)]
  /\ removed' = IF files = {} THEN removed ELSE removed \ ({t} \X (files \cup {Whole}))
  /\ Settle(c)
  /\ UNCHANGED <<session, discovered>>

\* The artifact is there.  Its bookkeeping is done at once, its bytes go on the shelf when the
\* run delivers.  OPFS refusing to keep them is an Evict that follows at once.
RunFetched(c) ==
  LET art == Outputs(calls[c].title, {Art}) IN
  /\ calls[c].at = "fetch"
  /\ kind' = Marked(art, "artifact")
  /\ mapped' = mapped \cup art
  /\ cache' = cache \cup art
  /\ IF calls[c].files = {} THEN Deliver(c, {})
     ELSE Goto(c, "look") /\ UNCHANGED <<session, assets, produced, inputs, spinner>>
  /\ UNCHANGED <<index, history>>

\* convertCached(): a pointer with the signature of this offer stands for all it names.
RunLookup(c) ==
  LET entry == index[calls[c].title] IN
  /\ calls[c].at = "look"
  /\ IF entry # None /\ entry.sig = calls[c].files
     THEN calls' = [calls EXCEPT ![c].at = "read", ![c].got = entry.files]
     ELSE Goto(c, "exec")
  /\ UNCHANGED <<session, shelf, produced, inputs, spinner, disk, history>>

RunHit(c) ==
  LET out == calls[c].got IN
  /\ calls[c].at = "read"
  /\ Outputs(calls[c].title, out) \subseteq cache
  /\ kind' = Marked(Outputs(calls[c].title, out), "converted")
  /\ Deliver(c, out)
  /\ UNCHANGED <<mapped, disk, history>>

\* One missing output makes the whole set unusable.
RunMiss(c) ==
  /\ calls[c].at = "read"
  /\ ~ Outputs(calls[c].title, calls[c].got) \subseteq cache
  /\ calls' = [calls EXCEPT ![c].at = "exec", ![c].got = {}]
  /\ UNCHANGED <<session, shelf, produced, inputs, spinner, disk, history>>

\* The converter is done and its outputs are in OPFS, ...
RunStore(c) ==
  /\ calls[c].at = "exec"
  /\ cache' = cache \cup Outputs(calls[c].title, calls[c].files)
  /\ Goto(c, "point")
  /\ UNCHANGED <<session, shelf, produced, inputs, spinner, index, history>>

\* ... or OPFS refuses one: what went in before stays there, without a pointer, and the refused
\* write drops the copy of the same bytes there was.
RunRefused(c) ==
  LET t == calls[c].title IN
  /\ "refuse" \in Ops
  /\ calls[c].at = "exec"
  /\ \E f \in calls[c].files, kept \in SUBSET calls[c].files :
       f \notin kept /\ cache' = (cache \ Outputs(t, {f})) \cup Outputs(t, kept)
  /\ kind' = Marked(Outputs(t, calls[c].files), "converted")
  /\ Deliver(c, calls[c].files)
  /\ Disturbs(TRUE)
  /\ UNCHANGED <<mapped, index>>

\* The pointer merges with what the title had.
MergedNone(t, files) == [sig |-> files, files |-> files]
Merged(t, files) ==
  [sig |-> files, files |-> files \cup (IF index[t] = None THEN {} ELSE index[t].files)]
RunPoint(c) ==
  LET t == calls[c].title
      files == calls[c].files IN
  /\ calls[c].at = "point"
  /\ index' = [index EXCEPT ![t] = Merged(t, files)]
  /\ kind' = Marked(Outputs(t, files), "converted")
  /\ Deliver(c, files)
  /\ UNCHANGED <<mapped, cache, history>>

\* The artifact cannot be fetched, or the converter fails.
RunThrows(c) ==
  /\ calls[c].at \in {"fetch", "exec"}
  /\ Settle(c)
  /\ UNCHANGED <<session, shelf, produced, inputs, disk, history>>

-----------------------------------------------------------------------------
\* restore(), once per session, of the titles there are when the first view calls it.
Restore(c) ==
  /\ ~restored /\ known # {}
  /\ restored' = TRUE
  /\ Begin(c, [Idle EXCEPT !.at = "restore",
                           !.found = [t \in Titles |-> IF t \in known THEN index[t] ELSE None]])
  /\ Disturbs(Filling)
  /\ UNCHANGED <<rows, known, shelf, produced, inputs, spinner, disk>>

\* A title comes back whole or not at all, and not against a removal; its artifacts with their
\* relocation facts.
RecoverableAnyway(t, keys) == keys \subseteq cache
Recoverable(t, keys) == keys \subseteq cache /\ <<t, Whole>> \notin removed
RemappedNone(arts) == mapped
Remapped(arts) == mapped \cup arts
Restored(c) ==
  LET found == calls[c].found
      kept(t) == Outputs(t, found[t].files \cup {Art})
      back == {t \in Titles : found[t] # None /\ Recoverable(t, kept(t))}
      keys == UNION {kept(t) : t \in back}
      arts == back \X {Art} IN
  /\ calls[c].at = "restore"
  /\ assets' = assets \cup keys
  /\ kind' = [k \in Keys |-> IF k \in arts THEN "artifact"
                             ELSE IF k \in keys THEN "converted" ELSE kind[k]]
  /\ mapped' = Remapped(arts)
  /\ produced' = [t \in Titles |-> IF t \in back THEN kept(t) ELSE produced[t]]
  /\ supplied' = [t \in Titles |-> IF t \in back /\ supplied[t] = None THEN {} ELSE supplied[t]]
  /\ End(c)
  /\ UNCHANGED <<session, discovered, removed, spinner, disk, history>>

\* prepareCoreArtifacts(), for a core that its callers do not find prepared.
Core(c, t) ==
  /\ "core" \in Ops /\ t \in known
  /\ <<t, Art>> \notin assets
  /\ Begin(c, [Idle EXCEPT !.at = "core", !.title = t])
  /\ Disturbs(Sweeping)
  /\ UNCHANGED <<session, shelf, produced, inputs, spinner, disk>>

CoreFetched(c) ==
  LET t == calls[c].title
      art == Outputs(t, {Art}) IN
  /\ calls[c].at = "core"
  /\ assets' = assets \cup art
  /\ kind' = Marked(art, "artifact")
  /\ mapped' = mapped \cup art
  /\ produced' = [produced EXCEPT ![t] = @ \cup art]
  /\ cache' = cache \cup art
  /\ End(c)
  /\ UNCHANGED <<session, inputs, spinner, index, history>>

\* prepareShippedGames() fetches the games it does not hold one by one.
ShipNext(c, t, todo) ==
  LET missing == {f \in todo : <<t, f>> \notin assets'} IN
  IF missing = {} THEN End(c)
  ELSE \E f \in missing :
         calls' = [calls EXCEPT ![c] = [Idle EXCEPT !.at = "ship", !.title = t,
                                                    !.files = todo \ {f}, !.got = {f}]]
Ship(c, t) ==
  /\ "ship" \in Ops /\ t \in known
  /\ calls[c].at = "idle"
  /\ \E f \in Shipped : <<t, f>> \notin assets
  /\ UNCHANGED <<session, shelf, produced, inputs, spinner, disk>>
  /\ ShipNext(c, t, Shipped)
  /\ Disturbs(Sweeping)

ShipFetched(c) ==
  LET t == calls[c].title
      games == Outputs(t, calls[c].got) IN
  /\ calls[c].at = "ship"
  /\ assets' = assets \cup games
  /\ kind' = Marked(games, "artifact")
  /\ ShipNext(c, t, calls[c].files)
  /\ Disturbs(games \cap assets # {})  \* converted meanwhile, and now overwritten
  /\ UNCHANGED <<session, mapped, produced, inputs, spinner, disk>>

\* discoverForSource(): what the user's folders hold for the input.
Discover(c, t) ==
  /\ "discover" \in Ops /\ t \in known
  /\ Begin(c, [Idle EXCEPT !.at = "discover", !.title = t])
  /\ UNCHANGED <<session, shelf, produced, inputs, spinner, disk, history>>

\* setDiscovered(): a removal outranks what was found.
Discovered(c) ==
  LET t == calls[c].title IN
  /\ calls[c].at = "discover"
  /\ \E found \in SUBSET Files :
       discovered' = IF <<t, Whole>> \in removed /\ found # {} THEN discovered
                     ELSE [discovered EXCEPT ![t] = {f \in found : <<t, f>> \notin removed}]
  /\ End(c)
  /\ UNCHANGED <<session, shelf, produced, supplied, removed, spinner, disk, history>>

\* A network or a folder that fails leaves nothing behind.
CallFails(c) ==
  /\ calls[c].at \in {"core", "ship", "discover"}
  /\ End(c)
  /\ UNCHANGED <<session, shelf, produced, inputs, spinner, disk, history>>

-----------------------------------------------------------------------------
\* unsupply(): the input is unanswered, what was derived from it goes, the removal is remembered.
UnsuppliedNone(t) == produced
Unsupplied(t) == [produced EXCEPT ![t] = {}]
Unsupply(t) ==
  /\ removed' = removed \cup {<<t, Whole>>}
  /\ supplied' = [supplied EXCEPT ![t] = None]
  /\ discovered' = [discovered EXCEPT ![t] = {}]
  /\ Drop(produced[t])
  /\ produced' = Unsupplied(t)

UnsupplyOne(t, f) ==
  /\ removed' = removed \cup {<<t, f>>}
  /\ supplied' = [supplied EXCEPT ![t] = IF @ = None THEN None ELSE @ \ {f}]
  /\ discovered' = [discovered EXCEPT ![t] = @ \ {f}]
  /\ UNCHANGED <<shelf, produced>>

\* unsupplyFile(), at the `x` of a held row.
IsLast(t, f) == IF supplied[t] = None THEN discovered[t] = {f} ELSE supplied[t] = {f}
UnsupplyFile(t, f) ==
  /\ f \in (IF supplied[t] \in {None, {}} THEN discovered[t] ELSE supplied[t])
  /\ IF IsLast(t, f) THEN Unsupply(t) ELSE UnsupplyOne(t, f)
  /\ Disturbs(Filling)
  /\ UNCHANGED <<session, spinner, disk, calls>>

\* The row of a restored title has no names, and one `Remove`.
UnsupplyRestored(t) ==
  /\ supplied[t] = {}
  /\ Unsupply(t)
  /\ Disturbs(Filling)
  /\ UNCHANGED <<session, spinner, disk, calls>>

\* BlobCache.clearCategory() and clear(), one by one in the code.
Backing(scope) == IF scope = "all" THEN {"artifact", "converted"} ELSE {scope}
Clear(c, scope) ==
  LET cleared == (IF "artifact" \in Backing(scope) THEN Titles \X {Art} ELSE {})
                 \cup (IF "converted" \in Backing(scope) THEN Titles \X Files ELSE {}) IN
  /\ "clear" \in Ops
  /\ Begin(c, [Idle EXCEPT !.at = "clear", !.scope = scope])
  /\ cache' = cache \ cleared
  /\ Disturbs(Filling)
  /\ UNCHANGED <<session, shelf, produced, inputs, spinner, index>>

\* forgetCleared(): a title that lost one file loses the others.
PrunedNone(hit) == index
Pruned(hit) == IF "converted" \in hit THEN [t \in Titles |-> None] ELSE index
Cleared(c) ==
  LET hit == Backing(calls[c].scope)
      doomed == {t \in Titles : \E k \in produced[t] : kind[k] \in hit
                                  \/ (kind[k] = None /\ "converted" \in hit)} IN
  /\ calls[c].at = "clear"
  /\ Drop((UNION {produced[t] : t \in doomed}) \cup {k \in Keys : kind[k] \in hit})
  /\ produced' = [t \in Titles |-> IF t \in doomed THEN {} ELSE produced[t]]
  /\ index' = Pruned(hit)
  /\ End(c)
  /\ UNCHANGED <<session, inputs, spinner, cache, history>>

\* SourcesStore.remove() and forgetSource().
RowStale(t) == rows' = rows \ {t} /\ UNCHANGED known
RowGone(t) == rows' = rows \ {t} /\ known' = known \ {t}
ForgotNone(t) == index
Forgot(t) == [index EXCEPT ![t] = None]
RemoveSource(t) ==
  /\ "remove" \in Ops /\ t \in rows
  /\ RowGone(t)
  /\ Drop(produced[t])
  /\ produced' = [produced EXCEPT ![t] = {}]
  /\ supplied' = [supplied EXCEPT ![t] = None]
  /\ discovered' = [discovered EXCEPT ![t] = {}]
  /\ removed' = {r \in removed : r[1] # t}
  /\ extracting' = extracting \ {t} /\ busy' = [busy EXCEPT ![t] = {}]
  /\ index' = Forgot(t)
  /\ Disturbs(Busy)
  /\ UNCHANGED <<restored, cache, calls>>

AddSource(t) ==
  /\ t \notin rows
  /\ rows' = rows \cup {t}
  /\ UNCHANGED <<known, restored, shelf, produced, inputs, spinner, disk, calls, history>>

ManifestArrives(t) ==
  /\ t \in rows \ known
  /\ known' = known \cup {t}
  /\ UNCHANGED <<rows, restored, shelf, produced, inputs, spinner, disk, calls, history>>

\* The tab is reloaded, or closed and opened: localStorage and OPFS are what is left.
Reload ==
  /\ "reload" \in Ops
  /\ known' = {} /\ restored' = FALSE
  /\ assets' = {} /\ kind' = [k \in Keys |-> None] /\ mapped' = {}
  /\ produced' = [t \in Titles |-> {}]
  /\ supplied' = [t \in Titles |-> None] /\ discovered' = [t \in Titles |-> {}]
  /\ extracting' = {} /\ busy' = [t \in Titles |-> {}]
  /\ calls' = [c \in Calls |-> Idle]
  /\ Disturbs(Sweeping)
  /\ UNCHANGED <<rows, removed, disk>>

\* The browser drops a blob: one per behaviour, a bound.
Evict(k) ==
  /\ "evict" \in Ops /\ k \in cache /\ ~lossy
  /\ cache' = cache \ {k} /\ lossy' = TRUE
  /\ UNCHANGED <<session, shelf, produced, inputs, spinner, index, calls, disturbed>>

-----------------------------------------------------------------------------
RunSteps(c) ==
  \/ \E t \in Titles, offer \in SUBSET Files : RunStart(c, t, offer)
  \/ RunFetched(c) \/ RunLookup(c) \/ RunHit(c) \/ RunMiss(c)
  \/ RunStore(c) \/ RunRefused(c) \/ RunPoint(c) \/ RunThrows(c)

OtherSteps(c) ==
  \/ Restore(c) \/ Restored(c)
  \/ \E t \in Titles : Core(c, t) \/ Ship(c, t) \/ Discover(c, t)
  \/ CoreFetched(c) \/ ShipFetched(c) \/ Discovered(c) \/ CallFails(c)
  \/ \E scope \in {"artifact", "converted", "all"} : Clear(c, scope)
  \/ Cleared(c)

Next ==
  \/ \E c \in Calls : RunSteps(c) \/ OtherSteps(c)
  \/ \E t \in Titles, f \in Files : UnsupplyFile(t, f)
  \/ \E t \in Titles : \/ UnsupplyRestored(t) \/ RemoveSource(t)
                       \/ AddSource(t) \/ ManifestArrives(t)
  \/ Reload
  \/ \E k \in Keys : Evict(k)

Spec == Init /\ [][Next]_vars

-----------------------------------------------------------------------------
\* No operations overlap that the code does not order.
Ordered == ~disturbed /\ ~Sweeping

\* Bound of the runs: a behaviour ends with its first disturbance, as nothing but NeverHalf and
\* BusyMeansRunning is claimed after it, and those are proved.
Undisturbed == ~disturbed

\* A title that has a contribution has all of it on the shelf: half a file set would read as
\* prepared and install incomplete (forgetCleared, prepareState.svelte.ts:690).
NeverHalf == \A t \in Titles : produced[t] \subseteq assets

\* A title that reads "extracting..." has a run in flight, however runs of it overlap and
\* whatever happens to its source meanwhile (forgetSource, prepareState.svelte.ts:814).
BusyMeansRunning == \A t \in extracting : Runs(t) # {}

\* Every artifact an install would write has its relocation facts, or the packer files a mapped
\* core in LittleFS and it cannot run (restore, prepareState.svelte.ts:974).
Relocatable ==
  Ordered => \A t \in Titles : <<t, Art>> \in assets => <<t, Art>> \in mapped

\* Of a source that is gone nothing is left, in memory or in the pointers that outlive the
\* session, except the games its core shipped (forgetSource, prepareState.svelte.ts:755).
NothingOfAGoneSource ==
  Ordered => \A t \in Titles \ rows :
    /\ Outputs(t, Files \cup {Art}) \cap assets \subseteq Games
    /\ produced[t] = {} /\ supplied[t] = None /\ discovered[t] = {} /\ index[t] = None
    /\ t \notin extracting /\ ~ \E r \in removed : r[1] = t

\* No bytes an install carries are accounted for by nothing on screen
\* (run, prepareState.svelte.ts:1228).
Accounted ==
  Ordered => assets \ Games \subseteq UNION {produced[t] : t \in Titles}

\* An input that the user emptied stays empty through scans, restores and reloads, and so do the
\* outputs made from it (unsupply, prepareState.svelte.ts:618).
RemovalHolds ==
  Ordered => \A t \in Titles : <<t, Whole>> \in removed =>
    /\ supplied[t] = None /\ discovered[t] = {}
    /\ Outputs(t, Files) \cap assets \subseteq Games

\* Whatever is prepared, file by file, is prepared again after a reload: the pointer names it
\* (convertCached, convertedCache.ts:319), ...
SurvivesReload ==
  Ordered => \A t \in Titles : \A f \in Files :
    <<t, f>> \in produced[t] => index[t] # None /\ f \in index[t].files

\* ... and a pointer names no bytes that are gone, or a run would carry them forward and the
\* title could never be restored (forgetConvertedIndex, convertedCache.ts:167).
PointersHonest ==
  Ordered /\ ~lossy => \A t \in Titles :
    index[t] # None => Outputs(t, index[t].files) \subseteq cache
=============================================================================
