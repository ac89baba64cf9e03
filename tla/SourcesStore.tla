---------------------------- MODULE SourcesStore ----------------------------
(***************************************************************************)
(* The list of content sources (apps/web/src/lib/sources/store.svelte.ts)  *)
(* with what surrounds it: the curated list of the firmware release, the    *)
(* kept zips of imported bundles (bundleStore.ts) and the background        *)
(* downloads (autoDownload.ts).                                             *)
(*                                                                         *)
(* A call is an async operation suspended at an await; what it does until   *)
(* the next one is one action.  The mirrors are external: they publish the  *)
(* versions oldest .. newest, and a call that succeeds gets what they       *)
(* publish when it lands.  The same question asked twice before its answer  *)
(* is one call.  Left out: selection, error codes, what a card says beyond  *)
(* its version, raw cores, artifact sizes (every source is small enough to  *)
(* download), and that updateAll() has three requests at a time.            *)
(***************************************************************************)
EXTENDS Naturals, FiniteSets

CONSTANTS
  Repos, Curated,   \* the sources there are, and those the firmware release lists
  Cores,            \* the sources of the Cores pane; the others are Homebrew's
  MAX_VERSION,      \* bound: the newest version a mirror ever publishes
  CONCURRENCY,      \* AUTO_DOWNLOAD_CONCURRENCY
  MAX_CALLS,        \* bound: calls in flight when a user starts another one
  Batches,          \* bound: the runs of updateAll() there can be at a time
  Deeds,            \* bound: which of the deeds that SourcesAssumption lists users do
  None

ASSUME SourcesAssumption ==
  /\ Curated \subseteq Repos /\ Cores \subseteq Repos /\ None \notin Repos \cup Nat \cup Batches
  /\ MAX_VERSION \in Nat \ {0}
  /\ CONCURRENCY \in Nat \ {0} /\ MAX_CALLS \in Nat
  /\ Deeds \subseteq {"add", "import", "refresh", "update", "select", "activate", "remove",
                      "retry", "reload"}

VARIABLES
  first, second,    \* repo -> its row, which get() finds, and another one that nothing finds
  dismissed,        \* repos the user has removed (localStorage)
  disk,             \* sources.v1 (localStorage): the rows as the next visit loads them
  zips,             \* repo -> the bundle that is kept of it, by its version (OPFS)
  published,        \* repo -> the sets of blob URLs its imports have published and not revoked
  notes,            \* curatedFailures
  adding, updating, \* the add form is busy; the pane whose sources are being updated
  calls,            \* the operations in flight
  queued, running, aborted,     \* the downloads: waiting, in flight, and of those the cancelled
  oldest, newest,   \* what the mirrors publish
  listed,           \* history: this visit has read the curated list
  overtaken,        \* history: repos whose pin was set while an older question was in flight
                    \* and that no refresh for the pin has reached since
  declined,         \* history: repos the user has deactivated, less the rows of listed sources
                    \* that did not come with the list
  unmarked,         \* history: of those, the listed ones whose row an imported zip has replaced
  imported          \* history: repo -> the version of the zip he imported on this visit

lists == <<first, second, disk>>
downloads == <<queued, running, aborted>>
mirror == <<oldest, newest>>
form == <<adding, updating>>
bundles == <<zips, published>>
history == <<listed, overtaken, declined, unmarked, imported>>
vars == <<lists, dismissed, bundles, notes, form, calls, downloads, mirror, history>>

Versions == 1 .. MAX_VERSION
Panes == {"core", "homebrew"}
Pane(r) == IF r \in Cores THEN "core" ELSE "homebrew"

\* `tag` is the card's, `held` says that the manifest is in memory, `payload` that the row can
\* revoke the blob URLs of its import; an unpinned row tracks the newest version.
Row == [origin : {"url", "bundle"}, active : BOOLEAN, curated : BOOLEAN,
        pin : Versions \cup {None}, tag : Versions, held : BOOLEAN, payload : BOOLEAN,
        status : {"loading", "ok", "error", "idle"}]
NoRow == None
ASSUME RowAssumption == NoRow \notin Row
Has(r) == first[r] # NoRow

\* A call of a repo.  `own` says that the row it works on is still in the list, `tag` is the
\* version it asks for (None for the newest) or that its zip has, `batch` the run of
\* updateAll() that awaits it.
Kinds == {"refresh", "select", "add", "import", "keep", "restore", "verify", "list", "curate",
          "forget"}
Call == [kind : Kinds, repo : Repos \cup {None}, own : BOOLEAN, tag : Versions \cup {None},
         batch : Batches \cup {None}]
Ask(kind, r) == [kind |-> kind, repo |-> r, own |-> TRUE, tag |-> None, batch |-> None]

TypeOK ==
  /\ first \in [Repos -> Row \cup {NoRow}] /\ second \in [Repos -> Row \cup {NoRow}]
  /\ dismissed \subseteq Repos /\ notes \subseteq Curated
  /\ zips \in [Repos -> Versions \cup {None}]
  /\ disk \in [first : [Repos -> Row \cup {NoRow}], second : [Repos -> Row \cup {NoRow}]]
  /\ published \in [Repos -> Nat]
  /\ adding \in BOOLEAN /\ updating \in Panes \cup {None}
  /\ calls \subseteq Call
  /\ queued \subseteq Repos /\ running \subseteq Repos /\ aborted \subseteq running
  /\ Cardinality(running) \leq CONCURRENCY
  /\ oldest \in Versions /\ newest \in Versions /\ oldest \leq newest
  /\ listed \in BOOLEAN /\ overtaken \subseteq Repos /\ declined \subseteq Repos
  /\ unmarked \subseteq declined
  /\ imported \in [Repos -> Versions \cup {None}]

\* load() on a first visit.
Init ==
  /\ first = [r \in Repos |-> NoRow] /\ second = first
  /\ dismissed = {} /\ disk = [first |-> first, second |-> second]
  /\ zips = [r \in Repos |-> None] /\ published = [r \in Repos |-> 0] /\ notes = {}
  /\ adding = FALSE /\ updating = None
  /\ calls = {Ask("list", None)}
  /\ queued = {} /\ running = {} /\ aborted = {}
  /\ oldest = 1 /\ newest = 1
  /\ listed = FALSE /\ overtaken = {} /\ declined = {} /\ unmarked = {}
  /\ imported = [r \in Repos |-> None]

-----------------------------------------------------------------------------
\* What the store's functions call.

Start(c) == calls' = calls \cup {c}
End(c) == calls' = calls \ {c}
Then(c, next) == calls' = (calls \ {c}) \cup {next}
UserMay(deed) == deed \in Deeds /\ Cardinality(calls) < MAX_CALLS

\* persist().  On the next visit a row has no manifest and is loading, but for the second of a
\* repo, whose refresh finds the first.
Kept(row, status) ==
  IF row = NoRow THEN NoRow
  ELSE [row EXCEPT !.held = FALSE, !.payload = FALSE, !.status = status]
Persist == disk' = [first |-> [r \in Repos |-> Kept(first'[r], "loading")],
                    second |-> [r \in Repos |-> Kept(second'[r], "ok")]]

\* The row object of call `c`, if it is still the store's.
Update(c, row) == first' = IF c.own THEN [first EXCEPT ![c.repo] = row] ELSE first

NewRow(origin, curated, t) ==
  [origin |-> origin, active |-> TRUE, curated |-> curated, pin |-> None, tag |-> t,
   held |-> TRUE, payload |-> (origin = "bundle"), status |-> "ok"]

\* this.rows = [...this.rows, row]
Append(r, row) ==
  /\ first' = IF Has(r) THEN first ELSE [first EXCEPT ![r] = row]
  /\ second' = IF Has(r) THEN [second EXCEPT ![r] = row] ELSE second

\* maybeAutoDownload(), and request() with its pump().
Wanted(row) == row # NoRow /\ row.active /\ row.origin = "url" /\ row.held
\* Mutant: pump() compares with <=.
RequestOneTooMany(r, held, cancelled) ==
  /\ aborted' = cancelled
  /\ IF r \notin held \cup running /\ Wanted(first'[r])
     THEN IF Cardinality(running) <= CONCURRENCY
          THEN running' = running \cup {r} /\ queued' = held
          ELSE queued' = held \cup {r} /\ UNCHANGED running
     ELSE queued' = held /\ UNCHANGED running
Request(r, held, cancelled) ==
  /\ aborted' = cancelled
  /\ IF r \notin held \cup running /\ Wanted(first'[r])
     THEN IF Cardinality(running) < CONCURRENCY
          THEN running' = running \cup {r} /\ queued' = held
          ELSE queued' = held \cup {r} /\ UNCHANGED running
     ELSE queued' = held /\ UNCHANGED running
MaybeAutoDownload(r) == Request(r, queued, aborted)

\* cancel(): a job that runs is told to stop, and stays in `running` until it has.
Cancel(r) ==
  /\ queued' = queued \ {r}
  /\ aborted' = aborted \cup ({r} \cap running)
  /\ UNCHANGED running

\* finally { running.delete(); pump() }
JobEnds(r) ==
  /\ r \in running
  /\ aborted' = aborted \ {r}
  /\ IF queued = {} THEN running' = running \ {r} /\ UNCHANGED queued
     ELSE \E next \in queued :
            running' = (running \ {r}) \cup {next} /\ queued' = queued \ {next}
  /\ UNCHANGED <<lists, dismissed, bundles, notes, form, calls, mirror, history>>

-----------------------------------------------------------------------------
\* refresh(), of get(repo)'s row, which must come from a mirror.  The pin is read here.  The
\* button is there for a row in error.
Refreshable(r) == Has(r) /\ first[r].origin = "url"
\* Mutant: the pin is not looked at.
AskedNewest(r, batch) ==
  [Ask("refresh", r) EXCEPT !.batch = batch]
Asked(r, batch) == [Ask("refresh", r) EXCEPT !.tag = first[r].pin, !.batch = batch]
Loading(R) == first' = [r \in Repos |-> IF r \in R THEN [first[r] EXCEPT !.status = "loading"]
                                        ELSE first[r]]

Refresh(r) ==
  /\ UserMay("refresh") /\ Refreshable(r) /\ first[r].status = "error"
  /\ Loading({r})
  /\ Start(Asked(r, None))
  /\ UNCHANGED <<second, disk, dismissed, bundles, notes, form, downloads, mirror, history>>

\* updateAll() of a pane.  A second one of the pane is refused only while no other has begun.
UpdateAll(pane, b) ==
  LET queue == {r \in Repos : Pane(r) = pane /\ Refreshable(r)} IN
  /\ UserMay("update") /\ updating # pane /\ queue # {}
  /\ \A c \in calls : c.batch # b
  /\ updating' = pane
  /\ Loading(queue)
  /\ calls' = calls \cup {Asked(r, b) : r \in queue}
  /\ UNCHANGED <<second, disk, dismissed, bundles, notes, adding, downloads, mirror, history>>

\* The finally of updateAll(), behind the last refresh of the run.
BatchOver(c) ==
  updating' = IF c.batch # None /\ \A d \in calls \ {c} : d.batch # c.batch
              THEN None ELSE updating

\* The version asked for is published, or whichever is newest.
Answer(c) == IF c.tag = None THEN newest ELSE c.tag
Answered(c) == Answer(c) \in oldest .. newest
Resolved(c) == [first[c.repo] EXCEPT !.tag = Answer(c), !.held = TRUE, !.status = "ok"]

\* Refreshes in flight of the row of `c` that ask for another version than `t`.
Others(c, t) == {d \in calls : d.kind = "refresh" /\ d.own /\ d.repo = c.repo /\ d.tag # t}

Refreshed(c) ==
  /\ c.kind = "refresh" /\ Answered(c)
  /\ Update(c, Resolved(c)) /\ UNCHANGED second
  /\ Persist
  /\ MaybeAutoDownload(c.repo)
  /\ BatchOver(c) /\ End(c)
  /\ overtaken' = IF c.own /\ c.tag = first[c.repo].pin /\ Others(c, c.tag) \ {c} = {}
                  THEN overtaken \ {c.repo} ELSE overtaken
  /\ UNCHANGED <<dismissed, bundles, notes, adding, mirror, listed, declined, unmarked, imported>>

\* resolvePinned(): the pinned version is gone, so the pin is dropped and the newest asked for.
PinRetired(c) ==
  /\ c.kind = "refresh" /\ c.tag # None /\ ~Answered(c)
  /\ c.own => first[c.repo].pin = c.tag
  /\ c.own => first' = [first EXCEPT ![c.repo].pin = None]
  /\ ~c.own => UNCHANGED first
  /\ Then(c, [c EXCEPT !.tag = None])
  /\ UNCHANGED <<second, disk, dismissed, bundles, notes, form, downloads, mirror, history>>

\* The network fails, or the pin has changed while its version was found gone.
RefreshFails(c) ==
  /\ c.kind = "refresh"
  /\ c.own => first' = [first EXCEPT ![c.repo].status = "error"]
  /\ ~c.own => UNCHANGED first
  /\ BatchOver(c) /\ End(c)
  /\ UNCHANGED <<second, disk, dismissed, bundles, notes, adding, downloads, mirror, history>>

-----------------------------------------------------------------------------
\* selectVersion() of a version that the card lists.
Select(r, t) ==
  /\ UserMay("select") /\ Refreshable(r)
  /\ first[r].tag # t \/ first[r].status = "error"
  /\ Loading({r})
  /\ Start([Ask("select", r) EXCEPT !.tag = t])
  /\ UNCHANGED <<second, disk, dismissed, bundles, notes, form, downloads, mirror, history>>

\* Choosing the newest is a subscription and no pin.
PinFor(t) == IF t = newest THEN None ELSE t
Selected(c) ==
  /\ c.kind = "select" /\ Answered(c)
  /\ Update(c, [Resolved(c) EXCEPT !.pin = PinFor(c.tag)]) /\ UNCHANGED second
  /\ Persist
  /\ Request(c.repo, queued \ {c.repo}, aborted \cup ({c.repo} \cap running))
  /\ End(c)
  /\ overtaken' = IF c.own /\ Others(c, PinFor(c.tag)) # {}
                  THEN overtaken \cup {c.repo} ELSE overtaken
  /\ UNCHANGED <<dismissed, bundles, notes, form, mirror, listed, declined, unmarked, imported>>

SelectFails(c) ==
  /\ c.kind = "select"
  /\ c.own => first' = [first EXCEPT ![c.repo].status = "error"]
  /\ ~c.own => UNCHANGED first
  /\ End(c)
  /\ UNCHANGED <<second, disk, dismissed, bundles, notes, form, downloads, mirror, history>>

-----------------------------------------------------------------------------
\* importCurated(), of every visit.  A row that the list did not bring and that is inactive
\* is taken for one of an older importer's, and activated.
Reclaimed == {r \in Curated \ dismissed : Has(r) /\ ~first[r].curated /\ ~first[r].active}
Missing == {r \in Curated \ dismissed : ~Has(r)}

ListArrives(c) ==
  /\ c.kind = "list"
  /\ first' = [r \in Repos |-> IF r \in Reclaimed
                               THEN [first[r] EXCEPT !.active = TRUE, !.curated = TRUE]
                               ELSE first[r]]
  /\ UNCHANGED second
  /\ IF Reclaimed = {} THEN UNCHANGED disk ELSE Persist
  /\ calls' = (calls \ {c}) \cup {Ask("curate", r) : r \in Missing}
  /\ listed' = TRUE
  /\ UNCHANGED <<dismissed, bundles, notes, form, downloads, mirror, overtaken, declined,
                 unmarked, imported>>

ListFails(c) ==
  /\ c.kind = "list"
  /\ End(c)
  /\ UNCHANGED <<lists, dismissed, bundles, notes, form, downloads, mirror, history>>

\* resolveCurated() after its await: a row or a removal of the meantime wins.
\* Mutant: a removal of the meantime is not looked at.
UnwantedRow(r) == Has(r)
Unwanted(r) == Has(r) \/ r \in dismissed
CurateLands(c) ==
  /\ c.kind = "curate"
  /\ notes' = notes \ {c.repo}
  /\ IF Unwanted(c.repo) THEN UNCHANGED <<lists, downloads>>
     ELSE /\ Append(c.repo, NewRow("url", TRUE, newest))
          /\ Persist
          /\ MaybeAutoDownload(c.repo)
  /\ End(c)
  /\ UNCHANGED <<dismissed, bundles, form, mirror, history>>

\* Mutant: the failure leaves no note.
CurateFailsSilently(c) ==
  /\ c.kind = "curate"
  /\ End(c)
  /\ UNCHANGED <<lists, dismissed, bundles, notes, form, downloads, mirror, history>>
CurateFails(c) ==
  /\ c.kind = "curate"
  /\ notes' = notes \cup {c.repo}
  /\ End(c)
  /\ UNCHANGED <<lists, dismissed, bundles, form, downloads, mirror, history>>

\* retryCurated() of the notes under one pane.
RetryCurated(pane) ==
  LET pending == {r \in notes : Pane(r) = pane} IN
  /\ UserMay("retry") /\ pending # {}
  /\ notes' = notes \ {r \in pending : Unwanted(r)}
  /\ calls' = calls \cup {Ask("curate", r) : r \in {s \in pending : ~Unwanted(s)}}
  /\ UNCHANGED <<lists, dismissed, bundles, form, downloads, mirror, history>>

-----------------------------------------------------------------------------
\* The add form: add() of a typed address, addResolved() of one that was looked up before
\* (the version may no longer be the newest), importBundleFile() of a zip.

KeepResolved(r, t) ==
  /\ dismissed' = dismissed \ {r}
  /\ Append(r, NewRow("url", FALSE, t))
  /\ Persist
  /\ MaybeAutoDownload(r)

AddResolved(r, t) ==
  /\ UserMay("add") /\ ~adding /\ ~Has(r) /\ t <= newest
  /\ KeepResolved(r, t)
  /\ UNCHANGED <<bundles, notes, form, calls, mirror, history>>

Add(r) ==
  /\ UserMay("add") /\ ~adding /\ ~Has(r)
  /\ adding' = TRUE
  /\ Start(Ask("add", r))
  /\ UNCHANGED <<lists, dismissed, bundles, notes, updating, downloads, mirror, history>>

AddLands(c) ==
  /\ c.kind = "add"
  /\ KeepResolved(c.repo, newest)
  /\ adding' = FALSE
  /\ End(c)
  /\ UNCHANGED <<bundles, notes, updating, mirror, history>>

\* The mirror cannot be read, or the zip is none.
AddFails(c) ==
  /\ c.kind \in {"add", "import"}
  /\ adding' = FALSE
  /\ End(c)
  /\ UNCHANGED <<lists, dismissed, bundles, notes, updating, downloads, mirror, history>>

Import(r) ==
  /\ UserMay("import") /\ ~adding
  /\ adding' = TRUE
  /\ \E t \in Versions : Start([Ask("import", r) EXCEPT !.tag = t])
  /\ UNCHANGED <<lists, dismissed, bundles, notes, updating, downloads, mirror, history>>

\* A source from a mirror is not replaced by a zip; the import's blob URLs are revoked.
Conflict(c) ==
  /\ c.kind = "import" /\ Refreshable(c.repo)
  /\ adding' = FALSE
  /\ End(c)
  /\ UNCHANGED <<lists, dismissed, bundles, notes, updating, downloads, mirror, history>>

\* Blob URLs of `r`: what its import publishes, less what the row it replaces revokes.
Revoked(r) == IF Has(r) /\ first[r].payload THEN 1 ELSE 0
Imported(c) ==
  LET r == c.repo
      row == [NewRow("bundle", FALSE, c.tag) EXCEPT !.active = ~Has(r) \/ first[r].active]
  IN
  /\ c.kind = "import" /\ ~Refreshable(r)
  /\ published' = [published EXCEPT ![r] = @ + 1 - Revoked(r)]
  /\ first' = [first EXCEPT ![r] = row]
  /\ second' = IF second[r] = NoRow THEN second ELSE [second EXCEPT ![r] = row]
  /\ dismissed' = dismissed \ {r}
  /\ Persist
  /\ Then(c, [c EXCEPT !.kind = "keep"])
  /\ imported' = [imported EXCEPT ![r] = c.tag]
  /\ unmarked' = IF r \in declined \cap Curated THEN unmarked \cup {r} ELSE unmarked
  /\ UNCHANGED <<zips, notes, form, downloads, mirror, listed, overtaken, declined>>

\* keepBundle() at its end; the store may have refused the zip.
Keeps(c) ==
  /\ c.kind = "keep"
  /\ \/ zips' = [zips EXCEPT ![c.repo] = c.tag]
     \/ UNCHANGED zips
  /\ adding' = FALSE
  /\ End(c)
  /\ UNCHANGED <<lists, dismissed, published, notes, updating, downloads, mirror, history>>

-----------------------------------------------------------------------------
\* restore(): read the kept zip, import it again, then look for the row.

ReadZip(c) ==
  /\ c.kind = "restore" /\ zips[c.repo] # None
  /\ Then(c, [c EXCEPT !.kind = "verify", !.tag = zips[c.repo]])
  /\ UNCHANGED <<lists, dismissed, bundles, notes, form, downloads, mirror, history>>

\* The row of a restore that has come back, unless it is gone or holds a newer import.
\* Mutant: a newer import is not looked at.
AwaitsAnyway(r) == Has(r)
Awaits(r) == Has(r) /\ ~first[r].held
Restored(c) ==
  LET r == c.repo IN
  /\ c.kind = "verify"
  /\ IF Awaits(r)
     THEN /\ first' = [first EXCEPT ![r] = [@ EXCEPT !.tag = c.tag, !.held = TRUE,
                                                      !.payload = TRUE, !.status = "ok"]]
          /\ published' = [published EXCEPT ![r] = @ + 1 - Revoked(r)]
          /\ UNCHANGED second
          /\ Persist
     ELSE UNCHANGED <<lists, published>>
  /\ End(c)
  /\ UNCHANGED <<dismissed, zips, notes, form, downloads, mirror, history>>

\* No zip, or one that does not import any more and is dropped.
NotRestored(c) ==
  /\ c.kind \in {"restore", "verify"}
  /\ zips' = IF c.kind = "verify" THEN [zips EXCEPT ![c.repo] = None] ELSE zips
  /\ first' = IF Awaits(c.repo) THEN [first EXCEPT ![c.repo].status = "idle"] ELSE first
  /\ End(c)
  /\ UNCHANGED <<second, disk, dismissed, published, notes, form, downloads, mirror, history>>

-----------------------------------------------------------------------------
SetActive(r, active) ==
  /\ UserMay("activate") /\ Has(r) /\ first[r].active # active
  /\ first' = [first EXCEPT ![r].active = active] /\ UNCHANGED second
  /\ Persist
  /\ IF active THEN MaybeAutoDownload(r) ELSE Cancel(r)
  /\ declined' = IF ~active /\ (first[r].curated \/ r \notin Curated)
                 THEN declined \cup {r} ELSE declined \ {r}
  /\ unmarked' = unmarked \ {r}
  /\ UNCHANGED <<dismissed, bundles, notes, form, calls, mirror, listed, overtaken, imported>>

\* remove(): the calls under way keep the row they have, which is nobody's now.
Detached(r) == {[c EXCEPT !.own = IF c.repo = r /\ c.kind \in {"refresh", "select"}
                                  THEN FALSE ELSE @] : c \in calls}
Remove(r) ==
  /\ UserMay("remove") /\ Has(r)
  /\ published' = [published EXCEPT ![r] = @ - Revoked(r)]
  /\ Cancel(r)
  /\ calls' = Detached(r) \cup IF first[r].origin = "bundle" THEN {Ask("forget", r)} ELSE {}
  /\ first' = [first EXCEPT ![r] = NoRow] /\ second' = [second EXCEPT ![r] = NoRow]
  /\ dismissed' = dismissed \cup {r}
  /\ Persist
  /\ overtaken' = overtaken \ {r} /\ declined' = declined \ {r}
  /\ unmarked' = unmarked \ {r} /\ imported' = [imported EXCEPT ![r] = None]
  /\ UNCHANGED <<zips, notes, form, mirror, listed>>

Forget(c) ==
  /\ c.kind = "forget"
  /\ zips' = [zips EXCEPT ![c.repo] = None]
  /\ End(c)
  /\ UNCHANGED <<lists, dismissed, published, notes, form, downloads, mirror, history>>

\* The page is loaded again, and load() starts from what localStorage has.
Reload ==
  /\ "reload" \in Deeds
  /\ first' = disk.first /\ second' = disk.second
  /\ published' = [r \in Repos |-> 0] /\ notes' = {}
  /\ adding' = FALSE /\ updating' = None
  /\ queued' = {} /\ running' = {} /\ aborted' = {}
  /\ calls' = {Ask("list", None)}
              \cup {[Ask("refresh", r) EXCEPT !.tag = first'[r].pin] :
                      r \in {s \in Repos : first'[s] # NoRow /\ first'[s].origin = "url"}}
              \cup {Ask("restore", r) :
                      r \in {s \in Repos : first'[s] # NoRow /\ first'[s].origin = "bundle"}}
  /\ listed' = FALSE /\ imported' = [r \in Repos |-> None]
  /\ UNCHANGED <<disk, dismissed, zips, mirror, overtaken, declined, unmarked>>

\* External: a project publishes a version, and retires its oldest.
Release ==
  /\ newest + 1 \in Versions /\ newest' = newest + 1
  /\ UNCHANGED <<lists, dismissed, bundles, notes, form, calls, downloads, oldest, history>>
Retire ==
  /\ oldest < newest /\ oldest' = oldest + 1
  /\ UNCHANGED <<lists, dismissed, bundles, notes, form, calls, downloads, newest, history>>

Lands(c) ==
  \/ Refreshed(c) \/ PinRetired(c) \/ RefreshFails(c)
  \/ Selected(c) \/ SelectFails(c)
  \/ ListArrives(c) \/ ListFails(c) \/ CurateLands(c) \/ CurateFails(c)
  \/ AddLands(c) \/ AddFails(c) \/ Conflict(c) \/ Imported(c) \/ Keeps(c)
  \/ ReadZip(c) \/ Restored(c) \/ NotRestored(c) \/ Forget(c)

User ==
  \/ \E r \in Repos : Refresh(r) \/ Add(r) \/ Import(r) \/ Remove(r)
  \/ \E r \in Repos, t \in Versions : Select(r, t) \/ AddResolved(r, t)
  \/ \E r \in Repos, active \in BOOLEAN : SetActive(r, active)
  \/ \E pane \in Panes : RetryCurated(pane) \/ \E b \in Batches : UpdateAll(pane, b)

Next ==
  \/ \E c \in calls : Lands(c)
  \/ \E r \in Repos : JobEnds(r)
  \/ User
  \/ Reload \/ Release \/ Retire

Spec == Init /\ [][Next]_vars

-----------------------------------------------------------------------------
\* A removal is a decision that no answer of the meantime undoes (DISMISSED_KEY,
\* resolveCurated()'s second look): a removed source has no row, in memory or on disk.  So is
\* a deactivation of a row that came with the list, or is not on it: it outlives refreshes,
\* pins, restores, lists and reloads, as long as the row keeps its marker.  A row of a listed
\* source that the user added himself has none, and one that a zip replaces loses it: the next
\* list activates those again (Reclaimed).  Nothing is still to be downloaded of a source that
\* is gone, inactive now, or an import (setActive()'s and remove()'s cancel()).
OptOutHolds ==
  /\ \A r \in dismissed : {first[r], second[r], disk.first[r], disk.second[r]} = {NoRow}
  /\ \A r \in declined \ unmarked : \A row \in {first[r], disk.first[r]} :
       row # NoRow /\ ~row.active
  /\ \A r \in queued \cup (running \ aborted) :
       Has(r) /\ first[r].active /\ first[r].origin = "url"

\* Once the visit has the curated list, each of its entries is a row, a removal of the user's, a
\* note with its Retry, or a question under way: none is lost without a word
\* (importCurated(), resolveCurated(), retryCurated()).
NothingForgotten ==
  listed => \A r \in Curated :
    \/ Has(r) \/ r \in dismissed \/ r \in notes
    \/ \E c \in calls : c.kind = "curate" /\ c.repo = r

\* The rows claim what there is: one that loads has a call that will settle it, an imported
\* source is installable exactly while its blob URLs live, no URLs outlive their row, the row
\* of a zip imported on this visit describes that zip ("Theirs is the newer intent": restore(),
\* importBundleFile() and remove() race over it), only imports have a payload, and a busy form
\* or pane has work behind it.
RowsHonest ==
  /\ \A r \in Repos : Has(r) =>
       /\ first[r].status = "loading" =>
            \E c \in calls : /\ c.repo = r /\ c.own
                             /\ c.kind \in {"refresh", "select", "restore", "verify"}
       /\ first[r].payload <=> first[r].origin = "bundle" /\ first[r].held
       /\ imported[r] # None => first[r].origin = "bundle" /\ first[r].tag = imported[r]
  /\ \A r \in Repos : published[r] = Revoked(r)
  /\ adding => \E c \in calls : c.kind \in {"add", "import", "keep"}
  /\ updating # None => \E c \in calls : c.batch # None

\* "A row the user PINNED stays pinned" (updateAll(), selectVersion()): what a pinned row
\* describes, now and on the next visit, is its pin, unless the pin was set while a question for
\* another version was in flight.
PinsHold ==
  \A r \in Repos \ overtaken : \A row \in {first[r], disk.first[r]} :
    row # NoRow /\ row.pin # None => row.tag = row.pin

=============================================================================
