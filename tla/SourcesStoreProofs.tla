------------------------- MODULE SourcesStoreProofs -------------------------
(***************************************************************************)
(* The list of sources keeps its promises for any sources, versions and     *)
(* calls in flight.                                                         *)
(***************************************************************************)
EXTENDS SourcesStore, FiniteSetTheorems, TLAPS

\* What a call carries; a refresh or a select works on the row it was started for until that is
\* removed.
Sound(c) ==
  /\ c.kind # "list" => c.repo \in Repos
  /\ c.kind = "curate" => c.repo \in Curated
  /\ c.kind \in {"select", "import", "keep", "verify"} => c.tag \in Versions
  /\ c.batch # None => c.kind = "refresh"
  /\ c.own \/ c.kind \in {"refresh", "select"}
  /\ c.kind \in {"refresh", "select"} /\ c.own => Refreshable(c.repo)

RowsOK ==
  /\ first \in [Repos -> Row \cup {NoRow}] /\ second \in [Repos -> Row \cup {NoRow}]
  /\ disk \in [first : [Repos -> Row \cup {NoRow}], second : [Repos -> Row \cup {NoRow}]]
SetsOK ==
  /\ dismissed \subseteq Repos /\ zips \in [Repos -> Versions \cup {None}]
  /\ notes \subseteq Curated
  /\ adding \in BOOLEAN /\ updating \in Panes \cup {None}
  /\ oldest \in Versions /\ newest \in Versions /\ oldest \leq newest
  /\ listed \in BOOLEAN /\ overtaken \subseteq Repos
HistoryOK ==
  /\ declined \subseteq Repos /\ unmarked \subseteq declined
  /\ imported \in [Repos -> Versions \cup {None}]
JobsOK ==
  /\ queued \subseteq Repos /\ running \subseteq Repos /\ aborted \subseteq running
  /\ IsFiniteSet(running) /\ Cardinality(running) \leq CONCURRENCY
CallsOK == calls \subseteq Call /\ \A c \in calls : Sound(c)

\* Only an import that is held has blob URLs, and nothing is held on a disk.
Backed(row) == row # NoRow /\ row.payload => row.held
UrlsOK ==
  /\ published \in [Repos -> Nat] /\ \A r \in Repos : published[r] = Revoked(r)
  /\ \A r \in Repos : Backed(first[r])
  /\ \A r \in Repos : disk.first[r] # NoRow => ~disk.first[r].held /\ ~disk.first[r].payload

TypeInv == RowsOK /\ SetsOK /\ HistoryOK /\ JobsOK /\ CallsOK /\ UrlsOK

\* The call that will settle a row that loads.
Settles(c, r) ==
  /\ c.repo = r /\ c.own
  /\ \/ c.kind \in {"refresh", "select"}
     \/ c.kind \in {"restore", "verify"} /\ ~first[r].held
HonestInv ==
  /\ \A r \in Repos : Has(r) =>
       /\ first[r].status = "loading" => \E c \in calls : Settles(c, r)
       /\ first[r].payload <=> first[r].origin = "bundle" /\ first[r].held
  /\ adding => \E c \in calls : c.kind \in {"add", "import", "keep"}
  /\ updating # None => \E c \in calls : c.batch # None

\* The row a restore works on is an import's, and what was imported on this visit is held.
Restoring(c) ==
  c.kind \in {"restore", "verify"} /\ Has(c.repo) =>
    first[c.repo].held \/ first[c.repo].origin = "bundle"
Latest(r) ==
  imported[r] # None =>
    Has(r) /\ first[r].held /\ first[r].origin = "bundle" /\ first[r].tag = imported[r]
ImportsInv == (\A c \in calls : Restoring(c)) /\ (\A r \in Repos : Latest(r))

\* What the user has deactivated stays so, and keeps its marker, on the next visit too.
Off(r, row) == row # NoRow /\ ~row.active /\ (r \in Curated => row.curated)
DeclinedInv == \A r \in declined \ unmarked : Off(r, first[r]) /\ Off(r, disk.first[r])

\* The questions of a pinned row are for its pin.
Faithful(row) == row # NoRow /\ row.pin # None => row.tag = row.pin
Unpinned(row) == row # NoRow /\ row.origin = "bundle" => row.pin = None
PinsInv ==
  /\ \A r \in Repos : Unpinned(first[r]) /\ Unpinned(disk.first[r])
  /\ \A r \in Repos \ overtaken :
       /\ Faithful(first[r]) /\ Faithful(disk.first[r])
       /\ Has(r) /\ first[r].pin # None =>
            \A c \in calls : c.kind = "refresh" /\ c.own /\ c.repo = r => c.tag = first[r].pin

-----------------------------------------------------------------------------
\* Rows.

LEMMA RowTypes ==
  ASSUME NEW row \in Row
  PROVE  /\ row # NoRow
         /\ row.origin \in {"url", "bundle"} /\ row.active \in BOOLEAN /\ row.curated \in BOOLEAN
         /\ row.pin \in Versions \cup {None} /\ row.tag \in Versions
         /\ row.held \in BOOLEAN /\ row.payload \in BOOLEAN
         /\ row.status \in {"loading", "ok", "error", "idle"}
  BY RowAssumption DEF Row

LEMMA NewRowType ==
  ASSUME NEW origin \in {"url", "bundle"}, NEW curated \in BOOLEAN, NEW t \in Versions
  PROVE  NewRow(origin, curated, t) \in Row
  BY DEF NewRow, Row

LEMMA RowStatus ==
  ASSUME NEW row \in Row, NEW s \in {"loading", "ok", "error", "idle"}
  PROVE  [row EXCEPT !.status = s] \in Row
  BY DEF Row

LEMMA RowResolved ==
  ASSUME NEW row \in Row, NEW t \in Versions, NEW p \in Versions \cup {None}
  PROVE  /\ [row EXCEPT !.tag = t, !.held = TRUE, !.status = "ok"] \in Row
         /\ [[row EXCEPT !.tag = t, !.held = TRUE, !.status = "ok"] EXCEPT !.pin = p] \in Row
  BY DEF Row

LEMMA RowUnpinned == ASSUME NEW row \in Row PROVE [row EXCEPT !.pin = None] \in Row
  BY DEF Row

LEMMA RowChoices ==
  ASSUME NEW row \in Row, NEW a \in BOOLEAN
  PROVE  /\ [row EXCEPT !.active = a] \in Row
         /\ [row EXCEPT !.active = TRUE, !.curated = TRUE] \in Row
  BY DEF Row

\* What a zip makes of its source's row, when it is imported and when it is restored.
Fresh(c) == [NewRow("bundle", FALSE, c.tag) EXCEPT !.active = ~Has(c.repo) \/ first[c.repo].active]
Back(row, t) == [row EXCEPT !.tag = t, !.held = TRUE, !.payload = TRUE, !.status = "ok"]

LEMMA RowRestored ==
  ASSUME NEW row \in Row, NEW t \in Versions
  PROVE  /\ Back(row, t) \in Row
         /\ Back(row, t).origin = row.origin /\ Back(row, t).active = row.active
         /\ Back(row, t).curated = row.curated /\ Back(row, t).pin = row.pin
         /\ Back(row, t).held = TRUE /\ Back(row, t).payload = TRUE /\ Back(row, t).status = "ok"
  BY DEF Back, Row

LEMMA KeptType ==
  ASSUME NEW row \in Row \cup {NoRow}, NEW s \in {"loading", "ok"}
  PROVE  /\ Kept(row, s) \in Row \cup {NoRow}
         /\ Kept(row, s) = NoRow <=> row = NoRow
  BY RowAssumption DEF Kept, Row

LEMMA PersistTypes ==
  ASSUME first' \in [Repos -> Row \cup {NoRow}], second' \in [Repos -> Row \cup {NoRow}], Persist
  PROVE  disk' \in [first : [Repos -> Row \cup {NoRow}], second : [Repos -> Row \cup {NoRow}]]
<1>1. \A r \in Repos : Kept(first'[r], "loading") \in Row \cup {NoRow}
  BY KeptType
<1>2. \A r \in Repos : Kept(second'[r], "ok") \in Row \cup {NoRow}
  BY KeptType
<1> QED BY <1>1, <1>2 DEF Persist

LEMMA LoadingTypes ==
  ASSUME RowsOK, NEW R, \A r \in R : Has(r), Loading(R), UNCHANGED <<second, disk>>
  PROVE  RowsOK'
<1>1. ASSUME NEW r \in R, r \in Repos PROVE [first[r] EXCEPT !.status = "loading"] \in Row
  BY <1>1, RowStatus DEF RowsOK, Has
<1> QED BY <1>1 DEF RowsOK, Loading

LEMMA AppendTypes ==
  ASSUME RowsOK, NEW r \in Repos, NEW row \in Row, Append(r, row), Persist
  PROVE  RowsOK'
<1>1. first' \in [Repos -> Row \cup {NoRow}] /\ second' \in [Repos -> Row \cup {NoRow}]
  BY DEF RowsOK, Append
<1> QED BY <1>1, PersistTypes DEF RowsOK

LEMMA AnswerType == ASSUME SetsOK, NEW c, Answered(c) PROVE Answer(c) \in Versions
  BY SourcesAssumption DEF SetsOK, Answered, Versions

\* A row of a source, with some of its fields changed, is one.
LEMMA FirstUpdate ==
  ASSUME RowsOK, NEW r \in Repos, NEW row \in Row,
         first' = [first EXCEPT ![r] = row], UNCHANGED second, Persist \/ UNCHANGED disk
  PROVE  RowsOK'
<1>1. first' \in [Repos -> Row \cup {NoRow}] /\ second' \in [Repos -> Row \cup {NoRow}]
  BY DEF RowsOK
<1> QED BY <1>1, PersistTypes DEF RowsOK

LEMMA FirstKept ==
  ASSUME RowsOK, UNCHANGED <<first, second>>, Persist \/ UNCHANGED disk
  PROVE  RowsOK'
  BY PersistTypes DEF RowsOK

\* What restore() makes of the row it was started for.
LEMMA RestoredRow ==
  ASSUME RowsOK, NEW c, c.repo \in Repos, Restored(c) \/ NotRestored(c)
  PROVE  \/ first' = first
         \/ /\ Restored(c) /\ Awaits(c.repo) /\ first[c.repo] \in Row
            /\ first' = [first EXCEPT ![c.repo] = Back(first[c.repo], c.tag)]
         \/ /\ NotRestored(c) /\ Awaits(c.repo) /\ first[c.repo] \in Row
            /\ first' = [first EXCEPT ![c.repo] = [first[c.repo] EXCEPT !.status = "idle"]]
<1>1. Awaits(c.repo) => first[c.repo] \in Row
  BY DEF Awaits, Has, RowsOK
<1>2. CASE Restored(c)
  BY <1>1, <1>2 DEF Restored, RowsOK, Row, lists, Back
<1>3. CASE NotRestored(c)
  BY <1>1, <1>3 DEF NotRestored, RowsOK, Row
<1> QED BY <1>2, <1>3

LEMMA ImportedRow ==
  ASSUME TypeInv, NEW c \in calls, Imported(c)
  PROVE  /\ c.repo \in Repos /\ c.tag \in Versions /\ Fresh(c) \in Row
         /\ Fresh(c).origin = "bundle" /\ Fresh(c).status = "ok" /\ Fresh(c).pin = None
         /\ Fresh(c).held = TRUE /\ Fresh(c).payload = TRUE /\ Fresh(c).tag = c.tag
         /\ Fresh(c).active = (~Has(c.repo) \/ first[c.repo].active)
         /\ first' = [first EXCEPT ![c.repo] = Fresh(c)]
         /\ second' = IF second[c.repo] = NoRow THEN second
                      ELSE [second EXCEPT ![c.repo] = Fresh(c)]
         /\ Has(c.repo) => first[c.repo].origin = "bundle"
<1>1. c.repo \in Repos /\ c.tag \in Versions
  BY DEF TypeInv, CallsOK, Sound, Imported
<1>2. (~Has(c.repo) \/ first[c.repo].active) \in BOOLEAN
  OBVIOUS
<1>3. Fresh(c) \in Row
  BY <1>1, <1>2, NewRowType, RowChoices DEF Fresh
<1>4. /\ Fresh(c).origin = "bundle" /\ Fresh(c).status = "ok" /\ Fresh(c).pin = None
      /\ Fresh(c).held = TRUE /\ Fresh(c).payload = TRUE /\ Fresh(c).tag = c.tag
      /\ Fresh(c).active = (~Has(c.repo) \/ first[c.repo].active)
  BY DEF Fresh, NewRow
<1>5. Has(c.repo) => first[c.repo].origin = "bundle"
  BY <1>1, RowTypes DEF Imported, Refreshable, Has, TypeInv, RowsOK
<1>6. /\ first' = [first EXCEPT ![c.repo] = Fresh(c)]
      /\ second' = IF second[c.repo] = NoRow THEN second ELSE [second EXCEPT ![c.repo] = Fresh(c)]
  BY DEF Imported, Fresh
<1> QED BY <1>1, <1>3, <1>4, <1>5, <1>6

LEMMA OwnRow ==
  ASSUME TypeInv, NEW c \in calls, c.kind \in {"refresh", "select"}, c.own
  PROVE  c.repo \in Repos /\ first[c.repo] \in Row /\ first[c.repo].origin = "url"
  BY DEF TypeInv, CallsOK, Sound, Refreshable, RowsOK, Has

\* What a landing refresh or select makes of the row it works on.
Settling(c) == Refreshed(c) \/ PinRetired(c) \/ RefreshFails(c) \/ Selected(c) \/ SelectFails(c)
SameSource(row, old) ==
  /\ row.origin = old.origin /\ row.active = old.active /\ row.payload = old.payload
  /\ row.curated = old.curated
  /\ row.held = old.held \/ row.held
Becomes(c, row, old) ==
  /\ SameSource(row, old)
  /\ \/ Refreshed(c) /\ row.tag = Answer(c) /\ row.pin = old.pin /\ row.status = "ok"
     \/ PinRetired(c) /\ row.pin = None /\ row.tag = old.tag /\ row.status = old.status
     \/ /\ RefreshFails(c) \/ SelectFails(c)
        /\ row.tag = old.tag /\ row.pin = old.pin /\ row.status = "error"
     \/ Selected(c) /\ row.tag = Answer(c) /\ row.pin = PinFor(c.tag) /\ row.status = "ok"

LEMMA SettledRow ==
  ASSUME TypeInv, NEW c \in calls, Settling(c), c.own
  PROVE  /\ c.repo \in Repos /\ first[c.repo] \in Row
         /\ \E row \in Row : /\ first' = [first EXCEPT ![c.repo] = row]
                             /\ Becomes(c, row, first[c.repo])
<1> DEFINE old == first[c.repo]
<1>0. c.repo \in Repos /\ old \in Row
  BY OwnRow DEF Settling, Refreshed, PinRetired, RefreshFails, Selected, SelectFails
<1>1. CASE Refreshed(c)
  <2>1. Resolved(c) \in Row
    BY <1>0, <1>1, AnswerType, RowResolved DEF TypeInv, Refreshed, Resolved
  <2>2. Becomes(c, Resolved(c), old)
    BY <1>0, <1>1 DEF Becomes, SameSource, Resolved, Row
  <2> QED BY <1>0, <1>1, <2>1, <2>2 DEF Refreshed, Update
<1>2. CASE PinRetired(c)
  <2>1. [old EXCEPT !.pin = None] \in Row
    BY <1>0, RowUnpinned
  <2>2. Becomes(c, [old EXCEPT !.pin = None], old)
    BY <1>0, <1>2 DEF Becomes, SameSource, Row
  <2> QED BY <1>0, <1>2, <2>1, <2>2 DEF PinRetired
<1>3. CASE RefreshFails(c) \/ SelectFails(c)
  <2>1. [old EXCEPT !.status = "error"] \in Row
    BY <1>0, RowStatus
  <2>2. Becomes(c, [old EXCEPT !.status = "error"], old)
    BY <1>0, <1>3 DEF Becomes, SameSource, Row
  <2> QED BY <1>0, <1>3, <2>1, <2>2 DEF RefreshFails, SelectFails
<1>4. CASE Selected(c)
  <2> DEFINE row == [Resolved(c) EXCEPT !.pin = PinFor(c.tag)]
  <2>1. PinFor(c.tag) \in Versions \cup {None}
    BY <1>4 DEF TypeInv, Selected, CallsOK, Sound, PinFor
  <2>2. row \in Row
    BY <1>0, <1>4, <2>1, AnswerType, RowResolved DEF TypeInv, Selected, Resolved
  <2>3. Becomes(c, row, old)
    BY <1>0, <1>4 DEF Becomes, SameSource, Resolved, Row
  <2> QED BY <1>0, <1>4, <2>2, <2>3 DEF Selected, Update
<1> QED BY <1>1, <1>2, <1>3, <1>4 DEF Settling

LEMMA NobodysRow ==
  ASSUME NEW c, Settling(c), ~c.own
  PROVE  first' = first
  BY DEF Settling, Refreshed, PinRetired, RefreshFails, Selected, SelectFails, Update

\* A settling call changes one row, into one of the same source.
LEMMA SettledRows ==
  ASSUME TypeInv, NEW c \in calls, Settling(c), NEW r \in Repos, first'[r] # first[r]
  PROVE  /\ c.own /\ r = c.repo
         /\ first[r] \in Row /\ first'[r] \in Row /\ Becomes(c, first'[r], first[r])
<1>1. c.own
  BY NobodysRow
<1>2. PICK row \in Row : first' = [first EXCEPT ![c.repo] = row] /\ Becomes(c, row, first[c.repo])
  BY <1>1, SettledRow
<1>3. r = c.repo /\ first'[r] = row
  BY <1>2 DEF TypeInv, RowsOK
<1> QED BY <1>1, <1>2, <1>3, SettledRow

LEMMA RowsStep == TypeInv /\ [Next]_vars => RowsOK'
<1> SUFFICES ASSUME TypeInv, [Next]_vars PROVE RowsOK'
  OBVIOUS
<1> USE DEF TypeInv
<1>1. ASSUME NEW c \in calls, Lands(c) PROVE RowsOK'
  <2> c.kind # "list" => c.repo \in Repos
    BY DEF CallsOK, Sound
  <2>1. CASE Settling(c)
    <3>1. UNCHANGED second /\ (Persist \/ UNCHANGED disk)
      BY <2>1 DEF Settling, Refreshed, PinRetired, RefreshFails, Selected, SelectFails
    <3> QED BY <2>1, <3>1, SettledRow, NobodysRow, FirstUpdate, FirstKept
  <2>5. CASE ListArrives(c)
    <3>1. ASSUME NEW r \in Reclaimed
          PROVE  [first[r] EXCEPT !.active = TRUE, !.curated = TRUE] \in Row
      BY <3>1, SourcesAssumption, RowChoices DEF Reclaimed, Has, RowsOK
    <3>2. first' \in [Repos -> Row \cup {NoRow}] /\ second' \in [Repos -> Row \cup {NoRow}]
      BY <2>5, <3>1 DEF ListArrives, RowsOK
    <3> QED BY <2>5, <3>2, PersistTypes DEF ListArrives, RowsOK
  <2>6. CASE CurateLands(c)
    <3>1. CASE Unwanted(c.repo)
      BY <2>6, <3>1 DEF CurateLands, RowsOK, lists
    <3>2. CASE ~Unwanted(c.repo)
      BY <2>6, <3>2, AppendTypes, NewRowType DEF CurateLands, SetsOK
    <3> QED BY <3>1, <3>2
  <2>7. CASE AddLands(c)
    BY <2>7, AppendTypes, NewRowType DEF AddLands, KeepResolved, SetsOK
  <2>8. CASE Imported(c)
    <3>1. first' \in [Repos -> Row \cup {NoRow}] /\ second' \in [Repos -> Row \cup {NoRow}]
      BY <2>8, ImportedRow DEF RowsOK
    <3> QED BY <2>8, <3>1, PersistTypes DEF Imported, RowsOK
  <2>9. CASE Restored(c) \/ NotRestored(c)
    <3>1. c.repo \in Repos /\ UNCHANGED second /\ (Persist \/ UNCHANGED disk)
      BY <2>9 DEF Restored, NotRestored, lists
    <3>2. CASE first' = first
      BY <3>1, <3>2, FirstKept
    <3>3. CASE first' # first
      <4>1. PICK row \in Row : first' = [first EXCEPT ![c.repo] = row]
        BY <2>9, <3>1, <3>3, RestoredRow, RowStatus, RowRestored DEF Restored, CallsOK, Sound
      <4> QED BY <3>1, <4>1, FirstUpdate
    <3> QED BY <3>2, <3>3
  <2>10. CASE ListFails(c) \/ CurateFails(c) \/ AddFails(c) \/ Conflict(c) \/ Keeps(c)
              \/ ReadZip(c) \/ Forget(c)
    BY <2>10 DEF ListFails, CurateFails, AddFails, Conflict, Keeps, ReadZip, Forget, RowsOK, lists
  <2> QED
    BY <1>1, <2>1, <2>5, <2>6, <2>7, <2>8, <2>9, <2>10 DEF Lands, Settling
<1>2. CASE User
  <2>1. ASSUME NEW r \in Repos, NEW t \in Versions, Select(r, t) PROVE RowsOK'
    BY <2>1, LoadingTypes DEF Select, Refreshable
  <2>2. ASSUME NEW pane \in Panes, NEW b \in Batches, UpdateAll(pane, b) PROVE RowsOK'
    BY <2>2, LoadingTypes DEF UpdateAll, Refreshable
  <2>3. ASSUME NEW r \in Repos, NEW t \in Versions, AddResolved(r, t) PROVE RowsOK'
    BY <2>3, AppendTypes, NewRowType DEF AddResolved, KeepResolved
  <2>4. ASSUME NEW r \in Repos, NEW active \in BOOLEAN, SetActive(r, active) PROVE RowsOK'
    <3>1. first[r] \in Row
      BY <2>4 DEF SetActive, Has, RowsOK
    <3> QED BY <2>4, <3>1, RowChoices, FirstUpdate DEF SetActive
  <2>5. ASSUME NEW r \in Repos, Remove(r) PROVE RowsOK'
    <3>1. first' \in [Repos -> Row \cup {NoRow}] /\ second' \in [Repos -> Row \cup {NoRow}]
      BY <2>5 DEF Remove, RowsOK
    <3> QED BY <2>5, <3>1, PersistTypes DEF Remove, RowsOK
  <2>6. ASSUME NEW r \in Repos, Refresh(r) PROVE RowsOK'
    BY <2>6, LoadingTypes DEF Refresh, Refreshable
  <2>7. ASSUME NEW r \in Repos, Add(r) \/ Import(r) PROVE RowsOK'
    BY <2>7 DEF Add, Import, RowsOK, lists
  <2>8. ASSUME NEW pane \in Panes, RetryCurated(pane) PROVE RowsOK'
    BY <2>8 DEF RetryCurated, RowsOK, lists
  <2> QED BY <1>2, <2>1, <2>2, <2>3, <2>4, <2>5, <2>6, <2>7, <2>8 DEF User
<1>3. CASE Reload
  BY <1>3 DEF Reload, RowsOK
<1>4. CASE (\E r \in Repos : JobEnds(r)) \/ Release \/ Retire \/ UNCHANGED vars
  BY <1>4 DEF JobEnds, Release, Retire, vars, RowsOK, lists
<1> QED BY <1>1, <1>2, <1>3, <1>4 DEF Next

-----------------------------------------------------------------------------
\* The sets, the downloads and the calls.

LEMMA SetsStep == TypeInv /\ [Next]_vars => SetsOK'
<1> SUFFICES ASSUME TypeInv, [Next]_vars PROVE SetsOK'
  OBVIOUS
<1> USE DEF TypeInv, SetsOK
<1>1. ASSUME NEW c \in calls, Lands(c) PROVE SetsOK'
  <2> /\ c.kind # "list" => c.repo \in Repos
      /\ c.kind = "curate" => c.repo \in Curated
    BY DEF CallsOK, Sound
  <2>1. CASE Refreshed(c) \/ PinRetired(c) \/ RefreshFails(c)
    BY <2>1 DEF Refreshed, PinRetired, RefreshFails, BatchOver, form, bundles, mirror, history
  <2>2. CASE Selected(c) \/ SelectFails(c)
    BY <2>2 DEF Selected, SelectFails, form, bundles, mirror, history
  <2>3. CASE ListArrives(c) \/ ListFails(c) \/ CurateLands(c) \/ CurateFails(c)
    BY <2>3 DEF ListArrives, ListFails, CurateLands, CurateFails, form, bundles, mirror, history
  <2>4. CASE AddLands(c) \/ AddFails(c) \/ Conflict(c)
    BY <2>4 DEF AddLands, KeepResolved, AddFails, Conflict, form, bundles, mirror, history
  <2>5. CASE Imported(c) \/ ReadZip(c) \/ Restored(c)
    BY <2>5 DEF Imported, ReadZip, Restored, form, bundles, mirror, history
  <2>6. CASE Keeps(c) \/ NotRestored(c) \/ Forget(c)
    <3>1. c.repo \in Repos /\ (c.kind = "keep" => c.tag \in Versions)
      BY <2>6 DEF Keeps, NotRestored, Forget, CallsOK, Sound
    <3>2. zips' \in [Repos -> Versions \cup {None}]
      BY <2>6, <3>1 DEF Keeps, NotRestored, Forget
    <3>3. adding' \in BOOLEAN
      BY <2>6 DEF Keeps, NotRestored, Forget, form
    <3> QED BY <2>6, <3>2, <3>3 DEF Keeps, NotRestored, Forget, form, mirror, history
  <2> QED BY <1>1, <2>1, <2>2, <2>3, <2>4, <2>5, <2>6 DEF Lands
<1>2. CASE User
  <2>1. ASSUME NEW r \in Repos, Refresh(r) \/ Add(r) \/ Import(r) \/ Remove(r) PROVE SetsOK'
    BY <2>1 DEF Refresh, Add, Import, Remove, form, bundles, mirror, history
  <2>2. ASSUME NEW r \in Repos, NEW t \in Versions, Select(r, t) \/ AddResolved(r, t)
        PROVE  SetsOK'
    BY <2>2 DEF Select, AddResolved, KeepResolved, form, bundles, mirror, history
  <2>3. ASSUME NEW r \in Repos, NEW active \in BOOLEAN, SetActive(r, active) PROVE SetsOK'
    BY <2>3 DEF SetActive, form, bundles, mirror, history
  <2>4. ASSUME NEW pane \in Panes, RetryCurated(pane) PROVE SetsOK'
    BY <2>4 DEF RetryCurated, form, bundles, mirror, history
  <2>5. ASSUME NEW pane \in Panes, NEW b \in Batches, UpdateAll(pane, b) PROVE SetsOK'
    BY <2>5 DEF UpdateAll, form, bundles, mirror, history
  <2> QED BY <1>2, <2>1, <2>2, <2>3, <2>4, <2>5 DEF User
<1>3. CASE Reload
  BY <1>3 DEF Reload, bundles, mirror, history
<1>4. CASE (\E r \in Repos : JobEnds(r)) \/ Release \/ Retire \/ UNCHANGED vars
  BY <1>4, SourcesAssumption
     DEF JobEnds, Release, Retire, vars, form, bundles, mirror, history, Versions
<1> QED BY <1>1, <1>2, <1>3, <1>4 DEF Next

LEMMA HistoryStep == TypeInv /\ [Next]_vars => HistoryOK'
<1> SUFFICES ASSUME TypeInv, [Next]_vars PROVE HistoryOK'
  OBVIOUS
<1> USE DEF TypeInv, HistoryOK
<1>1. ASSUME NEW c \in calls, Lands(c) PROVE HistoryOK'
  <2>1. CASE Imported(c)
    <3>1. c.repo \in Repos /\ c.tag \in Versions
      BY <2>1, ImportedRow
    <3> QED BY <2>1, <3>1 DEF Imported
  <2>2. CASE Settling(c)
    BY <2>2 DEF Settling, Refreshed, PinRetired, RefreshFails, Selected, SelectFails, history
  <2>3. CASE ListArrives(c) \/ ListFails(c) \/ CurateLands(c) \/ CurateFails(c)
    BY <2>3 DEF ListArrives, ListFails, CurateLands, CurateFails, history
  <2>4. CASE AddLands(c) \/ AddFails(c) \/ Conflict(c) \/ Keeps(c)
    BY <2>4 DEF AddLands, AddFails, Conflict, Keeps, history
  <2>5. CASE ReadZip(c) \/ Restored(c) \/ NotRestored(c) \/ Forget(c)
    BY <2>5 DEF ReadZip, Restored, NotRestored, Forget, history
  <2> QED BY <1>1, <2>1, <2>2, <2>3, <2>4, <2>5 DEF Lands, Settling
<1>2. CASE User
  <2>1. ASSUME NEW r \in Repos, Refresh(r) \/ Add(r) \/ Import(r) PROVE HistoryOK'
    BY <2>1 DEF Refresh, Add, Import, history
  <2>2. ASSUME NEW r \in Repos, Remove(r) PROVE HistoryOK'
    BY <2>2 DEF Remove
  <2>3. ASSUME NEW r \in Repos, NEW t \in Versions, Select(r, t) \/ AddResolved(r, t)
        PROVE  HistoryOK'
    BY <2>3 DEF Select, AddResolved, history
  <2>4. ASSUME NEW r \in Repos, NEW active \in BOOLEAN, SetActive(r, active) PROVE HistoryOK'
    BY <2>4 DEF SetActive
  <2>5. ASSUME NEW pane \in Panes, RetryCurated(pane) \/ \E b \in Batches : UpdateAll(pane, b)
        PROVE  HistoryOK'
    BY <2>5 DEF RetryCurated, UpdateAll, history
  <2> QED BY <1>2, <2>1, <2>2, <2>3, <2>4, <2>5 DEF User
<1>3. CASE Reload
  BY <1>3 DEF Reload
<1>4. CASE (\E r \in Repos : JobEnds(r)) \/ Release \/ Retire \/ UNCHANGED vars
  BY <1>4 DEF JobEnds, Release, Retire, vars, history
<1> QED BY <1>1, <1>2, <1>3, <1>4 DEF Next

LEMMA RequestJobs ==
  ASSUME JobsOK, NEW r \in Repos, NEW held \in SUBSET Repos, NEW cancelled \in SUBSET running,
         Request(r, held, cancelled)
  PROVE  JobsOK'
<1>1. CASE UNCHANGED running
  BY <1>1 DEF JobsOK, Request
<1>2. CASE running' = running \cup {r} /\ r \notin running /\ Cardinality(running) < CONCURRENCY
  <2>1. IsFiniteSet(running') /\ Cardinality(running') = Cardinality(running) + 1
    BY <1>2, FS_AddElement DEF JobsOK
  <2>2. Cardinality(running') <= CONCURRENCY
    BY <1>2, <2>1, SourcesAssumption, FS_CardinalityType DEF JobsOK
  <2> QED BY <1>2, <2>1, <2>2 DEF JobsOK, Request
<1> QED BY <1>1, <1>2 DEF Request

LEMMA CancelJobs == ASSUME JobsOK, NEW r, Cancel(r) PROVE JobsOK'
  BY DEF JobsOK, Cancel

LEMMA JobsStep == TypeInv /\ [Next]_vars => JobsOK'
<1> SUFFICES ASSUME TypeInv, [Next]_vars PROVE JobsOK'
  OBVIOUS
<1> USE DEF TypeInv
<1>0. JobsOK /\ queued \in SUBSET Repos /\ aborted \in SUBSET running
  BY DEF JobsOK
<1>1. ASSUME NEW c \in calls, Lands(c) PROVE JobsOK'
  <2> c.kind # "list" => c.repo \in Repos
    BY DEF CallsOK, Sound
  <2>1. CASE Refreshed(c) \/ AddLands(c)
    BY <1>0, <2>1, RequestJobs DEF Refreshed, AddLands, KeepResolved, MaybeAutoDownload
  <2>2. CASE Selected(c)
    <3>1. /\ queued \ {c.repo} \in SUBSET Repos
          /\ aborted \cup ({c.repo} \cap running) \in SUBSET running
      BY <1>0
    <3> QED BY <1>0, <2>2, <3>1, RequestJobs DEF Selected
  <2>3. CASE CurateLands(c)
    BY <1>0, <2>3, RequestJobs DEF CurateLands, MaybeAutoDownload, downloads, JobsOK
  <2>4. CASE PinRetired(c) \/ RefreshFails(c) \/ SelectFails(c) \/ ListArrives(c)
             \/ ListFails(c) \/ CurateFails(c)
    BY <1>0, <2>4 DEF PinRetired, RefreshFails, SelectFails, ListArrives, ListFails, CurateFails,
                      downloads, JobsOK
  <2>5. CASE AddFails(c) \/ Conflict(c) \/ Imported(c) \/ Keeps(c) \/ ReadZip(c) \/ Restored(c)
             \/ NotRestored(c) \/ Forget(c)
    BY <1>0, <2>5 DEF AddFails, Conflict, Imported, Keeps, ReadZip, Restored, NotRestored, Forget,
                      downloads, JobsOK
  <2> QED BY <1>1, <2>1, <2>2, <2>3, <2>4, <2>5 DEF Lands
<1>2. CASE User
  <2>1. ASSUME NEW r \in Repos, Refresh(r) \/ Add(r) \/ Import(r) PROVE JobsOK'
    BY <1>0, <2>1 DEF Refresh, Add, Import, downloads, JobsOK
  <2>2. ASSUME NEW r \in Repos, NEW t \in Versions, Select(r, t) \/ AddResolved(r, t)
        PROVE  JobsOK'
    BY <1>0, <2>2, RequestJobs
       DEF Select, AddResolved, KeepResolved, MaybeAutoDownload, downloads, JobsOK
  <2>3. ASSUME NEW r \in Repos, NEW active \in BOOLEAN, SetActive(r, active) PROVE JobsOK'
    BY <1>0, <2>3, RequestJobs, CancelJobs DEF SetActive, MaybeAutoDownload
  <2>4. ASSUME NEW r \in Repos, Remove(r) PROVE JobsOK'
    BY <1>0, <2>4, CancelJobs DEF Remove
  <2>5. ASSUME NEW pane \in Panes, RetryCurated(pane) \/ \E b \in Batches : UpdateAll(pane, b)
        PROVE  JobsOK'
    BY <1>0, <2>5 DEF RetryCurated, UpdateAll, downloads, JobsOK
  <2> QED BY <1>2, <2>1, <2>2, <2>3, <2>4, <2>5 DEF User
<1>3. CASE Reload
  BY <1>3, FS_EmptySet, SourcesAssumption DEF Reload, JobsOK
<1>4. CASE \E r \in Repos : JobEnds(r)
  <2>1. PICK r \in Repos : JobEnds(r)
    BY <1>4
  <2>2. /\ IsFiniteSet(running \ {r})
        /\ Cardinality(running \ {r}) = Cardinality(running) - 1
    BY <1>0, <2>1, FS_RemoveElement DEF JobEnds, JobsOK
  <2>c. Cardinality(running) \in Nat /\ Cardinality(running \ {r}) \in Nat
    BY <1>0, <2>2, FS_CardinalityType DEF JobsOK
  <2>3. CASE queued = {}
    <3>1. running' = running \ {r} /\ queued' = queued /\ aborted' = aborted \ {r}
      BY <2>1, <2>3 DEF JobEnds
    <3>2. Cardinality(running') <= CONCURRENCY
      BY <1>0, <2>2, <2>c, <3>1, SourcesAssumption DEF JobsOK
    <3> QED BY <1>0, <2>2, <3>1, <3>2 DEF JobsOK
  <2>4. CASE queued # {}
    <3>1. PICK next \in queued :
            running' = (running \ {r}) \cup {next} /\ queued' = queued \ {next}
      BY <2>1, <2>4 DEF JobEnds
    <3>2. /\ IsFiniteSet((running \ {r}) \cup {next})
          /\ \/ Cardinality((running \ {r}) \cup {next}) = Cardinality(running \ {r})
             \/ Cardinality((running \ {r}) \cup {next}) = Cardinality(running \ {r}) + 1
      BY <2>2, FS_AddElement
    <3>3. Cardinality(running') <= CONCURRENCY
      BY <1>0, <2>2, <2>c, <3>1, <3>2, SourcesAssumption DEF JobsOK
    <3>4. running' \subseteq Repos /\ queued' \subseteq Repos /\ aborted' \subseteq running'
      BY <1>0, <2>1, <3>1 DEF JobEnds, JobsOK
    <3> QED BY <3>1, <3>2, <3>3, <3>4 DEF JobsOK
  <2> QED BY <2>3, <2>4
<1>5. CASE Release \/ Retire \/ UNCHANGED vars
  BY <1>0, <1>5 DEF Release, Retire, vars, downloads, JobsOK
<1> QED BY <1>1, <1>2, <1>3, <1>4, <1>5 DEF Next

\* A row stays until it is removed or the page is loaded again.
Marked(r) == first[r].curated \/ r \notin Curated
Replaced(r) == \E c \in calls : Imported(c) /\ c.repo = r
Stays(r) ==
  /\ Has(r)' /\ first'[r].origin = first[r].origin
  /\ first[r].held => first'[r].held
  /\ first[r].active /\ ~SetActive(r, FALSE) => first'[r].active
  /\ ~first[r].active /\ Marked(r) /\ ~SetActive(r, TRUE) => ~first'[r].active
  /\ first[r].curated /\ ~Replaced(r) => first'[r].curated
LEMMA RowsStay ==
  ASSUME TypeInv, [Next]_vars, ~Reload, NEW r \in Repos, ~Remove(r), Has(r)
  PROVE  Stays(r)
<1> USE DEF TypeInv
<1>0. first[r] \in Row /\ first \in [Repos -> Row \cup {NoRow}] /\ RowsOK'
  BY RowsStep DEF RowsOK, Has
<1>1. ASSUME NEW c \in calls, Lands(c) PROVE Stays(r)
  <2>1. CASE Settling(c)
    <3>1. CASE first'[r] = first[r]
      BY <3>1 DEF Stays, Has
    <3>2. CASE first'[r] # first[r]
      BY <2>1, <3>2, SettledRows, RowTypes DEF Becomes, SameSource, Stays, Has
    <3> QED BY <3>1, <3>2
  <2>3. CASE ListArrives(c)
    <3>1. CASE r \in Reclaimed
      <4>1. first'[r] = [first[r] EXCEPT !.active = TRUE, !.curated = TRUE]
        BY <1>0, <2>3, <3>1 DEF ListArrives
      <4>2. first'[r] \in Row /\ ~Marked(r)
        BY <1>0, <3>1, <4>1, RowChoices DEF Reclaimed, Marked
      <4>3. /\ first'[r].origin = first[r].origin /\ first'[r].held = first[r].held
            /\ first'[r].active = TRUE /\ first'[r].curated = TRUE
        BY <1>0, <4>1 DEF Row
      <4> QED BY <4>2, <4>3, RowTypes DEF Stays, Has
    <3>2. CASE r \notin Reclaimed
      BY <1>0, <2>3, <3>2 DEF ListArrives, Stays, Has
    <3> QED BY <3>1, <3>2
  <2>4. CASE CurateLands(c) \/ AddLands(c)
    BY <1>0, <2>4 DEF CurateLands, AddLands, KeepResolved, Append, lists, Stays, Has
  <2>5. CASE Imported(c)
    <3>1. CASE r = c.repo
      <4>1. first'[r] = Fresh(c) /\ Replaced(r)
        BY <1>0, <2>5, <3>1, ImportedRow DEF Replaced
      <4> QED BY <2>5, <3>1, <4>1, ImportedRow, RowTypes DEF Stays, Has
    <3>2. CASE r # c.repo
      BY <1>0, <2>5, <3>2 DEF Imported, Stays, Has
    <3> QED BY <3>1, <3>2
  <2>6. CASE Restored(c) \/ NotRestored(c)
    <3>1. c.repo \in Repos
      BY <2>6 DEF Restored, NotRestored, CallsOK, Sound
    <3>2. Restored(c) => c.tag \in Versions
      BY DEF Restored, CallsOK, Sound
    <3>3. CASE first'[r] = first[r]
      BY <3>3 DEF Stays, Has
    <3>4. CASE Restored(c) /\ first'[r] = Back(first[r], c.tag)
      <4>0. c.tag \in Versions /\ first[r] \in Row /\ first'[r] = Back(first[r], c.tag)
        BY <1>0, <3>2, <3>4
      <4>1. Back(first[r], c.tag) \in Row
        BY <4>0, RowRestored
      <4>2. /\ first'[r].origin = first[r].origin /\ first'[r].active = first[r].active
            /\ first'[r].held = TRUE /\ first'[r].curated = first[r].curated
        <5>1. /\ Back(first[r], c.tag).origin = first[r].origin
              /\ Back(first[r], c.tag).active = first[r].active
              /\ Back(first[r], c.tag).held = TRUE
              /\ Back(first[r], c.tag).curated = first[r].curated
          BY <4>0 DEF Back, Row
        <5> QED BY <4>0, <5>1, Zenon
      <4> QED BY <3>4, <4>1, <4>2, RowTypes DEF Stays, Has
    <3>5. CASE first'[r] = [first[r] EXCEPT !.status = "idle"]
      <4>1. first'[r] \in Row
        BY <1>0, <3>5, RowStatus
      <4>2. /\ first'[r].origin = first[r].origin /\ first'[r].active = first[r].active
            /\ first'[r].held = first[r].held /\ first'[r].curated = first[r].curated
        BY <1>0, <3>5 DEF Row
      <4> QED BY <4>1, <4>2, RowTypes DEF Stays, Has
    <3>6. \/ first' = first
          \/ Restored(c) /\ first' = [first EXCEPT ![c.repo] = Back(first[c.repo], c.tag)]
          \/ first' = [first EXCEPT ![c.repo] = [first[c.repo] EXCEPT !.status = "idle"]]
      BY <2>6, <3>1, RestoredRow
    <3>7. CASE r = c.repo
      BY <1>0, <3>3, <3>4, <3>5, <3>6, <3>7
    <3>8. CASE r # c.repo
      BY <1>0, <3>3, <3>6, <3>8
    <3> QED BY <3>7, <3>8
  <2>7. CASE \/ ListFails(c) \/ CurateFails(c) \/ AddFails(c) \/ Conflict(c) \/ Keeps(c)
             \/ ReadZip(c) \/ Forget(c)
    BY <2>7 DEF ListFails, CurateFails, AddFails, Conflict, Keeps, ReadZip, Forget, lists, Stays, Has
  <2> QED BY <1>1, <2>1, <2>3, <2>4, <2>5, <2>6, <2>7 DEF Lands, Settling
<1>2. CASE User
  <2>0. [first[r] EXCEPT !.status = "loading"] \in Row
    BY <1>0, RowStatus
  <2>1. ASSUME NEW R, Loading(R) PROVE Stays(r)
    <3>1. CASE first'[r] = first[r]
      BY <3>1 DEF Stays, Has
    <3>2. CASE first'[r] = [first[r] EXCEPT !.status = "loading"]
      <4>1. /\ first'[r].origin = first[r].origin /\ first'[r].active = first[r].active
            /\ first'[r].held = first[r].held /\ first'[r].curated = first[r].curated
        BY <1>0, <3>2 DEF Row
      <4> QED BY <2>0, <3>2, <4>1, RowTypes DEF Stays, Has
    <3> QED BY <2>1, <3>1, <3>2 DEF Loading
  <2>2. ASSUME NEW q \in Repos, Refresh(q) \/ Add(q) \/ Import(q)
        PROVE  Stays(r)
    BY <2>1, <2>2 DEF Refresh, Add, Import, lists, Stays, Has
  <2>3. ASSUME NEW q \in Repos, NEW t \in Versions, Select(q, t) \/ AddResolved(q, t)
        PROVE  Stays(r)
    BY <1>0, <2>1, <2>3 DEF Select, AddResolved, KeepResolved, Append, Stays, Has
  <2>4. ASSUME NEW q \in Repos, NEW active \in BOOLEAN, SetActive(q, active)
        PROVE  Stays(r)
    <3>1. first'[r] = first[r] \/ first'[r] = [first[r] EXCEPT !.active = active]
      BY <1>0, <2>4 DEF SetActive
    <3>2. [first[r] EXCEPT !.active = active] \in Row
      BY <1>0, RowChoices
    <3>3. /\ first'[r].origin = first[r].origin /\ first'[r].held = first[r].held
          /\ first'[r].curated = first[r].curated /\ first'[r] \in Row
      BY <1>0, <3>1, <3>2 DEF Row
    <3>4. CASE r = q
      <4>1. first'[r].active = active /\ SetActive(r, active)
        BY <1>0, <2>4, <3>4 DEF SetActive, Row
      <4> QED BY <3>3, <4>1, RowTypes DEF Stays, Has
    <3>5. CASE r # q
      <4>1. first'[r] = first[r]
        BY <1>0, <2>4, <3>5 DEF SetActive
      <4> QED BY <1>0, <4>1 DEF Stays, Has
    <3> QED BY <3>4, <3>5
  <2>5. ASSUME NEW q \in Repos, Remove(q) PROVE Stays(r)
    BY <1>0, <2>5 DEF Remove, Stays, Has
  <2>6. ASSUME NEW pane \in Panes, RetryCurated(pane) \/ \E b \in Batches : UpdateAll(pane, b)
        PROVE  Stays(r)
    BY <2>1, <2>6 DEF RetryCurated, UpdateAll, lists, Stays, Has
  <2> QED BY <1>2, <2>2, <2>3, <2>4, <2>5, <2>6 DEF User
<1>3. CASE (\E q \in Repos : JobEnds(q)) \/ Release \/ Retire \/ UNCHANGED vars
  BY <1>3 DEF JobEnds, Release, Retire, vars, lists, Stays, Has
<1> QED BY <1>1, <1>2, <1>3 DEF Next

LEMMA AskType ==
  ASSUME NEW kind \in Kinds, NEW r \in Repos \cup {None}, NEW t \in Versions \cup {None},
         NEW b \in Batches \cup {None}
  PROVE  /\ Ask(kind, r) \in Call
         /\ [Ask(kind, r) EXCEPT !.tag = t] \in Call
         /\ [Ask(kind, r) EXCEPT !.tag = t, !.batch = b] \in Call
  BY DEF Ask, Call

LEMMA AskedType ==
  ASSUME RowsOK, NEW r \in Repos, Refreshable(r), NEW b \in Batches \cup {None}
  PROVE  Asked(r, b) \in Call
<1>1. first[r].pin \in Versions \cup {None}
  BY RowTypes DEF RowsOK, Refreshable, Has
<1>2. "refresh" \in Kinds
  BY DEF Kinds
<1> QED BY <1>1, <1>2, AskType DEF Asked

LEMMA AskSound ==
  ASSUME NEW kind \in {"add", "restore", "forget"}, NEW r \in Repos
  PROVE  Ask(kind, r) \in Call /\ Sound(Ask(kind, r))'
<1>1. Ask(kind, r) \in Call
  BY AskType DEF Kinds
<1>2. Sound(Ask(kind, r))'
  BY DEF Sound, Ask
<1> QED BY <1>1, <1>2

\* What a call works on stays, unless a removal takes it away.
LEMMA SoundStays ==
  ASSUME TypeInv, [Next]_vars, ~Reload, NEW c \in calls, ~Remove(c.repo)
  PROVE  Sound(c)'
<1>1. Sound(c)
  BY DEF TypeInv, CallsOK
<1>2. c.kind \in {"refresh", "select"} /\ c.own => Refreshable(c.repo)'
  BY <1>1, RowsStay DEF Stays, Sound, Refreshable
<1> QED BY <1>1, <1>2 DEF Sound

LEMMA CallsStep == TypeInv /\ [Next]_vars => CallsOK'
<1> SUFFICES ASSUME TypeInv, [Next]_vars PROVE CallsOK'
  OBVIOUS
<1> USE DEF TypeInv
<1>0. \A c \in calls : c \in Call /\ Sound(c)
  BY DEF CallsOK
<1>1. CASE Reload
  <2>1. RowsOK'
    BY RowsStep
  <2>2. ASSUME NEW r \in Repos, first'[r] # NoRow, first'[r].origin = "url",
               NEW c, c = [Ask("refresh", r) EXCEPT !.tag = first'[r].pin]
        PROVE  c \in Call /\ Sound(c)'
    <3>1. first'[r].pin \in Versions \cup {None}
      BY <2>1, <2>2, RowTypes DEF RowsOK
    <3>2. c \in Call
      BY <2>2, <3>1, AskType DEF Kinds
    <3>3. c.kind = "refresh" /\ c.repo = r
      BY <2>2 DEF Ask
    <3> QED BY <2>2, <3>2, <3>3 DEF Sound, Refreshable, Has
  <2>3. Ask("list", None) \in Call /\ Sound(Ask("list", None))'
    BY AskType DEF Kinds, Sound, Ask
  <2>4. ASSUME NEW c \in calls' PROVE c \in Call /\ Sound(c)'
    <3>1. CASE c = Ask("list", None)
      BY <2>3, <3>1
    <3>2. CASE \E r \in Repos : first'[r] # NoRow /\ first'[r].origin = "url"
                                /\ c = [Ask("refresh", r) EXCEPT !.tag = first'[r].pin]
      BY <2>2, <3>2
    <3>3. CASE \E r \in Repos : c = Ask("restore", r)
      BY <3>3, AskSound
    <3> QED BY <1>1, <2>4, <3>1, <3>2, <3>3 DEF Reload
  <2> QED BY <2>4 DEF CallsOK
<1>2. ASSUME ~Reload, NEW r \in Repos, Remove(r) PROVE CallsOK'
  <2>1. ASSUME NEW c \in calls
        PROVE  LET d == [c EXCEPT !.own = IF c.repo = r /\ c.kind \in {"refresh", "select"}
                                          THEN FALSE ELSE @]
               IN  d \in Call /\ Sound(d)'
    <3> DEFINE d == [c EXCEPT !.own = IF c.repo = r /\ c.kind \in {"refresh", "select"}
                                      THEN FALSE ELSE @]
    <3>1. d \in Call
      BY <1>0 DEF Call
    <3>2. CASE c.repo = r /\ c.kind \in {"refresh", "select"}
      BY <1>0, <3>2 DEF Sound, Call
    <3>3. CASE ~(c.repo = r /\ c.kind \in {"refresh", "select"})
      <4>1. d = c
        BY <1>0, <3>3 DEF Call
      <4>2. c.kind \in {"refresh", "select"} /\ c.own => Refreshable(c.repo)'
        <5> SUFFICES ASSUME c.kind \in {"refresh", "select"}, c.own PROVE Refreshable(c.repo)'
          OBVIOUS
        <5>1. c.repo # r /\ c.repo \in Repos /\ Refreshable(c.repo)
          BY <1>0, <3>3 DEF Sound
        <5> QED BY <1>2, <5>1 DEF Remove, Refreshable, Has, RowsOK
      <4>3. Sound(c)'
        BY <1>0, <4>2 DEF Sound
      <4> QED BY <3>1, <4>1, <4>3
    <3> QED BY <3>1, <3>2, <3>3
  <2>2. Ask("forget", r) \in Call /\ Sound(Ask("forget", r))'
    BY AskSound
  <2> QED BY <1>2, <2>1, <2>2 DEF Remove, Detached, CallsOK
<1>3. ASSUME ~Reload, \A r \in Repos : ~Remove(r) PROVE CallsOK'
  <2>0. \A c \in calls : c \in Call /\ Sound(c)'
    <3> TAKE c \in calls
    <3>1. CASE c.repo \in Repos
      BY <1>0, <1>3, <3>1, SoundStays
    <3>2. CASE c.repo \notin Repos
      BY <1>0, <3>2 DEF Sound
    <3> QED BY <3>1, <3>2
  <2>1. ASSUME NEW c \in calls, Lands(c) PROVE CallsOK'
    <3>1. CASE PinRetired(c)
      <4>1. [c EXCEPT !.tag = None] \in Call /\ Sound([c EXCEPT !.tag = None])'
        BY <2>0, <3>1 DEF PinRetired, Call, Sound
      <4> QED BY <2>0, <3>1, <4>1 DEF PinRetired, Then, CallsOK
    <3>2. CASE ListArrives(c)
      <4>1. \A r \in Missing : Ask("curate", r) \in Call /\ Sound(Ask("curate", r))'
        BY SourcesAssumption, AskType DEF Missing, Kinds, Sound, Ask
      <4> QED BY <2>0, <3>2, <4>1 DEF ListArrives, CallsOK
    <3>3. CASE Imported(c)
      <4>1. [c EXCEPT !.kind = "keep"] \in Call /\ Sound([c EXCEPT !.kind = "keep"])'
        BY <2>0, <3>3 DEF Imported, Call, Kinds, Sound
      <4> QED BY <2>0, <3>3, <4>1 DEF Imported, Then, CallsOK
    <3>4. CASE ReadZip(c)
      <4>1. c.repo \in Repos /\ zips[c.repo] \in Versions
        BY <1>0, <3>4 DEF ReadZip, Sound, SetsOK
      <4>t. PICK t \in Versions : t = zips[c.repo]
        BY <4>1
      <4> DEFINE d == [c EXCEPT !.kind = "verify", !.tag = t]
      <4>2. c \in Call /\ c.own /\ c.batch = None
        BY <1>0, <3>4 DEF ReadZip, Sound
      <4>3. /\ d.kind = "verify" /\ d.repo = c.repo /\ d.own /\ d.batch = None
            /\ d.tag = t /\ d \in Call
        BY <4>1, <4>2 DEF Call, Kinds
      <4>4. calls' = (calls \ {c}) \cup {d}
        BY <3>4, <4>t DEF ReadZip, Then
      <4> HIDE DEF d
      <4>5. Sound(d)'
        BY <4>1, <4>3 DEF Sound
      <4> QED BY <2>0, <4>3, <4>4, <4>5 DEF CallsOK
    <3>5. CASE \/ Refreshed(c) \/ RefreshFails(c) \/ Selected(c) \/ SelectFails(c)
               \/ ListFails(c) \/ CurateLands(c) \/ CurateFails(c)
      BY <2>0, <3>5 DEF Refreshed, RefreshFails, Selected, SelectFails, ListFails, CurateLands,
                        CurateFails, End, CallsOK
    <3>6. CASE \/ AddLands(c) \/ AddFails(c) \/ Conflict(c) \/ Keeps(c) \/ Restored(c)
               \/ NotRestored(c) \/ Forget(c)
      BY <2>0, <3>6 DEF AddLands, AddFails, Conflict, Keeps, Restored, NotRestored, Forget, End,
                        CallsOK
    <3> QED BY <2>1, <3>1, <3>2, <3>3, <3>4, <3>5, <3>6 DEF Lands
  <2>2. ASSUME NEW r \in Repos, NEW b \in Batches \cup {None}, Refreshable(r),
               NEW c, c = Asked(r, b)
        PROVE  c \in Call /\ Sound(c)'
    <3>1. c \in Call
      BY <2>2, AskedType
    <3>2. Refreshable(r)'
      BY <1>3, <2>2, RowsStay DEF Stays, Refreshable
    <3>3. c.kind = "refresh" /\ c.repo = r
      BY <2>2 DEF Asked, Ask
    <3> QED BY <3>1, <3>2, <3>3 DEF Sound
  <2>3. CASE User
    <3>1. ASSUME NEW r \in Repos, Refresh(r) PROVE CallsOK'
      BY <2>0, <2>2, <3>1 DEF Refresh, Start, CallsOK
    <3>2. ASSUME NEW r \in Repos, Add(r) \/ Import(r) PROVE CallsOK'
      <4>1. ASSUME NEW t \in Versions
            PROVE  LET d == [Ask("import", r) EXCEPT !.tag = t] IN d \in Call /\ Sound(d)'
        BY AskType DEF Kinds, Sound, Ask
      <4> QED BY <2>0, <3>2, <4>1, AskSound DEF Add, Import, Start, CallsOK
    <3>3. ASSUME NEW r \in Repos, NEW t \in Versions, Select(r, t) PROVE CallsOK'
      <4>1. [Ask("select", r) EXCEPT !.tag = t] \in Call
        BY AskType DEF Kinds
      <4>2. Refreshable(r)'
        BY <1>3, <3>3, RowsStay DEF Stays, Select, Refreshable
      <4>3. Sound([Ask("select", r) EXCEPT !.tag = t])'
        BY <4>2 DEF Sound, Ask
      <4> QED BY <2>0, <3>3, <4>1, <4>3 DEF Select, Start, CallsOK
    <3>4. ASSUME NEW pane \in Panes, NEW b \in Batches, UpdateAll(pane, b) PROVE CallsOK'
      BY <2>0, <2>2, <3>4 DEF UpdateAll, CallsOK
    <3>5. ASSUME NEW pane \in Panes, RetryCurated(pane) PROVE CallsOK'
      <4>1. \A r \in notes : Ask("curate", r) \in Call /\ Sound(Ask("curate", r))'
        BY SourcesAssumption, AskType DEF SetsOK, Kinds, Sound, Ask
      <4> QED BY <2>0, <3>5, <4>1 DEF RetryCurated, CallsOK
    <3>7. ASSUME NEW r \in Repos, NEW t \in Versions, AddResolved(r, t) PROVE CallsOK'
      BY <2>0, <3>7 DEF AddResolved, CallsOK
    <3>8. ASSUME NEW r \in Repos, NEW active \in BOOLEAN, SetActive(r, active) PROVE CallsOK'
      BY <2>0, <3>8 DEF SetActive, CallsOK
    <3> QED BY <1>3, <2>3, <3>1, <3>2, <3>3, <3>4, <3>5, <3>7, <3>8 DEF User
  <2>4. CASE (\E r \in Repos : JobEnds(r)) \/ Release \/ Retire \/ UNCHANGED vars
    BY <2>0, <2>4 DEF JobEnds, Release, Retire, vars, CallsOK
  <2> QED BY <1>3, <2>1, <2>3, <2>4 DEF Next
<1> QED BY <1>1, <1>2, <1>3


-----------------------------------------------------------------------------
\* The blob URLs.

LEMMA DiskHoldsNothing ==
  ASSUME TypeInv, RowsOK', Persist \/ UNCHANGED disk
  PROVE  \A r \in Repos : disk'.first[r] # NoRow => ~disk'.first[r].held /\ ~disk'.first[r].payload
<1>1. CASE Persist
  <2> SUFFICES ASSUME NEW r \in Repos, disk'.first[r] # NoRow
               PROVE  ~disk'.first[r].held /\ ~disk'.first[r].payload
    OBVIOUS
  <2>1. disk'.first[r] = Kept(first'[r], "loading")
    BY <1>1 DEF Persist
  <2>2. first'[r] \in Row
    BY <2>1 DEF Kept, RowsOK
  <2> QED BY <2>1, <2>2, RowTypes DEF Kept, Row
<1>2. CASE UNCHANGED disk
  BY <1>2 DEF TypeInv, UrlsOK
<1> QED BY <1>1, <1>2

\* A step that publishes and revokes nothing, and makes no row one with a payload.
Unpublished(r) ==
  \/ first'[r] = first[r]
  \/ /\ first'[r] \in Row /\ first[r] \in Row /\ first'[r].payload = first[r].payload
     /\ first'[r].held = first[r].held \/ first'[r].held
  \/ first'[r] \in Row /\ ~Has(r) /\ ~first'[r].payload
LEMMA UrlsKept ==
  ASSUME TypeInv, RowsOK', UNCHANGED published, Persist \/ UNCHANGED disk,
         \A r \in Repos : Unpublished(r)
  PROVE  UrlsOK'
<1> USE DEF TypeInv
<1>1. ASSUME NEW r \in Repos PROVE published'[r] = Revoked(r)' /\ Backed(first[r])'
  <2>1. published[r] = Revoked(r) /\ Backed(first[r])
    BY DEF UrlsOK
  <2>2. CASE first'[r] = first[r]
    BY <2>1, <2>2 DEF Revoked, Has, Backed
  <2>3. CASE /\ first'[r] \in Row /\ first[r] \in Row /\ first'[r].payload = first[r].payload
             /\ first'[r].held = first[r].held \/ first'[r].held
    BY <2>1, <2>3, RowTypes DEF Revoked, Has, Backed
  <2>4. CASE first'[r] \in Row /\ ~Has(r) /\ ~first'[r].payload
    BY <2>1, <2>4 DEF Revoked, Has, Backed
  <2> QED BY <2>2, <2>3, <2>4 DEF Unpublished
<1>2. published' \in [Repos -> Nat]
  BY DEF UrlsOK
<1> QED BY <1>1, <1>2, DiskHoldsNothing DEF UrlsOK

LEMMA AppendedUnpublished ==
  ASSUME TypeInv, NEW r \in Repos, NEW curated \in BOOLEAN, NEW t \in Versions,
         Append(r, NewRow("url", curated, t))
  PROVE  \A q \in Repos : Unpublished(q)
<1>1. NewRow("url", curated, t) \in Row /\ ~NewRow("url", curated, t).payload
  BY NewRowType DEF NewRow
<1> QED BY <1>1 DEF TypeInv, RowsOK, Append, Unpublished

\* An import, or a restore of one, publishes the blob URLs of its row.
LEMMA PublishedOne ==
  ASSUME TypeInv, RowsOK', NEW r \in Repos, NEW row \in Row, row.payload, row.held,
         first' = [first EXCEPT ![r] = row], published' = [published EXCEPT ![r] = 1], Persist
  PROVE  UrlsOK'
<1> USE DEF TypeInv
<1>1. ASSUME NEW q \in Repos PROVE published'[q] = Revoked(q)' /\ Backed(first[q])'
  <2>1. published[q] = Revoked(q) /\ Backed(first[q])
    BY DEF UrlsOK
  <2>2. CASE q = r
    <3>1. first'[q] = row /\ published'[q] = 1
      BY <2>2 DEF UrlsOK, RowsOK
    <3> QED BY <3>1, RowTypes DEF Revoked, Has, Backed
  <2>3. CASE q # r
    <3>1. first'[q] = first[q] /\ published'[q] = published[q]
      BY <2>3 DEF UrlsOK, RowsOK
    <3> QED BY <2>1, <3>1 DEF Revoked, Has, Backed
  <2> QED BY <2>2, <2>3
<1>2. published' \in [Repos -> Nat]
  BY DEF UrlsOK
<1> QED BY <1>1, <1>2, DiskHoldsNothing DEF UrlsOK

LEMMA UrlsStep == TypeInv /\ [Next]_vars => UrlsOK'
<1> SUFFICES ASSUME TypeInv, [Next]_vars PROVE UrlsOK'
  OBVIOUS
<1> USE DEF TypeInv
<1>0. RowsOK' /\ first \in [Repos -> Row \cup {NoRow}]
  BY RowsStep DEF RowsOK
<1>1. ASSUME NEW c \in calls, Lands(c) PROVE UrlsOK'
  <2> c.kind # "list" => c.repo \in Repos
    BY DEF CallsOK, Sound
  <2>1. CASE Settling(c)
    <3>1. \A r \in Repos : Unpublished(r)
      BY <2>1, SettledRows DEF Unpublished, Becomes, SameSource
    <3>2. UNCHANGED published /\ (Persist \/ UNCHANGED disk)
      BY <2>1 DEF Settling, Refreshed, PinRetired, RefreshFails, Selected, SelectFails, bundles
    <3> QED BY <1>0, <3>1, <3>2, UrlsKept
  <2>2. CASE ListArrives(c)
    <3>1. ASSUME NEW r \in Repos PROVE Unpublished(r)
      <4>1. CASE r \in Reclaimed
        <5>1. first[r] \in Row
          BY <1>0, <4>1 DEF Reclaimed, Has
        <5>2. first'[r] = [first[r] EXCEPT !.active = TRUE, !.curated = TRUE]
          BY <2>2, <4>1 DEF ListArrives
        <5>3. first'[r] \in Row
          BY <5>1, <5>2, RowChoices
        <5>4. first'[r].payload = first[r].payload /\ first'[r].held = first[r].held
          BY <5>1, <5>2 DEF Row
        <5> QED BY <5>1, <5>3, <5>4 DEF Unpublished
      <4>2. CASE r \notin Reclaimed
        BY <2>2, <4>2 DEF ListArrives, Unpublished
      <4> QED BY <4>1, <4>2
    <3> QED BY <1>0, <2>2, <3>1, UrlsKept DEF ListArrives, bundles
  <2>3. CASE CurateLands(c)
    <3>1. \A r \in Repos : Unpublished(r)
      BY <2>3, AppendedUnpublished DEF CurateLands, SetsOK, Unpublished, lists
    <3>2. UNCHANGED published /\ (Persist \/ UNCHANGED disk)
      BY <2>3 DEF CurateLands, bundles, lists
    <3> QED BY <1>0, <3>1, <3>2, UrlsKept
  <2>4. CASE AddLands(c)
    BY <1>0, <2>4, AppendedUnpublished, UrlsKept DEF AddLands, KeepResolved, SetsOK, bundles
  <2>5. CASE Imported(c)
    <3>2. PICK row \in Row : /\ first' = [first EXCEPT ![c.repo] = row]
                             /\ row.payload /\ row.held
      BY <2>5, ImportedRow
    <3>3. published' = [published EXCEPT ![c.repo] = 1]
      <4>1. published[c.repo] = Revoked(c.repo) /\ Revoked(c.repo) \in Nat
        BY <2>5 DEF Imported, UrlsOK, Revoked
      <4>2. published' = [published EXCEPT ![c.repo] = published[c.repo] + 1 - Revoked(c.repo)]
        BY <2>5 DEF Imported
      <4>3. published[c.repo] + 1 - Revoked(c.repo) = 1
        BY <4>1
      <4> QED BY <4>2, <4>3
    <3> QED BY <1>0, <2>5, <3>2, <3>3, PublishedOne DEF Imported
  <2>6. CASE Restored(c) /\ Awaits(c.repo)
    <3>1. /\ c.repo \in Repos /\ c.tag \in Versions
          /\ first[c.repo] \in Row /\ ~first[c.repo].held
      BY <2>6 DEF Restored, Awaits, Has, RowsOK, CallsOK, Sound
    <3>2. published[c.repo] = 0 /\ Revoked(c.repo) = 0
      BY <3>1 DEF UrlsOK, Backed, Revoked, Has
    <3>3. PICK row \in Row : /\ first' = [first EXCEPT ![c.repo] = row]
                             /\ row.payload /\ row.held
      <4> DEFINE row == Back(first[c.repo], c.tag)
      <4>1. row \in Row /\ row.payload /\ row.held
        BY <3>1, RowRestored
      <4>2. first' = [first EXCEPT ![c.repo] = row]
        BY <1>0, <2>6, <3>1 DEF Restored, Back
      <4> QED BY <4>1, <4>2
    <3>4. published' = [published EXCEPT ![c.repo] = 1]
      BY <2>6, <3>1, <3>2 DEF Restored, UrlsOK
    <3>5. Persist
      BY <2>6 DEF Restored
    <3> QED BY <1>0, <3>1, <3>3, <3>4, <3>5, PublishedOne
  <2>7. CASE (NotRestored(c) \/ Restored(c)) /\ ~(Restored(c) /\ Awaits(c.repo))
    <3>1. c.repo \in Repos /\ UNCHANGED published /\ (Persist \/ UNCHANGED disk)
      BY <2>7 DEF Restored, NotRestored, lists
    <3>2. ASSUME NEW r \in Repos PROVE Unpublished(r)
      <4>1. CASE first'[r] = first[r]
        BY <4>1 DEF Unpublished
      <4>2. CASE first'[r] # first[r]
        <5>1. first[r] \in Row /\ first'[r] = [first[r] EXCEPT !.status = "idle"]
          <6>1. /\ first[c.repo] \in Row
                /\ first' = [first EXCEPT ![c.repo] = [first[c.repo] EXCEPT !.status = "idle"]]
            BY <2>7, <3>1, <4>2, RestoredRow
          <6> QED BY <1>0, <4>2, <6>1
        <5>2. first'[r] \in Row
          BY <5>1, RowStatus
        <5>3. first'[r].payload = first[r].payload /\ first'[r].held = first[r].held
          BY <5>1 DEF Row
        <5> QED BY <5>1, <5>2, <5>3 DEF Unpublished
      <4> QED BY <4>1, <4>2
    <3> QED BY <1>0, <3>1, <3>2, UrlsKept
  <2>8. CASE \/ ListFails(c) \/ CurateFails(c) \/ AddFails(c) \/ Conflict(c) \/ Keeps(c)
             \/ ReadZip(c) \/ Forget(c)
    BY <2>8 DEF ListFails, CurateFails, AddFails, Conflict, Keeps, ReadZip, Forget, lists, bundles,
                UrlsOK, Revoked, Has, Backed
  <2>9. CASE Restored(c) \/ NotRestored(c)
    BY <2>6, <2>7, <2>9
  <2> HIDE DEF TypeInv
  <2> QED BY <1>1, <2>1, <2>2, <2>3, <2>4, <2>5, <2>8, <2>9 DEF Lands, Settling
<1>2. CASE User
  <2>1. ASSUME NEW R, \A r \in R : Has(r), Loading(R), UNCHANGED <<published, disk>> PROVE UrlsOK'
    <3>1. ASSUME NEW r \in Repos PROVE Unpublished(r)
      <4>1. CASE r \in R
        <5>1. first[r] \in Row /\ first'[r] = [first[r] EXCEPT !.status = "loading"]
          BY <1>0, <2>1, <4>1 DEF Has, Loading
        <5>2. first'[r] \in Row
          BY <5>1, RowStatus
        <5>3. first'[r].payload = first[r].payload /\ first'[r].held = first[r].held
          BY <5>1 DEF Row
        <5> QED BY <5>1, <5>2, <5>3 DEF Unpublished
      <4>2. CASE r \notin R
        BY <2>1, <4>2 DEF Loading, Unpublished
      <4> QED BY <4>1, <4>2
    <3> QED BY <1>0, <2>1, <3>1, UrlsKept
  <2>2. ASSUME NEW r \in Repos, NEW t \in Versions, Select(r, t) PROVE UrlsOK'
    BY <2>1, <2>2 DEF Select, Refreshable, bundles
  <2>3. ASSUME NEW r \in Repos, Refresh(r) PROVE UrlsOK'
    BY <2>1, <2>3 DEF Refresh, Refreshable, bundles
  <2>4. ASSUME NEW pane \in Panes, NEW b \in Batches, UpdateAll(pane, b) PROVE UrlsOK'
    BY <2>1, <2>4 DEF UpdateAll, Refreshable, bundles
  <2>5. ASSUME NEW r \in Repos, NEW t \in Versions, AddResolved(r, t) PROVE UrlsOK'
    BY <1>0, <2>5, AppendedUnpublished, UrlsKept DEF AddResolved, KeepResolved, bundles
  <2>6. ASSUME NEW r \in Repos, NEW active \in BOOLEAN, SetActive(r, active) PROVE UrlsOK'
    <3>1. ASSUME NEW q \in Repos PROVE Unpublished(q)
      <4>1. CASE q = r
        <5>1. first[r] \in Row /\ first'[r] = [first[r] EXCEPT !.active = active]
          BY <1>0, <2>6 DEF SetActive, Has
        <5>2. first'[r] \in Row
          BY <5>1, RowChoices
        <5>3. first'[r].payload = first[r].payload /\ first'[r].held = first[r].held
          BY <5>1 DEF Row
        <5> QED BY <4>1, <5>1, <5>2, <5>3 DEF Unpublished
      <4>2. CASE q # r
        BY <1>0, <2>6, <4>2 DEF SetActive, Unpublished
      <4> QED BY <4>1, <4>2
    <3> QED BY <1>0, <2>6, <3>1, UrlsKept DEF SetActive, bundles
  <2>7. ASSUME NEW r \in Repos, Remove(r) PROVE UrlsOK'
    <3>1. published' = [published EXCEPT ![r] = 0]
      <4>1. published[r] = Revoked(r) /\ Revoked(r) \in Nat
        BY DEF UrlsOK, Revoked
      <4>2. published' = [published EXCEPT ![r] = published[r] - Revoked(r)]
        BY <2>7 DEF Remove
      <4>3. published[r] - Revoked(r) = 0
        BY <4>1
      <4> QED BY <4>2, <4>3
    <3>2. ASSUME NEW q \in Repos PROVE published'[q] = Revoked(q)' /\ Backed(first[q])'
      <4>1. published[q] = Revoked(q) /\ Backed(first[q])
        BY DEF UrlsOK
      <4> QED BY <1>0, <2>7, <3>1, <4>1 DEF Remove, Revoked, Has, Backed, UrlsOK
    <3>3. published' \in [Repos -> Nat]
      BY <3>1 DEF UrlsOK
    <3> QED BY <1>0, <2>7, <3>2, <3>3, DiskHoldsNothing DEF Remove, UrlsOK
  <2>8. ASSUME NEW r \in Repos, Add(r) \/ Import(r) PROVE UrlsOK'
    BY <2>8 DEF Add, Import, lists, bundles, UrlsOK, Revoked, Has, Backed
  <2>9. ASSUME NEW pane \in Panes, RetryCurated(pane) PROVE UrlsOK'
    BY <2>9 DEF RetryCurated, lists, bundles, UrlsOK, Revoked, Has, Backed
  <2> QED BY <1>2, <2>2, <2>3, <2>4, <2>5, <2>6, <2>7, <2>8, <2>9 DEF User
<1>3. CASE Reload
  BY <1>3 DEF Reload, UrlsOK, Revoked, Has, Backed
<1>4. CASE (\E r \in Repos : JobEnds(r)) \/ Release \/ Retire \/ UNCHANGED vars
  BY <1>4 DEF JobEnds, Release, Retire, vars, lists, bundles, UrlsOK, Revoked, Has, Backed
<1> QED BY <1>1, <1>2, <1>3, <1>4 DEF Next

-----------------------------------------------------------------------------
LEMMA TypeInit == Init => TypeInv
<1> SUFFICES ASSUME Init PROVE TypeInv
  OBVIOUS
<1> USE DEF Init
<1>1. RowsOK
  BY DEF RowsOK
<1>2. SetsOK
  <2>1. 1 \in Versions
    BY SourcesAssumption DEF Versions
  <2>2. oldest \in Versions /\ newest \in Versions /\ oldest <= newest
    BY <2>1
  <2>3. adding \in BOOLEAN /\ listed \in BOOLEAN
    BY Zenon
  <2>4. updating \in Panes \cup {None}
    OBVIOUS
  <2> QED BY <2>2, <2>3, <2>4 DEF SetsOK
<1>3. JobsOK
  <2>1. IsFiniteSet({}) /\ Cardinality({}) = 0
    BY FS_EmptySet
  <2> QED BY <2>1, SourcesAssumption DEF JobsOK
<1>4. CallsOK
  <2>1. Ask("list", None) \in Call /\ Sound(Ask("list", None))
    BY AskType DEF Kinds, Sound, Ask
  <2> QED BY <2>1 DEF CallsOK
<1>5. UrlsOK
  <2>1. ASSUME NEW r \in Repos
        PROVE  first[r] = NoRow /\ disk.first[r] = NoRow /\ published[r] = 0
    OBVIOUS
  <2> QED BY <2>1 DEF UrlsOK, Revoked, Has, Backed
<1>6. HistoryOK
  BY DEF HistoryOK
<1> QED BY <1>1, <1>2, <1>3, <1>4, <1>5, <1>6 DEF TypeInv

LEMMA TypeStep == TypeInv /\ [Next]_vars => TypeInv'
  BY RowsStep, SetsStep, HistoryStep, JobsStep, CallsStep, UrlsStep DEF TypeInv

\* The rows, the calls and the downloads always have the shape the store gives them, and no more
\* downloads run than CONCURRENCY (store.svelte.ts, autoDownload.ts pump()).
THEOREM TypeCorrect == Spec => []TypeOK
<1>1. TypeInv => TypeOK
  BY DEF TypeInv, RowsOK, SetsOK, HistoryOK, JobsOK, CallsOK, UrlsOK, TypeOK
<1> QED BY TypeInit, TypeStep, <1>1, PTL DEF Spec

LEMMA TypeAlways == Spec => []TypeInv
  BY TypeInit, TypeStep, PTL DEF Spec

-----------------------------------------------------------------------------
\* Decisions of the user's: what is removed stays away, what is inactive is not downloaded.

Absent(r) == /\ first[r] = NoRow /\ second[r] = NoRow
             /\ disk.first[r] = NoRow /\ disk.second[r] = NoRow
Wants(r) == Has(r) /\ first[r].active /\ first[r].origin = "url"
Jobs == queued \cup (running \ aborted)

LEMMA OptOutParts ==
  (\A r \in dismissed : Absent(r)) /\ DeclinedInv /\ (\A r \in Jobs : Wants(r)) => OptOutHolds
  BY DEF OptOutHolds, Absent, DeclinedInv, Off, Wants, Jobs

LEMMA AbsentAfter ==
  ASSUME TypeInv, NEW r \in Repos, first'[r] = NoRow, second'[r] = NoRow,
         Persist \/ (UNCHANGED disk /\ Absent(r))
  PROVE  Absent(r)'
<1>1. CASE Persist
  <2>1. disk'.first[r] = Kept(first'[r], "loading") /\ disk'.second[r] = Kept(second'[r], "ok")
    BY <1>1 DEF Persist
  <2> QED BY <2>1 DEF Kept, Absent
<1>2. CASE UNCHANGED disk /\ Absent(r)
  BY <1>2 DEF Absent
<1> QED BY <1>1, <1>2

\* Nothing that was asked while the user removed the source brings it back.
LEMMA StaysAway ==
  ASSUME TypeInv, [Next]_vars, NEW r \in dismissed', r \in dismissed => Absent(r)
  PROVE  Absent(r)'
<1> USE DEF TypeInv
<1>0. first \in [Repos -> Row \cup {NoRow}] /\ second \in [Repos -> Row \cup {NoRow}]
      /\ r \in Repos
  BY SetsStep DEF RowsOK, SetsOK
<1>1. ASSUME r \in dismissed, first'[r] = NoRow, second'[r] = NoRow, Persist \/ UNCHANGED disk
      PROVE  Absent(r)'
  BY <1>0, <1>1, AbsentAfter
<1>2. ASSUME r \in dismissed PROVE first[r] = NoRow /\ second[r] = NoRow
  BY <1>2 DEF Absent
<1>3. ASSUME NEW c \in calls, Lands(c) PROVE Absent(r)'
  <2> c.kind # "list" => c.repo \in Repos
    BY DEF CallsOK, Sound
  <2>1. CASE Settling(c)
    <3>1. r \in dismissed /\ UNCHANGED second /\ (Persist \/ UNCHANGED disk)
      BY <2>1 DEF Settling, Refreshed, PinRetired, RefreshFails, Selected, SelectFails
    <3>2. first'[r] = NoRow
      BY <1>0, <1>2, <2>1, <3>1, SettledRows, RowTypes
    <3> QED BY <1>1, <1>2, <3>1, <3>2
  <2>2. CASE ListArrives(c)
    BY <1>0, <1>1, <1>2, <2>2 DEF ListArrives, Reclaimed
  <2>3. CASE CurateLands(c)
    BY <1>0, <1>1, <1>2, <2>3 DEF CurateLands, Unwanted, Append, lists
  <2>4. CASE AddLands(c)
    BY <1>0, <1>1, <1>2, <2>4 DEF AddLands, KeepResolved, Append
  <2>5. CASE Imported(c)
    <3>1. r \in dismissed /\ r # c.repo /\ Persist
      BY <2>5 DEF Imported
    <3>2. first'[r] = first[r] /\ second'[r] = second[r]
      BY <1>0, <2>5, <3>1, ImportedRow
    <3> QED BY <1>1, <1>2, <3>1, <3>2
  <2>6. CASE Restored(c) \/ NotRestored(c)
    <3>1. r \in dismissed /\ UNCHANGED second /\ (Persist \/ UNCHANGED disk)
      BY <2>6 DEF Restored, NotRestored, lists
    <3>2. c.repo \in Repos
      BY <2>6 DEF Restored, NotRestored
    <3>3. first'[r] = NoRow
      BY <1>0, <1>2, <2>6, <3>1, <3>2, RestoredRow DEF Awaits, Has
    <3> QED BY <1>1, <1>2, <3>1, <3>3
  <2>7. CASE \/ ListFails(c) \/ CurateFails(c) \/ AddFails(c) \/ Conflict(c) \/ Keeps(c)
             \/ ReadZip(c) \/ Forget(c)
    BY <1>1, <1>2, <2>7 DEF ListFails, CurateFails, AddFails, Conflict, Keeps, ReadZip, Forget, lists
  <2> QED BY <1>3, <2>1, <2>2, <2>3, <2>4, <2>5, <2>6, <2>7 DEF Lands, Settling
<1>4. CASE User
  <2>1. ASSUME NEW q \in Repos, NEW t \in Versions, Select(q, t) PROVE Absent(r)'
    BY <1>0, <1>1, <1>2, <2>1 DEF Select, Refreshable, Has, Loading
  <2>2. ASSUME NEW q \in Repos, Refresh(q) PROVE Absent(r)'
    BY <1>0, <1>1, <1>2, <2>2 DEF Refresh, Refreshable, Has, Loading
  <2>3. ASSUME NEW pane \in Panes, NEW b \in Batches, UpdateAll(pane, b) PROVE Absent(r)'
    BY <1>0, <1>1, <1>2, <2>3 DEF UpdateAll, Refreshable, Has, Loading
  <2>4. ASSUME NEW q \in Repos, NEW t \in Versions, AddResolved(q, t) PROVE Absent(r)'
    BY <1>0, <1>1, <1>2, <2>4 DEF AddResolved, KeepResolved, Append
  <2>5. ASSUME NEW q \in Repos, NEW active \in BOOLEAN, SetActive(q, active) PROVE Absent(r)'
    BY <1>0, <1>1, <1>2, <2>5 DEF SetActive, Has
  <2>6. ASSUME NEW q \in Repos, Remove(q) PROVE Absent(r)'
    <3>1. first'[r] = NoRow /\ second'[r] = NoRow /\ Persist
      BY <1>0, <1>2, <2>6 DEF Remove
    <3> QED BY <1>0, <3>1, AbsentAfter
  <2>7. ASSUME NEW q \in Repos, Add(q) \/ Import(q) PROVE Absent(r)'
    BY <1>1, <1>2, <2>7 DEF Add, Import, lists
  <2>8. ASSUME NEW pane \in Panes, RetryCurated(pane) PROVE Absent(r)'
    BY <1>1, <1>2, <2>8 DEF RetryCurated, lists
  <2> QED BY <1>4, <2>1, <2>2, <2>3, <2>4, <2>5, <2>6, <2>7, <2>8 DEF User
<1>5. CASE Reload
  BY <1>5 DEF Reload, Absent
<1>6. CASE (\E q \in Repos : JobEnds(q)) \/ Release \/ Retire \/ UNCHANGED vars
  BY <1>1, <1>2, <1>6 DEF JobEnds, Release, Retire, vars, lists
<1> QED BY <1>3, <1>4, <1>5, <1>6 DEF Next

LEMMA RequestWanted ==
  ASSUME NEW r, NEW held, NEW cancelled, Request(r, held, cancelled)
  PROVE  \A q \in Jobs' : q \in held \cup (running \ cancelled) \/ (q = r /\ Wants(q)')
<1>1. Wanted(first'[r]) => Wants(r)'
  BY DEF Wanted, Wants, Has
<1> QED BY <1>1 DEF Request, Jobs

\* A download is asked for by a step that has just seen the row, and cancelled by the one that
\* deactivates or removes it.
LEMMA OnlyWanted ==
  ASSUME TypeInv, [Next]_vars, \A r \in Jobs : Wants(r), NEW r \in Jobs'
  PROVE  Wants(r)'
<1> USE DEF TypeInv
<1>1. ASSUME r \in Jobs, ~Reload, ~Remove(r), ~SetActive(r, FALSE) PROVE Wants(r)'
  <2>1. r \in Repos /\ Wants(r)
    BY <1>1 DEF Jobs, JobsOK
  <2> QED BY <1>1, <2>1, RowsStay DEF Stays, Wants
<1>2. CASE Reload
  BY <1>2 DEF Reload, Jobs
<1>3. ASSUME ~Reload, NEW q \in Repos, Remove(q) \/ SetActive(q, FALSE) PROVE Wants(r)'
  <2>1. r \in Jobs /\ r # q
    BY <1>3 DEF Remove, SetActive, Cancel, Jobs
  <2>2. first'[r] = first[r]
    <3>1. r \in Repos /\ r \in DOMAIN first
      BY <2>1 DEF Jobs, JobsOK, RowsOK
    <3> QED BY <1>3, <2>1, <3>1 DEF Remove, SetActive
  <2> QED BY <2>1, <2>2 DEF Wants, Has
<1>4. ASSUME ~Reload, \A q \in Repos : ~Remove(q) /\ ~SetActive(q, FALSE), r \in Jobs
      PROVE  Wants(r)'
  BY <1>1, <1>4 DEF Jobs, JobsOK
<1>5. ASSUME r \notin Jobs, ~Reload, \A q \in Repos : ~Remove(q) /\ ~SetActive(q, FALSE)
      PROVE  Wants(r)'
  <2>1. ASSUME NEW c \in calls, Lands(c) PROVE Wants(r)'
    <3>1. CASE Refreshed(c) \/ AddLands(c)
      <4>1. Request(c.repo, queued, aborted)
        BY <3>1 DEF Refreshed, AddLands, KeepResolved, MaybeAutoDownload
      <4> QED BY <1>5, <4>1, RequestWanted DEF Jobs
    <3>2. CASE Selected(c)
      <4> DEFINE cancelled == aborted \cup ({c.repo} \cap running)
      <4>1. Request(c.repo, queued \ {c.repo}, cancelled)
        BY <3>2 DEF Selected
      <4>2. r \in (queued \ {c.repo}) \cup (running \ cancelled) \/ (r = c.repo /\ Wants(r)')
        BY <4>1, RequestWanted
      <4> QED BY <1>5, <4>2 DEF Jobs
    <3>3. CASE CurateLands(c)
      <4>1. Request(c.repo, queued, aborted) \/ UNCHANGED downloads
        BY <3>3 DEF CurateLands, MaybeAutoDownload
      <4> QED BY <1>5, <4>1, RequestWanted DEF downloads, Jobs
    <3>4. CASE PinRetired(c) \/ RefreshFails(c) \/ SelectFails(c) \/ ListArrives(c)
               \/ ListFails(c) \/ CurateFails(c) \/ AddFails(c) \/ Conflict(c)
      BY <1>5, <3>4 DEF PinRetired, RefreshFails, SelectFails, ListArrives, ListFails, CurateFails,
                        AddFails, Conflict, downloads, Jobs
    <3>5. CASE Imported(c) \/ Keeps(c) \/ ReadZip(c) \/ Restored(c) \/ NotRestored(c) \/ Forget(c)
      BY <1>5, <3>5 DEF Imported, Keeps, ReadZip, Restored, NotRestored, Forget, downloads, Jobs
    <3> QED BY <2>1, <3>1, <3>2, <3>3, <3>4, <3>5 DEF Lands
  <2>2. CASE User
    <3>1. ASSUME NEW q \in Repos, Refresh(q) \/ Add(q) \/ Import(q) PROVE Wants(r)'
      BY <1>5, <3>1 DEF Refresh, Add, Import, downloads, Jobs
    <3>2. ASSUME NEW q \in Repos, NEW t \in Versions, Select(q, t) PROVE Wants(r)'
      BY <1>5, <3>2 DEF Select, downloads, Jobs
    <3>3. ASSUME NEW q \in Repos, NEW t \in Versions, AddResolved(q, t) PROVE Wants(r)'
      BY <1>5, <3>3, RequestWanted DEF AddResolved, KeepResolved, MaybeAutoDownload, Jobs
    <3>4. ASSUME NEW q \in Repos, NEW active \in BOOLEAN, SetActive(q, active) PROVE Wants(r)'
      <4>1. active = TRUE
        BY <1>5, <3>4
      <4> QED BY <1>5, <3>4, <4>1, RequestWanted DEF SetActive, MaybeAutoDownload, Jobs
    <3>5. ASSUME NEW pane \in Panes, RetryCurated(pane) \/ \E b \in Batches : UpdateAll(pane, b)
          PROVE  Wants(r)'
      BY <1>5, <3>5 DEF RetryCurated, UpdateAll, downloads, Jobs
    <3> QED BY <1>5, <2>2, <3>1, <3>2, <3>3, <3>4, <3>5 DEF User
  <2>3. CASE (\E q \in Repos : JobEnds(q)) \/ Release \/ Retire \/ UNCHANGED vars
    BY <1>5, <2>3 DEF JobEnds, Release, Retire, vars, downloads, Jobs, JobsOK
  <2> QED BY <1>5, <2>1, <2>2, <2>3 DEF Next
<1> QED BY <1>2, <1>3, <1>4, <1>5

\* persist() follows every change of a row that the next visit is to see.
LEMMA DiskFollows == [Next]_vars => Persist \/ UNCHANGED disk
<1> SUFFICES ASSUME [Next]_vars PROVE Persist \/ UNCHANGED disk
  OBVIOUS
<1>1. ASSUME NEW c \in calls, Lands(c) PROVE Persist \/ UNCHANGED disk
  <2>1. CASE Settling(c)
    BY <2>1 DEF Settling, Refreshed, PinRetired, RefreshFails, Selected, SelectFails
  <2>2. CASE ListArrives(c) \/ ListFails(c) \/ CurateLands(c) \/ CurateFails(c)
    BY <2>2 DEF ListArrives, ListFails, CurateLands, CurateFails, lists
  <2>3. CASE AddLands(c) \/ AddFails(c) \/ Conflict(c) \/ Imported(c) \/ Keeps(c)
    BY <2>3 DEF AddLands, KeepResolved, AddFails, Conflict, Imported, Keeps, lists
  <2>4. CASE ReadZip(c) \/ Restored(c) \/ NotRestored(c) \/ Forget(c)
    BY <2>4 DEF ReadZip, Restored, NotRestored, Forget, lists
  <2> QED BY <1>1, <2>1, <2>2, <2>3, <2>4 DEF Lands, Settling
<1>2. CASE User
  <2>1. ASSUME NEW q \in Repos, Refresh(q) \/ Add(q) \/ Import(q) \/ Remove(q)
        PROVE  Persist \/ UNCHANGED disk
    BY <2>1 DEF Refresh, Add, Import, Remove, lists
  <2>2. ASSUME NEW q \in Repos, NEW t \in Versions, Select(q, t) \/ AddResolved(q, t)
        PROVE  Persist \/ UNCHANGED disk
    BY <2>2 DEF Select, AddResolved, KeepResolved
  <2>3. ASSUME NEW q \in Repos, NEW active \in BOOLEAN, SetActive(q, active)
        PROVE  Persist \/ UNCHANGED disk
    BY <2>3 DEF SetActive
  <2>4. ASSUME NEW pane \in Panes, RetryCurated(pane) \/ \E b \in Batches : UpdateAll(pane, b)
        PROVE  Persist \/ UNCHANGED disk
    BY <2>4 DEF RetryCurated, UpdateAll, lists
  <2> QED BY <1>2, <2>1, <2>2, <2>3, <2>4 DEF User
<1>3. CASE Reload \/ (\E q \in Repos : JobEnds(q)) \/ Release \/ Retire \/ UNCHANGED vars
  BY <1>3 DEF Reload, JobEnds, Release, Retire, vars, lists
<1> QED BY <1>1, <1>2, <1>3 DEF Next

\* A deactivation is taken back by the user alone, unless a zip takes the row's marker.
LEMMA StaysDeclined ==
  ASSUME TypeInv, [Next]_vars, ~Reload, NEW r \in declined', r \notin unmarked'
  PROVE  \/ /\ r \in declined /\ r \notin unmarked /\ ~Remove(r)
            /\ \A active \in BOOLEAN : ~SetActive(r, active)
            /\ r \in Curated => ~Replaced(r)
         \/ SetActive(r, FALSE) /\ Marked(r)
<1> USE DEF TypeInv
<1>1. ASSUME NEW q \in Repos, NEW active \in BOOLEAN, SetActive(q, active), q = r
      PROVE  SetActive(r, FALSE) /\ Marked(r)
  BY <1>1 DEF SetActive, Marked
<1>2. ~Remove(r)
  BY DEF Remove
<1>3. ASSUME NEW c \in calls, Imported(c), c.repo = r, r \in Curated PROVE FALSE
  BY <1>3 DEF Imported
<1>4. ASSUME \A active \in BOOLEAN : ~SetActive(r, active)
      PROVE  r \in declined /\ r \notin unmarked
  <2>1. ASSUME NEW c \in calls, Lands(c) PROVE r \in declined /\ r \notin unmarked
    <3>1. CASE Settling(c)
      BY <3>1 DEF Settling, Refreshed, PinRetired, RefreshFails, Selected, SelectFails, history
    <3>2. CASE ListArrives(c) \/ ListFails(c) \/ CurateLands(c) \/ CurateFails(c)
      BY <3>2 DEF ListArrives, ListFails, CurateLands, CurateFails, history
    <3>3. CASE AddLands(c) \/ AddFails(c) \/ Conflict(c) \/ Imported(c) \/ Keeps(c)
      BY <3>3 DEF AddLands, AddFails, Conflict, Imported, Keeps, history
    <3>4. CASE ReadZip(c) \/ Restored(c) \/ NotRestored(c) \/ Forget(c)
      BY <3>4 DEF ReadZip, Restored, NotRestored, Forget, history
    <3> QED BY <2>1, <3>1, <3>2, <3>3, <3>4 DEF Lands, Settling
  <2>2. CASE User
    <3>1. ASSUME NEW q \in Repos, Refresh(q) \/ Add(q) \/ Import(q)
          PROVE  r \in declined /\ r \notin unmarked
      BY <3>1 DEF Refresh, Add, Import, history
    <3>2. ASSUME NEW q \in Repos, NEW t \in Versions, Select(q, t) \/ AddResolved(q, t)
          PROVE  r \in declined /\ r \notin unmarked
      BY <3>2 DEF Select, AddResolved, history
    <3>3. ASSUME NEW q \in Repos, NEW active \in BOOLEAN, SetActive(q, active)
          PROVE  r \in declined /\ r \notin unmarked
      <4>1. q # r
        BY <1>4, <3>3
      <4> QED BY <3>3, <4>1 DEF SetActive
    <3>4. ASSUME NEW pane \in Panes, RetryCurated(pane) \/ \E b \in Batches : UpdateAll(pane, b)
          PROVE  r \in declined /\ r \notin unmarked
      BY <3>4 DEF RetryCurated, UpdateAll, history
    <3>5. ASSUME NEW q \in Repos, Remove(q) PROVE r \in declined /\ r \notin unmarked
      BY <3>5 DEF Remove
    <3> QED BY <2>2, <3>1, <3>2, <3>3, <3>4, <3>5 DEF User
  <2>3. CASE (\E q \in Repos : JobEnds(q)) \/ Release \/ Retire \/ UNCHANGED vars
    BY <2>3 DEF JobEnds, Release, Retire, vars, history
  <2> QED BY <2>1, <2>2, <2>3 DEF Next
<1>5. r \in Repos
  BY SetsStep, HistoryStep DEF HistoryOK
<1> QED BY <1>1, <1>2, <1>3, <1>4, <1>5 DEF Replaced

\* A row that is off here is off on the disk.
LEMMA OffOnDisk ==
  ASSUME TypeInv, RowsOK', NEW r \in Repos, Off(r, first'[r]), Persist
  PROVE  Off(r, disk'.first[r])
<1>1. disk'.first[r] = Kept(first'[r], "loading") /\ first'[r] \in Row
  BY DEF Persist, Off, RowsOK
<1>2. disk'.first[r] = [first'[r] EXCEPT !.held = FALSE, !.payload = FALSE, !.status = "loading"]
  BY <1>1, RowTypes DEF Kept
<1>3. disk'.first[r] # NoRow
  BY <1>1, RowTypes, KeptType
<1>4. disk'.first[r].active = first'[r].active /\ disk'.first[r].curated = first'[r].curated
  BY <1>1, <1>2 DEF Row
<1> QED BY <1>3, <1>4 DEF Off

LEMMA DeclinedStep == TypeInv /\ DeclinedInv /\ [Next]_vars => DeclinedInv'
<1> SUFFICES ASSUME TypeInv, DeclinedInv, [Next]_vars, NEW r \in declined', r \notin unmarked'
             PROVE  Off(r, first'[r]) /\ Off(r, disk'.first[r])
  BY DEF DeclinedInv
<1>0. r \in Repos /\ RowsOK'
  BY HistoryStep, RowsStep DEF HistoryOK
<1>1. CASE Reload
  BY <1>1 DEF Reload, DeclinedInv
<1>2. CASE ~Reload /\ SetActive(r, FALSE) /\ Marked(r)
  <2>1. first[r] \in Row /\ first'[r] = [first[r] EXCEPT !.active = FALSE] /\ Persist
    BY <1>0, <1>2 DEF SetActive, Has, TypeInv, RowsOK
  <2>2. first'[r] # NoRow /\ first'[r].active = FALSE /\ first'[r].curated = first[r].curated
    <3>1. first'[r] \in Row
      BY <2>1, RowChoices
    <3> QED BY <2>1, <3>1, RowTypes DEF Row
  <2>3. Off(r, first'[r])
    BY <1>2, <2>2 DEF Off, Marked
  <2> QED BY <1>0, <2>1, <2>3, OffOnDisk
<1>3. CASE /\ ~Reload /\ r \in declined /\ r \notin unmarked /\ ~Remove(r)
           /\ \A active \in BOOLEAN : ~SetActive(r, active)
           /\ r \in Curated => ~Replaced(r)
  <2>1. Off(r, first[r]) /\ Off(r, disk.first[r])
    BY <1>3 DEF DeclinedInv
  <2>2. Stays(r)
    BY <1>0, <1>3, <2>1, RowsStay DEF Off, Has
  <2>3. Off(r, first'[r])
    BY <1>3, <2>1, <2>2 DEF Off, Stays, Marked, Has
  <2> QED BY <1>0, <2>1, <2>3, OffOnDisk, DiskFollows
<1> QED BY <1>1, <1>2, <1>3, StaysDeclined

\* A removal is undone by no answer, list or job that was under way, nor is a deactivation on
\* this visit or a later one, but for a listed row without its marker (resolveCurated(),
\* importCurated(), persist()), and what is neither there nor active is not downloaded
\* (maybeAutoDownload(), cancel()).
THEOREM OptOutCorrect == Spec => []OptOutHolds
<1> DEFINE I == /\ \A r \in dismissed : Absent(r)
                /\ DeclinedInv
                /\ \A r \in Jobs : Wants(r)
<1>1. Init => I
  BY DEF Init, DeclinedInv, Jobs
<1>2. TypeInv /\ I /\ [Next]_vars => I'
  <2> SUFFICES ASSUME TypeInv, I, [Next]_vars PROVE I'
    OBVIOUS
  <2>1. \A r \in dismissed' : Absent(r)'
    BY StaysAway
  <2>2. \A r \in Jobs' : Wants(r)'
    BY OnlyWanted
  <2>3. DeclinedInv'
    BY DeclinedStep
  <2> QED BY <2>1, <2>2, <2>3
<1>3. I => OptOutHolds
  BY OptOutParts
<1> HIDE DEF I
<1> QED BY <1>1, <1>2, <1>3, TypeAlways, PTL DEF Spec

-----------------------------------------------------------------------------
\* Every entry of the curated list is accounted for.
Asking(c, r) == c.kind = "curate" /\ c.repo = r
Accounted(r) == Has(r) \/ r \in dismissed \/ r \in notes \/ \E c \in calls : Asking(c, r)

LEMMA StaysAccounted ==
  ASSUME TypeInv, [Next]_vars, ~Reload, NEW r \in Curated, listed => Accounted(r), listed'
  PROVE  Accounted(r)'
<1> USE DEF TypeInv
<1>0. r \in Repos /\ first \in [Repos -> Row \cup {NoRow}]
  BY SourcesAssumption DEF RowsOK
<1>1. ASSUME NEW q \in Repos, Remove(q) PROVE Accounted(r)'
  <2>1. CASE q = r
    BY <1>1, <2>1 DEF Remove, Accounted
  <2>2. CASE q # r
    <3>1. Has(r) => Has(r)'
      BY <1>0, <1>1, <2>2 DEF Remove, Has
    <3>2. ASSUME NEW c \in calls, Asking(c, r) PROVE \E d \in calls' : Asking(d, r)
      <4> DEFINE d == [c EXCEPT !.own = IF c.repo = q /\ c.kind \in {"refresh", "select"}
                                        THEN FALSE ELSE @]
      <4>1. Asking(d, r)
        BY <3>2 DEF CallsOK, Call, Asking
      <4>2. d \in calls'
        BY <1>1 DEF Remove, Detached
      <4> QED BY <4>1, <4>2
    <3>3. listed /\ r \in dismissed => r \in dismissed'
      BY <1>1 DEF Remove
    <3>4. listed /\ notes' = notes
      BY <1>1 DEF Remove
    <3> QED BY <3>1, <3>2, <3>3, <3>4 DEF Accounted, Asking
  <2> QED BY <2>1, <2>2
<1>2. ASSUME ~Remove(r), Has(r) PROVE Accounted(r)'
  BY <1>0, <1>2, RowsStay DEF Stays, Accounted
<1>3. ASSUME NEW c \in calls, Lands(c), ~Has(r), ~Has(r)' PROVE Accounted(r)'
  <2> c.kind # "list" => c.repo \in Repos
    BY DEF CallsOK, Sound
  <2>1. CASE Settling(c)
    BY <1>3, <2>1 DEF Settling, Refreshed, PinRetired, RefreshFails, Selected, SelectFails, Then, End,
                      history, Accounted, Asking
  <2>2. CASE ListArrives(c)
    <3>1. CASE r \in dismissed
      BY <2>2, <3>1 DEF ListArrives, Accounted
    <3>2. CASE r \notin dismissed
      <4>1. Ask("curate", r) \in calls'
        BY <1>3, <2>2, <3>2 DEF ListArrives, Missing
      <4>2. Asking(Ask("curate", r), r)
        BY DEF Ask, Asking
      <4> QED BY <4>1, <4>2 DEF Accounted, Asking
    <3> QED BY <3>1, <3>2
  <2>3. CASE CurateLands(c)
    <3>1. CASE c.repo = r /\ r \notin dismissed
      <4>1. NewRow("url", TRUE, newest) \in Row
        BY NewRowType DEF SetsOK
      <4>2. Append(r, NewRow("url", TRUE, newest))
        BY <1>3, <2>3, <3>1 DEF CurateLands, Unwanted
      <4> QED BY <1>0, <1>3, <4>1, <4>2, RowTypes DEF Append, Has
    <3>2. CASE r \in dismissed
      BY <2>3, <3>2 DEF CurateLands, bundles, Accounted
    <3>3. CASE c.repo # r
      BY <1>3, <2>3, <3>3 DEF CurateLands, End, history, Accounted, Asking
    <3> QED BY <3>1, <3>2, <3>3
  <2>4. CASE CurateFails(c)
    BY <1>3, <2>4 DEF CurateFails, End, history, Accounted, Asking
  <2>5. CASE AddLands(c) \/ Imported(c)
    <3>1. CASE c.repo = r
      <4>3. NewRow("url", FALSE, newest) \in Row
        BY NewRowType DEF SetsOK
      <4>4. CASE AddLands(c)
        BY <1>0, <1>3, <3>1, <4>3, <4>4, RowTypes DEF AddLands, KeepResolved, Append, Has
      <4>5. CASE Imported(c)
        <5>1. first'[r] = Fresh(c) /\ Fresh(c) \in Row
          BY <1>0, <3>1, <4>5, ImportedRow
        <5> QED BY <1>3, <5>1, RowTypes DEF Has
      <4> QED BY <2>5, <4>4, <4>5
    <3>2. CASE c.repo # r
      BY <1>3, <2>5, <3>2 DEF AddLands, KeepResolved, Imported, Then, End, history, Accounted, Asking
    <3> QED BY <3>1, <3>2
  <2>6. CASE AddFails(c) \/ Conflict(c) \/ Keeps(c) \/ ReadZip(c) \/ ListFails(c)
    BY <1>3, <2>6 DEF AddFails, Conflict, Keeps, ReadZip, ListFails, Then, End, history, Accounted,
                      Asking
  <2>7. CASE Restored(c) \/ NotRestored(c) \/ Forget(c)
    BY <1>3, <2>7 DEF Restored, NotRestored, Forget, End, history, Accounted, Asking
  <2> QED BY <1>3, <2>1, <2>2, <2>3, <2>4, <2>5, <2>6, <2>7 DEF Lands, Settling
<1>4. ASSUME User, \A q \in Repos : ~Remove(q), ~Has(r), ~Has(r)' PROVE Accounted(r)'
  <2>1. ASSUME NEW q \in Repos, Refresh(q) \/ Add(q) \/ Import(q) PROVE Accounted(r)'
    BY <1>4, <2>1 DEF Refresh, Add, Import, Start, history, Accounted, Asking
  <2>2. ASSUME NEW q \in Repos, NEW t \in Versions, Select(q, t) PROVE Accounted(r)'
    BY <1>4, <2>2 DEF Select, Start, history, Accounted, Asking
  <2>3. ASSUME NEW q \in Repos, NEW t \in Versions, AddResolved(q, t) PROVE Accounted(r)'
    <3>1. CASE q = r
      BY <1>0, <1>4, <2>3, <3>1, NewRowType, RowTypes DEF AddResolved, KeepResolved, Append, Has
    <3>2. CASE q # r
      BY <1>4, <2>3, <3>2 DEF AddResolved, KeepResolved, history, Accounted, Asking
    <3> QED BY <3>1, <3>2
  <2>4. ASSUME NEW q \in Repos, NEW active \in BOOLEAN, SetActive(q, active) PROVE Accounted(r)'
    BY <1>4, <2>4 DEF SetActive, history, Accounted, Asking
  <2>5. ASSUME NEW pane \in Panes, NEW b \in Batches, UpdateAll(pane, b) PROVE Accounted(r)'
    BY <1>4, <2>5 DEF UpdateAll, history, Accounted, Asking
  <2>6. ASSUME NEW pane \in Panes, RetryCurated(pane) PROVE Accounted(r)'
    <3>1. CASE r \in notes /\ Pane(r) = pane /\ r \notin dismissed
      <4>1. Ask("curate", r) \in calls'
        BY <1>4, <2>6, <3>1 DEF RetryCurated, Unwanted
      <4>2. Asking(Ask("curate", r), r)
        BY DEF Ask, Asking
      <4> QED BY <4>1, <4>2 DEF Accounted, Asking
    <3>2. CASE ~(r \in notes /\ Pane(r) = pane /\ r \notin dismissed)
      BY <1>4, <2>6, <3>2 DEF RetryCurated, history, Accounted, Asking
    <3> QED BY <3>1, <3>2
  <2> QED BY <1>4, <2>1, <2>2, <2>3, <2>4, <2>5, <2>6 DEF User
<1>5. ASSUME (\E q \in Repos : JobEnds(q)) \/ Release \/ Retire \/ UNCHANGED vars, ~Has(r)
      PROVE  Accounted(r)'
  BY <1>5 DEF JobEnds, Release, Retire, vars, history, Accounted, Asking
<1>6. Has(r)' => Accounted(r)'
  BY DEF Accounted
<1> QED BY <1>0, <1>1, <1>2, <1>3, <1>4, <1>5, <1>6 DEF Next

\* An entry of the curated list is never dropped without a row, a decision, a note or a question
\* under way (importCurated(), resolveCurated(), retryCurated()).
THEOREM NothingForgottenCorrect == Spec => []NothingForgotten
<1>1. Init => NothingForgotten
  BY DEF Init, NothingForgotten
<1>2. TypeInv /\ NothingForgotten /\ [Next]_vars => NothingForgotten'
  <2> SUFFICES ASSUME TypeInv, NothingForgotten, [Next]_vars, listed', NEW r \in Curated
               PROVE  Accounted(r)'
    BY DEF NothingForgotten, Accounted, Asking
  <2>1. listed => Accounted(r)
    BY DEF NothingForgotten, Accounted, Asking
  <2>2. ~Reload
    BY DEF Reload
  <2> QED BY <2>1, <2>2, StaysAccounted
<1> QED BY <1>1, <1>2, TypeAlways, PTL DEF Spec

-----------------------------------------------------------------------------
\* What a step makes of a row that is there afterwards.
Same(new, old) ==
  /\ new.origin = old.origin /\ new.held = old.held /\ new.payload = old.payload
  /\ new.pin = old.pin /\ new.tag = old.tag
Untouched(r) == Has(r) /\ Same(first'[r], first[r]) /\ first'[r].status = first[r].status
Loads(r) == /\ Has(r) /\ Same(first'[r], first[r])
            /\ \E d \in calls' : d.kind \in {"refresh", "select"} /\ d.own /\ d.repo = r
Settled(r) == /\ Has(r)
              /\ \E c \in calls : /\ Settling(c) /\ c.own /\ c.repo = r
                                  /\ Becomes(c, first'[r], first[r])
ComesBack(r) == /\ Has(r) /\ ~first[r].held /\ first'[r].pin = first[r].pin
                /\ first'[r].origin = first[r].origin
                /\ \E c \in calls : c.kind = "verify" /\ c.repo = r
                /\ first'[r].held /\ first'[r].payload /\ first'[r].status = "ok"
Idles(r) == Has(r) /\ Same(first'[r], first[r]) /\ first'[r].status = "idle"
Appears(r) == /\ ~Has(r) \/ Replaced(r)
              /\ first'[r].status = "ok" /\ first'[r].pin = None /\ first'[r].held
              /\ first'[r].payload <=> first'[r].origin = "bundle"
Moves(r) == Untouched(r) \/ Loads(r) \/ Settled(r) \/ ComesBack(r) \/ Idles(r) \/ Appears(r)

LEMMA StillThere == ASSUME NEW r, Has(r)', first'[r] = first[r] PROVE Moves(r)
  BY DEF Moves, Untouched, Same, Has

LEMMA AppendMoves ==
  ASSUME TypeInv, NEW r \in Repos, Has(r)', NEW q \in Repos, NEW curated, NEW t,
         Append(q, NewRow("url", curated, t))
  PROVE  Moves(r)
<1> DEFINE row == NewRow("url", curated, t)
<1>1. row.status = "ok" /\ row.pin = None /\ row.held /\ row.origin = "url"
  BY DEF NewRow
<1>2. ~row.payload
  BY DEF NewRow
<1>3. first'[r] = first[r] \/ (~Has(r) /\ first'[r] = row)
  BY DEF Append, TypeInv, RowsOK
<1>4. CASE ~Has(r) /\ first'[r] = row
  <2> HIDE DEF row
  <2> QED BY <1>1, <1>2, <1>4 DEF Moves, Appears
<1> QED BY <1>3, <1>4, StillThere

LEMMA LoadingMoves ==
  ASSUME TypeInv, NEW r \in Repos, Has(r)', NEW R, \A q \in R : Has(q), Loading(R),
         \A q \in R : \E d \in calls' : d.kind \in {"refresh", "select"} /\ d.own /\ d.repo = q
  PROVE  Moves(r)
<1>1. CASE r \in R
  <2>1. first[r] \in Row /\ first'[r] = [first[r] EXCEPT !.status = "loading"]
    BY <1>1 DEF TypeInv, RowsOK, Has, Loading
  <2>2. Same(first'[r], first[r])
    BY <2>1 DEF Same, Row
  <2> QED BY <1>1, <2>2 DEF Moves, Loads
<1>2. CASE r \notin R
  BY <1>2, StillThere DEF Loading
<1> QED BY <1>1, <1>2

LEMMA RowMoves ==
  ASSUME TypeInv, [Next]_vars, ~Reload, NEW r \in Repos, Has(r)'
  PROVE  Moves(r)
<1> USE DEF TypeInv
<1>0. first \in [Repos -> Row \cup {NoRow}]
  BY DEF RowsOK
<1>1. ASSUME NEW c \in calls, Lands(c) PROVE Moves(r)
  <2> c.kind # "list" => c.repo \in Repos
    BY DEF CallsOK, Sound
  <2>1. CASE Settling(c)
    <3>1. CASE first'[r] # first[r]
      <4>1. c.own /\ r = c.repo /\ first[r] \in Row /\ Becomes(c, first'[r], first[r])
        BY <2>1, <3>1, SettledRows
      <4> QED BY <2>1, <4>1, RowTypes DEF Moves, Settled, Has
    <3> QED BY <3>1, StillThere
  <2>2. CASE ListArrives(c)
    <3>1. CASE r \in Reclaimed
      <4>1. first[r] \in Row
        BY <1>0, <3>1 DEF Reclaimed, Has
      <4>2. first'[r] = [first[r] EXCEPT !.active = TRUE, !.curated = TRUE]
        BY <2>2, <3>1 DEF ListArrives
      <4>3. Same(first'[r], first[r]) /\ first'[r].status = first[r].status
        BY <4>1, <4>2 DEF Same, Row
      <4> QED BY <4>1, <4>3, RowTypes DEF Moves, Untouched, Has
    <3>2. CASE r \notin Reclaimed
      BY <2>2, <3>2, StillThere DEF ListArrives
    <3> QED BY <3>1, <3>2
  <2>3. CASE CurateLands(c) \/ AddLands(c)
    BY <2>3, AppendMoves, StillThere DEF CurateLands, AddLands, KeepResolved, lists
  <2>4. CASE Imported(c)
    <3>1. CASE r = c.repo
      <4>1. first'[r] = Fresh(c) /\ Replaced(r)
        BY <1>0, <2>4, <3>1, ImportedRow DEF Replaced
      <4> QED BY <2>4, <4>1, ImportedRow DEF Moves, Appears
    <3>2. CASE r # c.repo
      BY <1>0, <2>4, <3>2, StillThere DEF Imported
    <3> QED BY <3>1, <3>2
  <2>5. CASE Restored(c) \/ NotRestored(c)
    <3>1. c.repo \in Repos
      BY <2>5 DEF Restored, NotRestored
    <3>2. CASE first'[r] = first[r]
      BY <3>2, StillThere
    <3>3. CASE first'[r] # first[r]
      <4>1. \/ /\ Restored(c) /\ Awaits(c.repo) /\ first[c.repo] \in Row
               /\ first' = [first EXCEPT ![c.repo] = Back(first[c.repo], c.tag)]
            \/ /\ NotRestored(c) /\ Awaits(c.repo) /\ first[c.repo] \in Row
               /\ first' = [first EXCEPT ![c.repo] = [first[c.repo] EXCEPT !.status = "idle"]]
        BY <2>5, <3>1, <3>3, RestoredRow
      <4>2. r = c.repo /\ first[r] \in Row /\ Has(r) /\ ~first[r].held
        BY <1>0, <3>3, <4>1 DEF Awaits
      <4>3. CASE Restored(c) /\ first' = [first EXCEPT ![c.repo] = Back(first[c.repo], c.tag)]
        <5>1. c.kind = "verify" /\ c.tag \in Versions
          BY <4>3 DEF Restored, CallsOK, Sound
        <5>2. first'[r] = Back(first[r], c.tag)
          BY <1>0, <4>2, <4>3
        <5>3. /\ first'[r].origin = first[r].origin /\ first'[r].pin = first[r].pin
              /\ first'[r].held = TRUE /\ first'[r].payload = TRUE /\ first'[r].status = "ok"
          <6>1. /\ Back(first[r], c.tag).origin = first[r].origin
                /\ Back(first[r], c.tag).pin = first[r].pin
                /\ Back(first[r], c.tag).held = TRUE /\ Back(first[r], c.tag).payload = TRUE
                /\ Back(first[r], c.tag).status = "ok"
            BY <4>2, <5>1 DEF Back, Row
          <6> QED BY <5>2, <6>1, Zenon
        <5> QED BY <4>2, <5>1, <5>3 DEF Moves, ComesBack
      <4>4. CASE first' = [first EXCEPT ![c.repo] = [first[c.repo] EXCEPT !.status = "idle"]]
        <5>1. first'[r] = [first[r] EXCEPT !.status = "idle"]
          BY <1>0, <4>2, <4>4
        <5>2. Same(first'[r], first[r]) /\ first'[r].status = "idle"
          BY <4>2, <5>1 DEF Same, Row
        <5> QED BY <4>2, <5>2 DEF Moves, Idles
      <4> QED BY <4>1, <4>3, <4>4
    <3> QED BY <3>2, <3>3
  <2>6. CASE \/ ListFails(c) \/ CurateFails(c) \/ AddFails(c) \/ Conflict(c) \/ Keeps(c)
             \/ ReadZip(c) \/ Forget(c)
    BY <2>6, StillThere
       DEF ListFails, CurateFails, AddFails, Conflict, Keeps, ReadZip, Forget, lists
  <2> QED BY <1>1, <2>1, <2>2, <2>3, <2>4, <2>5, <2>6 DEF Lands, Settling
<1>2. CASE User
  <2>1. ASSUME NEW q \in Repos, Refresh(q) PROVE Moves(r)
    <3>1. Asked(q, None).kind = "refresh" /\ Asked(q, None).own /\ Asked(q, None).repo = q
      BY DEF Asked, Ask
    <3>2. /\ \A p \in {q} : Has(p)
          /\ \A p \in {q} :
               \E d \in calls' : d.kind \in {"refresh", "select"} /\ d.own /\ d.repo = p
      BY <2>1, <3>1 DEF Refresh, Refreshable, Start
    <3> QED BY <2>1, <3>2, LoadingMoves DEF Refresh
  <2>2. ASSUME NEW q \in Repos, NEW t \in Versions, Select(q, t) PROVE Moves(r)
    <3>1. \A p \in {q} : \E d \in calls' : d.kind \in {"refresh", "select"} /\ d.own /\ d.repo = p
      <4> DEFINE d == [Ask("select", q) EXCEPT !.tag = t]
      <4>1. d.kind = "select" /\ d.own /\ d.repo = q
        BY DEF Ask
      <4>2. d \in calls'
        BY <2>2 DEF Select, Start
      <4> QED BY <4>1, <4>2
    <3> QED BY <2>2, <3>1, LoadingMoves DEF Select, Refreshable
  <2>3. ASSUME NEW pane \in Panes, NEW b \in Batches, UpdateAll(pane, b) PROVE Moves(r)
    <3> DEFINE queue == {q \in Repos : Pane(q) = pane /\ Refreshable(q)}
    <3>1. \A q \in queue :
            \E d \in calls' : d.kind \in {"refresh", "select"} /\ d.own /\ d.repo = q
      <4> TAKE q \in queue
      <4>1. Asked(q, b).kind = "refresh" /\ Asked(q, b).own /\ Asked(q, b).repo = q
        BY DEF Asked, Ask
      <4>2. Asked(q, b) \in calls'
        BY <2>3 DEF UpdateAll
      <4> QED BY <4>1, <4>2
    <3>2. Loading(queue) /\ \A q \in queue : Has(q)
      BY <2>3 DEF UpdateAll, Refreshable
    <3> QED BY <3>1, <3>2, LoadingMoves
  <2>4. ASSUME NEW q \in Repos, NEW t \in Versions, AddResolved(q, t) PROVE Moves(r)
    BY <2>4, AppendMoves DEF AddResolved, KeepResolved
  <2>5. ASSUME NEW q \in Repos, NEW active \in BOOLEAN, SetActive(q, active) PROVE Moves(r)
    <3>1. CASE r = q
      <4>1. first[r] \in Row /\ first'[r] = [first[r] EXCEPT !.active = active]
        BY <1>0, <2>5, <3>1 DEF SetActive, Has
      <4>2. Same(first'[r], first[r]) /\ first'[r].status = first[r].status
        BY <4>1 DEF Same, Row
      <4> QED BY <4>1, <4>2, RowTypes DEF Moves, Untouched, Has
    <3>2. CASE r # q
      BY <1>0, <2>5, <3>2, StillThere DEF SetActive
    <3> QED BY <3>1, <3>2
  <2>6. ASSUME NEW q \in Repos, Remove(q) PROVE Moves(r)
    BY <1>0, <2>6, StillThere DEF Remove, Has
  <2>7. ASSUME NEW q \in Repos, Add(q) \/ Import(q) PROVE Moves(r)
    BY <2>7, StillThere DEF Add, Import, lists
  <2>8. ASSUME NEW pane \in Panes, RetryCurated(pane) PROVE Moves(r)
    BY <2>8, StillThere DEF RetryCurated, lists
  <2> QED BY <1>2, <2>1, <2>2, <2>3, <2>4, <2>5, <2>6, <2>7, <2>8 DEF User
<1>3. CASE (\E q \in Repos : JobEnds(q)) \/ Release \/ Retire \/ UNCHANGED vars
  BY <1>3, StillThere DEF JobEnds, Release, Retire, vars, lists
<1> QED BY <1>1, <1>2, <1>3 DEF Next


-----------------------------------------------------------------------------
\* A call stays in flight until it lands, and a removal only takes its row away.
Takes(q, c) == [c EXCEPT !.own = IF c.repo = q /\ c.kind \in {"refresh", "select"} THEN FALSE ELSE @]

LEMMA CallStays ==
  ASSUME [Next]_vars, ~Reload, NEW c \in calls
  PROVE  c \in calls' \/ Lands(c) \/ \E q \in Repos : Remove(q) /\ Takes(q, c) \in calls'
<1>1. ASSUME NEW d \in calls, Lands(d), c # d PROVE c \in calls'
  <2>1. CASE Settling(d)
    BY <1>1, <2>1 DEF Settling, Refreshed, PinRetired, RefreshFails, Selected, SelectFails, End, Then
  <2>2. CASE ListArrives(d) \/ ListFails(d) \/ CurateLands(d) \/ CurateFails(d)
    BY <1>1, <2>2 DEF ListArrives, ListFails, CurateLands, CurateFails, End
  <2>3. CASE AddLands(d) \/ AddFails(d) \/ Conflict(d) \/ Imported(d) \/ Keeps(d)
    BY <1>1, <2>3 DEF AddLands, AddFails, Conflict, Imported, Keeps, End, Then
  <2>4. CASE ReadZip(d) \/ Restored(d) \/ NotRestored(d) \/ Forget(d)
    BY <1>1, <2>4 DEF ReadZip, Restored, NotRestored, Forget, End, Then
  <2> QED BY <1>1, <2>1, <2>2, <2>3, <2>4 DEF Lands, Settling
<1>2. ASSUME NEW q \in Repos, Remove(q) PROVE Takes(q, c) \in calls'
  BY <1>2 DEF Remove, Detached, Takes
<1>3. ASSUME User, \A q \in Repos : ~Remove(q) PROVE c \in calls'
  <2>1. ASSUME NEW q \in Repos, Refresh(q) \/ Add(q) \/ Import(q) PROVE c \in calls'
    BY <2>1 DEF Refresh, Add, Import, Start
  <2>2. ASSUME NEW q \in Repos, NEW t \in Versions, Select(q, t) \/ AddResolved(q, t)
        PROVE  c \in calls'
    BY <2>2 DEF Select, AddResolved, Start
  <2>3. ASSUME NEW q \in Repos, NEW active \in BOOLEAN, SetActive(q, active) PROVE c \in calls'
    BY <2>3 DEF SetActive
  <2>4. ASSUME NEW pane \in Panes, RetryCurated(pane) \/ \E b \in Batches : UpdateAll(pane, b)
        PROVE  c \in calls'
    BY <2>4 DEF RetryCurated, UpdateAll
  <2> QED BY <1>3, <2>1, <2>2, <2>3, <2>4 DEF User
<1>4. CASE (\E q \in Repos : JobEnds(q)) \/ Release \/ Retire \/ UNCHANGED vars
  BY <1>4 DEF JobEnds, Release, Retire, vars
<1> QED BY <1>1, <1>2, <1>3, <1>4 DEF Next

LEMMA TakesNothing ==
  ASSUME TypeInv, NEW c \in calls, NEW q
  PROVE  /\ Takes(q, c).kind = c.kind /\ Takes(q, c).repo = c.repo
         /\ Takes(q, c).tag = c.tag /\ Takes(q, c).batch = c.batch
         /\ c.repo # q => Takes(q, c).own = c.own
         /\ Takes(q, c).own => c.own
  BY DEF TypeInv, CallsOK, Call, Takes

\* The kinds a landing can be of.
LEMMA LandsKind ==
  ASSUME NEW c, Lands(c)
  PROVE  /\ c.kind \in {"refresh", "select"} => Settling(c)
         /\ c.kind = "restore" => ReadZip(c) \/ NotRestored(c)
         /\ c.kind = "verify" => Restored(c) \/ NotRestored(c)
         /\ c.kind \in {"add", "import"} =>
              AddLands(c) \/ AddFails(c) \/ Conflict(c) \/ Imported(c)
         /\ c.kind = "keep" => Keeps(c)
  BY DEF Lands, Settling, ListArrives, ListFails, CurateLands, CurateFails, AddLands, AddFails,
         Conflict, Imported, Keeps, ReadZip, Restored, NotRestored, Forget, Refreshed, PinRetired,
         RefreshFails, Selected, SelectFails

LEMMA RestoredStatus ==
  ASSUME TypeInv, NEW c \in calls, NEW r \in Repos, c.repo = r, Awaits(r),
         Restored(c) \/ NotRestored(c)
  PROVE  first'[r].status # "loading"
<1>1. first[r] \in Row
  BY DEF TypeInv, Awaits, Has, RowsOK
<1>2. CASE Restored(c)
  <2>1. first' = [first EXCEPT ![r] = Back(first[r], c.tag)] /\ c.tag \in Versions
    BY <1>2 DEF Restored, Back, TypeInv, CallsOK, Sound
  <2>2. first'[r].status = "ok"
    BY <1>1, <2>1, RowRestored DEF TypeInv, RowsOK
  <2> QED BY <2>2
<1>3. CASE NotRestored(c)
  <2>1. first' = [first EXCEPT ![r].status = "idle"]
    BY <1>3 DEF NotRestored
  <2>2. first'[r].status = "idle"
    BY <1>1, <2>1 DEF TypeInv, RowsOK, Row
  <2> QED BY <2>2
<1> QED BY <1>2, <1>3

\* A row that loads is always somebody's.
LEMMA LoadingIsSettled ==
  ASSUME TypeInv, HonestInv, [Next]_vars, ~Reload, NEW r \in Repos, Has(r)',
         first'[r].status = "loading"
  PROVE  \E c \in calls' : Settles(c, r)'
<1> USE DEF TypeInv
<1>0. first'[r] \in Row /\ Moves(r)
  BY RowsStep, RowMoves DEF RowsOK, Has
<1>1. ASSUME NEW c \in calls, PinRetired(c), c.own, c.repo = r PROVE \E d \in calls' : Settles(d, r)'
  <2> DEFINE d == [c EXCEPT !.tag = None]
  <2>1. d \in calls' /\ d.kind = "refresh" /\ d.own /\ d.repo = r
    BY <1>1 DEF PinRetired, Then, CallsOK, Call
  <2> QED BY <2>1 DEF Settles
<1>2. CASE Untouched(r)
  <2>1. PICK c \in calls : Settles(c, r)
    BY <1>2 DEF Untouched, HonestInv
  <2>2. CASE c \in calls'
    BY <1>2, <2>1, <2>2 DEF Settles, Untouched, Same
  <2>3. ASSUME NEW q \in Repos, Remove(q), Takes(q, c) \in calls' PROVE \E d \in calls' : Settles(d, r)'
    <3>1. r # q
      BY <2>3 DEF Remove, Has, RowsOK
    <3> QED BY <1>2, <2>1, <2>3, <3>1, TakesNothing DEF Settles, Untouched, Same
  <2>4. CASE Lands(c)
    <3>1. CASE c.kind \in {"refresh", "select"}
      <4>1. Settling(c) /\ c.own /\ c.repo = r
        BY <2>1, <2>4, <3>1, LandsKind DEF Settles
      <4>2. PICK row \in Row : first' = [first EXCEPT ![r] = row] /\ Becomes(c, row, first[r])
        BY <4>1, SettledRow
      <4>3. PinRetired(c)
        BY <4>2 DEF Becomes, RowsOK
      <4> QED BY <1>1, <4>1, <4>3
    <3>2. CASE ReadZip(c)
      <4> DEFINE d == [c EXCEPT !.kind = "verify", !.tag = zips[c.repo]]
      <4>1. d \in calls' /\ d.kind = "verify" /\ d.own /\ d.repo = r
        BY <2>1, <3>2 DEF ReadZip, Then, CallsOK, Call, Settles
      <4>2. ~first'[r].held
        BY <1>2, <2>1, <3>2 DEF ReadZip, Settles, Untouched, Same
      <4> QED BY <4>1, <4>2 DEF Settles
    <3>3. CASE c.kind \in {"restore", "verify"} /\ (Restored(c) \/ NotRestored(c))
      <4>1. Awaits(r) /\ c.repo = r
        BY <1>2, <2>1, <3>3 DEF Settles, Untouched, Awaits
      <4>2. first[r] \in Row
        BY <4>1 DEF Awaits, Has, RowsOK
      <4>3. first'[r].status # "loading"
        BY <3>3, <4>1, <4>2, RestoredStatus
      <4> QED BY <4>3
    <3> QED BY <2>1, <2>4, <3>1, <3>2, <3>3, LandsKind DEF Settles
  <2> QED BY <2>2, <2>3, <2>4, CallStays
<1>3. CASE Loads(r)
  BY <1>3 DEF Loads, Settles
<1>4. CASE Settled(r)
  BY <1>1, <1>4 DEF Settled, Becomes
<1>5. CASE ComesBack(r) \/ Idles(r) \/ Appears(r)
  BY <1>5 DEF ComesBack, Idles, Appears
<1> QED BY <1>0, <1>2, <1>3, <1>4, <1>5 DEF Moves


\* An import that is held, and nothing else, can revoke its URLs.
LEMMA MatchedStays ==
  ASSUME TypeInv, HonestInv, ImportsInv, [Next]_vars, ~Reload, NEW r \in Repos, Has(r)'
  PROVE  first'[r].payload <=> first'[r].origin = "bundle" /\ first'[r].held
<1>0. first'[r] \in Row /\ Moves(r)
  BY RowsStep, RowMoves DEF TypeInv, RowsOK, Has
<1>1. CASE Untouched(r) \/ Loads(r) \/ Idles(r)
  BY <1>1 DEF Untouched, Loads, Idles, Same, HonestInv
<1>2. CASE Settled(r)
  <2>1. PICK c \in calls : Settling(c) /\ c.own /\ c.repo = r /\ Becomes(c, first'[r], first[r])
    BY <1>2 DEF Settled
  <2>2. first[r].origin = "url"
    BY <2>1, OwnRow DEF Settling, Refreshed, PinRetired, RefreshFails, Selected, SelectFails
  <2>3. ~first[r].payload
    BY <1>2, <2>2 DEF Settled, HonestInv
  <2> QED BY <2>1, <2>2, <2>3 DEF Becomes, SameSource
<1>3. CASE ComesBack(r)
  BY <1>0, <1>3, RowTypes DEF ComesBack, ImportsInv, Restoring
<1>4. CASE Appears(r)
  BY <1>0, <1>4, RowTypes DEF Appears
<1> QED BY <1>0, <1>1, <1>2, <1>3, <1>4 DEF Moves

FormKinds == {"add", "import", "keep"}

\* The add form is busy with a call, which answers it.
LEMMA FormIsBusy ==
  ASSUME TypeInv, HonestInv, [Next]_vars, adding'
  PROVE  \E c \in calls' : c.kind \in FormKinds
<1>0. ~Reload
  BY DEF Reload
<1>1. CASE adding
  <2>1. PICK c \in calls : c.kind \in FormKinds
    BY <1>1 DEF HonestInv, FormKinds
  <2>2. CASE Lands(c)
    <3>1. CASE Imported(c)
      <4> DEFINE d == [c EXCEPT !.kind = "keep"]
      <4>1. d \in calls' /\ d.kind = "keep"
        BY <3>1 DEF Imported, Then, TypeInv, CallsOK, Call
      <4> QED BY <4>1 DEF FormKinds
    <3> QED BY <2>1, <2>2, <3>1, LandsKind DEF FormKinds, AddLands, AddFails, Conflict, Keeps
  <2>3. ASSUME NEW q \in Repos, Takes(q, c) \in calls' PROVE \E d \in calls' : d.kind \in FormKinds
    BY <2>1, <2>3, TakesNothing
  <2> QED BY <1>0, <2>1, <2>2, <2>3, CallStays
<1>2. CASE ~adding
  <2>1. ASSUME NEW c \in calls, Lands(c) PROVE FALSE
    <3>1. CASE Settling(c) \/ ListArrives(c) \/ ListFails(c) \/ CurateLands(c) \/ CurateFails(c)
      BY <1>2, <3>1 DEF Settling, Refreshed, PinRetired, RefreshFails, Selected, SelectFails,
                        ListArrives, ListFails, CurateLands, CurateFails, form
    <3>2. CASE AddLands(c) \/ AddFails(c) \/ Conflict(c) \/ Imported(c) \/ Keeps(c)
      BY <1>2, <3>2 DEF AddLands, AddFails, Conflict, Imported, Keeps, form
    <3>3. CASE ReadZip(c) \/ Restored(c) \/ NotRestored(c) \/ Forget(c)
      BY <1>2, <3>3 DEF ReadZip, Restored, NotRestored, Forget, form
    <3> QED BY <2>1, <3>1, <3>2, <3>3 DEF Lands, Settling
  <2>2. ASSUME NEW q \in Repos, Add(q) \/ Import(q) PROVE \E d \in calls' : d.kind \in FormKinds
    <3>1. /\ Ask("add", q).kind = "add"
          /\ \A t : [Ask("import", q) EXCEPT !.tag = t].kind = "import"
      BY DEF Ask
    <3> QED BY <2>2, <3>1 DEF Add, Import, Start, FormKinds
  <2>3. ASSUME NEW q \in Repos, Refresh(q) \/ Remove(q) PROVE FALSE
    BY <1>2, <2>3 DEF Refresh, Remove, form
  <2>4. ASSUME NEW q \in Repos, NEW t \in Versions, Select(q, t) \/ AddResolved(q, t) PROVE FALSE
    BY <1>2, <2>4 DEF Select, AddResolved, form
  <2>5. ASSUME NEW q \in Repos, NEW active \in BOOLEAN, SetActive(q, active) PROVE FALSE
    BY <1>2, <2>5 DEF SetActive, form
  <2>6. ASSUME NEW pane \in Panes, RetryCurated(pane) \/ \E b \in Batches : UpdateAll(pane, b)
        PROVE  FALSE
    BY <1>2, <2>6 DEF RetryCurated, UpdateAll, form
  <2>7. CASE (\E q \in Repos : JobEnds(q)) \/ Release \/ Retire \/ UNCHANGED vars
    BY <1>2, <2>7 DEF JobEnds, Release, Retire, vars, form
  <2> QED BY <1>0, <2>1, <2>2, <2>3, <2>4, <2>5, <2>6, <2>7 DEF Next, User
<1> QED BY <1>1, <1>2

\* A pane that is being updated has a refresh under way.
LEMMA PaneIsBusy ==
  ASSUME TypeInv, HonestInv, [Next]_vars, updating' # None
  PROVE  \E c \in calls' : c.batch # None
<1>0. ~Reload
  BY DEF Reload
<1>1. CASE updating # None
  <2>1. PICK c \in calls : c.batch # None
    BY <1>1 DEF HonestInv
  <2>2. CASE Lands(c)
    <3>0. c.kind = "refresh"
      BY <2>1 DEF TypeInv, CallsOK, Sound
    <3>1. CASE PinRetired(c)
      <4> DEFINE d == [c EXCEPT !.tag = None]
      <4>1. d \in calls' /\ d.batch = c.batch
        BY <3>1 DEF PinRetired, Then, TypeInv, CallsOK, Call
      <4> QED BY <2>1, <4>1
    <3>2. CASE Refreshed(c) \/ RefreshFails(c)
      <4>1. BatchOver(c) /\ End(c)
        BY <3>2 DEF Refreshed, RefreshFails
      <4>2. PICK d \in calls \ {c} : d.batch = c.batch
        BY <2>1, <4>1 DEF BatchOver
      <4> QED BY <2>1, <4>1, <4>2 DEF End
    <3>3. CASE Selected(c) \/ SelectFails(c)
      BY <3>0, <3>3 DEF Selected, SelectFails
    <3> QED BY <2>2, <3>0, <3>1, <3>2, <3>3, LandsKind DEF Settling
  <2>3. ASSUME NEW q \in Repos, Takes(q, c) \in calls' PROVE \E d \in calls' : d.batch # None
    BY <2>1, <2>3, TakesNothing
  <2> QED BY <1>0, <2>1, <2>2, <2>3, CallStays
<1>2. CASE updating = None
  <2>1. ASSUME NEW c \in calls, Lands(c) PROVE FALSE
    <3>1. CASE Settling(c) \/ ListArrives(c) \/ ListFails(c) \/ CurateLands(c) \/ CurateFails(c)
      BY <1>2, <3>1 DEF Settling, Refreshed, PinRetired, RefreshFails, Selected, SelectFails,
                        ListArrives, ListFails, CurateLands, CurateFails, BatchOver, form
    <3>2. CASE AddLands(c) \/ AddFails(c) \/ Conflict(c) \/ Imported(c) \/ Keeps(c)
      BY <1>2, <3>2 DEF AddLands, AddFails, Conflict, Imported, Keeps, form
    <3>3. CASE ReadZip(c) \/ Restored(c) \/ NotRestored(c) \/ Forget(c)
      BY <1>2, <3>3 DEF ReadZip, Restored, NotRestored, Forget, form
    <3> QED BY <2>1, <3>1, <3>2, <3>3 DEF Lands, Settling
  <2>2. ASSUME NEW pane \in Panes, NEW b \in Batches, UpdateAll(pane, b)
        PROVE  \E d \in calls' : d.batch # None
    <3>1. PICK r \in Repos : Asked(r, b) \in calls'
      BY <2>2 DEF UpdateAll
    <3>2. Asked(r, b).batch = b /\ b # None
      BY SourcesAssumption DEF Asked, Ask
    <3> QED BY <3>1, <3>2
  <2>3. ASSUME NEW q \in Repos, Refresh(q) \/ Remove(q) \/ Add(q) \/ Import(q) PROVE FALSE
    BY <1>2, <2>3 DEF Refresh, Remove, Add, Import, form
  <2>4. ASSUME NEW q \in Repos, NEW t \in Versions, Select(q, t) \/ AddResolved(q, t) PROVE FALSE
    BY <1>2, <2>4 DEF Select, AddResolved, form
  <2>5. ASSUME NEW q \in Repos, NEW active \in BOOLEAN, SetActive(q, active) PROVE FALSE
    BY <1>2, <2>5 DEF SetActive, form
  <2>6. ASSUME NEW pane \in Panes, RetryCurated(pane) PROVE FALSE
    BY <1>2, <2>6 DEF RetryCurated, form
  <2>7. CASE (\E q \in Repos : JobEnds(q)) \/ Release \/ Retire \/ UNCHANGED vars
    BY <1>2, <2>7 DEF JobEnds, Release, Retire, vars, form
  <2> QED BY <1>0, <2>1, <2>2, <2>3, <2>4, <2>5, <2>6, <2>7 DEF Next, User
<1> QED BY <1>1, <1>2

LEMMA ReloadIsHonest ==
  ASSUME TypeInv, Reload
  PROVE  HonestInv'
<1> USE DEF TypeInv
<1>1. ASSUME NEW r \in Repos, Has(r)'
      PROVE  /\ \E c \in calls' : Settles(c, r)'
             /\ first'[r].payload <=> first'[r].origin = "bundle" /\ first'[r].held
  <2>1. first'[r] = disk.first[r] /\ disk.first[r] # NoRow /\ disk.first[r] \in Row
    BY <1>1 DEF Reload, Has, RowsOK
  <2>2. ~first'[r].held /\ ~first'[r].payload
    BY <2>1 DEF UrlsOK
  <2>3. CASE first'[r].origin = "url"
    <3> DEFINE d == [Ask("refresh", r) EXCEPT !.tag = first'[r].pin]
    <3>1. d.kind = "refresh" /\ d.own /\ d.repo = r
      BY DEF Ask
    <3>2. d \in calls'
      BY <1>1, <2>1, <2>3 DEF Reload
    <3>3. \E c \in calls' : c.kind = "refresh" /\ c.own /\ c.repo = r
      BY <3>1, <3>2
    <3>4. \E c \in calls' : Settles(c, r)'
      BY <3>3 DEF Settles
    <3> QED BY <2>1, <2>2, <3>4, RowTypes
  <2>4. CASE first'[r].origin = "bundle"
    <3>1. Ask("restore", r).kind = "restore" /\ Ask("restore", r).own /\ Ask("restore", r).repo = r
      BY DEF Ask
    <3>2. Ask("restore", r) \in calls'
      BY <1>1, <2>1, <2>4 DEF Reload
    <3>3. \E c \in calls' : Settles(c, r)'
      BY <2>2, <3>1, <3>2 DEF Settles
    <3> QED BY <2>1, <2>2, <3>3, RowTypes
  <2> QED BY <2>1, <2>3, <2>4, RowTypes
<1> QED BY <1>1 DEF Reload, HonestInv

-----------------------------------------------------------------------------
\* Imports.

\* Only an import, a removal and a reload touch what was imported.
LEMMA ImportedStays ==
  ASSUME [Next]_vars, ~Reload, NEW r \in Repos, ~Remove(r), ~Replaced(r), TypeInv
  PROVE  imported'[r] = imported[r]
<1> USE DEF TypeInv, HistoryOK
<1>1. ASSUME NEW c \in calls, Lands(c) PROVE imported'[r] = imported[r]
  <2>1. CASE Settling(c)
    BY <2>1 DEF Settling, Refreshed, PinRetired, RefreshFails, Selected, SelectFails, history
  <2>2. CASE ListArrives(c) \/ ListFails(c) \/ CurateLands(c) \/ CurateFails(c)
    BY <2>2 DEF ListArrives, ListFails, CurateLands, CurateFails, history
  <2>3. CASE AddLands(c) \/ AddFails(c) \/ Conflict(c) \/ Keeps(c)
    BY <2>3 DEF AddLands, AddFails, Conflict, Keeps, history
  <2>4. CASE ReadZip(c) \/ Restored(c) \/ NotRestored(c) \/ Forget(c)
    BY <2>4 DEF ReadZip, Restored, NotRestored, Forget, history
  <2>5. CASE Imported(c)
    BY <2>5 DEF Imported, Replaced
  <2> QED BY <1>1, <2>1, <2>2, <2>3, <2>4, <2>5 DEF Lands, Settling
<1>2. CASE User
  <2>1. ASSUME NEW q \in Repos, Refresh(q) \/ Add(q) \/ Import(q) PROVE imported'[r] = imported[r]
    BY <2>1 DEF Refresh, Add, Import, history
  <2>2. ASSUME NEW q \in Repos, NEW t \in Versions, Select(q, t) \/ AddResolved(q, t)
        PROVE  imported'[r] = imported[r]
    BY <2>2 DEF Select, AddResolved, history
  <2>3. ASSUME NEW q \in Repos, NEW active \in BOOLEAN, SetActive(q, active)
        PROVE  imported'[r] = imported[r]
    BY <2>3 DEF SetActive
  <2>4. ASSUME NEW pane \in Panes, RetryCurated(pane) \/ \E b \in Batches : UpdateAll(pane, b)
        PROVE  imported'[r] = imported[r]
    BY <2>4 DEF RetryCurated, UpdateAll, history
  <2>5. ASSUME NEW q \in Repos, Remove(q) PROVE imported'[r] = imported[r]
    BY <2>5 DEF Remove
  <2> QED BY <1>2, <2>1, <2>2, <2>3, <2>4, <2>5 DEF User
<1>3. CASE (\E q \in Repos : JobEnds(q)) \/ Release \/ Retire \/ UNCHANGED vars
  BY <1>3 DEF JobEnds, Release, Retire, vars, history
<1> QED BY <1>1, <1>2, <1>3 DEF Next

\* A restore is asked for by a reload, of an import's row.
LEMMA NewRestores ==
  ASSUME TypeInv, [Next]_vars, ~Reload, NEW d \in calls', d.kind \in {"restore", "verify"}
  PROVE  \E c \in calls : c.kind \in {"restore", "verify"} /\ c.repo = d.repo
<1> USE DEF TypeInv
<1>1. ASSUME NEW c \in calls, Lands(c)
      PROVE  \E e \in calls : e.kind \in {"restore", "verify"} /\ e.repo = d.repo
  <2>1. CASE PinRetired(c)
    <3>1. [c EXCEPT !.tag = None].kind = "refresh"
      BY <2>1 DEF PinRetired, CallsOK, Call
    <3> QED BY <2>1, <3>1 DEF PinRetired, Then
  <2>2. CASE ListArrives(c)
    <3>1. \A r : Ask("curate", r).kind = "curate"
      BY DEF Ask
    <3> QED BY <2>2, <3>1 DEF ListArrives
  <2>3. CASE Imported(c)
    <3>1. [c EXCEPT !.kind = "keep"].kind = "keep"
      BY DEF CallsOK, Call
    <3> QED BY <2>3, <3>1 DEF Imported, Then
  <2>4. CASE ReadZip(c)
    <3>1. c.kind = "restore" /\ [c EXCEPT !.kind = "verify", !.tag = zips[c.repo]].repo = c.repo
      BY <2>4 DEF ReadZip, CallsOK, Call
    <3> QED BY <2>4, <3>1 DEF ReadZip, Then
  <2>5. CASE Refreshed(c) \/ RefreshFails(c) \/ Selected(c) \/ SelectFails(c)
             \/ ListFails(c) \/ CurateLands(c) \/ CurateFails(c)
    BY <2>5 DEF Refreshed, RefreshFails, Selected, SelectFails, ListFails, CurateLands, CurateFails,
                End
  <2>6. CASE AddLands(c) \/ AddFails(c) \/ Conflict(c) \/ Keeps(c) \/ Restored(c)
             \/ NotRestored(c) \/ Forget(c)
    BY <2>6 DEF AddLands, AddFails, Conflict, Keeps, Restored, NotRestored, Forget, End
  <2> QED BY <1>1, <2>1, <2>2, <2>3, <2>4, <2>5, <2>6 DEF Lands
<1>2. CASE User
  <2>1. ASSUME NEW q \in Repos, Remove(q)
        PROVE  \E e \in calls : e.kind \in {"restore", "verify"} /\ e.repo = d.repo
    <3>1. Ask("forget", q).kind = "forget"
      BY DEF Ask
    <3>2. PICK e \in calls : d = Takes(q, e)
      BY <2>1, <3>1 DEF Remove, Detached, Takes
    <3> QED BY <3>2, TakesNothing
  <2>2. ASSUME d \notin calls, \A q \in Repos : ~Remove(q) PROVE FALSE
    <3>1. ASSUME NEW q, NEW t, NEW b
          PROVE  /\ d # Ask("curate", q) /\ d # Ask("add", q) /\ d # Asked(q, b)
                 /\ d # [Ask("import", q) EXCEPT !.tag = t]
                 /\ d # [Ask("select", q) EXCEPT !.tag = t]
      <4>1. Ask("curate", q).kind = "curate" /\ Ask("add", q).kind = "add"
        BY DEF Ask
      <4>2. [Ask("import", q) EXCEPT !.tag = t].kind = "import"
        BY DEF Ask
      <4>3. [Ask("select", q) EXCEPT !.tag = t].kind = "select"
        BY DEF Ask
      <4>4. Asked(q, b).kind = "refresh"
        BY DEF Ask, Asked
      <4> QED BY <4>1, <4>2, <4>3, <4>4
    <3>2. ASSUME NEW q \in Repos, Refresh(q) \/ Add(q) \/ Import(q) PROVE FALSE
      <4>1. Refresh(q) => d = Asked(q, None)
        BY <2>2 DEF Refresh, Start
      <4>2. Add(q) => d = Ask("add", q)
        BY <2>2 DEF Add, Start
      <4>3. Import(q) => \E t \in Versions : d = [Ask("import", q) EXCEPT !.tag = t]
        BY <2>2 DEF Import, Start
      <4> QED BY <3>1, <3>2, <4>1, <4>2, <4>3
    <3>3. ASSUME NEW q \in Repos, NEW t \in Versions, Select(q, t) \/ AddResolved(q, t) PROVE FALSE
      BY <2>2, <3>1, <3>3 DEF Select, AddResolved, Start
    <3>4. ASSUME NEW q \in Repos, NEW active \in BOOLEAN, SetActive(q, active) PROVE FALSE
      BY <2>2, <3>4 DEF SetActive
    <3>5. ASSUME NEW pane \in Panes, RetryCurated(pane) \/ \E b \in Batches : UpdateAll(pane, b)
          PROVE  FALSE
      <4>1. RetryCurated(pane) => \E q : d = Ask("curate", q)
        BY <2>2 DEF RetryCurated
      <4>2. (\E b \in Batches : UpdateAll(pane, b)) => \E q, b : d = Asked(q, b)
        BY <2>2 DEF UpdateAll
      <4> QED BY <3>1, <3>5, <4>1, <4>2
    <3> QED BY <1>2, <2>2, <3>2, <3>3, <3>4, <3>5 DEF User
  <2> QED BY <2>1, <2>2
<1>3. CASE (\E q \in Repos : JobEnds(q)) \/ Release \/ Retire \/ UNCHANGED vars
  BY <1>3 DEF JobEnds, Release, Retire, vars
<1> QED BY <1>1, <1>2, <1>3 DEF Next

LEMMA LatestStays ==
  ASSUME TypeInv, [Next]_vars, ~Reload, NEW r \in Repos, Latest(r)
  PROVE  Latest(r)'
<1> USE DEF TypeInv
<1>1. CASE Remove(r)
  BY <1>1 DEF Remove, HistoryOK, Latest
<1>2. ASSUME NEW c \in calls, Imported(c), c.repo = r PROVE Latest(r)'
  <2>1. imported'[r] = c.tag
    BY <1>2 DEF Imported, HistoryOK
  <2>2. /\ Fresh(c) \in Row /\ Fresh(c).origin = "bundle" /\ Fresh(c).held = TRUE
        /\ Fresh(c).tag = c.tag /\ first' = [first EXCEPT ![r] = Fresh(c)]
    BY <1>2, ImportedRow
  <2>3. first'[r] = Fresh(c)
    BY <2>2 DEF RowsOK
  <2> QED BY <2>1, <2>2, <2>3, RowTypes DEF Latest, Has
<1>3. CASE ~Remove(r) /\ ~Replaced(r) /\ imported[r] # None
  <2>1. imported'[r] = imported[r]
    BY <1>3, ImportedStays
  <2>2. Has(r) /\ first[r].held /\ first[r].origin = "bundle" /\ first[r].tag = imported[r]
    BY <1>3 DEF Latest
  <2>3. Has(r)' /\ Moves(r)
    BY <1>3, <2>2, RowsStay, RowMoves DEF Stays
  <2>4. CASE Untouched(r) \/ Loads(r) \/ Idles(r)
    BY <2>1, <2>2, <2>3, <2>4 DEF Untouched, Loads, Idles, Same, Latest
  <2>5. ~ComesBack(r) /\ ~Appears(r)
    BY <1>3, <2>2 DEF ComesBack, Appears
  <2>6. ~Settled(r)
    <3> SUFFICES ASSUME Settled(r) PROVE FALSE
      OBVIOUS
    <3>1. PICK c \in calls : Settling(c) /\ c.own /\ c.repo = r
      BY DEF Settled
    <3>2. first[r].origin = "url"
      BY <3>1, OwnRow DEF Settling, Refreshed, PinRetired, RefreshFails, Selected, SelectFails
    <3> QED BY <2>2, <3>2
  <2> QED BY <2>3, <2>4, <2>5, <2>6 DEF Moves
<1>4. CASE ~Remove(r) /\ ~Replaced(r) /\ imported[r] = None
  BY <1>4, ImportedStays DEF Latest
<1> QED BY <1>1, <1>2, <1>3, <1>4 DEF Replaced

LEMMA RestoringStays ==
  ASSUME TypeInv, ImportsInv, [Next]_vars, ~Reload, NEW d \in calls'
  PROVE  Restoring(d)'
<1> SUFFICES ASSUME d.kind \in {"restore", "verify"}, Has(d.repo)'
             PROVE  first'[d.repo].held \/ first'[d.repo].origin = "bundle"
  BY DEF Restoring
<1> DEFINE r == d.repo
<1>1. PICK c \in calls : c.kind \in {"restore", "verify"} /\ c.repo = r
  BY NewRestores
<1>2. r \in Repos
  BY <1>1 DEF TypeInv, CallsOK, Sound
<1>3. Moves(r)
  BY <1>2, RowMoves
<1>4. CASE Has(r)
  <2>1. ~Remove(r)
    BY <1>2 DEF Remove, Has, TypeInv, RowsOK
  <2>2. first[r].held \/ first[r].origin = "bundle"
    BY <1>1, <1>4 DEF ImportsInv, Restoring
  <2> QED BY <1>2, <1>4, <2>1, <2>2, RowsStay DEF Stays
<1>5. CASE ~Has(r)
  BY <1>3, <1>5 DEF Moves, Untouched, Loads, Settled, ComesBack, Idles, Appears
<1> QED BY <1>4, <1>5

LEMMA ImportsStep == TypeInv /\ ImportsInv /\ [Next]_vars => ImportsInv'
<1> SUFFICES ASSUME TypeInv, ImportsInv, [Next]_vars PROVE ImportsInv'
  OBVIOUS
<1>1. CASE ~Reload
  BY <1>1, LatestStays, RestoringStays DEF ImportsInv
<1>2. CASE Reload
  <2>1. \A r \in Repos : Latest(r)'
    BY <1>2 DEF Reload, Latest
  <2>2. ASSUME NEW c \in calls', c.kind \in {"restore", "verify"}
        PROVE  first'[c.repo].origin = "bundle"
    <3>1. Ask("list", None).kind = "list" /\ \A q, t : [Ask("refresh", q) EXCEPT !.tag = t].kind = "refresh"
      BY DEF Ask
    <3>2. PICK r \in Repos : c = Ask("restore", r) /\ first'[r].origin = "bundle"
      BY <1>2, <2>2, <3>1 DEF Reload
    <3> QED BY <3>2 DEF Ask
  <2> QED BY <2>1, <2>2 DEF ImportsInv, Restoring
<1> QED BY <1>1, <1>2

LEMMA ImportsAlways == Spec => []ImportsInv
<1>1. Init => ImportsInv
  <2>1. Ask("list", None).kind = "list"
    BY DEF Ask
  <2> QED BY <2>1 DEF Init, ImportsInv, Restoring, Latest
<1> QED BY <1>1, ImportsStep, TypeAlways, PTL DEF Spec

\* A row that loads has a call that settles it, an import is installable exactly while its URLs
\* live, none outlives its row, a zip imported on this visit is what its row describes, and a
\* busy form or pane has work behind it (refresh(), restore(), importBundleFile(), remove(),
\* updateAll()).
THEOREM RowsHonestCorrect == Spec => []RowsHonest
<1>1. Init => HonestInv
  <2> SUFFICES ASSUME Init PROVE HonestInv
    OBVIOUS
  <2>1. \A r \in Repos : ~Has(r)
    BY DEF Init, Has
  <2>2. ~adding /\ updating = None
    BY DEF Init
  <2> QED BY <2>1, <2>2 DEF HonestInv
<1>2. TypeInv /\ ImportsInv /\ HonestInv /\ [Next]_vars => HonestInv'
  <2> SUFFICES ASSUME TypeInv, ImportsInv, HonestInv, [Next]_vars PROVE HonestInv'
    OBVIOUS
  <2>1. CASE Reload
    BY <2>1, ReloadIsHonest
  <2>2. CASE ~Reload
    BY <2>2, LoadingIsSettled, MatchedStays, FormIsBusy, PaneIsBusy DEF HonestInv, Has, FormKinds
  <2> QED BY <2>1, <2>2
<1>3. TypeInv /\ ImportsInv /\ HonestInv => RowsHonest
  <2> SUFFICES ASSUME TypeInv, ImportsInv, HonestInv PROVE RowsHonest
    OBVIOUS
  <2>1. \A r \in Repos : published[r] = Revoked(r)
    BY DEF TypeInv, UrlsOK
  <2>2. ASSUME NEW r \in Repos, Has(r), first[r].status = "loading"
        PROVE  \E c \in calls : /\ c.repo = r /\ c.own
                                /\ c.kind \in {"refresh", "select", "restore", "verify"}
    BY <2>2 DEF HonestInv, Settles
  <2> QED BY <2>1, <2>2 DEF HonestInv, ImportsInv, Latest, RowsHonest
<1> QED BY <1>1, <1>2, <1>3, TypeAlways, ImportsAlways, PTL DEF Spec

-----------------------------------------------------------------------------
\* Pins.

LEMMA FaithfulDisk ==
  ASSUME TypeInv, RowsOK', NEW r \in Repos, Faithful(first'[r]),
         Persist \/ (UNCHANGED disk /\ Faithful(disk.first[r]))
  PROVE  Faithful(disk'.first[r])
<1>1. CASE Persist
  <2>1. disk'.first[r] = Kept(first'[r], "loading")
    BY <1>1 DEF Persist
  <2>2. CASE first'[r] = NoRow
    BY <2>1, <2>2 DEF Kept, Faithful
  <2>3. CASE first'[r] # NoRow
    <3>1. first'[r] \in Row
      BY <2>3 DEF RowsOK
    <3>2. disk'.first[r].pin = first'[r].pin /\ disk'.first[r].tag = first'[r].tag
      BY <2>1, <2>3, <3>1 DEF Kept, Row
    <3> QED BY <2>3, <3>2 DEF Faithful
  <2> QED BY <2>2, <2>3
<1> QED BY <1>1

\* What is asked of a mirror anew is asked for the pin of the moment.
Anew(d) ==
  \/ d.repo \in Repos /\ d.tag = first'[d.repo].pin
  \/ \E c \in calls : PinRetired(c) /\ d = [c EXCEPT !.tag = None]
  \/ \E q \in Repos : Remove(q) /\ \E c \in calls : d = Takes(q, c)

LEMMA LoadingPins ==
  ASSUME TypeInv, NEW R, \A q \in R : Has(q), Loading(R), NEW r \in Repos, Has(r)
  PROVE  first'[r].pin = first[r].pin
  BY DEF TypeInv, RowsOK, Loading, Has, Row

LEMMA NewRefreshes ==
  ASSUME TypeInv, [Next]_vars, ~Reload, NEW d \in calls', d \notin calls, d.kind = "refresh"
  PROVE  Anew(d)
<1> USE DEF TypeInv
<1>1. ASSUME NEW c \in calls, Lands(c) PROVE Anew(d)
  <2>1. CASE PinRetired(c)
    BY <2>1 DEF PinRetired, Then, Anew
  <2>2. CASE ListArrives(c)
    <3>1. \A r : Ask("curate", r).kind = "curate"
      BY DEF Ask
    <3> QED BY <2>2, <3>1 DEF ListArrives
  <2>3. CASE Imported(c)
    <3>1. [c EXCEPT !.kind = "keep"].kind = "keep"
      BY DEF CallsOK, Call
    <3> QED BY <2>3, <3>1 DEF Imported, Then
  <2>4. CASE ReadZip(c)
    <3>1. [c EXCEPT !.kind = "verify", !.tag = zips[c.repo]].kind = "verify"
      BY DEF CallsOK, Call
    <3> QED BY <2>4, <3>1 DEF ReadZip, Then
  <2>5. CASE Refreshed(c) \/ RefreshFails(c) \/ Selected(c) \/ SelectFails(c)
             \/ ListFails(c) \/ CurateLands(c) \/ CurateFails(c)
    BY <2>5 DEF Refreshed, RefreshFails, Selected, SelectFails, ListFails, CurateLands, CurateFails,
                End
  <2>6. CASE AddLands(c) \/ AddFails(c) \/ Conflict(c) \/ Keeps(c) \/ Restored(c)
             \/ NotRestored(c) \/ Forget(c)
    BY <2>6 DEF AddLands, AddFails, Conflict, Keeps, Restored, NotRestored, Forget, End
  <2> QED BY <1>1, <2>1, <2>2, <2>3, <2>4, <2>5, <2>6 DEF Lands
<1>2. CASE User
  <2>1. ASSUME NEW q \in Repos, Refresh(q) PROVE Anew(d)
    <3>1. d = Asked(q, None)
      BY <2>1 DEF Refresh, Start
    <3>2. d.repo = q /\ d.tag = first[q].pin
      BY <3>1 DEF Asked, Ask
    <3>3. first'[q].pin = first[q].pin
      BY <2>1, LoadingPins DEF Refresh, Refreshable
    <3> QED BY <3>2, <3>3 DEF Anew
  <2>2. ASSUME NEW pane \in Panes, NEW b \in Batches, UpdateAll(pane, b) PROVE Anew(d)
    <3> DEFINE queue == {r \in Repos : Pane(r) = pane /\ Refreshable(r)}
    <3>1. PICK q \in queue : d = Asked(q, b)
      BY <2>2 DEF UpdateAll
    <3>2. d.repo = q /\ d.tag = first[q].pin
      BY <3>1 DEF Asked, Ask
    <3>3. first'[q].pin = first[q].pin
      BY <2>2, LoadingPins DEF UpdateAll, Refreshable
    <3> QED BY <3>2, <3>3 DEF Anew
  <2>3. ASSUME NEW q \in Repos, Remove(q) PROVE Anew(d)
    <3>1. Ask("forget", q).kind = "forget"
      BY DEF Ask
    <3>2. d # Ask("forget", q)
      BY <3>1
    <3>3. \E c \in calls : d = Takes(q, c)
      BY <2>3, <3>2 DEF Remove, Detached, Takes
    <3> QED BY <2>3, <3>3 DEF Anew
  <2>4. ASSUME NEW q \in Repos, Add(q) \/ Import(q) PROVE Anew(d)
    <3>1. /\ Ask("add", q).kind = "add"
          /\ \A t : [Ask("import", q) EXCEPT !.tag = t].kind = "import"
      BY DEF Ask
    <3> QED BY <2>4, <3>1 DEF Add, Import, Start
  <2>5. ASSUME NEW q \in Repos, NEW t \in Versions, Select(q, t) PROVE Anew(d)
    <3>1. [Ask("select", q) EXCEPT !.tag = t].kind = "select"
      BY DEF Ask
    <3> QED BY <2>5, <3>1 DEF Select, Start
  <2>6. ASSUME NEW pane \in Panes, RetryCurated(pane) PROVE Anew(d)
    <3>1. \A r : Ask("curate", r).kind = "curate"
      BY DEF Ask
    <3> QED BY <2>6, <3>1 DEF RetryCurated
  <2>7. ASSUME NEW q \in Repos, NEW t \in Versions, AddResolved(q, t) PROVE Anew(d)
    BY <2>7 DEF AddResolved
  <2>8. ASSUME NEW q \in Repos, NEW active \in BOOLEAN, SetActive(q, active) PROVE Anew(d)
    BY <2>8 DEF SetActive
  <2> QED BY <1>2, <2>1, <2>2, <2>3, <2>4, <2>5, <2>6, <2>7, <2>8 DEF User
<1>3. CASE (\E q \in Repos : JobEnds(q)) \/ Release \/ Retire \/ UNCHANGED vars
  BY <1>3 DEF JobEnds, Release, Retire, vars
<1> QED BY <1>1, <1>2, <1>3 DEF Next

\* A source is no longer overtaken once a refresh for its pin has landed, and no other is left.
CatchesUp(c) ==
  Refreshed(c) /\ c.own /\ c.tag = first[c.repo].pin /\ Others(c, c.tag) \ {c} = {}

LEMMA Overtakes ==
  ASSUME [Next]_vars, NEW r \in overtaken, r \notin overtaken'
  PROVE  Remove(r) \/ \E c \in calls : CatchesUp(c) /\ c.repo = r
<1>1. ASSUME NEW c \in calls, Lands(c) PROVE CatchesUp(c) /\ c.repo = r
  <2>1. CASE Refreshed(c)
    BY <2>1 DEF Refreshed, CatchesUp
  <2>2. CASE Selected(c)
    BY <2>2 DEF Selected
  <2>3. CASE PinRetired(c) \/ RefreshFails(c) \/ SelectFails(c) \/ ListArrives(c) \/ ListFails(c)
    BY <2>3 DEF PinRetired, RefreshFails, SelectFails, ListArrives, ListFails, history
  <2>4. CASE CurateLands(c) \/ CurateFails(c) \/ AddLands(c) \/ AddFails(c) \/ Conflict(c)
    BY <2>4 DEF CurateLands, CurateFails, AddLands, AddFails, Conflict, history
  <2>5. CASE Imported(c) \/ Keeps(c) \/ ReadZip(c) \/ Restored(c) \/ NotRestored(c) \/ Forget(c)
    BY <2>5 DEF Imported, Keeps, ReadZip, Restored, NotRestored, Forget, history
  <2> QED BY <1>1, <2>1, <2>2, <2>3, <2>4, <2>5 DEF Lands
<1>2. ASSUME NEW q \in Repos, Remove(q) PROVE q = r
  BY <1>2 DEF Remove
<1>3. ASSUME User, \A q \in Repos : ~Remove(q) PROVE FALSE
  <2>1. ASSUME NEW q \in Repos, Refresh(q) \/ Add(q) \/ Import(q) PROVE FALSE
    BY <2>1 DEF Refresh, Add, Import, history
  <2>2. ASSUME NEW q \in Repos, NEW t \in Versions, Select(q, t) \/ AddResolved(q, t) PROVE FALSE
    BY <2>2 DEF Select, AddResolved, history
  <2>3. ASSUME NEW q \in Repos, NEW active \in BOOLEAN, SetActive(q, active) PROVE FALSE
    BY <2>3 DEF SetActive, history
  <2>4. ASSUME NEW pane \in Panes, RetryCurated(pane) \/ \E b \in Batches : UpdateAll(pane, b)
        PROVE  FALSE
    BY <2>4 DEF RetryCurated, UpdateAll, history
  <2> QED BY <1>3, <2>1, <2>2, <2>3, <2>4 DEF User
<1>4. CASE Reload
  BY <1>4 DEF Reload
<1>5. CASE (\E q \in Repos : JobEnds(q)) \/ Release \/ Retire \/ UNCHANGED vars
  BY <1>5 DEF JobEnds, Release, Retire, vars, history
<1> QED BY <1>1, <1>2, <1>3, <1>4, <1>5 DEF Next

\* The refreshes in flight of a row ask for its pin.
AskedFor(r) ==
  Has(r) /\ first[r].pin # None =>
    \A c \in calls : c.kind = "refresh" /\ c.own /\ c.repo = r => c.tag = first[r].pin

\* The pin and the version of a row that is not overtaken, a step later.
LEMMA PinMoves ==
  ASSUME TypeInv, [Next]_vars, ~Reload, NEW r \in Repos, r \notin overtaken, r \notin overtaken',
         Has(r)', Faithful(first[r]), Unpinned(first[r]), ImportsInv, AskedFor(r)
  PROVE  /\ Faithful(first'[r])
         /\ \/ first'[r].pin = None
            \/ Has(r) /\ first'[r].pin = first[r].pin
            \/ \A c \in calls : c.kind = "refresh" /\ c.own /\ c.repo = r => c.tag = first'[r].pin
<1> USE DEF TypeInv
<1>0. first'[r] \in Row /\ Moves(r)
  BY RowsStep, RowMoves DEF RowsOK, Has
<1>1. CASE Untouched(r) \/ Loads(r) \/ Idles(r)
  BY <1>1 DEF Untouched, Loads, Idles, Same, Faithful, Has
<1>4. CASE ComesBack(r)
  BY <1>4 DEF ComesBack, ImportsInv, Restoring, Unpinned, Faithful, Has
<1>2. CASE Appears(r)
  BY <1>2 DEF Appears, Faithful
<1>3. CASE Settled(r)
  <2>1. PICK c \in calls : Settling(c) /\ c.own /\ c.repo = r /\ Becomes(c, first'[r], first[r])
    BY <1>3 DEF Settled
  <2>2. Has(r)
    BY <1>3 DEF Settled
  <2>3. CASE /\ Refreshed(c) /\ first'[r].tag = Answer(c) /\ first'[r].pin = first[r].pin
    BY <2>1, <2>2, <2>3 DEF Refreshed, AskedFor, Answer, Faithful
  <2>4. CASE first'[r].pin = None
    BY <2>4 DEF Faithful
  <2>5. CASE first'[r].tag = first[r].tag /\ first'[r].pin = first[r].pin
    BY <2>2, <2>5 DEF Faithful, Has
  <2>6. CASE /\ Selected(c) /\ first'[r].tag = Answer(c) /\ first'[r].pin = PinFor(c.tag)
    <3>1. c.tag \in Versions /\ c.tag # None
      BY <2>6, SourcesAssumption DEF Selected, CallsOK, Sound, Versions
    <3>2. Faithful(first'[r])
      BY <2>6, <3>1 DEF Answer, PinFor, Faithful
    <3>3. Others(c, first'[r].pin) = {}
      BY <2>1, <2>6 DEF Selected
    <3> QED BY <2>1, <3>2, <3>3 DEF Others
  <2> QED BY <2>1, <2>3, <2>4, <2>5, <2>6 DEF Becomes
<1> QED BY <1>0, <1>1, <1>2, <1>3, <1>4 DEF Moves

\* An import's row has no pin, here and on the disk.
LEMMA StaysUnpinned ==
  ASSUME TypeInv, [Next]_vars, NEW r \in Repos, Unpinned(first[r]), Unpinned(disk.first[r])
  PROVE  Unpinned(first'[r]) /\ Unpinned(disk'.first[r])
<1> USE DEF TypeInv
<1>0. RowsOK'
  BY RowsStep
<1>1. CASE Reload
  BY <1>1 DEF Reload
<1>2. CASE ~Reload
  <2>1. ASSUME Has(r)' PROVE Unpinned(first'[r])
    <3>1. CASE Untouched(r) \/ Loads(r) \/ Idles(r)
      BY <3>1 DEF Untouched, Loads, Idles, Same, Unpinned, Has
    <3>2. CASE ComesBack(r) \/ Appears(r)
      BY <3>2 DEF ComesBack, Appears, Unpinned, Has
    <3>3. CASE Settled(r)
      <4>1. PICK c \in calls : Settling(c) /\ c.own /\ c.repo = r /\ Becomes(c, first'[r], first[r])
        BY <3>3 DEF Settled
      <4>2. first[r].origin = "url"
        BY <4>1, OwnRow DEF Settling, Refreshed, PinRetired, RefreshFails, Selected, SelectFails
      <4> QED BY <4>1, <4>2 DEF Becomes, SameSource, Unpinned
    <3> QED BY <1>2, <2>1, <3>1, <3>2, <3>3, RowMoves DEF Moves
  <2>2. Unpinned(first'[r])
    BY <2>1 DEF Unpinned, Has
  <2>3. CASE Persist
    <3>1. disk'.first[r] = Kept(first'[r], "loading")
      BY <2>3 DEF Persist
    <3>2. CASE first'[r] = NoRow
      BY <2>2, <3>1, <3>2 DEF Kept
    <3>3. CASE first'[r] # NoRow
      <4>1. first'[r] \in Row
        BY <1>0, <3>3 DEF RowsOK
      <4>2. /\ disk'.first[r].pin = first'[r].pin /\ disk'.first[r].origin = first'[r].origin
        BY <3>1, <3>3, <4>1 DEF Kept, Row
      <4> QED BY <2>2, <3>3, <4>2 DEF Unpinned
    <3> QED BY <2>2, <3>2, <3>3
  <2>4. CASE UNCHANGED disk
    BY <2>2, <2>4
  <2> QED BY <2>3, <2>4, DiskFollows
<1> QED BY <1>1, <1>2

LEMMA PinsStep == TypeInv /\ ImportsInv /\ PinsInv /\ [Next]_vars => PinsInv'
<1> SUFFICES ASSUME TypeInv, ImportsInv, PinsInv, [Next]_vars, NEW r \in Repos, r \notin overtaken'
             PROVE  Faithful(first'[r]) /\ Faithful(disk'.first[r]) /\ AskedFor(r)'
  BY StaysUnpinned DEF PinsInv, AskedFor
<1> USE DEF TypeInv
<1>0. RowsOK'
  BY RowsStep
<1>1. CASE Reload
  <2>1. r \notin overtaken /\ disk' = disk /\ first' = disk.first
    BY <1>1 DEF Reload
  <2>2. Faithful(first'[r]) /\ Faithful(disk'.first[r])
    BY <2>1 DEF PinsInv
  <2>3. ASSUME NEW c \in calls', c.kind = "refresh", c.repo = r PROVE c.tag = first'[r].pin
    <3>1. PICK q \in Repos : c = [Ask("refresh", q) EXCEPT !.tag = first'[q].pin]
      <4>1. Ask("list", None).kind = "list" /\ \A q : Ask("restore", q).kind = "restore"
        BY DEF Ask
      <4> QED BY <1>1, <2>3, <4>1 DEF Reload
    <3> QED BY <2>3, <3>1 DEF Ask
  <2> QED BY <2>2, <2>3 DEF AskedFor
<1>2. ASSUME ~Reload, Remove(r) PROVE Faithful(first'[r]) /\ Faithful(disk'.first[r]) /\ AskedFor(r)'
  <2>1. first'[r] = NoRow /\ Persist
    BY <1>2 DEF Remove, RowsOK
  <2>2. Faithful(first'[r])
    BY <2>1 DEF Faithful
  <2>3. Faithful(disk'.first[r])
    BY <1>0, <2>1, <2>2, FaithfulDisk
  <2> QED BY <2>1, <2>2, <2>3 DEF AskedFor, Has
<1>3. ASSUME ~Reload, NEW c \in calls, CatchesUp(c), c.repo = r, Has(r)
      PROVE  Faithful(first'[r]) /\ Faithful(disk'.first[r]) /\ AskedFor(r)'
  <2>1. PICK row \in Row : first' = [first EXCEPT ![r] = row] /\ Becomes(c, row, first[r])
    BY <1>3, SettledRow DEF CatchesUp, Settling
  <2>2. first'[r].tag = Answer(c) /\ first'[r].pin = first[r].pin
    <3>1. first' = [first EXCEPT ![r] = Resolved(c)]
      BY <1>3 DEF CatchesUp, Refreshed, Update
    <3>2. first[r] \in Row
      BY <1>3 DEF RowsOK, Has
    <3>3. Resolved(c).tag = Answer(c) /\ Resolved(c).pin = first[r].pin
      BY <1>3, <3>2 DEF Resolved, Row
    <3> QED BY <3>1, <3>3 DEF RowsOK
  <2>3. Faithful(first'[r])
    BY <1>3, <2>2 DEF CatchesUp, Answer, Faithful
  <2>4. Faithful(disk'.first[r])
    BY <1>0, <1>3, <2>3, FaithfulDisk DEF CatchesUp, Refreshed
  <2>5. ASSUME NEW d \in calls', d.kind = "refresh", d.own, d.repo = r PROVE d.tag = first'[r].pin
    <3>1. d \in calls
      BY <1>3 DEF CatchesUp, Refreshed, End
    <3> QED BY <1>3, <2>2, <2>5, <3>1 DEF CatchesUp, Others
  <2> QED BY <2>3, <2>4, <2>5 DEF AskedFor
<1>4. ASSUME ~Reload, r \notin overtaken
      PROVE  Faithful(first'[r]) /\ Faithful(disk'.first[r]) /\ AskedFor(r)'
  <2>1. /\ Faithful(first[r]) /\ Faithful(disk.first[r]) /\ AskedFor(r)
        /\ Unpinned(first[r])
    BY <1>4 DEF PinsInv, AskedFor
  <2>2. Faithful(first'[r])
    BY <1>4, <2>1, PinMoves DEF Faithful, Has
  <2>3. Faithful(disk'.first[r])
    BY <1>0, <2>1, <2>2, FaithfulDisk, DiskFollows
  <2>4. ASSUME Has(r)', first'[r].pin # None,
               NEW d \in calls', d.kind = "refresh", d.own, d.repo = r
        PROVE  d.tag = first'[r].pin
    <3>1. ASSUME NEW c \in calls, c.kind = "refresh", c.own, c.repo = r PROVE c.tag = first'[r].pin
      BY <1>4, <2>1, <2>4, <3>1, PinMoves DEF AskedFor
    <3>2. CASE d \in calls
      BY <2>4, <3>1, <3>2
    <3>3. ASSUME NEW c \in calls, PinRetired(c), d = [c EXCEPT !.tag = None] PROVE FALSE
      <4>1. c.own /\ c.repo = r
        BY <2>4, <3>3 DEF CallsOK, Call
      <4>2. first' = [first EXCEPT ![r].pin = None] /\ first[r] \in Row
        BY <3>3, <4>1, OwnRow DEF PinRetired
      <4>3. first'[r].pin = None
        BY <4>2 DEF RowsOK, Row
      <4> QED BY <2>4, <4>3
    <3>4. ASSUME NEW q \in Repos, NEW c \in calls, Remove(q), d = Takes(q, c)
          PROVE  d.tag = first'[r].pin
      BY <2>4, <3>1, <3>4, TakesNothing
    <3> QED BY <1>4, <2>4, <3>2, <3>3, <3>4, NewRefreshes DEF Anew
  <2> QED BY <2>2, <2>3, <2>4 DEF AskedFor
<1>5. ASSUME ~Reload, ~Remove(r), r \in overtaken, ~Has(r), NEW c \in calls, CatchesUp(c), c.repo = r
      PROVE  FALSE
  BY <1>5, OwnRow DEF CatchesUp, Refreshed, CallsOK, Sound, Refreshable
<1> QED BY <1>1, <1>2, <1>3, <1>4, <1>5, Overtakes

\* What a pinned row describes, now and on the next visit, is its pin, unless the pin was set past
\* an older question (updateAll(), selectVersion(), resolvePinned(), persist()).
THEOREM PinsHoldCorrect == Spec => []PinsHold
<1>1. Init => PinsInv
  <2> SUFFICES ASSUME Init, NEW r \in Repos
               PROVE  /\ Faithful(first[r]) /\ Faithful(disk.first[r]) /\ ~Has(r)
                      /\ Unpinned(first[r]) /\ Unpinned(disk.first[r])
    BY DEF PinsInv
  <2>1. first[r] = NoRow /\ disk.first[r] = NoRow
    BY DEF Init
  <2> QED BY <2>1 DEF Faithful, Unpinned, Has
<1>2. TypeInv /\ ImportsInv /\ PinsInv /\ [Next]_vars => PinsInv'
  BY PinsStep
<1>3. PinsInv => PinsHold
  BY DEF PinsInv, PinsHold, Faithful
<1> QED BY <1>1, <1>2, <1>3, TypeAlways, ImportsAlways, PTL DEF Spec

=============================================================================
