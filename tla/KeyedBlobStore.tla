--------------------------- MODULE KeyedBlobStore ---------------------------
(***************************************************************************)
(* A store keyed by names on top of the content-addressed blob cache, and   *)
(* the drain that empties the IndexedDB store it replaces                   *)
(* (apps/web/src/lib/sources/keyedBlobStore.ts).                            *)
(*                                                                         *)
(* Bytes are their hash: `cache` is the set of contents OPFS holds, `index` *)
(* the pointers in localStorage.  Every `await` is a step boundary.  The    *)
(* MIME type travels with the bytes and is left out; a browser without OPFS *)
(* or without IndexedDB, where the store is a plain pass-through, as well,  *)
(* and clear(), which nothing calls.                                        *)
(***************************************************************************)
EXTENDS Integers, FiniteSets

CONSTANTS
  Keys,          \* cover URLs, or repositories of imported bundles
  Contents,      \* what a key may hold, one value per hash
  Oversized,     \* contents that OPFS always refuses
  Callers,       \* calls of get, put and delete in flight, of any tab
  Drains,        \* the background passes, of any tab
  BUDGET,        \* entries that one pass may move
  Calls,         \* which of "get", "put", "delete" the callers make
  Puts,          \* bound: what they put
  Faults,        \* which of the faults that StoreAssumption lists may happen
  MAX_FAULTS,    \* bound: how many of them
  None

ASSUME StoreAssumption ==
  /\ BUDGET \in Nat \ {0}
  /\ MAX_FAULTS \in Nat
  /\ Oversized \subseteq Contents
  /\ Callers \cap Drains = {}
  /\ Calls \subseteq {"get", "put", "delete"}
  /\ Puts \subseteq Contents
  /\ Faults \subseteq
       {"refuse",   \* OPFS refuses a write
        "swallow",  \* a write reports success and keeps nothing
        "evict",    \* the browser, or the cache pane, drops a blob
        "pointer",  \* localStorage is full
        "keep",     \* IndexedDB does not delete
        "unread",   \* IndexedDB does not read: no keys, no entry
        "cut"}      \* the tab closes during a call
  /\ None \notin Keys \cup Contents

VARIABLES
  index, cache, legacy,   \* key -> hash, the blobs in OPFS, the IndexedDB store
  drained,                \* the "this store has been fully drained" marker
  call,                   \* the calls in flight
  faults,                 \* counted against MAX_FAULTS
  latest,                 \* history: what the last put or delete to finish left for a key
  excused,                \* history: keys for which the code promises nothing any more
  stranded                \* history: keys that the marker left behind in the old store

stores == <<index, cache, legacy>>
vars == <<stores, drained, call, faults, latest, excused, stranded>>

Workers == Callers \cup Drains
Stages == {"idle", "next", "cache", "legacy", "write", "verify", "point", "drop", "forget",
           "unlink", "fallback"}
CallType == [op : Calls \cup {"idle", "drain"}, at : Stages, key : Keys \cup {None},
             bytes : Contents \cup {None}, todo : SUBSET Keys, moved : 0 .. BUDGET,
             failed : BOOLEAN]
Idle == [op |-> "idle", at |-> "idle", key |-> None, bytes |-> None, todo |-> {},
         moved |-> 0, failed |-> FALSE]

Init ==
  /\ legacy \in [Keys -> Contents \cup {None}]
  /\ index = [k \in Keys |-> None]
  /\ cache = {}
  /\ drained = FALSE
  /\ call = [w \in Workers |-> Idle]
  /\ faults = 0
  /\ latest = legacy
  /\ excused = {}
  /\ stranded = {}

-----------------------------------------------------------------------------
(* Helpers                                                                  *)

Fault(f) == f \in Faults /\ faults < MAX_FAULTS /\ faults' = faults + 1
Sound == UNCHANGED faults

At(w, stage) == call[w].at = stage
Goto(w, stage) == call' = [call EXCEPT ![w].at = stage]
Carry(w, stage, c) == call' = [call EXCEPT ![w].at = stage, ![w].bytes = c]
On(k) == {w \in Workers : call[w].key = k}
Writers(k) == {w \in On(k) : call[w].op \in {"put", "delete"}}
Held == {k \in Keys : legacy[k] # None}

\* promote() has read the bytes back: it will set the pointer and delete the old copy.
Trusts(w, c) == call[w].bytes = c /\ call[w].op \in {"get", "drain"} /\ call[w].at \in {"point", "unlink"}

\* What get() answers for k: the bytes behind its pointer, else those of the old store.
Served(k) == IF index[k] \in cache THEN index[k] ELSE legacy[k]

\* The keys that lose their bytes with blob c, but for the one whose pointer is on its way out.
Losers(c, spared) ==
  {k \in Keys \ spared : index[k] = c \/ \E w \in On(k) : Trusts(w, c)}

\* backend.remove(c): every key that points at c loses it.
Remove(c, spared) ==
  /\ cache' = cache \ {c}
  /\ excused' = excused \cup (IF c \in cache THEN Losers(c, spared) ELSE {})

\* A call for k overlaps with another one, and one of the two writes.
Overlap(k, writes) ==
  excused' = IF Writers(k) # {} \/ (writes /\ On(k) # {}) THEN excused \cup {k} ELSE excused

\* MUTANT of Return: entries that failed use up the budget as well.
ReturnCounted(w, stuck) ==
  LET r == call[w] IN
  call' = [call EXCEPT ![w] =
    IF r.op = "drain"
    THEN [r EXCEPT !.at = "next", !.key = None, !.bytes = None,
                   !.moved = r.moved + 1, !.failed = r.failed \/ ~stuck]
    ELSE Idle]

\* The end of an entry: a caller returns, a pass counts it and goes on.
Return(w, stuck) ==
  LET r == call[w] IN
  call' = [call EXCEPT ![w] =
    IF r.op = "drain"
    THEN [r EXCEPT !.at = "next", !.key = None, !.bytes = None,
                   !.moved = IF stuck THEN r.moved + 1 ELSE r.moved, !.failed = r.failed \/ ~stuck]
    ELSE Idle]

-----------------------------------------------------------------------------
(* Calls                                                                    *)

Start(w, op, k, stage, c) ==
  /\ At(w, "idle")
  /\ op \in Calls
  /\ call' = [call EXCEPT ![w] = [Idle EXCEPT !.op = op, !.at = stage, !.key = k, !.bytes = c]]
  /\ Overlap(k, op # "get")

Get(w, k) ==
  /\ Start(w, "get", k, IF index[k] = None THEN "legacy" ELSE "cache", index[k])
  /\ UNCHANGED <<stores, drained, faults, latest, stranded>>

Put(w, k, c) ==
  /\ Start(w, "put", k, "write", c)
  /\ UNCHANGED <<stores, drained, faults, latest, stranded>>

Delete(w, k) ==
  /\ Start(w, "delete", k, IF index[k] = None THEN "unlink" ELSE "drop", index[k])
  /\ latest' = IF index[k] = None THEN [latest EXCEPT ![k] = None] ELSE latest
  /\ UNCHANGED <<stores, drained, faults, stranded>>

\* legacy.keys(): every key held, none when the store does not answer.
Listed(keys) == (Sound /\ keys = Held) \/ (Fault("unread") /\ keys = {})

\* migrate(): the old store is the work queue.
Visit(w) ==
  /\ At(w, "idle")
  /\ ~drained
  /\ \E keys \in SUBSET Keys :
       /\ Listed(keys)
       /\ call' = [call EXCEPT ![w] = [Idle EXCEPT !.op = "drain", !.at = "next", !.todo = keys]]
  /\ UNCHANGED <<stores, drained, latest, excused, stranded>>

NextEntry(w) ==
  /\ At(w, "next")
  /\ call[w].moved < BUDGET
  /\ \E k \in call[w].todo :
       /\ call' = [call EXCEPT ![w].at = "legacy", ![w].key = k, ![w].todo = @ \ {k}]
       /\ Overlap(k, FALSE)
  /\ UNCHANGED <<stores, drained, faults, latest, stranded>>

\* `remaining`, read again: none left, or an answer that does not come, and no entry that
\* failed, mark the store as drained for good.
EndVisit(w) ==
  /\ At(w, "next")
  /\ call[w].todo = {} \/ call[w].moved >= BUDGET
  /\ \E keys \in SUBSET Keys :
       LET done == keys = {} /\ ~call[w].failed IN
       /\ Listed(keys)
       /\ drained' = (drained \/ done)
       /\ stranded' = IF done THEN stranded \cup Held ELSE stranded
  /\ call' = [call EXCEPT ![w] = Idle]
  /\ UNCHANGED <<stores, latest, excused>>

-----------------------------------------------------------------------------
(* Reading                                                                  *)

ReadCache(w) ==
  /\ At(w, "cache")
  /\ IF call[w].bytes \in cache THEN Return(w, TRUE) ELSE Carry(w, "legacy", None)
  /\ UNCHANGED <<stores, drained, faults, latest, excused, stranded>>

\* An entry that is gone since keys(), or that the store does not read, is not a failure.
ReadLegacy(w) ==
  LET r == call[w]  old == legacy[r.key] IN
  /\ At(w, "legacy")
  /\ \/ old # None /\ Sound /\ Carry(w, "write", old)
     \/ /\ (old = None /\ Sound) \/ Fault("unread")
        /\ call' = [call EXCEPT ![w] =
             IF r.op = "drain" THEN [r EXCEPT !.at = "next", !.key = None] ELSE Idle]
  /\ UNCHANGED <<stores, drained, latest, excused, stranded>>

-----------------------------------------------------------------------------
(* Writing: the blob, its read-back, the pointer, and only then the old copy *)

Write(w) ==
  LET c == call[w].bytes IN
  /\ At(w, "write")
  /\ c \notin Oversized
  /\ \/ Sound /\ cache' = cache \cup {c}
     \/ Fault("swallow") /\ UNCHANGED cache
  /\ Goto(w, IF call[w].op = "put" THEN "point" ELSE "verify")
  /\ UNCHANGED <<index, legacy, drained, latest, excused, stranded>>

\* The backend removes what it could not write, a copy it held before included.
Refuse(w) ==
  LET c == call[w].bytes IN
  /\ At(w, "write")
  /\ (c \in Oversized /\ Sound) \/ Fault("refuse")
  /\ Remove(c, {})
  /\ IF call[w].op = "put" THEN Goto(w, "fallback") ELSE Return(w, FALSE)
  /\ UNCHANGED <<index, legacy, drained, latest, stranded>>

\* MUTANT of Verify: a write that reports success is believed.
VerifyNothing(w) ==
  /\ At(w, "verify")
  /\ Goto(w, "point")
  /\ UNCHANGED <<stores, drained, faults, latest, excused, stranded>>

\* The read-back through BlobCache.get(), which hashes again.
Verify(w) ==
  /\ At(w, "verify")
  /\ IF call[w].bytes \in cache THEN Goto(w, "point") ELSE Return(w, FALSE)
  /\ UNCHANGED <<stores, drained, faults, latest, excused, stranded>>

SetPointer(w) ==
  LET k == call[w].key  c == call[w].bytes IN
  \/ Sound /\ index' = [index EXCEPT ![k] = c]
  \/ Fault("pointer") /\ UNCHANGED index

Point(w) ==
  /\ At(w, "point")
  /\ call[w].op # "put"
  /\ SetPointer(w)
  /\ Goto(w, "unlink")
  /\ UNCHANGED <<cache, legacy, drained, latest, excused, stranded>>

\* MUTANT of PutPoint: the pointer is read after it was set, so that nothing is dropped.
PutPointFirst(w) ==
  LET k == call[w].key  c == call[w].bytes IN
  /\ At(w, "point")
  /\ call[w].op = "put"
  /\ SetPointer(w)
  /\ IF index'[k] \in {None, c} THEN Goto(w, "unlink") ELSE Carry(w, "drop", index'[k])
  /\ latest' = [latest EXCEPT ![k] = c]
  /\ excused' = IF c \in cache THEN excused ELSE excused \cup {k}
  /\ UNCHANGED <<cache, legacy, drained, stranded>>

\* put() does not read back: a blob that is not there is noticed by nobody.
PutPoint(w) ==
  LET k == call[w].key  c == call[w].bytes  prev == index[k] IN
  /\ At(w, "point")
  /\ call[w].op = "put"
  /\ SetPointer(w)
  /\ IF prev \in {None, c} THEN Goto(w, "unlink") ELSE Carry(w, "drop", prev)
  /\ latest' = [latest EXCEPT ![k] = c]
  /\ excused' = IF c \in cache THEN excused ELSE excused \cup {k}
  /\ UNCHANGED <<cache, legacy, drained, stranded>>

\* cache.delete(hash): whichever other key has these bytes loses them too.
Drop(w) ==
  /\ At(w, "drop")
  /\ Remove(call[w].bytes, {call[w].key})
  /\ Goto(w, IF call[w].op = "put" THEN "unlink" ELSE "forget")
  /\ UNCHANGED <<index, legacy, drained, faults, latest, stranded>>

Forget(w) ==
  LET k == call[w].key IN
  /\ At(w, "forget")
  /\ index' = [index EXCEPT ![k] = None]
  /\ latest' = [latest EXCEPT ![k] = None]
  /\ Goto(w, "unlink")
  /\ UNCHANGED <<cache, legacy, drained, faults, excused, stranded>>

\* MUTANT of Unlink: a put leaves the old copy where it is, and a later pass promotes it.
UnlinkPromoted(w) ==
  LET k == call[w].key IN
  /\ At(w, "unlink")
  /\ Sound
  /\ legacy' = IF call[w].op = "put" THEN legacy ELSE [legacy EXCEPT ![k] = None]
  /\ Return(w, TRUE)
  /\ UNCHANGED <<index, cache, drained, latest, excused, stranded>>

\* legacy.delete(key); a store that fails says nothing.
Unlink(w) ==
  LET k == call[w].key IN
  /\ At(w, "unlink")
  /\ \/ Sound /\ legacy' = [legacy EXCEPT ![k] = None] /\ UNCHANGED excused
     \/ /\ Fault("keep")
        /\ UNCHANGED legacy
        /\ excused' = IF w \in Writers(k) THEN excused \cup {k} ELSE excused
  /\ Return(w, TRUE)
  /\ UNCHANGED <<index, cache, drained, latest, stranded>>

\* put() in the old store, which the pointer of an earlier put hides.  Once it is marked as
\* drained no pass comes for the entry any more.
Fallback(w) ==
  LET k == call[w].key  c == call[w].bytes IN
  /\ At(w, "fallback")
  /\ \/ /\ Sound
        /\ legacy' = [legacy EXCEPT ![k] = c]
        /\ latest' = [latest EXCEPT ![k] = c]
        /\ excused' = IF index[k] = None THEN excused ELSE excused \cup {k}
        /\ stranded' = IF drained THEN stranded \cup {k} ELSE stranded
     \/ Fault("refuse") /\ UNCHANGED <<legacy, latest, excused, stranded>>
  /\ call' = [call EXCEPT ![w] = Idle]
  /\ UNCHANGED <<index, cache, drained>>

-----------------------------------------------------------------------------
(* The browser                                                              *)

Evict ==
  /\ Fault("evict")
  /\ \E c \in cache : Remove(c, {})
  /\ UNCHANGED <<index, legacy, drained, call, latest, stranded>>

\* The tab closes.  A write of its own key that never returned promises nothing.
Cut(w) ==
  LET k == call[w].key IN
  /\ ~At(w, "idle")
  /\ Fault("cut")
  /\ call' = [call EXCEPT ![w] = Idle]
  /\ excused' = IF w \in Writers(k) THEN excused \cup {k} ELSE excused
  /\ UNCHANGED <<stores, drained, latest, stranded>>

Step(w) ==
  \/ ReadCache(w) \/ ReadLegacy(w)
  \/ Write(w) \/ Refuse(w) \/ Verify(w) \/ Point(w) \/ PutPoint(w)
  \/ Drop(w) \/ Forget(w) \/ Unlink(w) \/ Fallback(w)
  \/ NextEntry(w) \/ EndVisit(w)

Next ==
  \/ \E w \in Callers, k \in Keys : Get(w, k) \/ Delete(w, k) \/ \E c \in Puts : Put(w, k, c)
  \/ \E w \in Drains : Visit(w)
  \/ \E w \in Workers : Step(w) \/ Cut(w)
  \/ Evict

Spec == Init /\ [][Next]_vars

\* Continuations run, and the user keeps coming back until the store is drained.
FairSpec ==
  /\ Spec
  /\ \A w \in Workers : WF_vars(Step(w))
  /\ \A w \in Drains : WF_vars(Visit(w))

-----------------------------------------------------------------------------
(* Properties                                                               *)

TypeOK ==
  /\ index \in [Keys -> Contents \cup {None}]
  /\ cache \subseteq Contents
  /\ legacy \in [Keys -> Contents \cup {None}]
  /\ drained \in BOOLEAN
  /\ call \in [Workers -> CallType]
  /\ faults \in 0 .. MAX_FAULTS
  /\ latest \in [Keys -> Contents \cup {None}]
  /\ excused \subseteq Keys
  /\ stranded \subseteq Keys

\* At every instant, a key nobody is writing is served what its last put or delete left, or what
\* the old store held from the start: "At no instant is the entry in neither place"
\* (keyedBlobStore.ts:26), whatever part of a drain is refused, swallowed or cut.
Serves == \A k \in Keys \ excused : Writers(k) = {} => Served(k) = latest[k]

\* What a get() answers, and what a promotion writes under the key, was read several awaits
\* before: through what other calls and passes of any tab do meanwhile it is still what the
\* last put or delete left.  Of a key that is written at the same time nothing is said.
NothingStale ==
  \A w \in Workers :
    /\ call[w].op \in {"get", "drain"} /\ call[w].at \notin {"next", "legacy"}
    /\ call[w].key \notin excused
    => call[w].bytes = latest[call[w].key]

\* put() drops the bytes it replaces and promote() none it needs: unless a fault or an overlap
\* came in between, a key or a call leads to every blob ("leaving them would cost the user quota
\* forever", keyedBlobStore.ts:262).
NothingUnreachable ==
  faults = 0 /\ excused = {} =>
    \A c \in cache : \/ \E k \in Keys : c \in {index[k], legacy[k]}
                    \/ \E w \in Workers : call[w].bytes = c

\* What the drain is obliged to move.
Movable(k) == legacy[k] \in Contents \ Oversized

\* Once nobody writes any more, whatever OPFS can take leaves the old store: entries that always
\* fail, one that could not be read, or a pass cut short never starve the others (migrate():
\* budget, skip, resume), and the marker does not come before they are through.  Left behind is
\* what a refused put() brings back when the store is marked, and what is there when the marker
\* is set on a listing that failed: "Empty on any failure -- which correctly reads as 'nothing
\* left to move'" (keyedBlobStore.ts:128).
Drained ==
  <>[](\A k \in Keys : Writers(k) = {}) =>
    \A k \in Keys : Movable(k) ~> ~Movable(k) \/ k \in stranded

=============================================================================
