------------------------------- MODULE Memory -------------------------------
(***************************************************************************)
(* The feedback memory of one contract type, clause type, risk type and    *)
(* review position: feedback episodes with their idempotency markers, and  *)
(* the preference that is derived from them, kept in a store whose every   *)
(* operation commits on its own (langgraph_memory_store.py).  The API      *)
(* saves feedback, the worker reads the preference, indexes it and notes   *)
(* its use, and each of the two copies the legacy tables when it starts.   *)
(***************************************************************************)
EXTENDS Integers

CONSTANTS
    Writers,    \* API threads
    Keys,       \* idempotency keys: one per feedback a human may send, again or not
    LegacyKeys, \* those that are in the legacy tables
    Suggestion, \* per key the suggestion it supports, or "ignore"
    StaleAfter, \* stale_after_days
    MaxDay,     \* the last day of a behaviour
    MaxReads,
    MaxFaults   \* failed store operations and crashes

Ignore == "ignore"

ASSUME MemoryAssumption ==
    /\ LegacyKeys \subseteq Keys
    /\ {StaleAfter, MaxDay, MaxReads, MaxFaults} \subseteq Nat

Migrators == {"api", "worker"}

VARIABLES
    (* The store. *)
    episodes,  \* per key: the day it was given
    markers,   \* per key: the copy of its episode
    pref,      \* the preference, or NoPref
    migrated,  \* the migration marker
    (* The processes. *)
    writer,    \* a save: where it is, its key, its episode, what it has read
    reader,    \* a retrieval: where it is, its day, what it has read and answers
    migrator,  \* the start of each process
    (* The world, and observation. *)
    today,
    answered,  \* the keys whose feedback was acknowledged
    failed,    \* those whose last save failed
    overlap,   \* two operations have overlapped
    reads,
    faults

vars == <<episodes, markers, pref, migrated, writer, reader, migrator, today, answered, failed,
          overlap, reads, faults>>
store == <<episodes, markers, pref, migrated>>
noted == <<answered, failed>>
bounds == <<reads, faults>>

\* The rows of a namespace: per key a day.
NoRows == [k \in {} |-> 0]
Put(rows, key, day) == [k \in DOMAIN rows \cup {key} |-> IF k = key THEN day ELSE rows[k]]

\* A preference: the episodes it is made of, the day it was last used (0:
\* never), whether its vector is of its present text.
NoPref == [of |-> NoRows, used |-> 0, indexed |-> FALSE]
NoRead == [pc |-> "idle", day |-> 0, seen |-> NoPref, suggests |-> {}, known |-> {}, apart |-> FALSE, relevant |-> FALSE]
Idle == [pc |-> "idle", key |-> "none", day |-> 0, found |-> NoRows, used |-> 0]

Legacy == [k \in LegacyKeys |-> 1]

Init ==
    /\ episodes = NoRows
    /\ markers = NoRows
    /\ pref = NoPref
    /\ migrated = FALSE
    /\ writer = [w \in Writers |-> Idle]
    /\ reader = NoRead
    /\ migrator = [m \in Migrators |-> "down"]
    /\ today = 2
    /\ answered = {}
    /\ failed = {}
    /\ overlap = FALSE
    /\ reads = 0
    /\ faults = 0

Fault == faults < MaxFaults /\ faults' = faults + 1

Busy == \/ \E w \in Writers : writer[w].pc # "idle"
        \/ reader.pc # "idle"
        \/ \E m \in Migrators : migrator[m] \notin {"down", "up"}

Begins == overlap' = (overlap \/ Busy)

NextDay ==
    /\ today < MaxDay
    /\ today' = today + 1
    /\ UNCHANGED <<store, writer, reader, migrator, noted, overlap, bounds>>

-----------------------------------------------------------------------------
(* write_memory and LangGraphPostgresMemoryStore.save.                     *)

Step(w, r) == writer' = [writer EXCEPT ![w] = r]
Goes(w, pc) == writer' = [writer EXCEPT ![w].pc = pc]

\* The key stands for the content of the feedback; its day is that of the
\* request.  The memory id is derived from the key.
SaveBegin(w, k) ==
    /\ writer[w].pc = "idle" /\ migrator["api"] = "up"
    /\ Step(w, [Idle EXCEPT !.pc = "marker", !.key = k, !.day = today])
    /\ Begins
    /\ UNCHANGED <<store, reader, migrator, today, noted, bounds>>

\* Mutant: a key that is known needs no more work.
AfterMarkerReturns(k) == "return"

\* A repeated feedback: the preference is built again, for the first save may
\* have died before it did.  The episode of a marker is there, as nothing takes
\* one away (NothingForgotten), so the code never has to put it back.
AfterMarker(k) == "search"

SaveMarker(w) ==
    /\ writer[w].pc = "marker"
    /\ Goes(w, IF writer[w].key \in DOMAIN markers THEN AfterMarker(writer[w].key) ELSE "existing")
    /\ UNCHANGED <<store, reader, migrator, today, noted, overlap, bounds>>

\* The first save may have died before its marker.
SaveExisting(w) ==
    /\ writer[w].pc = "existing"
    /\ LET k == writer[w].key
       IN  IF k \in DOMAIN episodes
           THEN Step(w, [writer[w] EXCEPT !.pc = "mark", !.day = episodes[k]])
           ELSE Goes(w, "put")
    /\ UNCHANGED <<store, reader, migrator, today, noted, overlap, bounds>>

SavePut(w) ==
    /\ writer[w].pc = "put"
    /\ episodes' = Put(episodes, writer[w].key, writer[w].day)
    /\ Goes(w, "mark")
    /\ UNCHANGED <<markers, pref, migrated, reader, migrator, today, noted, overlap, bounds>>

SaveMark(w) ==
    /\ writer[w].pc = "mark"
    /\ markers' = Put(markers, writer[w].key, writer[w].day)
    /\ Goes(w, "search")
    /\ UNCHANGED <<episodes, pref, migrated, reader, migrator, today, noted, overlap, bounds>>

\* _rebuild_preference: all the episodes of the group,
RebuildSearch(w) ==
    /\ writer[w].pc = "search"
    /\ Step(w, [writer[w] EXCEPT !.pc = "used", !.found = episodes])
    /\ UNCHANGED <<store, reader, migrator, today, noted, overlap, bounds>>

\* the last use of the preference there is,
RebuildUsed(w) ==
    /\ writer[w].pc = "used"
    /\ Step(w, [writer[w] EXCEPT !.pc = "build", !.used = pref.used])
    /\ UNCHANGED <<store, reader, migrator, today, noted, overlap, bounds>>

Rebuilt(w) == [of |-> writer[w].found, used |-> writer[w].used, indexed |-> FALSE]

\* and a preference without a vector in its place.
RebuildPut(w) ==
    /\ writer[w].pc = "build"
    /\ pref' = Rebuilt(w)
    /\ Goes(w, "return")
    /\ UNCHANGED <<episodes, markers, migrated, reader, migrator, today, noted, overlap, bounds>>

SaveReturn(w) ==
    /\ writer[w].pc = "return"
    /\ answered' = answered \cup {writer[w].key}
    /\ failed' = failed \ {writer[w].key}
    /\ Step(w, Idle)
    /\ UNCHANGED <<store, reader, migrator, today, overlap, bounds>>

\* A store operation fails or the API dies.
SaveFails(w) ==
    /\ writer[w].pc # "idle"
    /\ failed' = failed \cup {writer[w].key}
    /\ Step(w, Idle)
    /\ Fault
    /\ UNCHANGED <<store, reader, migrator, today, answered, overlap, reads>>

Save(w) == \/ SaveMarker(w) \/ SaveExisting(w) \/ SavePut(w) \/ SaveMark(w)
           \/ RebuildSearch(w) \/ RebuildUsed(w) \/ RebuildPut(w) \/ SaveReturn(w) \/ SaveFails(w)

-----------------------------------------------------------------------------
(* retrieve_memory                                                         *)

Stances(p) == {Suggestion[k] : k \in DOMAIN p.of}
LatestFeedback(p) == CHOOSE d \in {p.of[k] : k \in DOMAIN p.of} : \A k \in DOMAIN p.of : p.of[k] <= d
LastActivity(p) == IF p.used > LatestFeedback(p) THEN p.used ELSE LatestFeedback(p)
Expired(p, day) == day - LastActivity(p) > StaleAfter

\* Mutant: the strongest stance is taken for the preference.
SuggestsOfAny(p, day) == IF Expired(p, day) THEN {} ELSE Stances(p) \ {Ignore}

\* _preference_payload: the suggestion of an aligned preference that lives.
Suggests(p, day) ==
    {s \in Stances(p) \ {Ignore} : Stances(p) = {s} /\ ~Expired(p, day)}

\* _ensure_preference_indexes: a preference whose vector is of another text is
\* put once more as it was read, with its vector.
ReadBegin ==
    /\ reader.pc = "idle" /\ migrator["worker"] = "up"
    /\ reads < MaxReads /\ reads' = reads + 1
    /\ pref # NoPref
    /\ \E relevant \in BOOLEAN :
        reader' = [NoRead EXCEPT !.pc = IF pref.indexed THEN "rank" ELSE "index", !.day = today,
                                 !.seen = pref, !.known = answered, !.apart = ~overlap /\ ~Busy,
                                 !.relevant = relevant]
    /\ Begins
    /\ UNCHANGED <<store, writer, migrator, today, noted, faults>>

ReadIndex ==
    /\ reader.pc = "index"
    /\ pref' = [reader.seen EXCEPT !.indexed = TRUE]
    /\ reader' = [reader EXCEPT !.pc = "rank"]
    /\ UNCHANGED <<episodes, markers, migrated, writer, migrator, today, noted, overlap, bounds>>

\* find_ranked_preferences and the payload of what is found; one that is
\* neither of the clause's and the risk's type nor near it suggests nothing.
ReadRank ==
    /\ reader.pc = "rank"
    /\ reader' = [reader EXCEPT !.pc = "touch", !.seen = pref,
                                !.suggests = IF reader.relevant THEN Suggests(pref, reader.day) ELSE {}]
    /\ UNCHANGED <<store, writer, migrator, today, noted, overlap, bounds>>

\* update_preference_lifecycle reads the preference again ...
ReadTouch ==
    /\ reader.pc = "touch"
    /\ reader' = [reader EXCEPT !.pc = IF Expired(reader.seen, reader.day) THEN "expire" ELSE "use", !.seen = pref]
    /\ UNCHANGED <<store, writer, migrator, today, noted, overlap, bounds>>

\* ... and writes it, with the day of its use unless it has expired.
ReadPut ==
    /\ reader.pc \in {"use", "expire"}
    /\ pref' = IF reader.pc = "use" THEN [reader.seen EXCEPT !.used = reader.day] ELSE reader.seen
    /\ reader' = [reader EXCEPT !.pc = "answer", !.seen = NoPref]
    /\ UNCHANGED <<episodes, markers, migrated, writer, migrator, today, noted, overlap, bounds>>

ReadReturn ==
    /\ reader.pc = "answer"
    /\ reader' = NoRead
    /\ UNCHANGED <<store, writer, migrator, today, noted, overlap, bounds>>

\* The tool fails, or the worker dies.
ReadFails ==
    /\ reader.pc # "idle"
    /\ reader' = NoRead
    /\ Fault
    /\ UNCHANGED <<store, writer, migrator, today, noted, overlap, reads>>

Read == ReadIndex \/ ReadRank \/ ReadTouch \/ ReadPut \/ ReadReturn \/ ReadFails

-----------------------------------------------------------------------------
(* migrate_legacy_app_memory, when a process starts.                       *)

To(m, pc) == migrator' = [migrator EXCEPT ![m] = pc]

MigrateBegin(m) ==
    /\ migrator[m] = "down"
    /\ IF migrated THEN To(m, "up") /\ UNCHANGED overlap ELSE To(m, "rows") /\ Begins
    /\ UNCHANGED <<store, writer, reader, today, noted, bounds>>

\* Rows that are missing are put, each with its marker.  Only feedback that is
\* sent again has the key of one, and finds it.
MigrateRow(m) ==
    /\ migrator[m] = "rows"
    /\ \E k \in LegacyKeys \ (DOMAIN episodes \cap DOMAIN markers) :
        \/ k \notin DOMAIN episodes /\ episodes' = Put(episodes, k, Legacy[k]) /\ UNCHANGED markers
        \/ k \in DOMAIN episodes /\ markers' = Put(markers, k, Legacy[k]) /\ UNCHANGED episodes
    /\ UNCHANGED <<pref, migrated, writer, reader, migrator, today, noted, overlap, bounds>>

\* Mutant: the next phase begins before the rows are there.
RowsCopiedAtOnce == TRUE

RowsCopied == LegacyKeys \subseteq DOMAIN episodes \cap DOMAIN markers

\* A preference is put where there is none, on the word of an earlier look.
MigrateLook(m) ==
    /\ migrator[m] = "rows" /\ RowsCopied
    /\ To(m, IF pref = NoPref /\ LegacyKeys # {} THEN "put" ELSE "mark")
    /\ UNCHANGED <<store, writer, reader, today, noted, overlap, bounds>>

MigratePut(m) ==
    /\ migrator[m] = "put"
    /\ pref' = [of |-> Legacy, used |-> 0, indexed |-> FALSE]
    /\ To(m, "mark")
    /\ UNCHANGED <<episodes, markers, migrated, writer, reader, today, noted, overlap, bounds>>

\* The migration marker is the last to be written.
MigrateMark(m) ==
    /\ migrator[m] = "mark"
    /\ migrated' = TRUE
    /\ To(m, "up")
    /\ UNCHANGED <<episodes, markers, pref, writer, reader, today, noted, overlap, bounds>>

\* The start fails; the process is started again.
MigrateFails(m) ==
    /\ migrator[m] \notin {"down", "up"}
    /\ To(m, "down")
    /\ Fault
    /\ UNCHANGED <<store, writer, reader, today, noted, overlap, reads>>

Migrate(m) == \/ MigrateBegin(m) \/ MigrateRow(m) \/ MigrateLook(m) \/ MigratePut(m) \/ MigrateMark(m)
              \/ MigrateFails(m)

Next == \/ NextDay \/ ReadBegin \/ Read
        \/ \E w \in Writers : Save(w) \/ \E k \in Keys : SaveBegin(w, k)
        \/ \E m \in Migrators : Migrate(m)

Spec == Init /\ [][Next]_vars

-----------------------------------------------------------------------------
(* Properties.                                                             *)

Quiet == ~Busy

\* The preference speaks of every feedback on record, those before a crash and
\* the migrated ones included, whenever no two operations have overlapped and
\* none has been left half done: a save that failed is made good by sending it
\* again.
PreferenceCurrent ==
    Quiet /\ ~overlap /\ failed = {} /\ (migrated \/ DOMAIN episodes = {}) => pref.of = episodes

\* DEVELOPMENT_DECISIONS.md:285: once the migration is marked, every legacy
\* feedback is on record with its key, however often a start was cut short;
\* no acknowledged feedback is lost or has lost its key, and no key is marked
\* whose feedback is not there.
NothingForgotten ==
    /\ DOMAIN markers \subseteq DOMAIN episodes
    /\ migrated => LegacyKeys \subseteq DOMAIN episodes \cap DOMAIN markers
    /\ answered \subseteq DOMAIN episodes \cap DOMAIN markers

\* A suggestion is only made when all the feedback that was acknowledged before
\* the retrieval supports that one suggestion, whatever is saved beside it, if
\* nothing had overlapped by then.
SuggestionJustified ==
    reader.pc # "idle" /\ reader.suggests # {} /\ reader.apart =>
        \A k \in reader.known : reader.suggests = {Suggestion[k]}

=============================================================================
