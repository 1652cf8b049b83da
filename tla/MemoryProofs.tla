---------------------------- MODULE MemoryProofs ----------------------------
(***************************************************************************)
(* Machine-checked proofs about Memory, for every set of savers and keys,  *)
(* any legacy tables and any number of days, retrievals and faults.        *)
(***************************************************************************)
EXTENDS Memory, TLAPS

-----------------------------------------------------------------------------
(* Types.                                                                  *)

Rows == UNION {[K -> Nat] : K \in SUBSET Keys}
Preferences == [of : Rows, used : Nat, indexed : BOOLEAN]

SavePlaces == {"idle", "marker", "existing", "put", "mark", "search", "used", "build", "return"}
ReadPlaces == {"idle", "index", "rank", "touch", "use", "expire", "answer"}

WriterStates == [pc : SavePlaces, key : Keys \cup {"none"}, day : Nat, found : Rows, used : Nat]

ReaderStates == [pc : ReadPlaces, day : Nat, seen : Preferences,
                 suggests : SUBSET {Suggestion[k] : k \in Keys}, known : SUBSET Keys,
                 apart : BOOLEAN, relevant : BOOLEAN]

TypeOK ==
    /\ episodes \in Rows
    /\ markers \in Rows
    /\ pref \in Preferences
    /\ migrated \in BOOLEAN
    /\ writer \in [Writers -> WriterStates]
    /\ \A w \in Writers : writer[w].pc # "idle" => writer[w].key \in Keys
    /\ reader \in ReaderStates
    /\ migrator \in [Migrators -> {"down", "rows", "put", "mark", "up"}]
    /\ today \in Nat
    /\ answered \subseteq Keys
    /\ failed \subseteq Keys
    /\ overlap \in BOOLEAN
    /\ reads \in Nat
    /\ faults \in Nat

\* Putting a row keeps a namespace a namespace and forgets none of its keys.
LEMMA PutRows ==
    ASSUME NEW rows \in Rows, NEW key \in Keys, NEW day \in Nat
    PROVE  /\ Put(rows, key, day) \in Rows
           /\ DOMAIN Put(rows, key, day) = DOMAIN rows \cup {key}
<1>1. PICK K \in SUBSET Keys : rows \in [K -> Nat]
  BY DEF Rows
<1>2. /\ K \cup {key} \in SUBSET Keys
      /\ Put(rows, key, day) \in [K \cup {key} -> Nat]
  BY <1>1 DEF Put
<1>3. QED
  BY <1>1, <1>2 DEF Rows

\* A namespace is a function on its keys; a row of it is a day.
LEMMA RowsAreFunctions ==
    ASSUME NEW rows \in Rows
    PROVE  /\ rows = [k \in DOMAIN rows |-> rows[k]]
           /\ DOMAIN rows \subseteq Keys
           /\ \A k \in DOMAIN rows : rows[k] \in Nat
BY DEF Rows

\* The legacy tables and the empty ones are namespaces.
LEMMA LegacyRows ==
    /\ NoRows \in Rows /\ DOMAIN NoRows = {}
    /\ Legacy \in Rows /\ DOMAIN Legacy = LegacyKeys
    /\ \A k \in LegacyKeys : Legacy[k] = 1
    /\ NoPref \in Preferences /\ NoPref.of = NoRows
    /\ [of |-> Legacy, used |-> 0, indexed |-> FALSE] \in Preferences
<1>1. {} \in SUBSET Keys /\ NoRows \in [{} -> Nat]
  BY DEF NoRows
<1>2. LegacyKeys \in SUBSET Keys /\ Legacy \in [LegacyKeys -> Nat]
  BY MemoryAssumption DEF Legacy
<1>3. NoRows \in Rows /\ Legacy \in Rows
  BY <1>1, <1>2 DEF Rows
<1>4. QED
  BY <1>1, <1>2, <1>3 DEF Preferences, NoPref, Legacy

\* A suggestion is one of the suggestions of the feedback.
LEMMA SuggestsType ==
    ASSUME NEW p \in Preferences, NEW day
    PROVE  Suggests(p, day) \subseteq {Suggestion[k] : k \in Keys}
<1>1. DOMAIN p.of \subseteq Keys
  BY RowsAreFunctions DEF Preferences
<1>2. QED
  BY <1>1 DEF Suggests, Stances

\* The idle states are legal.
LEMMA IdleTypes ==
    /\ Idle \in WriterStates /\ Idle.pc = "idle"
    /\ NoRead \in ReaderStates /\ NoRead.pc = "idle"
    /\ NoRead.suggests = {} /\ ~NoRead.apart
BY LegacyRows DEF Idle, NoRead, WriterStates, ReaderStates, SavePlaces, ReadPlaces

\* An operation that begins may overlap with another.
LEMMA BeginsType ==
    ASSUME overlap \in BOOLEAN, Begins
    PROVE  overlap' \in BOOLEAN
BY DEF Begins, Busy

\* A save keeps the types.
LEMMA SaveType ==
    ASSUME TypeOK, NEW w \in Writers, Save(w) \/ \E k \in Keys : SaveBegin(w, k)
    PROVE  TypeOK'
<1> USE IdleTypes DEF TypeOK, store, noted, bounds, Step, Goes, SavePlaces
<1>0. writer[w] \in WriterStates
  OBVIOUS
<1>1. ASSUME NEW k \in Keys, SaveBegin(w, k) PROVE TypeOK'
  <2>1. [Idle EXCEPT !.pc = "marker", !.key = k, !.day = today] \in WriterStates
    BY DEF WriterStates
  <2>2. QED
    BY <1>1, <2>1, BeginsType DEF SaveBegin, Idle
<1>2. CASE SaveMarker(w)
  BY <1>0, <1>2 DEF SaveMarker, AfterMarker, WriterStates
<1>3. CASE SaveExisting(w)
  <2>1. writer[w].key \in DOMAIN episodes => episodes[writer[w].key] \in Nat
    BY RowsAreFunctions
  <2>2. \E pc \in SavePlaces, day \in Nat :
          writer' = [writer EXCEPT ![w] = [writer[w] EXCEPT !.pc = pc, !.day = day]]
    <3>1. CASE writer[w].key \in DOMAIN episodes
      BY <1>3, <2>1, <3>1 DEF SaveExisting
    <3>2. CASE writer[w].key \notin DOMAIN episodes
      <4>1. writer' = [writer EXCEPT ![w].pc = "put"]
        BY <1>3, <3>2 DEF SaveExisting
      <4>2. [writer[w] EXCEPT !.pc = "put"] = [writer[w] EXCEPT !.pc = "put", !.day = writer[w].day]
        BY <1>0 DEF WriterStates
      <4>3. QED
        BY <1>0, <4>1, <4>2 DEF WriterStates
    <3>3. QED
      BY <3>1, <3>2
  <2>3. PICK pc \in SavePlaces, day \in Nat :
          writer' = [writer EXCEPT ![w] = [writer[w] EXCEPT !.pc = pc, !.day = day]]
    BY <2>2
  <2>4. /\ [writer[w] EXCEPT !.pc = pc, !.day = day] \in WriterStates
        /\ [writer[w] EXCEPT !.pc = pc, !.day = day].key = writer[w].key
    BY <1>0 DEF WriterStates
  <2>5. writer[w].key \in Keys
    BY <1>3 DEF SaveExisting
  <2>6. UNCHANGED <<store, reader, migrator, today, noted, overlap, bounds>>
    BY <1>3 DEF SaveExisting
  <2>7. QED
    BY <2>3, <2>4, <2>5, <2>6
<1>4. CASE SavePut(w)
  BY <1>0, <1>4, PutRows DEF SavePut, WriterStates
<1>5. CASE SaveMark(w)
  BY <1>0, <1>5, PutRows DEF SaveMark, WriterStates
<1>6. CASE RebuildSearch(w)
  BY <1>0, <1>6 DEF RebuildSearch, WriterStates
<1>7. CASE RebuildUsed(w)
  BY <1>0, <1>7 DEF RebuildUsed, WriterStates, Preferences
<1>8. CASE RebuildPut(w)
  BY <1>0, <1>8 DEF RebuildPut, Rebuilt, WriterStates, Preferences
<1>9. CASE SaveReturn(w)
  BY <1>9 DEF SaveReturn, WriterStates
<1>10. CASE SaveFails(w)
  BY <1>10 DEF SaveFails, Fault, WriterStates
<1>11. QED
  BY <1>1, <1>2, <1>3, <1>4, <1>5, <1>6, <1>7, <1>8, <1>9, <1>10 DEF Save

\* So does a retrieval.
LEMMA ReadType ==
    ASSUME TypeOK, ReadBegin \/ Read
    PROVE  TypeOK'
<1> USE IdleTypes DEF TypeOK, store, noted, bounds, ReaderStates, ReadPlaces
<1>1. CASE ReadBegin
  <2>1. PICK relevant \in BOOLEAN :
          reader' = [NoRead EXCEPT !.pc = IF pref.indexed THEN "rank" ELSE "index", !.day = today,
                                   !.seen = pref, !.known = answered,
                                   !.apart = ~overlap /\ ~Busy, !.relevant = relevant]
    BY <1>1 DEF ReadBegin
  <2>2. (~overlap /\ ~Busy) \in BOOLEAN
    BY DEF Busy
  <2>3. reader' \in ReaderStates
    BY <2>1, <2>2 DEF ReaderStates
  <2>4. overlap' \in BOOLEAN
    BY <1>1, BeginsType DEF ReadBegin
  <2>5. reads' = reads + 1
    BY <1>1 DEF ReadBegin
  <2>6. UNCHANGED <<store, writer, migrator, today, noted, faults>>
    BY <1>1 DEF ReadBegin
  <2>7. QED
    BY <2>3, <2>4, <2>5, <2>6
<1>2. CASE ReadIndex
  BY <1>2 DEF ReadIndex, Preferences
<1>3. CASE ReadRank
  BY <1>3, SuggestsType DEF ReadRank
<1>4. CASE ReadTouch
  BY <1>4 DEF ReadTouch
<1>5. CASE ReadPut
  BY <1>5, LegacyRows DEF ReadPut, Preferences
<1>6. CASE ReadReturn \/ ReadFails
  <2>1. reader' \in ReaderStates
    BY <1>6 DEF ReadReturn, ReadFails
  <2>2. QED
    BY <1>6, <2>1 DEF ReadReturn, ReadFails, Fault
<1>7. QED
  BY <1>1, <1>2, <1>3, <1>4, <1>5, <1>6 DEF Read

\* And so does a migration.
LEMMA MigrateType ==
    ASSUME TypeOK, NEW m \in Migrators, Migrate(m)
    PROVE  TypeOK'
<1> USE DEF TypeOK, store, noted, bounds, To
<1>1. CASE MigrateBegin(m)
  BY <1>1, BeginsType DEF MigrateBegin
<1>2. CASE MigrateRow(m)
  <2>1. \A k \in LegacyKeys : k \in Keys /\ Legacy[k] \in Nat
    BY LegacyRows, MemoryAssumption
  <2>2. \A k \in LegacyKeys : /\ Put(episodes, k, Legacy[k]) \in Rows
                              /\ Put(markers, k, Legacy[k]) \in Rows
    BY <2>1, PutRows
  <2>3. episodes' \in Rows /\ markers' \in Rows
    BY <1>2, <2>2 DEF MigrateRow
  <2>4. UNCHANGED <<pref, migrated, writer, reader, migrator, today, noted, overlap, bounds>>
    BY <1>2 DEF MigrateRow
  <2>5. QED
    BY <2>3, <2>4
<1>3. CASE MigrateLook(m)
  BY <1>3 DEF MigrateLook
<1>4. CASE MigratePut(m)
  BY <1>4, LegacyRows DEF MigratePut
<1>5. CASE MigrateMark(m)
  <2>1. migrated' \in BOOLEAN
    BY <1>5 DEF MigrateMark
  <2>2. migrator' = [migrator EXCEPT ![m] = "up"]
    BY <1>5 DEF MigrateMark
  <2>3. UNCHANGED <<episodes, markers, pref, writer, reader, today, noted, overlap, bounds>>
    BY <1>5 DEF MigrateMark
  <2>4. QED
    BY <2>1, <2>2, <2>3
<1>6. CASE MigrateFails(m)
  BY <1>6 DEF MigrateFails, Fault
<1>7. QED
  BY <1>1, <1>2, <1>3, <1>4, <1>5, <1>6 DEF Migrate

\* Every step keeps the types.
LEMMA TypeKept ==
    ASSUME TypeOK, [Next]_vars
    PROVE  TypeOK'
<1>1. CASE UNCHANGED vars
  BY <1>1 DEF TypeOK, vars
<1>2. CASE NextDay
  BY <1>2 DEF NextDay, TypeOK, store, noted, bounds
<1>3. QED
  BY <1>1, <1>2, SaveType, ReadType, MigrateType DEF Next

\* The initial state has them.
LEMMA InitType == Init => TypeOK
<1>1. Init => writer \in [Writers -> WriterStates] /\ reader \in ReaderStates
  BY IdleTypes DEF Init
<1>2. Init => migrated \in BOOLEAN /\ overlap \in BOOLEAN
  BY DEF Init
<1>3. Init => \A w \in Writers : writer[w].pc = "idle"
  BY IdleTypes DEF Init
<1>4. Init => /\ episodes \in Rows /\ markers \in Rows /\ pref \in Preferences
              /\ migrator \in [Migrators -> {"down", "rows", "put", "mark", "up"}]
              /\ {today, reads, faults} \subseteq Nat
              /\ answered \subseteq Keys /\ failed \subseteq Keys
  BY LegacyRows DEF Init
<1>5. QED
  BY <1>1, <1>2, <1>3, <1>4 DEF TypeOK

-----------------------------------------------------------------------------
(* Nothing is forgotten.                                                   *)

Recorded == DOMAIN episodes \cap DOMAIN markers

\* Each step of a save relies on what the steps before it have put.
SaveOrdered ==
    \A w \in Writers :
        /\ writer[w].pc = "mark" => writer[w].key \in DOMAIN episodes
        /\ writer[w].pc \in {"search", "used", "build", "return"} => writer[w].key \in Recorded

\* A migration past its rows has copied them.
RowsFirst ==
    \A m \in Migrators : migrator[m] \in {"put", "mark"} => LegacyKeys \subseteq Recorded

StoreInv == NothingForgotten /\ SaveOrdered /\ RowsFirst

\* Nothing takes an episode or a marker away.
LEMMA StoreGrows ==
    ASSUME [Next]_vars
    PROVE  /\ DOMAIN episodes \subseteq DOMAIN episodes'
           /\ DOMAIN markers \subseteq DOMAIN markers'
<1> USE DEF store
<1>1. CASE UNCHANGED vars
  BY <1>1 DEF vars
<1>2. CASE NextDay \/ ReadBegin \/ Read
  BY <1>2 DEF NextDay, ReadBegin, Read, ReadIndex, ReadRank, ReadTouch, ReadPut, ReadReturn,
     ReadFails
<1>3. ASSUME NEW w \in Writers, Save(w) \/ \E k \in Keys : SaveBegin(w, k)
      PROVE  /\ DOMAIN episodes \subseteq DOMAIN episodes'
             /\ DOMAIN markers \subseteq DOMAIN markers'
  BY <1>3 DEF Save, SaveBegin, SaveMarker, SaveExisting, SavePut, SaveMark, RebuildSearch,
     RebuildUsed, RebuildPut, SaveReturn, SaveFails, Put
<1>4. ASSUME NEW m \in Migrators, Migrate(m)
      PROVE  /\ DOMAIN episodes \subseteq DOMAIN episodes'
             /\ DOMAIN markers \subseteq DOMAIN markers'
  BY <1>4 DEF Migrate, MigrateBegin, MigrateRow, MigrateLook, MigratePut, MigrateMark,
     MigrateFails, Put
<1>5. QED
  BY <1>1, <1>2, <1>3, <1>4 DEF Next

\* A step of one save leaves the others where they are.
LEMMA OtherSaves ==
    ASSUME TypeOK, NEW w \in Writers, Save(w) \/ \E k \in Keys : SaveBegin(w, k)
    PROVE  /\ \A v \in Writers \ {w} : writer'[v] = writer[v]
           /\ UNCHANGED <<reader, migrator, migrated>>
BY DEF TypeOK, Save, SaveBegin, SaveMarker, SaveExisting, SavePut, SaveMark, RebuildSearch,
   RebuildUsed, RebuildPut, SaveReturn, SaveFails, Step, Goes, store

\* A save that finds no marker goes on to put one, or first the episode.
LEMMA SaveFinds ==
    ASSUME TypeOK, NEW w \in Writers, SaveExisting(w)
    PROVE  /\ writer'[w].pc = IF writer[w].key \in DOMAIN episodes THEN "mark" ELSE "put"
           /\ writer'[w].key = writer[w].key
<1>1. writer[w] \in WriterStates /\ writer \in [Writers -> WriterStates]
  BY DEF TypeOK
<1>2. CASE writer[w].key \in DOMAIN episodes
  <2>1. Step(w, [writer[w] EXCEPT !.pc = "mark", !.day = episodes[writer[w].key]])
    BY <1>2 DEF SaveExisting
  <2>2. QED
    BY <1>1, <1>2, <2>1 DEF Step, WriterStates
<1>3. CASE writer[w].key \notin DOMAIN episodes
  <2>1. Goes(w, "put")
    BY <1>3 DEF SaveExisting
  <2>2. QED
    BY <1>1, <1>3, <2>1 DEF Goes, WriterStates
<1>4. QED
  BY <1>2, <1>3

\* A save puts the episode, then the marker, then the preference, and returns.
LEMMA SaveStore ==
    ASSUME TypeOK, StoreInv, NEW w \in Writers, Save(w) \/ \E k \in Keys : SaveBegin(w, k)
    PROVE  StoreInv'
<1>1. /\ DOMAIN episodes \subseteq DOMAIN episodes'
      /\ DOMAIN markers \subseteq DOMAIN markers'
  BY StoreGrows DEF Next
<1>2. /\ \A v \in Writers \ {w} : writer'[v] = writer[v]
      /\ UNCHANGED <<reader, migrator, migrated>>
  BY OtherSaves
<1> USE DEF StoreInv, NothingForgotten, SaveOrdered, RowsFirst, Recorded
<1>3. SUFFICES
        /\ DOMAIN markers' \subseteq DOMAIN episodes'
        /\ answered' \subseteq answered \cup Recorded
        /\ writer'[w].pc = "mark" => writer'[w].key \in DOMAIN episodes'
        /\ writer'[w].pc \in {"search", "used", "build", "return"} => writer'[w].key \in Recorded'
  BY <1>1, <1>2
<1>4. writer[w] \in WriterStates /\ writer \in [Writers -> WriterStates]
  BY DEF TypeOK
<1>5. writer[w].pc # "idle" => writer[w].key \in Keys
  BY DEF TypeOK
<1> USE DEF Step, Goes, store, noted
<1>6. CASE SaveMarker(w)
  BY <1>4, <1>6 DEF SaveMarker, AfterMarker, WriterStates
<1>7. CASE SaveExisting(w)
  BY <1>7, SaveFinds DEF SaveExisting
<1>8. CASE SavePut(w)
  BY <1>4, <1>8 DEF SavePut, WriterStates, Put
<1>9. CASE SaveMark(w)
  BY <1>4, <1>9 DEF SaveMark, WriterStates, Put
<1>10. CASE RebuildSearch(w)
  BY <1>4, <1>10 DEF RebuildSearch, WriterStates
<1>11. CASE RebuildUsed(w)
  BY <1>4, <1>11 DEF RebuildUsed, WriterStates
<1>12. CASE RebuildPut(w)
  BY <1>4, <1>12 DEF RebuildPut, WriterStates
<1>13. CASE SaveReturn(w) \/ SaveFails(w)
  BY <1>4, <1>13, IdleTypes DEF SaveReturn, SaveFails
<1>14. CASE \E k \in Keys : SaveBegin(w, k)
  <2>1. writer'[w].pc = "marker" /\ UNCHANGED <<store, noted>>
    BY <1>4, <1>14 DEF SaveBegin, Idle
  <2>2. QED
    BY <2>1
<1>15. QED
  BY <1>6, <1>7, <1>8, <1>9, <1>10, <1>11, <1>12, <1>13, <1>14 DEF Save

\* A migration puts each episode before its marker, and its own mark last.
LEMMA MigrateStore ==
    ASSUME TypeOK, StoreInv, NEW m \in Migrators, Migrate(m)
    PROVE  StoreInv'
<1>1. /\ DOMAIN episodes \subseteq DOMAIN episodes'
      /\ DOMAIN markers \subseteq DOMAIN markers'
  BY StoreGrows DEF Next
<1>2. UNCHANGED <<writer, noted>>
  BY DEF Migrate, MigrateBegin, MigrateRow, MigrateLook, MigratePut, MigrateMark, MigrateFails,
     noted
<1> USE DEF StoreInv, NothingForgotten, SaveOrdered, RowsFirst, Recorded
<1>3. SUFFICES
        /\ DOMAIN markers' \subseteq DOMAIN episodes'
        /\ migrated' => migrated \/ LegacyKeys \subseteq Recorded
        /\ \A n \in Migrators :
             migrator'[n] \in {"put", "mark"} =>
                 migrator[n] \in {"put", "mark"} \/ LegacyKeys \subseteq Recorded
  BY <1>1, <1>2 DEF noted
<1>4. migrator \in [Migrators -> {"down", "rows", "put", "mark", "up"}]
  BY DEF TypeOK
<1> USE DEF To, store
<1>5. CASE MigrateBegin(m)
  BY <1>4, <1>5 DEF MigrateBegin
<1>6. CASE MigrateRow(m)
  BY <1>6 DEF MigrateRow, Put
<1>7. CASE MigrateLook(m)
  BY <1>4, <1>7 DEF MigrateLook, RowsCopied
<1>8. CASE MigratePut(m) \/ MigrateMark(m)
  BY <1>4, <1>8 DEF MigratePut, MigrateMark
<1>9. CASE MigrateFails(m)
  BY <1>4, <1>9 DEF MigrateFails
<1>10. QED
  BY <1>5, <1>6, <1>7, <1>8, <1>9 DEF Migrate

\* A retrieval puts no episode and no marker.
LEMMA StoreKept ==
    ASSUME TypeOK, StoreInv, [Next]_vars
    PROVE  StoreInv'
<1>1. CASE UNCHANGED <<episodes, markers, migrated, writer, migrator, answered>>
  BY <1>1 DEF StoreInv, NothingForgotten, SaveOrdered, RowsFirst, Recorded
<1>2. CASE UNCHANGED vars \/ NextDay \/ ReadBegin \/ Read
  BY <1>1, <1>2 DEF vars, NextDay, ReadBegin, Read, ReadIndex, ReadRank, ReadTouch, ReadPut,
     ReadReturn, ReadFails, store, noted
<1>3. QED
  BY <1>2, SaveStore, MigrateStore DEF Next

\* No feedback is forgotten: neither an acknowledged one, nor one of the legacy
\* tables once the migration is marked, over any overlap of saves, retrievals
\* and starts and wherever each of them fails.
THEOREM NoFeedbackForgotten == Spec => []NothingForgotten
<1>1. Init => TypeOK /\ StoreInv
  <2>1. Init => StoreInv
    BY IdleTypes, LegacyRows DEF Init, StoreInv, NothingForgotten, SaveOrdered, RowsFirst
  <2>2. QED
    BY <2>1, InitType
<1>2. TypeOK /\ StoreInv /\ [Next]_vars => TypeOK' /\ StoreInv'
  BY TypeKept, StoreKept
<1>3. QED
  BY <1>1, <1>2, PTL DEF Spec, StoreInv

-----------------------------------------------------------------------------
(* The preference is current.                                              *)

LegacyPref == [of |-> Legacy, used |-> 0, indexed |-> FALSE]

Migrating(m) == migrator[m] \notin {"down", "up"}

\* Saves and retrievals begin after the migration.
BeforeMigration ==
    ~migrated =>
        /\ \A w \in Writers : writer[w].pc = "idle"
        /\ reader.pc = "idle"
        /\ \A m \in Migrators : migrator[m] # "up"
        /\ answered = {}
        /\ DOMAIN episodes \subseteq LegacyKeys
        /\ \A k \in DOMAIN episodes : episodes[k] = Legacy[k]
        /\ pref = NoPref \/ (pref = LegacyPref /\ LegacyKeys \subseteq Recorded)
        /\ \A m \in Migrators :
             migrator[m] = "mark" => LegacyKeys = {} \/ pref = LegacyPref

\* Until two operations overlap, at most one is under way.
OneAtATime ==
    ~overlap =>
        /\ \A v, w \in Writers : writer[v].pc # "idle" /\ writer[w].pc # "idle" => v = w
        /\ \A w \in Writers : writer[w].pc # "idle" => reader.pc = "idle"
        /\ \A m \in Migrators : Migrating(m) =>
             /\ \A w \in Writers : writer[w].pc = "idle"
             /\ reader.pc = "idle"
             /\ \A n \in Migrators : Migrating(n) => n = m
        /\ migrated => \A m \in Migrators : ~Migrating(m)

\* What an operation has read of the store is then still what the store holds.
ReadsHold ==
    ~overlap =>
        /\ \A w \in Writers :
             /\ writer[w].pc \in {"used", "build"} => writer[w].found = episodes
             /\ writer[w].pc = "return" => pref.of = episodes
        /\ reader.pc \in {"index", "use", "expire"} => reader.seen.of = pref.of

\* Between saves the preference is of all episodes, unless one was cut short.
CurrentBetweenSaves ==
    ~overlap /\ migrated /\ failed = {} /\ (\A w \in Writers : writer[w].pc = "idle")
        => pref.of = episodes

\* Acknowledged feedback is in the preference until two operations overlap.
AnsweredCounts == ~overlap => answered \subseteq DOMAIN pref.of

\* An overlap is noted for good.
LEMMA OverlapStays ==
    ASSUME [Next]_vars, ~overlap'
    PROVE  ~overlap
<1>1. CASE UNCHANGED overlap \/ Begins
  BY <1>1 DEF Begins
<1>2. CASE UNCHANGED vars \/ NextDay \/ ReadBegin \/ Read
  BY <1>1, <1>2 DEF vars, NextDay, ReadBegin, Read, ReadIndex, ReadRank, ReadTouch, ReadPut,
     ReadReturn, ReadFails
<1>3. ASSUME NEW w \in Writers, Save(w) \/ \E k \in Keys : SaveBegin(w, k)
      PROVE  ~overlap
  BY <1>1, <1>3 DEF Save, SaveBegin, SaveMarker, SaveExisting, SavePut, SaveMark,
     RebuildSearch, RebuildUsed, RebuildPut, SaveReturn, SaveFails
<1>4. ASSUME NEW m \in Migrators, Migrate(m)
      PROVE  ~overlap
  BY <1>1, <1>4 DEF Migrate, MigrateBegin, MigrateRow, MigrateLook, MigratePut, MigrateMark,
     MigrateFails
<1>5. QED
  BY <1>2, <1>3, <1>4 DEF Next

\* Nothing revokes the migration.
LEMMA MigratedStays ==
    ASSUME [Next]_vars, ~migrated'
    PROVE  ~migrated
<1>1. CASE UNCHANGED vars \/ NextDay \/ ReadBegin \/ Read
  BY <1>1 DEF vars, NextDay, ReadBegin, Read, ReadIndex, ReadRank, ReadTouch, ReadPut,
     ReadReturn, ReadFails, store
<1>2. ASSUME NEW w \in Writers, Save(w) \/ \E k \in Keys : SaveBegin(w, k)
      PROVE  ~migrated
  BY <1>2 DEF Save, SaveBegin, SaveMarker, SaveExisting, SavePut, SaveMark,
     RebuildSearch, RebuildUsed, RebuildPut, SaveReturn, SaveFails, store
<1>3. ASSUME NEW m \in Migrators, Migrate(m)
      PROVE  ~migrated
  BY <1>3 DEF Migrate, MigrateBegin, MigrateRow, MigrateLook, MigratePut, MigrateMark,
     MigrateFails, store
<1>4. QED
  BY <1>1, <1>2, <1>3 DEF Next

\* Before the migration is marked, only migrations take steps.
LEMMA BeforeMigrationKept ==
    ASSUME TypeOK, StoreInv, StoreInv', BeforeMigration, [Next]_vars
    PROVE  BeforeMigration'
<1> SUFFICES ASSUME ~migrated'
             PROVE  BeforeMigration'
  BY DEF BeforeMigration
<1>0. ~migrated
  BY MigratedStays
<1> DEFINE Before ==
        /\ \A w \in Writers : writer[w].pc = "idle"
        /\ reader.pc = "idle"
        /\ \A m \in Migrators : migrator[m] # "up"
        /\ answered = {}
        /\ DOMAIN episodes \subseteq LegacyKeys
        /\ \A k \in DOMAIN episodes : episodes[k] = Legacy[k]
        /\ pref = NoPref \/ (pref = LegacyPref /\ LegacyKeys \subseteq Recorded)
        /\ \A m \in Migrators : migrator[m] = "mark" => LegacyKeys = {} \/ pref = LegacyPref
<1>1. Before
  BY <1>0 DEF BeforeMigration
<1>2. SUFFICES Before'
  BY DEF BeforeMigration
<1>3. CASE UNCHANGED vars \/ NextDay
  BY <1>1, <1>3 DEF vars, NextDay, store, noted, Recorded
<1>4. ~ReadBegin /\ ~Read
  BY <1>1 DEF ReadBegin, Read, ReadIndex, ReadRank, ReadTouch, ReadPut, ReadReturn, ReadFails,
     Migrators
<1>5. ASSUME NEW w \in Writers
      PROVE  ~Save(w) /\ \A k \in Keys : ~SaveBegin(w, k)
  BY <1>1 DEF Save, SaveBegin, SaveMarker, SaveExisting, SavePut, SaveMark,
     RebuildSearch, RebuildUsed, RebuildPut, SaveReturn, SaveFails, Migrators
<1>6. ASSUME NEW m \in Migrators, Migrate(m)
      PROVE  Before'
  <2>1. UNCHANGED <<writer, reader, answered>>
    BY <1>6 DEF Migrate, MigrateBegin, MigrateRow, MigrateLook, MigratePut, MigrateMark,
       MigrateFails, noted
  <2>2. migrator \in [Migrators -> {"down", "rows", "put", "mark", "up"}]
    BY DEF TypeOK
  <2> USE DEF To, store
  <2>3. CASE MigrateBegin(m)
    <3>1. To(m, "rows") /\ UNCHANGED store
      BY <1>0, <2>3 DEF MigrateBegin
    <3>2. QED
      BY <1>1, <2>1, <2>2, <3>1 DEF Recorded
  <2>4. CASE MigrateRow(m)
    BY <1>1, <2>1, <2>4, StoreGrows DEF MigrateRow, Put, Recorded, Next
  <2>5. CASE MigrateLook(m)
    BY <1>1, <2>1, <2>2, <2>5 DEF MigrateLook, Recorded
  <2>6. CASE MigratePut(m)
    <3>1. LegacyKeys \subseteq Recorded
      BY <2>6 DEF MigratePut, StoreInv, RowsFirst
    <3>2. QED
      BY <1>1, <2>1, <2>2, <2>6, <3>1 DEF MigratePut, LegacyPref, Recorded
  <2>7. ~MigrateMark(m)
    BY DEF MigrateMark
  <2>8. CASE MigrateFails(m)
    BY <1>1, <2>1, <2>2, <2>8 DEF MigrateFails, Recorded
  <2>9. QED
    BY <1>6, <2>3, <2>4, <2>5, <2>6, <2>7, <2>8 DEF Migrate
<1>7. QED
  BY <1>3, <1>4, <1>5, <1>6 DEF Next

\* An operation that begins while another is under way is noted.
LEMMA BeginsAlone ==
    ASSUME Begins, ~overlap'
    PROVE  /\ \A w \in Writers : writer[w].pc = "idle"
           /\ reader.pc = "idle"
           /\ \A m \in Migrators : ~Migrating(m)
BY DEF Begins, Busy, Migrating

\* A save under way was under way before its step.
LEMMA SaveUnderWay ==
    ASSUME NEW w \in Writers, Save(w)
    PROVE  writer[w].pc # "idle"
BY DEF Save, SaveMarker, SaveExisting, SavePut, SaveMark, RebuildSearch, RebuildUsed,
   RebuildPut, SaveReturn, SaveFails

\* A retrieval touches neither saves nor migrations nor the episodes.
LEMMA ReadFrame ==
    ASSUME ReadBegin \/ Read
    PROVE  UNCHANGED <<episodes, markers, migrated, writer, migrator, noted>>
BY DEF ReadBegin, Read, ReadIndex, ReadRank, ReadTouch, ReadPut, ReadReturn, ReadFails, store

\* A retrieval under way was under way before its step.
LEMMA ReadUnderWay ==
    ASSUME Read
    PROVE  reader.pc # "idle"
BY DEF Read, ReadIndex, ReadRank, ReadTouch, ReadPut, ReadReturn, ReadFails

\* Every step keeps it.
LEMMA OneKept ==
    ASSUME TypeOK, OneAtATime, [Next]_vars
    PROVE  OneAtATime'
<1> SUFFICES ASSUME ~overlap'
             PROVE  OneAtATime'
  BY DEF OneAtATime
<1> DEFINE Alone ==
        /\ \A v, w \in Writers : writer[v].pc # "idle" /\ writer[w].pc # "idle" => v = w
        /\ \A w \in Writers : writer[w].pc # "idle" => reader.pc = "idle"
        /\ \A m \in Migrators : Migrating(m) =>
             /\ \A w \in Writers : writer[w].pc = "idle"
             /\ reader.pc = "idle"
             /\ \A n \in Migrators : Migrating(n) => n = m
        /\ migrated => \A m \in Migrators : ~Migrating(m)
<1>1. Alone
  BY OverlapStays DEF OneAtATime
<1>2. SUFFICES Alone'
  BY DEF OneAtATime
<1>3. CASE UNCHANGED vars \/ NextDay
  BY <1>1, <1>3 DEF vars, NextDay, store, Migrating
<1>4. CASE Read
  BY <1>1, <1>4, ReadFrame, ReadUnderWay DEF Migrating
<1>5. CASE ReadBegin
  <2>1. Begins
    BY <1>5 DEF ReadBegin
  <2>2. QED
    BY <1>5, <2>1, BeginsAlone, ReadFrame DEF Migrating
<1>6. ASSUME NEW w \in Writers, Save(w)
      PROVE  Alone'
  BY <1>1, <1>6, OtherSaves, SaveUnderWay DEF Migrating
<1>7. ASSUME NEW w \in Writers, NEW k \in Keys, SaveBegin(w, k)
      PROVE  Alone'
  <2>1. Begins
    BY <1>7 DEF SaveBegin
  <2>2. QED
    BY <1>7, <2>1, BeginsAlone, OtherSaves DEF Migrating
<1>8. ASSUME NEW m \in Migrators, Migrate(m)
      PROVE  Alone'
  <2>1. UNCHANGED <<writer, reader>>
    BY <1>8 DEF Migrate, MigrateBegin, MigrateRow, MigrateLook, MigratePut, MigrateMark,
       MigrateFails
  <2>2. migrator \in [Migrators -> {"down", "rows", "put", "mark", "up"}]
    BY DEF TypeOK
  <2> USE DEF To, store, Migrating
  <2>3. CASE MigrateBegin(m)
    <3>1. CASE migrated
      BY <1>1, <2>1, <2>2, <2>3, <3>1 DEF MigrateBegin
    <3>2. CASE ~migrated
      <4>1. Begins /\ To(m, "rows") /\ UNCHANGED migrated
        BY <2>3, <3>2 DEF MigrateBegin
      <4>2. QED
        BY <2>1, <2>2, <3>2, <4>1, BeginsAlone
    <3>3. QED
      BY <3>1, <3>2
  <2>4. CASE MigrateRow(m) \/ MigrateLook(m) \/ MigratePut(m)
    BY <1>1, <2>1, <2>2, <2>4 DEF MigrateRow, MigrateLook, MigratePut
  <2>5. CASE MigrateMark(m)
    BY <1>1, <2>1, <2>2, <2>5 DEF MigrateMark
  <2>6. CASE MigrateFails(m)
    BY <1>1, <2>1, <2>2, <2>6 DEF MigrateFails
  <2>7. QED
    BY <1>8, <2>3, <2>4, <2>5, <2>6 DEF Migrate
<1>9. QED
  BY <1>3, <1>4, <1>5, <1>6, <1>7, <1>8 DEF Next

\* As long as nothing overlaps a rebuild sets the preference to all episodes,
\* and a retrieval leaves the episodes it is of.
CurrencyInv == ReadsHold /\ CurrentBetweenSaves /\ AnsweredCounts

\* Once the rows are copied before the migration is marked, the legacy
\* preference speaks of all episodes.
LEMMA LegacyIsCurrent ==
    ASSUME TypeOK, BeforeMigration, ~migrated,
           \/ DOMAIN episodes = {}
           \/ LegacyKeys \subseteq Recorded /\ (LegacyKeys = {} \/ pref = LegacyPref)
    PROVE  pref.of = episodes
<1>1. /\ episodes = [k \in DOMAIN episodes |-> episodes[k]]
      /\ pref = NoPref \/ (pref = LegacyPref /\ LegacyKeys \subseteq Recorded)
      /\ DOMAIN episodes \subseteq LegacyKeys
      /\ \A k \in DOMAIN episodes : episodes[k] = Legacy[k]
  BY RowsAreFunctions DEF TypeOK, BeforeMigration
<1>2. CASE pref = LegacyPref /\ LegacyKeys \subseteq Recorded
  <2>1. DOMAIN episodes = LegacyKeys
    BY <1>1, <1>2 DEF Recorded
  <2>2. episodes = [k \in LegacyKeys |-> 1]
    BY <1>1, <2>1, LegacyRows
  <2>3. QED
    BY <1>2, <2>2 DEF LegacyPref, Legacy
<1>3. CASE DOMAIN episodes = {} /\ pref = NoPref
  <2>1. episodes = [k \in {} |-> 0]
    BY <1>1, <1>3
  <2>2. QED
    BY <1>3, <2>1, LegacyRows DEF NoRows
<1>4. QED
  BY <1>1, <1>2, <1>3

\* Every step keeps the preference current.
LEMMA CurrencyKept ==
    ASSUME TypeOK, StoreInv, BeforeMigration, OneAtATime, CurrencyInv, [Next]_vars
    PROVE  CurrencyInv'
<1> SUFFICES ASSUME ~overlap'
             PROVE  CurrencyInv'
  BY DEF CurrencyInv, ReadsHold, CurrentBetweenSaves, AnsweredCounts
<1> DEFINE Hold ==
        /\ \A w \in Writers :
             /\ writer[w].pc \in {"used", "build"} => writer[w].found = episodes
             /\ writer[w].pc = "return" => pref.of = episodes
        /\ reader.pc \in {"index", "use", "expire"} => reader.seen.of = pref.of
        /\ migrated /\ failed = {} /\ (\A w \in Writers : writer[w].pc = "idle")
             => pref.of = episodes
        /\ answered \subseteq DOMAIN pref.of
<1>1. ~overlap /\ Hold
  BY OverlapStays DEF CurrencyInv, ReadsHold, CurrentBetweenSaves, AnsweredCounts
<1>2. SUFFICES Hold'
  BY DEF CurrencyInv, ReadsHold, CurrentBetweenSaves, AnsweredCounts
<1>3. /\ writer \in [Writers -> WriterStates]
      /\ reader \in ReaderStates
      /\ pref \in Preferences
      /\ migrator \in [Migrators -> {"down", "rows", "put", "mark", "up"}]
  BY DEF TypeOK
<1>4. CASE UNCHANGED vars \/ NextDay
  BY <1>1, <1>4 DEF vars, NextDay, store, noted
<1>5. CASE ReadBegin \/ Read
  <2>1. SUFFICES /\ pref'.of = pref.of
                 /\ reader'.pc \in {"index", "use", "expire"} => reader'.seen.of = pref.of
    BY <1>1, <1>5, ReadFrame DEF noted
  <2>2. CASE ReadBegin
    BY <2>2 DEF ReadBegin, store, NoRead
  <2>3. CASE ReadIndex
    BY <1>1, <1>3, <2>3 DEF ReadIndex, ReaderStates, Preferences
  <2>4. CASE ReadRank \/ ReadTouch
    BY <1>3, <2>4 DEF ReadRank, ReadTouch, ReaderStates, store
  <2>5. CASE ReadPut
    BY <1>1, <1>3, <2>5 DEF ReadPut, ReaderStates, Preferences
  <2>6. CASE ReadReturn \/ ReadFails
    BY <1>3, <2>6, IdleTypes DEF ReadReturn, ReadFails, store
  <2>7. QED
    BY <1>5, <2>2, <2>3, <2>4, <2>5, <2>6 DEF Read
<1>6. ASSUME NEW w \in Writers, Save(w) \/ \E k \in Keys : SaveBegin(w, k)
      PROVE  Hold'
  <2>1. /\ reader.pc = "idle" /\ UNCHANGED reader
        /\ \A v \in Writers \ {w} : writer[v].pc = "idle" /\ writer'[v].pc = "idle"
    <3>1. CASE Save(w)
      BY <1>1, <3>1, SaveUnderWay, OtherSaves DEF OneAtATime
    <3>2. CASE \E k \in Keys : SaveBegin(w, k)
      <4>1. Begins
        BY <3>2 DEF SaveBegin
      <4>2. QED
        BY <3>2, <4>1, BeginsAlone, OtherSaves
    <3>3. QED
      BY <1>6, <3>1, <3>2
  <2>2. SUFFICES
          /\ writer'[w].pc \in {"used", "build"} => writer'[w].found = episodes'
          /\ writer'[w].pc = "return" => pref'.of = episodes'
          /\ writer'[w].pc = "idle" => failed' # {} \/ pref'.of = episodes'
          /\ answered' \subseteq DOMAIN pref'.of
    BY <2>1
  <2>3. writer[w] \in WriterStates
    BY <1>3
  <2>4. answered \subseteq DOMAIN episodes
    BY DEF StoreInv, NothingForgotten
  <2> USE DEF Step, Goes, store, noted
  <2>5. CASE \E k \in Keys : SaveBegin(w, k)
    <3>1. writer'[w].pc = "marker" /\ UNCHANGED <<store, noted>>
      BY <1>3, <2>5 DEF SaveBegin, Idle
    <3>2. QED
      BY <1>1, <3>1
  <2>6. CASE SaveMarker(w)
    BY <1>1, <1>3, <2>3, <2>6 DEF SaveMarker, AfterMarker, WriterStates
  <2>7. CASE SaveExisting(w)
    <3>1. writer'[w].pc \in {"mark", "put"} /\ UNCHANGED <<store, noted>>
      BY <2>7, SaveFinds DEF SaveExisting
    <3>2. QED
      BY <1>1, <3>1
  <2>8. CASE SavePut(w) \/ SaveMark(w)
    BY <1>1, <1>3, <2>3, <2>8 DEF SavePut, SaveMark, WriterStates
  <2>9. CASE RebuildSearch(w)
    BY <1>1, <1>3, <2>3, <2>9 DEF RebuildSearch, WriterStates
  <2>10. CASE RebuildUsed(w)
    BY <1>1, <1>3, <2>3, <2>10 DEF RebuildUsed, WriterStates
  <2>11. CASE RebuildPut(w)
    BY <1>1, <1>3, <2>3, <2>4, <2>11 DEF RebuildPut, Rebuilt, WriterStates
  <2>12. CASE SaveReturn(w)
    <3>1. pref.of = episodes /\ writer[w].key \in DOMAIN episodes
      BY <1>1, <2>12 DEF SaveReturn, StoreInv, SaveOrdered, Recorded
    <3>2. QED
      BY <1>3, <2>4, <2>12, <3>1, IdleTypes DEF SaveReturn
  <2>13. CASE SaveFails(w)
    BY <1>1, <1>3, <2>13, IdleTypes DEF SaveFails
  <2>14. QED
    BY <1>6, <2>5, <2>6, <2>7, <2>8, <2>9, <2>10, <2>11, <2>12, <2>13 DEF Save
<1>7. ASSUME NEW m \in Migrators, Migrate(m)
      PROVE  Hold'
  <2>1. UNCHANGED <<writer, reader, noted>>
    BY <1>7 DEF Migrate, MigrateBegin, MigrateRow, MigrateLook, MigratePut, MigrateMark,
       MigrateFails
  <2>2. CASE UNCHANGED store
    BY <1>1, <2>1, <2>2 DEF store, noted
  <2>3. ASSUME MigrateRow(m) \/ MigratePut(m) \/ MigrateMark(m)
        PROVE  /\ ~migrated
               /\ answered = {}
               /\ reader.pc = "idle"
               /\ \A w \in Writers : writer[w].pc = "idle"
    <3>1. Migrating(m)
      BY <2>3 DEF MigrateRow, MigratePut, MigrateMark, Migrating
    <3>2. ~migrated
      BY <1>1, <3>1 DEF OneAtATime
    <3>3. QED
      BY <3>2 DEF BeforeMigration
  <2>4. CASE MigrateRow(m) \/ MigratePut(m)
    BY <1>1, <2>1, <2>3, <2>4 DEF MigrateRow, MigratePut, noted
  <2>5. CASE MigrateMark(m)
    <3>1. LegacyKeys \subseteq Recorded /\ (LegacyKeys = {} \/ pref = LegacyPref)
      BY <2>3, <2>5 DEF MigrateMark, StoreInv, RowsFirst, BeforeMigration
    <3>2. pref.of = episodes
      BY <2>3, <2>5, <3>1, LegacyIsCurrent
    <3>3. QED
      BY <2>1, <2>3, <2>5, <3>2 DEF MigrateMark, noted
  <2>6. QED
    BY <1>7, <2>2, <2>4, <2>5 DEF Migrate, MigrateBegin, MigrateLook, MigrateFails
<1>8. QED
  BY <1>4, <1>5, <1>6, <1>7 DEF Next

\* Together: what the proofs about the preference keep.
PreferenceInv == StoreInv /\ BeforeMigration /\ OneAtATime /\ CurrencyInv

\* It holds initially,
LEMMA InitPreference == Init => TypeOK /\ PreferenceInv
<1>1. Init => /\ \A w \in Writers : writer[w].pc = "idle"
              /\ reader.pc = "idle"
              /\ \A m \in Migrators : migrator[m] = "down"
              /\ DOMAIN episodes = {} /\ DOMAIN markers = {} /\ answered = {}
              /\ pref = NoPref /\ ~migrated /\ pref.of = episodes
  BY IdleTypes, LegacyRows DEF Init
<1>2. Init => StoreInv /\ BeforeMigration /\ OneAtATime /\ CurrencyInv
  BY <1>1 DEF StoreInv, NothingForgotten, SaveOrdered, RowsFirst, BeforeMigration, OneAtATime,
     Migrating, CurrencyInv, ReadsHold, CurrentBetweenSaves, AnsweredCounts
<1>3. QED
  BY <1>2, InitType DEF PreferenceInv

\* and every step keeps it.
LEMMA PreferenceKept ==
    ASSUME TypeOK, PreferenceInv, [Next]_vars
    PROVE  TypeOK' /\ PreferenceInv'
<1>1. TypeOK' /\ StoreInv'
  BY TypeKept, StoreKept DEF PreferenceInv
<1>2. BeforeMigration' /\ OneAtATime' /\ CurrencyInv'
  BY <1>1, BeforeMigrationKept, OneKept, CurrencyKept DEF PreferenceInv
<1>3. QED
  BY <1>1, <1>2 DEF PreferenceInv

\* Whenever nothing is under way, nothing has overlapped and no save is left
\* half done, the preference speaks of every feedback on record, the migrated
\* ones included: however often saves, retrievals and starts failed before.
THEOREM PreferenceIsCurrent == Spec => []PreferenceCurrent
<1>1. TypeOK /\ PreferenceInv => PreferenceCurrent
  <2> SUFFICES ASSUME TypeOK, PreferenceInv, Quiet, ~overlap, failed = {},
                      migrated \/ DOMAIN episodes = {}
               PROVE  pref.of = episodes
    BY DEF PreferenceCurrent
  <2>1. CASE migrated
    BY <2>1 DEF PreferenceInv, CurrencyInv, CurrentBetweenSaves, Quiet, Busy
  <2>2. CASE ~migrated
    BY <2>2, LegacyIsCurrent DEF PreferenceInv
  <2>3. QED
    BY <2>1, <2>2
<1>2. TypeOK /\ PreferenceInv /\ [Next]_vars => TypeOK' /\ PreferenceInv'
  BY PreferenceKept
<1>3. QED
  BY <1>1, <1>2, InitPreference, PTL DEF Spec

-----------------------------------------------------------------------------
(* Suggestions are justified.                                              *)

\* A retrieval that began alone, with the saves that began after it: every
\* copy of the preference or of the episodes holds what was known.
KnownCounts ==
    reader.pc # "idle" /\ reader.apart =>
        /\ \A m \in Migrators : ~Migrating(m)
        /\ reader.known \subseteq DOMAIN episodes
        /\ reader.known \subseteq DOMAIN pref.of
        /\ reader.pc \in {"index", "use", "expire"} => reader.known \subseteq DOMAIN reader.seen.of
        /\ \A w \in Writers :
             writer[w].pc \in {"used", "build"} => reader.known \subseteq DOMAIN writer[w].found

Justified ==
    reader.apart /\ reader.suggests # {} =>
        \A k \in reader.known : reader.suggests = {Suggestion[k]}

\* What a retrieval that begins alone knows.
LEMMA KnownAtBegin ==
    ASSUME TypeOK, PreferenceInv, ReadBegin, reader'.apart
    PROVE  KnownCounts'
<1>1. PICK relevant \in BOOLEAN :
        reader' = [NoRead EXCEPT !.pc = IF pref.indexed THEN "rank" ELSE "index", !.day = today,
                                 !.seen = pref, !.known = answered,
                                 !.apart = ~overlap /\ ~Busy, !.relevant = relevant]
  BY DEF ReadBegin
<1>2. /\ reader'.seen = pref /\ reader'.known = answered
      /\ reader'.apart = (~overlap /\ ~Busy)
  BY <1>1 DEF NoRead
<1>3. ~overlap /\ ~Busy
  BY <1>2
<1>4. /\ \A w \in Writers : writer[w].pc = "idle"
      /\ \A m \in Migrators : ~Migrating(m)
  BY <1>3 DEF Busy, Migrating
<1>5. answered \subseteq DOMAIN episodes /\ answered \subseteq DOMAIN pref.of
  BY <1>3 DEF PreferenceInv, StoreInv, NothingForgotten, CurrencyInv, AnsweredCounts
<1>6. UNCHANGED <<episodes, pref, writer, migrator>>
  BY DEF ReadBegin, store
<1>7. QED
  BY <1>2, <1>4, <1>5, <1>6 DEF KnownCounts, Migrating

\* The episodes only grow, and so does what a rebuild makes of them.
LEMMA KnownKept ==
    ASSUME TypeOK, PreferenceInv, KnownCounts, [Next]_vars
    PROVE  KnownCounts'
<1> SUFFICES ASSUME reader'.pc # "idle", reader'.apart
             PROVE  KnownCounts'
  BY DEF KnownCounts
<1>1. /\ writer \in [Writers -> WriterStates]
      /\ reader \in ReaderStates
      /\ pref \in Preferences
      /\ migrator \in [Migrators -> {"down", "rows", "put", "mark", "up"}]
  BY DEF TypeOK
<1>2. DOMAIN episodes \subseteq DOMAIN episodes'
  BY StoreGrows
<1>3. CASE UNCHANGED vars \/ NextDay
  BY <1>3 DEF vars, NextDay, store, KnownCounts, Migrating
<1>4. CASE ReadBegin
  BY <1>4, KnownAtBegin
<1>5. CASE Read
  <2>1. reader.pc # "idle" /\ UNCHANGED <<episodes, writer, migrator>>
    BY <1>5, ReadFrame, ReadUnderWay
  <2>2. SUFFICES
          /\ reader.apart /\ reader'.known = reader.known
          /\ reader.apart =>
               /\ reader.known \subseteq DOMAIN pref'.of
               /\ reader'.pc \in {"index", "use", "expire"} =>
                    reader.known \subseteq DOMAIN reader'.seen.of
    BY <2>1 DEF KnownCounts, Migrating
  <2>3. CASE ReadIndex
    BY <1>1, <2>1, <2>3 DEF ReadIndex, KnownCounts, ReaderStates, Preferences
  <2>4. CASE ReadRank
    BY <1>1, <2>1, <2>4 DEF ReadRank, KnownCounts, ReaderStates, store
  <2>5. CASE ReadTouch
    BY <1>1, <2>1, <2>5 DEF ReadTouch, KnownCounts, ReaderStates, store
  <2>6. CASE ReadPut
    BY <1>1, <2>1, <2>6 DEF ReadPut, KnownCounts, ReaderStates, Preferences
  <2>7. ~ReadReturn /\ ~ReadFails
    BY IdleTypes DEF ReadReturn, ReadFails
  <2>8. QED
    BY <1>5, <2>3, <2>4, <2>5, <2>6, <2>7 DEF Read
<1>6. ASSUME NEW w \in Writers, Save(w) \/ \E k \in Keys : SaveBegin(w, k)
      PROVE  KnownCounts'
  <2>1. /\ \A v \in Writers \ {w} : writer'[v] = writer[v]
        /\ UNCHANGED <<reader, migrator>>
    BY <1>6, OtherSaves
  <2>2. SUFFICES
          /\ pref' = pref \/ (writer[w].pc = "build" /\ pref'.of = writer[w].found)
          /\ writer'[w].pc \in {"used", "build"} =>
               \/ writer'[w].found = episodes
               \/ writer[w].pc = "used" /\ writer'[w].found = writer[w].found
    BY <1>2, <2>1 DEF KnownCounts, Migrating
  <2>3. writer[w] \in WriterStates
    BY <1>1
  <2> USE DEF Step, Goes, store
  <2>4. CASE \E k \in Keys : SaveBegin(w, k)
    <3>1. writer'[w].pc = "marker" /\ UNCHANGED pref
      BY <1>1, <2>4 DEF SaveBegin, Idle
    <3>2. QED
      BY <3>1
  <2>5. CASE SaveMarker(w)
    BY <1>1, <2>3, <2>5 DEF SaveMarker, AfterMarker, WriterStates
  <2>6. CASE SaveExisting(w)
    <3>1. writer'[w].pc \in {"mark", "put"} /\ UNCHANGED pref
      BY <2>6, SaveFinds DEF SaveExisting
    <3>2. QED
      BY <3>1
  <2>7. CASE SavePut(w) \/ SaveMark(w)
    BY <1>1, <2>3, <2>7 DEF SavePut, SaveMark, WriterStates
  <2>8. CASE RebuildSearch(w)
    BY <1>1, <2>3, <2>8 DEF RebuildSearch, WriterStates
  <2>9. CASE RebuildUsed(w)
    BY <1>1, <2>3, <2>9 DEF RebuildUsed, WriterStates
  <2>10. CASE RebuildPut(w)
    BY <1>1, <2>3, <2>10 DEF RebuildPut, Rebuilt, WriterStates
  <2>11. CASE SaveReturn(w) \/ SaveFails(w)
    BY <1>1, <2>11, IdleTypes DEF SaveReturn, SaveFails
  <2>12. QED
    BY <1>6, <2>4, <2>5, <2>6, <2>7, <2>8, <2>9, <2>10, <2>11 DEF Save
<1>7. ASSUME NEW m \in Migrators, Migrate(m)
      PROVE  KnownCounts'
  <2>1. UNCHANGED <<writer, reader>>
    BY <1>7 DEF Migrate, MigrateBegin, MigrateRow, MigrateLook, MigratePut, MigrateMark,
       MigrateFails
  <2>2. migrated /\ ~Migrating(m)
    BY <2>1 DEF PreferenceInv, BeforeMigration, KnownCounts
  <2>3. MigrateBegin(m)
    BY <1>7, <2>2 DEF Migrate, MigrateRow, MigrateLook, MigratePut, MigrateMark, MigrateFails,
       Migrating
  <2>4. To(m, "up") /\ UNCHANGED store
    BY <2>2, <2>3 DEF MigrateBegin
  <2>5. QED
    BY <1>1, <2>1, <2>4 DEF KnownCounts, Migrating, To, store
<1>8. QED
  BY <1>3, <1>4, <1>5, <1>6, <1>7 DEF Next

\* A suggestion is the one stance of all the feedback a preference is of.
LEMMA SuggestsStance ==
    ASSUME NEW p, NEW day, Suggests(p, day) # {}, NEW k \in DOMAIN p.of
    PROVE  Suggests(p, day) = {Suggestion[k]}
<1>1. Suggestion[k] \in Stances(p)
  BY DEF Stances
<1>2. PICK s : Stances(p) = {s} /\ s # Ignore /\ ~Expired(p, day)
  BY DEF Suggests
<1>3. QED
  BY <1>1, <1>2 DEF Suggests

\* The suggestion is made of what was known.
LEMMA JustifiedKept ==
    ASSUME TypeOK, KnownCounts, Justified, [Next]_vars
    PROVE  Justified'
<1>0. reader \in ReaderStates
  BY DEF TypeOK
<1>1. CASE UNCHANGED reader
  BY <1>1 DEF Justified
<1>2. CASE UNCHANGED vars \/ NextDay
  BY <1>1, <1>2 DEF vars, NextDay
<1>3. CASE ReadBegin
  <2>1. reader'.suggests = {}
    BY <1>3 DEF ReadBegin, NoRead
  <2>2. QED
    BY <2>1 DEF Justified
<1>4. CASE Read
  <2>1. CASE ReadIndex \/ ReadTouch \/ ReadPut
    <3>1. UNCHANGED <<reader.suggests, reader.known, reader.apart>>
      BY <1>0, <2>1 DEF ReadIndex, ReadTouch, ReadPut, ReaderStates
    <3>2. QED
      BY <3>1 DEF Justified
  <2>2. CASE ReadReturn \/ ReadFails
    BY <2>2, IdleTypes DEF ReadReturn, ReadFails, Justified
  <2>3. CASE ReadRank
    <3>1. /\ reader'.suggests \in {{}, Suggests(pref, reader.day)}
          /\ UNCHANGED <<reader.known, reader.apart>>
          /\ reader.pc # "idle"
      BY <1>0, <2>3 DEF ReadRank, ReaderStates
    <3>2. reader.apart => reader.known \subseteq DOMAIN pref.of
      BY <3>1 DEF KnownCounts
    <3>3. QED
      BY <3>1, <3>2, SuggestsStance DEF Justified
  <2>4. QED
    BY <1>4, <2>1, <2>2, <2>3 DEF Read
<1>5. ASSUME NEW w \in Writers, Save(w) \/ \E k \in Keys : SaveBegin(w, k)
      PROVE  UNCHANGED reader
  BY <1>5, OtherSaves
<1>6. ASSUME NEW m \in Migrators, Migrate(m)
      PROVE  UNCHANGED reader
  BY <1>6 DEF Migrate, MigrateBegin, MigrateRow, MigrateLook, MigratePut, MigrateMark,
     MigrateFails
<1>7. QED
  BY <1>1, <1>2, <1>3, <1>4, <1>5, <1>6 DEF Next

\* A suggestion is only made when all the feedback that was acknowledged before
\* the retrieval supports it, whatever is saved, and fails, beside it.
THEOREM SuggestionsAreJustified == Spec => []SuggestionJustified
<1>1. Init => KnownCounts /\ Justified
  BY IdleTypes DEF Init, KnownCounts, Justified
<1>2. TypeOK /\ PreferenceInv /\ KnownCounts /\ Justified /\ [Next]_vars
        => TypeOK' /\ PreferenceInv' /\ KnownCounts' /\ Justified'
  BY PreferenceKept, KnownKept, JustifiedKept
<1>3. Justified => SuggestionJustified
  BY DEF Justified, SuggestionJustified
<1>4. QED
  BY <1>1, <1>2, <1>3, InitPreference, PTL DEF Spec

=============================================================================
