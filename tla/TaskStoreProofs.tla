-------------------------- MODULE TaskStoreProofs ---------------------------
(***************************************************************************)
(* The tables of a task are its state: proofs of the properties of         *)
(* TaskStore, for any number of clauses and risks and any width of the     *)
(* batches.  First the sequences update_task writes, then the inductive    *)
(* invariant IInv, then what one update leaves behind, then the actions.   *)
(*                                                                         *)
(* Then the event log that comes with them: the store is a writer as       *)
(* EventStream has them (Writer), and an EventStream with clients (Stream) *)
(* gives each of them what EventLog promises.                              *)
(***************************************************************************)
EXTENDS TaskStore, FiniteSetTheorems, SequenceTheorems, TLAPS

-----------------------------------------------------------------------------
(* Sequences.                                                              *)

\* A nonempty set of numbers has a least one.
LEMMA LeastOf ==
    ASSUME NEW S \in SUBSET Nat, S # {}
    PROVE  \E x \in S : \A y \in S : x <= y
<1>1. ASSUME NEW x \in Nat, NEW y \in Nat, ~(<<y, x>> \in OpToRel(<, Nat))
      PROVE  x <= y
  BY <1>1 DEF OpToRel
<1>2. \E x \in S : \A y \in S : ~(<<y, x>> \in OpToRel(<, Nat))
  BY NatLessThanWellFounded, WFMin
<1>3. QED BY <1>1, <1>2

\* The clauses up to n, listed in their order.
UpTo(n) == [k \in 1..n |-> k]

\* The list of the clauses up to n is the only one in the order of the ids.
LEMMA OrderedUpTo ==
    ASSUME NEW n \in Nat
    PROVE  /\ Ordered(1..n) = UpTo(n)
           /\ Cardinality(1..n) = n
<1> DEFINE Increases(list) == \A j, k \in DOMAIN list : j < k => list[j] < list[k]
<1>1. IsFiniteSet(1..n) /\ Cardinality(1..n) = n
  BY FS_Interval
<1>2. UpTo(n) \in [1..n -> 1..n] /\ Increases(UpTo(n))
  BY DEF UpTo
<1>3. ASSUME NEW list \in [1..n -> 1..n], Increases(list)
      PROVE  list = UpTo(n)
  <2> DEFINE Moved == {k \in 1..n : list[k] # k}
  <2>1. \A j, k \in 1..n : j < k => list[j] < list[k]
    BY <1>3
  <2>2. list \in Injection(1..n, 1..n)
    <3>1. ASSUME NEW j \in 1..n, NEW k \in 1..n, j # k
          PROVE  list[j] # list[k]
      <4>1. j < k \/ k < j
        BY <3>1
      <4>2. list[j] \in 1..n /\ list[k] \in 1..n
        BY <1>3
      <4>3. QED BY <2>1, <4>1, <4>2
    <3>2. QED BY <1>3, <3>1 DEF Injection, IsInjective
  <2>3. \A k \in 1..n : \E j \in 1..n : list[j] = k
    <3>1. list \in Surjection(1..n, 1..n)
      BY <1>1, <2>2, FS_Injection
    <3>2. QED BY <3>1 DEF Surjection
  <2>4. ASSUME NEW k \in Moved, \A j \in Moved : k <= j
        PROVE  FALSE
    <3>1. PICK j \in 1..n : list[j] = k
      BY <2>3
    <3>2. list[k] \in 1..n /\ list[k] # k
      BY <1>3
    <3>3. \A l \in 1..n : l < k => list[l] = l
      BY <2>4
    <3>4. list[k] > k
      <4>1. CASE list[k] < k
        <5>1. list[list[k]] = list[k] /\ list[list[k]] < list[k]
          BY <2>1, <3>2, <3>3, <4>1
        <5>2. QED BY <3>2, <5>1
      <4>2. QED BY <3>2, <4>1
    <3>5. j > k
      BY <3>1, <3>2, <3>3
    <3>6. list[k] < list[j]
      BY <2>1, <3>5
    <3>7. QED BY <3>1, <3>2, <3>4, <3>6
  <2>5. Moved = {}
    <3>1. Moved \in SUBSET Nat
      OBVIOUS
    <3>2. QED BY <2>4, <3>1, LeastOf
  <2>6. QED BY <1>3, <2>5 DEF UpTo
<1>4. QED BY <1>1, <1>2, <1>3 DEF Ordered

\* s is what t begins with.
Begins(s, t) == Len(s) <= Len(t) /\ \A k \in 1..Len(s) : s[k] = t[k]

\* A longer log begins with the same entries.
LEMMA BeginsConcat ==
    ASSUME NEW E, NEW s \in Seq(E), NEW t \in Seq(E), NEW u \in Seq(E), Begins(s, t)
    PROVE  Begins(s, t \o u)
<1>1. /\ Len(t \o u) = Len(t) + Len(u)
      /\ \A k \in 1..Len(t) : (t \o u)[k] = t[k]
  <2>1. Len(t) \in Nat /\ Len(u) \in Nat
    BY LenProperties
  <2>2. QED BY <2>1, ConcatProperties
<1>2. Len(s) \in Nat /\ Len(t) \in Nat /\ Len(u) \in Nat
  BY LenProperties
<1>3. QED BY <1>1, <1>2 DEF Begins

\* A log that begins with the persisted entries is saved by appending the rest.
LEMMA NewLogsSuffice ==
    ASSUME NEW E, NEW s \in Seq(E), NEW t \in Seq(E), Begins(s, t)
    PROVE  s \o SubSeq(t, Len(s) + 1, Len(t)) = t
<1> DEFINE u == SubSeq(t, Len(s) + 1, Len(t))
<1>1. Len(s) \in Nat /\ Len(t) \in Nat /\ Len(s) <= Len(t)
  BY LenProperties DEF Begins
<1>2. /\ u \in Seq(E) /\ Len(u) = Len(t) - Len(s)
      /\ \A i \in 1..(Len(t) - Len(s)) : u[i] = t[Len(s) + i]
  <2>1. \A i \in (Len(s) + 1)..Len(t) : t[i] \in E
    BY <1>1, ElementOfSeq
  <2>2. /\ u \in Seq(E)
        /\ Len(u) = IF Len(s) + 1 <= Len(t) THEN Len(t) - (Len(s) + 1) + 1 ELSE 0
        /\ \A i \in 1..(Len(t) - (Len(s) + 1) + 1) : u[i] = t[(Len(s) + 1) + i - 1]
    BY <1>1, <2>1, SubSeqProperties
  <2>3. QED BY <1>1, <2>2
<1>3. /\ s \o u \in Seq(E) /\ Len(s \o u) = Len(t)
      /\ \A i \in 1..Len(t) : (s \o u)[i] = IF i <= Len(s) THEN s[i] ELSE u[i - Len(s)]
  BY <1>1, <1>2, ConcatProperties
<1>4. ASSUME NEW i \in 1..Len(t)
      PROVE  (s \o u)[i] = t[i]
  <2>1. CASE i <= Len(s)
    BY <1>1, <1>3, <2>1 DEF Begins
  <2>2. CASE ~(i <= Len(s))
    <3>1. i - Len(s) \in 1..(Len(t) - Len(s)) /\ Len(s) + (i - Len(s)) = i
      BY <1>1, <2>2
    <3>2. QED BY <1>2, <1>3, <2>2, <3>1
  <2>3. QED BY <2>1, <2>2
<1>5. QED BY <1>3, <1>4, SeqEqual

-----------------------------------------------------------------------------
(* The inductive invariant.                                                *)

Statuses == ReviewStatuses \cup {NoTask}
RiskLists == UNION {[S -> BOOLEAN] : S \in SUBSET Risks}
LogEntries == {"clause", "branch", "memory"} \X (Nat \cup Risks)

\* What _state_from_task returns.
States == [status : Statuses, results : SUBSET Items, resume_from : Statuses,
           clauses : Seq(Nat), risks : RiskLists \cup {NoRisks}, logs : Seq(LogEntries)]

TablesTypeOK ==
    /\ row \in [status : Statuses, results : SUBSET Items, resume_from : Statuses]
    /\ clauseRows \in SUBSET Items
    /\ riskRows \in RiskLists
    /\ logRows \in Seq(LogEntries)
    /\ events \in Seq(Statuses)
    /\ cache = NoCache \/ cache \in [last : Int, state : States]
    /\ \/ loading = NotLoading
       \/ loading \in [status : Statuses, results : SUBSET Items, resume_from : Statuses,
                       last : Int]
    /\ saved \in States

RunTypeOK ==
    /\ run \in [pc : {"idle", "node", "structure", "restored", "branches", "analyzed", "tail", "end"},
                logs : Seq(LogEntries), batch : Seq(Nat), done : Seq(Items)]
    /\ request \in [kind : {"none", "cancel"}]
                   \cup [kind : {"feedback"}, risks : RiskLists, logs : Seq(LogEntries)]

TypeOK == TablesTypeOK /\ RunTypeOK

CompletedClauses == Cardinality(clauseRows)

\* The clauses are completed in their order, none is left out.
ClausesInOrder == CompletedClauses \in 0..N /\ clauseRows = 1..CompletedClauses

\* The cache of the worker is never ahead of the event log, and if it passes
\* for current it is.
CacheIsCurrent ==
    /\ cache.last <= LastId
    /\ cache # NoCache /\ Trusted /\ lock # "worker" => AsLoaded(cache.state) = StateFromTask(row)

\* What a load has read of the row and may not read again is as it was.
LoadIsCurrent ==
    loading # NotLoading =>
        /\ loading.results = row.results
        /\ loading.resume_from = row.resume_from
        /\ loading.last <= LastId

\* Only the run appends to the step logs while its nodes execute.
LogsAreBegun ==
    /\ InNodes => Begins(logRows, AllLogs(run.done))
    /\ run.pc \in {"node", "structure", "restored"} => run.done = <<>>

\* A feedback request is no request to a task whose nodes execute; nobody else
\* changes the risks it works on.
RequestsDoNotDisturb ==
    /\ InNodes => row.status \in Recoverable \cup Cancelling
    /\ request.kind = "feedback" => /\ row.status \in Terminal \ Cancelling
                                    /\ DecidesMore(riskRows, request.risks)

\* A batch continues the completed clauses, or announces them.
BatchContinues ==
    run.pc = "structure" =>
        \/ run.batch = <<CompletedClauses>>
        \/ /\ CompletedClauses + Len(run.batch) <= N
           /\ \A k \in 1..Len(run.batch) : run.batch[k] = CompletedClauses + k

-----------------------------------------------------------------------------
(* What the run has logged, and the state of the tables.                   *)

\* _all_logs of the logs of a run and its branches.
LogsOf(logs, done) == logs \o [k \in DOMAIN done |-> <<"branch", done[k]>>]

\* The logs of a run are a list of log entries, and they begin with what it
\* has logged itself.
LEMMA LogsOfType ==
    ASSUME NEW logs \in Seq(LogEntries), NEW done \in Seq(Items)
    PROVE  /\ LogsOf(logs, done) \in Seq(LogEntries)
           /\ [k \in DOMAIN done |-> <<"branch", done[k]>>] \in Seq(LogEntries)
           /\ Begins(logs, LogsOf(logs, done))
<1> DEFINE branches == [k \in DOMAIN done |-> <<"branch", done[k]>>]
<1>1. branches \in Seq(LogEntries)
  <2>1. DOMAIN done = 1..Len(done) /\ Len(done) \in Nat
    BY LenProperties
  <2>2. \A k \in 1..Len(done) : <<"branch", done[k]>> \in LogEntries
    <3>1. \A k \in 1..Len(done) : done[k] \in Nat
      BY ElementOfSeq, StoreAssumption DEF Items
    <3>2. QED BY <3>1 DEF LogEntries
  <2>3. QED BY <2>1, <2>2
<1>2. Begins(logs, logs)
  BY LenProperties DEF Begins
<1>3. Begins(logs, logs \o branches)
  BY <1>1, <1>2, BeginsConcat
<1>4. logs \o branches \in Seq(LogEntries)
  BY <1>1, ConcatProperties
<1>5. QED BY <1>1, <1>3, <1>4 DEF LogsOf

\* No branch has ended: the logs are those of the run.
LEMMA LogsOfNone ==
    ASSUME NEW logs \in Seq(LogEntries)
    PROVE  LogsOf(logs, <<>>) = logs
<1>1. [k \in DOMAIN <<>> |-> <<"branch", <<>>[k]>>] = <<>>
  OBVIOUS
<1>2. QED BY <1>1, ConcatEmptySeq DEF LogsOf

\* Another branch ends: the logs begin with what they were.
LEMMA LogsOfBranch ==
    ASSUME NEW logs \in Seq(LogEntries), NEW done \in Seq(Items), NEW i \in Items
    PROVE  Begins(LogsOf(logs, done), LogsOf(logs, Append(done, i)))
<1> DEFINE entries(d) == [k \in DOMAIN d |-> <<"branch", d[k]>>]
<1>1. /\ Append(done, i) \in Seq(Items)
      /\ Len(Append(done, i)) = Len(done) + 1
      /\ \A k \in 1..Len(done) : Append(done, i)[k] = done[k]
  OBVIOUS
<1>2. /\ entries(done) \in Seq(LogEntries)
      /\ entries(Append(done, i)) \in Seq(LogEntries)
      /\ LogsOf(logs, done) \in Seq(LogEntries)
      /\ LogsOf(logs, Append(done, i)) \in Seq(LogEntries)
  BY <1>1, LogsOfType
<1>3. /\ Len(entries(done)) = Len(done)
      /\ Len(entries(Append(done, i))) = Len(done) + 1
      /\ Len(done) \in Nat /\ Len(logs) \in Nat
      /\ \A k \in 1..Len(done) : entries(Append(done, i))[k] = entries(done)[k]
  <2>1. DOMAIN done = 1..Len(done) /\ Len(done) \in Nat /\ Len(logs) \in Nat
    BY LenProperties
  <2>2. DOMAIN Append(done, i) = 1..(Len(done) + 1)
    BY <1>1, LenProperties
  <2>3. QED BY <1>1, <1>2, <2>1, <2>2
<1>4. /\ Len(LogsOf(logs, done)) = Len(logs) + Len(done)
      /\ \A k \in 1..(Len(logs) + Len(done)) :
            LogsOf(logs, done)[k] = IF k <= Len(logs) THEN logs[k] ELSE entries(done)[k - Len(logs)]
  <2> HIDE DEF entries
  <2>1. /\ Len(logs \o entries(done)) = Len(logs) + Len(entries(done))
        /\ \A k \in 1..(Len(logs) + Len(entries(done))) :
              (logs \o entries(done))[k] =
                  IF k <= Len(logs) THEN logs[k] ELSE entries(done)[k - Len(logs)]
    BY <1>2, ConcatProperties
  <2>2. LogsOf(logs, done) = logs \o entries(done)
    BY DEF LogsOf, entries
  <2>3. QED BY <1>3, <2>1, <2>2
<1>5. /\ Len(LogsOf(logs, Append(done, i))) = Len(logs) + Len(done) + 1
      /\ \A k \in 1..(Len(logs) + Len(done) + 1) :
            LogsOf(logs, Append(done, i))[k] =
                IF k <= Len(logs) THEN logs[k] ELSE entries(Append(done, i))[k - Len(logs)]
  <2> DEFINE more == entries(Append(done, i))
  <2>1. LogsOf(logs, Append(done, i)) = logs \o more
    BY DEF LogsOf
  <2>2. more \in Seq(LogEntries) /\ Len(more) = Len(done) + 1
    BY <1>2, <1>3
  <2> HIDE DEF more
  <2>3. /\ Len(logs \o more) = Len(logs) + Len(more)
        /\ \A k \in 1..(Len(logs) + Len(more)) :
              (logs \o more)[k] = IF k <= Len(logs) THEN logs[k] ELSE more[k - Len(logs)]
    BY <2>2, ConcatProperties
  <2>4. Len(logs) + Len(more) = Len(logs) + Len(done) + 1
    BY <1>3, <2>2
  <2>5. QED BY <2>1, <2>3, <2>4 DEF more
<1>6. ASSUME NEW k \in 1..(Len(logs) + Len(done))
      PROVE  LogsOf(logs, done)[k] = LogsOf(logs, Append(done, i))[k]
  <2>1. k \in 1..(Len(logs) + Len(done) + 1)
    BY <1>3
  <2>2. CASE k <= Len(logs)
    BY <1>4, <1>5, <2>1, <2>2
  <2>3. CASE ~(k <= Len(logs))
    <3>1. k - Len(logs) \in 1..Len(done)
      BY <1>3, <2>3
    <3>2. QED BY <1>3, <1>4, <1>5, <2>1, <2>3, <3>1
  <2>4. QED BY <2>2, <2>3
<1>7. QED BY <1>3, <1>4, <1>5, <1>6 DEF Begins

\* Begins is transitive.
LEMMA BeginsTransitive ==
    ASSUME NEW E, NEW s \in Seq(E), NEW t \in Seq(E), NEW u \in Seq(E),
           Begins(s, t), Begins(t, u)
    PROVE  Begins(s, u)
<1>1. Len(s) \in Nat /\ Len(t) \in Nat /\ Len(u) \in Nat
  BY LenProperties
<1>2. QED BY <1>1 DEF Begins

\* A list of clauses as it is loaded, and of the first n of them.
ClausesOf(clauses) == IF clauses = <<>> THEN NoClauses ELSE clauses
ClausesUpTo(n) == IF n = 0 THEN NoClauses ELSE UpTo(n)

\* What a list is that is loaded as the first n clauses.
LEMMA ClausesAre ==
    ASSUME NEW n \in Nat, NEW clauses, ClausesOf(clauses) = ClausesUpTo(n)
    PROVE  \/ n = 0 /\ clauses \in {<<>>, NoClauses}
           \/ n # 0 /\ clauses = UpTo(n) /\ clauses \notin {<<>>, NoClauses}
<1>1. n # 0 => UpTo(n) # NoClauses /\ UpTo(n) # <<>>
  <2>1. n # 0 => UpTo(n)[1] = 1 /\ Len(UpTo(n)) = n
    BY DEF UpTo
  <2>2. NoClauses[1] = 0 /\ Len(<<>>) = 0
    BY DEF NoClauses
  <2>3. QED BY <2>1, <2>2
<1>2. QED BY <1>1 DEF ClausesOf, ClausesUpTo

\* The first n clauses are loaded as they are.
LEMMA ClausesLoaded ==
    ASSUME NEW n \in Nat
    PROVE  /\ ClausesOf(ClausesUpTo(n)) = ClausesUpTo(n) /\ ClausesOf(UpTo(n)) = ClausesUpTo(n)
           /\ ClausesUpTo(n) \in Seq(Nat) /\ UpTo(n) \in Seq(Nat)
<1>1. UpTo(n) \in Seq(Nat) /\ Len(UpTo(n)) = n /\ (n = 0 => UpTo(n) = <<>>)
  BY DEF UpTo
<1>2. NoClauses \in Seq(Nat) /\ NoClauses # <<>>
  BY DEF NoClauses
<1>3. QED BY <1>1, <1>2 DEF ClausesOf, ClausesUpTo

\* The rows a list of risks leaves behind in an empty table.
RowsOf(risks) == IF risks = NoRisks THEN NoFindings ELSE risks

\* No list of risks is None, and what is loaded are the rows.
LEMMA RisksLoaded ==
    /\ NoRisks \notin RiskLists /\ NoFindings \in RiskLists
    /\ \A risks : RisksOf(RisksOf(risks)) = RisksOf(risks)
    /\ \A rows \in RiskLists : /\ RisksOf(rows) \in RiskLists \cup {NoRisks}
                               /\ RowsOf(RisksOf(rows)) = rows
    /\ \A rows \in RiskLists, risks \in RiskLists \cup {NoRisks} :
          RisksOf(risks) = RisksOf(rows) <=> RowsOf(risks) = rows
<1>1. NoRisks \notin RiskLists
  <2>1. DOMAIN NoRisks = {"null"}
    BY DEF NoRisks
  <2>2. \A risks \in RiskLists : DOMAIN risks \subseteq Risks
    BY DEF RiskLists
  <2>3. QED BY <2>1, <2>2, StoreAssumption
<1>2. NoFindings \in RiskLists
  BY DEF NoFindings, RiskLists
<1>3. QED BY <1>1, <1>2 DEF RisksOf, RowsOf

\* What is loaded of a state: empty lists have become None.
LEMMA LoadedState ==
    ASSUME NEW state \in States
    PROVE  AsLoaded(state) = [status |-> state.status, results |-> state.results,
                              resume_from |-> state.resume_from,
                              clauses |-> ClausesOf(state.clauses),
                              risks |-> RisksOf(state.risks), logs |-> state.logs]
<1> DEFINE clauses == ClausesOf(state.clauses)
           risks == RisksOf(state.risks)
           loaded == [state EXCEPT !.clauses = clauses, !.risks = risks]
<1>1. AsLoaded(state) = loaded
  BY DEF AsLoaded, States, ClausesOf
<1>2. clauses \in Seq(Nat) /\ risks \in RiskLists \cup {NoRisks}
  BY DEF States, ClausesOf, RisksOf, NoClauses
<1> HIDE DEF clauses, risks
<1>3. /\ loaded \in States
      /\ loaded.status = state.status /\ loaded.results = state.results
      /\ loaded.resume_from = state.resume_from /\ loaded.clauses = clauses
      /\ loaded.risks = risks /\ loaded.logs = state.logs
  BY <1>2 DEF States
<1> HIDE DEF loaded
<1>4. loaded = [status |-> state.status, results |-> state.results,
                resume_from |-> state.resume_from, clauses |-> clauses, risks |-> risks,
                logs |-> state.logs]
  BY <1>3 DEF States
<1>5. QED BY <1>1, <1>4 DEF clauses, risks

\* What the tables hold is a state, with the completed clauses in their order.
LEMMA TablesType ==
    ASSUME TypeOK, ClausesInOrder
    PROVE  /\ StateFromTask(row) \in States
           /\ AsLoaded(StateFromTask(row)) = StateFromTask(row)
           /\ Clauses = ClausesUpTo(CompletedClauses)
           /\ CompletedClauses \in 0..N
<1>1. CompletedClauses \in 0..N /\ CompletedClauses \in Nat /\ clauseRows = 1..CompletedClauses
  BY StoreAssumption DEF ClausesInOrder
<1>2. Clauses = ClausesUpTo(CompletedClauses)
  <2>1. clauseRows = {} <=> CompletedClauses = 0
    BY <1>1
  <2>2. QED BY <1>1, <2>1, OrderedUpTo DEF Clauses, ClausesUpTo
<1>3. ClausesUpTo(CompletedClauses) \in Seq(Nat) /\ ClausesOf(Clauses) = Clauses
  BY <1>1, <1>2, ClausesLoaded
<1>4. RisksOf(riskRows) \in RiskLists \cup {NoRisks} /\ RisksOf(RisksOf(riskRows)) = RisksOf(riskRows)
  BY RisksLoaded DEF TypeOK, TablesTypeOK
<1>5. StateFromTask(row) \in States
  BY <1>2, <1>3, <1>4 DEF StateFromTask, States, TypeOK, TablesTypeOK
<1>6. AsLoaded(StateFromTask(row)) = StateFromTask(row)
  BY <1>3, <1>4, <1>5, LoadedState DEF StateFromTask
<1>7. QED BY <1>1, <1>2, <1>5, <1>6

\* Whoever writes starts from what the tables hold.
LEMMA RefreshIsCurrent ==
    ASSUME TypeOK, ClausesInOrder, CacheIsCurrent, lock # "worker", NEW p
    PROVE  /\ Refreshed(p).state \in States
           /\ AsLoaded(Refreshed(p).state) = StateFromTask(row)
           /\ Refreshed(p).last = LastId
<1>1. CASE Owner(p) /\ cache # NoCache /\ Trusted
  <2>1. Refreshed(p) = cache
    BY <1>1 DEF Refreshed
  <2>2. cache.state \in States
    BY <1>1 DEF TypeOK, TablesTypeOK
  <2>3. QED BY <1>1, <2>1, <2>2 DEF CacheIsCurrent, Trusted
<1>2. CASE ~(Owner(p) /\ cache # NoCache /\ Trusted)
  <2>1. Refreshed(p) = Loaded
    BY <1>2 DEF Refreshed
  <2>2. QED BY <2>1, TablesType DEF Loaded
<1>3. QED BY <1>1, <1>2

-----------------------------------------------------------------------------
(* What an update leaves behind.                                           *)

\* update_task has committed the state new, and saved all of it: the first n
\* clauses are there.
Wrote(p, new, n) ==
    /\ lock = "free" /\ lock' = p
    /\ p = "worker" => loading = NotLoading
    /\ row' = [status |-> new.status, results |-> new.results, resume_from |-> new.resume_from]
    /\ clauseRows' = 1..n
    /\ riskRows' = RowsOf(new.risks)
    /\ logRows' = new.logs
    /\ events' = Append(events, new.status)
    /\ saved' = new

\* A full update saves the whole state, if it keeps the completed clauses and
\* does not clear the list of risks.
LEMMA FullSaves ==
    ASSUME TypeOK, ClausesInOrder, CacheIsCurrent,
           NEW p \in Processes, NEW new \in States, Full(p, new),
           ClausesOf(new.clauses) = ClausesUpTo(CompletedClauses),
           new.risks = NoRisks => riskRows = NoFindings
    PROVE  Wrote(p, new, CompletedClauses) /\ clauseRows' = clauseRows
<1>1. CompletedClauses \in Nat /\ clauseRows = 1..CompletedClauses
  BY StoreAssumption DEF ClausesInOrder
<1>2. \/ CompletedClauses = 0 /\ new.clauses \in {<<>>, NoClauses}
      \/ new.clauses = UpTo(CompletedClauses) /\ new.clauses # NoClauses
  BY <1>1, ClausesAre
<1>3. clauseRows' = 1..CompletedClauses
  <2>1. ToSet(UpTo(CompletedClauses)) = 1..CompletedClauses
    BY <1>1 DEF ToSet, UpTo
  <2>2. ToSet(<<>>) = {} /\ 1..0 = {}
    BY DEF ToSet
  <2>3. clauseRows' = IF new.clauses = NoClauses THEN clauseRows ELSE ToSet(new.clauses)
    BY DEF Full, SaveClauses
  <2>4. CASE new.clauses = NoClauses
    BY <1>1, <2>3, <2>4
  <2>5. CASE new.clauses # NoClauses
    BY <1>2, <2>1, <2>2, <2>3, <2>5
  <2>6. QED BY <2>4, <2>5
<1>4. riskRows' = RowsOf(new.risks) /\ logRows' = new.logs
  BY DEF Full, SaveRisks, SaveLogs, RowsOf
<1>5. QED BY <1>1, <1>3, <1>4 DEF Full, Commit, MayUpdate, SaveRow, AppendEvent, Wrote

\* A progress update saves the whole state, if its log begins with the
\* persisted one, the risks are as they were, and the clauses are the completed
\* ones or, published by the extraction, one more.
LEMMA ProgressSaves ==
    ASSUME TypeOK, ClausesInOrder, CacheIsCurrent,
           NEW new \in States, NEW step, Progress("worker", new, step),
           Begins(logRows, new.logs), RowsOf(new.risks) = riskRows,
           NEW n \in 0..N, ClausesOf(new.clauses) = ClausesUpTo(n),
           IF step = "key_field_extract" THEN n \in {CompletedClauses, CompletedClauses + 1}
                                         ELSE n = CompletedClauses
    PROVE  Wrote("worker", new, n) /\ clauseRows \subseteq clauseRows'
<1>1. CompletedClauses \in Nat /\ clauseRows = 1..CompletedClauses /\ n \in Nat
  BY StoreAssumption DEF ClausesInOrder
<1>2. \/ n = 0 /\ new.clauses \in {<<>>, NoClauses}
      \/ n # 0 /\ new.clauses = UpTo(n) /\ new.clauses \notin {<<>>, NoClauses}
  BY <1>1, ClausesAre
<1>3. clauseRows' = 1..n
  <2>1. CASE step # "key_field_extract"
    BY <1>1, <2>1 DEF Progress, SaveClauseProgress
  <2>2. CASE step = "key_field_extract" /\ n = 0
    <3>1. new.clauses \in {NoClauses, <<>>}
      BY <1>2, <2>2
    <3>2. QED BY <2>2, <3>1 DEF Progress, SaveClauseProgress
  <2>3. CASE step = "key_field_extract" /\ n # 0
    <3>1. new.clauses \notin {NoClauses, <<>>} /\ Last(new.clauses) = n
      BY <1>1, <1>2, <2>3 DEF Last, UpTo
    <3>2. clauseRows' = clauseRows \cup {n}
      BY <2>3, <3>1 DEF Progress, SaveClauseProgress
    <3>3. QED BY <1>1, <2>3, <3>2
  <2>4. QED BY <2>1, <2>2, <2>3
<1>4. logRows' = new.logs
  <2>1. new.logs \in Seq(LogEntries) /\ logRows \in Seq(LogEntries)
    BY DEF States, TypeOK, TablesTypeOK
  <2>2. NewLogs(new.logs) = new.logs
    BY <2>1, NewLogsSuffice DEF NewLogs
  <2>3. QED BY <2>2 DEF Progress, SaveResultProgress
<1>5. riskRows' = RowsOf(new.risks)
  BY DEF Progress, SaveResultProgress, SaveRisks, RowsOf
<1>6. clauseRows \subseteq clauseRows'
  BY <1>1, <1>3
<1>7. QED BY <1>3, <1>4, <1>5, <1>6
          DEF Progress, Commit, MayUpdate, SaveRow, AppendEvent, Wrote

-----------------------------------------------------------------------------
(* What an update keeps.                                                   *)

\* The part of the invariant that is about the tables and their copies.
TablesInv ==
    /\ TablesTypeOK
    /\ TablesAreTheState
    /\ ClausesInOrder
    /\ CacheIsCurrent
    /\ LoadIsCurrent

\* The part that is about the run and the request.
RunInv ==
    /\ RunTypeOK
    /\ LogsAreBegun
    /\ RequestsDoNotDisturb
    /\ BatchContinues

IInv == TablesInv /\ RunInv

\* After an update the tables are the state again; a cache or a load that has
\* missed it is behind, and the API leaves results and resume_from alone.
LEMMA WroteKeeps ==
    ASSUME TablesInv, NEW p \in Processes, NEW new \in States,
           NEW n \in 0..N, Wrote(p, new, n), ClausesOf(new.clauses) = ClausesUpTo(n),
           UNCHANGED <<cache, loading>>,
           p = "api" => new.results = row.results /\ new.resume_from = row.resume_from
    PROVE  TablesInv' /\ CompletedClauses' = n
<1>1. n \in Nat /\ N \in Nat
  BY StoreAssumption
<1>2. RowsOf(new.risks) \in RiskLists /\ RisksOf(RowsOf(new.risks)) = RisksOf(new.risks)
  <2>1. new.risks \in RiskLists \cup {NoRisks}
    BY DEF States
  <2>2. CASE new.risks = NoRisks
    BY <2>2, RisksLoaded DEF RowsOf, RisksOf
  <2>3. CASE new.risks \in RiskLists
    BY <2>3, RisksLoaded DEF RowsOf
  <2>4. QED BY <2>1, <2>2, <2>3
<1>3. clauseRows' = 1..n /\ CompletedClauses' = n
  BY <1>1, OrderedUpTo DEF CompletedClauses, Wrote
<1>4. ClausesInOrder'
  BY <1>3 DEF ClausesInOrder
<1>5. Clauses' = ClausesOf(new.clauses)
  <2>1. 1..n = {} <=> n = 0
    BY <1>1
  <2>2. QED BY <1>1, <1>3, <2>1, OrderedUpTo DEF Clauses, ClausesUpTo
<1>6. TablesAreTheState'
  <2>1. AsLoaded(new) = [status |-> new.status, results |-> new.results,
               resume_from |-> new.resume_from, clauses |-> ClausesOf(new.clauses),
               risks |-> RisksOf(new.risks), logs |-> new.logs]
    BY LoadedState
  <2>2. StateFromTask(row)' = [status |-> new.status, results |-> new.results,
               resume_from |-> new.resume_from, clauses |-> ClausesOf(new.clauses),
               risks |-> RisksOf(new.risks), logs |-> new.logs]
    BY <1>2, <1>5 DEF StateFromTask, Wrote
  <2>3. QED BY <2>1, <2>2 DEF TablesAreTheState, Wrote
<1>7. LastId' = LastId + 1 /\ LastId \in Int /\ events' \in Seq(Statuses)
  <2>1. events \in Seq(Statuses) /\ new.status \in Statuses
    BY DEF TablesInv, TablesTypeOK, States
  <2>2. Len(events') = Len(events) + 1 /\ events' \in Seq(Statuses) /\ Len(events) \in Nat
    BY <2>1 DEF Wrote
  <2>3. QED BY <2>2 DEF LastId
<1>8. TablesTypeOK'
  <2>1. clauseRows' \in SUBSET Items
    BY <1>1, <1>3 DEF Items
  <2>2. /\ row' \in [status : Statuses, results : SUBSET Items, resume_from : Statuses]
        /\ riskRows' \in RiskLists
        /\ logRows' \in Seq(LogEntries)
        /\ saved' \in States
    BY <1>2 DEF Wrote, States
  <2>3. QED BY <1>7, <2>1, <2>2 DEF TablesInv, TablesTypeOK
<1>9. CacheIsCurrent'
  <2>1. cache.last \in Int /\ cache.last <= LastId
    BY DEF TablesInv, TablesTypeOK, CacheIsCurrent, NoCache
  <2>2. cache'.last <= LastId' /\ cache'.last # LastId'
    BY <1>7, <2>1
  <2>3. QED BY <2>2 DEF CacheIsCurrent, Trusted
<1>10. LoadIsCurrent'
  <2>1. CASE p = "worker"
    BY <2>1 DEF LoadIsCurrent, Wrote
  <2>2. CASE p = "api"
    <3>1. row'.results = row.results /\ row'.resume_from = row.resume_from
      BY <2>2 DEF Wrote
    <3>2. loading # NotLoading => loading.last \in Int
      BY DEF TablesInv, TablesTypeOK
    <3>3. QED BY <1>7, <3>1, <3>2 DEF TablesInv, LoadIsCurrent
  <2>3. QED BY <2>1, <2>2 DEF Processes
<1>11. QED BY <1>3, <1>4, <1>6, <1>8, <1>9, <1>10 DEF TablesInv

\* What a step may not take back.
Keeps ==
    /\ IInv'
    /\ clauseRows \subseteq clauseRows'
    /\ \/ EndsAnalysis
       \/ RequestWrite /\ DecidesMore(riskRows, riskRows')
       \/ riskRows' = riskRows

\* A node of the run writes.
LEMMA NodeSavesKeeps ==
    ASSUME IInv, NEW new \in States, NEW pc, NodeSaves(new, pc),
           ClausesOf(new.clauses) = ClausesUpTo(CompletedClauses),
           new.risks = NoRisks => riskRows = NoFindings
    PROVE  /\ Wrote("worker", new, CompletedClauses)
           /\ TablesInv' /\ clauseRows' = clauseRows
           /\ run' = [run EXCEPT !.pc = pc] /\ request' = request
<1>1. TypeOK /\ CompletedClauses \in 0..N
  BY DEF IInv, TablesInv, RunInv, TypeOK, ClausesInOrder
<1>2. Wrote("worker", new, CompletedClauses) /\ clauseRows' = clauseRows
  BY <1>1, FullSaves DEF IInv, TablesInv, NodeSaves, Processes
<1>3. TablesInv'
  BY <1>1, <1>2, WroteKeeps DEF IInv, NodeSaves, Processes
<1>4. QED BY <1>2, <1>3 DEF NodeSaves

\* The state a node of the run starts from.
LEMMA CurrentIsCurrent ==
    ASSUME IInv, WorkerIdle
    PROVE  /\ Current \in States
           /\ ClausesOf(Current.clauses) = ClausesUpTo(CompletedClauses)
           /\ RowsOf(Current.risks) = riskRows
           /\ Current.risks = NoRisks => riskRows = NoFindings
           /\ Current.status = row.status /\ Current.logs = logRows
           /\ CompletedClauses \in 0..N
<1>1. TypeOK /\ ClausesInOrder
  BY DEF IInv, TablesInv, RunInv, TypeOK
<1>2. Current \in States /\ AsLoaded(Current) = StateFromTask(row)
  BY <1>1, RefreshIsCurrent DEF IInv, TablesInv, WorkerIdle, Current
<1>3. /\ Current.status = row.status /\ Current.logs = logRows
      /\ ClausesOf(Current.clauses) = Clauses /\ RisksOf(Current.risks) = RisksOf(riskRows)
  BY <1>2, LoadedState DEF StateFromTask
<1>4. RowsOf(Current.risks) = riskRows
  BY <1>1, <1>2, <1>3, RisksLoaded DEF States, TypeOK, TablesTypeOK
<1>5. QED BY <1>1, <1>2, <1>3, <1>4, TablesType DEF RowsOf

\* The logs of the run are a list of log entries.
LEMMA AllLogsType ==
    ASSUME RunTypeOK
    PROVE  AllLogs(run.done) \in Seq(LogEntries) /\ Begins(run.logs, AllLogs(run.done))
BY LogsOfType DEF RunTypeOK, AllLogs, LogsOf

\* A run that is no longer in its nodes: what is left to keep.
LEMMA LeavingNodes ==
    ASSUME RunInv, NEW pc \in {"tail", "end"}, run' = [run EXCEPT !.pc = pc],
           request' = request,
           request.kind = "feedback" => /\ row'.status \in Terminal \ Cancelling
                                        /\ riskRows' = riskRows
    PROVE  RunInv'
<1>1. run'.pc = pc /\ RunTypeOK'
  BY DEF RunInv, RunTypeOK
<1>2. QED BY <1>1 DEF RunInv, LogsAreBegun, RequestsDoNotDisturb, BatchContinues, InNodes

\* A feedback request is no request to a run in its nodes.
LEMMA NoFeedbackInNodes ==
    ASSUME RunInv, InNodes
    PROVE  request.kind # "feedback"
BY DEF RunInv, RequestsDoNotDisturb, Recoverable, Terminal, Completed, Failed, Cancelling

\* The run goes from node to node: what is left to keep, if its logs still begin
\* with the persisted ones.
LEMMA StayingInNodes ==
    ASSUME RunInv, InNodes, RunTypeOK', request' = request,
           run'.pc \in {"node", "restored", "branches", "analyzed"},
           row'.status \in Recoverable,
           run'.pc \in {"node", "restored"} => run'.done = <<>>,
           Begins(logRows, AllLogs(run.done))'
    PROVE  RunInv'
<1>1. request'.kind # "feedback"
  BY NoFeedbackInNodes
<1>2. RequestsDoNotDisturb' /\ LogsAreBegun' /\ BatchContinues'
  BY <1>1 DEF RequestsDoNotDisturb, LogsAreBegun, BatchContinues, InNodes
<1>3. QED BY <1>2 DEF RunInv

\* The nodes up to the classification.
LEMMA ClassifiedKeeps ==
    ASSUME IInv, Classified
    PROVE  Keeps
<1> DEFINE new == [Current EXCEPT !.status = "CONTRACT_TYPE_CLASSIFIED", !.logs = run.logs]
<1>1. /\ NodeSaves(new, "node") /\ WorkerIdle /\ run.pc = "node"
      /\ row.status \in {"START", "UPLOAD_RECEIVED"}
  BY DEF Classified, NodeSaves
<1>2. /\ new \in States /\ ClausesOf(new.clauses) = ClausesUpTo(CompletedClauses)
      /\ RowsOf(new.risks) = riskRows /\ (new.risks = NoRisks => riskRows = NoFindings)
      /\ new.status = "CONTRACT_TYPE_CLASSIFIED" /\ new.logs = run.logs
  BY <1>1, CurrentIsCurrent DEF States, Statuses, ReviewStatuses, Recoverable, IInv, RunInv, RunTypeOK
<1> HIDE DEF new
<1>3. /\ Wrote("worker", new, CompletedClauses) /\ TablesInv' /\ clauseRows' = clauseRows
      /\ run' = [run EXCEPT !.pc = "node"] /\ request' = request
  BY <1>1, <1>2, NodeSavesKeeps
<1>4. run' = run
  BY <1>1, <1>3 DEF IInv, RunInv, RunTypeOK
<1>5. row'.status = "CONTRACT_TYPE_CLASSIFIED" /\ logRows' = run.logs /\ riskRows' = riskRows
  BY <1>2, <1>3 DEF Wrote
<1>6. RunTypeOK'
  BY <1>3, <1>4 DEF IInv, RunInv, RunTypeOK
<1>7. Begins(logRows, AllLogs(run.done))' /\ run'.done = <<>>
  <2>1. Begins(run.logs, AllLogs(run.done)) /\ run.done = <<>>
    BY <1>1, AllLogsType DEF IInv, RunInv, LogsAreBegun
  <2>2. AllLogs(run.done)' = AllLogs(run.done)
    BY <1>4 DEF AllLogs
  <2>3. QED BY <1>4, <1>5, <2>1, <2>2
<1>8. RunInv'
  BY <1>1, <1>3, <1>4, <1>5, <1>6, <1>7, StayingInNodes DEF IInv, InNodes, Recoverable
<1>9. QED BY <1>3, <1>5, <1>8 DEF Keeps, IInv

\* The classification ends the review, or an answer for the extraction does.
LEMMA EarlyEndKeeps ==
    ASSUME IInv, ClassifyEnds \/ StructureEnds
    PROVE  Keeps
<1>1. PICK status \in Statuses, results \in SUBSET Items :
          /\ WorkerIdle
          /\ NodeSaves([Current EXCEPT !.status = status, !.results = results,
                                       !.risks = NoFindings, !.logs = run.logs], "tail")
  <2>1. CASE ClassifyEnds
    <3>1. PICK end \in {"UNSUPPORTED_CONTRACT_TYPE", "NEED_MANUAL_REVIEW"} :
              NodeSaves([Current EXCEPT !.status = end, !.risks = NoFindings,
                                        !.logs = run.logs], "tail")
      BY <2>1 DEF ClassifyEnds
    <3>2. WorkerIdle /\ Current \in States
      BY <3>1, CurrentIsCurrent DEF NodeSaves
    <3>3. [Current EXCEPT !.status = end, !.risks = NoFindings, !.logs = run.logs]
            = [Current EXCEPT !.status = end, !.results = Current.results, !.risks = NoFindings,
                              !.logs = run.logs]
      BY <3>2 DEF States
    <3>4. end \in Statuses /\ Current.results \in SUBSET Items
      BY <3>2 DEF States, Statuses, ReviewStatuses, Terminal, Completed
    <3>5. QED BY <3>1, <3>2, <3>3, <3>4
  <2>2. CASE StructureEnds
    <3>1. "LLM_OUTPUT_INVALID" \in Statuses /\ WorkerIdle
      BY <2>2 DEF StructureEnds, NodeSaves, Statuses, ReviewStatuses, Terminal, Failed
    <3>2. QED BY <2>2, <3>1 DEF StructureEnds
  <2>3. QED BY <2>1, <2>2
<1> DEFINE new == [Current EXCEPT !.status = status, !.results = results, !.risks = NoFindings,
                                  !.logs = run.logs]
<1>2. /\ new \in States /\ ClausesOf(new.clauses) = ClausesUpTo(CompletedClauses)
      /\ new.risks # NoRisks
  BY <1>1, CurrentIsCurrent, RisksLoaded DEF States, IInv, RunInv, RunTypeOK
<1> HIDE DEF new
<1>3. /\ TablesInv' /\ clauseRows' = clauseRows
      /\ run' = [run EXCEPT !.pc = "tail"] /\ request' = request
  BY <1>1, <1>2, NodeSavesKeeps DEF new
<1>4. request.kind # "feedback"
  BY NoFeedbackInNodes DEF IInv, InNodes, ClassifyEnds, StructureEnds
<1>5. RunInv'
  BY <1>3, <1>4, LeavingNodes DEF IInv
<1>6. QED BY <1>3, <1>5 DEF Keeps, IInv, EndsAnalysis

\* All clauses are there, and the contexts are built from them.
LEMMA ContextsBuiltKeeps ==
    ASSUME IInv, ContextsBuilt
    PROVE  Keeps
<1> DEFINE new == [Current EXCEPT !.status = "CONTEXT_BUILT", !.clauses = [k \in Items |-> k],
                                  !.logs = run.logs]
<1>1. /\ NodeSaves(new, "node") /\ WorkerIdle /\ run.pc = "structure" /\ clauseRows = Items
  BY DEF ContextsBuilt, NodeSaves
<1>2. /\ ClausesOf([k \in Items |-> k]) = ClausesUpTo(CompletedClauses)
      /\ [k \in Items |-> k] \in Seq(Nat)
  <2>1. CompletedClauses = N /\ N \in Nat
    <3>1. N \in Nat
      BY StoreAssumption
    <3>2. QED BY <1>1, <3>1, OrderedUpTo DEF CompletedClauses, Items
  <2>2. [k \in Items |-> k] = UpTo(N)
    BY DEF UpTo, Items
  <2>3. QED BY <2>1, <2>2, ClausesLoaded
<1>3. /\ new \in States /\ ClausesOf(new.clauses) = ClausesUpTo(CompletedClauses)
      /\ RowsOf(new.risks) = riskRows /\ (new.risks = NoRisks => riskRows = NoFindings)
      /\ new.status = "CONTEXT_BUILT" /\ new.logs = run.logs
  BY <1>1, <1>2, CurrentIsCurrent
     DEF States, Statuses, ReviewStatuses, Recoverable, IInv, RunInv, RunTypeOK
<1> HIDE DEF new
<1>4. /\ Wrote("worker", new, CompletedClauses) /\ TablesInv' /\ clauseRows' = clauseRows
      /\ run' = [run EXCEPT !.pc = "node"] /\ request' = request
  BY <1>1, <1>3, NodeSavesKeeps
<1>5. row'.status = "CONTEXT_BUILT" /\ logRows' = run.logs /\ riskRows' = riskRows
  BY <1>3, <1>4 DEF Wrote
<1>6. RunTypeOK' /\ run'.pc = "node" /\ run'.logs = run.logs /\ run'.done = run.done
  BY <1>4 DEF IInv, RunInv, RunTypeOK
<1>7. Begins(logRows, AllLogs(run.done))' /\ run'.done = <<>>
  <2>1. Begins(run.logs, AllLogs(run.done)) /\ run.done = <<>>
    BY <1>1, AllLogsType DEF IInv, RunInv, LogsAreBegun
  <2>2. AllLogs(run.done)' = AllLogs(run.done)
    BY <1>6 DEF AllLogs
  <2>3. QED BY <1>5, <1>6, <2>1, <2>2
<1>8. RunInv'
  BY <1>1, <1>4, <1>5, <1>6, <1>7, StayingInNodes DEF IInv, InNodes, Recoverable
<1>9. QED BY <1>4, <1>5, <1>8 DEF Keeps, IInv

\* The analyses of all branches are written, and no risks yet.
LEMMA AnalyzedKeeps ==
    ASSUME IInv, Analyzed
    PROVE  Keeps
<1> DEFINE new == [Current EXCEPT !.status = "RISK_ANALYZED", !.results = Items,
                                  !.logs = AllLogs(run.done)]
<1>1. NodeSaves(new, "analyzed") /\ WorkerIdle /\ run.pc = "branches"
  BY DEF Analyzed, NodeSaves
<1>2. AllLogs(run.done) \in Seq(LogEntries)
  BY AllLogsType DEF IInv, RunInv
<1>3. /\ new \in States /\ ClausesOf(new.clauses) = ClausesUpTo(CompletedClauses)
      /\ RowsOf(new.risks) = riskRows /\ (new.risks = NoRisks => riskRows = NoFindings)
      /\ new.status = "RISK_ANALYZED" /\ new.logs = AllLogs(run.done)
  BY <1>1, <1>2, CurrentIsCurrent DEF States, Statuses, ReviewStatuses, Recoverable
<1> HIDE DEF new
<1>4. /\ Wrote("worker", new, CompletedClauses) /\ TablesInv' /\ clauseRows' = clauseRows
      /\ run' = [run EXCEPT !.pc = "analyzed"] /\ request' = request
  BY <1>1, <1>3, NodeSavesKeeps
<1>5. row'.status = "RISK_ANALYZED" /\ logRows' = AllLogs(run.done) /\ riskRows' = riskRows
  BY <1>3, <1>4 DEF Wrote
<1>6. RunTypeOK' /\ run'.pc = "analyzed" /\ run'.logs = run.logs /\ run'.done = run.done
  BY <1>4 DEF IInv, RunInv, RunTypeOK
<1>7. Begins(logRows, AllLogs(run.done))'
  <2>1. Begins(AllLogs(run.done), AllLogs(run.done))
    BY <1>2, LenProperties DEF Begins
  <2>2. AllLogs(run.done)' = AllLogs(run.done)
    BY <1>6 DEF AllLogs
  <2>3. QED BY <1>5, <2>1, <2>2
<1>8. RunInv'
  BY <1>1, <1>4, <1>5, <1>6, <1>7, StayingInNodes DEF IInv, InNodes, Recoverable
<1>9. QED BY <1>4, <1>5, <1>8 DEF Keeps, IInv

\* The findings of the run replace the risks.
LEMMA AggregateKeeps ==
    ASSUME IInv, Aggregate \/ AggregateEnds
    PROVE  Keeps
<1>1. PICK end \in {"HUMAN_REVIEW_PENDING", "EVIDENCE_VERIFIED", "NEED_MANUAL_REVIEW",
                    "RETRIEVAL_FAILED", "LLM_OUTPUT_INVALID"}, risks \in Findings(Current.risks) :
          NodeSaves([Current EXCEPT !.status = end, !.results = Items, !.risks = risks,
                                    !.logs = AllLogs(run.done)], "tail")
  BY DEF Aggregate, AggregateEnds
<1> DEFINE new == [Current EXCEPT !.status = end, !.results = Items, !.risks = risks,
                                  !.logs = AllLogs(run.done)]
<1>2. WorkerIdle /\ InNodes
  BY <1>1 DEF Aggregate, AggregateEnds, NodeSaves, InNodes
<1>3. risks \in RiskLists /\ end \in Statuses
  BY <1>1 DEF Findings, RiskLists, Statuses, ReviewStatuses, Terminal, Completed, Failed
<1>4. /\ new \in States /\ ClausesOf(new.clauses) = ClausesUpTo(CompletedClauses)
      /\ new.risks # NoRisks
  BY <1>2, <1>3, CurrentIsCurrent, AllLogsType, RisksLoaded DEF States, IInv, RunInv
<1> HIDE DEF new
<1>5. /\ TablesInv' /\ clauseRows' = clauseRows
      /\ run' = [run EXCEPT !.pc = "tail"] /\ request' = request
  BY <1>1, <1>4, NodeSavesKeeps DEF new
<1>6. request.kind # "feedback"
  BY <1>2, NoFeedbackInNodes DEF IInv
<1>7. RunInv'
  BY <1>5, <1>6, LeavingNodes DEF IInv
<1>8. QED BY <1>5, <1>7 DEF Keeps, IInv, EndsAnalysis

\* The end of a run that fails after its result.
LEMMA TailFailsKeeps ==
    ASSUME IInv, TailFails
    PROVE  Keeps
<1> DEFINE status == IF Current.status \in Cancelling THEN "CANCELLED" ELSE "TASK_ERROR"
           new == [Current EXCEPT !.status = status, !.logs = AllLogs(run.done)]
<1>1. NodeSaves(new, "end") /\ WorkerIdle
  BY DEF TailFails, NodeSaves
<1>2. Current.status = row.status
  BY <1>1, CurrentIsCurrent
<1>3. /\ new \in States /\ ClausesOf(new.clauses) = ClausesUpTo(CompletedClauses)
      /\ RowsOf(new.risks) = riskRows /\ (new.risks = NoRisks => riskRows = NoFindings)
      /\ new.status = status
  <2>1. status \in Statuses
    BY DEF Statuses, ReviewStatuses, Terminal, Failed
  <2> HIDE DEF status
  <2>2. QED BY <1>1, <2>1, CurrentIsCurrent, AllLogsType DEF States, IInv, RunInv
<1> HIDE DEF new
<1>4. /\ Wrote("worker", new, CompletedClauses) /\ TablesInv' /\ clauseRows' = clauseRows
      /\ run' = [run EXCEPT !.pc = "end"] /\ request' = request
  BY <1>1, <1>3, NodeSavesKeeps
<1>5. row'.status = status /\ riskRows' = riskRows
  BY <1>3, <1>4 DEF Wrote
<1>6. request.kind = "feedback" => row'.status \in Terminal \ Cancelling
  <2>1. request.kind = "feedback" => row'.status = "TASK_ERROR"
    BY <1>2, <1>5 DEF IInv, RunInv, RequestsDoNotDisturb
  <2>2. QED BY <2>1 DEF Terminal, Failed, Cancelling
<1>7. RunInv'
  BY <1>4, <1>5, <1>6, LeavingNodes DEF IInv
<1>8. QED BY <1>4, <1>5, <1>7 DEF Keeps, IInv

\* The end of a run in one of its nodes.
LEMMA NodeEndsKeeps ==
    ASSUME IInv, InNodes, NEW status \in Statuses, NEW resume_from \in Statuses,
           NodeSaves([Current EXCEPT !.status = status, !.resume_from = resume_from,
                                     !.logs = AllLogs(run.done)], "end")
    PROVE  Keeps
<1> DEFINE new == [Current EXCEPT !.status = status, !.resume_from = resume_from,
                                  !.logs = AllLogs(run.done)]
<1>1. NodeSaves(new, "end") /\ WorkerIdle
  BY DEF NodeSaves
<1>2. /\ new \in States /\ ClausesOf(new.clauses) = ClausesUpTo(CompletedClauses)
      /\ RowsOf(new.risks) = riskRows /\ (new.risks = NoRisks => riskRows = NoFindings)
  BY <1>1, CurrentIsCurrent, AllLogsType DEF States, IInv, RunInv
<1> HIDE DEF new
<1>3. /\ Wrote("worker", new, CompletedClauses) /\ TablesInv' /\ clauseRows' = clauseRows
      /\ run' = [run EXCEPT !.pc = "end"] /\ request' = request
  BY <1>1, <1>2, NodeSavesKeeps
<1>4. riskRows' = riskRows
  BY <1>2, <1>3 DEF Wrote
<1>5. RunInv'
  BY <1>3, NoFeedbackInNodes, LeavingNodes DEF IInv
<1>6. QED BY <1>3, <1>4, <1>5 DEF Keeps, IInv

\* A node of the run fails.
LEMMA NodeFailsKeeps ==
    ASSUME IInv, NodeFails
    PROVE  Keeps
<1>1. PICK end \in {"NODE_TIMEOUT", "TASK_ERROR"} :
          NodeSaves([Current EXCEPT !.status = end,
                                    !.resume_from = IF end = "NODE_TIMEOUT" THEN row.status ELSE @,
                                    !.logs = AllLogs(run.done)], "end")
  BY DEF NodeFails
<1> DEFINE resume_from == IF end = "NODE_TIMEOUT" THEN row.status ELSE Current.resume_from
<1>2. InNodes /\ Current \in States
  BY <1>1, CurrentIsCurrent DEF NodeFails, NodeSaves
<1>3. end \in Statuses /\ resume_from \in Statuses
  BY <1>2 DEF Statuses, ReviewStatuses, Terminal, Failed, IInv, TablesInv, TablesTypeOK, States
<1>4. NodeSaves([Current EXCEPT !.status = end, !.resume_from = resume_from,
                                !.logs = AllLogs(run.done)], "end")
  BY <1>1
<1> HIDE DEF resume_from
<1>5. QED BY <1>2, <1>3, <1>4, NodeEndsKeeps

\* The run gives in to a cancellation.
LEMMA RunCancelledKeeps ==
    ASSUME IInv, RunCancelled
    PROVE  Keeps
<1>1. WorkerIdle /\ InNodes
  BY DEF RunCancelled, NodeSaves
<1>2. /\ "CANCELLED" \in Statuses /\ Current.resume_from \in Statuses
      /\ Current \in States
  BY <1>1, CurrentIsCurrent DEF Statuses, ReviewStatuses, Terminal, States
<1>3. [Current EXCEPT !.status = "CANCELLED", !.logs = AllLogs(run.done)]
        = [Current EXCEPT !.status = "CANCELLED", !.resume_from = Current.resume_from,
                          !.logs = AllLogs(run.done)]
  BY <1>2 DEF States
<1>4. QED BY <1>1, <1>2, <1>3, NodeEndsKeeps DEF RunCancelled

\* The next clause of the extraction is published.
LEMMA ClauseProgressKeeps ==
    ASSUME IInv, ClauseProgress
    PROVE  Keeps
<1> DEFINE n == Head(run.batch)
           new == [Current EXCEPT !.clauses = [k \in 1..n |-> k], !.logs = run.logs]
<1>1. /\ WorkerIdle /\ run.pc = "structure" /\ run.batch # <<>>
      /\ Progress("worker", new, "key_field_extract")
      /\ run' = [run EXCEPT !.batch = Tail(@)]
      /\ UNCHANGED <<cache, loading, request>>
  BY DEF ClauseProgress
<1>2. /\ run.batch \in Seq(Nat) /\ run.logs \in Seq(LogEntries) /\ run.done = <<>>
      /\ AllLogs(run.done) = run.logs
      /\ Begins(logRows, run.logs)
  <2>1. run.batch \in Seq(Nat) /\ run.logs \in Seq(LogEntries) /\ run.done = <<>>
    BY <1>1 DEF IInv, RunInv, RunTypeOK, LogsAreBegun
  <2>2. AllLogs(run.done) = run.logs
    BY <2>1, LogsOfNone DEF AllLogs, LogsOf
  <2>3. QED BY <1>1, <2>1, <2>2 DEF IInv, RunInv, LogsAreBegun, InNodes
<1>3. CompletedClauses \in 0..N /\ CompletedClauses \in Nat /\ N \in Nat
  BY StoreAssumption DEF IInv, TablesInv, ClausesInOrder
<1>4. /\ n \in {CompletedClauses, CompletedClauses + 1} /\ n \in 0..N
      /\ n + Len(Tail(run.batch)) <= N
      /\ \A k \in 1..Len(Tail(run.batch)) : Tail(run.batch)[k] = n + k
  <2>1. /\ n = run.batch[1] /\ Len(run.batch) \in Nat \ {0}
        /\ Len(Tail(run.batch)) = Len(run.batch) - 1
        /\ \A k \in 1..(Len(run.batch) - 1) : Tail(run.batch)[k] = run.batch[k + 1]
    BY <1>1, <1>2
  <2>2. CASE run.batch = <<CompletedClauses>>
    BY <1>3, <2>1, <2>2
  <2>3. CASE /\ CompletedClauses + Len(run.batch) <= N
             /\ \A k \in 1..Len(run.batch) : run.batch[k] = CompletedClauses + k
    <3>1. n = CompletedClauses + 1 /\ n \in 0..N /\ n + (Len(run.batch) - 1) <= N
      BY <1>3, <2>1, <2>3
    <3>2. ASSUME NEW k \in 1..(Len(run.batch) - 1)
          PROVE  Tail(run.batch)[k] = n + k
      <4>1. k + 1 \in 1..Len(run.batch) /\ Tail(run.batch)[k] = run.batch[k + 1]
        BY <2>1
      <4>2. run.batch[k + 1] = CompletedClauses + (k + 1)
        BY <2>3, <4>1
      <4>3. k \in Int
        BY <2>1
      <4>4. CompletedClauses + (k + 1) = (CompletedClauses + 1) + k
        BY <1>3, <4>3
      <4>5. QED BY <3>1, <4>1, <4>2, <4>4
    <3>3. QED BY <2>1, <3>1, <3>2
  <2>4. QED BY <1>1, <2>2, <2>3 DEF IInv, RunInv, BatchContinues
<1>5. /\ new \in States /\ ClausesOf(new.clauses) = ClausesUpTo(n) /\ RowsOf(new.risks) = riskRows
      /\ new.logs = run.logs /\ new.status = row.status
  <2>1. UpTo(n) \in Seq(Nat) /\ ClausesOf(UpTo(n)) = ClausesUpTo(n)
    <3>1. n \in Nat
      BY <1>3, <1>4
    <3> HIDE DEF n
    <3>2. QED BY <3>1, ClausesLoaded
  <2>2. [k \in 1..n |-> k] = UpTo(n)
    BY DEF UpTo
  <2>3. QED BY <1>1, <1>2, <2>1, <2>2, CurrentIsCurrent DEF States
<1>6. TypeOK
  BY DEF IInv, TablesInv, RunInv, TypeOK
<1> HIDE DEF n, new
<1>7. Wrote("worker", new, n) /\ clauseRows \subseteq clauseRows'
  BY <1>1, <1>2, <1>4, <1>5, <1>6, ProgressSaves DEF IInv, TablesInv
<1>8. TablesInv' /\ CompletedClauses' = n
  BY <1>1, <1>4, <1>5, <1>7, WroteKeeps DEF IInv, Processes
<1>9. row'.status = row.status /\ logRows' = run.logs /\ riskRows' = riskRows
  BY <1>5, <1>7 DEF Wrote
<1>10. /\ run'.pc = "structure" /\ run'.logs = run.logs /\ run'.done = <<>>
       /\ run'.batch = Tail(run.batch)
       /\ RunTypeOK'
  <2>1. Tail(run.batch) \in Seq(Nat)
    BY <1>1, <1>2
  <2>2. QED BY <1>1, <1>2, <2>1 DEF IInv, RunInv, RunTypeOK
<1>11. LogsAreBegun'
  <2>1. AllLogs(run.done)' = run.logs
    BY <1>2, <1>10 DEF AllLogs
  <2>2. Begins(run.logs, run.logs)
    BY <1>2, LenProperties DEF Begins
  <2>3. QED BY <1>9, <1>10, <2>1, <2>2 DEF LogsAreBegun
<1>12. RequestsDoNotDisturb'
  BY <1>1, <1>9, <1>10 DEF IInv, RunInv, RequestsDoNotDisturb, DecidesMore, InNodes
<1>13. BatchContinues'
  BY <1>4, <1>8, <1>10 DEF BatchContinues
<1>14. QED BY <1>7, <1>8, <1>9, <1>10, <1>11, <1>12, <1>13 DEF Keeps, IInv, RunInv

\* A branch is recorded.
LEMMA BranchProgressKeeps ==
    ASSUME IInv, NEW i \in Items, BranchProgress(i)
    PROVE  Keeps
<1> DEFINE done == Append(run.done, i)
           contiguous == {j \in ToSet(done) : 1..j \subseteq ToSet(done)}
           new == [Current EXCEPT !.results = contiguous, !.logs = AllLogs(done)]
<1>1. /\ WorkerIdle /\ run.pc = "branches" /\ AtBranches
      /\ Progress("worker", new, "risk_subgraph")
      /\ run' = [run EXCEPT !.done = done]
      /\ UNCHANGED <<cache, loading, request>>
  BY DEF BranchProgress
<1>2. /\ run.logs \in Seq(LogEntries) /\ run.done \in Seq(Items) /\ done \in Seq(Items)
      /\ contiguous \in SUBSET Items
  <2>1. run.logs \in Seq(LogEntries) /\ run.done \in Seq(Items) /\ done \in Seq(Items)
    BY DEF IInv, RunInv, RunTypeOK
  <2>2. ToSet(done) \subseteq Items
    BY <2>1 DEF ToSet
  <2>3. QED BY <2>1, <2>2
<1>3. AllLogs(done) \in Seq(LogEntries) /\ Begins(logRows, AllLogs(done))
  <2>1. /\ AllLogs(run.done) = LogsOf(run.logs, run.done)
        /\ AllLogs(done) = LogsOf(run.logs, done)
    BY DEF AllLogs, LogsOf
  <2>2. /\ AllLogs(run.done) \in Seq(LogEntries) /\ AllLogs(done) \in Seq(LogEntries)
        /\ Begins(AllLogs(run.done), AllLogs(done))
    BY <1>2, <2>1, LogsOfType, LogsOfBranch
  <2>3. Begins(logRows, AllLogs(run.done)) /\ logRows \in Seq(LogEntries)
    BY <1>1 DEF IInv, RunInv, TablesInv, TablesTypeOK, LogsAreBegun, InNodes
  <2>4. QED BY <2>2, <2>3, BeginsTransitive
<1>4. /\ new \in States /\ ClausesOf(new.clauses) = ClausesUpTo(CompletedClauses)
      /\ RowsOf(new.risks) = riskRows
      /\ new.logs = AllLogs(done) /\ new.status = row.status
      /\ CompletedClauses \in 0..N
  BY <1>1, <1>2, <1>3, CurrentIsCurrent DEF States
<1>5. TypeOK
  BY DEF IInv, TablesInv, RunInv, TypeOK
<1> HIDE DEF new, contiguous
<1>6. Wrote("worker", new, CompletedClauses) /\ clauseRows \subseteq clauseRows'
  BY <1>1, <1>3, <1>4, <1>5, ProgressSaves DEF IInv, TablesInv
<1>7. TablesInv'
  BY <1>1, <1>4, <1>6, WroteKeeps DEF IInv, Processes
<1>8. row'.status \in Recoverable /\ logRows' = AllLogs(done) /\ riskRows' = riskRows
  BY <1>1, <1>4, <1>6 DEF Wrote, AtBranches, Recoverable
<1>9. run'.pc = "branches" /\ run'.logs = run.logs /\ run'.done = done /\ RunTypeOK'
  BY <1>1, <1>2 DEF IInv, RunInv, RunTypeOK
<1>10. Begins(logRows, AllLogs(run.done))'
  <2>1. AllLogs(run.done)' = AllLogs(done)
    BY <1>9 DEF AllLogs
  <2>2. Begins(AllLogs(done), AllLogs(done))
    BY <1>3, LenProperties DEF Begins
  <2>3. QED BY <1>8, <2>1, <2>2
<1>11. RunInv'
  BY <1>1, <1>8, <1>9, <1>10, StayingInNodes DEF IInv, InNodes
<1>12. QED BY <1>6, <1>7, <1>8, <1>11 DEF Keeps, IInv

\* build_context announces what was restored, and the branches: the tables are
\* as they were, but for the new log entries.
LEMMA AnnouncementKeeps ==
    ASSUME IInv, VerificationsRestored \/ BranchesStart
    PROVE  Keeps
<1> DEFINE new == [Current EXCEPT !.logs = run.logs]
<1>1. PICK step \in {"evidence_verification", "risk_subgraph"}, pc \in {"restored", "branches"} :
        /\ WorkerIdle /\ run.pc \in {"node", "restored"} /\ AtBranches
        /\ Progress("worker", new, step)
        /\ run' = [run EXCEPT !.pc = pc]
        /\ UNCHANGED <<cache, loading, request>>
  BY DEF VerificationsRestored, BranchesStart
<1>2. /\ run.logs \in Seq(LogEntries) /\ run.done = <<>> /\ AllLogs(run.done) = run.logs
      /\ Begins(logRows, run.logs)
  <2>1. run.logs \in Seq(LogEntries) /\ run.done = <<>>
    BY <1>1 DEF IInv, RunInv, RunTypeOK, LogsAreBegun
  <2>2. AllLogs(run.done) = run.logs
    BY <2>1, LogsOfNone DEF AllLogs, LogsOf
  <2>3. QED BY <1>1, <2>1, <2>2 DEF IInv, RunInv, LogsAreBegun, InNodes
<1>3. /\ new \in States /\ ClausesOf(new.clauses) = ClausesUpTo(CompletedClauses)
      /\ RowsOf(new.risks) = riskRows
      /\ new.logs = run.logs /\ new.status = row.status
      /\ CompletedClauses \in 0..N
  BY <1>1, <1>2, CurrentIsCurrent DEF States
<1>4. TypeOK
  BY DEF IInv, TablesInv, RunInv, TypeOK
<1> HIDE DEF new
<1>5. Wrote("worker", new, CompletedClauses) /\ clauseRows \subseteq clauseRows'
  BY <1>1, <1>2, <1>3, <1>4, ProgressSaves DEF IInv, TablesInv
<1>6. TablesInv'
  BY <1>1, <1>3, <1>5, WroteKeeps DEF IInv, Processes
<1>7. row'.status \in Recoverable /\ logRows' = run.logs /\ riskRows' = riskRows
  BY <1>1, <1>3, <1>5 DEF Wrote, AtBranches, Recoverable
<1>8. run'.pc = pc /\ run'.logs = run.logs /\ run'.done = <<>> /\ RunTypeOK'
  BY <1>1, <1>2 DEF IInv, RunInv, RunTypeOK
<1>9. Begins(logRows, AllLogs(run.done))'
  <2>1. AllLogs(run.done)' = run.logs
    BY <1>2, <1>8 DEF AllLogs
  <2>2. Begins(run.logs, run.logs)
    BY <1>2, LenProperties DEF Begins
  <2>3. QED BY <1>7, <2>1, <2>2
<1>10. RunInv'
  BY <1>1, <1>7, <1>8, <1>9, StayingInNodes DEF IInv, InNodes
<1>11. QED BY <1>5, <1>6, <1>7, <1>10 DEF Keeps, IInv

-----------------------------------------------------------------------------
(* The steps that write no table.                                          *)

\* The tables are as they were, and so is all that is read from them.
LEMMA TablesUntouched ==
    ASSUME UNCHANGED dbVars
    PROVE  /\ StateFromTask(row)' = StateFromTask(row)
           /\ LastId' = LastId /\ CompletedClauses' = CompletedClauses
           /\ clauseRows \subseteq clauseRows' /\ riskRows' = riskRows
BY DEF dbVars, StateFromTask, Clauses, LastId, CompletedClauses

\* What is left to show of a step that writes no table.
LEMMA UntouchedKeeps ==
    ASSUME IInv, UNCHANGED <<dbVars, saved>>, TablesTypeOK', RunTypeOK',
           CacheIsCurrent', LoadIsCurrent', LogsAreBegun', RequestsDoNotDisturb',
           BatchContinues'
    PROVE  Keeps
<1>1. TablesAreTheState'
  BY TablesUntouched DEF IInv, TablesInv, TablesAreTheState
<1>2. ClausesInOrder'
  BY TablesUntouched DEF IInv, TablesInv, ClausesInOrder, dbVars
<1>3. QED BY <1>1, <1>2, TablesUntouched DEF Keeps, IInv, TablesInv, RunInv

\* The cache and the load are as they were, and the worker does not leave
\* update_task.
LEMMA CopiesUntouched ==
    ASSUME IInv, UNCHANGED <<dbVars, saved, cache, loading>>, lock = "worker" => lock' = "worker"
    PROVE  TablesTypeOK' /\ CacheIsCurrent' /\ LoadIsCurrent'
<1>1. TablesTypeOK'
  BY DEF IInv, TablesInv, TablesTypeOK, dbVars
<1>2. CacheIsCurrent'
  BY TablesUntouched DEF IInv, TablesInv, CacheIsCurrent, Trusted, dbVars
<1>3. LoadIsCurrent'
  BY TablesUntouched DEF IInv, TablesInv, LoadIsCurrent, dbVars
<1>4. QED BY <1>1, <1>2, <1>3

\* The run and the request are as they were.
LEMMA RunUntouched ==
    ASSUME IInv, UNCHANGED <<dbVars, run, request>>
    PROVE  RunInv'
<1>1. AllLogs(run.done)' = AllLogs(run.done)
  BY DEF AllLogs
<1>2. QED BY <1>1, TablesUntouched
          DEF IInv, RunInv, RunTypeOK, LogsAreBegun, RequestsDoNotDisturb, BatchContinues, InNodes,
              DecidesMore, dbVars

\* The run stands outside of its nodes.
LEMMA OutsideOfNodes ==
    ASSUME IInv, UNCHANGED <<dbVars, request>>, RunTypeOK', ~InNodes'
    PROVE  RunInv'
<1>1. LogsAreBegun' /\ BatchContinues'
  BY DEF LogsAreBegun, BatchContinues, InNodes
<1>2. RequestsDoNotDisturb'
  BY DEF IInv, RunInv, RequestsDoNotDisturb, DecidesMore, dbVars
<1>3. QED BY <1>1, <1>2 DEF RunInv

\* A run starts from what is persisted.
LEMMA RunStartKeeps ==
    ASSUME IInv, RunStart
    PROVE  Keeps
<1>1. UNCHANGED <<dbVars, saved>> /\ UNCHANGED <<loading, request>> /\ cache' = Loaded
  BY DEF RunStart
<1>2. run' = [pc |-> "node", logs |-> logRows, batch |-> <<>>, done |-> <<>>]
  BY DEF RunStart, Idle
<1>3. TypeOK /\ ClausesInOrder
  BY DEF IInv, TablesInv, RunInv, TypeOK
<1>4. Loaded \in [last : Int, state : States] /\ LastId \in Int
  BY <1>3, TablesType DEF Loaded, LastId, TypeOK, TablesTypeOK
<1>5. TablesTypeOK'
  BY <1>1, <1>4 DEF IInv, TablesInv, TablesTypeOK, dbVars
<1>6. RunTypeOK'
  <2>1. <<>> \in Seq(Nat) /\ <<>> \in Seq(Items)
    OBVIOUS
  <2>2. logRows \in Seq(LogEntries)
    BY DEF IInv, TablesInv, TablesTypeOK
  <2>3. QED BY <1>1, <1>2, <2>1, <2>2 DEF IInv, RunInv, RunTypeOK
<1>7. CacheIsCurrent'
  BY <1>1, <1>3, <1>4, TablesType, TablesUntouched DEF CacheIsCurrent, Loaded
<1>8. LoadIsCurrent'
  BY <1>1, TablesUntouched DEF IInv, TablesInv, LoadIsCurrent, dbVars
<1>9. LogsAreBegun'
  <2>1. logRows \in Seq(LogEntries)
    BY DEF IInv, TablesInv, TablesTypeOK
  <2>2. AllLogs(run.done)' = logRows
    <3>1. AllLogs(run.done)' = LogsOf(logRows, <<>>)
      BY <1>2 DEF AllLogs, LogsOf
    <3>2. QED BY <2>1, <3>1, LogsOfNone
  <2>3. Begins(logRows, logRows)
    BY <2>1, LenProperties DEF Begins
  <2>4. QED BY <1>1, <1>2, <2>2, <2>3 DEF LogsAreBegun, dbVars
<1>10. RequestsDoNotDisturb'
  BY <1>1, <1>2 DEF IInv, RunInv, RequestsDoNotDisturb, RunStart, Cancelling, DecidesMore, dbVars
<1>11. BatchContinues'
  BY <1>2 DEF BatchContinues
<1>12. QED BY <1>1, <1>5, <1>6, <1>7, <1>8, <1>9, <1>10, <1>11, UntouchedKeeps

\* The completed clauses are announced.
LEMMA StructureStartKeeps ==
    ASSUME IInv, StructureStart
    PROVE  Keeps
<1>1. /\ UNCHANGED <<dbVars, saved>> /\ UNCHANGED <<cache, loading, lock, request>>
      /\ run.pc = "node" /\ row.status = "CONTRACT_TYPE_CLASSIFIED"
      /\ run' = [run EXCEPT !.pc = "structure", !.batch = <<CompletedClauses>>]
  BY DEF StructureStart, CompletedClauses
<1>2. TablesTypeOK' /\ CacheIsCurrent' /\ LoadIsCurrent'
  BY <1>1, CopiesUntouched
<1>3. CompletedClauses \in Nat /\ CompletedClauses' = CompletedClauses
  BY <1>1, TablesUntouched, StoreAssumption DEF IInv, TablesInv, ClausesInOrder
<1>4. /\ run'.pc = "structure" /\ run'.batch = <<CompletedClauses>>
      /\ run'.logs = run.logs /\ run'.done = run.done
      /\ RunTypeOK'
  <2>1. <<CompletedClauses>> \in Seq(Nat)
    BY <1>3
  <2>2. QED BY <1>1, <2>1 DEF IInv, RunInv, RunTypeOK
<1>5. LogsAreBegun'
  <2>1. AllLogs(run.done)' = AllLogs(run.done)
    BY <1>4 DEF AllLogs
  <2>2. QED BY <1>1, <1>4, <2>1 DEF IInv, RunInv, LogsAreBegun, InNodes, dbVars
<1>6. RequestsDoNotDisturb'
  BY <1>1, <1>4 DEF IInv, RunInv, RequestsDoNotDisturb, DecidesMore, InNodes, dbVars
<1>7. BatchContinues'
  BY <1>3, <1>4 DEF BatchContinues
<1>8. QED BY <1>1, <1>2, <1>4, <1>5, <1>6, <1>7, UntouchedKeeps

\* A batch of the extraction has ended: its logs go behind those of the run.
LEMMA ClauseBatchKeeps ==
    ASSUME IInv, ClauseBatch
    PROVE  Keeps
<1> DEFINE size == IF CompletedClauses + Width < N THEN Width ELSE N - CompletedClauses
           entries == [k \in 1..size |-> <<"clause", CompletedClauses + k>>]
           batch == [k \in 1..size |-> CompletedClauses + k]
<1>1. /\ UNCHANGED <<dbVars, saved>> /\ UNCHANGED <<cache, loading, lock, request>>
      /\ run.pc = "structure" /\ size > 0
      /\ run' = [run EXCEPT !.logs = @ \o entries, !.batch = batch]
  BY DEF ClauseBatch, CompletedClauses
<1>2. TablesTypeOK' /\ CacheIsCurrent' /\ LoadIsCurrent'
  BY <1>1, CopiesUntouched
<1>3. /\ CompletedClauses \in Nat /\ CompletedClauses' = CompletedClauses /\ N \in Nat
      /\ size \in Nat /\ CompletedClauses + size <= N
  <2>1. CompletedClauses \in 0..N /\ CompletedClauses' = CompletedClauses
    BY <1>1, TablesUntouched DEF IInv, TablesInv, ClausesInOrder
  <2>2. QED BY <2>1, StoreAssumption
<1>4. batch \in Seq(Nat) /\ Len(batch) = size /\ entries \in Seq(LogEntries)
  <2>1. \A k \in 1..size : CompletedClauses + k \in Nat
    BY <1>3
  <2>2. \A k \in 1..size : <<"clause", CompletedClauses + k>> \in LogEntries
    BY <2>1 DEF LogEntries
  <2> HIDE DEF size
  <2>3. QED BY <1>3, <2>1, <2>2
<1> HIDE DEF size, entries
<1>5. /\ run.logs \in Seq(LogEntries) /\ run.done = <<>> /\ logRows \in Seq(LogEntries)
      /\ Begins(logRows, run.logs)
  <2>1. run.logs \in Seq(LogEntries) /\ run.done = <<>> /\ logRows \in Seq(LogEntries)
    BY <1>1 DEF IInv, RunInv, RunTypeOK, LogsAreBegun, TablesInv, TablesTypeOK
  <2>2. AllLogs(run.done) = run.logs
    BY <2>1, LogsOfNone DEF AllLogs, LogsOf
  <2>3. QED BY <1>1, <2>1, <2>2 DEF IInv, RunInv, LogsAreBegun, InNodes
<1>6. run.logs \o entries \in Seq(LogEntries) /\ Begins(logRows, run.logs \o entries)
  BY <1>4, <1>5, BeginsConcat, ConcatProperties
<1> HIDE DEF batch
<1>7. /\ run'.pc = "structure" /\ run'.batch = batch
      /\ run'.logs = run.logs \o entries /\ run'.done = <<>>
      /\ RunTypeOK'
  BY <1>1, <1>4, <1>5, <1>6 DEF IInv, RunInv, RunTypeOK
<1>8. LogsAreBegun'
  <2>1. AllLogs(run.done)' = run.logs \o entries
    <3>1. AllLogs(run.done)' = LogsOf(run.logs \o entries, <<>>)
      BY <1>7 DEF AllLogs, LogsOf
    <3>2. QED BY <1>6, <3>1, LogsOfNone
  <2>2. QED BY <1>1, <1>6, <1>7, <2>1 DEF LogsAreBegun, dbVars
<1>9. RequestsDoNotDisturb'
  BY <1>1, <1>7 DEF IInv, RunInv, RequestsDoNotDisturb, DecidesMore, InNodes, dbVars
<1>10. BatchContinues'
  <2>1. \A k \in 1..size : batch[k] = CompletedClauses + k
    BY DEF batch
  <2>2. QED BY <1>3, <1>4, <1>7, <2>1 DEF BatchContinues
<1>11. QED BY <1>1, <1>2, <1>7, <1>8, <1>9, <1>10, UntouchedKeeps

\* The run leaves its tail, or ends.
LEMMA RunEndsKeeps ==
    ASSUME IInv, TailEnds \/ RunEnds
    PROVE  Keeps
<1>1. /\ UNCHANGED <<dbVars, saved>> /\ UNCHANGED <<cache, loading, lock, request>>
      /\ run' = [run EXCEPT !.pc = "end"] \/ run' = Idle
  BY DEF TailEnds, RunEnds
<1>2. TablesTypeOK' /\ CacheIsCurrent' /\ LoadIsCurrent'
  BY <1>1, CopiesUntouched
<1>3. RunTypeOK' /\ ~InNodes'
  <2>1. <<>> \in Seq(LogEntries) /\ <<>> \in Seq(Nat) /\ <<>> \in Seq(Items)
    OBVIOUS
  <2>2. CASE run' = [run EXCEPT !.pc = "end"]
    BY <1>1, <2>2 DEF IInv, RunInv, RunTypeOK, InNodes
  <2>3. CASE run' = Idle
    BY <1>1, <2>1, <2>3 DEF IInv, RunInv, RunTypeOK, InNodes, Idle
  <2>4. QED BY <1>1, <2>2, <2>3
<1>4. RunInv'
  BY <1>1, <1>3, OutsideOfNodes
<1>5. QED BY <1>1, <1>2, <1>4, UntouchedKeeps DEF RunInv

\* A load reads the row, then the events.
LEMMA LoadStartsKeeps ==
    ASSUME IInv, CheckLoads \/ LoadEvents
    PROVE  Keeps
<1>1. /\ UNCHANGED <<dbVars, saved>> /\ UNCHANGED <<cache, lock, run, request>>
  BY DEF CheckLoads, LoadEvents
<1>2. RunInv'
  BY <1>1, RunUntouched
<1>3. LastId \in Int /\ -1 <= LastId /\ LastId' = LastId
  BY <1>1, TablesUntouched, LenProperties DEF IInv, TablesInv, TablesTypeOK, LastId
<1>4. /\ loading' \in [status : Statuses, results : SUBSET Items, resume_from : Statuses, last : Int]
      /\ loading'.results = row.results /\ loading'.resume_from = row.resume_from
      /\ loading'.last <= LastId
  <2>1. CASE CheckLoads
    BY <1>3, <2>1 DEF CheckLoads, Unread, IInv, TablesInv, TablesTypeOK
  <2>2. CASE LoadEvents
    BY <1>3, <2>2 DEF LoadEvents, IInv, TablesInv, TablesTypeOK, LoadIsCurrent
  <2>3. QED BY <2>1, <2>2
<1>5. TablesTypeOK'
  BY <1>1, <1>4 DEF IInv, TablesInv, TablesTypeOK, dbVars
<1>6. CacheIsCurrent'
  BY <1>1, TablesUntouched DEF IInv, TablesInv, CacheIsCurrent, Trusted, dbVars
<1>7. LoadIsCurrent'
  BY <1>1, <1>3, <1>4 DEF LoadIsCurrent, dbVars
<1>8. QED BY <1>1, <1>2, <1>5, <1>6, <1>7, UntouchedKeeps DEF RunInv

\* A load reads the tables: if no event was missed, the row it has read is the
\* row as it is.
LEMMA LoadTablesKeeps ==
    ASSUME IInv, LoadTables
    PROVE  Keeps
<1>1. /\ UNCHANGED <<dbVars, saved>> /\ UNCHANGED <<lock, run, request>>
      /\ loading # NotLoading /\ loading' = NotLoading
      /\ cache' = [last |-> loading.last, state |-> StateFromTask(loading)]
  BY DEF LoadTables
<1>2. RunInv'
  BY <1>1, RunUntouched
<1>3. /\ loading \in [status : Statuses, results : SUBSET Items, resume_from : Statuses, last : Int]
      /\ loading.results = row.results /\ loading.resume_from = row.resume_from
      /\ loading.last <= LastId
  BY <1>1 DEF IInv, TablesInv, TablesTypeOK, LoadIsCurrent
<1>4. StateFromTask(loading) \in States /\ AsLoaded(StateFromTask(row)) = StateFromTask(row)
  <2>1. StateFromTask(row) \in States /\ AsLoaded(StateFromTask(row)) = StateFromTask(row)
    BY TablesType DEF IInv, TablesInv, RunInv, TypeOK
  <2>2. QED BY <1>3, <2>1 DEF StateFromTask, States
<1>5. TablesTypeOK'
  BY <1>1, <1>3, <1>4 DEF IInv, TablesInv, TablesTypeOK, dbVars
<1>6. CacheIsCurrent'
  <2>1. loading.status = row.status => StateFromTask(loading) = StateFromTask(row)
    BY <1>3 DEF StateFromTask
  <2>2. cache'.state.status = loading.status /\ cache'.last = loading.last
    BY <1>1 DEF StateFromTask
  <2>3. QED BY <1>1, <1>3, <1>4, <2>1, <2>2, TablesUntouched DEF CacheIsCurrent, Trusted, dbVars
<1>7. LoadIsCurrent'
  BY <1>1 DEF LoadIsCurrent
<1>8. QED BY <1>1, <1>2, <1>5, <1>6, <1>7, UntouchedKeeps DEF RunInv

\* The worker dies: its cache, its load and its run are gone.
LEMMA WorkerCrashKeeps ==
    ASSUME IInv, WorkerCrash
    PROVE  Keeps
<1>1. /\ UNCHANGED <<dbVars, saved>> /\ request' = request
      /\ run' = Idle /\ cache' = NoCache /\ loading' = NotLoading
  BY DEF WorkerCrash
<1>2. RunTypeOK' /\ ~InNodes'
  <2>1. <<>> \in Seq(LogEntries) /\ <<>> \in Seq(Nat) /\ <<>> \in Seq(Items)
    OBVIOUS
  <2>2. QED BY <1>1, <2>1 DEF IInv, RunInv, RunTypeOK, InNodes, Idle
<1>3. RunInv'
  BY <1>1, <1>2, OutsideOfNodes
<1>4. TablesTypeOK'
  BY <1>1 DEF IInv, TablesInv, TablesTypeOK, dbVars
<1>5. CacheIsCurrent' /\ LoadIsCurrent'
  <2>1. LastId' = LastId /\ LastId \in Int /\ -1 <= LastId
    BY <1>1, TablesUntouched, LenProperties DEF IInv, TablesInv, TablesTypeOK, LastId
  <2>2. QED BY <1>1, <2>1 DEF CacheIsCurrent, LoadIsCurrent, NoCache
<1>6. QED BY <1>1, <1>3, <1>4, <1>5, UntouchedKeeps DEF RunInv

\* update_task returns: the cache of the worker is what it has written.
LEMMA ReturnKeeps ==
    ASSUME IInv, NEW p \in Processes, Return(p)
    PROVE  Keeps
<1>1. /\ UNCHANGED <<dbVars, saved>> /\ UNCHANGED <<loading, run, request>>
      /\ lock = p /\ lock' = "free"
  BY DEF Return
<1>2. RunInv'
  BY <1>1, RunUntouched
<1>3. TablesTypeOK' /\ CacheIsCurrent' /\ LoadIsCurrent'
  <2>1. CASE p = "api"
    BY <1>1, <2>1, CopiesUntouched DEF Return
  <2>2. CASE p = "worker"
    <3>1. /\ cache' = [last |-> LastId, state |-> saved]
          /\ AsLoaded(saved) = StateFromTask(row)
      BY <2>2 DEF Return, IInv, TablesInv, TablesAreTheState
    <3>2. saved \in States /\ LastId \in Int
      BY LenProperties DEF LastId, IInv, TablesInv, TablesTypeOK
    <3>3. TablesTypeOK'
      BY <1>1, <3>1, <3>2 DEF IInv, TablesInv, TablesTypeOK, dbVars
    <3>4. CacheIsCurrent'
      BY <1>1, <3>1, <3>2, TablesUntouched DEF CacheIsCurrent
    <3>5. LoadIsCurrent'
      BY <1>1, TablesUntouched DEF IInv, TablesInv, LoadIsCurrent, dbVars
    <3>6. QED BY <3>3, <3>4, <3>5
  <2>3. QED BY <2>1, <2>2 DEF Processes
<1>4. QED BY <1>1, <1>2, <1>3, UntouchedKeeps DEF RunInv

-----------------------------------------------------------------------------
(* The API.                                                                *)

\* What an update of the API keeps: the run is as it was, and so are the
\* clauses, the results and resume_from.
LEMMA ApiWritesKeeps ==
    ASSUME IInv, NEW new \in States, Full("api", new), UNCHANGED <<cache, loading>>,
           ClausesOf(new.clauses) = ClausesUpTo(CompletedClauses),
           new.results = row.results, new.resume_from = row.resume_from,
           new.risks = NoRisks => riskRows = NoFindings
    PROVE  Wrote("api", new, CompletedClauses) /\ TablesInv' /\ clauseRows' = clauseRows
<1>1. TypeOK /\ CompletedClauses \in 0..N
  BY DEF IInv, TablesInv, RunInv, TypeOK, ClausesInOrder
<1>2. Wrote("api", new, CompletedClauses) /\ clauseRows' = clauseRows
  BY <1>1, FullSaves DEF IInv, TablesInv, Processes
<1>3. TablesInv'
  BY <1>1, <1>2, WroteKeeps DEF IInv, Processes
<1>4. QED BY <1>2, <1>3

\* The state an update of the API starts from.
LEMMA ApiStartsCurrent ==
    ASSUME IInv, lock = "free"
    PROVE  /\ Refreshed("api").state = StateFromTask(row) /\ Loaded.state = StateFromTask(row)
           /\ StateFromTask(row) \in States
           /\ ClausesOf(StateFromTask(row).clauses) = ClausesUpTo(CompletedClauses)
           /\ RowsOf(StateFromTask(row).risks) = riskRows
           /\ StateFromTask(row).risks = NoRisks => riskRows = NoFindings
           /\ StateFromTask(row).logs = logRows
           /\ StateFromTask(row).status = row.status
           /\ StateFromTask(row).results = row.results
           /\ StateFromTask(row).resume_from = row.resume_from
<1>1. TypeOK /\ ClausesInOrder
  BY DEF IInv, TablesInv, RunInv, TypeOK
<1>2. StateFromTask(row) \in States /\ ClausesOf(Clauses) = ClausesUpTo(CompletedClauses)
  BY <1>1, TablesType, ClausesLoaded, StoreAssumption
<1>3. Refreshed("api") = Loaded
  BY DEF Refreshed, Owner
<1>4. RowsOf(RisksOf(riskRows)) = riskRows /\ (RisksOf(riskRows) = NoRisks => riskRows = NoFindings)
  <2>1. RowsOf(RisksOf(riskRows)) = riskRows
    BY RisksLoaded DEF IInv, TablesInv, TablesTypeOK
  <2>2. QED BY <2>1 DEF RowsOf
<1>5. QED BY <1>2, <1>3, <1>4 DEF StateFromTask, Loaded

\* The API writes another status only, of a task whose nodes do not execute or
\* that is to be cancelled.
LEMMA StatusWriteKeeps ==
    ASSUME IInv, NEW status \in Statuses, request.kind # "feedback",
           Full("api", [StateFromTask(row) EXCEPT !.status = status]),
           UNCHANGED <<cache, loading, run>>,
           request'.kind = "none", request' \in [kind : {"none"}],
           ~InNodes \/ status = "CANCEL_REQUESTED"
    PROVE  Keeps
<1> DEFINE new == [StateFromTask(row) EXCEPT !.status = status]
<1>1. lock = "free"
  BY DEF Full, Commit, MayUpdate
<1>2. /\ new \in States /\ ClausesOf(new.clauses) = ClausesUpTo(CompletedClauses)
      /\ RowsOf(new.risks) = riskRows /\ (new.risks = NoRisks => riskRows = NoFindings)
      /\ new.logs = logRows /\ new.status = status
      /\ new.results = row.results /\ new.resume_from = row.resume_from
  BY <1>1, ApiStartsCurrent DEF States
<1> HIDE DEF new
<1>3. Wrote("api", new, CompletedClauses) /\ TablesInv' /\ clauseRows' = clauseRows
  BY <1>2, ApiWritesKeeps DEF new
<1>4. row'.status = status /\ logRows' = logRows /\ riskRows' = riskRows
  BY <1>2, <1>3 DEF Wrote
<1>5. RunTypeOK'
  BY DEF IInv, RunInv, RunTypeOK
<1>6. LogsAreBegun'
  <2>1. AllLogs(run.done)' = AllLogs(run.done)
    BY DEF AllLogs
  <2>2. QED BY <1>4, <2>1 DEF IInv, RunInv, LogsAreBegun, InNodes
<1>7. RequestsDoNotDisturb'
  BY <1>4 DEF RequestsDoNotDisturb, InNodes, Cancelling
<1>8. BatchContinues'
  <2>1. CompletedClauses' = CompletedClauses
    BY <1>3 DEF CompletedClauses
  <2>2. QED BY <2>1 DEF IInv, RunInv, BatchContinues
<1>9. QED BY <1>3, <1>4, <1>5, <1>6, <1>7, <1>8 DEF Keeps, IInv, RunInv

\* A task is created.
LEMMA CreateTaskKeeps ==
    ASSUME IInv, CreateTask
    PROVE  Keeps
<1>1. /\ row.status = NoTask /\ lock = "free"
      /\ Full("api", [Loaded.state EXCEPT !.status = "START"])
      /\ UNCHANGED <<cache, loading, run>> /\ request' = request
  BY DEF CreateTask, Full, Commit, MayUpdate, workerVars
<1>2. ~InNodes /\ request.kind # "feedback"
  BY <1>1 DEF IInv, RunInv, RequestsDoNotDisturb, NoTask, Recoverable, Cancelling, Terminal,
              Completed, Failed
<1>3. Loaded.state = StateFromTask(row) /\ StateFromTask(row) \in States
  BY <1>1, ApiStartsCurrent
<1> DEFINE new == [StateFromTask(row) EXCEPT !.status = "START"]
<1>4. /\ new \in States /\ ClausesOf(new.clauses) = ClausesUpTo(CompletedClauses)
      /\ RowsOf(new.risks) = riskRows /\ (new.risks = NoRisks => riskRows = NoFindings)
      /\ new.logs = logRows /\ new.status = "START"
      /\ new.results = row.results /\ new.resume_from = row.resume_from
  BY <1>1, ApiStartsCurrent DEF States, Statuses, ReviewStatuses, Recoverable
<1> HIDE DEF new
<1>5. Full("api", new)
  BY <1>1, <1>3 DEF new
<1>6. Wrote("api", new, CompletedClauses) /\ TablesInv' /\ clauseRows' = clauseRows
  BY <1>1, <1>4, <1>5, ApiWritesKeeps
<1>7. riskRows' = riskRows
  BY <1>4, <1>6 DEF Wrote
<1>8. RunInv'
  BY <1>1, <1>2 DEF IInv, RunInv, RunTypeOK, LogsAreBegun, RequestsDoNotDisturb, BatchContinues,
                    InNodes
<1>9. QED BY <1>6, <1>7, <1>8 DEF Keeps, IInv

\* A request reads the task.
LEMMA ReadKeeps ==
    ASSUME IInv, CancelRead \/ \E r \in Risks : FeedbackRead(r)
    PROVE  Keeps
<1>1. /\ UNCHANGED <<dbVars, saved>> /\ UNCHANGED <<cache, loading, lock, run>>
  BY DEF CancelRead, FeedbackRead, workerVars
<1>2. TablesTypeOK' /\ CacheIsCurrent' /\ LoadIsCurrent'
  BY <1>1, CopiesUntouched
<1>3. /\ request' \in [kind : {"none", "cancel"}]
                       \cup [kind : {"feedback"}, risks : RiskLists, logs : Seq(LogEntries)]
      /\ request'.kind = "feedback" => /\ row.status \in Terminal \ Cancelling
                                       /\ DecidesMore(riskRows, request'.risks)
  <2>1. CASE CancelRead
    BY <2>1 DEF CancelRead
  <2>2. CASE \E r \in Risks : FeedbackRead(r)
    <3>1. PICK r \in Risks : FeedbackRead(r)
      BY <2>2
    <3> DEFINE decided == [riskRows EXCEPT ![r] = TRUE]
    <3>2. decided \in RiskLists /\ DecidesMore(riskRows, decided)
      <4>1. PICK S \in SUBSET Risks : riskRows \in [S -> BOOLEAN]
        BY DEF IInv, TablesInv, TablesTypeOK, RiskLists
      <4>2. decided \in [S -> BOOLEAN]
        BY <4>1
      <4>3. QED BY <4>1, <4>2 DEF RiskLists, DecidesMore
    <3> HIDE DEF decided
    <3>3. Append(logRows, <<"memory", r>>) \in Seq(LogEntries)
      <4>1. <<"memory", r>> \in LogEntries /\ logRows \in Seq(LogEntries)
        BY DEF LogEntries, IInv, TablesInv, TablesTypeOK
      <4>2. QED BY <4>1
    <3>4. /\ row.status \in Terminal \ Cancelling
          /\ request' = [kind |-> "feedback", risks |-> decided,
                         logs |-> Append(logRows, <<"memory", r>>)]
      BY <3>1 DEF FeedbackRead, decided
    <3>5. QED BY <3>2, <3>3, <3>4
  <2>3. QED BY <2>1, <2>2
<1>4. RunTypeOK'
  BY <1>1, <1>3 DEF IInv, RunInv, RunTypeOK
<1>5. LogsAreBegun'
  <2>1. AllLogs(run.done)' = AllLogs(run.done)
    BY <1>1 DEF AllLogs
  <2>2. QED BY <1>1, <2>1 DEF IInv, RunInv, LogsAreBegun, InNodes, dbVars
<1>6. RequestsDoNotDisturb'
  BY <1>1, <1>3 DEF IInv, RunInv, RequestsDoNotDisturb, DecidesMore, InNodes, dbVars
<1>7. BatchContinues'
  BY <1>1, TablesUntouched DEF IInv, RunInv, BatchContinues
<1>8. QED BY <1>1, <1>2, <1>4, <1>5, <1>6, <1>7, UntouchedKeeps

\* A request writes the task, or is refused.
LEMMA RequestWriteKeeps ==
    ASSUME IInv, RequestWrite
    PROVE  Keeps
<1> DEFINE now == Refreshed("api").state
           status == IF \A r \in DOMAIN request.risks : request.risks[r]
                     THEN "MEMORY_UPDATED" ELSE "HUMAN_REVIEW_PENDING"
           decided == [now EXCEPT !.status = status, !.risks = request.risks, !.logs = request.logs]
           cancelled == [now EXCEPT !.status = "CANCEL_REQUESTED"]
<1>1. /\ request.kind # "none" /\ lock = "free"
      /\ UNCHANGED <<cache, loading, run>> /\ request' = [kind |-> "none"]
  BY DEF RequestWrite, MayUpdate, workerVars
<1>2. /\ now = StateFromTask(row) /\ StateFromTask(row) \in States
      /\ StateFromTask(row).status = row.status
  BY <1>1, ApiStartsCurrent
<1>3. CASE request.kind = "cancel"
  <2>1. ~Refuses(now, "CANCEL_REQUESTED")
    BY DEF Refuses, Cancelling
  <2>2. cancelled.status = "CANCEL_REQUESTED"
    BY <1>2 DEF States
  <2>3. Full("api", [StateFromTask(row) EXCEPT !.status = "CANCEL_REQUESTED"])
    BY <1>2, <1>3, <2>1, <2>2 DEF RequestWrite
  <2>4. "CANCEL_REQUESTED" \in Statuses
    BY DEF Statuses, ReviewStatuses, Cancelling
  <2>5. QED BY <1>1, <1>3, <2>3, <2>4, StatusWriteKeeps
<1>4. CASE request.kind = "feedback"
  <2>1. /\ row.status \in Terminal \ Cancelling /\ ~InNodes
        /\ DecidesMore(riskRows, request.risks)
    BY <1>4 DEF IInv, RunInv, RequestsDoNotDisturb, Terminal, Completed, Failed, Recoverable,
                Cancelling
  <2>2. request.risks \in RiskLists /\ request.logs \in Seq(LogEntries)
    BY <1>4 DEF IInv, RunInv, RunTypeOK
  <2>3. ~Refuses(now, decided.status)
    BY <1>2, <2>1 DEF Refuses, Cancelling
  <2>4. Full("api", decided)
    BY <1>4, <2>3 DEF RequestWrite
  <2>5. /\ decided \in States /\ ClausesOf(decided.clauses) = ClausesUpTo(CompletedClauses)
        /\ decided.risks # NoRisks /\ decided.risks = request.risks
        /\ decided.results = row.results /\ decided.resume_from = row.resume_from
    <3>1. status \in Statuses
      BY DEF Statuses, ReviewStatuses, Terminal, Completed
    <3> HIDE DEF status
    <3>2. QED BY <1>1, <2>2, <3>1, ApiStartsCurrent, RisksLoaded DEF States
  <2> HIDE DEF decided
  <2>6. TablesInv' /\ clauseRows' = clauseRows /\ riskRows' = request.risks
    <3>1. Wrote("api", decided, CompletedClauses) /\ TablesInv' /\ clauseRows' = clauseRows
      BY <1>1, <2>4, <2>5, ApiWritesKeeps
    <3>2. QED BY <2>5, <3>1 DEF Wrote, RowsOf
  <2>7. RunInv'
    BY <1>1, <2>1 DEF IInv, RunInv, RunTypeOK, LogsAreBegun, RequestsDoNotDisturb, BatchContinues,
                      InNodes
  <2>8. DecidesMore(riskRows, riskRows')
    BY <2>1, <2>6
  <2>9. QED BY <2>6, <2>7, <2>8 DEF Keeps, IInv
<1>5. request.kind \in {"none", "cancel", "feedback"}
  BY DEF IInv, RunInv, RunTypeOK
<1>6. QED BY <1>1, <1>3, <1>4, <1>5

\* An operator recovers the task.
LEMMA RecoverKeeps ==
    ASSUME IInv, Recover
    PROVE  Keeps
<1> DEFINE status == IF row.status = "TASK_ERROR" THEN "UPLOAD_RECEIVED" ELSE row.resume_from
<1>1. /\ request.kind = "none" /\ row.status \in {"NODE_TIMEOUT", "TASK_ERROR"} /\ lock = "free"
      /\ UNCHANGED <<cache, loading, run>> /\ request' = request
  BY DEF Recover, Full, Commit, MayUpdate, workerVars
<1>2. /\ Refreshed("api").state = StateFromTask(row) /\ StateFromTask(row) \in States
      /\ StateFromTask(row).status = row.status
  BY <1>1, ApiStartsCurrent
<1>3. Full("api", [StateFromTask(row) EXCEPT !.status = status])
  <2>1. [StateFromTask(row) EXCEPT !.status = IF @ = "TASK_ERROR" THEN "UPLOAD_RECEIVED"
                                              ELSE row.resume_from]
          = [StateFromTask(row) EXCEPT !.status = status]
    BY <1>2
  <2>2. QED BY <1>2, <2>1 DEF Recover
<1>4. status \in Statuses
  BY DEF Statuses, ReviewStatuses, Recoverable, IInv, TablesInv, TablesTypeOK
<1>5. ~InNodes
  BY <1>1 DEF IInv, RunInv, RequestsDoNotDisturb, Recoverable, Cancelling
<1>6. request' \in [kind : {"none"}]
  BY <1>1 DEF IInv, RunInv, RunTypeOK
<1>7. QED BY <1>1, <1>3, <1>4, <1>5, <1>6, StatusWriteKeeps

-----------------------------------------------------------------------------
(* The theorems.                                                           *)

\* Initially nothing is persisted.
LEMMA InitHolds ==
    ASSUME Init
    PROVE  IInv
<1>1. /\ clauseRows = 1..0 /\ CompletedClauses = 0 /\ N \in Nat
  BY OrderedUpTo, StoreAssumption DEF Init, CompletedClauses
<1>2. <<>> \in Seq(LogEntries) /\ <<>> \in Seq(Nat) /\ <<>> \in Seq(Items) /\ <<>> \in Seq(Statuses)
  OBVIOUS
<1>3. Clauses = NoClauses /\ StateFromTask(NoTaskRow) \in States
  <2>1. Clauses = NoClauses /\ NoClauses \in Seq(Nat) /\ NoClauses # <<>>
    BY DEF Init, Clauses, NoClauses
  <2>2. RisksOf(riskRows) = NoRisks
    BY DEF Init, RisksOf
  <2>3. QED BY <1>2, <2>1, <2>2 DEF Init, StateFromTask, States, NoTaskRow, Statuses
<1>4. TablesTypeOK /\ RunTypeOK
  <2>1. TablesTypeOK
    BY <1>2, <1>3, RisksLoaded DEF Init, TablesTypeOK, NoTaskRow, Statuses
  <2>2. QED BY <1>2, <2>1 DEF Init, RunTypeOK, Idle
<1>5. TablesAreTheState /\ ClausesInOrder
  <2>1. ClausesInOrder
    BY <1>1 DEF Init, ClausesInOrder
  <2>2. AsLoaded(StateFromTask(row)) = StateFromTask(row)
    BY <1>4, <2>1, TablesType DEF TypeOK
  <2>3. QED BY <2>1, <2>2 DEF Init, TablesAreTheState
<1>6. CacheIsCurrent /\ LoadIsCurrent
  BY DEF Init, CacheIsCurrent, LoadIsCurrent, NoCache, LastId
<1>7. LogsAreBegun /\ RequestsDoNotDisturb /\ BatchContinues
  BY DEF Init, LogsAreBegun, RequestsDoNotDisturb, BatchContinues, InNodes, Idle
<1>8. QED BY <1>4, <1>5, <1>6, <1>7 DEF IInv, TablesInv, RunInv

\* No step takes back what is persisted, and every step keeps the invariant.
LEMMA StepKeeps ==
    ASSUME IInv, [Next]_vars
    PROVE  Keeps
<1>1. CASE Worker
  BY <1>1, ClassifiedKeeps, StructureStartKeeps, ClauseBatchKeeps, ClauseProgressKeeps,
     ContextsBuiltKeeps, AnnouncementKeeps, BranchProgressKeeps, AnalyzedKeeps, EarlyEndKeeps,
     AggregateKeeps, RunEndsKeeps, TailFailsKeeps, NodeFailsKeeps, RunCancelledKeeps, RunStartKeeps,
     LoadStartsKeeps, LoadTablesKeeps, WorkerCrashKeeps
     DEF Worker, EndsAnalysis
<1>2. CASE Api
  BY <1>2, CreateTaskKeeps, ReadKeeps, RequestWriteKeeps, RecoverKeeps DEF Api
<1>3. CASE \E p \in Processes : Return(p)
  BY <1>3, ReturnKeeps
<1>4. CASE UNCHANGED vars
  <2>1. /\ UNCHANGED <<dbVars, saved>> /\ UNCHANGED <<cache, loading, lock, run, request>>
    BY <1>4 DEF vars, workerVars
  <2>2. TablesTypeOK' /\ CacheIsCurrent' /\ LoadIsCurrent'
    BY <2>1, CopiesUntouched
  <2>3. QED BY <2>1, <2>2, RunUntouched, UntouchedKeeps DEF RunInv
<1>5. QED BY <1>1, <1>2, <1>3, <1>4 DEF Next

\* The inductive invariant holds in every behaviour.
LEMMA InvHolds == Spec => []IInv
<1>1. IInv /\ [Next]_vars => IInv'
  BY StepKeeps DEF Keeps
<1>2. QED BY <1>1, InitHolds, PTL DEF Spec

\* Whoever loads the tables of the task gets what the last update_task had in
\* hand, but for empty lists, which come back as None: progress updates append
\* just what is missing, a cache that is trusted is current, and a load beside an
\* update is either behind or right.
THEOREM StateIsOne == Spec => []TablesAreTheState
BY InvHolds, PTL DEF IInv, TablesInv

\* No update of any process takes back a completed clause.  The risks stay as they
\* are but for a feedback, which takes no decision back, and for the end of an
\* analysis, also of one that a recovery has begun over decided risks: what that
\* does to the decisions is not promised.
THEOREM UpdatesKeepWhatIsThere == Spec => NothingTakenBack
<1>1. IInv /\ [Next]_vars
        => [/\ clauseRows \subseteq clauseRows'
            /\ \/ EndsAnalysis
               \/ RequestWrite /\ DecidesMore(riskRows, riskRows')
               \/ riskRows' = riskRows]_vars
  BY StepKeeps DEF Keeps
<1>2. QED BY <1>1, InvHolds, PTL DEF Spec, NothingTakenBack

-----------------------------------------------------------------------------
(* The writers of the event log: update_task is what EventStream takes its *)
(* writers to be, whoever calls it.                                        *)

\* EventStream without clients: the store is publishing while a process is in
\* update_task after its commit, and a crash there publishes nothing.
Writer == INSTANCE EventStream WITH
              Statuses <- ReviewStatuses, Clients <- {}, MaxOpens <- 0, FaultKinds <- {},
              status <- row.status, publishing <- lock # "free", hint <- {},
              client <- [c \in {} |-> NoTask], read <- [c \in {} |-> NoTask],
              opens <- [c \in {} |-> NoTask], faults <- 0

\* Nothing runs and nobody asks before the task exists, and the checkpoint of
\* a failure is a label of a run.
TaskExists ==
    /\ row.status = NoTask => run.pc = "idle" /\ request.kind = "none"
    /\ row.status = "NODE_TIMEOUT" => row.resume_from \in Recoverable

\* An update that EventStream allows for.
Announces(p, new) ==
    /\ Commit(p, new)
    /\ new.status \in ReviewStatuses
    /\ row.status = NoTask => new.status = "START"
    /\ new.status = "NODE_TIMEOUT" => new.resume_from \in Recoverable

\* It commits the status and one event with it, and keeps to a cancellation.
LEMMA AnnouncesRefines ==
    ASSUME IInv, NEW p \in Processes, NEW new, Announces(p, new)
    PROVE  TaskExists' /\ Writer!Commit
<1>1. /\ lock = "free" /\ lock' = p /\ p # "free" /\ Len(events) < MaxEvents
      /\ events' = Append(events, new.status)
      /\ row'.status = new.status /\ row'.resume_from = new.resume_from
      /\ ~Refuses(Refreshed(p).state, new.status)
  BY DEF Announces, Commit, MayUpdate, AppendEvent, SaveRow, Processes
<1>2. Refreshed(p).state.status = row.status
  <2>1. TypeOK /\ ClausesInOrder
    BY DEF IInv, TablesInv, RunInv, TypeOK
  <2>2. /\ Refreshed(p).state \in States
        /\ AsLoaded(Refreshed(p).state) = StateFromTask(row)
    BY <1>1, <2>1, RefreshIsCurrent DEF IInv, TablesInv
  <2>3. QED BY <2>2, LoadedState DEF StateFromTask
<1>3. new.status \in ReviewStatuses \cap Writer!Follows(row.status)
  <2>1. CASE row.status = NoTask
    BY <2>1 DEF Announces, Writer!Follows, Writer!NoTask, NoTask, Writer!Cancelling
  <2>2. CASE row.status # NoTask
    BY <1>1, <1>2, <2>2
       DEF Announces, Refuses, Writer!Follows, Writer!NoTask, NoTask, Writer!Cancelling, Cancelling,
           Writer!ReviewStatuses, ReviewStatuses, Writer!Recoverable, Recoverable,
           Writer!Terminal, Terminal, Writer!Completed, Completed, Writer!Failed, Failed
  <2>3. QED BY <2>1, <2>2
<1>4. Writer!Commit
  BY <1>1, <1>3 DEF Writer!Commit
<1>5. TaskExists'
  <2>1. NoTask \notin ReviewStatuses
    BY DEF NoTask, ReviewStatuses, Recoverable, Terminal, Completed, Failed, Cancelling
  <2>2. QED BY <1>1, <2>1 DEF Announces, TaskExists
<1>6. QED BY <1>4, <1>5

\* The updates of the run.
LEMMA RunAnnounces ==
    ASSUME IInv, TaskExists,
           \/ Classified \/ ClauseProgress \/ ContextsBuilt \/ VerificationsRestored
           \/ BranchesStart \/ (\E i \in Items : BranchProgress(i)) \/ Analyzed
           \/ EndsAnalysis \/ TailFails \/ NodeFails \/ RunCancelled
    PROVE  \E new : Announces("worker", new)
<1>1. WorkerIdle /\ run.pc # "idle"
  BY DEF Classified, ClauseProgress, ContextsBuilt, VerificationsRestored, BranchesStart,
         BranchProgress, Analyzed, EndsAnalysis, ClassifyEnds, StructureEnds, Aggregate,
         AggregateEnds, TailFails, NodeFails, InNodes, RunCancelled, NodeSaves
<1>2. Current.status = row.status /\ Current \in States /\ row.status # NoTask
  BY <1>1, CurrentIsCurrent DEF TaskExists
<1>3. CASE \/ Classified \/ ContextsBuilt \/ Analyzed \/ EndsAnalysis \/ TailFails
           \/ RunCancelled
  <2>1. PICK new : /\ Commit("worker", new)
                   /\ new.status \in {"CONTRACT_TYPE_CLASSIFIED", "UNSUPPORTED_CONTRACT_TYPE",
                                      "NEED_MANUAL_REVIEW", "LLM_OUTPUT_INVALID", "CONTEXT_BUILT",
                                      "RISK_ANALYZED", "HUMAN_REVIEW_PENDING", "EVIDENCE_VERIFIED",
                                      "RETRIEVAL_FAILED", "TASK_ERROR", "CANCELLED"}
    <3>1. CASE Classified
      <4> DEFINE new == [Current EXCEPT !.status = "CONTRACT_TYPE_CLASSIFIED", !.logs = run.logs]
      <4>1. Commit("worker", new)
        BY <3>1 DEF Classified, NodeSaves, Full
      <4>2. new.status = "CONTRACT_TYPE_CLASSIFIED"
        BY <1>2 DEF States
      <4> HIDE DEF new
      <4>3. QED BY <4>1, <4>2
    <3>2. CASE ContextsBuilt
      <4> DEFINE new == [Current EXCEPT !.status = "CONTEXT_BUILT",
                                        !.clauses = [k \in Items |-> k], !.logs = run.logs]
      <4>1. Commit("worker", new)
        BY <3>2 DEF ContextsBuilt, NodeSaves, Full
      <4>2. new.status = "CONTEXT_BUILT"
        BY <1>2 DEF States
      <4> HIDE DEF new
      <4>3. QED BY <4>1, <4>2
    <3>3. CASE Aggregate \/ AggregateEnds
      <4> DEFINE new(end, risks) == [Current EXCEPT !.status = end, !.results = Items,
                                                    !.risks = risks, !.logs = AllLogs(run.done)]
      <4>1. PICK end, risks :
                /\ end \in {"HUMAN_REVIEW_PENDING", "EVIDENCE_VERIFIED", "NEED_MANUAL_REVIEW",
                            "RETRIEVAL_FAILED", "LLM_OUTPUT_INVALID"}
                /\ Commit("worker", new(end, risks))
        <5>1. CASE Aggregate
          <6>1. PICK end \in {"HUMAN_REVIEW_PENDING", "EVIDENCE_VERIFIED"},
                     risks \in Findings(Current.risks) : Commit("worker", new(end, risks))
            BY <5>1 DEF Aggregate, NodeSaves, Full
          <6> HIDE DEF new
          <6>2. QED BY <6>1
        <5>2. CASE AggregateEnds
          <6>1. PICK end \in {"HUMAN_REVIEW_PENDING", "NEED_MANUAL_REVIEW",
                              "RETRIEVAL_FAILED", "LLM_OUTPUT_INVALID"},
                     risks \in Findings(Current.risks) : Commit("worker", new(end, risks))
            BY <5>2 DEF AggregateEnds, NodeSaves, Full
          <6> HIDE DEF new
          <6>2. QED BY <6>1
        <5>3. QED BY <3>3, <5>1, <5>2
      <4>2. new(end, risks).status = end
        BY <1>2 DEF States
      <4> HIDE DEF new
      <4>3. QED BY <4>1, <4>2
    <3>4. CASE TailFails
      <4> DEFINE new == [Current EXCEPT !.status = IF @ \in Cancelling THEN "CANCELLED"
                                                   ELSE "TASK_ERROR",
                                        !.logs = AllLogs(run.done)]
      <4>1. Commit("worker", new)
        BY <3>4 DEF TailFails, NodeSaves, Full
      <4>2. new.status \in {"CANCELLED", "TASK_ERROR"}
        BY <1>2 DEF States
      <4> HIDE DEF new
      <4>3. QED BY <4>1, <4>2
    <3>5. CASE RunCancelled
      <4> DEFINE new == [Current EXCEPT !.status = "CANCELLED", !.logs = AllLogs(run.done)]
      <4>1. Commit("worker", new)
        BY <3>5 DEF RunCancelled, NodeSaves, Full
      <4>2. new.status = "CANCELLED"
        BY <1>2 DEF States
      <4> HIDE DEF new
      <4>3. QED BY <4>1, <4>2
    <3>6. CASE ClassifyEnds
      <4> DEFINE new(end) == [Current EXCEPT !.status = end, !.risks = NoFindings,
                                             !.logs = run.logs]
      <4>1. PICK end \in {"UNSUPPORTED_CONTRACT_TYPE", "NEED_MANUAL_REVIEW"} :
                Commit("worker", new(end))
        BY <3>6 DEF ClassifyEnds, NodeSaves, Full
      <4>2. new(end).status = end
        BY <1>2 DEF States
      <4> HIDE DEF new
      <4>3. QED BY <4>1, <4>2
    <3>7. CASE StructureEnds
      <4> DEFINE new == [Current EXCEPT !.status = "LLM_OUTPUT_INVALID", !.results = {},
                                        !.risks = NoFindings, !.logs = run.logs]
      <4>1. Commit("worker", new)
        BY <3>7 DEF StructureEnds, NodeSaves, Full
      <4>2. new.status = "LLM_OUTPUT_INVALID"
        BY <1>2 DEF States
      <4> HIDE DEF new
      <4>3. QED BY <4>1, <4>2
    <3>8. CASE Analyzed
      <4> DEFINE new == [Current EXCEPT !.status = "RISK_ANALYZED", !.results = Items,
                                        !.logs = AllLogs(run.done)]
      <4>1. Commit("worker", new)
        BY <3>8 DEF Analyzed, NodeSaves, Full
      <4>2. new.status = "RISK_ANALYZED"
        BY <1>2 DEF States
      <4> HIDE DEF new
      <4>3. QED BY <4>1, <4>2
    <3>9. QED BY <1>3, <3>1, <3>2, <3>3, <3>4, <3>5, <3>6, <3>7, <3>8 DEF EndsAnalysis
  <2>2. Announces("worker", new)
    BY <1>2, <2>1
       DEF Announces, ReviewStatuses, Recoverable, Terminal, Completed, Failed, Cancelling
  <2>3. QED BY <2>2
<1>4. CASE NodeFails
  <2> DEFINE new(end) == [Current EXCEPT !.status = end,
                                         !.resume_from = IF end = "NODE_TIMEOUT" THEN row.status
                                                         ELSE @,
                                         !.logs = AllLogs(run.done)]
  <2>1. PICK end \in {"NODE_TIMEOUT", "TASK_ERROR"} :
            Commit("worker", new(end)) /\ row.status \in Recoverable
    BY <1>4 DEF NodeFails, NodeSaves, Full
  <2>2. /\ new(end).status = end
        /\ end = "NODE_TIMEOUT" => new(end).resume_from = row.status
    BY <1>2 DEF States
  <2> HIDE DEF new
  <2>3. Announces("worker", new(end))
    BY <1>2, <2>1, <2>2 DEF Announces, ReviewStatuses, Terminal, Failed
  <2>4. QED BY <2>3
<1>5. CASE \/ ClauseProgress \/ VerificationsRestored \/ BranchesStart
           \/ \E i \in Items : BranchProgress(i)
  <2>1. row.status \in Recoverable \cup Cancelling
    BY <1>5 DEF ClauseProgress, VerificationsRestored, BranchesStart, BranchProgress,
                IInv, RunInv, RequestsDoNotDisturb, InNodes
  <2>2. PICK new : Commit("worker", new) /\ new.status = row.status
    <3>1. CASE ClauseProgress
      <4> DEFINE new == [Current EXCEPT !.clauses = [k \in 1..Head(run.batch) |-> k],
                                        !.logs = run.logs]
      <4>1. Commit("worker", new)
        BY <3>1 DEF ClauseProgress, Progress
      <4>2. new.status = row.status
        BY <1>2 DEF States
      <4> HIDE DEF new
      <4>3. QED BY <4>1, <4>2
    <3>2. ASSUME NEW i \in Items, BranchProgress(i)
          PROVE  \E new : Commit("worker", new) /\ new.status = row.status
      <4> DEFINE new(contiguous, logs) == [Current EXCEPT !.results = contiguous, !.logs = logs]
      <4>1. PICK contiguous, logs : Commit("worker", new(contiguous, logs))
        BY <3>2 DEF BranchProgress, Progress
      <4>2. new(contiguous, logs).status = row.status
        BY <1>2 DEF States
      <4> HIDE DEF new
      <4>3. QED BY <4>1, <4>2
    <3>3. CASE VerificationsRestored \/ BranchesStart
      <4> DEFINE new == [Current EXCEPT !.logs = run.logs]
      <4>1. Commit("worker", new)
        BY <3>3 DEF VerificationsRestored, BranchesStart, Progress
      <4>2. new.status = row.status
        BY <1>2 DEF States
      <4> HIDE DEF new
      <4>3. QED BY <4>1, <4>2
    <3>4. QED BY <1>5, <3>1, <3>2, <3>3
  <2>3. Announces("worker", new)
    BY <1>2, <2>1, <2>2 DEF Announces, ReviewStatuses, Recoverable, Cancelling
  <2>4. QED BY <2>3
<1>6. QED BY <1>3, <1>4, <1>5

\* The updates of the API: of a request to cancel, of a feedback, of a
\* recovery, and the one that creates the task.
LEMMA ApiAnnounces ==
    ASSUME IInv, TaskExists, CreateTask \/ RequestWrite \/ Recover
    PROVE  (\E new : Announces("api", new)) \/ UNCHANGED <<row, events, lock>>
<1> DEFINE now == Refreshed("api").state
<1>1. lock = "free" => /\ now = StateFromTask(row) /\ Loaded.state = StateFromTask(row)
                       /\ StateFromTask(row) \in States
  BY ApiStartsCurrent
<1>2. CASE CreateTask
  <2> DEFINE new == [Loaded.state EXCEPT !.status = "START"]
  <2>1. Commit("api", new) /\ lock = "free"
    BY <1>2 DEF CreateTask, Full, Commit, MayUpdate
  <2>2. new.status = "START"
    BY <1>1, <2>1 DEF States
  <2> HIDE DEF new
  <2>3. Announces("api", new)
    BY <2>1, <2>2 DEF Announces, ReviewStatuses, Recoverable
  <2>4. QED BY <2>3
<1>3. CASE RequestWrite
  <2> DEFINE status == IF \A r \in DOMAIN request.risks : request.risks[r]
                       THEN "MEMORY_UPDATED" ELSE "HUMAN_REVIEW_PENDING"
             new == IF request.kind = "cancel" THEN [now EXCEPT !.status = "CANCEL_REQUESTED"]
                    ELSE [now EXCEPT !.status = status, !.risks = request.risks,
                                     !.logs = request.logs]
  <2>1. /\ Commit("api", new) \/ UNCHANGED <<row, events, lock>>
        /\ lock = "free" /\ request.kind # "none"
    BY <1>3 DEF RequestWrite, Full, MayUpdate, dbVars
  <2>2. new.status \in {"CANCEL_REQUESTED", "MEMORY_UPDATED", "HUMAN_REVIEW_PENDING"}
    BY <1>1, <2>1 DEF States
  <2>3. row.status # NoTask
    BY <2>1 DEF TaskExists
  <2> HIDE DEF new
  <2>4. Commit("api", new) => Announces("api", new)
    BY <2>2, <2>3 DEF Announces, ReviewStatuses, Terminal, Completed, Cancelling
  <2>5. QED BY <2>1, <2>4
<1>4. CASE Recover
  <2> DEFINE new == [now EXCEPT !.status = IF @ = "TASK_ERROR" THEN "UPLOAD_RECEIVED"
                                           ELSE row.resume_from]
  <2>1. Commit("api", new) /\ lock = "free" /\ row.status \in {"NODE_TIMEOUT", "TASK_ERROR"}
    BY <1>4 DEF Recover, Full, Commit, MayUpdate
  <2>2. now.status = row.status
    BY <1>1, <2>1 DEF StateFromTask
  <2>3. new.status \in Recoverable
    BY <1>1, <2>1, <2>2 DEF States, TaskExists, Recoverable
  <2> HIDE DEF new
  <2>4. Announces("api", new)
    BY <2>1, <2>3 DEF Announces, ReviewStatuses, Recoverable, NoTask
  <2>5. QED BY <2>4
<1>5. QED BY <1>2, <1>3, <1>4

\* What commits nothing either leaves update_task or is not seen.
LEMMA OthersPublish ==
    ASSUME TaskExists,
           \/ StructureStart \/ ClauseBatch \/ TailEnds \/ RunStart \/ RunEnds
           \/ CheckLoads \/ LoadEvents \/ LoadTables \/ WorkerCrash
           \/ CancelRead \/ (\E r \in Risks : FeedbackRead(r)) \/ \E p \in Processes : Return(p)
    PROVE  TaskExists' /\ (Writer!Publish \/ UNCHANGED Writer!vars)
<1>1. row' = row /\ events' = events
  BY DEF dbVars, StructureStart, ClauseBatch, TailEnds, RunStart, RunEnds, CheckLoads, LoadEvents,
         LoadTables, WorkerCrash, CancelRead, FeedbackRead, Return
<1>2. row.status = NoTask => run'.pc = "idle" /\ request'.kind = "none"
  BY DEF TaskExists, Idle, NoTask, Recoverable, Terminal, Completed, Failed, workerVars,
         StructureStart, ClauseBatch, TailEnds, RunStart, RunEnds, CheckLoads, LoadEvents,
         LoadTables, WorkerCrash, CancelRead, FeedbackRead, Return
<1>3. lock' = lock \/ (lock # "free" /\ lock' = "free")
  BY DEF StructureStart, ClauseBatch, TailEnds, RunStart, RunEnds, CheckLoads, LoadEvents,
         LoadTables, WorkerCrash, CancelRead, FeedbackRead, Return, Processes
<1>4. QED BY <1>1, <1>2, <1>3 DEF TaskExists, Writer!Publish, Writer!vars

\* Every step is one of update_task, its return, or not seen.
LEMMA StoreRefines ==
    ASSUME IInv, TaskExists, [Next]_vars
    PROVE  TaskExists' /\ [Writer!Next]_(Writer!vars)
<1>1. ASSUME NEW p \in Processes, NEW new, Announces(p, new)
      PROVE  TaskExists' /\ [Writer!Next]_(Writer!vars)
  BY <1>1, AnnouncesRefines DEF Writer!Next
<1>2. CASE Worker
  BY <1>1, <1>2, RunAnnounces, OthersPublish DEF Worker, Writer!Next, Processes
<1>3. CASE Api
  <2>1. CASE CancelRead \/ \E r \in Risks : FeedbackRead(r)
    BY <2>1, OthersPublish DEF Writer!Next
  <2>2. CASE CreateTask \/ RequestWrite \/ Recover
    <3>1. UNCHANGED <<row, events, lock>> => TaskExists' /\ UNCHANGED Writer!vars
      BY <2>2 DEF TaskExists, Writer!vars, CreateTask, RequestWrite, Recover, workerVars
    <3>2. QED BY <1>1, <2>2, <3>1, ApiAnnounces DEF Processes
  <2>3. QED BY <1>3, <2>1, <2>2 DEF Api
<1>4. CASE \E p \in Processes : Return(p)
  BY <1>4, OthersPublish DEF Writer!Next
<1>5. CASE UNCHANGED vars
  BY <1>5 DEF vars, dbVars, workerVars, TaskExists, Writer!vars
<1>6. QED BY <1>2, <1>3, <1>4, <1>5 DEF Next

\* README.md item 40, for whatever processes, crashes and stale requests write
\* to a task: status and event are committed as one, one update_task at a
\* time, none leaves a cancellation, and the log is only appended to.  It is
\* what the readers below take for granted.
THEOREM StoreIsTheWriter == Spec => Writer!Spec
<1>1. Init => TaskExists /\ Writer!Init
  BY DEF Init, TaskExists, NoTaskRow, Idle, NoTask, Writer!Init, Writer!NoTask
<1>2. IInv /\ TaskExists /\ [Next]_vars => TaskExists' /\ [Writer!Next]_(Writer!vars)
  BY StoreRefines
<1>3. QED BY <1>1, <1>2, InvHolds, PTL DEF Spec, Writer!Spec

-----------------------------------------------------------------------------
(* The readers of the event log.                                           *)

CONSTANTS StreamedStatuses, Clients, MaxOpens, FaultKinds

VARIABLES current, publishing, hint, client, read, opens, streamFaults

\* The pages that stream the log of the store.
Stream == INSTANCE EventStream WITH
              Statuses <- StreamedStatuses, status <- current, faults <- streamFaults

Places == {"closed", "get", "loop", "query", "wait", "requery", "poll"}

StreamTypes ==
    /\ current \in Stream!ReviewStatuses \cup {Stream!NoTask}
    /\ events \in Seq(Stream!ReviewStatuses)
    /\ client \in [Clients -> [pc    : Places,
                               next  : Nat,
                               shown : Stream!ReviewStatuses \cup {Stream!NoTask}]]
    /\ read \in [Clients -> [from : Nat, got : Seq(Stream!ReviewStatuses)]]

Cursor ==
    \A c \in Clients : Stream!Streaming(c) =>
        /\ client[c].next = read[c].from + Len(read[c].got)
        /\ client[c].next <= Len(events)

Inv == StreamTypes /\ Cursor

\* What one step of the log or of its readers is.
LogStep == [Stream!Promise!Next]_<<events, read>>

\* How many events of a query a client takes (Receive).
Taken(batch) ==
    LET over == {k \in DOMAIN batch : batch[k] \in Stream!Terminal}
    IN  IF over = {} THEN Len(batch) ELSE CHOOSE k \in over : \A j \in over : k <= j

\* It takes nothing only of an empty batch.
LEMMA TakesPrefix ==
    ASSUME NEW S, NEW batch \in Seq(S)
    PROVE  /\ Taken(batch) \in 0..Len(batch)
           /\ Taken(batch) = 0 <=> batch = <<>>
<1> DEFINE over == {k \in DOMAIN batch : batch[k] \in Stream!Terminal}
<1>1. Len(batch) \in Nat /\ DOMAIN batch = 1..Len(batch) /\ (Len(batch) = 0 <=> batch = <<>>)
  BY EmptySeq, LenProperties
<1>2. CASE over = {}
  BY <1>1, <1>2 DEF Taken
<1>3. CASE over # {}
  <2>1. over \in SUBSET Nat /\ over \subseteq 1..Len(batch)
    BY <1>1
  <2>2. Taken(batch) \in over
    BY <1>3, <2>1, LeastOf DEF Taken
  <2>3. QED BY <1>1, <2>1, <2>2
<1>4. QED BY <1>2, <1>3

\* Taking a prefix of what follows event id `next' is reading on in the log.
LEMMA PrefixOfRest ==
    ASSUME NEW S, NEW log \in Seq(S), NEW next \in 0..Len(log),
           NEW n \in 0..(Len(log) - next)
    PROVE  LET rest == SubSeq(log, next + 1, Len(log))
           IN  /\ rest \in Seq(S)
               /\ Len(rest) = Len(log) - next
               /\ SubSeq(rest, 1, n) \in Seq(S)
               /\ Len(SubSeq(rest, 1, n)) = n
               /\ SubSeq(rest, 1, n) = SubSeq(log, next + 1, next + n)
<1> DEFINE rest == SubSeq(log, next + 1, Len(log))
<1>1. Len(log) \in Nat /\ next \in Nat /\ n \in Nat /\ next + n <= Len(log)
  OBVIOUS
<1>2. /\ rest \in Seq(S) /\ Len(rest) = Len(log) - next
      /\ \A i \in 1..Len(rest) : rest[i] = log[next + i]
  BY <1>1, SubSeqProperties
<1> DEFINE taken == SubSeq(rest, 1, n)
           direct == SubSeq(log, next + 1, next + n)
<1> HIDE DEF rest
<1>3. /\ taken \in Seq(S) /\ Len(taken) = n
      /\ \A i \in 1..n : taken[i] = rest[i]
  BY <1>1, <1>2, SubSeqProperties
<1>4. /\ direct \in Seq(S) /\ Len(direct) = n
      /\ \A i \in 1..n : direct[i] = log[next + i]
  BY <1>1, SubSeqProperties
<1>5. \A i \in 1..n : taken[i] = direct[i]
  BY <1>1, <1>2, <1>3, <1>4
<1>6. taken = direct
  BY <1>3, <1>4, <1>5, SeqEqual
<1>7. QED BY <1>2, <1>3, <1>6 DEF rest

-----------------------------------------------------------------------------
(* The steps.                                                              *)

\* Nobody has opened the task.
LEMMA InitRefines == Stream!Init => Inv /\ Stream!Promise!Init
BY DEF Stream!Init, Inv, StreamTypes, Cursor, Stream!Streaming, Places, Stream!Promise!Init, Stream!NoTask

\* update_task appends an event and gives no client anything.
LEMMA CommitRefines ==
    ASSUME StreamedStatuses \subseteq Stream!ReviewStatuses, Inv, Stream!Commit
    PROVE  Inv' /\ LogStep
<1>1. PICK s \in StreamedStatuses : current' = s /\ events' = Append(events, s)
  BY DEF Stream!Commit
<1>2. s \in Stream!ReviewStatuses
  OBVIOUS
<1>3. events' \in Seq(Stream!ReviewStatuses) /\ Len(events') = Len(events) + 1 /\ Len(events) \in Nat
  BY <1>1, <1>2, AppendProperties DEF Inv, StreamTypes
<1>4. StreamTypes'
  BY <1>1, <1>2, <1>3 DEF Inv, StreamTypes, Stream!Commit
<1>5. Cursor'
  BY <1>3 DEF Inv, StreamTypes, Cursor, Stream!Streaming, Stream!Commit
<1>6. LogStep
  BY <1>1, <1>2 DEF LogStep, Stream!Promise!Next, Stream!Promise!Publish, Stream!Commit
<1>7. QED BY <1>4, <1>5, <1>6 DEF Inv

\* A step that touches neither the log nor what a client has got, and neither
\* moves a cursor nor starts a stream.
LEMMA OthersStutter ==
    ASSUME Inv, UNCHANGED <<current, events, read>>,
           StreamTypes',
           \A c \in Clients : Stream!Streaming(c)' => Stream!Streaming(c) /\ client'[c].next = client[c].next
    PROVE  Inv' /\ LogStep
BY DEF Inv, StreamTypes, Cursor, LogStep

\* The hint of a publication changes no client.
LEMMA PublishRefines == Inv /\ Stream!Publish => Inv' /\ LogStep
<1> SUFFICES ASSUME Inv, Stream!Publish PROVE Inv' /\ LogStep
  OBVIOUS
<1>1. StreamTypes' /\ Cursor'
  BY DEF Stream!Publish, Inv, StreamTypes, Cursor, Stream!Streaming
<1>2. QED BY <1>1 DEF Inv, LogStep, Stream!Publish

\* Loading the row streams nothing yet.
LEMMA GetRowRefines == ASSUME NEW c \in Clients PROVE Inv /\ Stream!GetRow(c) => Inv' /\ LogStep
<1> SUFFICES ASSUME Inv, Stream!GetRow(c) PROVE Inv' /\ LogStep
  OBVIOUS
<1>1. StreamTypes'
  BY DEF Stream!GetRow, Inv, StreamTypes, Places
<1>2. \A d \in Clients : Stream!Streaming(d)' => Stream!Streaming(d) /\ client'[d].next = client[d].next
  BY DEF Stream!GetRow, Inv, StreamTypes, Stream!Streaming
<1>3. QED BY <1>1, <1>2, OthersStutter DEF Stream!GetRow

\* Loading the events opens the log where it ends.
LEMMA GetEventsRefines == ASSUME NEW c \in Clients PROVE Inv /\ Stream!GetEvents(c) => Inv' /\ LogStep
<1> SUFFICES ASSUME Inv, Stream!GetEvents(c) PROVE Inv' /\ LogStep
  OBVIOUS
<1>1. Len(events) \in Nat /\ Stream!LatestEventId + 1 = Len(events)
  BY DEF Inv, StreamTypes, Stream!LatestEventId
<1>2. /\ client' = [client EXCEPT ![c].pc = IF client[c].shown \in Stream!Terminal THEN "closed" ELSE "loop",
                                  ![c].next = Len(events)]
      /\ read' = [read EXCEPT ![c] = [from |-> Len(events), got |-> <<>>]]
      /\ UNCHANGED <<current, events>>
  BY <1>1 DEF Stream!GetEvents
<1>3. StreamTypes'
  <2>1. client' \in [Clients -> [pc    : Places,
                                 next  : Nat,
                                 shown : Stream!ReviewStatuses \cup {Stream!NoTask}]]
    BY <1>1, <1>2 DEF Inv, StreamTypes, Places
  <2>2. [from |-> Len(events), got |-> <<>>] \in [from : Nat, got : Seq(Stream!ReviewStatuses)]
    BY <1>1
  <2>3. read' \in [Clients -> [from : Nat, got : Seq(Stream!ReviewStatuses)]]
    BY <1>2, <2>2 DEF Inv, StreamTypes
  <2>4. QED BY <1>2, <2>1, <2>3 DEF Inv, StreamTypes
<1>4. Cursor'
  <2> SUFFICES ASSUME NEW d \in Clients, Stream!Streaming(d)'
               PROVE  /\ client'[d].next = read'[d].from + Len(read'[d].got)
                      /\ client'[d].next <= Len(events)
    BY <1>2 DEF Cursor
  <2>1. CASE d = c
    BY <1>1, <1>2, <2>1 DEF Inv, StreamTypes
  <2>2. CASE d # c
    BY <1>2, <2>2 DEF Inv, StreamTypes, Cursor, Stream!Streaming
  <2>3. QED BY <2>1, <2>2
<1>5. Stream!Promise!Open(c)
  <2>1. Len(events) \in 0..Len(events)
    BY <1>1
  <2>2. QED BY <1>2, <2>1 DEF Stream!Promise!Open
<1>6. QED BY <1>3, <1>4, <1>5 DEF Inv, LogStep, Stream!Promise!Next

\* Subscribing and waiting move no cursor.
LEMMA SubscribeRefines == ASSUME NEW c \in Clients PROVE Inv /\ Stream!Subscribe(c) => Inv' /\ LogStep
<1> SUFFICES ASSUME Inv, Stream!Subscribe(c) PROVE Inv' /\ LogStep
  OBVIOUS
<1>1. PICK pc \in Places : client' = [client EXCEPT ![c].pc = pc]
  BY DEF Stream!Subscribe, Stream!To, Places
<1>2. StreamTypes'
  BY <1>1 DEF Stream!Subscribe, Inv, StreamTypes
<1>3. \A d \in Clients : Stream!Streaming(d)' => Stream!Streaming(d) /\ client'[d].next = client[d].next
  BY <1>1 DEF Stream!Subscribe, Inv, StreamTypes, Stream!Streaming
<1>4. QED BY <1>2, <1>3, OthersStutter DEF Stream!Subscribe

\* The end of a wait moves none either.
LEMMA WaitRefines == ASSUME NEW c \in Clients PROVE Inv /\ Stream!Wait(c) => Inv' /\ LogStep
<1> SUFFICES ASSUME Inv, Stream!Wait(c) PROVE Inv' /\ LogStep
  OBVIOUS
<1>1. PICK pc \in Places : client' = [client EXCEPT ![c].pc = pc]
  BY DEF Stream!Wait, Stream!To, Places
<1>2. StreamTypes'
  BY <1>1 DEF Stream!Wait, Inv, StreamTypes
<1>3. \A d \in Clients : Stream!Streaming(d)' => Stream!Streaming(d) /\ client'[d].next = client[d].next
  BY <1>1 DEF Stream!Wait, Inv, StreamTypes, Stream!Streaming
<1>4. QED BY <1>2, <1>3, OthersStutter DEF Stream!Wait

\* A broken stream is not streamed any more.
LEMMA StreamBreaksRefines == ASSUME NEW c \in Clients PROVE Inv /\ Stream!StreamBreaks(c) => Inv' /\ LogStep
<1> SUFFICES ASSUME Inv, Stream!StreamBreaks(c) PROVE Inv' /\ LogStep
  OBVIOUS
<1>1. StreamTypes'
  BY DEF Stream!StreamBreaks, Inv, StreamTypes, Places
<1>2. \A d \in Clients : Stream!Streaming(d)' => Stream!Streaming(d) /\ client'[d].next = client[d].next
  BY DEF Stream!StreamBreaks, Inv, StreamTypes, Stream!Streaming
<1>3. QED BY <1>1, <1>2, OthersStutter DEF Stream!StreamBreaks

\* What a query returns is sent from the cursor on: the client gets the next
\* events of the log, or none.
LEMMA QueryRefines == ASSUME NEW c \in Clients PROVE Inv /\ Stream!Query(c) => Inv' /\ LogStep
<1> SUFFICES ASSUME Inv, Stream!Query(c) PROVE Inv' /\ LogStep
  OBVIOUS
<1> DEFINE next == client[c].next
           batch == Stream!ListAfter(next)
           n == Taken(batch)
<1>1. /\ events \in Seq(Stream!ReviewStatuses) /\ Len(events) \in Nat
      /\ read[c].from \in Nat /\ read[c].got \in Seq(Stream!ReviewStatuses)
      /\ next \in 0..Len(events)
      /\ next = read[c].from + Len(read[c].got)
      /\ UNCHANGED <<current, events>>
  BY DEF Stream!Query, Inv, StreamTypes, Cursor, Stream!Streaming
<1>2. CASE batch = <<>> /\ client[c].pc = "query"
  <2>1. client' = [client EXCEPT ![c].pc = "wait"] /\ UNCHANGED read
    BY <1>2 DEF Stream!Query, Stream!To
  <2>2. StreamTypes'
    BY <1>1, <2>1 DEF Inv, StreamTypes, Places
  <2>3. \A d \in Clients : Stream!Streaming(d)' => Stream!Streaming(d) /\ client'[d].next = client[d].next
    BY <1>2, <2>1 DEF Inv, StreamTypes, Stream!Streaming
  <2>4. QED BY <1>1, <2>1, <2>2, <2>3, OthersStutter
<1>3. CASE ~(batch = <<>> /\ client[c].pc = "query")
  <2>1. /\ batch \in Seq(Stream!ReviewStatuses)
        /\ Len(batch) = Len(events) - next
    BY <1>1, PrefixOfRest DEF Stream!ListAfter
  <2>2. n \in 0..(Len(events) - next) /\ (n = 0 <=> batch = <<>>)
    BY <2>1, TakesPrefix
  <2>3. /\ SubSeq(batch, 1, n) \in Seq(Stream!ReviewStatuses)
        /\ Len(SubSeq(batch, 1, n)) = n
        /\ SubSeq(batch, 1, n) = SubSeq(events, next + 1, next + n)
    BY <1>1, <2>2, PrefixOfRest DEF Stream!ListAfter
  <2>4. PICK pc \in {"loop", "closed"} :
          /\ client' = [client EXCEPT ![c] = [pc    |-> pc,
                                              next  |-> next + n,
                                              shown |-> IF n = 0 THEN client[c].shown ELSE batch[n]]]
          /\ read' = [read EXCEPT ![c].got = @ \o SubSeq(batch, 1, n)]
    BY <1>3 DEF Stream!Query, Stream!Receive, Stream!NextIndex, Taken, Inv, StreamTypes
  <2> DEFINE got == read[c].got \o SubSeq(batch, 1, n)
  <2>5. got \in Seq(Stream!ReviewStatuses) /\ Len(got) = Len(read[c].got) + n
    BY <1>1, <2>3, ConcatProperties
  <2>6. (IF n = 0 THEN client[c].shown ELSE batch[n]) \in Stream!ReviewStatuses \cup {Stream!NoTask}
    BY <2>1, <2>2 DEF Inv, StreamTypes
  <2>7. n \in Nat /\ next + n \in 0..Len(events)
    BY <1>1, <2>2
  <2> HIDE DEF n, batch, got
  <2>8. read' = [read EXCEPT ![c].got = got]
    BY <2>4 DEF got, Inv, StreamTypes
  <2>9. StreamTypes'
    <3>1. [pc |-> pc, next |-> next + n, shown |-> IF n = 0 THEN client[c].shown ELSE batch[n]]
            \in [pc : Places, next : Nat, shown : Stream!ReviewStatuses \cup {Stream!NoTask}]
      BY <2>6, <2>7 DEF Places
    <3>2. client' \in [Clients -> [pc    : Places,
                                   next  : Nat,
                                   shown : Stream!ReviewStatuses \cup {Stream!NoTask}]]
      BY <2>4, <3>1 DEF Inv, StreamTypes
    <3>3. read' \in [Clients -> [from : Nat, got : Seq(Stream!ReviewStatuses)]]
      BY <2>5, <2>8 DEF Inv, StreamTypes
    <3>4. QED BY <1>1, <3>2, <3>3 DEF Inv, StreamTypes
  <2>10. Cursor'
    <3> SUFFICES ASSUME NEW d \in Clients, Stream!Streaming(d)'
                 PROVE  /\ client'[d].next = read'[d].from + Len(read'[d].got)
                        /\ client'[d].next <= Len(events)
      BY <1>1 DEF Cursor
    <3>1. CASE d = c
      <4>1. client'[c].next = next + n /\ read'[c].from = read[c].from /\ read'[c].got = got
        BY <2>4, <2>8 DEF Inv, StreamTypes
      <4>2. read[c].from + Len(got) = next + n
        <5>1. /\ next = read[c].from + Len(read[c].got)
              /\ Len(got) = Len(read[c].got) + n
          BY <1>1, <2>5
        <5>2. read[c].from \in Nat /\ Len(read[c].got) \in Nat /\ n \in Nat
          BY <1>1, <2>7
        <5>3. QED BY <5>1, <5>2
      <4>3. client'[d].next = read'[d].from + Len(read'[d].got) /\ client'[d].next <= Len(events)
        BY <2>7, <3>1, <4>1, <4>2
      <4>4. QED BY <4>3
    <3>2. CASE d # c
      BY <2>4, <2>8, <3>2 DEF Inv, StreamTypes, Cursor, Stream!Streaming
    <3>3. QED BY <3>1, <3>2
  <2>11. LogStep
    <3>1. CASE n = 0
      <4>1. got = read[c].got
        BY <1>1, <2>3, <3>1, ConcatEmptySeq, EmptySeq DEF got
      <4>2. read' = read
        BY <2>8, <4>1 DEF Inv, StreamTypes
      <4>3. QED BY <1>1, <4>2 DEF LogStep
    <3>2. CASE n # 0
      <4>1. n \in 1..Len(events)
        BY <1>1, <2>2, <3>2
      <4>2. Stream!Promise!Deliver(c)
        <5>1. next = read[c].from + Len(read[c].got) /\ next + n <= Len(events)
          BY <1>1, <2>7
        <5>2. read' = [read EXCEPT ![c].got = @ \o SubSeq(events, next + 1, next + n)]
          BY <2>3, <2>4
        <5>3. QED BY <1>1, <4>1, <5>1, <5>2 DEF Stream!Promise!Deliver
      <4>3. QED BY <4>2 DEF LogStep, Stream!Promise!Next
    <3>3. QED BY <3>1, <3>2
  <2>12. QED BY <2>9, <2>10, <2>11 DEF Inv
<1>4. QED BY <1>2, <1>3

\* Every step keeps the cursors and is a step of the log or none.
LEMMA NextRefines ==
    ASSUME StreamedStatuses \subseteq Stream!ReviewStatuses
    PROVE  Inv /\ [Stream!Next]_(Stream!vars) => Inv' /\ LogStep
<1> SUFFICES ASSUME Inv, [Stream!Next]_(Stream!vars) PROVE Inv' /\ LogStep
  OBVIOUS
<1>1. CASE Stream!Commit
  BY <1>1, CommitRefines
<1>2. CASE Stream!Publish
  BY <1>2, PublishRefines
<1>3. ASSUME NEW c \in Clients, Stream!GetRow(c) \/ Stream!Stream(c) \/ Stream!StreamBreaks(c)
      PROVE  Inv' /\ LogStep
  BY <1>3, GetRowRefines, GetEventsRefines, SubscribeRefines, WaitRefines, QueryRefines,
     StreamBreaksRefines DEF Stream!Stream
<1>4. CASE UNCHANGED Stream!vars
  BY <1>4 DEF Stream!vars, Inv, StreamTypes, Cursor, Stream!Streaming, LogStep
<1>5. QED BY <1>1, <1>2, <1>3, <1>4 DEF Stream!Next

\* README.md item 80, for every client: the events after the one it was given,
\* in order, none twice and none left out.
THEOREM StreamImplementsLog ==
    ASSUME StreamedStatuses \subseteq Stream!ReviewStatuses
    PROVE  Stream!Spec => Stream!KeepsPromise
<1>1. QED BY InitRefines, NextRefines, PTL DEF Stream!Spec, LogStep, Stream!KeepsPromise, Stream!Promise!Spec

\* A client never asks for an event id beyond the log, and every client holds
\* as many events as its cursor has moved.
THEOREM CursorsAreExact ==
    ASSUME StreamedStatuses \subseteq Stream!ReviewStatuses
    PROVE  Stream!Spec => []Cursor
<1>1. Inv => Cursor
  BY DEF Inv
<1>2. QED BY <1>1, InitRefines, NextRefines, PTL DEF Stream!Spec

=============================================================================
