--------------------------- MODULE ToolCallProofs ---------------------------
(***************************************************************************)
(* What the log says of a tool call is true: proofs of the properties of   *)
(* ToolCall, for any set of tools.  Records says how the shared list and   *)
(* the requests stand to each other at every place of the tool's thread;   *)
(* Entries, what an entry was written from.                                *)
(***************************************************************************)
EXTENDS ToolCall, SequenceTheorems, TLAPS

\* What replacing the last element of a sequence yields.
LEMMA LastReplaced ==
    ASSUME NEW S, NEW s \in Seq(S), s # <<>>, NEW x \in S
    PROVE  /\ [s EXCEPT ![Len(s)] = x] \in Seq(S)
           /\ Len([s EXCEPT ![Len(s)] = x]) = Len(s)
           /\ \A i \in 1..Len(s) :
                 [s EXCEPT ![Len(s)] = x][i] = IF i = Len(s) THEN x ELSE s[i]
<1>1. Len(s) \in 1..Len(s)
  OBVIOUS
<1>2. ASSUME NEW k \in 1..Len(s)
      PROVE  /\ [s EXCEPT ![k] = x] \in Seq(S)
             /\ Len([s EXCEPT ![k] = x]) = Len(s)
             /\ \A j \in 1..Len(s) : [s EXCEPT ![k] = x][j] = IF j = k THEN x ELSE s[j]
  BY ExceptSeq
<1>3. QED BY <1>1, <1>2

\* The shared list keeps its length when its newest record is marked.
LEMMA MarkedRecords ==
    ASSUME NEW given \in Seq(RecordTypes)
    PROVE  /\ Marked(given) \in Seq(RecordTypes)
           /\ Len(Marked(given)) = Len(given)
           /\ \A i \in 1..Len(given) :
                 Marked(given)[i] = IF i = Len(given) THEN "schema_error" ELSE given[i]
<1>1. "schema_error" \in RecordTypes
  BY DEF RecordTypes, Permanent
<1>2. CASE given = <<>>
  BY <1>2 DEF Marked
<1>3. CASE given # <<>>
  BY <1>1, <1>3, LastReplaced DEF Marked
<1>4. QED BY <1>2, <1>3

-----------------------------------------------------------------------------

\* The first n records are those of the first n requests.
Agree(n) == \A i \in 1..n : records[i] = RecordOf(requests[i])

Records ==
    /\ thread \in {"none", "opening"} => records = <<>> /\ requests = <<>> /\ attempt = 1
    /\ mode = "local" => thread # "flying"
    /\ mode = "remote" /\ thread = "calling" =>
          Len(records) = attempt - 1 /\ Len(requests) = attempt - 1 /\ Agree(attempt - 1)
    /\ thread = "flying" =>
          /\ Len(records) = attempt - 1 /\ Len(requests) = attempt /\ Agree(attempt - 1)
          /\ requests[attempt] = "flying"
    /\ mode = "remote" /\ thread = "judging" =>
          Len(records) = attempt /\ Len(requests) = attempt /\ Agree(attempt)
    /\ mode = "remote" /\ thread = "done" =>
          \/ MetUnforeseen(requests)
          \/ Len(records) = Len(requests) /\ Agree(Len(requests))
          \/ requests = <<>> /\ \E why \in Refusals : records = <<why>>

Entries ==
    /\ caller = "start" => thread = "none"
    /\ result # "none" => thread = "done"
    /\ caller # "ended" => entry = NoEntry
    /\ TraceIsComplete
    /\ entry.summary = "not_invoked" /\ entry.error # "check" =>
          /\ mode = "remote"
          /\ \/ caller = "ended" /\ thread = "none"
             \/ thread = "done" /\ records = <<>>

IInv == TypeOK /\ Records /\ Entries

-----------------------------------------------------------------------------

LEMMA InitTypeOK == Init => TypeOK
<1> SUFFICES ASSUME Init PROVE TypeOK
  OBVIOUS
<1>1. records \in Seq(RecordTypes) /\ requests \in Seq(Fates) /\ asked \in Seq(Fates)
  BY DEF Init
<1>2. NoEntry \in LogEntries
  <2>1. <<>> \in Seq(RecordTypes)
    OBVIOUS
  <2>2. QED BY <2>1 DEF NoEntry, LogEntries, Errors
<1>3. cancelled \in BOOLEAN /\ overdue \in BOOLEAN
  BY DEF Init
<1>4. entry \in LogEntries
  BY <1>2 DEF Init
<1>5. QED BY <1>1, <1>3, <1>4 DEF Init, TypeOK

LEMMA NextTypeOK == IInv /\ Next => TypeOK'
<1> SUFFICES ASSUME IInv, Next PROVE TypeOK'
  OBVIOUS
<1>0. TypeOK /\ Records
  BY DEF IInv
<1> USE DEF TypeOK, Works, Recorded, control, work, written
<1>1. ASSUME NEW error \in Errors, Ended(error)
      PROVE  TypeOK'
  <2>1. Status(error) \in {"success", "failed", "cancelled", "timeout"}
    BY DEF Status
  <2>2. entry' \in LogEntries
    BY <1>0, <1>1, <2>1 DEF Ended, Summary, LogEntries
  <2>3. QED
    BY <1>0, <1>1, <2>2 DEF Ended
<1>2. CASE Caller
  <2>1. CASE BeginCancelled BY <1>0, <2>1, <1>1 DEF BeginCancelled, Errors
  <2>2. CASE Begin BY <1>0, <2>2 DEF Begin
  <2>3. CASE Fail BY <1>0, <2>3, <1>1 DEF Fail, Errors
  <2>4. CASE Adopt BY <1>0, <2>4, <1>1 DEF Adopt, Errors
  <2>5. CASE GiveUp BY <1>0, <2>5, <1>1 DEF GiveUp, Errors
  <2>6. CASE CheckFails BY <1>0, <2>6, <1>1 DEF CheckFails, Errors
  <2>7. QED BY <1>2, <2>1, <2>2, <2>3, <2>4, <2>5, <2>6 DEF Caller
<1>3. CASE Thread
  <2>a. Marked(records) \in Seq(RecordTypes)
    BY <1>0, MarkedRecords
  <2>b. ASSUME NEW fate \in Fates, requests # <<>>
         PROVE  Settled(fate) \in Seq(Fates)
    BY <1>0, <2>b, LastReplaced DEF Settled
  <2>c. thread = "flying" \/ (thread = "judging" /\ mode = "remote") => requests # <<>>
    BY <1>0 DEF Records
  <2>1. CASE Open \/ RefuseInput \/ KnowAnswer
    BY <1>0, <2>1 DEF Open, RefuseInput, KnowAnswer
  <2>2. CASE AnswerLocally BY <1>0, <2>2 DEF AnswerLocally, RecordTypes
  <2>3. CASE Refuse BY <1>0, <2>3 DEF Refuse, Raises, RecordTypes
  <2>4. CASE Send BY <1>0, <2>4 DEF Send, Fates
  <2>5. CASE ReceiveAnswer BY <1>0, <2>5, <2>b, <2>c DEF ReceiveAnswer, RecordTypes, Fates
  <2>6. CASE ReceiveError
    <3>1. PICK error \in Transient \cup Permanent :
            /\ requests' = Settled(error)
            /\ records' = Recorded(error)
            /\ IF MayRetry(error)
               THEN thread' = "calling" /\ attempt' = 2 /\ UNCHANGED result
               ELSE Raises /\ UNCHANGED attempt
      BY <2>6 DEF ReceiveError
    <3>2. error \in Fates /\ error \in RecordTypes BY <3>1 DEF Fates, RecordTypes
    <3>3. QED BY <1>0, <2>6, <3>1, <3>2, <2>b, <2>c DEF ReceiveError, Raises
  <2>7. CASE ReceiveUnforeseen
    BY <1>0, <2>7, <2>a, <2>b, <2>c DEF ReceiveUnforeseen, Raises, Fates
  <2>8. CASE Accept BY <1>0, <2>8 DEF Accept
  <2>9. CASE Reject BY <1>0, <2>9, <2>a, <2>b, <2>c DEF Reject, Raises, Fates
  <2>10. QED
    BY <1>3, <2>1, <2>2, <2>3, <2>4, <2>5, <2>6, <2>7, <2>8, <2>9 DEF Thread
<1>4. CASE RequestCancel BY <1>0, <1>4 DEF RequestCancel
<1>5. CASE TimePasses BY <1>0, <1>5 DEF TimePasses
<1>6. QED BY <1>2, <1>3, <1>4, <1>5 DEF Next

-----------------------------------------------------------------------------

LEMMA InitIInv == Init => IInv
<1> SUFFICES ASSUME Init PROVE IInv
  OBVIOUS
<1>1. TypeOK
  BY InitTypeOK
<1>2. Records
  BY DEF Init, Records
<1>3. Entries
  BY DEF Init, Entries, NoEntry, TraceIsComplete
<1>4. QED BY <1>1, <1>2, <1>3 DEF IInv

\* The thread's steps keep the list and the requests together.
LEMMA ThreadRecords == IInv /\ Thread => Records'
<1> SUFFICES ASSUME IInv, Thread PROVE Records'
  OBVIOUS
<1> USE DEF IInv, TypeOK, Records, Works, Recorded
<1>1. CASE Open \/ RefuseInput \/ KnowAnswer
  BY <1>1 DEF Open, RefuseInput, KnowAnswer, Agree
<1>2. CASE AnswerLocally
  BY <1>2 DEF AnswerLocally
<1>3. CASE Refuse
  BY <1>3 DEF Refuse, Raises
<1>4. CASE Send
  BY <1>4 DEF Send, Agree
<1>5. CASE ReceiveAnswer
  BY <1>5, LastReplaced DEF ReceiveAnswer, Settled, Agree, RecordOf, Rejected, Fates
<1>6. CASE ReceiveError
  BY <1>6, LastReplaced DEF ReceiveError, Settled, Raises, MayRetry, Agree, RecordOf,
     Rejected, Fates, Transient, Permanent
<1>7. CASE ReceiveUnforeseen
  BY <1>7, LastReplaced DEF ReceiveUnforeseen, Settled, Raises, MetUnforeseen, Fates
<1>8. CASE Accept
  BY <1>8 DEF Accept, Agree
<1>9. CASE Reject
  BY <1>9, LastReplaced, MarkedRecords DEF Reject, Settled, Raises, Agree, RecordOf, Fates
<1>10. QED
  BY <1>1, <1>2, <1>3, <1>4, <1>5, <1>6, <1>7, <1>8, <1>9 DEF Thread

LEMMA CallerRecords == IInv /\ (Caller \/ RequestCancel \/ TimePasses) => Records'
<1> SUFFICES ASSUME IInv, Caller \/ RequestCancel \/ TimePasses PROVE Records'
  OBVIOUS
<1>1. UNCHANGED <<mode, attempt, records, requests>> /\ (UNCHANGED thread \/ Begin)
  BY DEF Caller, BeginCancelled, Begin, Fail, Adopt, GiveUp, CheckFails, Ended, work, control,
     RequestCancel, TimePasses
<1>2. QED
  BY <1>1 DEF IInv, Records, Agree, MetUnforeseen, Begin, Entries

\* An entry that is written now reports what the requests have come to.
LEMMA EntryOfRecords ==
    ASSUME IInv, NEW error \in Errors, Ended(error),
           error \in {"none", "tool"} => thread = "done"
    PROVE  TraceIsComplete'
<1> SUFFICES ASSUME mode = "remote", ~MetUnforeseen(requests),
                    ~(requests = <<>> /\ \E why \in Refusals : records = <<why>>)
             PROVE  /\ \A i \in DOMAIN records :
                          i \in DOMAIN requests /\ records[i] = RecordOf(requests[i])
                    /\ \A i \in DOMAIN requests \ DOMAIN records :
                          error \in {"cancelled", "timeout", "check"} /\ requests[i] = "flying"
  BY DEF TraceIsComplete, Ended, GivenUp, MetUnforeseen
<1>1. /\ Len(records) \in Nat /\ DOMAIN records = 1..Len(records)
      /\ Len(requests) \in Nat /\ DOMAIN requests = 1..Len(requests)
      /\ attempt \in 1..2
  BY DEF IInv, TypeOK
<1>2. CASE thread = "flying"
  BY <1>1, <1>2 DEF IInv, Records, Agree, Errors
<1>3. CASE thread # "flying"
  <2>1. Len(records) = Len(requests) /\ Agree(Len(requests))
    <3>1. CASE thread \in {"none", "opening"}
      <4>1. records = <<>> /\ requests = <<>>
        BY <3>1 DEF IInv, Records
      <4>2. QED BY <4>1 DEF Agree
    <3>2. CASE thread = "calling"
      <4>1. Len(records) = attempt - 1 /\ Len(requests) = attempt - 1 /\ Agree(attempt - 1)
        BY <3>2 DEF IInv, Records
      <4>2. QED BY <4>1
    <3>3. CASE thread = "judging"
      <4>1. Len(records) = attempt /\ Len(requests) = attempt /\ Agree(attempt)
        BY <3>3 DEF IInv, Records
      <4>2. QED BY <4>1
    <3>4. CASE thread = "done"
      BY <3>4 DEF IInv, Records
    <3>5. QED BY <1>3, <3>1, <3>2, <3>3, <3>4 DEF IInv, TypeOK
  <2>2. QED BY <1>1, <2>1 DEF Agree
<1>4. QED BY <1>2, <1>3

\* An entry is written once, from the list as it is, and the list of a call
\* that has an outcome no longer changes.
LEMMA NextEntries == IInv /\ Next => Entries'
<1> SUFFICES ASSUME IInv, Next PROVE Entries'
  OBVIOUS
<1> USE DEF IInv, TypeOK, Entries
<1>1. CASE Thread
  <2>1. thread \notin {"none", "done"}
    BY <1>1 DEF Thread, RefuseInput, KnowAnswer, Open, AnswerLocally, Refuse, Send,
       ReceiveAnswer, ReceiveError, ReceiveUnforeseen, Accept, Reject
  <2>2. UNCHANGED <<mode, caller, entry, asked>>
    BY <1>1 DEF Thread, RefuseInput, KnowAnswer, Open, AnswerLocally, Refuse, Send,
       ReceiveAnswer, ReceiveError, ReceiveUnforeseen, Accept, Reject, Works, written
  <2>3. result' # "none" => thread' = "done"
    BY <1>1, <2>1 DEF Thread, RefuseInput, KnowAnswer, Open, AnswerLocally, Refuse, Send,
       ReceiveAnswer, ReceiveError, ReceiveUnforeseen, Accept, Reject, Raises
  <2>4. TraceIsComplete'
    BY <2>2 DEF TraceIsComplete, GivenUp
  <2>5. QED BY <2>1, <2>2, <2>3, <2>4
<1>2. CASE Caller
  <2>1. ASSUME NEW error \in Errors, Ended(error), caller # "ended",
               error \in {"none", "tool"} => thread = "done"
        PROVE  Entries'
    <3>1. TraceIsComplete'
      BY <2>1, EntryOfRecords
    <3>2. entry'.error = error /\ entry'.calls = records
          /\ entry'.summary = Summary(records, error \in {"cancelled", "timeout"}
                                               /\ caller = "waiting")
      BY <2>1 DEF Ended
    <3>3. entry'.summary = "not_invoked" /\ error # "check" =>
             mode = "remote" /\ (thread = "none" \/ (thread = "done" /\ records = <<>>))
      <4>1. SUFFICES ASSUME entry'.summary = "not_invoked", error # "check"
                     PROVE  mode = "remote"
                            /\ (thread = "none" \/ (thread = "done" /\ records = <<>>))
        OBVIOUS
      <4>2. records = <<>> /\ mode # "local"
            /\ ~(error \in {"cancelled", "timeout"} /\ caller = "waiting")
        BY <3>2, <4>1 DEF Summary
      <4>3. mode = "remote" /\ caller \in {"start", "waiting"}
        BY <2>1, <4>2
      <4>4. QED BY <2>1, <4>1, <4>2, <4>3 DEF Errors
    <3>4. QED BY <2>1, <3>1, <3>2, <3>3 DEF Ended, work, control
  <2>2. CASE BeginCancelled BY <2>1, <2>2 DEF BeginCancelled, Errors
  <2>3. CASE Begin
    <3>1. TraceIsComplete'
      BY <2>3 DEF Begin, written, TraceIsComplete, GivenUp
    <3>2. QED BY <2>3, <3>1 DEF Begin, written, NoEntry, control
  <2>4. CASE Fail BY <2>1, <2>4 DEF Fail, Errors
  <2>5. CASE Adopt BY <2>1, <2>5 DEF Adopt, Errors
  <2>6. CASE GiveUp BY <2>1, <2>6 DEF GiveUp, Errors
  <2>7. CASE CheckFails BY <2>1, <2>7 DEF CheckFails, Errors
  <2>8. QED BY <1>2, <2>2, <2>3, <2>4, <2>5, <2>6, <2>7 DEF Caller
<1>3. CASE RequestCancel
  BY <1>3 DEF RequestCancel, work, written, TraceIsComplete, GivenUp
<1>4. CASE TimePasses
  BY <1>4 DEF TimePasses, work, written, TraceIsComplete, GivenUp
<1>5. QED BY <1>1, <1>2, <1>3, <1>4 DEF Next

THEOREM CallInvariant == Spec => []IInv
<1>1. IInv /\ [Next]_vars => IInv'
  <2> SUFFICES ASSUME IInv, [Next]_vars PROVE IInv'
    OBVIOUS
  <2>1. CASE Next
    <3>1. TypeOK' BY <2>1, NextTypeOK DEF IInv
    <3>2. Records' BY <2>1, ThreadRecords, CallerRecords DEF Next
    <3>3. Entries' BY <2>1, NextEntries
    <3>4. QED BY <3>1, <3>2, <3>3 DEF IInv
  <2>2. CASE UNCHANGED vars
    BY <2>2 DEF vars, control, work, written, IInv, TypeOK, Records, Entries, Agree,
       MetUnforeseen, TraceIsComplete, GivenUp
  <2>3. QED BY <2>1, <2>2
<1>2. QED BY InitIInv, <1>1, PTL DEF Spec

-----------------------------------------------------------------------------

\* Every variable of a call keeps its type (ToolCall!TypeOK).
THEOREM CallTypeCorrect == Spec => []TypeOK
<1>1. IInv => TypeOK
  BY DEF IInv
<1>2. QED BY <1>1, CallInvariant, PTL

\* However a call ends, its log lists the requests that had ended by then with
\* the errors they ended with; all that may be missing is the request which a
\* call that was given up has in flight (ToolCall!TraceIsComplete).
THEOREM TracesAreComplete == Spec => []TraceIsComplete
<1>1. IInv => TraceIsComplete
  BY DEF IInv, Entries
<1>2. QED BY <1>1, CallInvariant, PTL

\* Unless the check for a cancellation failed, no log says that the model was
\* not invoked when it was (ToolCall!NotInvokedIsTrue).
THEOREM NotInvokedIsSound == Spec => []NotInvokedIsTrue
<1>1. IInv => NotInvokedIsTrue
  <2> SUFFICES ASSUME IInv, entry.summary = "not_invoked", entry.error # "check",
                      ~MetUnforeseen(requests)
               PROVE  requests = <<>>
    BY DEF NotInvokedIsTrue
  <2>1. CASE thread = "none"
    BY <2>1 DEF IInv, Records
  <2>2. CASE thread = "done" /\ records = <<>>
    BY <2>2 DEF IInv, Entries, Records, TypeOK
  <2>3. QED BY <2>1, <2>2 DEF IInv, Entries
<1>2. QED BY <1>1, CallInvariant, PTL
=============================================================================
