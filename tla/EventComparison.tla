--------------------------- MODULE EventComparison ---------------------------
(***************************************************************************)
(* compare_xml_event_files: two threads read a file each and publish the   *)
(* events of one time as a batch; a third compares the batches.  The three *)
(* meet at a barrier twice in a round: when both batches are published,    *)
(* and when they have been compared.                                       *)
(*                                                                         *)
(* A file is the sequence of its elements.  A reader that meets an event   *)
(* it does not know panics and comes to no barrier any more.               *)
(***************************************************************************)
EXTENDS EventFiles
LOCAL INSTANCE SequencesExt
LOCAL INSTANCE FiniteSetsExt

VARIABLES
  file,     \* file[r]: the file of reader r
  reader,   \* the readers' local state
  batch,    \* the batches shared with the comparator
  waiting,  \* the threads that wait at the barrier
  cmp,      \* the comparator's local state
  stop,     \* should_stop
  verdict   \* comparison_result

cmpVars == <<file, reader, batch, waiting, cmp, stop, verdict>>

Readers == {1, 2}
Threads == Readers \cup {3}
NoTime == -1
NewBatch == [time |-> NoTime, events |-> <<>>, finished |-> FALSE]

\* The threads are started.
StartOn(f1, f2) ==
  /\ file' = <<f1, f2>>
  /\ reader' = [r \in Readers |-> [at |-> "reading", next |-> 1]]
  /\ batch' = [r \in Readers |-> NewBatch]
  /\ waiting' = {}
  /\ cmp' = [at |-> "start", last |-> NoTime]
  /\ stop' = FALSE
  /\ verdict' = "ok"

NotStarted ==
  /\ file = <<<<>>, <<>>>>
  /\ reader = [r \in Readers |-> [at |-> "idle", next |-> 1]]
  /\ batch = [r \in Readers |-> NewBatch]
  /\ waiting = {}
  /\ cmp = [at |-> "idle", last |-> NoTime]
  /\ stop = FALSE
  /\ verdict = "ok"

\* Barrier::wait: the last of the three lets the others go.
Arrive(t) == waiting' = IF waiting \cup {t} = Threads THEN {} ELSE waiting \cup {t}
Released(t) == t \notin waiting

-----------------------------------------------------------------------------
(* read_file_with_barrier *)

\* From position n on, where the events of the time of the first end: at an event of another
\* time, which must be read to see it, at one that cannot be read, or at the end of the file.
ElementTime(f, n) == ParseDecimalSeconds(f[n].time)
BatchEnd(f, n) ==
  Min({Len(f) + 1} \cup {k \in n..Len(f) : ~Readable(f[k]) \/ ElementTime(f, k) # ElementTime(f, n)})

\* A round of a reader up to its first wait.  Nobody sees a reader's work before update_batch,
\* so the batch is read in one step.  stop can not be set meanwhile: the comparator sets it
\* between its two waits.
ReadBatch(r) ==
  LET f == file[r]
      n == reader[r].next
      end == BatchEnd(f, n)
      finished == end = Len(f) + 1
  IN /\ reader[r].at = "reading"
     /\ IF ~finished /\ ~Readable(f[end])
          THEN /\ reader' = [reader EXCEPT ![r].at = "panicked"]
               /\ UNCHANGED <<batch, waiting>>
          ELSE /\ batch' = [batch EXCEPT ![r] = [time |-> IF f = <<>> THEN NoTime ELSE ElementTime(f, n),
                                                events |-> [k \in 1..(end - n) |-> XmlToEvent(f[n + k - 1])],
                                                finished |-> finished]]
               /\ reader' = [reader EXCEPT ![r] = [at |-> IF finished THEN "last" ELSE "published",
                                                  next |-> end]]
               /\ Arrive(r)
     /\ UNCHANGED <<file, cmp, stop, verdict>>

\* Both batches are published; now to the second barrier.
WaitForComparison(r) ==
  /\ reader[r].at \in {"published", "last"} /\ Released(r)
  /\ reader' = [reader EXCEPT ![r].at = IF @ = "last" THEN "ending" ELSE "compared"]
  /\ Arrive(r)
  /\ UNCHANGED <<file, batch, cmp, stop, verdict>>

\* The batches are compared: go on with the event that was read ahead, or end.
Resume(r) ==
  /\ reader[r].at \in {"compared", "ending"} /\ Released(r)
  /\ reader' = [reader EXCEPT ![r].at = IF @ = "ending" \/ stop THEN "ended" ELSE "reading"]
  /\ UNCHANGED <<file, batch, waiting, cmp, stop, verdict>>

ReaderNext(r) == ReadBatch(r) \/ WaitForComparison(r) \/ Resume(r)

-----------------------------------------------------------------------------
(* comparator_thread *)

Count(s, e) == Len(SelectSeq(s, LAMBDA x : x = e))

\* Slip: every event of the first file may be matched with the same one of the second.
AllMatched_Reused(s1, s2) == \A i \in 1..Len(s1) : \E j \in 1..Len(s2) : s1[i] = s2[j]

\* compare_batch_of_events: every event of the first file has a match of its own.
AllMatched(s1, s2) == \A i \in 1..Len(s1) : Count(s1, s1[i]) <= Count(s2, s1[i])

\* What the comparator finds in the batches: "go on" if the readers are to read on.
Judge(b1, b2, last) ==
  LET bothTimes == b1.time # NoTime /\ b2.time # NoTime
  IN CASE b1.finished /\ b2.finished ->
            (CASE bothTimes /\ b1.time # b2.time -> "different times"
               [] bothTimes /\ b1.time = b2.time /\ ~AllMatched(b1.events, b2.events) -> "missing event"
               [] OTHER -> "ok")
       [] b1.finished # b2.finished -> "different number"
       [] ~b1.finished /\ ~b2.finished ->
            (CASE b1.time # b2.time -> "different times"
               [] b1.time = b2.time /\ last # NoTime /\ b1.time < last -> "not chronological"
               [] OTHER -> IF AllMatched(b1.events, b2.events) THEN "go on" ELSE "missing event")

\* The comparator's first wait, at the start and at the end of every round.
AwaitBatches ==
  /\ cmp.at = "start" \/ (cmp.at = "judged" /\ Released(3))
  /\ cmp' = [cmp EXCEPT !.at = "awaiting"]
  /\ Arrive(3)
  /\ UNCHANGED <<file, reader, batch, stop, verdict>>

\* extract_events, the comparison, and the second wait.
Compare ==
  LET j == Judge(batch[1], batch[2], cmp.last)
  IN /\ cmp.at = "awaiting" /\ Released(3)
     /\ batch' = [r \in Readers |-> [batch[r] EXCEPT !.events = <<>>]]
     /\ cmp' = IF j = "go on" THEN [at |-> "judged", last |-> batch[1].time] ELSE [cmp EXCEPT !.at = "leaving"]
     /\ verdict' = IF j = "go on" THEN verdict ELSE j
     /\ stop' = (stop \/ j \notin {"go on", "ok"})
     /\ Arrive(3)
     /\ UNCHANGED <<file, reader>>

ComparatorEnds ==
  /\ cmp.at = "leaving" /\ Released(3)
  /\ cmp' = [cmp EXCEPT !.at = "ended"]
  /\ UNCHANGED <<file, reader, batch, waiting, stop, verdict>>

CompareNext == (\E r \in Readers : ReaderNext(r)) \/ AwaitBatches \/ Compare \/ ComparatorEnds

\* All three threads are joined.
Joined == cmp.at = "ended" /\ \A r \in Readers : reader[r].at = "ended"

\* A reader has panicked and the other two threads are at the barrier for good.
Stranded ==
  /\ \E r \in Readers : reader[r].at = "panicked"
  /\ \A t \in Threads : t \in waiting \/ (t \in Readers /\ reader[t].at = "panicked")
=============================================================================
