---------------------------- MODULE EventPipeline ----------------------------
(***************************************************************************)
(* From the engines to the verdict on a file: the ranks publish and write  *)
(* the events of some iterations, the files of one iteration are merged to *)
(* one XML file, as convert_proto_to_xml_events and the tools do, and that *)
(* file is compared with another.                                          *)
(***************************************************************************)
EXTENDS EventPublication, EventComparison
LOCAL INSTANCE SequencesExt
LOCAL INSTANCE FiniteSetsExt

VARIABLE tool   \* what has been done with the files
vars == <<pubVars, cmpVars, tool>>

\* The files of an iteration, read as one stream.
ReadFails(fs) == \E k \in 1..Len(fs.parts) : ReadsPanic(format, fs.parts[k])
ReadAll(fs) == ReadPartitionedEvents([k \in 1..Len(fs.parts) |-> Reads(format, fs.parts[k])])

\* The files a merged file is compared with: itself and the empty file; and, for its first
\* event, its last and one between, without it, with it twice, and with it in front.
Places(f) == {k \in {1, (Len(f) + 1) \div 2, Len(f)} : k > 0}
Variants(f) ==
  {f, <<>>} \cup UNION {{RemoveAt(f, k), InsertAt(f, k, f[k]), InsertAt(RemoveAt(f, k), 1, f[k])}
                          : k \in Places(f)}

Init == PubInit /\ NotStarted /\ tool = "none"

EventsNext == (\E p \in Ranks : RankNext(p)) \/ NextIteration \/ FinishEvents

Finished == \A p \in Ranks : pc[p] = "finished"

\* The tools go on with XML; the history of the run is of no use to them, and is given up.
ForgetRun ==
  /\ agent' = [a \in Agents |-> NewAgent(a)]
  /\ stay' = [entered |-> [a \in Agents |-> Never], ended |-> <<>>]
  /\ mgr' = [p \in Ranks |-> NewManager]
  /\ crossing' = [p \in Ranks |-> [crossing[p] EXCEPT !.nextSeqNo = 0, !.log = <<>>]]
  /\ drained' = {}
  /\ format' = "xml"
  /\ UNCHANGED <<plan, iteration, pc, now>>

\* The reader panics, or the merged file is there.
Merge ==
  /\ Finished /\ tool = "none"
  /\ IF ReadFails(files) THEN tool' = "failed" /\ UNCHANGED file
     ELSE tool' = "merged" /\ file' = [r \in Readers |-> WriteXml(ReadAll(files))]
  /\ files' = NoFiles /\ ForgetRun
  /\ UNCHANGED <<reader, batch, waiting, cmp, stop, verdict>>

\* It is compared with another, as the first file or as the second.
CompareFiles ==
  /\ tool = "merged"
  /\ tool' = "comparing"
  /\ \E v \in Variants(file[1]) : StartOn(file[1], v) \/ StartOn(v, file[1])
  /\ UNCHANGED pubVars

Done == tool = "failed" \/ Joined \/ Stranded

Next ==
  \/ EventsNext /\ UNCHANGED <<cmpVars, tool>>
  \/ Merge
  \/ CompareFiles
  \/ CompareNext /\ UNCHANGED <<pubVars, tool>>
  \/ Done /\ UNCHANGED vars

Spec == Init /\ [][Next]_vars

-----------------------------------------------------------------------------
\* The event files of an iteration tell what happened in it: read as one stream, from
\* either format, they hold every event published in the iteration with its time, the
\* events of a partition in the order of their publication, and no time goes back.  The
\* tool that merges XML files loses and reorders nothing within a partition either.
FilesTellTheRun ==
  (Ended /\ ~ReadFails(FinishedFiles)) =>
    LET parts == FinishedFiles.parts
        log == [k \in 1..Len(parts) |-> WriteXml(FinishedFiles.logs[k])]
        Tells(s) ==
          /\ Len(s) = FoldLeft(LAMBDA n, l : n + Len(l), 0, log)
          /\ \A k \in 1..Len(parts) :
               LET own == ToSet(log[k]) IN SelectSeq(s, LAMBDA e : e \in own) = log[k]
        stream == ReadAll(FinishedFiles)
    IN /\ Tells(WriteXml(stream))
       /\ \A k \in 1..(Len(stream) - 1) : stream[k].time <= stream[k + 1].time
       /\ format = "xml" => Tells(WriteXml(MergeXmlEvents(parts)))

\* The travel times that the collectors of all ranks hold are the times vehicles really
\* spent on their links, across partition boundaries too: each is counted once, and the
\* first link of a leg is not counted.  It is so only for the vehicles that no earlier
\* iteration ended with on the network: the collector is not told of a new iteration, and
\* keeps the time such a vehicle entered its last link for good.
TravelTimesAreStays ==
  LET known(t) == t.vehicle[1] \notin drained
      held == FlattenSeq([k \in 1..Cardinality(Ranks) |-> mgr[InOrder(Ranks)[k]].collector.times])
      times == SelectSeq(held, known)
      stays == SelectSeq(stay.ended, known)
  IN /\ Len(times) = Len(stays)
     /\ \A k \in 1..Len(stays) : Count(times, stays[k]) = Count(stays, stays[k])

\* When two ranks are both done with a tick, what left the one for the other in it is what
\* entered the other from the one: the same vehicles and persons, at the same time.
CrossingsPaired ==
  \A p, q \in Ranks : \A n \in 0..EndTick :
    (p # q /\ n < now[p] /\ n < now[q]) =>
      LET seen(r, kind, other) ==
            SelectSeq(crossing[r].log, LAMBDA c : /\ c.payload.kind = kind /\ c.payload.other = other
                                                  /\ c.payload.time = TickToTime(n))
          who(s) == [k \in 1..Len(s) |-> s[k].payload.who]
      IN who(seen(p, "leaves", q)) = who(seen(q, "enters", p))

\* The verdict is "ok" on two equal files; and it is "ok" only if every event of the first
\* file has an event of its own in the second, unless one of them is empty.
VerdictSound ==
  Joined =>
    /\ file[1] = file[2] => verdict = "ok"
    /\ (verdict = "ok" /\ file[1] # <<>> /\ file[2] # <<>>) =>
         \A k \in 1..Len(file[1]) : Count(file[1], file[1][k]) <= Count(file[2], file[1][k])
=============================================================================
