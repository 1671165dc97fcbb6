----------------------------- MODULE EventFiles -----------------------------
(***************************************************************************)
(* The events of the simulation, the files they are written to, and the    *)
(* tools that read the files of all partitions as one stream.              *)
(*                                                                         *)
(* An event has a type, a time, the fields of its type and attributes.     *)
(* XML keeps every event as one element, in the order of writing; protobuf *)
(* collects the events of a time step and writes them together.  Neither   *)
(* is the identity: XML has no third coordinate and no attributes, the     *)
(* XML reader does not know all of the types, and an event read from       *)
(* protobuf has all its fields once more as attributes.                    *)
(***************************************************************************)
EXTENDS Integers, Sequences, TLC
LOCAL INSTANCE SequencesExt
LOCAL INSTANCE FiniteSetsExt

CONSTANTS TicksPerSecond,
          FractionDigits   \* decimal digits of a second: 9 in the code

ASSUME EventFilesAssumption ==
  TicksPerSecond \in Nat \ {0} /\ FractionDigits \in Nat \ {0}

NanosPerSecond == 10 ^ FractionDigits

\* SimClock::tick_to_time
TickToTime(t) == (t * NanosPerSecond) \div TicksPerSecond

-----------------------------------------------------------------------------
\* The fields of every type besides the time.  The simulation publishes no GenericEvent.
ActivityFields ==
  "actstart" :> {"person", "link", "act_type", "coordinate"}
  @@ "actend" :> {"person", "link", "act_type", "coordinate"}
TrafficFields ==
  "entered link" :> {"link", "vehicle"}
  @@ "left link" :> {"link", "vehicle"}
  @@ "vehicle enters traffic" :> {"vehicle", "link", "person", "network_mode", "relative_position"}
  @@ "vehicle leaves traffic" :> {"vehicle", "link", "person", "network_mode", "relative_position"}
PersonFields ==
  "PersonEntersVehicle" :> {"person", "vehicle"}
  @@ "PersonLeavesVehicle" :> {"person", "vehicle"}
  @@ "departure" :> {"person", "link", "leg_mode", "routing_mode"}
  @@ "arrival" :> {"person", "link", "leg_mode"}
  @@ "travelled" :> {"person", "mode", "distance"}
  @@ "travelled with pt" :> {"person", "mode", "distance", "route", "line"}
FieldsOf == ActivityFields @@ TrafficFields @@ PersonFields

\* An event as its builder makes it: without attributes.
Event(type, time, values) ==
  [type |-> type, time |-> time, fields |-> [f \in FieldsOf[type] |-> values[f]],
   attributes |-> <<>>]

-----------------------------------------------------------------------------
(* Protobuf *)

\* The names of the fields in the attributes of a protobuf event.
ProtoKeys(type) ==
  UNION {CASE f = "coordinate" -> {"x", "y", "z"}
           [] f = "leg_mode" -> {"mode"}
           [] OTHER -> {f} : f \in FieldsOf[type]}

ProtoValue(e, k) ==
  CASE k = "x" -> e.fields["coordinate"][1]
    [] k = "y" -> e.fields["coordinate"][2]
    [] k = "z" -> e.fields["coordinate"][3]
    [] k = "mode" /\ "leg_mode" \in DOMAIN e.fields -> e.fields["leg_mode"]
    [] OTHER -> e.fields[k]

ToProto(e) ==
  [type |-> e.type,
   attributes |-> [k \in ProtoKeys(e.type) |-> ProtoValue(e, k)]]

FromProto(p, time) ==
  [type |-> p.type, time |-> time,
   fields |-> [f \in FieldsOf[p.type] |->
                 CASE f = "coordinate" ->
                        <<p.attributes["x"], p.attributes["y"], p.attributes["z"]>>
                   [] f = "leg_mode" -> p.attributes["mode"]
                   [] OTHER -> p.attributes[f]],
   attributes |-> p.attributes]

\* The writer: the time steps of the file, and the events of the current one.
NewProtoWriter == [format |-> "binpb", steps |-> <<>>, currTimeStep |-> 0, encodedEvents |-> <<>>]

WriteTimeStep(w) ==
  [w EXCEPT !.steps = Append(@, [time |-> w.currTimeStep, data |-> w.encodedEvents]),
            !.encodedEvents = <<>>]

UpdateTimeStep(w, time) ==
  IF w.currTimeStep = time THEN w
  ELSE [(IF w.encodedEvents = <<>> THEN w ELSE WriteTimeStep(w)) EXCEPT !.currTimeStep = time]

ProtoOnAny(w, e) ==
  LET u == UpdateTimeStep(w, e.time) IN [u EXCEPT !.encodedEvents = Append(@, ToProto(e))]

\* finish: the last time step is written even if it is empty.
ProtoFinish(w) == WriteTimeStep(w).steps

\* The reader asks for the ten bytes of a length delimiter.  An empty time step at time
\* zero is the single byte 0, and reads as the end of the file.
ProtoReads(steps) ==
  LET read == SelectSeq(steps, LAMBDA s : s.data # <<>>)
  IN [i \in 1..Len(read) |->
        [time |-> read[i].time,
         events |-> [j \in 1..Len(read[i].data) |-> FromProto(read[i].data[j], read[i].time)]]]

-----------------------------------------------------------------------------
(* XML *)

Digits(n) == [i \in 1..FractionDigits |-> (n \div 10 ^ (FractionDigits - i)) % 10]
Number(ds) ==
  FoldLeft(LAMBDA n, d : 10 * n + d, 0,
           [i \in 1..FractionDigits |-> IF i <= Len(ds) THEN ds[i] ELSE 0])

\* trim_end_matches('0')
TrimZeros(ds) ==
  SubSeq(ds, 1, Max({0} \cup {i \in 1..Len(ds) : ds[i] # 0}))

\* Whole seconds and, if there is one, the fraction without its trailing zeros.
FormatDecimalSeconds(time) ==
  [secs |-> time \div NanosPerSecond, fraction |-> TrimZeros(Digits(time % NanosPerSecond))]

\* Missing digits on the right are zeros.
ParseDecimalSeconds(text) == text.secs * NanosPerSecond + Number(text.fraction)

\* The element's attributes besides time and type: no third coordinate.
XmlNames(type) ==
  UNION {IF f = "coordinate" THEN {"x", "y"} ELSE {f} : f \in FieldsOf[type]}

EventToXml(e) ==
  [time |-> FormatDecimalSeconds(e.time), type |-> e.type,
   values |-> [n \in XmlNames(e.type) |->
                 CASE n = "x" -> e.fields["coordinate"][1]
                   [] n = "y" -> e.fields["coordinate"][2]
                   [] OTHER -> e.fields[n]]]

\* The types that handle knows; it panics on the others.
XmlTypes == DOMAIN FieldsOf \ {"travelled with pt"}
Readable(x) == x.type \in XmlTypes

XmlToEvent(x) ==
  Event(x.type, ParseDecimalSeconds(x.time),
        [f \in FieldsOf[x.type] |->
           IF f = "coordinate" THEN <<x.values["x"], x.values["y"], 0>> ELSE x.values[f]])

NewXmlWriter == [format |-> "xml", elements |-> <<>>]
XmlOnAny(w, e) == [w EXCEPT !.elements = Append(@, EventToXml(e))]
XmlFinish(w) == w.elements

\* The reader hands out one event at a time; what it cannot read, see ReadsPanic.
XmlReads(elements) ==
  [i \in 1..Len(elements) |->
     LET e == XmlToEvent(elements[i]) IN [time |-> e.time, events |-> <<e>>]]

-----------------------------------------------------------------------------
(* Writer and reader of either format *)

NewWriter(format) == IF format = "xml" THEN NewXmlWriter ELSE NewProtoWriter
OnAny(w, e) == IF w.format = "xml" THEN XmlOnAny(w, e) ELSE ProtoOnAny(w, e)
Finish(w) == IF w.format = "xml" THEN XmlFinish(w) ELSE ProtoFinish(w)
\* What load_next preloads from the file, one after the other.
Reads(format, file) == IF format = "xml" THEN XmlReads(file) ELSE ProtoReads(file)
ReadsPanic(format, file) ==
  format = "xml" /\ \E i \in 1..Len(file) : ~Readable(file[i])

-----------------------------------------------------------------------------
(* Merging *)

\* Sorted by the times of the readers; sort_by is stable.
StableSort(readers, times) ==
  LET order == SetToSortSeq(1..Len(readers),
                 LAMBDA i, j : times[i] < times[j] \/ (times[i] = times[j] /\ i < j))
  IN [i \in 1..Len(readers) |-> readers[order[i]]]

\* The first reader has been processed: it preloads its next events or is removed.
Advance(readers) ==
  IF Len(readers[1]) = 1 THEN Tail(readers) ELSE [readers EXCEPT ![1] = Tail(@)]

\* Slip: the readers are sorted once, before the first event is read.
MergeStep_SortOnce(st) ==
  [readers |-> Advance(st.readers), stream |-> st.stream \o st.readers[1][1].events]

\* One round of the loop: the reader with the earliest preloaded events goes first.
MergeStep(st) ==
  LET sorted == StableSort(st.readers, [i \in DOMAIN st.readers |-> st.readers[i][1].time])
  IN [readers |-> Advance(sorted), stream |-> st.stream \o sorted[1][1].events]

\* read_partitioned_events: files without events are left out at once.
ReadPartitionedEvents(chunks) ==
  LET readers == SelectSeq(chunks, LAMBDA r : r # <<>>)
      rounds == FoldLeft(LAMBDA n, r : n + Len(r), 0, chunks)
      after[n \in 0..rounds] ==
        IF n = 0 THEN [readers |-> readers, stream |-> <<>>] ELSE MergeStep(after[n - 1])
  IN after[rounds].stream

\* The tool merge_xml_events: a reader is sorted by the time of the event it read last, and
\* is removed when it finds the end of its file.
MergeXmlEvents(files) ==
  LET readers == [i \in 1..Len(files) |-> [rest |-> XmlReads(files[i]), time |-> 0]]
      rounds == FoldLeft(LAMBDA n, f : n + Len(f) + 1, 0, files)
      after[n \in 0..rounds] ==
        IF n = 0 THEN [readers |-> readers, stream |-> <<>>]
        ELSE LET st == after[n - 1]
                 sorted == StableSort(st.readers, [i \in DOMAIN st.readers |-> st.readers[i].time])
                 first == sorted[1]
             IN IF first.rest = <<>> THEN [st EXCEPT !.readers = Tail(sorted)]
                ELSE [readers |-> [sorted EXCEPT ![1] = [rest |-> Tail(first.rest),
                                                         time |-> first.rest[1].time]],
                      stream |-> st.stream \o first.rest[1].events]
  IN after[rounds].stream

\* What the tools write: the stream, once more through an XML writer.
WriteXml(stream) == XmlFinish(FoldLeft(XmlOnAny, NewXmlWriter, stream))
=============================================================================
