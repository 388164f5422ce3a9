--------------------------- MODULE WorkspaceEvents ---------------------------
(***************************************************************************)
(* The activity of one student's project, as the editor bridge and the     *)
(* chat runtime share it: two processes, each with a WorkspaceEventStream, *)
(* and one journal file both append to, read and compact.  An event is its *)
(* identity, "origin:seq"; what matters of the others is their order, the  *)
(* latest event of a kind being the one a surface shows.                   *)
(***************************************************************************)
EXTENDS Naturals, Sequences, SequencesExt, Sums

CONSTANTS Surfaces,   \* the processes
          MaxEmitted, \* bound: events each process emits
          MaxPending, \* bound: events of a process not appended yet
          MaxForgets, \* bound: times each process forgets the project
          MaxLines,   \* lines the journal holds before it is compacted
          EventLimit, \* events a record holds, the newest
          SeenLimit,  \* identities a stream remembers before it cuts them ...
          SeenKept    \* ... to the newest of them

VARIABLES journal,  \* the lines of the file: events, oldest first
          emitted,  \* events each process has emitted
          stream,   \* each process: the record of the project, and what it had emitted before it
          writer,   \* each process: events not appended yet, and the append under way
          reader    \* each process: the refresh under way

eventVars == <<journal, emitted, stream, writer, reader>>

ASSUME EventAssumption ==
  /\ MaxLines \in Nat \ {0} /\ EventLimit \in Nat \ {0} /\ SeenKept \in Nat /\ SeenLimit \in Nat
  /\ SeenKept < SeenLimit

Event == [origin : Surfaces, seq : Nat]
FreshRecord(generation, since) == [generation |-> generation, since |-> since, events |-> <<>>, seen |-> <<>>]
NoRefresh == [on |-> FALSE, generation |-> 0, lines |-> <<>>]
IdleWriter == [at |-> "idle", lines |-> <<>>]

EventsTypeOK ==
  /\ journal \in Seq(Event)
  /\ emitted \in [Surfaces -> Nat]
  /\ stream \in [Surfaces -> [generation : Nat, since : Nat, events : Seq(Event), seen : Seq(Event)]]
  /\ writer \in [Surfaces -> [queue : Seq(Event),
                              append : [at : {"idle", "measure", "compact"}, lines : Seq(Event)]]]
  /\ reader \in [Surfaces -> [on : BOOLEAN, generation : Nat, lines : Seq(Event)]]

EventsInit ==
  /\ journal = <<>> /\ emitted = [p \in Surfaces |-> 0]
  /\ stream = [p \in Surfaces |-> FreshRecord(0, 0)]
  /\ writer = [p \in Surfaces |-> [queue |-> <<>>, append |-> IdleWriter]]
  /\ reader = [p \in Surfaces |-> NoRefresh]

(***************************************************************************)
(* WorkspaceEventStream.                                                   *)
(***************************************************************************)
Newest(events) == IF Len(events) > EventLimit THEN SubSeq(events, Len(events) - EventLimit + 1, Len(events)) ELSE events

\* emit and enqueue: the event reaches the record, is remembered as seen and goes
\* to the journal's chain; the one a change that makes the map stale adds is a second.
Emit(p) ==
  LET event == [origin |-> p, seq |-> emitted[p] + 1] IN
  /\ emitted[p] < MaxEmitted[p] /\ Len(writer[p].queue) < MaxPending
  /\ emitted' = [emitted EXCEPT ![p] = @ + 1]
  /\ stream' = [stream EXCEPT ![p].events = Newest(Append(@, event)), ![p].seen = Append(@, event)]
  /\ writer' = [writer EXCEPT ![p].queue = Append(@, event)]
  /\ UNCHANGED <<journal, reader>>

StartRefresh(p) ==
  /\ ~reader[p].on
  /\ reader' = [reader EXCEPT ![p] = [on |-> TRUE, generation |-> stream[p].generation, lines |-> journal]]
  /\ UNCHANGED <<journal, emitted, stream, writer>>

\* A version that trusts its memory to know its own events.
BadUnseen(p) == Without(reader[p].lines, ToSet(stream[p].seen))

Unseen(p) ==
  LET own == {e \in ToSet(reader[p].lines) : e.origin = p}
  IN  Without(reader[p].lines, own \cup ToSet(stream[p].seen))

Cut(seen) == IF Len(seen) > SeenLimit THEN SubSeq(seen, Len(seen) - SeenKept + 1, Len(seen)) ELSE seen

\* What the file held is applied at once; a record forgotten meanwhile receives nothing.
EndRefresh(p) ==
  /\ reader[p].on
  /\ reader' = [reader EXCEPT ![p] = NoRefresh]
  /\ stream' = IF reader[p].generation # stream[p].generation THEN stream
               ELSE [stream EXCEPT ![p].events = Newest(@ \o Unseen(p)), ![p].seen = Cut(@ \o Unseen(p))]
  /\ UNCHANGED <<journal, emitted, writer>>

Forget(p) ==
  /\ stream[p].generation < MaxForgets[p]
  /\ stream' = [stream EXCEPT ![p] = FreshRecord(@.generation + 1, emitted[p])]
  /\ UNCHANGED <<journal, emitted, writer, reader>>

(***************************************************************************)
(* WorkspaceEventJournal.append, one at a time in each process: append,    *)
(* measure and read, replace by the newest half.  Any step may fail, and   *)
(* then the event, or the compaction, is given up.                         *)
(***************************************************************************)
AppendLine(p) ==
  /\ writer[p].append.at = "idle" /\ writer[p].queue # <<>>
  /\ \/ /\ journal' = Append(journal, Head(writer[p].queue))
        /\ writer' = [writer EXCEPT ![p] = [queue |-> Tail(@.queue), append |-> [IdleWriter EXCEPT !.at = "measure"]]]
     \/ /\ writer' = [writer EXCEPT ![p].queue = Tail(@)]
        /\ UNCHANGED journal
  /\ UNCHANGED <<emitted, stream, reader>>

Measure(p) ==
  /\ writer[p].append.at = "measure"
  /\ writer' = [writer EXCEPT ![p].append =
                  IF Len(journal) <= MaxLines THEN IdleWriter ELSE [at |-> "compact", lines |-> journal]]
  /\ UNCHANGED <<journal, emitted, stream, reader>>

NewestHalf(lines) == SubSeq(lines, Len(lines) - (Len(lines) \div 2) + 1, Len(lines))

Compact(p) ==
  /\ writer[p].append.at = "compact"
  /\ journal' \in {journal, NewestHalf(writer[p].append.lines)}
  /\ writer' = [writer EXCEPT ![p].append = IdleWriter]
  /\ UNCHANGED <<emitted, stream, reader>>

EventsNext == \E p \in Surfaces :
  \/ Emit(p)
  \/ StartRefresh(p) \/ EndRefresh(p) \/ Forget(p)
  \/ AppendLine(p) \/ Measure(p) \/ Compact(p)

EventsSpec == EventsInit /\ [][EventsNext]_eventVars

(***************************************************************************)
(* Properties                                                              *)
(***************************************************************************)
\* A surface shows its own events once and in order, from the time it last began with
\* the project: what it did before it moved away does not come back out of the journal,
\* nor does a memory cut to its newest half bring an own event a second time.
OwnOnce(p, events, since, last) ==
  LET own == {i \in DOMAIN events : events[i].origin = p}
  IN  \A i \in own :
        /\ since < events[i].seq /\ events[i].seq <= last
        /\ \A j \in own : i < j => events[i].seq < events[j].seq
        /\ events[i].seq < last => \E j \in own : i < j /\ events[j].seq = events[i].seq + 1

OwnEventsOnce == \A p \in Surfaces : OwnOnce(p, stream[p].events, stream[p].since, emitted[p])

EventsInv ==
  /\ EventsTypeOK /\ OwnEventsOnce
  /\ \A p \in Surfaces : stream[p].since <= emitted[p]
=============================================================================
