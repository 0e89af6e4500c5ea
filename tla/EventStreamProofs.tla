------------------------- MODULE EventStreamProofs -------------------------
(***************************************************************************)
(* Theorems about EventStream: type correctness always; that a tail skips  *)
(* no event as long as no event id is given out twice; and that a tail     *)
(* which ended has sent everything, if in addition a page holds the events *)
(* of a job.                                                               *)
(***************************************************************************)
EXTENDS EventStream, FiniteSetTheorems, WellFoundedInduction, TLAPS

-----------------------------------------------------------------------------
(* The hypotheses. *)

\* An id is freed by gc_expired_job_records only, and is the number of events plus
\* one when it is given out: without retention, or with a single job on the server,
\* none is given out again below a stream's cursor.
IdsOnce == ~Retention \/ \A i, j \in Job : i = j

\* One SELECT of a stream returns all there is.
PageHoldsAll == MaxEvents <= Page

-----------------------------------------------------------------------------
(* The inductive invariants. *)

\* An event belongs to the job of a writer, and a deleted job has no writer left.
Ownership ==
  \A j \in Job : status[j] = "gone" => \A w \in Writer : Emits[w] = j => writer[w] = Quiet

\* Ids are handed out without gaps, to a writer the one after those in use.
Contiguous ==
  /\ \A i \in DOMAIN events : 1..i \subseteq DOMAIN events
  /\ \A w \in Writer : writer[w].pc = "insert" =>
       1..(writer[w].id - 1) \subseteq DOMAIN events

\* A client has nothing beyond the cursor, and the cursor is not beyond the events,
\* unless the events are gone and no more will come.
CursorBehind ==
  \A s \in Stream :
    /\ \A i \in stream[s].got : i <= stream[s].cursor
    /\ \/ stream[s].got \cup {stream[s].cursor} \subseteq DOMAIN events \cup {0}
       \/ \A j \in Job : status[j] = "gone"

\* An id that a writer is about to insert is a number of the table.
IdChosen == \A w \in Writer : writer[w].pc = "insert" => writer[w].id # 0

TypeInv == TypeOK /\ IdChosen

StreamInv == TypeInv /\ Ownership /\ Contiguous /\ CursorBehind /\ NoSkippedEvent

\* What an SSE stream knows of the end of its job.
DrainInv ==
  /\ \A j \in Job : status[j] = "done" => atEnd[j] \subseteq Ids(j)
  /\ \A s \in Stream :
       LET me == stream[s]
           j == Watches[s]
       IN /\ me.terminal => me.seen = "done"
          /\ me.seen = "done" => status[j] # "pending"
          /\ Kind[s] = "sse" /\ status[j] = "done" /\ me.terminal /\ me.pc = "job" =>
               atEnd[j] \subseteq me.got
          /\ Kind[s] = "sse" /\ me.pc = "eof" => me.seen = "done"
  /\ SseDrains

-----------------------------------------------------------------------------
(* Least and largest numbers; what the operators of the model return. *)

\* A set of natural numbers has a least one.
LEMMA LeastNat ==
  ASSUME NEW S \in SUBSET Nat, S # {}
  PROVE  \E x \in S : \A y \in S : x <= y
<1>1. PICK x \in S : \A y \in S : ~(<<y, x>> \in OpToRel(<, Nat))
  BY NatLessThanWellFounded, WFMin
<1>2. OpToRel(<, Nat) = {p \in Nat \X Nat : p[1] < p[2]}
  BY Zenon DEF OpToRel
<1>3. \A y \in S : ~(<<y, x>> \in {p \in Nat \X Nat : p[1] < p[2]})
  BY Zenon, <1>1, <1>2
<1>4. \A y \in S : ~(y < x)
  BY <1>3
<1> QED BY <1>4

\* A bounded one has a largest.
LEMMA LargestBelow ==
  ASSUME NEW n \in Nat, NEW S \in SUBSET (0 .. n), S # {}
  PROVE  \E x \in S : \A y \in S : y <= x
<1> DEFINE D == {n - x : x \in S}
<1>1. D \in SUBSET Nat /\ D # {}
  <2>1. PICK e \in S : TRUE
    OBVIOUS
  <2>2. n - e \in D
    OBVIOUS
  <2>3. ASSUME NEW d \in D PROVE d \in Nat
    <3>1. PICK x \in S : d = n - x
      OBVIOUS
    <3> QED BY <3>1
  <2> QED BY <2>2, <2>3
<1>2. PICK d \in D : \A y \in D : d <= y
  BY <1>1, LeastNat
<1>3. PICK x \in S : d = n - x
  OBVIOUS
<1>4. ASSUME NEW y \in S PROVE y <= x
  <2>1. n - x <= n - y
    BY <1>2, <1>3
  <2> QED BY <2>1
<1> QED BY <1>4

\* What Max of FiniteSetsExt returns.
LEMMA MaxFacts ==
  ASSUME NEW n \in Nat, NEW S \in SUBSET (0 .. n), S # {}
  PROVE  Max(S) \in S /\ \A y \in S : y <= Max(S)
<1>1. \E x \in S : \A y \in S : y <= x
  BY LargestBelow
<1>2. \E x \in S : \A y \in S : x >= y
  BY <1>1
<1>3. Max(S) \in S /\ \A y \in S : Max(S) >= y
  BY <1>2 DEF Max
<1> QED BY <1>3

\* The last id is that of a row, or 0, and no row is beyond it.
LEMMA LastIdFacts ==
  ASSUME TypeOK
  PROVE  /\ LastId \in 0 .. MaxEvents
         /\ LastId \in DOMAIN events \cup {0}
         /\ \A i \in DOMAIN events : i <= LastId
<1>1. MaxEvents \in Nat
  BY StreamAssumption
<1>2. DOMAIN events \cup {0} \in SUBSET (0 .. MaxEvents)
  BY <1>1 DEF TypeOK, EventId
<1> QED BY <1>1, <1>2, MaxFacts DEF LastId

\* A page is a prefix of the job's rows beyond the cursor.
LEMMA PageIsPrefix ==
  ASSUME TypeOK, NEW j \in Job, NEW c \in 0 .. MaxEvents
  PROVE  /\ PageAfter(j, c) \subseteq Ids(j)
         /\ \A i \in PageAfter(j, c) : i > c
         /\ \A i \in PageAfter(j, c) : \A k \in Ids(j) :
              k > c /\ k < i => k \in PageAfter(j, c)
<1>1. MaxEvents \in Nat /\ Page \in Nat
  BY StreamAssumption
<1>2. Ids(j) \subseteq EventId
  BY DEF TypeOK, Ids
<1>3. ASSUME NEW i \in PageAfter(j, c), NEW k \in Ids(j), k > c, k < i
      PROVE  k \in PageAfter(j, c)
  <2> DEFINE Below(n) == {m \in Ids(j) : m > c /\ m < n}
  <2>1. i \in Ids(j) /\ Cardinality(Below(i)) < Page
    BY <1>3 DEF PageAfter
  <2>2. Below(k) \subseteq Below(i)
    BY <1>1, <1>2, <1>3, <2>1 DEF EventId
  <2>3. IsFiniteSet(EventId)
    BY <1>1, FS_Interval DEF EventId
  <2>4. IsFiniteSet(Below(i))
    BY <1>2, <2>3, FS_Subset
  <2>5. Cardinality(Below(k)) \in Nat /\ Cardinality(Below(i)) \in Nat
        /\ Cardinality(Below(k)) <= Cardinality(Below(i))
    BY <2>2, <2>4, FS_Subset, FS_CardinalityType
  <2>6. Cardinality(Below(k)) < Page
    BY <1>1, <2>1, <2>5
  <2> QED BY <1>3, <2>6 DEF PageAfter
<1> QED BY <1>3 DEF PageAfter

\* A page that can hold all the rows holds all beyond the cursor.
LEMMA PageIsAll ==
  ASSUME TypeOK, PageHoldsAll, NEW j \in Job, NEW c \in 0 .. MaxEvents,
         NEW i \in Ids(j), i > c
  PROVE  i \in PageAfter(j, c)
<1> DEFINE Below == {m \in Ids(j) : m > c /\ m < i}
<1>1. MaxEvents \in Nat /\ Page \in Nat /\ i \in 1 .. MaxEvents
  BY StreamAssumption DEF TypeOK, Ids, EventId
<1>2. Below \subseteq 1 .. (i - 1)
  BY <1>1 DEF TypeOK, Ids, EventId
<1>3. IsFiniteSet(1 .. (i - 1)) /\ Cardinality(1 .. (i - 1)) = i - 1
  <2> DEFINE n == i - 1
  <2>1. n \in Nat
    BY <1>1
  <2> HIDE DEF n
  <2>2. IsFiniteSet(1 .. n) /\ Cardinality(1 .. n) = n
    BY <2>1, FS_Interval
  <2> QED BY <2>2 DEF n
<1>4. Cardinality(Below) \in Nat /\ Cardinality(Below) <= i - 1
  BY <1>2, <1>3, FS_Subset, FS_CardinalityType
<1>5. Cardinality(Below) < Page
  BY <1>1, <1>4 DEF PageHoldsAll
<1> QED BY <1>5 DEF PageAfter

\* The cursor moves to the last row sent.
LEMMA CursorMoves ==
  ASSUME TypeOK, NEW s \in Stream
  PROVE  LET page == PageAfter(Watches[s], stream[s].cursor)
             next == Max(page \cup {stream[s].cursor})
         IN  /\ next \in page \cup {stream[s].cursor}
             /\ next \in 0 .. MaxEvents
             /\ stream[s].cursor <= next
             /\ \A i \in page : i <= next
<1> DEFINE page == PageAfter(Watches[s], stream[s].cursor)
<1>1. MaxEvents \in Nat /\ Watches[s] \in Job /\ stream[s].cursor \in 0 .. MaxEvents
  BY StreamAssumption DEF TypeOK
<1>2. page \subseteq EventId
  BY DEF TypeOK, PageAfter, Ids
<1>3. page \cup {stream[s].cursor} \in SUBSET (0 .. MaxEvents)
  BY <1>1, <1>2 DEF EventId
<1> HIDE DEF page
<1>4. /\ Max(page \cup {stream[s].cursor}) \in page \cup {stream[s].cursor}
      /\ \A y \in page \cup {stream[s].cursor} : y <= Max(page \cup {stream[s].cursor})
  BY <1>1, <1>3, MaxFacts
<1> QED BY <1>3, <1>4 DEF page

-----------------------------------------------------------------------------
(* Types. *)

LEMMA TypeInit == Init => TypeInv
<1> SUFFICES ASSUME Init PROVE TypeInv
  OBVIOUS
<1>1. MaxEvents \in Nat /\ MaxTries \in Nat \ {0}
  BY StreamAssumption
<1> QED BY <1>1 DEF Init, TypeInv, TypeOK, IdChosen, Quiet, Closed, EventId

WriterType == [pc : {"idle", "read", "insert", "mirror"}, id : 0..MaxEvents,
               tries : 0..(MaxTries - 1), waiting : BOOLEAN]

StreamType == [pc : {"closed", "events", "job", "eof"}, cursor : 0..MaxEvents,
               seen : {"unread", "pending", "done"}, terminal : BOOLEAN,
               got : SUBSET EventId]

\* The table of events after a step has rows of the writers, at the known ids.
EventsTyped ==
  DOMAIN events \subseteq EventId /\ \A i \in DOMAIN events : events[i] \in Writer

\* The same as TypeInv, in parts.
Typed ==
  /\ status \in [Job -> {"pending", "done", "gone"}]
  /\ EventsTyped
  /\ atEnd \in [Job -> SUBSET EventId]
  /\ writer \in [Writer -> WriterType]
  /\ stream \in [Stream -> StreamType]
  /\ IdChosen

LEMMA TypedMeans == TypeInv => Typed
BY DEF TypeInv, TypeOK, Typed, WriterType, StreamType, EventsTyped

LEMMA TypeStep == TypeInv /\ [Next]_vars => TypeInv'
<1> SUFFICES ASSUME TypeInv, [Next]_vars PROVE TypeInv'
  OBVIOUS
<1>0. /\ MaxEvents \in Nat /\ MaxTries \in Nat \ {0}
      /\ \A w \in Writer : Emits[w] \in Job
      /\ \A s \in Stream : Watches[s] \in Job
  BY StreamAssumption
<1>a. /\ status \in [Job -> {"pending", "done", "gone"}]
      /\ EventsTyped
      /\ atEnd \in [Job -> SUBSET EventId]
      /\ writer \in [Writer -> WriterType]
      /\ stream \in [Stream -> StreamType]
      /\ IdChosen
  BY TypedMeans DEF Typed
<1>g. Quiet \in WriterType /\ Quiet.pc # "insert"
      /\ Closed \in StreamType
  BY <1>0 DEF Quiet, Closed, WriterType, StreamType
<1>1. ASSUME NEW w \in Writer, Emit(w) PROVE Typed'
  <2> DEFINE new == [Quiet EXCEPT !.pc = "read", !.waiting = TRUE]
  <2>1. TRUE \in BOOLEAN
    OBVIOUS
  <2>2. new \in WriterType /\ new.pc # "insert"
    BY <1>g, <2>1 DEF WriterType
  <2> HIDE DEF new
  <2>3. writer' = [writer EXCEPT ![w] = new]
    BY <1>1 DEF Emit, new
  <2> QED BY <1>a, <1>1, <2>2, <2>3 DEF Typed, Emit, EventsTyped, IdChosen
<1>2. ASSUME NEW w \in Writer, ReadMax(w) PROVE Typed'
  <2>1. LastId + 1 \in 0..MaxEvents /\ LastId + 1 # 0
    BY <1>0, <1>2, LastIdFacts DEF ReadMax, TypeInv
  <2> DEFINE new == [writer[w] EXCEPT !.pc = "insert", !.id = LastId + 1]
  <2>2. writer' = [writer EXCEPT ![w] = new]
    BY <1>a, <1>2 DEF ReadMax, WriterType
  <2>3. new \in WriterType /\ new.id # 0
    BY <1>a, <2>1 DEF WriterType
  <2> HIDE DEF new
  <2> QED BY <1>a, <1>2, <2>2, <2>3 DEF Typed, ReadMax, EventsTyped, IdChosen
<1>3. ASSUME NEW w \in Writer, Insert(w) PROVE Typed'
  <2> DEFINE me == writer[w]
  <2>1. me \in WriterType /\ me.pc = "insert" /\ me.id # 0 /\ me.id \in EventId
    BY <1>0, <1>a, <1>3 DEF Insert, WriterType, IdChosen, EventId
  <2>2. EventsTyped'
    BY <1>a, <1>3, <2>1 DEF Insert, EventsTyped
  <2>3. PICK new \in WriterType : new.pc # "insert" /\ writer' = [writer EXCEPT ![w] = new]
    <3>1. [me EXCEPT !.pc = "mirror"] \in WriterType
      BY <2>1 DEF WriterType
    <3> HIDE DEF me
    <3>2. me.tries + 1 < MaxTries => me.tries + 1 \in 0..(MaxTries - 1)
      BY <1>0, <2>1 DEF WriterType
    <3>3. me.tries + 1 < MaxTries =>
            [me EXCEPT !.pc = "read", !.tries = me.tries + 1] \in WriterType
      BY <2>1, <3>2 DEF WriterType
    <3> QED BY <1>g, <1>3, <2>1, <3>1, <3>3 DEF Insert, WriterType, me
  <2> QED BY <1>a, <1>3, <2>2, <2>3 DEF Typed, Insert, IdChosen
<1>4. ASSUME NEW w \in Writer, GiveUpWaiting(w) PROVE Typed'
  <2> DEFINE new == [writer[w] EXCEPT !.waiting = FALSE]
  <2>1. new \in WriterType /\ new.pc = writer[w].pc /\ new.id = writer[w].id
    BY <1>a DEF WriterType
  <2>2. writer' = [writer EXCEPT ![w] = new]
    BY <1>a, <1>4 DEF GiveUpWaiting
  <2> HIDE DEF new
  <2> QED BY <1>a, <1>4, <2>1, <2>2 DEF Typed, GiveUpWaiting, EventsTyped, IdChosen
<1>5. ASSUME NEW w \in Writer, Mirror(w) PROVE Typed'
  BY <1>a, <1>g, <1>5 DEF Typed, Mirror, EventsTyped, IdChosen
<1>6. ASSUME NEW j \in Job, Finish(j) PROVE Typed'
  <2>1. Ids(j) \in SUBSET EventId
    BY <1>a DEF EventsTyped, Ids
  <2> QED BY <1>a, <1>6, <2>1 DEF Typed, Finish, EventsTyped, IdChosen
<1>7. ASSUME NEW j \in Job, Collect(j) PROVE Typed'
  BY <1>a, <1>7 DEF Typed, Collect, EventsTyped, IdChosen
<1>8. ASSUME NEW s \in Stream, NEW new \in StreamType,
             stream' = [stream EXCEPT ![s] = new],
             UNCHANGED <<status, events, atEnd, writer>>
      PROVE  Typed'
  BY <1>a, <1>8 DEF Typed, EventsTyped, IdChosen
<1>9. ASSUME NEW s \in Stream, Open(s) PROVE Typed'
  <2>1. [Closed EXCEPT !.pc = "events"] \in StreamType
    BY <1>g DEF StreamType
  <2> QED BY <1>8, <1>9, <2>1 DEF Open
<1>10. ASSUME NEW s \in Stream, Reconnect(s) PROVE Typed'
  <2>1. PICK c \in stream[s].got \cup {0} :
          stream' = [stream EXCEPT ![s] =
            [Closed EXCEPT !.pc = "events", !.cursor = c,
                           !.got = {i \in stream[s].got : i <= c}]]
    BY <1>10 DEF Reconnect
  <2>2. stream[s] \in StreamType
    BY <1>a
  <2>3. c \in 0..MaxEvents /\ {i \in stream[s].got : i <= c} \in SUBSET EventId
    BY <1>0, <2>2 DEF StreamType, EventId
  <2>4. [Closed EXCEPT !.pc = "events", !.cursor = c,
                       !.got = {i \in stream[s].got : i <= c}] \in StreamType
    BY <1>g, <2>3 DEF StreamType
  <2> QED BY <1>8, <1>10, <2>1, <2>4 DEF Reconnect
<1>11. ASSUME NEW s \in Stream, PollEvents(s) PROVE Typed'
  <2> DEFINE page == PageAfter(Watches[s], stream[s].cursor)
             next == Max(page \cup {stream[s].cursor})
             new == [stream[s] EXCEPT !.pc = "job", !.cursor = next, !.got = @ \cup page]
  <2>1. page \subseteq EventId
    BY <1>a DEF EventsTyped, PageAfter, Ids
  <2>2. next \in 0..MaxEvents
    BY CursorMoves DEF TypeInv
  <2>3. stream' = [stream EXCEPT ![s] = new]
    BY <1>a, <1>11 DEF PollEvents, StreamType
  <2> HIDE DEF next, page
  <2>4. new \in StreamType
    BY <1>a, <2>1, <2>2 DEF StreamType
  <2> QED BY <1>8, <1>11, <2>3, <2>4 DEF PollEvents
<1>12. ASSUME NEW s \in Stream, PollJobSse(s) PROVE Typed'
  <2> DEFINE seen == IF stream[s].seen # "unread" THEN stream[s].seen
                     ELSE IF status[Watches[s]] = "gone" THEN "unread" ELSE status[Watches[s]]
             pc == IF seen = "done" /\ stream[s].terminal THEN "eof" ELSE "events"
             new == [stream[s] EXCEPT !.seen = seen, !.terminal = @ \/ seen = "done", !.pc = pc]
  <2>1. stream' = [stream EXCEPT ![s] = new]
    BY <1>a, <1>12 DEF PollJobSse, StreamType
  <2>2. stream[s] \in StreamType /\ Watches[s] \in Job
    BY <1>0, <1>a
  <2>3. seen \in {"unread", "pending", "done"}
    BY <1>a, <2>2 DEF StreamType
  <2>4. pc \in {"closed", "events", "job", "eof"}
    OBVIOUS
  <2>5. (stream[s].terminal \/ seen = "done") \in BOOLEAN
    OBVIOUS
  <2> HIDE DEF seen, pc
  <2>6. new \in StreamType
    BY <2>2, <2>3, <2>4, <2>5 DEF StreamType
  <2> QED BY <1>8, <1>12, <2>1, <2>6 DEF PollJobSse
<1>13. ASSUME NEW s \in Stream, PollJobWs(s) PROVE Typed'
  <2> DEFINE pc == IF status[Watches[s]] = "done" THEN "eof" ELSE "events"
             new == [stream[s] EXCEPT !.pc = pc]
  <2>1. stream' = [stream EXCEPT ![s] = new]
    BY <1>a, <1>13 DEF PollJobWs, StreamType
  <2>2. new \in StreamType
    BY <1>a DEF StreamType
  <2> QED BY <1>8, <1>13, <2>1, <2>2 DEF PollJobWs
<1>14. ASSUME UNCHANGED vars PROVE Typed'
  BY <1>a, <1>14 DEF Typed, vars, EventsTyped, IdChosen
<1>15. Typed'
  BY <1>1, <1>2, <1>3, <1>4, <1>5, <1>6, <1>7, <1>9, <1>10, <1>11, <1>12, <1>13, <1>14
  DEF Next, WriterStep, StreamStep, vars
<1> QED BY <1>15 DEF TypeInv, TypeOK, Typed, WriterType, StreamType, EventsTyped

\* Every id is a number of the table, every cursor and every received id too, and no
\* emission tries more often than it may, whatever races and whatever is collected.
THEOREM TypeCorrect == Spec => []TypeOK
<1>1. Init => TypeInv
  BY TypeInit
<1>2. TypeInv /\ [Next]_vars => TypeInv'
  BY TypeStep
<1>3. TypeInv => TypeOK
  BY DEF TypeInv
<1> QED BY <1>1, <1>2, <1>3, PTL DEF Spec

-----------------------------------------------------------------------------
(* No event is skipped. *)

\* Ids are handed out in order: a free one that a writer holds is beyond all rows.
LEMMA FreeIdIsNew ==
  ASSUME TypeInv, Contiguous, NEW w \in Writer, writer[w].pc = "insert",
         writer[w].id \notin DOMAIN events
  PROVE  \A i \in DOMAIN events : i < writer[w].id
<1>1. MaxEvents \in Nat
  BY StreamAssumption
<1>2. writer[w].id \in 1..MaxEvents
  BY <1>1 DEF TypeInv, TypeOK, IdChosen
<1>3. DOMAIN events \subseteq 1..MaxEvents
  BY DEF TypeInv, TypeOK, EventId
<1>4. \A i \in DOMAIN events : 1..i \subseteq DOMAIN events
  BY DEF Contiguous
<1> QED BY <1>1, <1>2, <1>3, <1>4

\* Where the rows stay, the job of every event too.
LEMMA SameIds ==
  ASSUME events' = events
  PROVE  \A j \in Job : Ids(j)' = Ids(j)
BY DEF Ids

\* A step of a writer that leaves the rows alone.
LEMMA WriterMoves ==
  ASSUME StreamInv, NEW w \in Writer, NEW new,
         writer' = [writer EXCEPT ![w] = new],
         status[Emits[w]] # "gone",
         new.pc = "insert" => 1..(new.id - 1) \subseteq DOMAIN events,
         UNCHANGED <<status, events, stream>>
  PROVE  Ownership' /\ Contiguous' /\ CursorBehind' /\ NoSkippedEvent'
<1>1. Ownership'
  BY DEF StreamInv, TypeInv, TypeOK, Ownership
<1>2. Contiguous'
  BY DEF StreamInv, TypeInv, TypeOK, Contiguous
<1>3. CursorBehind'
  BY DEF StreamInv, CursorBehind
<1>4. NoSkippedEvent'
  BY DEF StreamInv, NoSkippedEvent, Ids
<1> QED BY <1>1, <1>2, <1>3, <1>4

\* A step of a stream, which sends nothing beyond its new cursor and all of the
\* job's rows up to it.
LEMMA StreamMoves ==
  ASSUME StreamInv, NEW s \in Stream, NEW new,
         stream' = [stream EXCEPT ![s] = new],
         \A i \in new.got : i <= new.cursor,
         \/ new.got \cup {new.cursor} \subseteq DOMAIN events \cup {0}
         \/ \A j \in Job : status[j] = "gone",
         \A i \in Ids(Watches[s]) : i <= new.cursor => i \in new.got,
         UNCHANGED <<status, events, writer>>
  PROVE  Ownership' /\ Contiguous' /\ CursorBehind' /\ NoSkippedEvent'
<1>1. Ownership'
  BY DEF StreamInv, Ownership
<1>2. Contiguous'
  BY DEF StreamInv, Contiguous
<1>0. stream \in [Stream -> StreamType]
  BY DEF StreamInv, TypeInv, TypeOK, StreamType
<1>3. CursorBehind'
  BY <1>0 DEF StreamInv, CursorBehind
<1>4. NoSkippedEvent'
  BY <1>0 DEF StreamInv, NoSkippedEvent, Ids
<1> QED BY <1>1, <1>2, <1>3, <1>4

LEMMA StreamInit == Init => StreamInv
<1> SUFFICES ASSUME Init PROVE StreamInv
  OBVIOUS
<1>1. TypeInv
  BY TypeInit
<1>2. Ownership /\ Contiguous /\ CursorBehind /\ NoSkippedEvent
  BY DEF Init, Ownership, Contiguous, CursorBehind, NoSkippedEvent, Ids, Quiet, Closed
<1> QED BY <1>1, <1>2 DEF StreamInv

LEMMA StreamStepKeeps ==
  ASSUME IdsOnce, StreamInv, [Next]_vars
  PROVE  StreamInv'
<1>0. /\ MaxEvents \in Nat /\ MaxTries \in Nat \ {0}
      /\ \A w \in Writer : Emits[w] \in Job
      /\ \A s \in Stream : Watches[s] \in Job
  BY StreamAssumption
<1>t. TypeInv'
  BY TypeStep DEF StreamInv
<1>a. /\ TypeInv /\ TypeOK
      /\ status \in [Job -> {"pending", "done", "gone"}]
      /\ DOMAIN events \subseteq EventId
      /\ \A i \in DOMAIN events : events[i] \in Writer
      /\ writer \in [Writer -> WriterType]
      /\ stream \in [Stream -> StreamType]
      /\ IdChosen
  BY DEF StreamInv, TypeInv, TypeOK, WriterType, StreamType
<1>b. Ownership /\ Contiguous /\ CursorBehind /\ NoSkippedEvent
  BY DEF StreamInv
<1>c. ASSUME NEW w \in Writer, writer[w].pc # "idle" PROVE status[Emits[w]] # "gone"
  BY <1>0, <1>b, <1>c DEF Ownership, Quiet
<1> DEFINE Kept == Ownership /\ Contiguous /\ CursorBehind /\ NoSkippedEvent
<1>1. ASSUME NEW w \in Writer, Emit(w) PROVE Kept'
  <2> DEFINE new == [Quiet EXCEPT !.pc = "read", !.waiting = TRUE]
  <2>1. new.pc # "insert" /\ writer' = [writer EXCEPT ![w] = new]
    BY <1>1 DEF Emit, Quiet
  <2> HIDE DEF new
  <2>2. status[Emits[w]] # "gone" /\ UNCHANGED <<status, events, stream>>
    BY <1>1 DEF Emit
  <2> QED BY <2>1, <2>2, WriterMoves
<1>2. ASSUME NEW w \in Writer, ReadMax(w) PROVE Kept'
  <2> DEFINE new == [writer[w] EXCEPT !.pc = "insert", !.id = LastId + 1]
  <2>1. writer' = [writer EXCEPT ![w] = new]
    BY <1>a, <1>2 DEF ReadMax, WriterType
  <2>2. new.id = LastId + 1
    BY <1>a DEF WriterType
  <2>3. 1..LastId \subseteq DOMAIN events
    <3>1. LastId \in DOMAIN events \/ LastId = 0
      BY <1>a, LastIdFacts
    <3> QED BY <1>b, <3>1 DEF Contiguous
  <2>4. 1..(new.id - 1) \subseteq DOMAIN events
    BY <1>a, <1>0, <2>2, <2>3, LastIdFacts
  <2>5. status[Emits[w]] # "gone" /\ UNCHANGED <<status, events, stream>>
    BY <1>2, <1>c DEF ReadMax
  <2> HIDE DEF new
  <2> QED BY <2>1, <2>4, <2>5, WriterMoves
<1>3. ASSUME NEW w \in Writer, Insert(w) PROVE Kept'
  <2> DEFINE me == writer[w]
  <2>1. me \in WriterType /\ me.pc = "insert" /\ me.id # 0 /\ me.id \in EventId
        /\ UNCHANGED <<status, stream>>
    BY <1>0, <1>a, <1>3 DEF Insert, WriterType, IdChosen, EventId
  <2>2. status[Emits[w]] # "gone" /\ Emits[w] \in Job
    BY <1>0, <1>c, <2>1
  <2>3. PICK new \in WriterType : new.pc # "insert" /\ writer' = [writer EXCEPT ![w] = new]
    <3>1. [me EXCEPT !.pc = "mirror"] \in WriterType
      BY <2>1 DEF WriterType
    <3>2. me.tries + 1 < MaxTries => me.tries + 1 \in 0..(MaxTries - 1)
      BY <1>0, <2>1 DEF WriterType
    <3>3. me.tries + 1 < MaxTries =>
            [me EXCEPT !.pc = "read", !.tries = me.tries + 1] \in WriterType
      BY <2>1, <3>2 DEF WriterType
    <3>4. Quiet \in WriterType /\ Quiet.pc # "insert"
      BY <1>0 DEF Quiet, WriterType
    <3> QED BY <1>3, <2>1, <3>1, <3>3, <3>4 DEF Insert, WriterType
  <2>4. CASE me.id \in DOMAIN events
    <3>1. UNCHANGED events
      BY <1>3, <2>4 DEF Insert
    <3> QED BY <2>1, <2>2, <2>3, <3>1, WriterMoves
  <2>5. CASE me.id \notin DOMAIN events
    <3>1. events' = [i \in DOMAIN events \cup {me.id} |-> IF i = me.id THEN w ELSE events[i]]
      BY <1>3, <2>5 DEF Insert
    <3>2. \A i \in DOMAIN events : i < me.id
      BY <1>a, <1>b, <2>1, <2>5, FreeIdIsNew
    <3>3. DOMAIN events' = DOMAIN events \cup {me.id}
          /\ \A i \in DOMAIN events : events'[i] = events[i]
      BY <2>5, <3>1
    <3>4. Ownership'
      BY <1>a, <1>b, <2>1, <2>2, <2>3 DEF Ownership
    <3>5. Contiguous'
      <4>1. ASSUME NEW i \in DOMAIN events' PROVE 1..i \subseteq DOMAIN events'
        <5>1. CASE i \in DOMAIN events
          BY <1>b, <3>3, <5>1 DEF Contiguous
        <5>2. CASE i = me.id
          <6>1. 1..(me.id - 1) \subseteq DOMAIN events
            BY <1>b, <2>1 DEF Contiguous
          <6>2. 1..i \subseteq 1..(me.id - 1) \cup {me.id}
            BY <1>0, <2>1, <5>2 DEF EventId
          <6> QED BY <3>3, <6>1, <6>2
        <5> QED BY <3>3, <5>1, <5>2
      <4>2. \A v \in Writer : writer'[v].pc = "insert" => v # w
        BY <1>a, <2>3
      <4>3. \A v \in Writer : v # w => writer'[v] = writer[v]
        BY <1>a, <2>3
      <4> QED BY <1>b, <3>3, <4>1, <4>2, <4>3 DEF Contiguous
    <3>6. CursorBehind'
      BY <1>b, <2>1, <3>3 DEF CursorBehind
    <3>7. NoSkippedEvent'
      <4> SUFFICES ASSUME NEW s \in Stream, NEW i \in Ids(Watches[s])', i <= stream[s].cursor
                   PROVE  i \in stream[s].got
        BY <2>1 DEF NoSkippedEvent
      <4>1. stream[s].cursor \in DOMAIN events \cup {0}
        BY <1>b, <2>2 DEF CursorBehind
      <4>2. i # me.id
        BY <1>0, <1>a, <2>1, <3>2, <4>1 DEF EventId
      <4>3. i \in Ids(Watches[s])
        BY <3>3, <4>2 DEF Ids
      <4> QED BY <1>b, <4>3 DEF NoSkippedEvent
    <3> QED BY <3>4, <3>5, <3>6, <3>7
  <2> QED BY <2>4, <2>5
<1>4. ASSUME NEW w \in Writer, GiveUpWaiting(w) PROVE Kept'
  <2> DEFINE new == [writer[w] EXCEPT !.waiting = FALSE]
  <2>1. new.pc = writer[w].pc /\ new.id = writer[w].id
    BY <1>a DEF WriterType
  <2>2. writer' = [writer EXCEPT ![w] = new]
    BY <1>a, <1>4 DEF GiveUpWaiting
  <2> HIDE DEF new
  <2>3. status[Emits[w]] # "gone" /\ UNCHANGED <<status, events, stream>>
    BY <1>4, <1>c DEF GiveUpWaiting
  <2>4. new.pc = "insert" => 1..(new.id - 1) \subseteq DOMAIN events
    BY <1>b, <2>1 DEF Contiguous
  <2> QED BY <2>2, <2>3, <2>4, WriterMoves
<1>5. ASSUME NEW w \in Writer, Mirror(w) PROVE Kept'
  <2>1. Quiet.pc # "insert"
    BY DEF Quiet
  <2>2. status[Emits[w]] # "gone" /\ UNCHANGED <<status, events, stream>>
        /\ writer' = [writer EXCEPT ![w] = Quiet]
    BY <1>5, <1>c DEF Mirror
  <2> QED BY <2>1, <2>2, WriterMoves
<1>6. ASSUME NEW j \in Job, Finish(j) PROVE Kept'
  <2>1. status' = [status EXCEPT ![j] = "done"] /\ status[j] = "pending"
        /\ UNCHANGED <<events, writer, stream>>
    BY <1>6 DEF Finish
  <2>2. Ownership'
    BY <1>a, <1>b, <2>1 DEF Ownership
  <2>3. Contiguous'
    BY <1>b, <2>1 DEF Contiguous
  <2>4. CursorBehind'
    BY <1>a, <1>b, <2>1 DEF CursorBehind
  <2>5. NoSkippedEvent'
    BY <1>b, <2>1 DEF NoSkippedEvent, Ids
  <2> QED BY <2>2, <2>3, <2>4, <2>5
<1>7. ASSUME NEW j \in Job, Collect(j) PROVE Kept'
  <2>1. \A k \in Job : k = j
    BY <1>7 DEF Collect, IdsOnce
  <2>2. Ids(j) = DOMAIN events
    BY <1>0, <1>a, <2>1 DEF Ids
  <2>3. DOMAIN events' = {} /\ \A k \in Job : status'[k] = "gone"
    BY <1>a, <1>7, <2>1, <2>2 DEF Collect
  <2>4. UNCHANGED <<writer, stream>> /\ \A w \in Writer : writer[w] = Quiet
    BY <1>0, <1>7, <2>1 DEF Collect
  <2>5. Ownership'
    BY <2>4 DEF Ownership
  <2>6. Contiguous'
    BY <2>3, <2>4 DEF Contiguous, Quiet
  <2>7. CursorBehind'
    BY <1>b, <2>3, <2>4 DEF CursorBehind
  <2>8. NoSkippedEvent'
    BY <2>3 DEF NoSkippedEvent, Ids
  <2> QED BY <2>5, <2>6, <2>7, <2>8
<1>8. ASSUME NEW s \in Stream, Open(s) PROVE Kept'
  <2> DEFINE new == [Closed EXCEPT !.pc = "events"]
  <2>1. new.got = {} /\ new.cursor = 0
    BY DEF Closed
  <2>2. stream' = [stream EXCEPT ![s] = new] /\ UNCHANGED <<status, events, writer>>
    BY <1>8 DEF Open
  <2> HIDE DEF new
  <2>3. \A i \in Ids(Watches[s]) : ~(i <= 0)
    BY <1>0, <1>a DEF Ids, EventId
  <2> QED BY <2>1, <2>2, <2>3, StreamMoves
<1>9. ASSUME NEW s \in Stream, Reconnect(s) PROVE Kept'
  <2>1. PICK c \in stream[s].got \cup {0} :
          stream' = [stream EXCEPT ![s] =
            [Closed EXCEPT !.pc = "events", !.cursor = c,
                           !.got = {i \in stream[s].got : i <= c}]]
    BY <1>9 DEF Reconnect
  <2> DEFINE new == [Closed EXCEPT !.pc = "events", !.cursor = c,
                           !.got = {i \in stream[s].got : i <= c}]
  <2>2. new.cursor = c /\ new.got = {i \in stream[s].got : i <= c}
    BY DEF Closed
  <2>3. stream' = [stream EXCEPT ![s] = new] /\ UNCHANGED <<status, events, writer>>
        /\ status[Watches[s]] # "gone" /\ Watches[s] \in Job
    BY <1>0, <1>9, <2>1 DEF Reconnect
  <2> HIDE DEF new
  <2>4. \A i \in stream[s].got : i <= stream[s].cursor
    BY <1>b DEF CursorBehind
  <2>5. stream[s].got \subseteq DOMAIN events \cup {0}
    BY <1>b, <2>3 DEF CursorBehind
  <2>6. stream[s].cursor \in 0..MaxEvents /\ stream[s].got \subseteq 1..MaxEvents
    BY <1>a DEF StreamType, EventId
  <2>7. ASSUME NEW i \in Ids(Watches[s]), i <= new.cursor PROVE i \in new.got
    <3>1. i <= stream[s].cursor
      <4>1. i \in 1..MaxEvents
        BY <1>a DEF Ids, EventId
      <4>2. c <= stream[s].cursor /\ c \in 0..MaxEvents
        BY <1>0, <2>4, <2>6
      <4> QED BY <1>0, <2>2, <2>6, <2>7, <4>1, <4>2
    <3>2. i \in stream[s].got
      BY <1>b, <3>1 DEF NoSkippedEvent
    <3> QED BY <2>2, <2>7, <3>2
  <2>8. \A i \in new.got : i <= new.cursor
    BY <2>2
  <2>9. new.got \cup {new.cursor} \subseteq DOMAIN events \cup {0}
    BY <2>2, <2>5
  <2> QED BY <2>3, <2>7, <2>8, <2>9, StreamMoves
<1>10. ASSUME NEW s \in Stream, PollEvents(s) PROVE Kept'
  <2> DEFINE j == Watches[s]
             old == stream[s]
             page == PageAfter(j, old.cursor)
             next == Max(page \cup {old.cursor})
             new == [old EXCEPT !.pc = "job", !.cursor = next, !.got = @ \cup page]
  <2>1. /\ next \in page \cup {old.cursor} /\ next \in 0 .. MaxEvents
        /\ old.cursor <= next /\ \A i \in page : i <= next
    BY <1>a, CursorMoves
  <2>2. old.cursor \in 0 .. MaxEvents /\ old.got \subseteq 1..MaxEvents /\ j \in Job
    BY <1>0, <1>a DEF StreamType, EventId
  <2>3. /\ page \subseteq Ids(j) /\ \A i \in page : i > old.cursor
        /\ \A i \in page : \A k \in Ids(j) : k > old.cursor /\ k < i => k \in page
    BY <1>a, <2>2, PageIsPrefix
  <2>4. stream' = [stream EXCEPT ![s] = new] /\ UNCHANGED <<status, events, writer>>
    BY <1>a, <1>10 DEF PollEvents, StreamType
  <2>5. new.cursor = next /\ new.got = old.got \cup page
    BY <1>a DEF StreamType
  <2> HIDE DEF new, next, page
  <2>6. Ids(j) \subseteq 1..MaxEvents /\ Ids(j) \subseteq DOMAIN events
    BY <1>a DEF Ids, EventId
  <2>7. \A i \in new.got : i <= new.cursor
    <3>1. \A i \in old.got : i <= old.cursor
      BY <1>b DEF CursorBehind
    <3>2. \A i \in old.got : i \in Int /\ i <= next
      BY <1>0, <2>1, <2>2, <3>1
    <3> QED BY <2>1, <2>5, <3>2
  <2>8. \/ new.got \cup {new.cursor} \subseteq DOMAIN events \cup {0}
        \/ \A k \in Job : status[k] = "gone"
    <3>1. \/ old.got \cup {old.cursor} \subseteq DOMAIN events \cup {0}
          \/ \A k \in Job : status[k] = "gone"
      BY <1>b DEF CursorBehind
    <3> QED BY <2>1, <2>3, <2>5, <2>6, <3>1
  <2>9. ASSUME NEW i \in Ids(j), i <= new.cursor PROVE i \in new.got
    <3>1. CASE i <= old.cursor
      BY <1>b, <2>5, <3>1 DEF NoSkippedEvent
    <3>2. CASE i > old.cursor
      <4>1. next \in page
        BY <1>0, <2>1, <2>2, <2>5, <2>6, <2>9, <3>2
      <4>2. i = next \/ i < next
        BY <1>0, <2>1, <2>5, <2>6, <2>9
      <4>3. i \in page
        BY <2>3, <3>2, <4>1, <4>2
      <4> QED BY <2>5, <4>3
    <3> QED BY <1>0, <2>2, <2>6, <3>1, <3>2
  <2> QED BY <2>4, <2>7, <2>8, <2>9, StreamMoves
<1>11. ASSUME NEW s \in Stream, NEW new,
              stream' = [stream EXCEPT ![s] = new],
              new.cursor = stream[s].cursor, new.got = stream[s].got,
              UNCHANGED <<status, events, writer>>
       PROVE  Kept'
  <2>1. \A i \in new.got : i <= new.cursor
    BY <1>b, <1>11 DEF CursorBehind
  <2>2. \/ new.got \cup {new.cursor} \subseteq DOMAIN events \cup {0}
        \/ \A j \in Job : status[j] = "gone"
    BY <1>b, <1>11 DEF CursorBehind
  <2>3. \A i \in Ids(Watches[s]) : i <= new.cursor => i \in new.got
    BY <1>b, <1>11 DEF NoSkippedEvent
  <2> QED BY <1>11, <2>1, <2>2, <2>3, StreamMoves
<1>12. ASSUME NEW s \in Stream, PollJobSse(s) PROVE Kept'
  <2> DEFINE seen == IF stream[s].seen # "unread" THEN stream[s].seen
                     ELSE IF status[Watches[s]] = "gone" THEN "unread" ELSE status[Watches[s]]
             pc == IF seen = "done" /\ stream[s].terminal THEN "eof" ELSE "events"
             new == [stream[s] EXCEPT !.seen = seen, !.terminal = @ \/ seen = "done", !.pc = pc]
  <2>1. stream' = [stream EXCEPT ![s] = new] /\ UNCHANGED <<status, events, writer>>
    BY <1>a, <1>12 DEF PollJobSse, StreamType
  <2>2. new.cursor = stream[s].cursor /\ new.got = stream[s].got
    BY <1>a DEF StreamType
  <2> HIDE DEF new
  <2> QED BY <1>11, <2>1, <2>2
<1>13. ASSUME NEW s \in Stream, PollJobWs(s) PROVE Kept'
  <2> DEFINE pc == IF status[Watches[s]] = "done" THEN "eof" ELSE "events"
             new == [stream[s] EXCEPT !.pc = pc]
  <2>1. stream' = [stream EXCEPT ![s] = new] /\ UNCHANGED <<status, events, writer>>
    BY <1>a, <1>13 DEF PollJobWs, StreamType
  <2>2. new.cursor = stream[s].cursor /\ new.got = stream[s].got
    BY <1>a DEF StreamType
  <2> HIDE DEF new
  <2> QED BY <1>11, <2>1, <2>2
<1>14. ASSUME UNCHANGED vars PROVE Kept'
  BY <1>b, <1>14 DEF vars, Ownership, Contiguous, CursorBehind, NoSkippedEvent, Ids
<1>15. Kept'
  BY <1>1, <1>2, <1>3, <1>4, <1>5, <1>6, <1>7, <1>8, <1>9, <1>10, <1>12, <1>13, <1>14
  DEF Next, WriterStep, StreamStep, vars
<1> QED BY <1>t, <1>15 DEF StreamInv

\* While no id is given out twice, no interleaving of emissions, commits, pages, and
\* reconnections makes _stream_events or _pump_events move the cursor past a row it
\* has not sent, whatever the page size.
THEOREM NothingSkipped == IdsOnce /\ Spec => []NoSkippedEvent
<1> SUFFICES ASSUME IdsOnce PROVE Spec => []NoSkippedEvent
  OBVIOUS
<1>1. Init => StreamInv
  BY StreamInit
<1>2. StreamInv /\ [Next]_vars => StreamInv'
  BY StreamStepKeeps
<1>3. StreamInv => NoSkippedEvent
  BY DEF StreamInv
<1> QED BY <1>1, <1>2, <1>3, PTL DEF Spec

-----------------------------------------------------------------------------
(* A stream that ended has sent everything. *)

\* What DrainInv says of one stream, given the job it watches.
Drained(s, me, at, final) ==
  /\ me.terminal => me.seen = "done"
  /\ me.seen = "done" => at # "pending"
  /\ Kind[s] = "sse" /\ at = "done" /\ me.terminal /\ me.pc = "job" => final \subseteq me.got
  /\ Kind[s] = "sse" /\ me.pc = "eof" => me.seen = "done"
  /\ Kind[s] = "sse" /\ me.pc = "eof" /\ at # "gone" => final \subseteq me.got

\* The rows a job had when it ended stay until it is deleted.
FinalRowsStay == \A j \in Job : status[j] = "done" => atEnd[j] \subseteq Ids(j)

LEMMA DrainParts ==
  DrainInv <=> /\ FinalRowsStay
               /\ \A s \in Stream :
                    Drained(s, stream[s], status[Watches[s]], atEnd[Watches[s]])
BY DEF DrainInv, FinalRowsStay, Drained, SseDrains

LEMMA DrainInit == Init => DrainInv
<1> SUFFICES ASSUME Init PROVE DrainInv
  OBVIOUS
<1>1. \A s \in Stream : Watches[s] \in Job
  BY StreamAssumption
<1>2. FinalRowsStay
  BY DEF Init, FinalRowsStay
<1>3. \A s \in Stream : Drained(s, stream[s], status[Watches[s]], atEnd[Watches[s]])
  BY <1>1 DEF Init, Drained, Closed
<1> QED BY <1>2, <1>3, DrainParts

LEMMA DrainStep ==
  ASSUME IdsOnce, PageHoldsAll, StreamInv, DrainInv, [Next]_vars
  PROVE  DrainInv'
<1>0. /\ MaxEvents \in Nat
      /\ \A w \in Writer : Emits[w] \in Job
      /\ \A s \in Stream : Watches[s] \in Job
  BY StreamAssumption
<1>a. /\ TypeInv /\ TypeOK
      /\ status \in [Job -> {"pending", "done", "gone"}]
      /\ DOMAIN events \subseteq EventId
      /\ \A i \in DOMAIN events : events[i] \in Writer
      /\ atEnd \in [Job -> SUBSET EventId]
      /\ stream \in [Stream -> StreamType]
      /\ NoSkippedEvent
  BY DEF StreamInv, TypeInv, TypeOK, WriterType, StreamType
<1>b. /\ FinalRowsStay
      /\ \A s \in Stream : Drained(s, stream[s], status[Watches[s]], atEnd[Watches[s]])
  BY DrainParts
<1> DEFINE AllDrained == \A s \in Stream :
                           Drained(s, stream[s], status[Watches[s]], atEnd[Watches[s]])
           Kept == FinalRowsStay /\ AllDrained
<1>1. ASSUME UNCHANGED <<status, atEnd, stream>>,
             \A j \in Job : Ids(j) \subseteq Ids(j)'
      PROVE  Kept'
  <2>1. FinalRowsStay'
    BY <1>b, <1>1 DEF FinalRowsStay
  <2>2. AllDrained'
    BY <1>b, <1>1
  <2> QED BY <2>1, <2>2
<1>2. ASSUME NEW w \in Writer, Emit(w) \/ WriterStep(w) \/ GiveUpWaiting(w) PROVE Kept'
  <2>1. UNCHANGED <<status, atEnd, stream>>
    BY <1>2 DEF Emit, WriterStep, ReadMax, Insert, Mirror, GiveUpWaiting
  <2>2. \A i \in DOMAIN events : i \in DOMAIN events' /\ events'[i] = events[i]
    BY <1>2 DEF Emit, WriterStep, ReadMax, Insert, Mirror, GiveUpWaiting
  <2>3. \A j \in Job : Ids(j) \subseteq Ids(j)'
    BY <2>2 DEF Ids
  <2> QED BY <1>1, <2>1, <2>3
<1>3. ASSUME NEW j \in Job, Finish(j) PROVE Kept'
  <2>1. /\ status[j] = "pending" /\ status' = [status EXCEPT ![j] = "done"]
        /\ atEnd' = [atEnd EXCEPT ![j] = Ids(j)]
        /\ UNCHANGED <<events, stream>>
    BY <1>3 DEF Finish
  <2>2. FinalRowsStay'
    BY <1>a, <1>b, <2>1 DEF FinalRowsStay, Ids
  <2>3. ASSUME NEW s \in Stream
        PROVE  Drained(s, stream[s], status'[Watches[s]], atEnd'[Watches[s]])
    <3>1. Drained(s, stream[s], status[Watches[s]], atEnd[Watches[s]])
      BY <1>b
    <3>2. CASE Watches[s] = j
      BY <1>a, <2>1, <3>1, <3>2 DEF Drained
    <3>3. CASE Watches[s] # j
      BY <1>0, <1>a, <2>1, <3>1, <3>3 DEF Drained
    <3> QED BY <3>2, <3>3
  <2>4. AllDrained'
    BY <2>1, <2>3
  <2> QED BY <2>2, <2>4
<1>4. ASSUME NEW j \in Job, Collect(j) PROVE Kept'
  <2>1. /\ status[j] = "done" /\ status' = [status EXCEPT ![j] = "gone"]
        /\ events' = [i \in DOMAIN events \ Ids(j) |-> events[i]]
        /\ UNCHANGED <<atEnd, stream>>
    BY <1>4 DEF Collect
  <2>2. ASSUME NEW k \in Job, status'[k] = "done" PROVE atEnd'[k] \subseteq Ids(k)'
    <3>1. k # j /\ status[k] = "done"
      BY <1>a, <2>1, <2>2
    <3>2. Ids(k) \subseteq Ids(k)'
      BY <2>1, <3>1 DEF Ids
    <3> QED BY <1>b, <2>1, <3>1, <3>2 DEF FinalRowsStay
  <2>3. FinalRowsStay'
    BY <2>2 DEF FinalRowsStay
  <2>4. ASSUME NEW s \in Stream
        PROVE  Drained(s, stream[s], status'[Watches[s]], atEnd[Watches[s]])
    <3>1. Drained(s, stream[s], status[Watches[s]], atEnd[Watches[s]])
      BY <1>b
    <3>2. CASE Watches[s] = j
      BY <1>a, <2>1, <3>1, <3>2 DEF Drained
    <3>3. CASE Watches[s] # j
      BY <1>0, <1>a, <2>1, <3>1, <3>3 DEF Drained
    <3> QED BY <3>2, <3>3
  <2>5. AllDrained'
    BY <2>1, <2>4
  <2> QED BY <2>3, <2>5
<1>5. ASSUME NEW s \in Stream, NEW new,
             stream' = [stream EXCEPT ![s] = new],
             Drained(s, new, status[Watches[s]], atEnd[Watches[s]]),
             UNCHANGED <<status, events, atEnd>>
      PROVE  Kept'
  <2>1. FinalRowsStay'
    BY <1>b, <1>5 DEF FinalRowsStay, Ids
  <2>2. AllDrained'
    BY <1>a, <1>b, <1>5
  <2> QED BY <2>1, <2>2
<1>6. ASSUME NEW s \in Stream, Open(s) PROVE Kept'
  <2> DEFINE new == [Closed EXCEPT !.pc = "events"]
  <2>1. ~new.terminal /\ new.seen = "unread" /\ new.pc = "events"
    BY DEF Closed
  <2>2. stream' = [stream EXCEPT ![s] = new] /\ UNCHANGED <<status, events, atEnd>>
    BY <1>6 DEF Open
  <2> HIDE DEF new
  <2>3. Drained(s, new, status[Watches[s]], atEnd[Watches[s]])
    BY <2>1 DEF Drained
  <2> QED BY <1>5, <2>2, <2>3
<1>7. ASSUME NEW s \in Stream, Reconnect(s) PROVE Kept'
  <2>1. PICK c \in stream[s].got \cup {0} :
          stream' = [stream EXCEPT ![s] =
            [Closed EXCEPT !.pc = "events", !.cursor = c,
                           !.got = {i \in stream[s].got : i <= c}]]
    BY <1>7 DEF Reconnect
  <2> DEFINE new == [Closed EXCEPT !.pc = "events", !.cursor = c,
                           !.got = {i \in stream[s].got : i <= c}]
  <2>2. ~new.terminal /\ new.seen = "unread" /\ new.pc = "events"
    BY DEF Closed
  <2>3. stream' = [stream EXCEPT ![s] = new] /\ UNCHANGED <<status, events, atEnd>>
    BY <1>7, <2>1 DEF Reconnect
  <2> HIDE DEF new
  <2>4. Drained(s, new, status[Watches[s]], atEnd[Watches[s]])
    BY <2>2 DEF Drained
  <2> QED BY <1>5, <2>3, <2>4
<1>8. ASSUME NEW s \in Stream, PollEvents(s) PROVE Kept'
  <2> DEFINE j == Watches[s]
             old == stream[s]
             page == PageAfter(j, old.cursor)
             next == Max(page \cup {old.cursor})
             new == [old EXCEPT !.pc = "job", !.cursor = next, !.got = @ \cup page]
  <2>1. stream' = [stream EXCEPT ![s] = new] /\ UNCHANGED <<status, events, atEnd>>
    BY <1>a, <1>8 DEF PollEvents, StreamType
  <2>2. new.pc = "job" /\ new.got = old.got \cup page
        /\ new.terminal = old.terminal /\ new.seen = old.seen
    BY <1>a DEF StreamType
  <2>3. old.cursor \in 0 .. MaxEvents /\ j \in Job
    BY <1>0, <1>a DEF StreamType
  <2>4. ASSUME NEW i \in Ids(j) PROVE i \in new.got
    <3>1. CASE i <= old.cursor
      BY <1>a, <2>2, <3>1 DEF NoSkippedEvent
    <3>2. CASE i > old.cursor
      BY <1>a, <2>2, <2>3, <3>2, PageIsAll
    <3>3. i \in 1..MaxEvents
      BY <1>a DEF Ids, EventId
    <3> QED BY <1>0, <2>3, <3>1, <3>2, <3>3
  <2>5. status[j] = "done" => atEnd[j] \subseteq new.got
    BY <1>b, <2>3, <2>4 DEF FinalRowsStay
  <2>6. Drained(s, old, status[j], atEnd[j])
    BY <1>b
  <2> HIDE DEF new, old, j
  <2>7. Drained(s, new, status[j], atEnd[j])
    BY <2>2, <2>5, <2>6 DEF Drained
  <2> QED BY <1>5, <2>1, <2>7 DEF j
<1>9. ASSUME NEW s \in Stream, PollJobSse(s) PROVE Kept'
  <2> DEFINE j == Watches[s]
             old == stream[s]
             seen == IF old.seen # "unread" THEN old.seen
                     ELSE IF status[j] = "gone" THEN "unread" ELSE status[j]
             pc == IF seen = "done" /\ old.terminal THEN "eof" ELSE "events"
             new == [old EXCEPT !.seen = seen, !.terminal = @ \/ seen = "done", !.pc = pc]
  <2>1. stream' = [stream EXCEPT ![s] = new] /\ UNCHANGED <<status, events, atEnd>>
    BY <1>a, <1>9 DEF PollJobSse, StreamType
  <2>2. new.pc = pc /\ new.got = old.got
        /\ new.terminal = (old.terminal \/ seen = "done") /\ new.seen = seen
    BY <1>a DEF StreamType
  <2>3. Drained(s, old, status[j], atEnd[j])
    BY <1>b
  <2>4. old.pc = "job" /\ Kind[s] = "sse" /\ status[j] \in {"pending", "done", "gone"}
    BY <1>0, <1>a, <1>9 DEF PollJobSse
  <2> HIDE DEF new, old, j
  <2>5. old.terminal => seen = "done"
    BY <2>3 DEF Drained
  <2>6. seen = "done" => status[j] # "pending"
    BY <2>3 DEF Drained
  <2> HIDE DEF seen
  <2>7. (old.terminal \/ seen = "done") => seen = "done"
    BY <2>5
  <2>8. new.terminal => new.seen = "done"
    BY <2>2, <2>7
  <2>9. pc = "eof" => seen = "done" /\ old.terminal
    OBVIOUS
  <2>10. pc # "job"
    OBVIOUS
  <2> HIDE DEF pc
  <2>11. Drained(s, new, status[j], atEnd[j])
    BY <2>2, <2>3, <2>4, <2>6, <2>8, <2>9, <2>10 DEF Drained
  <2> QED BY <1>5, <2>1, <2>11 DEF j
<1>10. ASSUME NEW s \in Stream, PollJobWs(s) PROVE Kept'
  <2> DEFINE pc == IF status[Watches[s]] = "done" THEN "eof" ELSE "events"
             new == [stream[s] EXCEPT !.pc = pc]
  <2>1. stream' = [stream EXCEPT ![s] = new] /\ UNCHANGED <<status, events, atEnd>>
    BY <1>a, <1>10 DEF PollJobWs, StreamType
  <2>2. new.got = stream[s].got /\ new.terminal = stream[s].terminal
        /\ new.seen = stream[s].seen /\ Kind[s] # "sse"
    BY <1>a, <1>10 DEF StreamType, PollJobWs
  <2>3. Drained(s, stream[s], status[Watches[s]], atEnd[Watches[s]])
    BY <1>b
  <2> HIDE DEF new
  <2>4. Drained(s, new, status[Watches[s]], atEnd[Watches[s]])
    BY <2>2, <2>3 DEF Drained
  <2> QED BY <1>5, <2>1, <2>4
<1>11. ASSUME UNCHANGED vars PROVE Kept'
  <2>1. \A j \in Job : Ids(j) \subseteq Ids(j)'
    BY <1>11 DEF vars, Ids
  <2> QED BY <1>1, <1>11, <2>1 DEF vars
<1>12. Kept'
  BY <1>2, <1>3, <1>4, <1>6, <1>7, <1>8, <1>9, <1>10, <1>11 DEF Next, StreamStep, vars
<1> QED BY <1>12 DEF DrainInv, FinalRowsStay, Drained, SseDrains

\* While no id is given out twice and a page holds the events of a job, an SSE stream
\* that ended has sent every event the job had when it became terminal: the cycle that
\* _stream_events adds after the first terminal poll always ships the rest.
THEOREM EndedIsDrained == IdsOnce /\ PageHoldsAll /\ Spec => []SseDrains
<1> SUFFICES ASSUME IdsOnce, PageHoldsAll PROVE Spec => []SseDrains
  OBVIOUS
<1>1. Init => StreamInv /\ DrainInv
  BY StreamInit, DrainInit
<1>2. (StreamInv /\ DrainInv) /\ [Next]_vars => (StreamInv /\ DrainInv)'
  BY StreamStepKeeps, DrainStep
<1>3. StreamInv /\ DrainInv => SseDrains
  BY DEF DrainInv
<1> QED BY <1>1, <1>2, <1>3, PTL DEF Spec
=============================================================================
