----------------------------- MODULE EventStream -----------------------------
(***************************************************************************)
(* Progress events: append_job_event and the reporter's _emit              *)
(* (workers/progress.py), the JSONL mirror (workers/events.py), and the    *)
(* two tails a client can open on a job: Server-Sent Events                *)
(* (api/v1/jobs.py) and the WebSocket (api/v1/ws_jobs.py).                 *)
(*                                                                         *)
(* Every statement is a step: the read of max(event_id), the insert, the   *)
(* append to the file, the SELECT of a page of events, the read of the job *)
(* row.  An emission runs in one of the Writer slots.                      *)
(***************************************************************************)
EXTENDS Integers, FiniteSets, Sequences, FiniteSetsExt, SequencesExt

CONSTANTS Job, Writer,
          Emits,        \* the job each writer's handler reports on
          Stream,
          Watches,      \* the job each stream is opened on
          Kind,         \* "sse" or "ws"
          Page,         \* LIMIT of a stream's SELECT
          Window,       \* LIMIT of the events a progress report is made from
          MaxTries,     \* attempts of append_job_event to find a free id
          MaxEvents,    \* bound: highest event id considered
          MaxReconnects,\* bound: reconnections of each client
          Timeouts,     \* whether an emission may outlive the handler's 10 s wait
          Retention     \* whether the janitor deletes the records of finished jobs

ASSUME StreamAssumption ==
  /\ Emits \in [Writer -> Job]
  /\ Watches \in [Stream -> Job]
  /\ Kind \in [Stream -> {"sse", "ws"}]
  /\ Page \in Nat \ {0}
  /\ Window \in Nat \ {0}
  /\ MaxTries \in Nat \ {0}
  /\ MaxEvents \in Nat
  /\ MaxReconnects \in Nat
  /\ Timeouts \in BOOLEAN
  /\ Retention \in BOOLEAN

VARIABLES
  status,   \* each job: pending, done (terminal) or gone (deleted)
  events,   \* the rows of job_event: from event id to the writer, a task of the job
  atEnd,    \* history: the event ids of a job when it became terminal
  jsonl,    \* the sequence numbers in each job's events.jsonl
  writer,   \* each emission in flight
  stream,   \* each stream and what its client has received
  reconnects

vars == <<status, events, atEnd, jsonl, writer, stream, reconnects>>

EventId == 1..MaxEvents
Ids(j) == {i \in DOMAIN events : Emits[events[i]] = j}
LastId == Max(DOMAIN events \cup {0})

Quiet == [pc |-> "idle", id |-> 0, tries |-> 0, waiting |-> FALSE]
Closed == [pc |-> "closed", cursor |-> 0, seen |-> "unread", terminal |-> FALSE, got |-> {}]

-----------------------------------------------------------------------------
(* _emit and append_job_event. *)

\* The handler's thread schedules append_job_event on the loop and waits.
Emit(w) ==
  /\ writer[w] = Quiet
  /\ status[Emits[w]] = "pending"
  /\ LastId < MaxEvents
  /\ writer' = [writer EXCEPT ![w] = [Quiet EXCEPT !.pc = "read", !.waiting = TRUE]]
  /\ UNCHANGED <<status, events, atEnd, jsonl, stream, reconnects>>

\* SELECT max(event_id), over the events of all jobs.
ReadMax(w) ==
  /\ writer[w].pc = "read"
  /\ LastId < MaxEvents
  /\ writer' = [writer EXCEPT ![w].pc = "insert", ![w].id = LastId + 1]
  /\ UNCHANGED <<status, events, atEnd, jsonl, stream, reconnects>>

\* The commit, or the IntegrityError and its retry.
Insert(w) ==
  LET me == writer[w]
  IN  /\ me.pc = "insert"
      /\ \/ /\ me.id \notin DOMAIN events
            /\ events' = [i \in DOMAIN events \cup {me.id} |->
                            IF i = me.id THEN w ELSE events[i]]
            /\ writer' = [writer EXCEPT ![w] = IF me.waiting THEN [me EXCEPT !.pc = "mirror"]
                                                             ELSE Quiet]
         \/ /\ me.id \in DOMAIN events
            /\ writer' = [writer EXCEPT ![w] =
                 IF me.tries + 1 < MaxTries THEN [me EXCEPT !.pc = "read", !.tries = @ + 1]
                                            ELSE Quiet]
            /\ UNCHANGED events
      /\ UNCHANGED <<status, atEnd, jsonl, stream, reconnects>>

\* future.result(timeout=10.0) raises: the handler goes on, the coroutine too.
GiveUpWaiting(w) ==
  /\ Timeouts
  /\ writer[w].pc \in {"read", "insert"}
  /\ writer[w].waiting
  /\ writer' = [writer EXCEPT ![w].waiting = FALSE]
  /\ UNCHANGED <<status, events, atEnd, jsonl, stream, reconnects>>

\* JsonlEventSink.append.
Mirror(w) ==
  /\ writer[w].pc = "mirror"
  /\ jsonl' = [jsonl EXCEPT ![Emits[w]] = Append(@, writer[w].id)]
  /\ writer' = [writer EXCEPT ![w] = Quiet]
  /\ UNCHANGED <<status, events, atEnd, stream, reconnects>>

-----------------------------------------------------------------------------
(* The job row: terminal once its handlers have returned, deleted by GC. *)

Finish(j) ==
  /\ status[j] = "pending"
  /\ \A w \in Writer : Emits[w] = j => ~writer[w].waiting
  /\ status' = [status EXCEPT ![j] = "done"]
  /\ atEnd' = [atEnd EXCEPT ![j] = Ids(j)]
  /\ UNCHANGED <<events, jsonl, writer, stream, reconnects>>

\* gc_expired_job_records; retention outlasts any emission of the job itself.
Collect(j) ==
  /\ Retention
  /\ status[j] = "done"
  /\ \A w \in Writer : Emits[w] = j => writer[w] = Quiet
  /\ status' = [status EXCEPT ![j] = "gone"]
  /\ events' = [i \in DOMAIN events \ Ids(j) |-> events[i]]
  /\ jsonl' = [jsonl EXCEPT ![j] = <<>>]
  /\ UNCHANGED <<atEnd, writer, stream, reconnects>>

-----------------------------------------------------------------------------
(* The streams. *)

\* Opening one: 404 (or close 1008) when there is no job.
Open(s) ==
  /\ stream[s].pc = "closed"
  /\ status[Watches[s]] # "gone"
  /\ stream' = [stream EXCEPT ![s] = [Closed EXCEPT !.pc = "events"]]
  /\ UNCHANGED <<status, events, atEnd, jsonl, writer, reconnects>>

\* Mutant of Reconnect: the server goes on where it stopped sending.
ReconnectWhereSent(s) ==
  /\ stream[s].pc \in {"events", "job"}
  /\ reconnects[s] < MaxReconnects
  /\ status[Watches[s]] # "gone"
  /\ \E c \in stream[s].got \cup {0} :
       stream' = [stream EXCEPT ![s].pc = "events", ![s].got = {i \in @ : i <= c}]
  /\ reconnects' = [reconnects EXCEPT ![s] = @ + 1]
  /\ UNCHANGED <<status, events, atEnd, jsonl, writer>>

\* The client lost the connection, and perhaps the tail of what was sent, and
\* comes back with the last event id it has.
Reconnect(s) ==
  /\ stream[s].pc \in {"events", "job"}
  /\ reconnects[s] < MaxReconnects
  /\ status[Watches[s]] # "gone"
  /\ \E c \in stream[s].got \cup {0} :
       stream' = [stream EXCEPT ![s] =
         [Closed EXCEPT !.pc = "events", !.cursor = c,
                        !.got = {i \in stream[s].got : i <= c}]]
  /\ reconnects' = [reconnects EXCEPT ![s] = @ + 1]
  /\ UNCHANGED <<status, events, atEnd, jsonl, writer>>

\* The rows of one SELECT ... WHERE event_id > cursor ORDER BY event_id LIMIT n.
PageAfter(j, cursor) ==
  {i \in Ids(j) : i > cursor /\ Cardinality({k \in Ids(j) : k > cursor /\ k < i}) < Page}

\* One page is read and sent.
PollEvents(s) ==
  LET page == PageAfter(Watches[s], stream[s].cursor)
  IN  /\ stream[s].pc = "events"
      /\ stream' = [stream EXCEPT ![s].pc = "job",
                                  ![s].cursor = Max(page \cup {stream[s].cursor}),
                                  ![s].got = @ \cup page]
      /\ UNCHANGED <<status, events, atEnd, jsonl, writer, reconnects>>

\* Mutant of PollJobSse: the stream ends as soon as it sees a terminal job.
PollJobSseEager(s) ==
  LET seen == IF stream[s].seen # "unread" THEN stream[s].seen
              ELSE IF status[Watches[s]] = "gone" THEN "unread" ELSE status[Watches[s]]
  IN  /\ Kind[s] = "sse"
      /\ stream[s].pc = "job"
      /\ stream' = [stream EXCEPT ![s].seen = seen,
                                  ![s].pc = IF seen = "done" THEN "eof" ELSE "events"]
      /\ UNCHANGED <<status, events, atEnd, jsonl, writer, reconnects>>

\* session.get(Job, ...) in the request's session: once the row is loaded, and
\* the generator's own variable keeps it alive, the identity map answers and the
\* status is not read again.  A missing row is looked up again each time.
PollJobSse(s) ==
  LET seen == IF stream[s].seen # "unread" THEN stream[s].seen
              ELSE IF status[Watches[s]] = "gone" THEN "unread" ELSE status[Watches[s]]
  IN  /\ Kind[s] = "sse"
      /\ stream[s].pc = "job"
      /\ stream' = [stream EXCEPT ![s].seen = seen,
                                  ![s].terminal = @ \/ seen = "done",
                                  ![s].pc = IF seen = "done" /\ stream[s].terminal
                                            THEN "eof" ELSE "events"]
      /\ UNCHANGED <<status, events, atEnd, jsonl, writer, reconnects>>

\* Mutant of PollJobWs: the job row is read once.
PollJobWsCached(s) ==
  LET seen == IF stream[s].seen # "unread" THEN stream[s].seen
              ELSE IF status[Watches[s]] = "gone" THEN "unread" ELSE status[Watches[s]]
  IN  /\ Kind[s] = "ws"
      /\ stream[s].pc = "job"
      /\ stream' = [stream EXCEPT ![s].seen = seen,
                                  ![s].pc = IF seen = "done" THEN "eof" ELSE "events"]
      /\ UNCHANGED <<status, events, atEnd, jsonl, writer, reconnects>>

\* _pump_events opens a session for every poll and ends at the first terminal
\* status; a missing row is not one.
PollJobWs(s) ==
  /\ Kind[s] = "ws"
  /\ stream[s].pc = "job"
  /\ stream' = [stream EXCEPT ![s].pc = IF status[Watches[s]] = "done" THEN "eof"
                                                                       ELSE "events"]
  /\ UNCHANGED <<status, events, atEnd, jsonl, writer, reconnects>>

-----------------------------------------------------------------------------
(* The polling view. *)

\* get_job_progress: the latest event of each task, 0 where the newest events of
\* the job hold none of it.
get_job_progress(j) ==
  LET recent == {i \in Ids(j) : Cardinality({k \in Ids(j) : k > i}) < Window}
  IN  [w \in {v \in Writer : Emits[v] = j} |-> Max({i \in recent : events[i] = w} \cup {0})]

-----------------------------------------------------------------------------
Init ==
  /\ status = [j \in Job |-> "pending"]
  /\ events = [i \in {} |-> CHOOSE w \in Writer : TRUE]
  /\ atEnd = [j \in Job |-> {}]
  /\ jsonl = [j \in Job |-> <<>>]
  /\ writer = [w \in Writer |-> Quiet]
  /\ stream = [s \in Stream |-> Closed]
  /\ reconnects = [s \in Stream |-> 0]

WriterStep(w) == ReadMax(w) \/ Insert(w) \/ Mirror(w)
StreamStep(s) == PollEvents(s) \/ PollJobSse(s) \/ PollJobWs(s)

Next ==
  \/ \E w \in Writer : Emit(w) \/ WriterStep(w) \/ GiveUpWaiting(w)
  \/ \E j \in Job : Finish(j) \/ Collect(j)
  \/ \E s \in Stream : Open(s) \/ Reconnect(s) \/ StreamStep(s)

Spec == Init /\ [][Next]_vars

\* The event loop runs every coroutine and every poll comes round.
Fairness ==
  /\ \A w \in Writer : WF_vars(WriterStep(w))
  /\ \A s \in Stream : WF_vars(StreamStep(s))

LiveSpec == Spec /\ Fairness

-----------------------------------------------------------------------------
TypeOK ==
  /\ status \in [Job -> {"pending", "done", "gone"}]
  /\ DOMAIN events \subseteq EventId
  /\ \A i \in DOMAIN events : events[i] \in Writer
  /\ atEnd \in [Job -> SUBSET EventId]
  /\ writer \in [Writer -> [pc : {"idle", "read", "insert", "mirror"},
                            id : 0..MaxEvents, tries : 0..(MaxTries - 1),
                            waiting : BOOLEAN]]
  /\ stream \in [Stream -> [pc : {"closed", "events", "job", "eof"},
                            cursor : 0..MaxEvents, seen : {"unread", "pending", "done"},
                            terminal : BOOLEAN, got : SUBSET EventId]]

\* A stream never moves its cursor past an event it has not sent, across polls,
\* pages, racing commits and reconnections: "replays every persisted event with
\* event_id > last_event_id".
NoSkippedEvent ==
  \A s \in Stream : \A i \in Ids(Watches[s]) :
    i <= stream[s].cursor => i \in stream[s].got

\* An SSE stream that ended has sent every event the job had when it became
\* terminal ("one final drain cycle has shipped any pending events"), unless
\* retention has deleted them.
SseDrains ==
  \A s \in Stream :
    Kind[s] = "sse" /\ stream[s].pc = "eof" /\ status[Watches[s]] # "gone" =>
      atEnd[Watches[s]] \subseteq stream[s].got

\* The report shows what a task last said, whatever the other tasks of its job
\* have said since ("the latest persisted progress events").
ProgressIsLatest ==
  \A j \in Job : \A w \in Writer : Emits[w] = j =>
    get_job_progress(j)[w] = Max({i \in Ids(j) : events[i] = w} \cup {0})

\* The same of a WebSocket ("same drain-once-then-EOF protocol as SSE").
WsDrains ==
  \A s \in Stream : Kind[s] = "ws" /\ stream[s].pc = "eof" =>
    atEnd[Watches[s]] \subseteq stream[s].got

\* events.jsonl lists a job's events in the order of their ids ("Both are
\* appended in order").
JsonlInOrder ==
  \A j \in Job : \A m, n \in DOMAIN jsonl[j] : m < n => jsonl[j][m] < jsonl[j][n]

\* A WebSocket on a job that becomes terminal ends, unless the record of the job
\* is deleted before its next poll.
WsCloses ==
  \A s \in Stream : Kind[s] = "ws" =>
    (stream[s].pc \in {"events", "job"} /\ status[Watches[s]] = "done"
       ~> stream[s].pc = "eof" \/ status[Watches[s]] = "gone")

\* An SSE stream that is open on a job with one of these statuses comes to an end.
SseEnds(ended) ==
  \A s \in Stream : Kind[s] = "sse" =>
    (stream[s].pc \in {"events", "job"} /\ status[Watches[s]] \in ended
       ~> stream[s].pc = "eof")

\* "The stream closes once the job's status reaches a terminal value."
SseCloses == SseEnds({"done"})

\* "If the underlying job row vanishes ... the stream closes cleanly."
SseClosesOnDeletion == SseEnds({"gone"})

=============================================================================
