----------------------------- MODULE RequestLog -----------------------------
(***************************************************************************)
(* From a request to its row in the table logs: the guards, the            *)
(* LoggingInterceptor, the HttpExceptionFilter and LogService.             *)
(*                                                                         *)
(* A logged request is answered first and written down later: the          *)
(* interceptor, or the filter when something throws, defers to the event   *)
(* loop, saveLog defers once more, and _persist tries the insert up to     *)
(* MaxRetries times, each failure followed by a timer.  All of it is       *)
(* memory of the process: a stop loses it.                                 *)
(***************************************************************************)
EXTENDS Naturals, Sequences, FiniteSets

CONSTANTS
  Request,     \* HTTP requests, each of which arrives at most once
  Guarded,     \* those whose route has JwtAuthGuard
  Quiet,       \* those whose controller has @NoLog
  Scoped,      \* those whose controller is request-scoped, by way of CallerService
  MaxRetries,  \* LogService.MAX_RETRIES
  MaxStops     \* bound: how often the process stops

ASSUME RequestLogAssumption ==
  /\ Guarded \subseteq Request
  /\ Quiet \subseteq Request
  /\ Scoped \subseteq Request
  /\ MaxRetries \in Nat \ {0}
  /\ MaxStops \in Nat

VARIABLES
  req,       \* per request: how far it is, its token, its status code, its start mark
  queue,     \* the event loop's setImmediate callbacks, in order
  attempts,  \* inserts under way, or waiting for their timer
  logs,      \* table logs: each row with the attempt that inserted it
  dropped,   \* entries given up, as stderr shows them
  lost,      \* history: entries that a stop, or an error while they were built, lost
  unsure,    \* history: entries with an insert that failed after it was committed
  thrown,    \* history: requests whose answer could not be formatted or serialised
  failures,  \* history: failed attempts of every entry
  stops      \* how often the process has stopped

vars == <<req, queue, attempts, logs, dropped, lost, unsure, thrown, failures, stops>>

logVars == <<attempts, logs, dropped, unsure, failures>>

-----------------------------------------------------------------------------
(* Requests and entries *)

Token == {"none", "bad", "good"}

\* "replying" lasts until the microtasks that follow the handler's promise are done.
Stage == {"idle", "guard", "handling", "replying", "done"}

Answer == {"none", "ok", "error"}

Call == [at : Stage, token : Token, sent : Answer, timed : BOOLEAN]

\* A request that has not arrived.
NoCall(token) == [at |-> "idle", token |-> token, sent |-> "none", timed |-> FALSE]

\* Which row an entry is to become.
Id == [of : Request, success : BOOLEAN]

\* What is written: the status, whether the response time is known, and whether a user
\* is named, by a token that is decoded and not verified.
Entry == [id : Id, status : Answer, timed : BOOLEAN, named : BOOLEAN]

\* A deferred callback: of the interceptor or the filter, or of saveLog.
Job == [step : {"dispatch"}, id : Id] \cup [step : {"persist"}, entry : Entry]

Row == [entry : Entry, by : 1..MaxRetries]

Attempt == [entry : Entry, n : 1..MaxRetries, waits : BOOLEAN]

Built(id) ==
  [id |-> id, status |-> req[id.of].sent, timed |-> req[id.of].timed,
   named |-> req[id.of].token # "none"]

\* Microtasks run before the loop turns to its next callback.
LoopFree == \A r \in Request : req[r].at # "replying"

Defer(job) == queue' = Append(queue, job)

-----------------------------------------------------------------------------
(* The request *)

\* CallerService, which is created with a request-scoped controller, marks the start.
Arrive(r) ==
  /\ LoopFree
  /\ req[r].at = "idle"
  /\ req' = [req EXCEPT ![r].at = "guard", ![r].timed = r \in Scoped]
  /\ UNCHANGED <<queue, logVars, lost, thrown, stops>>

\* JwtAuthGuard lets the request pass, and the interceptor marks the start, unless its
\* route is not logged.
Pass(r) ==
  /\ LoopFree
  /\ req[r].at = "guard"
  /\ r \in Guarded => req[r].token = "good"
  /\ req' = [req EXCEPT ![r].at = "handling", ![r].timed = @ \/ r \notin Quiet]
  /\ UNCHANGED <<queue, logVars, lost, thrown, stops>>

\* The filter answers and then defers the entry.  Nest gives a filter a host without
\* handler and class, so that it never finds @NoLog.
Catch(r) ==
  /\ req' = [req EXCEPT ![r].at = "done", ![r].sent = "error"]
  /\ Defer([step |-> "dispatch", id |-> [of |-> r, success |-> FALSE]])

\* A guard, a pipe, the handler or a statement of it throws.
Throw(r) ==
  /\ LoopFree
  /\ req[r].at \in {"guard", "handling"}
  /\ Catch(r)
  /\ UNCHANGED <<logVars, lost, thrown, stops>>

\* Mutant of Return: @NoLog is not looked at.
ReturnLogged(r) ==
  /\ LoopFree
  /\ req[r].at = "handling"
  /\ req' = [req EXCEPT ![r].at = "replying"]
  /\ Defer([step |-> "dispatch", id |-> [of |-> r, success |-> TRUE]])
  /\ UNCHANGED <<logVars, lost, thrown, stops>>

\* The handler's value arrives at the interceptor's tap.
Return(r) ==
  /\ LoopFree
  /\ req[r].at = "handling"
  /\ req' = [req EXCEPT ![r].at = "replying"]
  /\ IF r \in Quiet THEN UNCHANGED queue
     ELSE Defer([step |-> "dispatch", id |-> [of |-> r, success |-> TRUE]])
  /\ UNCHANGED <<logVars, lost, thrown, stops>>

\* The response is sent.
Reply(r) ==
  /\ req[r].at = "replying"
  /\ req' = [req EXCEPT ![r].at = "done", ![r].sent = "ok"]
  /\ UNCHANGED <<queue, logVars, lost, thrown, stops>>

\* DateFormatInterceptor, which is registered first and so is the outer one, or the
\* serialisation throws after the tap: the filter answers.
ReplyThrows(r) ==
  /\ req[r].at = "replying"
  /\ Catch(r)
  /\ thrown' = thrown \cup {r}
  /\ UNCHANGED <<logVars, lost, stops>>

-----------------------------------------------------------------------------
(* The entry *)

\* The interceptor's or the filter's callback builds the entry and calls saveLog.
Dispatch ==
  /\ LoopFree
  /\ queue # <<>>
  /\ Head(queue).step = "dispatch"
  /\ queue' = Append(Tail(queue), [step |-> "persist", entry |-> Built(Head(queue).id)])
  /\ UNCHANGED <<req, logVars, lost, thrown, stops>>

\* Building it throws: the error is swallowed, and the entry with it.
DispatchThrows ==
  /\ LoopFree
  /\ queue # <<>>
  /\ Head(queue).step = "dispatch"
  /\ queue' = Tail(queue)
  /\ lost' = lost \cup {Head(queue).id}
  /\ UNCHANGED <<req, logVars, thrown, stops>>

\* saveLog's callback starts the first attempt.
Persist ==
  /\ LoopFree
  /\ queue # <<>>
  /\ Head(queue).step = "persist"
  /\ queue' = Tail(queue)
  /\ attempts' = attempts \cup {[entry |-> Head(queue).entry, n |-> 1, waits |-> FALSE]}
  /\ UNCHANGED <<req, logs, dropped, unsure, failures, lost, thrown, stops>>

\* The timer of a retry fires.
Retry(a) ==
  /\ LoopFree
  /\ a \in attempts
  /\ a.waits
  /\ attempts' = (attempts \ {a}) \cup {[a EXCEPT !.waits = FALSE]}
  /\ UNCHANGED <<req, queue, logs, dropped, unsure, failures, lost, thrown, stops>>

\* Mutant of Stored: the attempt is not over when it has succeeded.
StoredAndRetried(a) ==
  /\ LoopFree
  /\ a \in attempts
  /\ ~a.waits
  /\ logs' = logs \cup {[entry |-> a.entry, by |-> a.n]}
  /\ attempts' = IF a.n < MaxRetries
                   THEN (attempts \ {a}) \cup {[a EXCEPT !.n = @ + 1]} ELSE attempts \ {a}
  /\ UNCHANGED <<req, queue, dropped, unsure, failures, lost, thrown, stops>>

\* The insert succeeds.
Stored(a) ==
  /\ LoopFree
  /\ a \in attempts
  /\ ~a.waits
  /\ logs' = logs \cup {[entry |-> a.entry, by |-> a.n]}
  /\ attempts' = attempts \ {a}
  /\ UNCHANGED <<req, queue, dropped, unsure, failures, lost, thrown, stops>>

\* Mutants of HandlePersistError: one attempt too many; none but the first; an entry is
\* given up without a word.
HandlePersistErrorLate(a) ==
  IF a.n <= MaxRetries
    THEN /\ attempts' = (attempts \ {a}) \cup {[a EXCEPT !.n = @ + 1, !.waits = TRUE]}
         /\ UNCHANGED dropped
    ELSE attempts' = attempts \ {a} /\ dropped' = dropped \cup {a.entry.id}

HandlePersistErrorOnce(a) ==
  attempts' = attempts \ {a} /\ dropped' = dropped \cup {a.entry.id}

HandlePersistErrorSilently(a) ==
  IF a.n < MaxRetries
    THEN /\ attempts' = (attempts \ {a}) \cup {[a EXCEPT !.n = @ + 1, !.waits = TRUE]}
         /\ UNCHANGED dropped
    ELSE attempts' = attempts \ {a} /\ UNCHANGED dropped

\* _handlePersistError: another attempt after 1 s or 2 s, or the entry is dropped.
HandlePersistError(a) ==
  IF a.n < MaxRetries
    THEN /\ attempts' = (attempts \ {a}) \cup {[a EXCEPT !.n = @ + 1, !.waits = TRUE]}
         /\ UNCHANGED dropped
    ELSE attempts' = attempts \ {a} /\ dropped' = dropped \cup {a.entry.id}

\* The insert fails.
Rejected(a) ==
  /\ LoopFree
  /\ a \in attempts
  /\ ~a.waits
  /\ failures' = [failures EXCEPT ![a.entry.id] = @ + 1]
  /\ HandlePersistError(a)
  /\ UNCHANGED <<req, queue, logs, unsure, lost, thrown, stops>>

\* The row is committed, and the connection breaks before the answer.
Unconfirmed(a) ==
  /\ LoopFree
  /\ a \in attempts
  /\ ~a.waits
  /\ logs' = logs \cup {[entry |-> a.entry, by |-> a.n]}
  /\ unsure' = unsure \cup {a.entry.id}
  /\ failures' = [failures EXCEPT ![a.entry.id] = @ + 1]
  /\ HandlePersistError(a)
  /\ UNCHANGED <<req, queue, lost, thrown, stops>>

\* The entries that exist only in memory.
InMemory ==
  {j.id : j \in {k \in {queue[i] : i \in DOMAIN queue} : k.step = "dispatch"}}
    \cup {j.entry.id : j \in {k \in {queue[i] : i \in DOMAIN queue} : k.step = "persist"}}
    \cup {a.entry.id : a \in attempts}

\* The process stops and is started again.  No hook waits for the entries.
Stop ==
  /\ stops < MaxStops
  /\ stops' = stops + 1
  /\ lost' = lost \cup InMemory
  /\ queue' = <<>>
  /\ attempts' = {}
  /\ req' = [r \in Request |-> IF req[r].at = "idle" THEN req[r]
                               ELSE [req[r] EXCEPT !.at = "done"]]
  /\ UNCHANGED <<logs, dropped, unsure, failures, thrown>>

-----------------------------------------------------------------------------

Init ==
  /\ req \in [Request -> {NoCall(token) : token \in Token}]
  /\ queue = <<>>
  /\ attempts = {}
  /\ logs = {}
  /\ dropped = {}
  /\ lost = {}
  /\ unsure = {}
  /\ thrown = {}
  /\ failures = [id \in Id |-> 0]
  /\ stops = 0

Serve(r) ==
  \/ Arrive(r)
  \/ Pass(r)
  \/ Throw(r)
  \/ Return(r)

Settle(r) == Reply(r) \/ ReplyThrows(r)

RunCallback == Dispatch \/ DispatchThrows \/ Persist

RunAttempt(a) == Retry(a) \/ Stored(a) \/ Rejected(a) \/ Unconfirmed(a)

Next ==
  \/ \E r \in Request : Serve(r) \/ Settle(r)
  \/ RunCallback
  \/ \E a \in attempts : RunAttempt(a)
  \/ Stop

\* Microtasks and callbacks run; timers fire, and an insert succeeds or fails in the end.
\* Nothing is assumed of clients, handlers or of what the database answers.
Fairness ==
  /\ \A r \in Request : WF_vars(Settle(r))
  /\ WF_vars(RunCallback)
  /\ WF_vars(\E a \in attempts : RunAttempt(a))

Spec == Init /\ [][Next]_vars /\ Fairness

-----------------------------------------------------------------------------
(* Properties *)

\* Calls, callbacks, attempts and rows have their types.
TypeOK ==
  /\ req \in [Request -> Call]
  /\ queue \in Seq(Job)
  /\ attempts \subseteq Attempt
  /\ logs \subseteq Row
  /\ dropped \subseteq Id
  /\ lost \subseteq Id
  /\ unsure \subseteq Id
  /\ thrown \subseteq Request
  /\ failures \in [Id -> 0..MaxRetries]
  /\ stops \in 0..MaxStops

RowsOf(id) == {row \in logs : row.entry.id = id}

\* A row tells what the client got: it is written after the answer and says whether it
\* was one of success; a success is timed, is not of a quiet route, and names a user
\* where the route demands one.  Only an answer that threw after the tap is told twice.
RowTellsAnswer ==
  \A row \in logs :
    LET e == row.entry
        c == req[e.id.of] IN
    /\ c.at = "done"
    /\ e.status = c.sent
    /\ e.id.of \notin thrown => e.status = IF e.id.success THEN "ok" ELSE "error"
    /\ e.id.success => e.timed /\ e.id.of \notin Quiet
    /\ e.id.success /\ e.id.of \in Guarded => e.named

\* A retry repeats an insert only if it failed: an entry has two rows only if a commit
\* was not confirmed.
NoDuplicateRow ==
  \A id \in Id \ unsure : Cardinality(RowsOf(id)) <= 1

\* _persist gives an entry up only after MaxRetries failures, and what it gives up it
\* has not stored, unless a commit was not confirmed.
DroppedAfterRetries ==
  \A id \in dropped : /\ failures[id] = MaxRetries
                      /\ id \notin unsure => RowsOf(id) = {}

Told(id) == RowsOf(id) # {} \/ id \in dropped \cup lost

Accounted(id) == id \in InMemory \/ Told(id)

\* No entry vanishes between the callbacks, the timers and the table: once a request is
\* answered, what saveLog is to write of it is in memory, in the table, on stderr, or
\* among what a stop or an error lost.
NoEntryVanishes ==
  \A r \in Request :
    /\ req[r].sent = "ok" /\ r \notin Quiet => Accounted([of |-> r, success |-> TRUE])
    /\ req[r].sent = "error" => Accounted([of |-> r, success |-> FALSE])

\* Every answer becomes a row, or is given up on stderr, or is lost with the process: no
\* entry stays in a timer or a queue for ever.
EveryAnswerIsTold ==
  /\ \A r \in Request \ Quiet :
       (req[r].sent = "ok") ~> Told([of |-> r, success |-> TRUE])
  /\ \A r \in Request : (req[r].sent = "error") ~> Told([of |-> r, success |-> FALSE])
=============================================================================
