-------------------------- MODULE RequestLog_Proofs --------------------------
(***************************************************************************)
(* What the logging of requests keeps, for any number of requests, retries *)
(* and stops: rows say what was answered, no entry is inserted twice, and  *)
(* none is given up early or vanishes.  Inv adds what a callback or an     *)
(* attempt may rely on: its entry is nowhere else, and its answer does not *)
(* change.                                                                 *)
(***************************************************************************)
EXTENDS RequestLog, SequenceTheorems, FiniteSetTheorems, TLAPS

\* The entry a callback is about.
JobId(j) == IF j.step = "dispatch" THEN j.id ELSE j.entry.id

NoRow(id) == \A row \in logs : row.entry.id # id

\* An entry of which nothing has been tried.
Fresh(id) ==
  /\ \A a \in attempts : a.entry.id # id
  /\ NoRow(id)
  /\ id \notin dropped
  /\ failures[id] = 0

\* Stages at which the entry may still be handed in.
Open(id) ==
  \/ req[id.of].at \in {"idle", "guard", "handling"}
  \/ req[id.of].at = "replying" /\ ~id.success

\* What the guard and the interceptor leave behind.
CallOK(r) ==
  req[r].at \in {"handling", "replying"} =>
    /\ r \notin Quiet => req[r].timed
    /\ r \in Guarded => req[r].token = "good"

\* An entry that is still to be built.
Coming(id) ==
  LET c == req[id.of] IN
  /\ IF id.success THEN c.at \in {"replying", "done"} ELSE c.at = "done"
  /\ c.at = "done" /\ id.of \notin thrown => c.sent = (IF id.success THEN "ok" ELSE "error")
  /\ id.success => id.of \notin Quiet /\ c.timed
  /\ id.success /\ id.of \in Guarded => c.token = "good"

\* One that was built.
EntryOK(e) ==
  LET c == req[e.id.of] IN
  /\ c.at = "done"
  /\ e.status = c.sent
  /\ e.id.of \notin thrown => e.status = (IF e.id.success THEN "ok" ELSE "error")
  /\ e.id.success => e.timed /\ e.id.of \notin Quiet
  /\ e.id.success /\ e.id.of \in Guarded => e.named

JobOK(j) == IF j.step = "dispatch" THEN Coming(j.id) ELSE EntryOK(j.entry)

Calls == \A r \in Request : CallOK(r)

Unopened ==
  \A id \in Id : Open(id) =>
    Fresh(id) /\ \A i \in 1..Len(queue) : JobId(queue[i]) # id

Callbacks ==
  /\ \A i \in 1..Len(queue) : JobOK(queue[i]) /\ Fresh(JobId(queue[i]))
  /\ \A i, j \in 1..Len(queue) : JobId(queue[i]) = JobId(queue[j]) => i = j

AttemptOK(a) ==
  /\ EntryOK(a.entry)
  /\ failures[a.entry.id] = a.n - 1
  /\ a.entry.id \notin dropped
  /\ a.entry.id \notin unsure => NoRow(a.entry.id)

Attempts ==
  /\ \A a \in attempts : AttemptOK(a)
  /\ \A a, b \in attempts : a.entry.id = b.entry.id => a = b

Rows ==
  /\ \A row \in logs : EntryOK(row.entry)
  /\ \A x, y \in logs : x.entry.id = y.entry.id /\ x.entry.id \notin unsure => x = y

GivenUp ==
  \A id \in dropped : failures[id] = MaxRetries /\ (id \notin unsure => NoRow(id))

Inv == TypeOK /\ Calls /\ Unopened /\ Callbacks /\ Attempts /\ Rows /\ GivenUp

-----------------------------------------------------------------------------
(* Types and sequences *)

LEMMA JobType ==
  ASSUME NEW j \in Job
  PROVE  /\ JobId(j) \in Id
         /\ j.step = "dispatch" => j.id \in Id
         /\ j.step # "dispatch" => j.step = "persist" /\ j.entry \in Entry
BY DEF Job, JobId, Entry

LEMMA Appended ==
  ASSUME NEW q \in Seq(Job), NEW j \in Job
  PROVE  /\ Append(q, j) \in Seq(Job)
         /\ Len(Append(q, j)) = Len(q) + 1
         /\ \A i \in 1..Len(q) : Append(q, j)[i] = q[i]
         /\ Append(q, j)[Len(q) + 1] = j
BY AppendProperties

LEMMA Shifted ==
  ASSUME NEW q \in Seq(Job), q # <<>>
  PROVE  /\ Tail(q) \in Seq(Job) /\ Len(Tail(q)) = Len(q) - 1
         /\ Head(q) = q[1] /\ Head(q) \in Job /\ Len(q) \in Nat \ {0}
         /\ \A i \in 1..Len(Tail(q)) : Tail(q)[i] = q[i + 1]
<1>1. Len(q) \in Nat /\ Len(q) # 0
  BY EmptySeq, LenProperties
<1> QED BY <1>1, HeadTailProperties, ElementOfSeq

\* The callbacks of a queue one longer.
LEMMA QueueType ==
  ASSUME TypeOK, NEW i \in 1..Len(queue)
  PROVE  queue[i] \in Job /\ JobId(queue[i]) \in Id
<1>1. queue[i] \in Job
  BY ElementOfSeq DEF TypeOK
<1> QED BY <1>1, JobType

LEMMA InitInv == Init => Inv
<1> SUFFICES ASSUME Init PROVE Inv OBVIOUS
<1>1. ASSUME NEW r \in Request PROVE req[r] \in Call /\ req[r].at = "idle"
  <2>1. PICK token \in Token : req[r] = NoCall(token)
    BY DEF Init
  <2> QED BY <2>1 DEF NoCall, Call, Stage, Answer
<1>2. queue \in Seq(Job) /\ Len(queue) = 0
  BY EmptySeq DEF Init
<1>3. MaxRetries \in Nat /\ MaxStops \in Nat
  BY RequestLogAssumption
<1>4. req \in [Request -> Call]
  BY <1>1 DEF Init
<1>5. TypeOK
  BY <1>2, <1>3, <1>4 DEF Init, TypeOK
<1> QED BY <1>1, <1>2, <1>5 DEF Init, Inv, Calls, CallOK, Unopened, Callbacks, Attempts,
                                Rows, GivenUp, Fresh, NoRow

-----------------------------------------------------------------------------
(* Requests *)

\* What was written down stays true: a request that is done does not change.
LEMMA EntryKept ==
  ASSUME NEW e \in Entry, EntryOK(e),
         \A q \in Request : req[q].at = "done" => req'[q] = req[q],
         \A q \in Request : req[q].at = "done" => (q \in thrown' <=> q \in thrown)
  PROVE  EntryOK(e)'
<1>1. e.id.of \in Request
  BY DEF Entry, Id
<1> QED BY <1>1 DEF EntryOK

\* A request moves on; what it does to the queue is left open.
LEMMA CallStep ==
  ASSUME Inv, NEW r \in Request, NEW c \in Call,
         req[r].at # "done", req' = [req EXCEPT ![r] = c], CallOK(r)',
         thrown' = thrown \/ thrown' = thrown \cup {r},
         UNCHANGED logVars
  PROVE  /\ req' \in [Request -> Call] /\ thrown' \subseteq Request
         /\ req'[r] = c /\ \A q \in Request \ {r} : req'[q] = req[q]
         /\ \A e \in Entry : EntryOK(e) => EntryOK(e)'
         /\ \A id \in Id : Fresh(id)' <=> Fresh(id)
         /\ Calls' /\ Attempts' /\ Rows' /\ GivenUp'
<1>1. /\ req' \in [Request -> Call] /\ thrown' \subseteq Request
      /\ req'[r] = c /\ \A q \in Request \ {r} : req'[q] = req[q]
  BY DEF Inv, TypeOK
<1>2. \A e \in Entry : EntryOK(e) => EntryOK(e)'
  BY <1>1, EntryKept
<1>3. /\ \A id \in Id : Fresh(id)' <=> Fresh(id)
      /\ \A id : NoRow(id)' <=> NoRow(id)
  BY DEF logVars, Fresh, NoRow
<1>4. Calls'
  BY <1>1 DEF Inv, Calls, CallOK
<1>5. Attempts'
  <2>1. \A a \in attempts : a.entry \in Entry
    BY DEF Inv, TypeOK, Attempt
  <2> QED BY <1>2, <1>3, <2>1 DEF logVars, Inv, Attempts, AttemptOK
<1>6. Rows'
  <2>1. \A row \in logs : row.entry \in Entry
    BY DEF Inv, TypeOK, Row
  <2> QED BY <1>2, <2>1 DEF logVars, Inv, Rows
<1>7. GivenUp'
  BY <1>3 DEF logVars, Inv, GivenUp
<1> QED BY <1>1, <1>2, <1>3, <1>4, <1>5, <1>6, <1>7

\* Entries that wait to be built stay right, for only a request that is replying has any
\* before it is done.
LEMMA JobKept ==
  ASSUME Inv, NEW r \in Request, NEW c \in Call, NEW j \in Job,
         req[r].at # "done", req' = [req EXCEPT ![r] = c],
         \A e \in Entry : EntryOK(e) => EntryOK(e)',
         thrown' = thrown \/ thrown' = thrown \cup {r},
         req[r].at = "replying" =>
           /\ c.at = "done" /\ c.timed = req[r].timed /\ c.token = req[r].token
           /\ c.sent = "ok" \/ r \in thrown',
         JobOK(j)
  PROVE  JobOK(j)'
<1>1. CASE j.step # "dispatch"
  BY <1>1, JobType DEF JobOK
<1>2. CASE j.step = "dispatch"
  <2>1. j.id \in Id /\ j.id.of \in Request /\ Coming(j.id)
    BY <1>2, JobType DEF JobOK, Id
  <2>2. req \in [Request -> Call]
    BY DEF Inv, TypeOK
  <2>3. CASE j.id.of # r
    <3>1. req'[j.id.of] = req[j.id.of] /\ (j.id.of \in thrown' <=> j.id.of \in thrown)
      BY <2>1, <2>2, <2>3
    <3>2. Coming(j.id)'
      BY <2>1, <3>1 DEF Coming
    <3> QED BY <1>2, <3>2 DEF JobOK
  <2>4. CASE j.id.of = r
    <3>1. req'[j.id.of] = c
      BY <2>1, <2>2, <2>4
    <3>2. j.id.success /\ req[r].at = "replying"
      BY <2>1, <2>4 DEF Coming
    <3>3. Coming(j.id)'
      BY <2>1, <2>4, <3>1, <3>2 DEF Coming
    <3> QED BY <1>2, <3>3 DEF JobOK
  <2> QED BY <2>3, <2>4
<1> QED BY <1>1, <1>2

\* A request goes on by one stage at least, and nothing else happens but to the queue.
Moves(r, c) ==
  /\ req' = [req EXCEPT ![r] = c]
  /\ \/ /\ req[r].at \in {"idle", "guard", "handling"}
        /\ c.at \in {"guard", "handling", "replying", "done"}
     \/ /\ req[r].at = "replying" /\ c.at = "done"
        /\ c.timed = req[r].timed /\ c.token = req[r].token
        /\ c.sent = "ok" \/ r \in thrown'
  /\ c.at \in {"handling", "replying"} =>
       (r \notin Quiet => c.timed) /\ (r \in Guarded => c.token = "good")
  /\ thrown' = thrown \/ thrown' = thrown \cup {r}
  /\ UNCHANGED <<logVars, lost, stops>>

LEMMA Moved ==
  ASSUME Inv, NEW r \in Request, NEW c \in Call, Moves(r, c)
  PROVE  /\ req' \in [Request -> Call] /\ thrown' \subseteq Request
         /\ req'[r] = c /\ \A q \in Request \ {r} : req'[q] = req[q]
         /\ \A id \in Id : Fresh(id)' <=> Fresh(id)
         /\ \A id \in Id : Open(id)' => Open(id)
         /\ \A j \in Job : JobOK(j) => JobOK(j)'
         /\ Calls' /\ Attempts' /\ Rows' /\ GivenUp'
<1>1. /\ req[r].at # "done" /\ req' = [req EXCEPT ![r] = c]
      /\ req[r].at = "replying" =>
           /\ c.at = "done" /\ c.timed = req[r].timed /\ c.token = req[r].token
           /\ c.sent = "ok" \/ r \in thrown'
      /\ thrown' = thrown \/ thrown' = thrown \cup {r}
      /\ UNCHANGED logVars
  BY DEF Moves
<1>2. req'[r] = c
  BY <1>1 DEF Inv, TypeOK
<1>3. CallOK(r)'
  BY <1>2 DEF Moves, CallOK
<1>4. /\ req' \in [Request -> Call] /\ thrown' \subseteq Request
      /\ req'[r] = c /\ \A q \in Request \ {r} : req'[q] = req[q]
      /\ \A e \in Entry : EntryOK(e) => EntryOK(e)'
      /\ \A id \in Id : Fresh(id)' <=> Fresh(id)
      /\ Calls' /\ Attempts' /\ Rows' /\ GivenUp'
  BY <1>1, <1>3, CallStep
<1>5. ASSUME NEW id \in Id, Open(id)' PROVE Open(id)
  <2>1. id.of \in Request
    BY DEF Id
  <2>2. CASE id.of # r
    BY <1>4, <1>5, <2>1, <2>2 DEF Open
  <2>3. CASE id.of = r
    <3>1. c.at # "done" /\ c.at # "idle"
      BY <1>2, <1>5, <2>3 DEF Open, Moves
    <3> QED BY <2>3, <3>1 DEF Open, Moves
  <2> QED BY <2>2, <2>3
<1>6. \A j \in Job : JobOK(j) => JobOK(j)'
  BY <1>1, <1>4, JobKept
<1> QED BY <1>4, <1>5, <1>6

\* A step of a request that hands nothing in.
LEMMA QuietStep ==
  ASSUME Inv, NEW r \in Request, NEW c \in Call, Moves(r, c), UNCHANGED queue
  PROVE  Inv'
<1>1. /\ req' \in [Request -> Call] /\ thrown' \subseteq Request
      /\ \A id \in Id : Fresh(id)' <=> Fresh(id)
      /\ \A id \in Id : Open(id)' => Open(id)
      /\ \A j \in Job : JobOK(j) => JobOK(j)'
      /\ Calls' /\ Attempts' /\ Rows' /\ GivenUp'
  BY Moved
<1>2. TypeOK'
  BY <1>1 DEF Moves, logVars, Inv, TypeOK
<1>3. Unopened'
  BY <1>1 DEF Inv, Unopened
<1>4. Callbacks'
  BY <1>1, QueueType DEF Inv, Callbacks
<1> QED BY <1>1, <1>2, <1>3, <1>4 DEF Inv

\* A step of a request that hands in an entry, its first of this kind.
LEMMA HandInStep ==
  ASSUME Inv, NEW r \in Request, NEW c \in Call, Moves(r, c),
         NEW id \in Id, id.of = r, Open(id), ~Open(id)', Coming(id)',
         Defer([step |-> "dispatch", id |-> id])
  PROVE  Inv'
<1> DEFINE job == [step |-> "dispatch", id |-> id]
<1>1. /\ req' \in [Request -> Call] /\ thrown' \subseteq Request
      /\ \A x \in Id : Fresh(x)' <=> Fresh(x)
      /\ \A x \in Id : Open(x)' => Open(x)
      /\ \A j \in Job : JobOK(j) => JobOK(j)'
      /\ Calls' /\ Attempts' /\ Rows' /\ GivenUp'
  BY Moved
<1>2. job \in Job /\ JobId(job) = id /\ job.step = "dispatch" /\ job.id = id
  BY DEF Job, JobId
<1>3. queue' = Append(queue, job)
  BY DEF Defer
<1> HIDE DEF job
<1>4. /\ queue \in Seq(Job) /\ queue' \in Seq(Job) /\ Len(queue) \in Nat
      /\ Len(queue') = Len(queue) + 1
      /\ \A i \in 1..Len(queue) : queue'[i] = queue[i]
      /\ queue'[Len(queue) + 1] = job
  BY <1>2, <1>3, Appended, LenProperties DEF Inv, TypeOK
<1>5. Fresh(id) /\ \A i \in 1..Len(queue) : JobId(queue[i]) # id
  BY DEF Inv, Unopened
<1>6. TypeOK'
  BY <1>1, <1>4 DEF Moves, logVars, Inv, TypeOK
<1>7. ASSUME NEW i \in 1..Len(queue')
      PROVE  i \in 1..Len(queue) \/ i = Len(queue) + 1
  BY <1>4
<1>8. Unopened'
  <2> SUFFICES ASSUME NEW x \in Id, Open(x)'
               PROVE  Fresh(x)' /\ \A i \in 1..Len(queue') : JobId(queue'[i]) # x
    BY DEF Unopened, JobId
  <2>1. Open(x) /\ x # id
    BY <1>1
  <2>2. Fresh(x) /\ \A i \in 1..Len(queue) : JobId(queue[i]) # x
    BY <2>1 DEF Inv, Unopened
  <2> QED BY <1>1, <1>2, <1>4, <1>7, <2>1, <2>2
<1>9. Callbacks'
  <2>1. ASSUME NEW i \in 1..Len(queue')
        PROVE  /\ JobOK(queue[i])' /\ Fresh(JobId(queue[i]))'
               /\ i = Len(queue) + 1 \/ (i \in 1..Len(queue) /\ JobId(queue[i]) # id)
    <3>1. CASE i \in 1..Len(queue)
      <4>1. PICK j \in Job : j = queue[i]
        BY <3>1, QueueType DEF Inv
      <4>2. JobOK(j)' /\ Fresh(JobId(j))'
        BY <1>1, <3>1, <4>1, JobType DEF Inv, Callbacks
      <4>3. queue'[i] = j /\ JobId(queue[i]) # id
        BY <1>4, <1>5, <3>1, <4>1
      <4> QED BY <3>1, <4>2, <4>3 DEF JobOK, JobId
    <3>2. CASE i = Len(queue) + 1
      <4>1. Fresh(id)'
        BY <1>1, <1>5
      <4>2. queue'[i] = job
        BY <1>4, <3>2
      <4> QED BY <1>2, <3>2, <4>1, <4>2 DEF JobOK, JobId
    <3> QED BY <1>7, <3>1, <3>2
  <2>2. ASSUME NEW i \in 1..Len(queue'), NEW j \in 1..Len(queue'),
               JobId(queue'[i]) = JobId(queue'[j])
        PROVE  i = j
    BY <1>2, <1>4, <2>1, <2>2 DEF Inv, Callbacks
  <2> QED BY <2>1, <2>2 DEF Callbacks, JobId, JobOK
<1> QED BY <1>1, <1>6, <1>8, <1>9 DEF Inv

LEMMA RequestInv ==
  ASSUME Inv, NEW r \in Request, Serve(r) \/ Settle(r)
  PROVE  Inv'
<1>1. req \in [Request -> Call] /\ req[r] \in Call /\ CallOK(r)
  BY DEF Inv, TypeOK, Calls
<1>2. CASE Arrive(r)
  <2> DEFINE t == r \in Scoped
             c == [req[r] EXCEPT !.at = "guard", !.timed = t]
  <2>0. t \in BOOLEAN
    OBVIOUS
  <2>2. req' = [req EXCEPT ![r] = c] /\ req[r].at = "idle"
    BY <1>2 DEF Arrive
  <2> HIDE DEF t
  <2>1. c \in Call /\ c.at = "guard"
    BY <1>1, <2>0 DEF Call, Stage
  <2> HIDE DEF c
  <2>3. Moves(r, c) /\ UNCHANGED queue
    BY <1>2, <2>1, <2>2 DEF Arrive, Moves
  <2> QED BY <2>1, <2>3, QuietStep
<1>3. CASE Pass(r)
  <2> DEFINE t == req[r].timed \/ r \notin Quiet
             c == [req[r] EXCEPT !.at = "handling", !.timed = t]
  <2>0. t \in BOOLEAN /\ (r \notin Quiet => t)
    OBVIOUS
  <2>2. req' = [req EXCEPT ![r] = c] /\ req[r].at = "guard"
        /\ (r \in Guarded => req[r].token = "good")
    BY <1>3 DEF Pass
  <2> HIDE DEF t
  <2>1. c \in Call /\ c.at = "handling" /\ c.token = req[r].token
        /\ (r \notin Quiet => c.timed)
    BY <1>1, <2>0 DEF Call, Stage
  <2> HIDE DEF c
  <2>3. Moves(r, c) /\ UNCHANGED queue
    BY <1>3, <2>1, <2>2 DEF Pass, Moves
  <2> QED BY <2>1, <2>3, QuietStep
<1>4. CASE Return(r)
  <2> DEFINE c == [req[r] EXCEPT !.at = "replying"]
  <2>1. c \in Call /\ c.at = "replying" /\ c.token = req[r].token /\ c.timed = req[r].timed
    BY <1>1 DEF Call, Stage
  <2>2. req' = [req EXCEPT ![r] = c] /\ req[r].at = "handling"
    BY <1>4 DEF Return
  <2> HIDE DEF c
  <2>3. (r \notin Quiet => c.timed) /\ (r \in Guarded => c.token = "good")
    BY <1>1, <2>1, <2>2 DEF CallOK
  <2>4. Moves(r, c)
    BY <1>4, <2>1, <2>2, <2>3 DEF Return, Moves
  <2>5. CASE r \in Quiet
    BY <1>4, <2>1, <2>4, <2>5, QuietStep DEF Return
  <2>6. CASE r \notin Quiet
    <3> DEFINE id == [of |-> r, success |-> TRUE]
    <3>1. id \in Id /\ id.of = r /\ id.success
      BY DEF Id
    <3>2. Defer([step |-> "dispatch", id |-> id])
      BY <1>4, <2>6 DEF Return
    <3> HIDE DEF id
    <3>3. req'[r] = c
      BY <1>1, <2>2
    <3>4. Open(id) /\ ~Open(id)'
      BY <2>1, <2>2, <3>1, <3>3 DEF Open
    <3>5. Coming(id)'
      BY <2>1, <2>3, <2>6, <3>1, <3>3 DEF Coming
    <3> QED BY <2>1, <2>4, <3>1, <3>2, <3>4, <3>5, HandInStep
  <2> QED BY <2>5, <2>6
<1>5. CASE Reply(r)
  <2> DEFINE c == [req[r] EXCEPT !.at = "done", !.sent = "ok"]
  <2>1. /\ c \in Call /\ c.at = "done" /\ c.sent = "ok"
        /\ c.token = req[r].token /\ c.timed = req[r].timed
    BY <1>1 DEF Call, Stage, Answer
  <2>2. req' = [req EXCEPT ![r] = c] /\ req[r].at = "replying"
    BY <1>5 DEF Reply
  <2> HIDE DEF c
  <2>3. Moves(r, c) /\ UNCHANGED queue
    BY <1>5, <2>1, <2>2 DEF Reply, Moves
  <2> QED BY <2>1, <2>3, QuietStep
<1>6. CASE Throw(r) \/ ReplyThrows(r)
  <2> DEFINE c == [req[r] EXCEPT !.at = "done", !.sent = "error"]
             id == [of |-> r, success |-> FALSE]
  <2>1. /\ c \in Call /\ c.at = "done" /\ c.sent = "error"
        /\ c.token = req[r].token /\ c.timed = req[r].timed
    BY <1>1 DEF Call, Stage, Answer
  <2>2. id \in Id /\ id.of = r /\ ~id.success
    BY DEF Id
  <2>3. req' = [req EXCEPT ![r] = c] /\ Defer([step |-> "dispatch", id |-> id])
    BY <1>6 DEF Throw, ReplyThrows, Catch
  <2>4. \/ req[r].at \in {"guard", "handling"}
        \/ req[r].at = "replying" /\ r \in thrown'
    BY <1>6 DEF Throw, ReplyThrows
  <2>5. /\ thrown' = thrown \/ thrown' = thrown \cup {r}
        /\ UNCHANGED <<logVars, lost, stops>>
    BY <1>6 DEF Throw, ReplyThrows
  <2> HIDE DEF c, id
  <2>6. Moves(r, c)
    BY <2>1, <2>3, <2>4, <2>5 DEF Moves
  <2>7. req'[r] = c
    BY <1>1, <2>3
  <2>8. Open(id) /\ ~Open(id)'
    BY <2>1, <2>2, <2>4, <2>7 DEF Open
  <2>9. Coming(id)'
    BY <2>1, <2>2, <2>7 DEF Coming
  <2> QED BY <2>1, <2>2, <2>3, <2>6, <2>8, <2>9, HandInStep
<1> QED BY <1>2, <1>3, <1>4, <1>5, <1>6 DEF Serve, Settle

-----------------------------------------------------------------------------
(* Callbacks *)

\* What is left in the queue when its first callback is taken.
LEMMA Taken ==
  ASSUME Inv, queue # <<>>
  PROVE  /\ Head(queue) \in Job /\ JobId(Head(queue)) \in Id
         /\ JobOK(Head(queue)) /\ Fresh(JobId(Head(queue))) /\ ~Open(JobId(Head(queue)))
         /\ Tail(queue) \in Seq(Job) /\ Len(Tail(queue)) \in Nat
         /\ \A i \in 1..Len(Tail(queue)) :
              /\ Tail(queue)[i] \in Job
              /\ JobOK(Tail(queue)[i]) /\ Fresh(JobId(Tail(queue)[i]))
              /\ JobId(Tail(queue)[i]) # JobId(Head(queue))
              /\ \A j \in 1..Len(Tail(queue)) :
                   JobId(Tail(queue)[i]) = JobId(Tail(queue)[j]) => i = j
              /\ \A id \in Id : Open(id) => JobId(Tail(queue)[i]) # id
<1>1. /\ Tail(queue) \in Seq(Job) /\ Len(Tail(queue)) = Len(queue) - 1
      /\ Head(queue) = queue[1] /\ Head(queue) \in Job /\ Len(queue) \in Nat \ {0}
      /\ \A i \in 1..Len(Tail(queue)) : Tail(queue)[i] = queue[i + 1]
  BY Shifted DEF Inv, TypeOK
<1>2. 1 \in 1..Len(queue) /\ \A i \in 1..Len(Tail(queue)) : i + 1 \in 1..Len(queue) /\ i + 1 # 1
  BY <1>1
<1>3. JobOK(queue[1]) /\ Fresh(JobId(queue[1])) /\ JobId(queue[1]) \in Id
      /\ ~Open(JobId(queue[1]))
  BY <1>2, QueueType DEF Inv, Callbacks, Unopened
<1>4. ASSUME NEW i \in 1..Len(Tail(queue))
      PROVE  /\ Tail(queue)[i] \in Job
             /\ JobOK(Tail(queue)[i]) /\ Fresh(JobId(Tail(queue)[i]))
             /\ JobId(Tail(queue)[i]) # JobId(Head(queue))
             /\ \A id \in Id : Open(id) => JobId(Tail(queue)[i]) # id
  <2>1. Tail(queue)[i] = queue[i + 1] /\ i + 1 \in 1..Len(queue)
    BY <1>1, <1>2
  <2> QED BY <1>1, <1>2, <2>1, QueueType DEF Inv, Callbacks, Unopened
<1>5. ASSUME NEW i \in 1..Len(Tail(queue)), NEW j \in 1..Len(Tail(queue)),
             JobId(Tail(queue)[i]) = JobId(Tail(queue)[j])
      PROVE  i = j
  <2>1. i + 1 = j + 1
    BY <1>1, <1>2, <1>5 DEF Inv, Callbacks
  <2> QED BY <2>1
<1> QED BY <1>1, <1>3, <1>4, <1>5

\* The entry that is built for a callback whose answer is known.
LEMMA BuiltType ==
  ASSUME Inv, NEW id \in Id, Coming(id), req[id.of].at = "done"
  PROVE  Built(id) \in Entry /\ Built(id).id = id /\ EntryOK(Built(id))
<1>1. id.of \in Request /\ req[id.of] \in Call
  BY DEF Inv, TypeOK, Id
<1> DEFINE n == req[id.of].token # "none"
<1>2. n \in BOOLEAN /\ (req[id.of].token = "good" => n)
  OBVIOUS
<1>3. Built(id) = [id |-> id, status |-> req[id.of].sent, timed |-> req[id.of].timed, named |-> n]
  BY DEF Built
<1> HIDE DEF n
<1>4. Built(id) \in Entry /\ Built(id).id = id
  BY <1>1, <1>2, <1>3 DEF Entry, Call
<1>5. /\ Built(id).status = req[id.of].sent
      /\ Built(id).timed = req[id.of].timed /\ Built(id).named = n
  BY <1>3
<1> QED BY <1>2, <1>4, <1>5 DEF EntryOK, Coming

LEMMA DispatchInv ==
  ASSUME Inv, Dispatch
  PROVE  Inv'
<1> DEFINE t == Tail(queue)
           id == Head(queue).id
           job == [step |-> "persist", entry |-> Built(id)]
<1>1. /\ queue # <<>> /\ Head(queue).step = "dispatch" /\ LoopFree
      /\ queue' = Append(t, job)
      /\ UNCHANGED <<req, logVars, lost, thrown, stops>>
  BY DEF Dispatch
<1>2. id \in Id /\ JobId(Head(queue)) = id /\ Coming(id)
  BY <1>1, Taken, JobType DEF JobOK, JobId
<1>3. req[id.of].at = "done"
  BY <1>1, <1>2 DEF LoopFree, Coming, Id
<1>4. job \in Job /\ JobId(job) = id /\ JobOK(job)
  BY <1>2, <1>3, BuiltType DEF Job, JobId, JobOK
<1>5. /\ t \in Seq(Job) /\ Len(t) \in Nat /\ Fresh(id) /\ ~Open(id)
      /\ \A i \in 1..Len(t) :
           /\ JobOK(t[i]) /\ Fresh(JobId(t[i])) /\ JobId(t[i]) # id
           /\ \A j \in 1..Len(t) : JobId(t[i]) = JobId(t[j]) => i = j
           /\ \A x \in Id : Open(x) => JobId(t[i]) # x
  BY <1>1, <1>2, Taken
<1> HIDE DEF t, id, job
<1>6. /\ queue' \in Seq(Job) /\ Len(queue') = Len(t) + 1
      /\ \A i \in 1..Len(t) : queue'[i] = t[i]
      /\ queue'[Len(t) + 1] = job
  BY <1>1, <1>4, <1>5, Appended
<1>7. /\ \A x : Open(x)' <=> Open(x)
      /\ \A x : Fresh(x)' <=> Fresh(x)
      /\ \A x : NoRow(x)' <=> NoRow(x)
      /\ \A e : EntryOK(e)' <=> EntryOK(e)
      /\ \A x : Coming(x)' <=> Coming(x)
  BY <1>1 DEF logVars, Open, Fresh, NoRow, EntryOK, Coming
<1>8. ASSUME NEW i \in 1..Len(queue')
      PROVE  i \in 1..Len(t) \/ i = Len(t) + 1
  BY <1>5, <1>6
<1>9. Unopened'
  <2> SUFFICES ASSUME NEW x \in Id, Open(x)'
               PROVE  Fresh(x)' /\ \A i \in 1..Len(queue') : JobId(queue'[i]) # x
    BY DEF Unopened, JobId
  <2>1. Open(x) /\ x # id
    BY <1>5, <1>7
  <2>2. Fresh(x) /\ \A i \in 1..Len(t) : JobId(t[i]) # x
    BY <1>5, <2>1 DEF Inv, Unopened
  <2> QED BY <1>4, <1>6, <1>7, <1>8, <2>1, <2>2
<1>10. Callbacks'
  <2>1. ASSUME NEW i \in 1..Len(queue')
        PROVE  JobOK(queue[i])' /\ Fresh(JobId(queue[i]))'
    <3>1. CASE i \in 1..Len(t)
      <4>1. PICK j \in Job : j = t[i]
        BY <1>5, <3>1, ElementOfSeq
      <4>2. JobOK(j)' /\ Fresh(JobId(j))'
        BY <1>5, <1>7, <3>1, <4>1 DEF JobOK
      <4>3. queue'[i] = j
        BY <1>6, <3>1, <4>1
      <4> QED BY <4>2, <4>3 DEF JobOK, JobId
    <3>2. CASE i = Len(t) + 1
      <4>1. PICK j \in Job : j = job
        BY <1>4
      <4>2. JobOK(j)' /\ Fresh(JobId(j))'
        BY <1>4, <1>5, <1>7, <4>1 DEF JobOK
      <4>3. queue'[i] = j
        BY <1>6, <3>2, <4>1
      <4> QED BY <4>2, <4>3 DEF JobOK, JobId
    <3> QED BY <1>8, <3>1, <3>2
  <2>2. ASSUME NEW i \in 1..Len(queue'), NEW j \in 1..Len(queue'),
               JobId(queue'[i]) = JobId(queue'[j])
        PROVE  i = j
    BY <1>4, <1>5, <1>6, <1>8, <2>2
  <2> QED BY <2>1, <2>2 DEF Callbacks, JobId, JobOK
<1>11. TypeOK' /\ Calls' /\ Attempts' /\ Rows' /\ GivenUp'
  BY <1>1, <1>6, <1>7 DEF logVars, Inv, TypeOK, Calls, CallOK, Attempts, AttemptOK, Rows, GivenUp
<1> QED BY <1>9, <1>10, <1>11 DEF Inv

LEMMA TakeInv ==
  ASSUME Inv, DispatchThrows \/ Persist
  PROVE  Inv'
<1> DEFINE t == Tail(queue)
<1>1. /\ queue # <<>> /\ LoopFree /\ queue' = t
      /\ UNCHANGED <<req, logs, dropped, unsure, failures, thrown, stops>>
  BY DEF DispatchThrows, Persist, logVars
<1>2. PICK first \in Job : first = Head(queue)
  BY <1>1, Taken
<1>3. /\ t \in Seq(Job) /\ JobOK(first) /\ Fresh(JobId(first)) /\ JobId(first) \in Id
      /\ ~Open(JobId(first))
      /\ \A i \in 1..Len(t) :
           /\ t[i] \in Job
           /\ JobOK(t[i]) /\ Fresh(JobId(t[i])) /\ JobId(t[i]) # JobId(first)
           /\ \A j \in 1..Len(t) : JobId(t[i]) = JobId(t[j]) => i = j
           /\ \A x \in Id : Open(x) => JobId(t[i]) # x
  BY <1>1, <1>2, Taken
<1>4. lost' \subseteq Id
  BY <1>2, JobType DEF DispatchThrows, Persist, Inv, TypeOK
<1> HIDE DEF t
<1>5. /\ \A x : Open(x)' <=> Open(x)
      /\ \A x : NoRow(x)' <=> NoRow(x)
      /\ \A e : EntryOK(e)' <=> EntryOK(e)
      /\ \A x : Coming(x)' <=> Coming(x)
  BY <1>1 DEF Open, NoRow, EntryOK, Coming
<1>6. /\ attempts' \subseteq Attempt /\ Attempts'
      /\ \A x \in Id : Fresh(x) /\ x # JobId(first) => Fresh(x)'
  <2>1. CASE attempts' = attempts
    BY <1>1, <1>5, <2>1 DEF Inv, TypeOK, Attempts, AttemptOK, Fresh
  <2>2. CASE Persist
    <3>1. first.step = "persist" /\ first.entry \in Entry /\ first.entry.id = JobId(first)
      BY <1>2, <2>2, JobType DEF Persist, JobId
    <3>2. PICK a \in Attempt :
            a.entry = first.entry /\ a.n = 1 /\ attempts' = attempts \cup {a}
      <4> DEFINE a == [entry |-> first.entry, n |-> 1, waits |-> FALSE]
      <4>1. a \in Attempt /\ a.entry = first.entry /\ a.n = 1
        BY <3>1, RequestLogAssumption DEF Attempt
      <4>2. attempts' = attempts \cup {a}
        BY <1>2, <2>2 DEF Persist
      <4> HIDE DEF a
      <4> QED BY <4>1, <4>2
    <3>3. AttemptOK(a)'
      BY <1>1, <1>3, <1>5, <3>1, <3>2 DEF AttemptOK, Fresh, JobOK
    <3>4. \A b \in attempts : b.entry.id # a.entry.id
      BY <1>3, <3>1, <3>2 DEF Fresh
    <3>5. \A b \in attempts : AttemptOK(b)'
      BY <1>1, <1>5 DEF Inv, Attempts, AttemptOK
    <3>6. Attempts'
      BY <3>2, <3>3, <3>4, <3>5 DEF Inv, Attempts
    <3>7. \A x \in Id : Fresh(x) /\ x # JobId(first) => Fresh(x)'
      BY <1>1, <1>5, <3>1, <3>2 DEF Fresh
    <3> QED BY <3>2, <3>6, <3>7 DEF Inv, TypeOK
  <2> QED BY <2>1, <2>2 DEF DispatchThrows, logVars
<1>7. Unopened'
  <2> SUFFICES ASSUME NEW x \in Id, Open(x)'
               PROVE  Fresh(x)' /\ \A i \in 1..Len(queue') : JobId(queue'[i]) # x
    BY DEF Unopened, JobId
  <2> QED BY <1>1, <1>3, <1>5, <1>6 DEF Inv, Unopened
<1>8. Callbacks'
  <2>1. ASSUME NEW i \in 1..Len(queue')
        PROVE  JobOK(queue[i])' /\ Fresh(JobId(queue[i]))'
    <3>1. PICK j \in Job : j = t[i]
      BY <1>1, <1>3
    <3>2. JobOK(j)' /\ Fresh(JobId(j))'
      BY <1>1, <1>3, <1>5, <1>6, <3>1, JobType DEF JobOK
    <3> QED BY <1>1, <3>1, <3>2 DEF JobOK, JobId
  <2> QED BY <1>1, <1>3, <2>1 DEF Callbacks, JobId, JobOK
<1>9. TypeOK' /\ Calls' /\ Rows' /\ GivenUp'
  BY <1>1, <1>3, <1>4, <1>5, <1>6 DEF Inv, TypeOK, Calls, CallOK, Rows, GivenUp
<1> QED BY <1>6, <1>7, <1>8, <1>9 DEF Inv

-----------------------------------------------------------------------------
(* Attempts *)

\* An attempt goes on as b, or is over; it may leave a row behind.
LEMMA AttemptStep ==
  ASSUME Inv, NEW a \in attempts, NEW id \in Id, id = a.entry.id,
         UNCHANGED <<req, queue, lost, thrown, stops>>,
         NEW b \in Attempt, b.entry = a.entry,
         \/ attempts' = attempts \ {a}
         \/ /\ attempts' = (attempts \ {a}) \cup {b} /\ failures'[id] = b.n - 1
            /\ dropped' = dropped /\ (id \notin unsure' => NoRow(id)'),
         NEW row \in Row, row.entry = a.entry, logs' = logs \/ logs' = logs \cup {row},
         \/ dropped' = dropped
         \/ /\ dropped' = dropped \cup {id} /\ failures'[id] = MaxRetries
            /\ id \notin unsure' => NoRow(id)',
         failures' \in [Id -> 0..MaxRetries],
         \A x \in Id \ {id} : failures'[x] = failures[x],
         unsure' = unsure \/ unsure' = unsure \cup {id}
  PROVE  Inv'
<1>1. /\ AttemptOK(a) /\ a.entry \in Entry /\ a \in Attempt
      /\ \A c \in attempts \ {a} : c.entry.id # id /\ c.entry.id \in Id
  BY DEF Inv, TypeOK, Attempts, Attempt, Entry
<1>2. /\ \A x : Open(x)' <=> Open(x)
      /\ \A e : EntryOK(e)' <=> EntryOK(e)
      /\ \A x : Coming(x)' <=> Coming(x)
  BY DEF Open, EntryOK, Coming
<1>3. \A x : JobOK(x)' <=> JobOK(x)
  BY <1>2 DEF JobOK
<1>4. ASSUME NEW x \in Id \ {id}
      PROVE  (NoRow(x) => NoRow(x)') /\ (Fresh(x) => Fresh(x)')
  <2>1. NoRow(x) => NoRow(x)'
    BY DEF NoRow
  <2> QED BY <2>1 DEF Fresh
<1>5. ~Fresh(id)
  BY DEF Fresh
<1>6. Unopened'
  BY <1>2, <1>4, <1>5 DEF Inv, Unopened
<1>7. Callbacks'
  BY <1>3, <1>4, <1>5, QueueType DEF Inv, Callbacks
<1>8. Attempts'
  <2>1. ASSUME NEW c \in attempts \ {a} PROVE AttemptOK(c)'
    BY <1>1, <1>2, <1>4 DEF Inv, Attempts, AttemptOK
  <2>2. attempts' = (attempts \ {a}) \cup {b} => AttemptOK(b)'
    BY <1>1, <1>2 DEF AttemptOK
  <2> QED BY <1>1, <2>1, <2>2 DEF Inv, Attempts
<1>9. Rows'
  <2>1. \A x \in logs' : EntryOK(x.entry)'
    BY <1>1, <1>2 DEF Inv, Rows, AttemptOK
  <2>2. id \notin unsure => NoRow(id)
    BY <1>1 DEF AttemptOK
  <2> QED BY <2>1, <2>2 DEF Inv, Rows, NoRow
<1>10. GivenUp'
  <2> SUFFICES ASSUME NEW x \in dropped'
               PROVE  failures'[x] = MaxRetries /\ (x \notin unsure' => NoRow(x)')
    BY DEF GivenUp
  <2>1. x \in Id
    BY DEF Inv, TypeOK
  <2>2. CASE x = id
    BY <1>1, <2>2 DEF AttemptOK
  <2>3. CASE x # id
    BY <1>4, <2>1, <2>3 DEF Inv, GivenUp
  <2> QED BY <2>2, <2>3
<1>11. TypeOK' /\ Calls'
  BY DEF Inv, TypeOK, Calls, CallOK
<1> QED BY <1>6, <1>7, <1>8, <1>9, <1>10, <1>11 DEF Inv

LEMMA AttemptInv ==
  ASSUME Inv, NEW a \in attempts, RunAttempt(a)
  PROVE  Inv'
<1>1. PICK id \in Id : id = a.entry.id
  BY DEF Inv, TypeOK, Attempt, Entry
<1>2. /\ a \in Attempt /\ a.n \in 1..MaxRetries /\ MaxRetries \in Nat \ {0}
      /\ failures[id] = a.n - 1 /\ (id \notin unsure => NoRow(id))
      /\ failures \in [Id -> 0..MaxRetries]
      /\ UNCHANGED <<req, queue, lost, thrown, stops>>
  BY <1>1, RequestLogAssumption
     DEF Inv, TypeOK, Attempt, Attempts, AttemptOK, RunAttempt, Retry, Stored, Rejected,
         Unconfirmed
<1>3. PICK row \in Row : row = [entry |-> a.entry, by |-> a.n]
  BY <1>2 DEF Row, Attempt
<1>4. row.entry = a.entry
  BY <1>3
<1>5. CASE Retry(a)
  <2> DEFINE b == [a EXCEPT !.waits = FALSE]
  <2>1. b \in Attempt /\ b.entry = a.entry /\ b.n = a.n
    BY <1>2 DEF Attempt
  <2>2. attempts' = (attempts \ {a}) \cup {b} /\ UNCHANGED <<logs, dropped, unsure, failures>>
    BY <1>5 DEF Retry
  <2> HIDE DEF b
  <2>3. id \notin unsure' => NoRow(id)'
    BY <1>2, <2>2 DEF NoRow
  <2>4. failures'[id] = b.n - 1
    BY <1>2, <2>1, <2>2
  <2> QED BY <1>1, <1>2, <1>4, <2>1, <2>2, <2>3, <2>4, AttemptStep
<1>6. CASE Stored(a)
  <2>1. /\ attempts' = attempts \ {a} /\ logs' = logs \cup {row}
        /\ UNCHANGED <<dropped, unsure, failures>>
    BY <1>3, <1>6 DEF Stored
  <2> QED BY <1>1, <1>2, <1>4, <2>1, AttemptStep
<1>7. CASE Rejected(a) \/ Unconfirmed(a)
  <2>1. /\ failures' = [failures EXCEPT ![id] = @ + 1]
        /\ \/ logs' = logs /\ unsure' = unsure
           \/ logs' = logs \cup {row} /\ unsure' = unsure \cup {id}
        /\ HandlePersistError(a)
    BY <1>1, <1>3, <1>7 DEF Rejected, Unconfirmed
  <2>2. /\ failures'[id] = a.n /\ failures' \in [Id -> 0..MaxRetries]
        /\ \A x \in Id \ {id} : failures'[x] = failures[x]
    BY <1>2, <2>1
  <2>3. id \notin unsure' => NoRow(id)'
    BY <1>2, <2>1 DEF NoRow
  <2>4. CASE a.n < MaxRetries
    <3> DEFINE n == a.n + 1
               b == [a EXCEPT !.n = n, !.waits = TRUE]
    <3>0. n \in 1..MaxRetries
      BY <1>2, <2>4
    <3>2. attempts' = (attempts \ {a}) \cup {b} /\ dropped' = dropped
      BY <2>1, <2>4 DEF HandlePersistError
    <3> HIDE DEF n
    <3>1. b \in Attempt /\ b.entry = a.entry /\ b.n = n
      BY <1>2, <3>0 DEF Attempt
    <3> HIDE DEF b
    <3>3. failures'[id] = b.n - 1
      BY <1>2, <2>2, <3>1 DEF n
    <3> QED BY <1>1, <1>2, <1>4, <2>1, <2>2, <2>3, <3>1, <3>2, <3>3, AttemptStep
  <2>5. CASE ~(a.n < MaxRetries)
    <3>1. attempts' = attempts \ {a} /\ dropped' = dropped \cup {id}
      BY <1>1, <2>1, <2>5 DEF HandlePersistError
    <3>2. failures'[id] = MaxRetries
      BY <1>2, <2>2, <2>5
    <3> QED BY <1>1, <1>2, <1>4, <2>1, <2>2, <2>3, <3>1, <3>2, AttemptStep
  <2> QED BY <2>4, <2>5
<1> QED BY <1>5, <1>6, <1>7 DEF RunAttempt

-----------------------------------------------------------------------------
(* A stop, and all steps *)

LEMMA StopInv ==
  ASSUME Inv, Stop
  PROVE  Inv'
<1>1. /\ queue' = <<>> /\ attempts' = {} /\ stops' = stops + 1 /\ stops < MaxStops
      /\ UNCHANGED <<logs, dropped, unsure, failures, thrown>>
  BY DEF Stop
<1>2. queue' \in Seq(Job) /\ Len(queue') = 0
  BY <1>1, EmptySeq
<1>3. InMemory \subseteq Id
  <2>1. \A i \in DOMAIN queue : queue[i] \in Job
    BY DEF Inv, TypeOK
  <2>2. \A a \in attempts : a.entry.id \in Id
    BY DEF Inv, TypeOK, Attempt, Entry
  <2> QED BY <2>1, <2>2, JobType DEF InMemory, Entry
<1>4. ASSUME NEW r \in Request
      PROVE  /\ req'[r] \in Call
             /\ req[r].at = "idle" => req'[r] = req[r]
             /\ req[r].at = "done" => req'[r] = req[r]
             /\ req'[r].at \in {"idle", "done"}
             /\ req'[r].at = "idle" => req[r].at = "idle"
  <2>1. req[r] \in Call
    BY DEF Inv, TypeOK
  <2>2. CASE req[r].at = "idle"
    BY <2>1, <2>2 DEF Stop
  <2>3. CASE req[r].at # "idle"
    <3>1. req'[r] = [req[r] EXCEPT !.at = "done"]
      BY <2>3 DEF Stop
    <3> QED BY <2>1, <2>3, <3>1 DEF Call, Stage
  <2> QED BY <2>2, <2>3
<1>5. req' \in [Request -> Call]
  BY <1>4 DEF Stop
<1>6. \A e \in Entry : EntryOK(e) => EntryOK(e)'
  BY <1>1, <1>4, EntryKept
<1>7. TypeOK'
  <2>1. MaxStops \in Nat
    BY RequestLogAssumption
  <2>2. lost' \subseteq Id
    BY <1>3 DEF Stop, Inv, TypeOK
  <2> QED BY <1>1, <1>2, <1>5, <2>1, <2>2 DEF Inv, TypeOK
<1>8. Calls'
  BY <1>4 DEF Calls, CallOK
<1>9. Unopened'
  <2> SUFFICES ASSUME NEW x \in Id, Open(x)' PROVE Fresh(x)'
    BY <1>2 DEF Unopened
  <2>1. x.of \in Request
    BY DEF Id
  <2>2. Open(x)
    BY <1>4, <2>1 DEF Open
  <2>3. Fresh(x)
    BY <2>2 DEF Inv, Unopened
  <2> QED BY <1>1, <2>3 DEF Fresh, NoRow
<1>10. Callbacks' /\ Attempts'
  BY <1>1, <1>2 DEF Callbacks, Attempts
<1>11. Rows' /\ GivenUp'
  <2>1. \A row \in logs : row.entry \in Entry
    BY DEF Inv, TypeOK, Row
  <2> QED BY <1>1, <1>6, <2>1 DEF Inv, Rows, GivenUp, NoRow
<1> QED BY <1>7, <1>8, <1>9, <1>10, <1>11 DEF Inv

\* Every step keeps the invariant.
LEMMA NextInv == Inv /\ [Next]_vars => Inv'
<1> SUFFICES ASSUME Inv, [Next]_vars PROVE Inv' OBVIOUS
<1>1. CASE UNCHANGED vars
  <2>1. TypeOK' /\ Calls' /\ Rows' /\ GivenUp'
    BY <1>1 DEF vars, Inv, TypeOK, Calls, CallOK, EntryOK, NoRow, Rows, GivenUp
  <2>2. Unopened'
    <3>1. ASSUME NEW id \in Id, Open(id)'
          PROVE  (Fresh(id) /\ \A i \in 1..Len(queue) : JobId(queue[i]) # id)'
      <4>1. Open(id)
        BY <1>1, <3>1 DEF vars, Open
      <4>2. Fresh(id) /\ \A i \in 1..Len(queue) : JobId(queue[i]) # id
        BY <4>1 DEF Inv, Unopened
      <4> QED BY <1>1, <4>2 DEF vars, logVars, Fresh, NoRow, JobId
    <3> QED BY <3>1 DEF Unopened
  <2>3. Callbacks'
    BY <1>1 DEF vars, Inv, Callbacks, JobOK, JobId, Coming, EntryOK, Fresh, NoRow
  <2>4. Attempts'
    BY <1>1 DEF vars, Inv, Attempts, AttemptOK, EntryOK, NoRow
  <2> QED BY <2>1, <2>2, <2>3, <2>4 DEF Inv
<1>2. CASE RunCallback
  BY <1>2, DispatchInv, TakeInv DEF RunCallback
<1> QED BY <1>1, <1>2, RequestInv, AttemptInv, StopInv DEF Next

\* The invariant holds in every state.
THEOREM Invariance == Spec => []Inv
BY InitInv, NextInv, PTL DEF Spec

-----------------------------------------------------------------------------
(* Theorems *)

\* Calls, callbacks, attempts and rows keep their types: no attempt after MaxRetries.
THEOREM LogTypes == Spec => []TypeOK
<1>1. Inv => TypeOK
  BY DEF Inv
<1> QED BY <1>1, Invariance, PTL

\* A row says what the client was told, however its callbacks, retries and stops fell.
THEOREM RowsTellTheAnswer == Spec => []RowTellsAnswer
<1>1. Inv => RowTellsAnswer
  BY DEF Inv, Rows, EntryOK, RowTellsAnswer
<1> QED BY <1>1, Invariance, PTL

\* No entry is inserted twice unless a commit was not confirmed.
THEOREM OneRowPerEntry == Spec => []NoDuplicateRow
<1>1. ASSUME Inv PROVE NoDuplicateRow
  <2> SUFFICES ASSUME NEW id \in Id \ unsure PROVE Cardinality(RowsOf(id)) <= 1
    BY DEF NoDuplicateRow
  <2>1. \A x, y \in RowsOf(id) : x = y
    BY <1>1 DEF Inv, Rows, RowsOf
  <2>2. CASE RowsOf(id) = {}
    BY <2>2, FS_EmptySet
  <2>3. CASE RowsOf(id) # {}
    <3>1. PICK x : RowsOf(id) = {x}
      BY <2>1, <2>3
    <3> QED BY <3>1, FS_Singleton
  <2> QED BY <2>2, <2>3
<1> QED BY <1>1, Invariance, PTL

\* An entry is given up after MaxRetries failures and not before, and only if it is not
\* in the table, for all the process can know.
THEOREM GivenUpLast == Spec => []DroppedAfterRetries
<1>1. Inv => DroppedAfterRetries
  BY DEF Inv, GivenUp, NoRow, RowsOf, DroppedAfterRetries
<1> QED BY <1>1, Invariance, PTL

-----------------------------------------------------------------------------
(* No entry vanishes *)

\* An entry is in a callback or an attempt.
Pending(id) ==
  \/ \E i \in 1..Len(queue) : JobId(queue[i]) = id
  \/ \E a \in attempts : a.entry.id = id

LEMMA MemoryIsPending ==
  ASSUME TypeOK, NEW id \in Id PROVE id \in InMemory <=> Pending(id)
<1>1. queue \in Seq(Job) /\ DOMAIN queue = 1..Len(queue)
  BY LenProperties DEF TypeOK
<1>2. \A i \in 1..Len(queue) :
        JobId(queue[i]) = IF queue[i].step = "dispatch" THEN queue[i].id ELSE queue[i].entry.id
  BY DEF JobId
<1>3. \A i \in 1..Len(queue) : queue[i].step \in {"dispatch", "persist"}
  BY QueueType, JobType
<1> QED BY <1>1, <1>2, <1>3 DEF InMemory, Pending

\* An entry that was handed in goes on, or is told of.
LEMMA AccountedStays ==
  ASSUME Inv, Inv', [Next]_vars, NEW id \in Id, Accounted(id)
  PROVE  Accounted(id)'
<1>1. /\ id \in InMemory <=> Pending(id)
      /\ (id \in InMemory <=> Pending(id))'
  BY MemoryIsPending, PTL DEF Inv
<1>2. ASSUME logs \subseteq logs', dropped \subseteq dropped', lost \subseteq lost', Told(id)
      PROVE  Told(id)'
  BY <1>2 DEF Told, RowsOf
<1>3. ASSUME logs \subseteq logs', dropped \subseteq dropped', lost \subseteq lost',
             Pending(id) => Pending(id)' \/ Told(id)'
      PROVE  Accounted(id)'
  BY <1>1, <1>2, <1>3 DEF Accounted
<1>4. ASSUME UNCHANGED <<logVars, lost>>,
             \/ queue' = queue
             \/ \E job \in Job : queue' = Append(queue, job)
      PROVE  Accounted(id)'
  <2>1. \A i \in 1..Len(queue) : i \in 1..Len(queue') /\ queue'[i] = queue[i]
    <3>1. queue \in Seq(Job) /\ Len(queue) \in Nat
      BY LenProperties DEF Inv, TypeOK
    <3> QED BY <1>4, <3>1, Appended
  <2>2. Pending(id) => Pending(id)'
    BY <1>4, <2>1 DEF Pending, JobId, logVars
  <2> QED BY <1>3, <1>4, <2>2 DEF logVars
<1>5. ASSUME NEW r \in Request, Serve(r) \/ Settle(r) PROVE Accounted(id)'
  <2>1. ASSUME NEW success \in BOOLEAN
        PROVE  [step |-> "dispatch", id |-> [of |-> r, success |-> success]] \in Job
    BY DEF Job, Id
  <2> QED
    BY <1>4, <1>5, <2>1
       DEF Serve, Settle, Arrive, Pass, Throw, Return, Reply, ReplyThrows, Catch, Defer
<1>6. ASSUME RunCallback PROVE Accounted(id)'
  <2>1. /\ queue # <<>> /\ Head(queue) = queue[1] /\ Head(queue) \in Job
        /\ Tail(queue) \in Seq(Job) /\ Len(queue) \in Nat \ {0}
        /\ Len(Tail(queue)) = Len(queue) - 1
        /\ \A i \in 1..Len(Tail(queue)) : Tail(queue)[i] = queue[i + 1]
    BY <1>6, Shifted DEF RunCallback, Dispatch, DispatchThrows, Persist, Inv, TypeOK
  <2>2. ASSUME NEW i \in 1..Len(queue), i # 1
        PROVE  i - 1 \in 1..Len(Tail(queue)) /\ Tail(queue)[i - 1] = queue[i]
    BY <2>1, <2>2
  <2>3. CASE Dispatch
    <3> DEFINE job == [step |-> "persist", entry |-> Built(Head(queue).id)]
    <3>1. /\ queue' = Append(Tail(queue), job) /\ UNCHANGED <<logVars, lost>>
          /\ Head(queue).step = "dispatch" /\ LoopFree
      BY <2>3 DEF Dispatch
    <3>2. JobId(job) = JobId(queue[1])
      BY <2>1, <3>1 DEF JobId, Built
    <3>3. /\ Len(queue') = Len(Tail(queue)) + 1
          /\ \A i \in 1..Len(Tail(queue)) : queue'[i] = Tail(queue)[i]
          /\ queue'[Len(Tail(queue)) + 1] = job
      BY <2>1, <3>1, AppendProperties
    <3>4. ASSUME NEW i \in 1..Len(queue), JobId(queue[i]) = id PROVE Pending(id)'
      <4>1. CASE i = 1
        <5>1. Len(queue') \in 1..Len(queue') /\ queue'[Len(queue')] = job
          BY <2>1, <3>3
        <5> QED BY <3>2, <3>4, <4>1, <5>1 DEF Pending, JobId
      <4>2. CASE i # 1
        <5>1. i - 1 \in 1..Len(queue') /\ queue'[i - 1] = queue[i]
          BY <2>1, <2>2, <3>3, <4>2
        <5> QED BY <3>4, <5>1 DEF Pending, JobId
      <4> QED BY <4>1, <4>2
    <3>5. Pending(id) => Pending(id)'
      BY <3>1, <3>4 DEF Pending, logVars
    <3> QED BY <1>3, <3>1, <3>5 DEF logVars
  <2>4. CASE DispatchThrows \/ Persist
    <3>1. /\ queue' = Tail(queue) /\ UNCHANGED <<logs, dropped>>
          /\ lost \subseteq lost' /\ attempts \subseteq attempts'
          /\ JobId(queue[1]) \in lost' \/ \E a \in attempts' : a.entry.id = JobId(queue[1])
      <4>1. CASE DispatchThrows
        <5>1. JobId(queue[1]) = Head(queue).id
          BY <2>1, <4>1 DEF DispatchThrows, JobId
        <5> QED BY <4>1, <5>1 DEF DispatchThrows, logVars
      <4>2. CASE Persist
        <5> DEFINE new == [entry |-> Head(queue).entry, n |-> 1, waits |-> FALSE]
        <5>1. JobId(queue[1]) = Head(queue).entry.id
          BY <2>1, <4>2 DEF Persist, JobId
        <5>2. new \in attempts' /\ new.entry = Head(queue).entry
          BY <4>2 DEF Persist
        <5>3. /\ queue' = Tail(queue) /\ UNCHANGED <<logs, dropped, lost>>
              /\ attempts \subseteq attempts'
          BY <4>2 DEF Persist
        <5> HIDE DEF new
        <5> QED BY <5>1, <5>2, <5>3
      <4> QED BY <2>4, <4>1, <4>2
    <3>2. ASSUME NEW i \in 1..Len(queue), JobId(queue[i]) = id PROVE Pending(id)' \/ Told(id)'
      <4>1. CASE i = 1
        BY <3>1, <3>2, <4>1 DEF Pending, Told
      <4>2. CASE i # 1
        <5>1. i - 1 \in 1..Len(queue') /\ queue'[i - 1] = queue[i]
          BY <2>2, <3>1, <4>2
        <5> QED BY <3>2, <5>1 DEF Pending, JobId
      <4> QED BY <4>1, <4>2
    <3>3. Pending(id) => Pending(id)' \/ Told(id)'
      BY <3>1, <3>2 DEF Pending
    <3> QED BY <1>3, <3>1, <3>3
  <2> QED BY <1>6, <2>3, <2>4 DEF RunCallback
<1>7. ASSUME NEW a \in attempts, RunAttempt(a) PROVE Accounted(id)'
  <2>1. /\ UNCHANGED <<queue, lost>> /\ logs \subseteq logs' /\ dropped \subseteq dropped'
        /\ attempts \ {a} \subseteq attempts'
    BY <1>7 DEF RunAttempt, Retry, Stored, Rejected, Unconfirmed, HandlePersistError
  <2>2. \/ \E b \in attempts' : b.entry = a.entry
        \/ \E row \in logs' : row.entry = a.entry
        \/ a.entry.id \in dropped'
    <3> DEFINE again == [a EXCEPT !.waits = FALSE]
               later == [a EXCEPT !.n = @ + 1, !.waits = TRUE]
               row == [entry |-> a.entry, by |-> a.n]
    <3>1. a \in Attempt
      BY DEF Inv, TypeOK
    <3>2. again.entry = a.entry /\ later.entry = a.entry /\ row.entry = a.entry
      BY <3>1 DEF Attempt
    <3>3. \/ again \in attempts'
          \/ later \in attempts'
          \/ row \in logs'
          \/ a.entry.id \in dropped'
      BY <1>7 DEF RunAttempt, Retry, Stored, Rejected, Unconfirmed, HandlePersistError
    <3> HIDE DEF again, later, row
    <3> QED BY <3>2, <3>3
  <2>3. Pending(id) => Pending(id)' \/ Told(id)'
    BY <2>1, <2>2 DEF Pending, Told, RowsOf, JobId
  <2> QED BY <1>3, <2>1, <2>3
<1>8. ASSUME Stop PROVE Accounted(id)'
  <2>1. lost' = lost \cup InMemory /\ UNCHANGED <<logs, dropped>>
    BY <1>8 DEF Stop
  <2> QED BY <2>1 DEF Accounted, Told, RowsOf
<1>9. CASE UNCHANGED vars
  BY <1>4, <1>9 DEF vars, logVars
<1> QED BY <1>5, <1>6, <1>7, <1>8, <1>9 DEF Next

\* The interceptor has handed in the entry of an answer that is on its way.
HandedIn ==
  \A r \in Request :
    req[r].at = "replying" /\ r \notin Quiet => Accounted([of |-> r, success |-> TRUE])

AllAccounted == NoEntryVanishes /\ HandedIn

\* What Defer hands in is in memory.
LEMMA DeferredIsPending ==
  ASSUME TypeOK, TypeOK', NEW id \in Id, Defer([step |-> "dispatch", id |-> id])
  PROVE  Accounted(id)'
<1> DEFINE job == [step |-> "dispatch", id |-> id]
<1>1. job \in Job /\ JobId(job) = id
  BY DEF Job, JobId
<1>2. Len(queue') \in 1..Len(queue') /\ queue'[Len(queue')] = job
  <2>1. queue \in Seq(Job) /\ queue' = Append(queue, job) /\ Len(queue) \in Nat
    BY LenProperties DEF TypeOK, Defer
  <2> QED BY <1>1, <2>1, Appended
<1> HIDE DEF job
<1>3. Pending(id)'
  BY <1>1, <1>2 DEF Pending, JobId
<1>4. (id \in InMemory <=> Pending(id))'
  BY MemoryIsPending, PTL
<1> QED BY <1>3, <1>4 DEF Accounted

LEMMA InitAccounted == Init => AllAccounted
<1> SUFFICES ASSUME Init PROVE AllAccounted OBVIOUS
<1>1. ASSUME NEW r \in Request PROVE req[r].at = "idle" /\ req[r].sent = "none"
  <2>1. PICK token \in Token : req[r] = NoCall(token)
    BY DEF Init
  <2> QED BY <2>1 DEF NoCall
<1> QED BY <1>1 DEF AllAccounted, NoEntryVanishes, HandedIn

LEMMA NextAccounted ==
  ASSUME Inv, Inv', AllAccounted, [Next]_vars PROVE AllAccounted'
<1> DEFINE good(r) == [of |-> r, success |-> TRUE]
           bad(r) == [of |-> r, success |-> FALSE]
<1>0. ASSUME NEW r \in Request PROVE good(r) \in Id /\ bad(r) \in Id /\ req[r] \in Call
  BY DEF Id, Inv, TypeOK
<1>1. ASSUME NEW id \in Id, Accounted(id) PROVE Accounted(id)'
  BY <1>1, AccountedStays
<1>2. SUFFICES ASSUME NEW r \in Request
               PROVE  /\ req'[r].sent = "ok" /\ r \notin Quiet => Accounted(good(r))'
                      /\ req'[r].sent = "error" => Accounted(bad(r))'
                      /\ req'[r].at = "replying" /\ r \notin Quiet => Accounted(good(r))'
  BY DEF AllAccounted, NoEntryVanishes, HandedIn
<1>3. /\ req[r].sent = "ok" /\ r \notin Quiet => Accounted(good(r))
      /\ req[r].sent = "error" => Accounted(bad(r))
      /\ req[r].at = "replying" /\ r \notin Quiet => Accounted(good(r))
  BY DEF AllAccounted, NoEntryVanishes, HandedIn
<1>4. ASSUME req'[r].sent = req[r].sent,
             req'[r].at = "replying" => req[r].at = "replying"
      PROVE  /\ req'[r].sent = "ok" /\ r \notin Quiet => Accounted(good(r))'
             /\ req'[r].sent = "error" => Accounted(bad(r))'
             /\ req'[r].at = "replying" /\ r \notin Quiet => Accounted(good(r))'
  BY <1>0, <1>1, <1>3, <1>4
<1>5. ASSUME NEW id \in Id, Defer([step |-> "dispatch", id |-> id]) PROVE Accounted(id)'
  BY <1>5, DeferredIsPending DEF Inv
<1>6. ASSUME NEW q \in Request, Serve(q) \/ Settle(q)
      PROVE  /\ req'[r].sent = "ok" /\ r \notin Quiet => Accounted(good(r))'
             /\ req'[r].sent = "error" => Accounted(bad(r))'
             /\ req'[r].at = "replying" /\ r \notin Quiet => Accounted(good(r))'
  <2>1. CASE r # q
    <3>1. req'[r] = req[r]
      BY <1>6, <2>1
         DEF Serve, Settle, Arrive, Pass, Throw, Return, Reply, ReplyThrows, Catch, Inv, TypeOK
    <3> QED BY <1>4, <3>1
  <2>2. CASE r = q /\ (Arrive(q) \/ Pass(q))
    <3>1. req'[r].sent = req[r].sent /\ req'[r].at # "replying"
      BY <1>0, <2>2 DEF Arrive, Pass, Inv, TypeOK, Call
    <3> QED BY <1>4, <3>1
  <2>3. CASE r = q /\ (Throw(q) \/ ReplyThrows(q))
    <3>1. Catch(r)
      BY <2>3 DEF Throw, ReplyThrows
    <3>2. /\ req'[r].sent = "error" /\ req'[r].at = "done"
          /\ Defer([step |-> "dispatch", id |-> bad(r)])
      BY <1>0, <3>1 DEF Catch, Inv, TypeOK, Call
    <3>3. Accounted(bad(r))'
      BY <1>0, <1>5, <3>2
    <3> QED BY <3>2, <3>3
  <2>4. CASE r = q /\ Return(q)
    <3>1. req'[r].sent = req[r].sent
      BY <1>0, <2>4 DEF Return, Inv, TypeOK, Call
    <3>2. r \notin Quiet => Defer([step |-> "dispatch", id |-> good(r)])
      BY <2>4 DEF Return
    <3>3. r \notin Quiet => Accounted(good(r))'
      BY <1>0, <1>5, <3>2
    <3> QED BY <1>0, <1>1, <1>3, <3>1, <3>3
  <2>5. CASE r = q /\ Reply(q)
    <3>1. req[r].at = "replying" /\ req'[r].sent = "ok" /\ req'[r].at = "done"
      BY <1>0, <2>5 DEF Reply, Inv, TypeOK, Call
    <3> QED BY <1>0, <1>1, <1>3, <3>1
  <2> QED BY <1>6, <2>1, <2>2, <2>3, <2>4, <2>5 DEF Serve, Settle
<1>7. CASE RunCallback \/ (\E a \in attempts : RunAttempt(a)) \/ UNCHANGED vars
  <2>1. req' = req
    BY <1>7 DEF RunCallback, Dispatch, DispatchThrows, Persist, RunAttempt, Retry, Stored,
                Rejected, Unconfirmed, vars
  <2> QED BY <1>4, <2>1
<1>8. CASE Stop
  <2>1. req'[r].sent = req[r].sent /\ req'[r].at # "replying"
    BY <1>0, <1>8 DEF Stop, Call
  <2> QED BY <1>4, <2>1
<1> QED BY <1>6, <1>7, <1>8 DEF Next

\* No entry vanishes: what the interceptor or the filter defers is in a callback or an
\* attempt until it is a row, or is told of as dropped or lost.
THEOREM EntriesAccountedFor == Spec => []NoEntryVanishes
<1>1. Inv /\ Inv' /\ AllAccounted /\ [Next]_vars => AllAccounted'
  BY NextAccounted
<1>2. AllAccounted => NoEntryVanishes
  BY DEF AllAccounted
<1> QED BY <1>1, <1>2, InitAccounted, Invariance, PTL DEF Spec
=============================================================================
