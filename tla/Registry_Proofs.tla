---------------------------- MODULE Registry_Proofs ----------------------------
(***************************************************************************)
(* What the look-ups of Registry are worth, for any number of rows, values *)
(* and requests: a value whose requests followed each other is on one live *)
(* row of its table at most, and one with an index always is.              *)
(***************************************************************************)
EXTENDS Registry, TLAPS

-----------------------------------------------------------------------------
(* The inductive invariant *)

\* A live row that has the value.
Holds(t, i, x) == Live(t, i) /\ rows[t][i].value = x

\* A request that writes has a table and a value; one that updates or deletes, a row.
HandlerOK(h) ==
  /\ h.at \in {"insert", "write"} => h.table \in Table /\ h.value \in Value
  /\ h.at \in {"write", "delete"} => h.table \in Table /\ h.id \in Id

ArgsOK == \A r \in Request : HandlerOK(req[r])

AtMostOne(t, x) == \A i, j \in Id : Holds(t, i, x) /\ Holds(t, j, x) => i = j

\* Nobody else is about to write the value.
Sole(t, x) == \A r, q \in Request : Writes(req[r], t, x) /\ Writes(req[q], t, x) => r = q

\* What the look-up of a request under way has found is still so: no live row has the
\* value, but that which is to be updated.
StillFree(t, x) ==
  \A r \in Request : Writes(req[r], t, x) =>
    \A i \in Id : Holds(t, i, x) => req[r].at = "write" /\ i = req[r].id

Serial(t, x) == AtMostOne(t, x) /\ Sole(t, x) /\ StillFree(t, x)

Inv ==
  /\ TypeOK /\ ArgsOK
  /\ \A t \in Indexed, x \in Value : AtMostOne(t, x)
  /\ \A t \in Table, x \in Value : <<t, x>> \notin contested => Serial(t, x)

-----------------------------------------------------------------------------
(* Types *)

\* An idle request has its type and writes nothing.
LEMMA IdleType ==
  /\ Idle \in Handler
  /\ Idle.at = "idle"
  /\ HandlerOK(Idle)
  /\ \A t, x : ~Writes(Idle, t, x)
BY DEF Idle, Handler, Stage, HandlerOK, Writes

\* The invariant holds of empty tables.
LEMMA InitInv == Init => Inv
<1> SUFFICES ASSUME Init PROVE Inv OBVIOUS
<1> USE IdleType
<1>1. TypeOK
  BY DEF Init, TypeOK, NoRow, Row, Life
<1>2. ArgsOK
  BY DEF Init, ArgsOK
<1>3. \A t \in Table, i \in Id : \A x : ~Holds(t, i, x)
  BY DEF Init, Holds, Live, NoRow
<1>4. \A t \in Table, x \in Value : Serial(t, x)
  BY <1>3 DEF Init, Serial, AtMostOne, Sole, StillFree
<1>5. \A t \in Indexed : t \in Table
  BY DEF Indexed, Table
<1> QED BY <1>1, <1>2, <1>4, <1>5 DEF Inv, Serial

\* What an update of one row leaves and changes.
OnlyWrites(t0, i0, row) ==
  /\ rows' \in [Table -> [Id -> Row]]
  /\ rows'[t0][i0] = row
  /\ \A t \in Table, i \in Id : ~(t = t0 /\ i = i0) => rows'[t][i] = rows[t][i]

LEMMA OneRow ==
  ASSUME TypeOK, NEW t0 \in Table, NEW i0 \in Id, NEW row \in Row,
         rows' = [rows EXCEPT ![t0][i0] = row]
  PROVE  OnlyWrites(t0, i0, row)
<1> SUFFICES /\ rows' \in [Table -> [Id -> Row]]
             /\ rows'[t0][i0] = row
             /\ \A t \in Table, i \in Id :
                  ~(t = t0 /\ i = i0) => rows'[t][i] = rows[t][i]
  BY DEF OnlyWrites
<1>1. rows \in [Table -> [Id -> Row]]
  BY DEF TypeOK
<1>2. rows' = [rows EXCEPT ![t0] = [rows[t0] EXCEPT ![i0] = row]]
  OBVIOUS
<1>3. [rows[t0] EXCEPT ![i0] = row] \in [Id -> Row]
  BY <1>1
<1>4. /\ rows'[t0] = [rows[t0] EXCEPT ![i0] = row]
      /\ \A t \in Table \ {t0} : rows'[t] = rows[t]
  BY <1>1, <1>2
<1>5. rows' \in [Table -> [Id -> Row]]
  BY <1>1, <1>2, <1>3
<1>6. /\ rows'[t0][i0] = row
      /\ \A i \in Id \ {i0} : rows'[t0][i] = rows[t0][i]
  BY <1>1, <1>4
<1> QED BY <1>4, <1>5, <1>6

\* A request goes on, and the others stay where they are.
LEMMA OneRequest ==
  ASSUME TypeOK, NEW r \in Request, NEW h \in Handler,
         req' = [req EXCEPT ![r] = h]
  PROVE  /\ req' \in [Request -> Handler]
         /\ req'[r] = h
         /\ \A q \in Request \ {r} : req'[q] = req[q]
BY DEF TypeOK

-----------------------------------------------------------------------------
(* Steps *)

\* A step that gives no row a value and lets a request write nothing keeps everything:
\* a deletion, a failure.
LEMMA FewerInv ==
  ASSUME Inv, NEW r \in Request, NEW h \in Handler,
         req' = [req EXCEPT ![r] = h], HandlerOK(h), h.at \in {"idle", "delete"},
         rows' \in [Table -> [Id -> Row]], contested' = contested,
         \A t \in Table, i \in Id, x \in Value : Holds(t, i, x)' => Holds(t, i, x)
  PROVE  Inv'
<1>1. /\ req' \in [Request -> Handler]
      /\ req'[r] = h
      /\ \A q \in Request \ {r} : req'[q] = req[q]
  BY OneRequest DEF Inv
<1>2. TypeOK'
  BY <1>1 DEF Inv, TypeOK
<1>3. ArgsOK'
  BY <1>1 DEF Inv, ArgsOK
<1>4. \A q \in Request, t \in Table, x \in Value :
        Writes(req'[q], t, x) => Writes(req[q], t, x) /\ req'[q] = req[q]
  BY <1>1 DEF Writes
<1>5. ASSUME NEW t \in Table, NEW x \in Value
      PROVE  /\ AtMostOne(t, x) => AtMostOne(t, x)'
             /\ Serial(t, x) => Serial(t, x)'
  BY <1>4 DEF Serial, AtMostOne, Sole, StillFree
<1>6. \A t \in Indexed : t \in Table
  BY DEF Indexed, Table
<1> QED BY <1>2, <1>3, <1>5, <1>6 DEF Inv

\* A request has looked a value up and goes on to write it.
LEMMA EnterWriterInv ==
  ASSUME Inv, NEW r \in Request, NEW h \in Handler, NEW checked \in BOOLEAN,
         h.at \in {"insert", "write"}, HandlerOK(h),
         checked => Unused(h.table, h.id, h.value),
         h.at = "insert" => h.id = None,
         EnterWriter(r, h, checked), UNCHANGED rows
  PROVE  Inv'
<1> DEFINE t0 == h.table
           x0 == h.value
<1>0. t0 \in Table /\ x0 \in Value
  BY DEF HandlerOK
<1>1. /\ req' = [req EXCEPT ![r] = h]
      /\ req' \in [Request -> Handler]
      /\ req'[r] = h
      /\ \A q \in Request \ {r} : req'[q] = req[q]
  BY OneRequest DEF EnterWriter, Enter, Inv
<1>2. /\ contested \subseteq contested'
      /\ contested' \subseteq contested \cup {<<t0, x0>>}
      /\ <<t0, x0>> \notin contested' => checked /\ ~Taken(t0, x0)
  BY DEF EnterWriter
<1>3. TypeOK' /\ ArgsOK'
  BY <1>0, <1>1, <1>2 DEF Inv, TypeOK, ArgsOK
<1>4. \A t, i, x : Holds(t, i, x)' <=> Holds(t, i, x)
  BY DEF Holds, Live
<1>5. \A t \in Table, x \in Value : AtMostOne(t, x)' <=> AtMostOne(t, x)
  BY <1>4 DEF AtMostOne
<1>6. ASSUME <<t0, x0>> \notin contested'
      PROVE  Serial(t0, x0)'
  <2>1. Serial(t0, x0) /\ checked /\ ~Taken(t0, x0)
    BY <1>0, <1>2, <1>6 DEF Inv
  <2>2. \A q \in Request \ {r} : ~Writes(req'[q], t0, x0)
    BY <1>1, <2>1 DEF Taken
  <2>3. ASSUME NEW i \in Id, Holds(t0, i, x0)
        PROVE  h.at = "write" /\ i = h.id
    <3>1. Unused(t0, h.id, x0)
      BY <2>1
    <3>2. i \in Found(t0, x0)
      BY <2>3 DEF Holds, Found
    <3>3. CASE Found(t0, x0) \subseteq {h.id}
      <4>1. i = h.id /\ h.id # None
        BY <3>2, <3>3, RegistryAssumption
      <4> QED BY <4>1
    <3>4. CASE t0 \in {"driver", "vehicle"} /\ h.id \in Found(t0, x0)
      <4>1. h.id \in Id /\ Holds(t0, h.id, x0)
        BY <3>4 DEF Found, Holds, SeesDeleted
      <4>2. i = h.id
        BY <2>1, <2>3, <4>1 DEF Serial, AtMostOne
      <4> QED BY <4>1, <4>2, RegistryAssumption
    <3> QED BY <3>1, <3>3, <3>4 DEF Unused
  <2> HIDE DEF t0, x0
  <2>4. Sole(t0, x0)'
    BY <2>2 DEF Sole
  <2>5. StillFree(t0, x0)'
    BY <1>1, <1>4, <2>2, <2>3 DEF StillFree
  <2> QED BY <1>0, <1>5, <2>1, <2>4, <2>5 DEF Serial
<1>7. ASSUME NEW t \in Table, NEW x \in Value, <<t, x>> \notin contested', ~(t = t0 /\ x = x0)
      PROVE  Serial(t, x)'
  <2>1. Serial(t, x)
    BY <1>2, <1>7 DEF Inv
  <2>2. ~Writes(req'[r], t, x)
    BY <1>1, <1>7 DEF Writes
  <2> HIDE DEF t0, x0
  <2>3. \A q \in Request : Writes(req'[q], t, x) => Writes(req[q], t, x) /\ req'[q] = req[q]
    BY <1>1, <2>2
  <2>4. Sole(t, x)' /\ StillFree(t, x)'
    BY <1>4, <2>1, <2>3 DEF Serial, Sole, StillFree
  <2> QED BY <1>5, <2>1, <2>4 DEF Serial
<1>8. \A t \in Indexed : t \in Table
  BY DEF Indexed, Table
<1> HIDE DEF t0, x0
<1>9. \A t \in Table, x \in Value : <<t, x>> \notin contested' => Serial(t, x)'
  BY <1>6, <1>7
<1>10. \A t \in Indexed, x \in Value : AtMostOne(t, x)'
  BY <1>5, <1>8 DEF Inv
<1> QED BY <1>3, <1>9, <1>10 DEF Inv

\* A request writes its value and ends.
LEMMA StoreInv ==
  ASSUME Inv, NEW r \in Request, NEW t0 \in Table, NEW i \in Id, NEW x0 \in Value,
         NEW row \in Row,
         Writes(req[r], t0, x0),
         req[r].at = "insert" => ~Live(t0, i),
         req[r].at = "write" => i = req[r].id,
         row.value = x0,
         Admitted(t0, i, x0),
         rows' = [rows EXCEPT ![t0][i] = row],
         Finish(r), UNCHANGED contested
  PROVE  Inv'
<1>1. /\ rows' \in [Table -> [Id -> Row]]
      /\ rows'[t0][i] = row
      /\ \A t \in Table, j \in Id :
           ~(t = t0 /\ j = i) => rows'[t][j] = rows[t][j]
  <2>1. TypeOK
    BY DEF Inv
  <2>2. OnlyWrites(t0, i, row)
    BY <2>1, OneRow
  <2> QED BY <2>2 DEF OnlyWrites
<1>2. /\ req' \in [Request -> Handler]
      /\ req'[r] = Idle
      /\ \A q \in Request \ {r} : req'[q] = req[q]
  BY OneRequest, IdleType DEF Finish, Inv
<1>3. TypeOK' /\ ArgsOK'
  BY <1>1, <1>2, IdleType DEF Inv, TypeOK, ArgsOK
<1>5. \A t \in Table, j \in Id, x \in Value :
        Holds(t, j, x)' => Holds(t, j, x) \/ (t = t0 /\ j = i /\ x = x0)
  BY <1>1 DEF Holds, Live
<1>6. \A q \in Request, t \in Table, x \in Value :
        Writes(req'[q], t, x) => Writes(req[q], t, x) /\ req'[q] = req[q] /\ q # r
  BY <1>2, IdleType
<1>7. ASSUME NEW t \in Table, NEW x \in Value, ~(t = t0 /\ x = x0)
      PROVE  /\ AtMostOne(t, x) => AtMostOne(t, x)'
             /\ Serial(t, x) => Serial(t, x)'
  <2>1. \A j \in Id : Holds(t, j, x)' => Holds(t, j, x)
    BY <1>5, <1>7
  <2> QED BY <1>6, <2>1 DEF Serial, AtMostOne, Sole, StillFree
<1>8. Serial(t0, x0) => Serial(t0, x0)'
  <2> SUFFICES ASSUME Serial(t0, x0) PROVE Serial(t0, x0)' OBVIOUS
  <2>1. \A q \in Request : ~Writes(req'[q], t0, x0)
    BY <1>6 DEF Serial, Sole
  <2>2. \A j \in Id : Holds(t0, j, x0) => req[r].at = "write" /\ j = i
    BY DEF Serial, StillFree, Writes
  <2>3. \A j \in Id : Holds(t0, j, x0)' => j = i
    BY <1>5, <2>2
  <2> QED BY <2>1, <2>3 DEF Serial, AtMostOne, Sole, StillFree
<1>9. t0 \in Indexed => AtMostOne(t0, x0)'
  <2> SUFFICES ASSUME t0 \in Indexed PROVE AtMostOne(t0, x0)' OBVIOUS
  <2>1. \A j \in Id \ {i} : ~Holds(t0, j, x0)
    BY DEF Admitted, Holds
  <2>2. \A j \in Id \ {i} : ~Holds(t0, j, x0)'
    BY <1>5, <2>1
  <2> QED BY <2>2 DEF AtMostOne
<1>10. \A t \in Indexed : t \in Table
  BY DEF Indexed, Table
<1>11. \A t \in Indexed, x \in Value : AtMostOne(t, x)'
  BY <1>7, <1>9, <1>10 DEF Inv
<1>12. \A t \in Table, x \in Value : <<t, x>> \notin contested' => Serial(t, x)'
  BY <1>7, <1>8 DEF Inv
<1> QED BY <1>3, <1>11, <1>12 DEF Inv

-----------------------------------------------------------------------------
(* Each action *)

\* Every step keeps the invariant.
LEMMA StepInv ==
  ASSUME Inv, NEW r \in Request, Step(r)
  PROVE  Inv'
<1> USE IdleType
<1>1. ASSUME NEW t \in Table, NEW x \in Value, CreateBegin(r, t, x)
      PROVE  Inv'
  <2> DEFINE h == [at |-> "insert", table |-> t, id |-> None, value |-> x]
  <2>1. h \in Handler /\ HandlerOK(h) /\ h.at = "insert" /\ h.table = t
        /\ h.id = None /\ h.value = x
    BY DEF Handler, Stage, HandlerOK
  <2>2. Unused(t, None, x) /\ EnterWriter(r, h, TRUE) /\ UNCHANGED rows
    BY <1>1 DEF CreateBegin
  <2> HIDE DEF h
  <2> QED BY <2>1, <2>2, EnterWriterInv
<1>2. ASSUME NEW t \in Table, NEW i \in Id, NEW x \in Value, UpdateBegin(r, t, i, x)
      PROVE  Inv'
  <2> DEFINE h == [at |-> "write", table |-> t, id |-> i, value |-> x]
  <2>1. h \in Handler /\ HandlerOK(h) /\ h.at = "write" /\ h.table = t
        /\ h.id = i /\ h.value = x
    BY DEF Handler, Stage, HandlerOK
  <2>2. Unused(t, i, x) /\ EnterWriter(r, h, TRUE) /\ UNCHANGED rows
    BY <1>2 DEF UpdateBegin
  <2> HIDE DEF h
  <2> QED BY <2>1, <2>2, EnterWriterInv
<1>3. ASSUME NEW i \in Id, NEW x \in Value, ProfileBegin(r, i, x)
      PROVE  Inv'
  <2> DEFINE h == [at |-> "write", table |-> "driver", id |-> i, value |-> x]
  <2>1. h \in Handler /\ HandlerOK(h) /\ h.at = "write"
    BY DEF Handler, Stage, HandlerOK, Table
  <2>2. EnterWriter(r, h, FALSE) /\ UNCHANGED rows
    BY <1>3 DEF ProfileBegin
  <2> HIDE DEF h
  <2> QED BY <2>1, <2>2, EnterWriterInv
<1>4. ASSUME NEW i \in Id, Insert(r, i)
      PROVE  Inv'
  <2>1. /\ req[r].at = "insert"
        /\ req[r].table \in Table /\ req[r].value \in Value
    BY <1>4 DEF Insert, Inv, ArgsOK, HandlerOK
  <2>2. PICK t \in Table, x \in Value : req[r].table = t /\ req[r].value = x
    BY <2>1
  <2> DEFINE row == [life |-> "live", value |-> x]
  <2>3. row \in Row /\ row.value = x
    BY DEF Row, Life
  <2>4. /\ Writes(req[r], t, x) /\ ~Live(t, i) /\ Admitted(t, i, x)
        /\ rows' = [rows EXCEPT ![t][i] = row]
        /\ Finish(r) /\ UNCHANGED contested
    BY <1>4, <2>2 DEF Insert, Writes, Live
  <2> HIDE DEF row
  <2> QED BY <2>1, <2>3, <2>4, StoreInv
<1>5. ASSUME Write(r)
      PROVE  Inv'
  <2>1. /\ req[r].at = "write"
        /\ req[r].table \in Table /\ req[r].value \in Value /\ req[r].id \in Id
    BY <1>5 DEF Write, Inv, ArgsOK, HandlerOK
  <2>2. PICK t \in Table, i \in Id, x \in Value :
          req[r].table = t /\ req[r].id = i /\ req[r].value = x
    BY <2>1
  <2>3. PICK row \in Row : row = [rows[t][i] EXCEPT !.value = x] /\ row.value = x
    <3>1. rows[t][i] \in Row
      BY DEF Inv, TypeOK
    <3>2. /\ [rows[t][i] EXCEPT !.value = x] \in Row
          /\ [rows[t][i] EXCEPT !.value = x].value = x
      BY <3>1 DEF Row
    <3> QED BY <3>2
  <2>4. /\ Writes(req[r], t, x) /\ Admitted(t, i, x)
        /\ rows' = [rows EXCEPT ![t][i] = row]
        /\ Finish(r) /\ UNCHANGED contested
    BY <1>5, <2>2, <2>3 DEF Write, Writes
  <2> QED BY <2>1, <2>2, <2>3, <2>4, StoreInv
<1>6. ASSUME NEW t \in Table, NEW i \in Id, DeleteBegin(r, t, i)
      PROVE  Inv'
  <2> DEFINE h == [at |-> "delete", table |-> t, id |-> i, value |-> None]
  <2>1. h \in Handler /\ HandlerOK(h) /\ h.at = "delete"
    BY DEF Handler, Stage, HandlerOK
  <2>2. req' = [req EXCEPT ![r] = h] /\ UNCHANGED <<rows, contested>>
    BY <1>6 DEF DeleteBegin, Enter
  <2>3. \A u, j, x : Holds(u, j, x)' => Holds(u, j, x)
    BY <2>2 DEF Holds, Live
  <2>4. rows' \in [Table -> [Id -> Row]] /\ contested' = contested
    BY <2>2 DEF Inv, TypeOK
  <2> HIDE DEF h
  <2> QED BY <2>1, <2>2, <2>3, <2>4, FewerInv
<1>7. ASSUME Delete(r)
      PROVE  Inv'
  <2>1. req[r].table \in Table /\ req[r].id \in Id
    BY <1>7 DEF Delete, Inv, ArgsOK, HandlerOK
  <2>2. PICK t \in Table, i \in Id : req[r].table = t /\ req[r].id = i
    BY <2>1
  <2>3. PICK row \in Row : row = [rows[t][i] EXCEPT !.life = "deleted"] /\ row.life = "deleted"
    <3>1. rows[t][i] \in Row
      BY DEF Inv, TypeOK
    <3>2. /\ [rows[t][i] EXCEPT !.life = "deleted"] \in Row
          /\ [rows[t][i] EXCEPT !.life = "deleted"].life = "deleted"
      BY <3>1 DEF Row, Life
    <3> QED BY <3>2
  <2>4. /\ rows' = [rows EXCEPT ![t][i] = row]
        /\ req' = [req EXCEPT ![r] = Idle] /\ UNCHANGED contested
    BY <1>7, <2>2, <2>3 DEF Delete, Finish
  <2>5. TypeOK
    BY DEF Inv
  <2>6. /\ rows' \in [Table -> [Id -> Row]]
        /\ rows'[t][i] = row
        /\ \A u \in Table, j \in Id : ~(u = t /\ j = i) => rows'[u][j] = rows[u][j]
    <3>1. OnlyWrites(t, i, row)
      BY <2>4, <2>5, OneRow
    <3> QED BY <3>1 DEF OnlyWrites
  <2>7. \A u \in Table, j \in Id, x \in Value : Holds(u, j, x)' => Holds(u, j, x)
    BY <2>3, <2>6 DEF Holds, Live
  <2> QED BY <2>4, <2>6, <2>7, FewerInv
<1>8. ASSUME Fail(r)
      PROVE  Inv'
  <2>1. req' = [req EXCEPT ![r] = Idle] /\ UNCHANGED <<rows, contested>>
    BY <1>8 DEF Fail, Finish
  <2>2. \A u, j, x : Holds(u, j, x)' => Holds(u, j, x)
    BY <2>1 DEF Holds, Live
  <2>3. rows' \in [Table -> [Id -> Row]] /\ contested' = contested
    BY <2>1 DEF Inv, TypeOK
  <2> QED BY <2>1, <2>2, <2>3, FewerInv
<1> QED BY <1>1, <1>2, <1>3, <1>4, <1>5, <1>6, <1>7, <1>8 DEF Step

\* A stuttering step keeps the invariant.
LEMMA StutterInv == Inv /\ UNCHANGED vars => Inv'
BY DEF Inv, vars, TypeOK, ArgsOK, AtMostOne, Serial, Sole, StillFree, Holds, Live, Writes

\* The invariant holds in every state.
THEOREM Invariance == Spec => []Inv
<1>1. Inv /\ [Next]_vars => Inv'
  BY StepInv, StutterInv DEF Next
<1> QED BY <1>1, InitInv, PTL DEF Spec

-----------------------------------------------------------------------------
(* Theorems *)

\* Rows and handlers keep their types.
THEOREM RegistryTypes == Spec => []TypeOK
<1>1. Inv => TypeOK
  BY DEF Inv
<1> QED BY <1>1, Invariance, PTL

\* The look-ups of the six services keep a value on one live row of its table, as long
\* as the requests for it follow each other; an index keeps it in any case.
THEOREM RegisteredOnce == Spec => []UniqueUnlessContested
<1>1. Inv => UniqueUnlessContested
  BY DEF Inv, Serial, AtMostOne, Holds, UniqueUnlessContested
<1> QED BY <1>1, Invariance, PTL
=============================================================================
