------------------------------- MODULE Registry -------------------------------
(***************************************************************************)
(* The values that are to be unique among the rows of a table, and how the *)
(* services keep them so: the email and the number of a vendor, a driver   *)
(* and a customer; the registration, chassis and engine numbers of a       *)
(* vehicle; the name of a service, and that of a sub-service within its    *)
(* service.                                                                *)
(*                                                                         *)
(* Each service looks for a row with the value first and writes its own    *)
(* later, in another statement; only service and sub_service have a unique *)
(* index.  What is checked of one such column is checked of the others of  *)
(* its table, so a row has one value here.                                 *)
(***************************************************************************)
EXTENDS FiniteSets

CONSTANTS
  Id,       \* ids of the rows, in every table
  Value,    \* contacts, numbers, names
  Request,  \* requests in flight at the same time
  None      \* no row, no value

ASSUME RegistryAssumption == None \notin Id

Table == {"vendor", "driver", "customer", "vehicle", "service", "sub_service"}

VARIABLES
  rows,       \* the tables: life and value of every row
  contested,  \* history: values of requests that overlapped, or were not checked
  req         \* handler state of every request

vars == <<rows, contested, req>>

-----------------------------------------------------------------------------
(* Rows and requests *)

\* Tables with a unique index on the value.
Indexed == {"service", "sub_service"}

\* Tables whose check finds soft-deleted rows, too.
SeesDeleted == {"vendor", "customer"}

\* is_deleted, or the row of an indexed table is removed; ids are not used again.
Life == {"absent", "live", "deleted"}

Row == [life : Life, value : Value \cup {None}]

NoRow == [life |-> "absent", value |-> None]

Stage == {"idle", "insert", "write", "delete"}

Handler ==
  [at : Stage, table : Table \cup {None}, id : Id \cup {None}, value : Value \cup {None}]

Idle == [at |-> "idle", table |-> None, id |-> None, value |-> None]

Live(t, i) == rows[t][i].life = "live"

\* The row can still be updated by its id.
Present(t, i) == rows[t][i].life # "absent" /\ (t \in Indexed => Live(t, i))

\* Rows that a lookup of the value in a table can return.
Found(t, x) ==
  {i \in Id : rows[t][i].value = x /\ (Live(t, i) \/ (t \in SeesDeleted /\ Present(t, i)))}

\* A request that inserts or writes the value into the table.
Writes(h, t, x) == h.at \in {"insert", "write"} /\ h.table = t /\ h.value = x

\* The value is under way already.
Taken(t, x) == \E q \in Request : Writes(req[q], t, x)

Enter(r, h) == req[r] = Idle /\ req' = [req EXCEPT ![r] = h]

Finish(r) == req' = [req EXCEPT ![r] = Idle]

\* A request has done its lookup and goes on to write the value.
EnterWriter(r, h, checked) ==
  /\ Enter(r, h)
  /\ contested' = IF checked /\ ~Taken(h.table, h.value) THEN contested
                  ELSE contested \cup {<<h.table, h.value>>}

-----------------------------------------------------------------------------
(* Creating and updating *)

\* Mutant of Unused: the driver's check looks among the vendors only.
UnusedByVendors(t, i, x) ==
  IF t = "driver" THEN \A v \in Id : ~Live("vendor", v) \/ rows["vendor"][v].value # x
                  ELSE Found(t, x) \subseteq {i}

\* The lookup for a row i, None for one to be created.  Those of vendor and driver differ
\* from the others: a vendor's, customer's, service's or sub-service's leaves i out in
\* its WHERE clause, while a driver's and a vehicle's compare the one row that findFirst
\* returns; and a driver's contact must not be a live vendor's.
Unused(t, i, x) ==
  /\ Found(t, x) \subseteq {i} \/ (t \in {"driver", "vehicle"} /\ i \in Found(t, x))
  /\ t = "driver" => \A v \in Id : ~Live("vendor", v) \/ rows["vendor"][v].value # x

\* POST: the value is looked up.
CreateBegin(r, t, x) ==
  /\ Unused(t, None, x)
  /\ EnterWriter(r, [at |-> "insert", table |-> t, id |-> None, value |-> x], TRUE)
  /\ UNCHANGED rows

\* The service looks for the row to be updated, except that of the vendors.
UpdateFinds(t, i) == Live(t, i) \/ (t = "vendor" /\ Present(t, i))

\* PUT: the row is found, and the value is looked up.
UpdateBegin(r, t, i, x) ==
  /\ UpdateFinds(t, i)
  /\ Unused(t, i, x)
  /\ EnterWriter(r, [at |-> "write", table |-> t, id |-> i, value |-> x], TRUE)
  /\ UNCHANGED rows

\* PUT /driver/profile/me/info: neither the value nor is_deleted is looked at.
ProfileBegin(r, i, x) ==
  /\ Present("driver", i)
  /\ EnterWriter(r, [at |-> "write", table |-> "driver", id |-> i, value |-> x], FALSE)
  /\ UNCHANGED rows

\* What the unique index allows.
Admitted(t, i, x) == t \in Indexed => \A j \in Id \ {i} : ~(Live(t, j) /\ rows[t][j].value = x)

\* INSERT.
Insert(r, i) ==
  LET h == req[r] IN
  /\ h.at = "insert"
  /\ rows[h.table][i].life = "absent"
  /\ Admitted(h.table, i, h.value)
  /\ rows' = [rows EXCEPT ![h.table][i] = [life |-> "live", value |-> h.value]]
  /\ Finish(r)
  /\ UNCHANGED contested

\* UPDATE ... WHERE id.
Write(r) ==
  LET h == req[r] IN
  /\ h.at = "write"
  /\ Present(h.table, h.id)
  /\ Admitted(h.table, h.id, h.value)
  /\ rows' = [rows EXCEPT ![h.table][h.id].value = h.value]
  /\ Finish(r)
  /\ UNCHANGED contested

-----------------------------------------------------------------------------
(* Deleting *)

\* DELETE: the row is found; a vendor's is, deleted or not.
DeleteBegin(r, t, i) ==
  /\ UpdateFinds(t, i)
  /\ Enter(r, [at |-> "delete", table |-> t, id |-> i, value |-> None])
  /\ UNCHANGED <<rows, contested>>

\* is_deleted is set, or the row is removed.
Delete(r) ==
  LET h == req[r] IN
  /\ h.at = "delete"
  /\ Present(h.table, h.id)
  /\ rows' = [rows EXCEPT ![h.table][h.id].life = "deleted"]
  /\ Finish(r)
  /\ UNCHANGED contested

\* The statement throws, as for a row that is gone or a value the index refuses, or the
\* process stops.
Fail(r) ==
  /\ req[r] # Idle
  /\ Finish(r)
  /\ UNCHANGED <<rows, contested>>

-----------------------------------------------------------------------------

Init ==
  /\ rows = [t \in Table |-> [i \in Id |-> NoRow]]
  /\ contested = {}
  /\ req = [r \in Request |-> Idle]

Step(r) ==
  \/ \E t \in Table, x \in Value : CreateBegin(r, t, x)
  \/ \E t \in Table, i \in Id, x \in Value : UpdateBegin(r, t, i, x)
  \/ \E i \in Id, x \in Value : ProfileBegin(r, i, x)
  \/ \E i \in Id : Insert(r, i)
  \/ Write(r)
  \/ \E t \in Table, i \in Id : DeleteBegin(r, t, i)
  \/ Delete(r)
  \/ Fail(r)

Next == \E r \in Request : Step(r)

Spec == Init /\ [][Next]_vars

-----------------------------------------------------------------------------
(* Properties *)

\* Rows and handlers have their types.
TypeOK ==
  /\ rows \in [Table -> [Id -> Row]]
  /\ contested \subseteq Table \X Value
  /\ req \in [Request -> Handler]

\* "A customer with this email already exists", and its like: two live rows of a table
\* have the same value only where requests for it overlapped, or a driver chose it in
\* the own profile; and not even then where there is an index.
UniqueUnlessContested ==
  \A t \in Table, x \in Value :
    t \in Indexed \/ <<t, x>> \notin contested =>
      \A i, j \in Id : (Live(t, i) /\ Live(t, j)
                        /\ rows[t][i].value = x /\ rows[t][j].value = x) => i = j
=============================================================================
