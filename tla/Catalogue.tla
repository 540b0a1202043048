------------------------------- MODULE Catalogue -------------------------------
(***************************************************************************)
(* The catalogue: services, their sub-services, the conditions of these    *)
(* and the orders placed for them, as ServiceService,                      *)
(* SubServiceConditionService and OrderService read and write them.        *)
(*                                                                         *)
(* schema.prisma has relationMode "prisma": the database knows no foreign  *)
(* key.  A handler that inserts a row reads its parent some statements     *)
(* before, and Prisma refuses to delete a row that others need by looking  *)
(* for these first; both can be overtaken.  Two references are written as  *)
(* the body gives them, and nobody looks whether there is such a row: the  *)
(* service of an order, and the service a sub-service is moved to.         *)
(***************************************************************************)
EXTENDS FiniteSets

CONSTANTS
  Service,     \* ids of the service table
  SubService,  \* ids of the sub_service table
  Condition,   \* ids of the sub_service_condtion table
  Order,       \* ids of the order table
  Request,     \* requests in flight at the same time
  None         \* SQL NULL

VARIABLES
  rows,       \* the tables: life of every row, and the row it refers to
  images,     \* sub-services whose image_url is set
  contested,  \* history: parents that were removed while a row below was under way
  unlooked,   \* history: rows whose unlooked reference led nowhere when it was written
  req         \* handler state of every request

vars == <<rows, images, contested, unlooked, req>>

-----------------------------------------------------------------------------
(* Rows and requests *)

Node == Service \cup SubService \cup Condition \cup Order

\* Rows are removed, and their ids are not used again.
Life == {"absent", "live", "removed"}

\* An order refers to its sub-service, which is its parent here, and to a service.
Row ==
  [life : Life, parent : Service \cup SubService \cup {None}, service : Service \cup {None}]

Stage == {"idle", "insert", "image", "move", "check", "remove"}

\* on is the row to be written, or None for one to be inserted below the row parent;
\* below are the rows that a removal found to refer to its own.
Handler ==
  [at : Stage, on : Node \cup {None}, kind : {{}, Service, SubService, Condition, Order},
   parent : Service \cup SubService \cup {None}, service : Service \cup {None},
   file : BOOLEAN,
   below : SUBSET (SubService \cup Condition \cup Order)]

Idle ==
  [at |-> "idle", on |-> None, kind |-> {}, parent |-> None, service |-> None,
   file |-> FALSE, below |-> {}]

Live(n) == rows[n].life = "live"

Below(n) == {m \in Node : Live(m) /\ n \in {rows[m].parent, rows[m].service}}

\* A handler has found n and is about to insert a row below it.
Awaited(n) == \E q \in Request : req[q].at = "insert" /\ req[q].parent = n

Enter(r, h) ==
  /\ req[r] = Idle
  /\ req' = [req EXCEPT ![r] = h]
  /\ UNCHANGED <<rows, images, contested, unlooked>>

Finish(r) == req' = [req EXCEPT ![r] = Idle]

-----------------------------------------------------------------------------
(* Inserting *)

\* POST /service.
AddServiceBegin(r) == Enter(r, [Idle EXCEPT !.at = "insert", !.kind = Service])

\* POST /service/sub-service and POST /sub-service-condition: the parent is found.  A
\* sub-service may come with an image.
AddBegin(r, kind, n, file) ==
  /\ Live(n)
  /\ Enter(r, [Idle EXCEPT !.at = "insert", !.kind = kind, !.parent = n, !.file = file])

\* POST /order: the sub-service is found; the service is any id the body names.
AddOrderBegin(r, u, s) ==
  /\ Live(u)
  /\ Enter(r, [Idle EXCEPT !.at = "insert", !.kind = Order, !.parent = u, !.service = s])

\* INSERT.
Insert(r, n) ==
  LET h == req[r] IN
  /\ h.at = "insert"
  /\ n \in h.kind
  /\ rows[n].life = "absent"
  /\ rows' = [rows EXCEPT ![n] =
       [life |-> "live", parent |-> h.parent, service |-> h.service]]
  /\ unlooked' = IF h.service = None \/ Live(h.service)
                 THEN unlooked ELSE unlooked \cup {n}
  /\ req' = [req EXCEPT ![r] =
       IF h.file THEN [Idle EXCEPT !.at = "image", !.on = n] ELSE Idle]
  /\ UNCHANGED <<images, contested>>

\* The file is stored, and image_url is set.
SetImage(r) ==
  LET n == req[r].on IN
  /\ req[r].at = "image"
  /\ Live(n)
  /\ images' = images \cup {n}
  /\ Finish(r)
  /\ UNCHANGED <<rows, contested, unlooked>>

-----------------------------------------------------------------------------
(* Updating *)

\* PUT /service/sub-service/:id: the sub-service is found.  Its new service, if the body
\* names one, is not looked for.
MoveBegin(r, u, s) ==
  /\ Live(u)
  /\ Enter(r, [Idle EXCEPT !.at = "move", !.on = u, !.parent = s])

\* UPDATE ... WHERE id.
Move(r, file) ==
  LET h == req[r] IN
  /\ h.at = "move"
  /\ Live(h.on)
  /\ rows' = [rows EXCEPT ![h.on].parent = h.parent]
  /\ images' = IF file THEN images \cup {h.on} ELSE images
  /\ unlooked' = IF Live(h.parent) THEN unlooked \ {h.on} ELSE unlooked \cup {h.on}
  /\ Finish(r)
  /\ UNCHANGED contested

-----------------------------------------------------------------------------
(* Removing *)

\* DELETE of a service, a sub-service or a condition: the row is found.
RemoveBegin(r, n) ==
  /\ Live(n)
  /\ Enter(r, [Idle EXCEPT !.at = "check", !.on = n])

\* Mutant of Needed: orders need no service either.
NeededByNoOrder(n) == Below(n) \ Order

\* The rows whose reference may not be null: every one but an order's sub-service.
Needed(n) == IF n \in SubService THEN Below(n) \ Order ELSE Below(n)

\* Prisma looks for the rows that refer to the row, and refuses if they need it.
Check(r) ==
  LET n == req[r].on IN
  /\ req[r].at = "check"
  /\ Needed(n) = {}
  /\ req' = [req EXCEPT ![r].at = "remove", ![r].below = Below(n)]
  /\ UNCHANGED <<rows, images, contested, unlooked>>

\* The references of the orders it found are set to NULL and the row is deleted, which
\* commits together.
Remove(r) ==
  LET h == req[r] IN
  /\ h.at = "remove"
  /\ Live(h.on)
  /\ rows' = [n \in Node |->
       CASE n = h.on -> [rows[n] EXCEPT !.life = "removed"]
         [] n \in h.below \cap Order -> [rows[n] EXCEPT !.parent = None]
         [] OTHER -> rows[n]]
  /\ contested' = IF Awaited(h.on) \/ Below(h.on) # h.below
                  THEN contested \cup {h.on} ELSE contested
  /\ Finish(r)
  /\ UNCHANGED <<images, unlooked>>

\* A refusal or an error, or the process stops.
Fail(r) ==
  /\ req[r] # Idle
  /\ Finish(r)
  /\ UNCHANGED <<rows, images, contested, unlooked>>

-----------------------------------------------------------------------------

Init ==
  /\ rows = [n \in Node |-> [life |-> "absent", parent |-> None, service |-> None]]
  /\ images = {}
  /\ contested = {}
  /\ unlooked = {}
  /\ req = [r \in Request |-> Idle]

Step(r) ==
  \/ AddServiceBegin(r)
  \/ \E s \in Service, file \in BOOLEAN : AddBegin(r, SubService, s, file)
  \/ \E u \in SubService : AddBegin(r, Condition, u, FALSE)
  \/ \E u \in SubService, s \in Service : AddOrderBegin(r, u, s)
  \/ \E n \in Node : Insert(r, n)
  \/ SetImage(r)
  \/ \E u \in SubService, s \in Service : MoveBegin(r, u, s)
  \/ \E file \in BOOLEAN : Move(r, file)
  \/ \E n \in Node \ Order : RemoveBegin(r, n)
  \/ Check(r)
  \/ Remove(r)
  \/ Fail(r)

Next == \E r \in Request : Step(r)

Spec == Init /\ [][Next]_vars

-----------------------------------------------------------------------------
(* Properties *)

\* Rows and handlers have their types.
TypeOK ==
  /\ rows \in [Node -> Row]
  /\ images \subseteq SubService
  /\ contested \subseteq Service \cup SubService
  /\ unlooked \subseteq SubService \cup Order
  /\ req \in [Request -> Handler]

\* A reference is null, or leads to a row that is there, or that was removed while a row
\* was on its way below it.
Kept(n) == n = None \/ Live(n) \/ n \in contested

\* Without foreign keys the handlers' look-ups and Prisma's keep the references: a row
\* whose reference led somewhere when it was written is never left without the row it
\* refers to, unless that was removed while the row was on its way.  Only a reference that
\* nobody looked up, a moved sub-service's or an order's to its service, may have led
\* nowhere from the start.
NoOrphanUnlessContested ==
  /\ \A n \in Node : Live(n) => Kept(rows[n].parent) \/ n \in SubService \cap unlooked
  /\ \A o \in Order : Live(o) => Kept(rows[o].service) \/ o \in unlooked
=============================================================================
