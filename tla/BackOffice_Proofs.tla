--------------------------- MODULE BackOffice_Proofs ---------------------------
(***************************************************************************)
(* The catalogue, the approval of drivers, the estimates, and with them    *)
(* the customers and the registers, for any number of rows, requests and   *)
(* prices.  Each module has its inductive invariant; MCSpec, which runs    *)
(* one of them, has that of the one that runs.                             *)
(***************************************************************************)
EXTENDS MCBackOffice, Registry_Proofs, FiniteSetTheorems, WellFoundedInduction

CP == INSTANCE CustomerRecords_Proofs WITH contested <- overlapped, req <- desk

-----------------------------------------------------------------------------
(* Catalogue: what a handler may rely on between its statements *)

CatalogueHandlerOK(h) ==
  /\ h.at = "insert" => K!Kept(h.parent) /\ (h.file => h.kind = SubService)
                        /\ (h.service # None => h.kind = Order)
  /\ h.at = "image" => h.on \in SubService
  /\ h.at = "move" => h.on \in SubService /\ h.parent \in Service
  /\ h.at \in {"check", "remove"} => h.on \in K!Node \ Order
  /\ h.at = "remove" => h.below \subseteq Order /\ (h.on \notin SubService => h.below = {})

\* Only orders refer to a service beside their parent.
OnlyOrdersHaveServices == \A n \in K!Node \ Order : catalogue[n].service = None

CatalogueInv ==
  /\ K!TypeOK
  /\ K!NoOrphanUnlessContested
  /\ OnlyOrdersHaveServices
  /\ \A r \in Request : CatalogueHandlerOK(desk[r])

\* What the invariant says of one row.
RowKept(n) ==
  /\ K!Live(n) => K!Kept(catalogue[n].parent) \/ n \in SubService \cap unlooked
  /\ K!Live(n) => K!Kept(catalogue[n].service) \/ n \in unlooked
  /\ n \notin Order => catalogue[n].service = None

LEMMA RowsKept ==
  /\ CatalogueInv => \A n \in K!Node : RowKept(n)
  /\ (\A n \in K!Node : RowKept(n)') =>
        K!NoOrphanUnlessContested' /\ OnlyOrdersHaveServices'
BY DEF CatalogueInv, RowKept, K!NoOrphanUnlessContested, OnlyOrdersHaveServices, K!Node, K!Kept

LEMMA CatalogueIdle ==
  /\ K!Idle \in K!Handler
  /\ K!Idle.at = "idle" /\ K!Idle.parent = None
  /\ CatalogueHandlerOK(K!Idle) /\ CatalogueHandlerOK(K!Idle)'
<1>1. K!Idle \in K!Handler /\ K!Idle.at = "idle" /\ K!Idle.parent = None
  BY DEF K!Idle, K!Handler, K!Stage
<1>2. (K!Idle.at)' = K!Idle.at
  BY DEF K!Idle
<1> QED BY <1>1, <1>2 DEF CatalogueHandlerOK

LEMMA CatalogueInit == K!Init => CatalogueInv
<1> SUFFICES ASSUME K!Init PROVE CatalogueInv OBVIOUS
<1>1. /\ catalogue \in [K!Node -> K!Row]
      /\ \A n \in K!Node : ~K!Live(n) /\ catalogue[n].service = None
      /\ \A r \in Request : desk[r] = K!Idle
  BY DEF K!Init, K!Row, K!Life, K!Live
<1>2. K!TypeOK
  BY <1>1, CatalogueIdle DEF K!Init, K!TypeOK
<1>3. K!NoOrphanUnlessContested /\ OnlyOrdersHaveServices
  BY <1>1 DEF K!NoOrphanUnlessContested, OnlyOrdersHaveServices, K!Node
<1> QED BY <1>1, <1>2, <1>3, CatalogueIdle DEF CatalogueInv

\* A handler keeps what it knows while no row goes.
LEMMA NoRowGoes ==
  ASSUME NEW h, CatalogueHandlerOK(h), overlapped \subseteq overlapped',
         \A n : K!Live(n) => K!Live(n)'
  PROVE  CatalogueHandlerOK(h)'
BY DEF CatalogueHandlerOK, K!Kept, K!Node

\* One handler goes on, and no row goes.
LEMMA CatalogueStep ==
  ASSUME CatalogueInv, NEW r \in Request, NEW h \in K!Handler,
         desk' = [desk EXCEPT ![r] = h], CatalogueHandlerOK(h)',
         catalogue' \in [K!Node -> K!Row], images' \subseteq SubService,
         unlooked' \subseteq SubService \cup Order, UNCHANGED overlapped,
         \A n : K!Live(n) => K!Live(n)',
         \A n \in K!Node : RowKept(n)'
  PROVE  CatalogueInv'
<1>1. desk' \in [Request -> K!Handler] /\ desk'[r] = h
      /\ \A q \in Request \ {r} : desk'[q] = desk[q]
  BY DEF CatalogueInv, K!TypeOK
<1>2. K!TypeOK'
  BY <1>1 DEF CatalogueInv, K!TypeOK
<1>3. ASSUME NEW q \in Request PROVE CatalogueHandlerOK(desk[q])'
  BY <1>1, NoRowGoes DEF CatalogueInv
<1> QED BY <1>2, <1>3, RowsKept DEF CatalogueInv

\* The rows stay as they are.
LEMMA CatalogueQuiet ==
  ASSUME CatalogueInv, NEW r \in Request, NEW h \in K!Handler,
         desk' = [desk EXCEPT ![r] = h], CatalogueHandlerOK(h),
         UNCHANGED <<catalogue, overlapped, unlooked>>, images' \subseteq SubService
  PROVE  CatalogueInv'
<1>1. \A n : K!Live(n)' = K!Live(n)
  BY DEF K!Live
<1>2. ASSUME NEW n \in K!Node PROVE RowKept(n)'
  BY <1>1, RowsKept DEF RowKept, K!Kept
<1>3. CatalogueHandlerOK(h)'
  BY <1>1, NoRowGoes
<1> QED BY <1>1, <1>2, <1>3, CatalogueStep DEF CatalogueInv, K!TypeOK

LEMMA CatalogueBegin ==
  ASSUME CatalogueInv, NEW r \in Request,
         \/ K!AddServiceBegin(r)
         \/ \E s \in Service, file \in BOOLEAN : K!AddBegin(r, SubService, s, file)
         \/ \E u \in SubService : K!AddBegin(r, Condition, u, FALSE)
         \/ \E u \in SubService, s \in Service : K!AddOrderBegin(r, u, s)
         \/ \E u \in SubService, s \in Service : K!MoveBegin(r, u, s)
         \/ \E n \in K!Node \ Order : K!RemoveBegin(r, n)
  PROVE  CatalogueInv'
<1> DEFINE Entered(h) == h \in K!Handler /\ CatalogueHandlerOK(h) /\ K!Enter(r, h)
<1>1. SUFFICES \E h : Entered(h)
  BY CatalogueQuiet DEF CatalogueInv, K!TypeOK, K!Enter
<1>2. CASE K!AddServiceBegin(r)
  <2>1. Entered([K!Idle EXCEPT !.at = "insert", !.kind = Service])
    BY <1>2 DEF K!AddServiceBegin, K!Idle, K!Handler, K!Stage, CatalogueHandlerOK, K!Kept
  <2> QED BY <2>1
<1>3. ASSUME NEW kind \in {SubService, Condition}, NEW n \in Service \cup SubService,
             NEW file \in BOOLEAN, file => kind = SubService, K!AddBegin(r, kind, n, file)
      PROVE  \E h : Entered(h)
  <2>1. Entered([K!Idle EXCEPT !.at = "insert", !.kind = kind, !.parent = n, !.file = file])
    BY <1>3 DEF K!AddBegin, K!Idle, K!Handler, K!Stage, CatalogueHandlerOK, K!Kept
  <2> QED BY <2>1
<1>4. ASSUME NEW u \in SubService, NEW s \in Service, K!AddOrderBegin(r, u, s)
      PROVE  \E h : Entered(h)
  <2>1. Entered([K!Idle EXCEPT !.at = "insert", !.kind = Order, !.parent = u, !.service = s])
    BY <1>4 DEF K!AddOrderBegin, K!Idle, K!Handler, K!Stage, CatalogueHandlerOK, K!Kept
  <2> QED BY <2>1
<1>5. ASSUME NEW u \in SubService, NEW s \in Service, K!MoveBegin(r, u, s)
      PROVE  \E h : Entered(h)
  <2>1. Entered([K!Idle EXCEPT !.at = "move", !.on = u, !.parent = s])
    BY <1>5 DEF K!MoveBegin, K!Idle, K!Handler, K!Stage, K!Node, CatalogueHandlerOK
  <2> QED BY <2>1
<1>6. ASSUME NEW n \in K!Node \ Order, K!RemoveBegin(r, n)
      PROVE  \E h : Entered(h)
  <2>1. Entered([K!Idle EXCEPT !.at = "check", !.on = n])
    BY <1>6 DEF K!RemoveBegin, K!Idle, K!Handler, K!Stage, CatalogueHandlerOK
  <2> QED BY <2>1
<1> QED BY <1>2, <1>3, <1>4, <1>5, <1>6

\* The new row refers to what its handler has seen; the service of an order is there, or
\* is recorded as not looked up.
LEMMA CatalogueInsert ==
  ASSUME CatalogueInv, NEW r \in Request, NEW n \in K!Node, K!Insert(r, n)
  PROVE  CatalogueInv'
<1> DEFINE h == desk[r]
           row == [life |-> "live", parent |-> h.parent, service |-> h.service]
<1>1. /\ h \in K!Handler /\ CatalogueHandlerOK(h) /\ h.at = "insert" /\ n \in h.kind
      /\ catalogue \in [K!Node -> K!Row] /\ ~K!Live(n)
  BY DEF CatalogueInv, K!TypeOK, K!Insert, K!Live
<1>2. row \in K!Row /\ K!Kept(h.parent) /\ (h.service # None => n \in Order)
  BY <1>1 DEF K!Handler, K!Row, K!Life, CatalogueHandlerOK
<1>3. /\ catalogue' = [catalogue EXCEPT ![n] = row] /\ UNCHANGED <<images, overlapped>>
      /\ desk' = [desk EXCEPT ![r] =
           IF h.file THEN [K!Idle EXCEPT !.at = "image", !.on = n] ELSE K!Idle]
      /\ unlooked' = IF h.service = None \/ K!Live(h.service)
                     THEN unlooked ELSE unlooked \cup {n}
  BY DEF K!Insert
<1>4. /\ catalogue' \in [K!Node -> K!Row] /\ \A m : K!Live(m) => K!Live(m)'
      /\ unlooked' \subseteq SubService \cup Order /\ unlooked \subseteq unlooked'
  BY <1>1, <1>2, <1>3 DEF K!Live, CatalogueInv, K!TypeOK
<1>5. ASSUME NEW m \in K!Node PROVE RowKept(m)'
  <2>1. CASE m = n
    <3>1. catalogue'[m] = row
      BY <1>1, <1>3, <2>1
    <3>2. PICK parent, service : parent = h.parent /\ service = h.service
      OBVIOUS
    <3>3. K!Kept(parent)'
      BY <1>2, <1>3, <1>4, <3>2 DEF K!Kept
    <3>4. K!Kept(service)' \/ n \in unlooked'
      BY <1>3, <1>4, <3>2 DEF K!Kept
    <3>5. catalogue'[m].parent = parent /\ catalogue'[m].service = service
      BY <3>1, <3>2
    <3> QED BY <1>2, <2>1, <3>2, <3>3, <3>4, <3>5 DEF RowKept, K!Kept
  <2>2. CASE m # n
    <3>1. catalogue'[m] = catalogue[m]
      BY <1>1, <1>3, <2>2
    <3>2. RowKept(m)
      BY RowsKept
    <3> QED BY <1>3, <1>4, <3>1, <3>2 DEF RowKept, K!Kept, K!Live
  <2> QED BY <2>1, <2>2
<1>6. PICK next \in K!Handler :
        /\ next = IF h.file THEN [K!Idle EXCEPT !.at = "image", !.on = n] ELSE K!Idle
        /\ next.at = "idle" \/ (next.at = "image" /\ next.on \in SubService)
  <2>1. CASE h.file
    <3>1. n \in SubService
      BY <1>1, <2>1 DEF CatalogueHandlerOK
    <3> DEFINE g == [K!Idle EXCEPT !.at = "image", !.on = n]
    <3>2. g \in K!Handler /\ g.at = "image" /\ g.on = n
      BY <3>1 DEF K!Idle, K!Handler, K!Stage
    <3> QED BY <2>1, <3>1, <3>2
  <2>2. CASE ~h.file
    BY <2>2, CatalogueIdle
  <2> QED BY <2>1, <2>2
<1>7. CatalogueHandlerOK(next)'
  BY <1>6 DEF CatalogueHandlerOK
<1> QED BY <1>3, <1>4, <1>5, <1>6, <1>7, CatalogueStep DEF CatalogueInv, K!TypeOK

\* The row below its new parent, which is there or recorded as not looked up.
LEMMA CatalogueMove ==
  ASSUME CatalogueInv, NEW r \in Request, NEW file \in BOOLEAN, K!Move(r, file)
  PROVE  CatalogueInv'
<1> DEFINE h == desk[r]
<1>1. /\ h.at = "move" /\ h.on \in SubService /\ h.parent \in Service
      /\ h.on \in K!Node /\ h.on \notin Order
      /\ catalogue \in [K!Node -> K!Row]
  BY CatalogueAssumption DEF CatalogueInv, K!TypeOK, K!Move, CatalogueHandlerOK, K!Node
<1>2. /\ catalogue' = [catalogue EXCEPT ![h.on].parent = h.parent]
      /\ desk' = [desk EXCEPT ![r] = K!Idle]
      /\ images' = IF file THEN images \cup {h.on} ELSE images
      /\ unlooked' = IF K!Live(h.parent) THEN unlooked \ {h.on} ELSE unlooked \cup {h.on}
      /\ UNCHANGED overlapped
  BY DEF K!Move, K!Finish
<1>3. catalogue' \in [K!Node -> K!Row] /\ \A m : K!Live(m)' = K!Live(m)
  BY <1>1, <1>2 DEF K!Live, K!Row
<1>4. ASSUME NEW m \in K!Node PROVE RowKept(m)'
  <2>1. CASE m = h.on
    <3>1. catalogue'[m].parent = h.parent /\ catalogue'[m].service = catalogue[m].service
      BY <1>1, <1>2, <2>1
    <3>2. catalogue[m].service = None
      BY <1>1, <2>1, RowsKept DEF RowKept
    <3>3. PICK parent : parent = h.parent
      OBVIOUS
    <3>4. K!Kept(parent)' \/ m \in SubService \cap unlooked'
      BY <1>1, <1>2, <1>3, <2>1, <3>3 DEF K!Kept
    <3> QED BY <3>1, <3>2, <3>3, <3>4 DEF RowKept, K!Kept
  <2>2. CASE m # h.on
    <3>1. catalogue'[m] = catalogue[m] /\ (m \in unlooked' <=> m \in unlooked)
      BY <1>1, <1>2, <2>2
    <3>2. RowKept(m)
      BY RowsKept
    <3>3. \A n : K!Kept(n) => K!Kept(n)'
      BY <1>2, <1>3 DEF K!Kept
    <3>4. PICK parent, service : /\ parent = catalogue[m].parent
                                /\ service = catalogue[m].service
      OBVIOUS
    <3>5. catalogue'[m].parent = parent /\ catalogue'[m].service = service
      BY <3>1, <3>4
    <3>6. /\ K!Live(m)' => K!Kept(parent)' \/ m \in SubService \cap unlooked'
          /\ K!Live(m)' => K!Kept(service)' \/ m \in unlooked'
      BY <1>3, <3>1, <3>2, <3>3, <3>4 DEF RowKept
    <3> QED BY <3>2, <3>4, <3>5, <3>6 DEF RowKept, K!Kept
  <2> QED BY <2>1, <2>2
<1>5. images' \subseteq SubService /\ unlooked' \subseteq SubService \cup Order
  BY <1>1, <1>2 DEF CatalogueInv, K!TypeOK
<1> QED BY <1>2, <1>3, <1>4, <1>5, CatalogueIdle, CatalogueStep

\* No row refers to a condition or an order.
LEMMA NothingBelow ==
  ASSUME K!TypeOK, NEW n \in Condition \cup Order PROVE K!Below(n) = {}
<1> SUFFICES ASSUME NEW m \in K!Node, n \in {catalogue[m].parent, catalogue[m].service}
             PROVE  FALSE
  BY DEF K!Below
<1>1. /\ catalogue[m].parent \in Service \cup SubService \cup {None}
      /\ catalogue[m].service \in Service \cup {None}
  BY DEF K!TypeOK, K!Row
<1> QED BY <1>1, CatalogueAssumption

\* Prisma lets only orders lose their reference, and only that to a sub-service.
LEMMA CatalogueCheck ==
  ASSUME CatalogueInv, NEW r \in Request, K!Check(r)
  PROVE  CatalogueInv'
<1> DEFINE h == [desk[r] EXCEPT !.at = "remove", !.below = K!Below(desk[r].on)]
<1>1. /\ desk[r] \in K!Handler /\ desk[r].on \in K!Node \ Order /\ K!TypeOK
      /\ K!Below(desk[r].on) \subseteq Order
      /\ desk[r].on \notin SubService => K!Below(desk[r].on) = {}
  BY DEF CatalogueInv, K!TypeOK, K!Check, CatalogueHandlerOK, K!Needed
<1>2. h \in K!Handler /\ CatalogueHandlerOK(h)
  BY <1>1 DEF K!Handler, K!Stage, CatalogueHandlerOK
<1>3. desk' = [desk EXCEPT ![r] = h]
  BY DEF K!Check
<1> QED BY <1>2, <1>3, CatalogueQuiet DEF K!Check, CatalogueInv, K!TypeOK

\* Whoever refers to the removed row, or is about to, makes it contested; the rows that
\* the removal had found have been released.
LEMMA CatalogueRemove ==
  ASSUME CatalogueInv, NEW r \in Request, K!Remove(r)
  PROVE  CatalogueInv'
<1> DEFINE h == desk[r]
<1>1. /\ h.at = "remove" /\ h.on \in K!Node \ Order /\ h.below \subseteq Order
      /\ h.on \notin SubService => h.below = {}
      /\ K!TypeOK /\ catalogue \in [K!Node -> K!Row] /\ desk \in [Request -> K!Handler]
  BY DEF CatalogueInv, K!TypeOK, K!Remove, CatalogueHandlerOK
<1>2. /\ catalogue' = [n \in K!Node |->
           CASE n = h.on -> [catalogue[n] EXCEPT !.life = "removed"]
             [] n \in h.below \cap Order -> [catalogue[n] EXCEPT !.parent = None]
             [] OTHER -> catalogue[n]]
      /\ overlapped' = IF K!Awaited(h.on) \/ K!Below(h.on) # h.below
                       THEN overlapped \cup {h.on} ELSE overlapped
      /\ desk' = [desk EXCEPT ![r] = K!Idle] /\ UNCHANGED <<images, unlooked>>
  BY DEF K!Remove, K!Finish
<1>3. ASSUME NEW n \in K!Node
      PROVE  /\ catalogue'[n] \in K!Row
             /\ n = h.on => ~K!Live(n)'
             /\ n # h.on => K!Live(n)' = K!Live(n)
             /\ n # h.on => catalogue'[n].parent \in {catalogue[n].parent, None}
             /\ n # h.on /\ n \in h.below => catalogue'[n].parent = None
             /\ catalogue'[n].service = catalogue[n].service
  <2>1. CASE n = h.on
    <3>1. catalogue'[n] = [catalogue[n] EXCEPT !.life = "removed"]
      BY <1>1, <1>2, <2>1
    <3> QED BY <1>1, <2>1, <3>1 DEF K!Row, K!Life, K!Live
  <2>2. CASE n # h.on /\ n \in h.below
    <3>1. catalogue'[n] = [catalogue[n] EXCEPT !.parent = None]
      BY <1>1, <1>2, <2>2
    <3> QED BY <1>1, <2>2, <3>1 DEF K!Row, K!Live
  <2>3. CASE n # h.on /\ n \notin h.below
    <3>1. catalogue'[n] = catalogue[n]
      BY <1>2, <2>3
    <3> QED BY <1>1, <2>3, <3>1 DEF K!Live
  <2> QED BY <2>1, <2>2, <2>3
<1>4. catalogue' \in [K!Node -> K!Row]
  BY <1>2, <1>3
<1>5. /\ overlapped \subseteq overlapped' /\ overlapped' \subseteq Service \cup SubService
      /\ K!Awaited(h.on) \/ K!Below(h.on) # h.below => h.on \in overlapped'
  <2>1. ASSUME h.on \in Condition PROVE ~K!Awaited(h.on) /\ K!Below(h.on) = h.below
    <3>1. K!Below(h.on) = h.below
      BY <1>1, <2>1, NothingBelow, CatalogueAssumption
    <3>2. \A q \in Request : desk[q].parent \in Service \cup SubService \cup {None}
      BY <1>1 DEF K!Handler
    <3> QED BY <2>1, <3>1, <3>2, CatalogueAssumption DEF K!Awaited
  <2> QED BY <1>1, <1>2, <2>1 DEF K!TypeOK, K!Node
\* A reference to another row holds as it did.
<1>6. ASSUME NEW n \in Service \cup SubService \cup {None}, n # h.on, K!Kept(n)
      PROVE  K!Kept(n)'
  <2>1. n = None \/ n \in K!Node
    BY <1>6 DEF K!Node
  <2> QED BY <1>3, <1>5, <1>6, <2>1 DEF K!Kept
\* A row that the removal had not found below it makes it contested.
<1>7. ASSUME NEW n, n = h.on, NEW m \in K!Node, K!Live(m), m \notin h.below,
             n \in {catalogue[m].parent, catalogue[m].service}
      PROVE  K!Kept(n)'
  <2>1. m \in K!Below(h.on)
    BY <1>7 DEF K!Below
  <2> QED BY <1>5, <1>7, <2>1 DEF K!Kept
<1>8. ASSUME NEW m \in K!Node PROVE RowKept(m)'
  <2>1. RowKept(m)
    BY RowsKept
  <2>2. m \notin Order => catalogue'[m].service = None
    BY <1>3, <2>1 DEF RowKept
  <2>3. CASE ~K!Live(m)'
    BY <2>2, <2>3 DEF RowKept
  <2>4. CASE K!Live(m)'
    <3> PICK p, s : p = catalogue[m].parent /\ s = catalogue[m].service
      OBVIOUS
    <3>1. /\ m # h.on /\ K!Live(m) /\ p \in Service \cup SubService \cup {None}
          /\ s \in Service \cup {None}
          /\ catalogue'[m].parent \in {p, None} /\ catalogue'[m].service = s
          /\ m \in h.below => catalogue'[m].parent = None
      BY <1>1, <1>3, <2>4 DEF K!Row
    <3>2. K!Kept(p) => K!Kept(catalogue[m].parent)'
      <4>1. CASE catalogue'[m].parent = None
        BY <4>1 DEF K!Kept
      <4>2. CASE catalogue'[m].parent = p /\ p # None
        <5>1. K!Kept(p) => K!Kept(p)'
          BY <1>6, <1>7, <3>1, <4>2
        <5> QED BY <4>2, <5>1 DEF K!Kept
      <4> QED BY <3>1, <4>1, <4>2
    <3>3. K!Kept(s) => K!Kept(s)'
      <4>1. CASE s # h.on
        BY <1>6, <3>1, <4>1
      <4>2. CASE s = h.on
        <5>1. h.below = {}
          BY <1>1, <3>1, <4>2, CatalogueAssumption DEF K!Node
        <5> QED BY <1>7, <3>1, <4>2, <5>1
      <4> QED BY <4>1, <4>2
    <3>4. K!Kept(s)' = K!Kept(catalogue[m].service)'
      BY <3>1 DEF K!Kept
    <3>5. K!Kept(catalogue[m].parent)' \/ m \in (SubService \cap unlooked)'
      BY <1>2, <2>1, <3>1, <3>2 DEF RowKept
    <3>6. K!Kept(catalogue[m].service)' \/ m \in unlooked'
      BY <1>2, <2>1, <3>1, <3>3, <3>4 DEF RowKept
    <3> QED BY <2>2, <3>5, <3>6 DEF RowKept
  <2> QED BY <2>3, <2>4
<1>9. ASSUME NEW q \in Request PROVE CatalogueHandlerOK(desk[q])'
  <2>1. CASE q = r
    BY <1>1, <1>2, <2>1, CatalogueIdle
  <2>2. CASE q # r
    <3>1. desk'[q] = desk[q] /\ CatalogueHandlerOK(desk[q]) /\ desk[q] \in K!Handler
      BY <1>1, <1>2, <2>2 DEF CatalogueInv
    <3>2. ASSUME desk[q].at = "insert" PROVE K!Kept(desk[q].parent)'
      <4>1. PICK n \in Service \cup SubService \cup {None} : n = desk[q].parent
        BY <3>1 DEF K!Handler
      <4>2. K!Kept(n)'
        <5>1. CASE n = h.on
          BY <1>5, <3>2, <4>1, <5>1 DEF K!Awaited, K!Kept
        <5>2. CASE n # h.on
          BY <1>6, <3>1, <3>2, <4>1, <5>2 DEF CatalogueHandlerOK
        <5> QED BY <5>1, <5>2
      <4> QED BY <3>1, <4>1, <4>2
    <3> QED BY <3>1, <3>2 DEF CatalogueHandlerOK, K!Node
  <2> QED BY <2>1, <2>2
<1>10. K!TypeOK'
  <2>1. desk' \in [Request -> K!Handler]
    BY <1>1, <1>2, CatalogueIdle
  <2> QED BY <1>1, <1>2, <1>4, <1>5, <2>1 DEF K!TypeOK
<1> QED BY <1>8, <1>9, <1>10, RowsKept DEF CatalogueInv

LEMMA CatalogueNextInv == CatalogueInv /\ [K!Next]_K!vars => CatalogueInv'
<1> SUFFICES ASSUME CatalogueInv, [K!Next]_K!vars PROVE CatalogueInv' OBVIOUS
<1>1. CASE UNCHANGED K!vars
  BY <1>1 DEF K!vars, CatalogueInv, K!TypeOK, K!NoOrphanUnlessContested,
              OnlyOrdersHaveServices, CatalogueHandlerOK, K!Kept, K!Live, K!Node
<1>2. ASSUME NEW r \in Request, K!SetImage(r) PROVE CatalogueInv'
  <2>1. images' \subseteq SubService
    BY <1>2 DEF K!SetImage, CatalogueInv, K!TypeOK, CatalogueHandlerOK
  <2> QED BY <1>2, <2>1, CatalogueIdle, CatalogueQuiet DEF K!SetImage, K!Finish
<1>3. ASSUME NEW r \in Request, K!Fail(r) PROVE CatalogueInv'
  BY <1>3, CatalogueIdle, CatalogueQuiet DEF K!Fail, K!Finish, CatalogueInv, K!TypeOK
<1>4. ASSUME NEW r \in Request, K!Step(r) PROVE CatalogueInv'
  BY <1>2, <1>3, <1>4, CatalogueBegin, CatalogueInsert, CatalogueMove, CatalogueCheck,
     CatalogueRemove DEF K!Step
<1> QED BY <1>1, <1>4 DEF K!Next

-----------------------------------------------------------------------------
(* Onboarding: documents are never taken back, so a handler that found them *)
(* complete may rely on it; and who puts a driver under approval entered    *)
(* after the last ban, or overlapped it                                     *)

\* On the way to put the driver under approval.
Approving(h) == O!Promoting(h) \/ h.at \in {"recheck", "promote"}

\* What a handler has read of the documents.
ReadingOK(h) ==
  /\ h.at = "idle" => h = O!Idle
  /\ h.at # "idle" => h.who \in Applicant
  /\ h.at = "submit" => h.read.documents \subseteq drivers[h.who].documents
  /\ h.at = "promote" => O!Complete(drivers[h.who])

\* Two requests about one driver are recorded.
OverlapsRecorded ==
  \A q, r \in Request :
    q # r /\ desk[q].at # "idle" /\ desk[r].at # "idle" /\ desk[q].who = desk[r].who
      => desk[q].who \in overlapped

\* A ban stands, and no handler is about to undo it.
BanStands(d) ==
  /\ drivers[d].status = "Banned"
  /\ \A r \in Request : desk[r].at # "idle" /\ desk[r].who = d => ~Approving(desk[r])

DriversInv ==
  /\ O!TypeOK
  /\ O!ReviewedHasDocuments
  /\ \A r \in Request : ReadingOK(desk[r])
  /\ OverlapsRecorded
  /\ \A d \in barred \ overlapped : BanStands(d)

LEMMA DriversIdle ==
  O!Idle \in O!Handler /\ O!Idle.at = "idle" /\ O!NoRow \in O!Row /\ ReadingOK(O!Idle)
<1>1. O!NoRow \in O!Row /\ O!NoRow.documents = {}
  BY DEF O!NoRow, O!Row, O!Life, O!DriverStatus
<1>2. O!Idle \in O!Handler /\ O!Idle.at = "idle"
  BY <1>1 DEF O!Idle, O!Handler, O!Stage
<1> QED BY <1>1, <1>2 DEF ReadingOK

LEMMA DriversInit == O!Init => DriversInv
<1> SUFFICES ASSUME O!Init PROVE DriversInv OBVIOUS
<1>1. O!TypeOK
  BY DriversIdle DEF O!Init, O!TypeOK
<1>2. \A d \in Applicant : drivers[d].status = "Banned"
  BY DEF O!Init, O!NoRow
<1>3. \A r \in Request : desk[r] = O!Idle
  BY DEF O!Init
<1>4. barred = {}
  BY DEF O!Init
<1> QED
  BY <1>1, <1>2, <1>3, <1>4, DriversIdle
     DEF DriversInv, O!ReviewedHasDocuments, OverlapsRecorded

\* A row of a driver is written, if any is, and loses no document; who is put under review
\* has them all.
Written(d, row) ==
  /\ row \in O!Row
  /\ drivers' = [drivers EXCEPT ![d] = row]
  /\ drivers[d].documents \subseteq row.documents
  /\ row.status \in {"UnderApproval", "Available"} => O!Complete(row)

LEMMA RowWritten ==
  ASSUME DriversInv, NEW d \in Applicant, NEW row, Written(d, row)
  PROVE  /\ drivers' \in [Applicant -> O!Row]
         /\ drivers'[d] = row
         /\ \A e \in Applicant \ {d} : drivers'[e] = drivers[e]
         /\ \A e \in Applicant : drivers[e].documents \subseteq drivers'[e].documents
         /\ O!ReviewedHasDocuments'
<1>1. drivers \in [Applicant -> O!Row] /\ O!ReviewedHasDocuments
  BY DEF DriversInv, O!TypeOK
<1>2. /\ drivers' \in [Applicant -> O!Row] /\ drivers'[d] = row
      /\ \A e \in Applicant \ {d} : drivers'[e] = drivers[e]
  BY <1>1 DEF Written
<1>3. \A e \in Applicant : drivers[e].documents \subseteq drivers'[e].documents
  BY <1>2 DEF Written
<1> QED BY <1>1, <1>2, <1>3 DEF Written, O!ReviewedHasDocuments, O!Complete

\* What a handler has read holds on while documents only come.
LEMMA ReadingStays ==
  ASSUME NEW h \in O!Handler, ReadingOK(h), drivers' \in [Applicant -> O!Row],
         \A e \in Applicant : drivers[e].documents \subseteq drivers'[e].documents
  PROVE  ReadingOK(h)'
<1>1. ASSUME h.at # "idle" PROVE h.who \in Applicant /\ drivers'[h.who] \in O!Row
  BY <1>1 DEF ReadingOK
<1>2. \A e \in Applicant : drivers'[e].documents \subseteq Document
  BY DEF O!Row
<1>3. h.at = "idle" => h = O!Idle
  BY DEF ReadingOK
<1>4. (O!Idle)' = O!Idle
  BY DEF O!Idle, O!NoRow
<1> QED BY <1>1, <1>2, <1>3, <1>4 DEF ReadingOK, O!Complete

\* A handler writes the row of its driver, and goes on or ends.
LEMMA DriverWriteInv ==
  ASSUME DriversInv, NEW r \in Request, desk[r].at # "idle", NEW row,
         Written(desk[r].who, row), NEW h \in O!Handler,
         desk' = [desk EXCEPT ![r] = h], ReadingOK(h)',
         h.at = "idle" \/ (h.who = desk[r].who /\ (Approving(h) => Approving(desk[r]))),
         overlapped' = overlapped, banned' = banned,
         barred' \in {barred, barred \cup {desk[r].who}},
         row.status \in {"Banned", drivers[desk[r].who].status} \/ Approving(desk[r]),
         barred' # barred => row.status = "Banned" /\ h.at = "idle"
  PROVE  DriversInv'
<1>1. PICK d \in Applicant : d = desk[r].who
  BY DEF DriversInv, ReadingOK
<1>2. /\ drivers' \in [Applicant -> O!Row] /\ drivers'[d] = row
      /\ \A e \in Applicant \ {d} : drivers'[e] = drivers[e]
      /\ \A e \in Applicant : drivers[e].documents \subseteq drivers'[e].documents
      /\ O!ReviewedHasDocuments'
  BY <1>1, RowWritten
<1>3. /\ desk' \in [Request -> O!Handler] /\ desk'[r] = h
      /\ \A q \in Request \ {r} : desk'[q] = desk[q] /\ desk[q] \in O!Handler
      /\ barred \subseteq Applicant /\ barred' \subseteq Applicant
  BY <1>1 DEF DriversInv, O!TypeOK
<1>4. O!TypeOK'
  BY <1>2, <1>3 DEF DriversInv, O!TypeOK
<1>5. ASSUME NEW q \in Request PROVE ReadingOK(desk[q])'
  BY <1>2, <1>3, ReadingStays DEF DriversInv
<1>6. OverlapsRecorded'
  BY <1>3 DEF DriversInv, OverlapsRecorded
<1>7. ASSUME NEW e \in (barred \ overlapped)' PROVE BanStands(e)'
  <2>1. CASE e = d
    <3>1. ASSUME NEW q \in Request \ {r}, desk[q].at # "idle" PROVE desk[q].who # d
      BY <1>1, <1>7, <2>1, <3>1 DEF DriversInv, OverlapsRecorded
    <3>2. CASE barred' = barred
      <4>1. BanStands(d)
        BY <1>7, <2>1, <3>2 DEF DriversInv
      <4>2. ~Approving(desk[r]) /\ row.status = "Banned"
        BY <1>1, <3>2, <4>1 DEF BanStands
      <4>3. h.at = "idle" \/ ~Approving(h)
        BY <4>2
      <4> QED BY <1>2, <1>3, <2>1, <3>1, <4>2, <4>3 DEF BanStands, Approving, O!Promoting
    <3>3. CASE barred' # barred
      BY <1>2, <1>3, <2>1, <3>1, <3>3 DEF BanStands
    <3> QED BY <3>2, <3>3
  <2>2. CASE e # d
    <3>1. e \in Applicant /\ BanStands(e) /\ drivers'[e] = drivers[e]
      BY <1>1, <1>2, <1>3, <1>7, <2>2 DEF DriversInv
    <3>2. h.at # "idle" => h.who # e
      BY <1>1, <2>2
    <3> QED BY <1>3, <3>1, <3>2 DEF BanStands, Approving, O!Promoting
  <2> QED BY <2>1, <2>2
<1> QED BY <1>2, <1>4, <1>5, <1>6, <1>7 DEF DriversInv

\* The same for a handler that writes no row.
LEMMA DriverQuietInv ==
  ASSUME DriversInv, NEW r \in Request, desk[r].at # "idle", NEW h \in O!Handler,
         desk' = [desk EXCEPT ![r] = h], ReadingOK(h),
         h.at = "idle" \/ (h.who = desk[r].who /\ (Approving(h) => Approving(desk[r]))),
         UNCHANGED <<drivers, banned, barred, overlapped>>
  PROVE  DriversInv'
<1>1. PICK d \in Applicant : d = desk[r].who
  BY DEF DriversInv, ReadingOK
<1>2. drivers \in [Applicant -> O!Row]
  BY DEF DriversInv, O!TypeOK
<1>3. Written(d, drivers[d]) /\ drivers[d].status = drivers[desk[r].who].status
  BY <1>1, <1>2 DEF Written, DriversInv, O!ReviewedHasDocuments
<1>4. ReadingOK(h)'
  BY <1>2, ReadingStays
<1> QED BY <1>1, <1>3, <1>4, DriverWriteInv

LEMMA FinishedOK == ReadingOK(O!Idle)'
<1>1. (O!Idle)' = O!Idle /\ O!Idle.at = "idle"
  BY DriversIdle DEF O!Idle, O!NoRow
<1> QED BY <1>1 DEF ReadingOK

\* A handler begins: the ban of its driver is over if it may approve, and the overlap is
\* recorded if there is one.
LEMMA DriverEnterInv ==
  ASSUME DriversInv, NEW r \in Request, NEW h \in O!Handler, O!Enter(r, h),
         h.at \notin {"idle", "recheck", "promote"}, ReadingOK(h)
  PROVE  DriversInv'
<1>1. h.who \in Applicant
  BY DEF ReadingOK
<1>2. /\ desk[r] = O!Idle /\ desk' = [desk EXCEPT ![r] = h]
      /\ overlapped' = IF \E q \in Request : desk[q].who = h.who
                       THEN overlapped \cup {h.who} ELSE overlapped
      /\ barred' = IF O!Promoting(h) THEN barred \ {h.who} ELSE barred
      /\ UNCHANGED <<drivers, banned>>
  BY DEF O!Enter
<1>3. /\ desk' \in [Request -> O!Handler] /\ desk'[r] = h
      /\ \A q \in Request \ {r} : desk'[q] = desk[q]
      /\ overlapped \subseteq overlapped'
  BY <1>2 DEF DriversInv, O!TypeOK
<1>4. O!TypeOK'
  BY <1>1, <1>2, <1>3 DEF DriversInv, O!TypeOK
<1>5. O!ReviewedHasDocuments'
  BY <1>2 DEF DriversInv, O!ReviewedHasDocuments
<1>6. ASSUME NEW q \in Request PROVE ReadingOK(desk[q])'
  <2>1. ReadingOK(desk'[q])
    BY <1>3 DEF DriversInv
  <2> QED BY <1>2, <2>1 DEF ReadingOK, O!Idle, O!NoRow
<1>7. OverlapsRecorded'
  <2>1. \A q \in Request \ {r} : desk[q].who = h.who => h.who \in overlapped'
    BY <1>2
  <2> QED BY <1>3, <2>1 DEF DriversInv, OverlapsRecorded
<1>8. ASSUME NEW d \in (barred \ overlapped)' PROVE BanStands(d)'
  <2>1. BanStands(d) /\ (O!Promoting(h) => h.who # d)
    BY <1>2, <1>3, <1>8 DEF DriversInv
  <2> QED BY <1>2, <1>3, <2>1 DEF BanStands, Approving, O!Promoting
<1> QED BY <1>4, <1>5, <1>6, <1>7, <1>8 DEF DriversInv

LEMMA DriverBeginInv ==
  ASSUME DriversInv, NEW r \in Request, NEW d \in Applicant,
         \/ O!ProfileBegin(r, d)
         \/ \E own \in BOOLEAN : O!Begin(r, d, "upload", own)
         \/ \E stage \in {"edit", "ban", "vehicle", "submit", "verify", "remove"} :
              O!Begin(r, d, stage, FALSE)
  PROVE  DriversInv'
<1>1. drivers[d] \in O!Row
  BY DEF DriversInv, O!TypeOK
<1>2. CASE O!ProfileBegin(r, d)
  <2> DEFINE h == [at |-> "profile", who |-> d, own |-> TRUE, read |-> O!NoRow]
  <2>1. h \in O!Handler /\ O!Enter(r, h) /\ ReadingOK(h)
    BY <1>2, DriversIdle DEF O!ProfileBegin, O!Handler, O!Stage, ReadingOK
  <2> QED BY <2>1, DriverEnterInv
<1>3. ASSUME NEW stage \in {"upload", "edit", "ban", "vehicle", "submit", "verify", "remove"},
             NEW own \in BOOLEAN, O!Begin(r, d, stage, own)
      PROVE  DriversInv'
  <2> DEFINE h == [at |-> stage, who |-> d, own |-> own,
                   read |-> IF stage = "submit" THEN drivers[d] ELSE O!NoRow]
  <2>1. h \in O!Handler /\ ReadingOK(h)
    BY <1>1, DriversIdle DEF O!Handler, O!Stage, ReadingOK
  <2>2. O!Enter(r, h) /\ h.at \notin {"idle", "recheck", "promote"}
    BY <1>3 DEF O!Begin
  <2> QED BY <2>1, <2>2, DriverEnterInv
<1> QED BY <1>2, <1>3

\* The handler that works on a row, and the row.
LEMMA AtWork ==
  ASSUME DriversInv, NEW r \in Request, desk[r].at # "idle"
  PROVE  /\ desk[r] \in O!Handler /\ desk[r].who \in Applicant /\ desk[r].own \in BOOLEAN
         /\ drivers[desk[r].who] \in O!Row
         /\ drivers[desk[r].who].status \in {"UnderApproval", "Available"}
              => O!Complete(drivers[desk[r].who])
<1>1. desk[r] \in O!Handler /\ desk[r].who \in Applicant
  BY DEF DriversInv, O!TypeOK, ReadingOK
<1> QED BY <1>1 DEF DriversInv, O!TypeOK, O!ReviewedHasDocuments, O!Handler

\* A row is written with the documents and the status that it had, and the handler ends.
LEMMA OtherColumnsInv ==
  ASSUME DriversInv, NEW r \in Request, desk[r].at # "idle", NEW row \in O!Row,
         O!Update(r, row), O!Finish(r),
         row.documents = drivers[desk[r].who].documents,
         row.status = drivers[desk[r].who].status,
         UNCHANGED <<banned, barred, overlapped>>
  PROVE  DriversInv'
<1>1. Written(desk[r].who, row)
  BY AtWork DEF Written, O!Update, O!Complete
<1> QED BY <1>1, FinishedOK, DriversIdle, DriverWriteInv DEF O!Finish

LEMMA AssignVerifyRemoveInv ==
  ASSUME DriversInv, NEW r \in Request,
         O!AssignVehicle(r) \/ O!Verify(r) \/ O!Remove(r)
  PROVE  DriversInv'
<1> DEFINE row0 == drivers[desk[r].who]
<1>1. desk[r].at # "idle" /\ row0 \in O!Row
  BY AtWork DEF O!AssignVehicle, O!Verify, O!Remove
<1>2. ASSUME NEW v \in Truck \cup {None}, O!Update(r, [row0 EXCEPT !.vehicle = v]),
             O!Finish(r), UNCHANGED <<banned, barred, overlapped>>
      PROVE  DriversInv'
  <2>1. [row0 EXCEPT !.vehicle = v] \in O!Row
    BY <1>1 DEF O!Row
  <2> QED BY <1>1, <1>2, <2>1, OtherColumnsInv DEF O!Row
<1>3. CASE O!Verify(r)
  <2>1. [row0 EXCEPT !.verified = O!Channel] \in O!Row
    BY <1>1 DEF O!Row
  <2> QED BY <1>1, <1>3, <2>1, OtherColumnsInv DEF O!Row, O!Verify
<1>4. CASE O!Remove(r)
  <2>1. [row0 EXCEPT !.life = "deleted"] \in O!Row
    BY <1>1 DEF O!Row, O!Life
  <2> QED BY <1>1, <1>4, <2>1, OtherColumnsInv DEF O!Row, O!Remove
<1> QED BY <1>2, <1>3, <1>4 DEF O!AssignVehicle

\* What follows the driver's own change.
LEMMA RecheckFollows ==
  ASSUME DriversInv, NEW r \in Request, desk[r].at # "idle", O!ThenRecheck(r)
  PROVE  \E h \in O!Handler :
           /\ desk' = [desk EXCEPT ![r] = h]
           /\ ReadingOK(h)'
           /\ \/ ~desk[r].own /\ h.at = "idle"
              \/ desk[r].own /\ h.at = "recheck" /\ h.who = desk[r].who
<1>1. CASE desk[r].own
  <2> DEFINE g == [desk[r] EXCEPT !.at = "recheck"]
  <2>0. g \in O!Handler /\ g.at = "recheck" /\ g.who = desk[r].who
    BY AtWork DEF O!Handler, O!Stage
  <2>1. PICK h \in O!Handler : h = g /\ h.at = "recheck" /\ h.who = desk[r].who
    BY <2>0
  <2>2. h.who \in Applicant
    BY <2>1, AtWork
  <2>3. ReadingOK(h)'
    BY <2>1, <2>2 DEF ReadingOK
  <2> QED BY <1>1, <2>1, <2>3 DEF O!ThenRecheck
<1>2. CASE ~desk[r].own
  BY <1>2, DriversIdle, FinishedOK DEF O!ThenRecheck, O!Finish
<1> QED BY <1>1, <1>2

LEMMA ProfileWriteInv ==
  ASSUME DriversInv, NEW r \in Request, O!ProfileWrite(r)
  PROVE  DriversInv'
<1> DEFINE row0 == drivers[desk[r].who]
<1>1. desk[r].at = "profile" /\ row0 \in O!Row
  BY AtWork DEF O!ProfileWrite
<1>2. PICK changed \in SUBSET O!Channel, located \in BOOLEAN :
        O!Update(r, [row0 EXCEPT !.verified = @ \ changed, !.location = located])
  BY DEF O!ProfileWrite
<1>3. PICK row : row = [row0 EXCEPT !.verified = @ \ changed, !.location = located]
  OBVIOUS
<1>4. row \in O!Row /\ row.documents = row0.documents /\ row.status = row0.status
  BY <1>1, <1>3 DEF O!Row
<1>5. Written(desk[r].who, row)
  BY <1>1, <1>2, <1>3, <1>4, AtWork DEF Written, O!Update, O!Complete
<1>6. PICK h \in O!Handler :
           /\ desk' = [desk EXCEPT ![r] = h]
           /\ ReadingOK(h)'
           /\ \/ ~desk[r].own /\ h.at = "idle"
              \/ desk[r].own /\ h.at = "recheck" /\ h.who = desk[r].who
  BY <1>1, RecheckFollows DEF O!ProfileWrite
<1>7. h.at = "idle" \/ (h.who = desk[r].who /\ Approving(desk[r]))
  BY <1>1, <1>6 DEF Approving, O!Promoting
<1> QED BY <1>1, <1>4, <1>5, <1>6, <1>7, DriverWriteInv DEF O!ProfileWrite

\* A vendor's edit bans.
LEMMA EditWriteInv ==
  ASSUME DriversInv, NEW r \in Request, O!EditWrite(r)
  PROVE  DriversInv'
<1> DEFINE row0 == drivers[desk[r].who]
<1>1. desk[r].at = "edit" /\ row0 \in O!Row
  BY AtWork DEF O!EditWrite
<1>2. PICK located \in BOOLEAN :
        O!Update(r, [row0 EXCEPT !.status = O!Left(r, @), !.location = located])
  BY DEF O!EditWrite
<1>3. PICK row : row = [row0 EXCEPT !.status = O!Left(r, @), !.location = located]
  OBVIOUS
<1>4. /\ row \in O!Row /\ row.documents = row0.documents
      /\ row.status = IF desk[r].own THEN row0.status ELSE "Banned"
  BY <1>1, <1>3 DEF O!Row, O!Left, O!DriverStatus
<1>5. Written(desk[r].who, row)
  BY <1>1, <1>2, <1>3, <1>4, AtWork DEF Written, O!Update, O!Complete
<1>6. barred' = IF desk[r].own THEN barred ELSE barred \cup {desk[r].who}
  BY DEF O!EditWrite, O!Bars
<1> QED
  BY <1>1, <1>4, <1>5, <1>6, FinishedOK, DriversIdle, DriverWriteInv DEF O!EditWrite, O!Finish

\* A vendor's upload bans and ends; the driver's own adds a document and goes on.
LEMMA UploadWriteInv ==
  ASSUME DriversInv, NEW r \in Request, O!UploadWrite(r)
  PROVE  DriversInv'
<1> DEFINE row0 == drivers[desk[r].who]
<1>1. desk[r].at = "upload" /\ row0 \in O!Row
  BY AtWork DEF O!UploadWrite
<1>2. PICK doc \in Document :
        O!Update(r, [row0 EXCEPT !.status = O!Left(r, @), !.documents = @ \cup {doc}])
  BY DEF O!UploadWrite
<1>3. PICK row : row = [row0 EXCEPT !.status = O!Left(r, @), !.documents = @ \cup {doc}]
  OBVIOUS
<1>4. /\ row \in O!Row /\ row.documents = row0.documents \cup {doc}
      /\ row.status = IF desk[r].own THEN row0.status ELSE "Banned"
  BY <1>1, <1>3 DEF O!Row, O!Left, O!DriverStatus
<1>5. O!Complete(row0) => O!Complete(row)
  BY <1>1, <1>4 DEF O!Complete, O!Row
<1>6. Written(desk[r].who, row)
  BY <1>1, <1>2, <1>3, <1>4, <1>5, AtWork DEF Written, O!Update
<1>7. PICK h \in O!Handler :
           /\ desk' = [desk EXCEPT ![r] = h]
           /\ ReadingOK(h)'
           /\ \/ ~desk[r].own /\ h.at = "idle"
              \/ desk[r].own /\ h.at = "recheck" /\ h.who = desk[r].who
  BY <1>1, RecheckFollows DEF O!UploadWrite
<1>8. h.at = "idle" \/ (h.who = desk[r].who /\ Approving(desk[r]))
  BY <1>1, <1>7 DEF Approving, O!Promoting
<1>9. barred' = IF desk[r].own THEN barred ELSE barred \cup {desk[r].who}
  BY DEF O!UploadWrite, O!Bars
<1> QED BY <1>1, <1>4, <1>6, <1>7, <1>8, <1>9, DriverWriteInv DEF O!UploadWrite

LEMMA BanInv ==
  ASSUME DriversInv, NEW r \in Request, O!Ban(r)
  PROVE  DriversInv'
<1> DEFINE row0 == drivers[desk[r].who]
<1>1. desk[r].at = "ban" /\ row0 \in O!Row
  BY AtWork DEF O!Ban
<1>2. PICK row : row = [row0 EXCEPT !.status = "Banned"]
  OBVIOUS
<1>3. row \in O!Row /\ row.documents = row0.documents /\ row.status = "Banned"
  BY <1>1, <1>2 DEF O!Row, O!DriverStatus
<1>4. Written(desk[r].who, row)
  BY <1>2, <1>3 DEF Written, O!Ban, O!Update
<1> QED BY <1>1, <1>3, <1>4, FinishedOK, DriversIdle, DriverWriteInv DEF O!Ban, O!Finish

-----------------------------------------------------------------------------
(* Approval *)

LEMMA RecheckInv ==
  ASSUME DriversInv, NEW r \in Request, O!Recheck(r)
  PROVE  DriversInv'
<1> DEFINE g == [desk[r] EXCEPT !.at = "promote"]
<1>1. desk[r].at = "recheck"
  BY DEF O!Recheck
<1>2. CASE O!Complete(drivers[desk[r].who])
  <2>1. g \in O!Handler /\ g.at = "promote" /\ g.who = desk[r].who
    BY <1>1, AtWork DEF O!Handler, O!Stage
  <2>2. ReadingOK(g) /\ Approving(desk[r])
    BY <1>1, <1>2, <2>1, AtWork DEF ReadingOK, Approving
  <2> QED BY <1>1, <1>2, <2>1, <2>2, DriverQuietInv DEF O!Recheck
<1>3. CASE ~O!Complete(drivers[desk[r].who])
  BY <1>1, <1>3, DriversIdle, DriverQuietInv DEF O!Recheck, O!Finish
<1> QED BY <1>2, <1>3

\* The row was read some time ago; the documents are still complete.
LEMMA SubmitInv ==
  ASSUME DriversInv, NEW r \in Request, O!Submit(r)
  PROVE  DriversInv'
<1> DEFINE g == [desk[r] EXCEPT !.at = "promote", !.read = O!NoRow]
<1>1. desk[r].at = "submit" /\ O!Complete(desk[r].read)
  BY DEF O!Submit, O!Acceptable
<1>2. g \in O!Handler /\ g.at = "promote" /\ g.who = desk[r].who
  BY <1>1, AtWork, DriversIdle DEF O!Handler, O!Stage
<1>3. O!Complete(drivers[desk[r].who])
  <2>1. desk[r].read.documents = Document
    BY <1>1 DEF O!Complete
  <2>2. desk[r].read.documents \subseteq drivers[desk[r].who].documents
    BY <1>1 DEF DriversInv, ReadingOK
  <2>3. drivers[desk[r].who].documents \subseteq Document
    BY <1>1, AtWork DEF O!Row
  <2> QED BY <2>1, <2>2, <2>3 DEF O!Complete
<1>4. ReadingOK(g) /\ Approving(desk[r])
  BY <1>1, <1>2, <1>3, AtWork DEF ReadingOK, Approving, O!Promoting
<1>5. desk' = [desk EXCEPT ![r] = g]
  BY DEF O!Submit
<1> QED BY <1>1, <1>2, <1>4, <1>5, DriverQuietInv DEF O!Submit

LEMMA PromoteInv ==
  ASSUME DriversInv, NEW r \in Request, O!Promote(r)
  PROVE  DriversInv'
<1> DEFINE row0 == drivers[desk[r].who]
<1>1. desk[r].at = "promote" /\ row0 \in O!Row /\ O!Complete(row0)
  BY AtWork DEF O!Promote, DriversInv, ReadingOK
<1>2. PICK row : row = [row0 EXCEPT !.status = "UnderApproval"]
  OBVIOUS
<1>3. row \in O!Row /\ row.documents = row0.documents
  BY <1>1, <1>2 DEF O!Row, O!DriverStatus
<1>4. Written(desk[r].who, row)
  BY <1>1, <1>2, <1>3 DEF Written, O!Promote, O!Update, O!Complete
<1>5. Approving(desk[r])
  BY <1>1 DEF Approving
<1> QED
  BY <1>1, <1>3, <1>4, <1>5, FinishedOK, DriversIdle, DriverWriteInv DEF O!Promote, O!Finish

\* A row is created, or the back office approves: no handler is involved.
LEMMA CreateApproveInv ==
  ASSUME DriversInv, NEW d \in Applicant, O!Create(d) \/ O!Approve(d)
  PROVE  DriversInv'
<1>1. drivers[d] \in O!Row /\ UNCHANGED <<banned, barred, overlapped, desk>>
  BY DEF DriversInv, O!TypeOK, O!Create, O!Approve
<1>2. \E row : Written(d, row) /\ (drivers[d].status = "Banned" => row.status = "Banned")
  <2>1. CASE O!Create(d)
    <3>1. PICK located \in BOOLEAN :
            drivers' = [drivers EXCEPT ![d].life = "live", ![d].location = located]
      BY <2>1 DEF O!Create
    <3> DEFINE row == [drivers[d] EXCEPT !.life = "live", !.location = located]
    <3>2. drivers' = [drivers EXCEPT ![d] = row]
      BY <1>1, <3>1 DEF DriversInv, O!TypeOK
    <3>3. /\ row \in O!Row /\ row.documents = drivers[d].documents
          /\ row.status = drivers[d].status
      BY <1>1 DEF O!Row, O!Life
    <3>4. row.status \in {"UnderApproval", "Available"} => O!Complete(row)
      BY <3>3 DEF DriversInv, O!ReviewedHasDocuments, O!Complete
    <3> QED BY <3>2, <3>3, <3>4 DEF Written
  <2>2. CASE O!Approve(d)
    <3> DEFINE row == [drivers[d] EXCEPT !.status = "Available"]
    <3>1. drivers' = [drivers EXCEPT ![d] = row] /\ drivers[d].status = "UnderApproval"
      BY <2>2 DEF O!Approve
    <3>2. row \in O!Row /\ row.documents = drivers[d].documents
      BY <1>1 DEF O!Row, O!DriverStatus
    <3>3. O!Complete(row)
      BY <3>1, <3>2 DEF DriversInv, O!ReviewedHasDocuments, O!Complete
    <3> QED BY <3>1, <3>2, <3>3 DEF Written
  <2> QED BY <2>1, <2>2
<1>3. PICK row : Written(d, row) /\ (drivers[d].status = "Banned" => row.status = "Banned")
  BY <1>2
<1>4. /\ drivers' \in [Applicant -> O!Row] /\ drivers'[d] = row
      /\ \A e \in Applicant \ {d} : drivers'[e] = drivers[e]
      /\ \A e \in Applicant : drivers[e].documents \subseteq drivers'[e].documents
      /\ O!ReviewedHasDocuments'
  BY <1>3, RowWritten
<1>5. O!TypeOK' /\ OverlapsRecorded'
  BY <1>1, <1>4 DEF DriversInv, O!TypeOK, OverlapsRecorded
<1>6. ASSUME NEW q \in Request PROVE ReadingOK(desk[q])'
  BY <1>1, <1>4, ReadingStays DEF DriversInv, O!TypeOK
<1>7. ASSUME NEW e \in (barred \ overlapped)' PROVE BanStands(e)'
  <2>1. e \in Applicant /\ BanStands(e)
    BY <1>1, <1>7 DEF DriversInv, O!TypeOK
  <2>2. drivers'[e].status = "Banned"
    BY <1>3, <1>4, <2>1 DEF BanStands
  <2> QED BY <1>1, <2>1, <2>2 DEF BanStands
<1> QED BY <1>4, <1>5, <1>6, <1>7 DEF DriversInv

LEMMA DriversNextInv == DriversInv /\ [O!Next]_O!vars => DriversInv'
<1> SUFFICES ASSUME DriversInv, [O!Next]_O!vars PROVE DriversInv' OBVIOUS
<1>1. ASSUME UNCHANGED <<drivers, barred, overlapped, desk>>, banned' \subseteq Truck
      PROVE  DriversInv'
  <2>1. ASSUME NEW h PROVE ReadingOK(h)' = ReadingOK(h)
    BY <1>1 DEF ReadingOK, O!Complete, O!Idle, O!NoRow
  <2> QED
    BY <1>1, <2>1 DEF DriversInv, O!TypeOK, O!ReviewedHasDocuments, OverlapsRecorded, BanStands,
                      O!Complete
<1>2. CASE UNCHANGED O!vars
  BY <1>1, <1>2 DEF O!vars, DriversInv, O!TypeOK
<1>3. ASSUME NEW v \in Truck, O!VehicleChanges(v) PROVE DriversInv'
  BY <1>1, <1>3 DEF O!VehicleChanges, DriversInv, O!TypeOK
<1>4. ASSUME NEW r \in Request, O!Fail(r) PROVE DriversInv'
  <2>1. desk[r].at # "idle"
    BY <1>4 DEF O!Fail, DriversInv, ReadingOK
  <2> QED BY <1>4, <2>1, DriversIdle, DriverQuietInv DEF O!Fail, O!Finish
<1>5. ASSUME NEW r \in Request, O!Step(r) PROVE DriversInv'
  BY <1>4, <1>5, DriverBeginInv, ProfileWriteInv, EditWriteInv, UploadWriteInv, BanInv,
     AssignVerifyRemoveInv, RecheckInv, SubmitInv, PromoteInv DEF O!Step
<1> QED BY <1>2, <1>3, <1>5, CreateApproveInv DEF O!Next

-----------------------------------------------------------------------------
(* Estimates: amounts *)

\* Half a unit is the most that rounding to paise takes or adds.
LEMMA RoundedPercent ==
  ASSUME NEW n \in Nat
  PROVE  E!Rounded(n, 100) \in Nat /\ 100 * E!Rounded(n, 100) - n \in -50..50
BY DEF E!Rounded

LEMMA PricedIsQuote ==
  ASSUME NEW base \in Nat, NEW amount \in Nat
  PROVE  LET quote == E!Priced(base, amount) IN
         /\ quote \in E!Quote /\ quote.base = base
         /\ quote.grand = amount + 2 * E!Gst(amount)
         /\ E!Gst(amount) \in Nat /\ 100 * E!Gst(amount) - 9 * amount \in -50..50
<1>1. /\ E!Rounded(amount * 9, 100) \in Nat
      /\ 100 * E!Rounded(amount * 9, 100) - amount * 9 \in -50..50
  BY RoundedPercent
<1>2. E!Gst(amount) \in Nat /\ 100 * E!Gst(amount) - 9 * amount \in -50..50
  BY <1>1 DEF E!Gst
<1> QED BY <1>2 DEF E!Priced, E!Quote

\* The fixed price, or the line through it.
Due(p, m) ==
  LET line == 1000 * p.fixPrice + (m - p.fixDistance) * p.extraPrice IN
  IF p.journey = "ThreeWay" \/ line < 1000 * p.fixPrice THEN 1000 * p.fixPrice ELSE line

IsLinear(quote) ==
  /\ \E p \in Price, m \in Distance : 1000 * quote.base - Due(p, m) \in -500..500
  /\ 100 * (quote.grand - quote.base) - 18 * quote.base \in -100..100

\* A natural number of paise, half a one off at most.
IsDue(total, p, m) == total \in Nat /\ 1000 * total - Due(p, m) \in -500..500

LEMMA TotalIsLinear ==
  ASSUME NEW p \in Price, NEW m \in Distance
  PROVE  IsDue(E!Total(p, m), p, m)
<1> SUFFICES E!Total(p, m) \in Nat /\ 1000 * E!Total(p, m) - Due(p, m) \in -500..500
  BY DEF IsDue
<1>1. /\ p.fixDistance \in Nat /\ p.fixPrice \in Nat /\ p.extraPrice \in Nat /\ m \in Nat
  BY EstimatesAssumption
<1>2. CASE p.journey = "ThreeWay" \/ m <= p.fixDistance
  <2> DEFINE driven == IF p.journey = "ThreeWay" THEN 0 ELSE m
  <2>1. E!AtLeastZero(driven - p.fixDistance) = 0
    BY <1>1, <1>2 DEF E!AtLeastZero
  <2>2. 0 * p.extraPrice = 0 /\ E!Rounded(0, 1000) = 0
    BY <1>1 DEF E!Rounded
  <2>3. E!Total(p, m) = p.fixPrice
    BY <1>1, <2>1, <2>2 DEF E!Total
  <2>4. CASE p.journey = "ThreeWay"
    BY <1>1, <2>3, <2>4 DEF Due
  <2>5. CASE p.journey # "ThreeWay"
    <3>1. m - p.fixDistance <= 0 /\ m - p.fixDistance \in Int
      BY <1>1, <1>2, <2>5
    <3>2. PICK n \in Int : n = (m - p.fixDistance) * p.extraPrice
      BY <1>1
    <3>3. n <= 0
      BY <1>1, <3>1, <3>2
    <3>4. Due(p, m) = IF n < 0 THEN 1000 * p.fixPrice ELSE 1000 * p.fixPrice + n
      BY <1>1, <2>5, <3>2 DEF Due
    <3> QED BY <1>1, <2>3, <3>3, <3>4
  <2> QED BY <2>4, <2>5
<1>3. CASE p.journey # "ThreeWay" /\ m > p.fixDistance
  <2>1. E!AtLeastZero(m - p.fixDistance) = m - p.fixDistance /\ m - p.fixDistance \in Nat
    BY <1>1, <1>3 DEF E!AtLeastZero
  <2>2. PICK n \in Nat : n = (m - p.fixDistance) * p.extraPrice
    BY <1>1, <2>1
  <2>3. E!Total(p, m) = p.fixPrice + E!Rounded(n, 1000)
    BY <1>1, <1>3, <2>1, <2>2 DEF E!Total
  <2>4. Due(p, m) = 1000 * p.fixPrice + n
    BY <1>1, <1>3, <2>2 DEF Due
  <2>5. E!Rounded(n, 1000) \in Nat /\ 1000 * E!Rounded(n, 1000) - n \in -500..500
    BY DEF E!Rounded
  <2> QED BY <1>1, <2>3, <2>4, <2>5
<1> QED BY <1>1, <1>2, <1>3

LEMMA DiscountIsNatural ==
  ASSUME NEW quote, quote.base \in Nat, NEW percent \in Nat
  PROVE  E!Discount(quote, percent) \in Nat /\ (percent = 0 => E!Discount(quote, percent) = 0)
<1>1. quote.base * percent \in Nat /\ (percent = 0 => quote.base * percent = 0)
  OBVIOUS
<1>2. E!Rounded(0, 100) = 0
  BY DEF E!Rounded
<1> QED BY <1>1, <1>2, RoundedPercent DEF E!Discount

-----------------------------------------------------------------------------
(* Estimates: the quickest driver *)

LEMMA LeastExists ==
  ASSUME NEW T, T \subseteq Nat, T # {}
  PROVE  \E s \in T : \A t \in T : s <= t
<1>1. PICK s \in T : \A t \in T : <<t, s>> \notin OpToRel(<, Nat)
  BY NatLessThanWellFounded, WFMin
<1>2. \A s1, t1 \in Nat : t1 < s1 => <<t1, s1>> \in OpToRel(<, Nat)
  BY DEF OpToRel
<1>3. \A t \in T : ~(t < s)
  BY <1>1, <1>2
<1>4. s \in Nat /\ \A t \in T : t \in Nat
  OBVIOUS
<1> QED BY <1>3, <1>4

FleetRow == [available : BOOLEAN, linear : Straight, seconds : Seconds \cup {None}]

LEMMA BestIsLeast ==
  ASSUME fleet \in [Driver -> FleetRow], NEW near \in SUBSET Driver
  PROVE  \/ E!Routed(near) = {} /\ E!Best(near) = None
         \/ /\ E!Best(near) \in Nat
            /\ \E d \in E!Routed(near) : fleet[d].seconds = E!Best(near)
            /\ \A d \in E!Routed(near) : E!Best(near) <= fleet[d].seconds
<1>1. CASE E!Routed(near) = {}
  BY <1>1 DEF E!Best
<1>2. CASE E!Routed(near) # {}
  <2> DEFINE T == {fleet[d].seconds : d \in E!Routed(near)}
             Least(s) == \A d \in E!Routed(near) : s <= fleet[d].seconds
  <2>0. \A d \in E!Routed(near) : fleet[d].seconds \in Seconds
    BY DEF E!Routed, FleetRow
  <2>1. T \subseteq Nat /\ T # {}
    <3>1. T # {}
      <4>1. PICK d \in E!Routed(near) : TRUE
        BY <1>2
      <4>2. fleet[d].seconds \in T
        OBVIOUS
      <4> QED BY <4>2
    <3> QED BY <2>0, <3>1, EstimatesAssumption
  <2>2. \E s \in T : Least(s)
    <3>1. PICK s \in T : \A t \in T : s <= t
      <4> HIDE DEF T
      <4> QED BY <2>1, LeastExists
    <3> QED BY <3>1
  <2>3. E!Best(near) = CHOOSE s \in T : Least(s)
    BY <1>2 DEF E!Best
  <2>4. E!Best(near) \in T /\ Least(E!Best(near))
    BY <2>2, <2>3
  <2> QED BY <2>1, <2>4
<1> QED BY <1>1, <1>2

\* The cardinality that Estimates means is that of the theorems.
LEMMA SameCardinality ==
  ASSUME NEW S PROVE E!Cardinality(S) = Cardinality(S)
BY DEF E!Cardinality, Cardinality

\* Who is not among the candidates has Limit of them that are no farther away.
LEMMA NearestAreCloser ==
  ASSUME NEW near, E!IsNearest(near), NEW d \in E!Available \ near
  PROVE  Cardinality({e \in E!Available \ {d} : fleet[e].linear <= fleet[d].linear}) >= Limit
<1> DEFINE S == {e \in E!Available \ {d} : fleet[e].linear <= fleet[d].linear}
<1>1. IsFiniteSet(E!Available) /\ near \in SUBSET E!Available
  BY EstimatesAssumption, FS_Subset DEF E!Available, E!IsNearest
<1>2. Cardinality(near) # Cardinality(E!Available)
  BY <1>1, FS_Subset
<1>3. Cardinality(near) = Limit
  <2>1. Cardinality(near) \in Nat /\ Cardinality(E!Available) \in Nat /\ Limit \in Nat
    BY <1>1, FS_Subset, FS_CardinalityType, EstimatesAssumption
  <2> QED BY <1>2, <2>1, SameCardinality DEF E!IsNearest
<1>4. near \in SUBSET S /\ S \in SUBSET E!Available
  BY <1>1 DEF E!IsNearest
<1>5. IsFiniteSet(S)
  BY <1>1, <1>4, FS_Subset
<1>6. Cardinality(near) <= Cardinality(S) /\ Cardinality(S) \in Nat
  BY <1>4, <1>5, FS_Subset, FS_CardinalityType
<1> QED BY <1>3, <1>6, EstimatesAssumption

-----------------------------------------------------------------------------
(* Estimates: the invariant *)

\* The quote is for the whole price.
Whole(quote) == \E b \in Nat : quote = E!Priced(b, b)

\* The quote for what the discount leaves.
Reduced(quote, percent) ==
  E!Priced(quote.base, E!AtLeastZero(quote.base - E!Discount(quote, percent)))

EstimatesInv ==
  /\ E!TypeOK
  /\ fleet \in [Driver -> FleetRow]
  /\ estimate # None => Whole(estimate)
  /\ shown # None => estimate # None /\ shown.quote = Reduced(estimate, shown.percent)
  /\ E!EstimateIsLinear /\ E!ChargedAsEstimated /\ E!ArrivalIsQuickest

LEMMA EstimatesInit == E!Init => EstimatesInv
BY DEF E!Init, EstimatesInv, E!TypeOK, FleetRow, E!EstimateIsLinear, E!ChargedAsEstimated,
       E!ArrivalIsQuickest

LEMMA WholeIsQuote ==
  ASSUME NEW quote, Whole(quote)
  PROVE  quote \in E!Quote /\ quote = E!Priced(quote.base, quote.base)
<1>1. PICK b \in Nat : quote = E!Priced(b, b)
  BY DEF Whole
<1> QED BY <1>1, PricedIsQuote

\* The taxes of a whole amount and of what a discount leaves differ by those of the
\* discount, within two paise.
LEMMA TaxesOfDiscount ==
  ASSUME NEW base \in Nat, NEW discount \in Nat, discount <= base,
         NEW whole \in Nat, 100 * whole - 9 * base \in -50..50,
         NEW less \in Nat, 100 * less - 9 * (base - discount) \in -50..50
  PROVE  100 * ((base + 2 * whole) - discount - ((base - discount) + 2 * less))
           - 18 * discount \in -200..200
OBVIOUS

\* What an order takes off the discounted quote, and what it leaves on the whole one.
LEMMA ReducedIsLess ==
  ASSUME NEW quote, Whole(quote), NEW percent \in Percent
  PROVE  LET told == Reduced(quote, percent)
             discount == E!Discount(quote, percent)
         IN
         /\ told \in E!Quote /\ told.base = quote.base /\ told.grand <= quote.grand
         /\ discount \in Nat
         /\ discount <= quote.base =>
              100 * (quote.grand - discount - told.grand) - 18 * discount \in -200..200
<1>1. /\ quote.base \in Nat /\ quote = E!Priced(quote.base, quote.base) /\ percent \in Nat
      /\ quote.grand \in Nat
  BY WholeIsQuote, EstimatesAssumption DEF E!Quote
<1>2. PICK discount \in Nat : discount = E!Discount(quote, percent)
  BY <1>1, DiscountIsNatural
<1>3. PICK left \in Nat : /\ left = E!AtLeastZero(quote.base - discount)
                          /\ left <= quote.base
                          /\ discount <= quote.base => left = quote.base - discount
  BY <1>1, <1>2 DEF E!AtLeastZero
<1>4. PICK told : told = Reduced(quote, percent)
  OBVIOUS
<1>5. /\ told \in E!Quote /\ told.base = quote.base
      /\ told.grand = left + 2 * E!Gst(left)
      /\ E!Gst(left) \in Nat /\ 100 * E!Gst(left) - 9 * left \in -50..50
  <2>1. PICK b \in Nat : b = quote.base
    BY <1>1
  <2>2. told = E!Priced(b, left)
    BY <1>2, <1>3, <1>4, <2>1 DEF Reduced
  <2> QED BY <2>1, <2>2, PricedIsQuote
<1>6. /\ quote.grand = quote.base + 2 * E!Gst(quote.base)
      /\ E!Gst(quote.base) \in Nat /\ 100 * E!Gst(quote.base) - 9 * quote.base \in -50..50
  <2>1. PICK b \in Nat : b = quote.base /\ quote = E!Priced(b, b)
    BY <1>1
  <2>2. PICK whole : whole = E!Priced(b, b)
    OBVIOUS
  <2>3. /\ whole.grand = b + 2 * E!Gst(b)
        /\ E!Gst(b) \in Nat /\ 100 * E!Gst(b) - 9 * b \in -50..50
    BY <2>2, PricedIsQuote
  <2>4. quote = whole
    BY <2>1, <2>2
  <2> QED BY <2>1, <2>3, <2>4
<1>7. told.grand <= quote.grand
  <2>1. CASE left = quote.base
    BY <1>5, <1>6, <2>1
  <2>2. CASE left + 1 <= quote.base
    BY <1>1, <1>3, <1>5, <1>6, <2>2
  <2> QED BY <1>1, <1>3, <2>1, <2>2
<1>8. discount <= quote.base =>
        100 * (quote.grand - discount - told.grand) - 18 * discount \in -200..200
  <2> SUFFICES ASSUME discount <= quote.base
               PROVE  100 * (quote.grand - discount - told.grand) - 18 * discount \in -200..200
    OBVIOUS
  <2>1. PICK base \in Nat, whole \in Nat, less \in Nat :
          base = quote.base /\ whole = E!Gst(base) /\ less = E!Gst(left)
    BY <1>1, <1>5, <1>6
  <2>2. left = base - discount
    BY <1>3, <2>1
  <2>3. quote.grand = base + 2 * whole /\ 100 * whole - 9 * base \in -50..50
    BY <1>6, <2>1
  <2>4. /\ told.grand = (base - discount) + 2 * less
        /\ 100 * less - 9 * (base - discount) \in -50..50
    BY <1>5, <2>1, <2>2
  <2>5. 100 * ((base + 2 * whole) - discount - ((base - discount) + 2 * less))
          - 18 * discount \in -200..200
    <3>1. discount <= base
      BY <2>1
    <3> QED BY <2>3, <2>4, <3>1, TaxesOfDiscount
  <2> QED BY <2>3, <2>4, <2>5
<1> QED BY <1>2, <1>4, <1>5, <1>7, <1>8

\* A new answer: the line and the quickest driver.
LEMMA GetEstimateInv ==
  ASSUME EstimatesInv, NEW metres \in Distance, NEW near \in SUBSET Driver,
         E!GetEstimate(metres, near)
  PROVE  EstimatesInv'
<1>1. /\ order = None /\ E!IsNearest(near) /\ price \in Price
      /\ UNCHANGED <<price, fleet, order>> /\ shown' = None
      /\ fleet \in [Driver -> FleetRow]
  BY DEF E!GetEstimate, EstimatesInv, E!TypeOK
<1>2. PICK total \in Nat : estimate' = E!Priced(total, total) /\ IsDue(total, price, metres)
  <2>1. E!Total(price, metres) \in Nat /\ IsDue(E!Total(price, metres), price, metres)
    BY <1>1, TotalIsLinear DEF IsDue
  <2> QED BY <2>1 DEF E!GetEstimate
<1>3. arrival' = E!Best(near)
  BY DEF E!GetEstimate
<1>4. /\ estimate' \in E!Quote /\ estimate'.base = total
      /\ estimate'.grand = total + 2 * E!Gst(total)
      /\ E!Gst(total) \in Nat /\ 100 * E!Gst(total) - 9 * total \in -50..50
  <2>1. PICK quote : quote = E!Priced(total, total)
    OBVIOUS
  <2>2. /\ quote \in E!Quote /\ quote.base = total
        /\ quote.grand = total + 2 * E!Gst(total)
        /\ E!Gst(total) \in Nat /\ 100 * E!Gst(total) - 9 * total \in -50..50
    BY <2>1, PricedIsQuote
  <2> QED BY <1>2, <2>1, <2>2
<1>5. E!EstimateIsLinear'
  <2>1. \E p \in Price, m \in Distance : 1000 * estimate'.base - Due(p, m) \in -500..500
    BY <1>1, <1>2, <1>4 DEF IsDue
  <2>2. 100 * (estimate'.grand - estimate'.base) - 18 * estimate'.base \in -100..100
    BY <1>4
  <2> QED BY <2>1, <2>2 DEF E!EstimateIsLinear, Due
<1>6. arrival' \in Nat \cup {None}
  BY <1>1, <1>3, BestIsLeast
<1>7. E!ArrivalIsQuickest'
  <2>1. E!Routed(near) \subseteq E!Available
    BY <1>1 DEF E!Routed, E!IsNearest
  <2>2. arrival' = None \/ \E d \in E!Available : fleet[d].seconds = arrival'
    BY <1>1, <1>3, <2>1, BestIsLeast
  <2>3. ASSUME NEW d \in E!Available, fleet[d].seconds # None,
               arrival' = None \/ fleet[d].seconds < arrival'
        PROVE  Cardinality({e \in E!Available \ {d} : fleet[e].linear <= fleet[d].linear})
                 >= Limit
    <3>1. d \notin near
      <4>1. SUFFICES ASSUME d \in near PROVE FALSE
        OBVIOUS
      <4>2. d \in E!Routed(near) /\ fleet[d].seconds \in Nat
        BY <1>1, <2>3, <4>1, EstimatesAssumption DEF E!Routed, FleetRow, E!Available
      <4>3. arrival' \in Nat /\ arrival' <= fleet[d].seconds
        BY <1>1, <1>3, <4>2, BestIsLeast
      <4> QED BY <2>3, <4>2, <4>3, EstimatesAssumption
    <3> QED BY <1>1, <3>1, NearestAreCloser
  <2> QED BY <1>1, <2>2, <2>3, SameCardinality DEF E!ArrivalIsQuickest, E!Available
<1>8. E!TypeOK' /\ E!ChargedAsEstimated' /\ Whole(estimate)'
  BY <1>1, <1>2, <1>4, <1>6 DEF E!TypeOK, E!ChargedAsEstimated, EstimatesInv, Whole
<1> QED BY <1>1, <1>5, <1>7, <1>8 DEF EstimatesInv

\* What the app has been told stays, and the rest keeps its type.
LEMMA ToldStays ==
  ASSUME EstimatesInv, UNCHANGED <<fleet, estimate, arrival>>, E!TypeOK',
         shown' # None => estimate # None /\ shown'.quote = Reduced(estimate, shown'.percent),
         E!ChargedAsEstimated'
  PROVE  EstimatesInv'
<1>1. E!EstimateIsLinear'
  <2>1. E!EstimateIsLinear <=> (estimate # None => IsLinear(estimate))
    BY DEF E!EstimateIsLinear, IsLinear, Due
  <2>2. E!EstimateIsLinear' <=> (estimate' # None => IsLinear(estimate'))
    BY DEF E!EstimateIsLinear, IsLinear, Due
  <2>3. E!EstimateIsLinear
    BY DEF EstimatesInv
  <2> QED BY <2>1, <2>2, <2>3
<1>2. E!ArrivalIsQuickest'
  BY DEF EstimatesInv, E!ArrivalIsQuickest, E!Available
<1>3. estimate # None => Whole(estimate)'
  BY DEF EstimatesInv, Whole
<1>4. shown' # None => (shown.quote = Reduced(estimate, shown.percent))'
  BY DEF Reduced
<1> QED BY <1>1, <1>2, <1>3, <1>4 DEF EstimatesInv

LEMMA CalculateDiscountInv ==
  ASSUME EstimatesInv, NEW percent \in Percent, E!CalculateDiscount(percent)
  PROVE  EstimatesInv'
<1>1. /\ order = None /\ estimate # None /\ Whole(estimate)
      /\ shown' = [percent |-> percent, quote |-> Reduced(estimate, percent)]
      /\ UNCHANGED <<price, fleet, estimate, arrival, order>>
  BY DEF E!CalculateDiscount, EstimatesInv, Reduced
<1>2. Reduced(estimate, percent) \in E!Quote
  BY <1>1, ReducedIsLess
<1>3. E!TypeOK'
  BY <1>1, <1>2 DEF EstimatesInv, E!TypeOK
<1>4. shown'.quote = Reduced(estimate, shown'.percent)
  BY <1>1
<1>5. E!ChargedAsEstimated'
  BY <1>1 DEF E!ChargedAsEstimated
<1> QED BY <1>1, <1>3, <1>4, <1>5, ToldStays

\* What the app has been answered is the estimate, or the estimate less the discount.
LEMMA AnsweredIsQuote ==
  ASSUME EstimatesInv, NEW quote \in E!Answered
  PROVE  /\ estimate # None /\ Whole(estimate)
         /\ estimate \in E!Quote /\ quote \in E!Quote
         /\ quote.base = estimate.base /\ quote.grand <= estimate.grand
         /\ quote = estimate \/ (shown # None /\ quote = shown.quote)
<1>1. (quote = estimate /\ estimate # None) \/ (shown # None /\ quote = shown.quote)
  BY DEF E!Answered
<1>2. estimate # None /\ Whole(estimate)
  BY <1>1 DEF EstimatesInv
<1>3. estimate \in E!Quote /\ estimate.grand \in Nat
  BY <1>2, WholeIsQuote DEF E!Quote
<1>4. CASE shown # None /\ quote = shown.quote
  <2>1. shown.percent \in Percent /\ quote = Reduced(estimate, shown.percent)
    BY <1>4 DEF EstimatesInv, E!TypeOK
  <2> QED BY <1>2, <1>3, <1>4, <2>1, ReducedIsLess
<1> QED BY <1>1, <1>2, <1>3, <1>4

LEMMA CreateOrderInv ==
  ASSUME EstimatesInv, NEW quote \in E!Answered \cup Foreign, E!CreateOrder(quote)
  PROVE  EstimatesInv'
<1>1. /\ UNCHANGED <<price, fleet, estimate, arrival, shown>>
      /\ order' = [discount |-> 0, percent |-> None, sent |-> quote,
                   final |-> IF quote.grand = 0 THEN None ELSE quote.grand]
  BY DEF E!CreateOrder
<1>2. quote \in E!Quote \cup Foreign /\ quote.grand \in Int
  BY AnsweredIsQuote, EstimatesAssumption DEF E!Quote
<1>3. E!TypeOK'
  BY <1>1, <1>2 DEF EstimatesInv, E!TypeOK
<1>4. E!ChargedAsEstimated'
  <2> SUFFICES ASSUME quote \in E!Answered PROVE E!ChargedAsEstimated'
    BY <1>1 DEF E!ChargedAsEstimated, E!Answered
  <2>1. quote.grand \in Nat /\ estimate.grand \in Nat /\ quote.grand <= estimate.grand
    BY AnsweredIsQuote DEF E!Quote
  <2>2. shown # None => shown.percent # None
    <3>1. shown # None => shown.percent \in Percent
      BY DEF EstimatesInv, E!TypeOK
    <3>2. \A percent \in Percent : percent \in Int
      BY EstimatesAssumption
    <3>3. None \notin Int
      BY EstimatesAssumption
    <3> QED BY <3>1, <3>2, <3>3, Zenon
  <2>3. (IF order'.final = None THEN 0 ELSE order'.final) = quote.grand
    BY <1>1, <2>1, EstimatesAssumption
  <2>4. /\ order'.percent = None /\ order'.sent = quote
        /\ shown' = shown /\ estimate' = estimate
    BY <1>1
  <2>5. quote.grand \in 0..estimate.grand
    BY <2>1
  <2> QED BY <2>2, <2>3, <2>4, <2>5 DEF E!ChargedAsEstimated
<1> QED BY <1>1, <1>3, <1>4, ToldStays DEF EstimatesInv

LEMMA CreateOrderWithVoucherInv ==
  ASSUME EstimatesInv, NEW quote \in E!Answered \cup Foreign, NEW percent \in Percent,
         E!CreateOrderWithVoucher(quote, percent)
  PROVE  EstimatesInv'
<1>1. UNCHANGED <<price, fleet, estimate, arrival, shown>>
  BY DEF E!CreateOrderWithVoucher
<1>2. /\ quote \in E!Quote \cup Foreign /\ quote.base \in Int /\ quote.grand \in Int
      /\ percent \in Nat /\ percent # None
  BY AnsweredIsQuote, EstimatesAssumption DEF E!Quote
<1>3. PICK discount \in Int : discount = E!Discount(quote, percent)
  <2>1. quote.base * percent \in Int
    BY <1>2
  <2> QED BY <2>1 DEF E!Discount, E!Rounded
<1>4. PICK due \in Nat :
        /\ due = E!Net(quote, discount)
        /\ due = IF quote.grand - discount < 0 THEN 0 ELSE quote.grand - discount
  BY <1>2, <1>3 DEF E!Net, E!AtLeastZero
<1>5. order' = [discount |-> discount, percent |-> percent, sent |-> quote, final |-> due]
  BY <1>3, <1>4 DEF E!CreateOrderWithVoucher
<1>6. E!TypeOK'
  BY <1>1, <1>2, <1>5 DEF EstimatesInv, E!TypeOK
<1>7. E!ChargedAsEstimated'
  <2> SUFFICES ASSUME quote \in E!Answered PROVE E!ChargedAsEstimated'
    BY <1>1, <1>5 DEF E!ChargedAsEstimated, E!Answered
  <2>1. /\ Whole(estimate) /\ quote.base = estimate.base /\ quote.grand <= estimate.grand
        /\ quote.base \in Nat /\ quote.grand \in Nat /\ estimate.grand \in Nat
        /\ quote = estimate \/ (shown # None /\ quote = shown.quote)
    BY AnsweredIsQuote DEF E!Quote
  <2>2. discount \in Nat /\ discount = E!Discount(estimate, percent)
    BY <1>2, <1>3, <2>1, DiscountIsNatural DEF E!Discount
  <2>3. due \in 0..estimate.grand
    BY <1>4, <2>1, <2>2
  <2>4. ASSUME shown # None, percent = shown.percent, discount <= estimate.base
        PROVE  \/ quote = estimate /\
                    100 * (due - shown.quote.grand) - 18 * discount \in -200..200
               \/ quote = shown.quote /\ due - shown.quote.grand \in (-discount)..0
    <3>1. PICK told : told = shown.quote /\ told = Reduced(estimate, percent)
      BY <2>4 DEF EstimatesInv
    <3>2. /\ told \in E!Quote
          /\ 100 * (estimate.grand - discount - told.grand) - 18 * discount \in -200..200
      <4>1. PICK d : d = E!Discount(estimate, percent)
        OBVIOUS
      <4>2. /\ told \in E!Quote
            /\ d <= estimate.base =>
                 100 * (estimate.grand - d - told.grand) - 18 * d \in -200..200
        BY <2>1, <3>1, <4>1, ReducedIsLess
      <4> QED BY <2>2, <2>4, <4>1, <4>2
    <3>3. CASE quote = estimate
      <4>1. estimate.base <= estimate.grand
        <5>1. PICK b \in Nat : estimate = E!Priced(b, b)
          BY <2>1 DEF Whole
        <5>2. /\ estimate.base = b /\ estimate.grand = b + 2 * E!Gst(b)
              /\ E!Gst(b) \in Nat
          BY <5>1, PricedIsQuote
        <5> QED BY <5>2
      <4>2. due = estimate.grand - discount
        BY <1>4, <2>1, <2>2, <2>4, <3>3, <4>1
      <4>3. 100 * (due - told.grand) - 18 * discount \in -200..200
        BY <3>2, <4>2
      <4> QED BY <3>1, <3>3, <4>3
    <3>4. CASE quote = shown.quote
      <4>1. told.grand \in Nat /\ quote.grand = told.grand
        BY <3>1, <3>2, <3>4 DEF E!Quote
      <4>2. due - told.grand \in (-discount)..0
        BY <1>4, <2>2, <4>1
      <4> QED BY <3>1, <3>4, <4>2
    <3> QED BY <2>1, <3>3, <3>4
  <2>5. due # None
    BY EstimatesAssumption
  <2> QED BY <1>1, <1>2, <1>5, <2>3, <2>4, <2>5 DEF E!ChargedAsEstimated
<1> QED BY <1>1, <1>6, <1>7, ToldStays DEF EstimatesInv

LEMMA EstimatesNextInv == EstimatesInv /\ [E!Next]_E!vars => EstimatesInv'
<1> SUFFICES ASSUME EstimatesInv, [E!Next]_E!vars PROVE EstimatesInv' OBVIOUS
<1>1. ASSUME UNCHANGED <<fleet, estimate, arrival, shown, order>>, price' \in Price
      PROVE  EstimatesInv'
  <2>1. E!TypeOK'
    BY <1>1 DEF EstimatesInv, E!TypeOK
  <2>2. E!Answered' = E!Answered
    BY <1>1 DEF E!Answered
  <2>3. E!ChargedAsEstimated'
    BY <1>1, <2>2 DEF EstimatesInv, E!ChargedAsEstimated
  <2>4. shown' # None => estimate # None /\ shown'.quote = Reduced(estimate, shown'.percent)
    BY <1>1 DEF EstimatesInv
  <2> QED BY <1>1, <2>1, <2>3, <2>4, ToldStays
<1>2. CASE UNCHANGED E!vars
  BY <1>1, <1>2 DEF E!vars, EstimatesInv, E!TypeOK
<1>3. ASSUME NEW p \in Price, E!SetPrice(p) PROVE EstimatesInv'
  BY <1>1, <1>3 DEF E!SetPrice
<1> QED
  BY <1>2, <1>3, GetEstimateInv, CalculateDiscountInv, CreateOrderInv,
     CreateOrderWithVoucherInv DEF E!Next

-----------------------------------------------------------------------------
(* The records together: what CustomerRecords_Proofs shows of the customers *)
(* holds of those here, which are the same module twice                     *)

LEMMA SameCustomers ==
  /\ C!Init => CP!Init
  /\ [C!Next]_C!vars => [CP!Next]_CP!vars
  /\ CP!TypeOK => C!TypeOK
  /\ CP!OneDefaultUnlessContested => C!OneDefaultUnlessContested
  /\ CP!NoVehicleOutlivesCustomer => C!NoVehicleOutlivesCustomer
<1>1. C!Init => CP!Init
  BY DEF C!Init, CP!Init, C!Idle, CP!Idle
<1>2. [C!Next]_C!vars => [CP!Next]_CP!vars
  BY DEF C!Next, CP!Next, C!vars, CP!vars, C!bookVars, CP!bookVars,
         C!ownVars, CP!ownVars, C!OwnNext, CP!OwnNext, C!BookNext, CP!BookNext, C!Step,
         CP!Step,
         C!Idle, CP!Idle, C!Addresses, CP!Addresses, C!Defaults, CP!Defaults, C!Enter,
         CP!Enter, C!Proceed, CP!Proceed, C!SetsDefault, CP!SetsDefault, C!Expects,
         CP!Expects, C!Goto, CP!Goto, C!Finish, CP!Finish, C!Fail, CP!Fail,
         C!RegisterBegin, CP!RegisterBegin, C!Register, CP!Register, C!GiveVoucher,
         CP!GiveVoucher, C!OwnBegin, CP!OwnBegin, C!AddVehicle, CP!AddVehicle,
         C!DropBegin, CP!DropBegin, C!DropVehicle, CP!DropVehicle, C!DeleteCustomer,
         CP!DeleteCustomer,
         C!SaveBegin, CP!SaveBegin, C!CountAddresses, CP!CountAddresses,
         C!ClearDefaults, CP!ClearDefaults, C!InsertAddress, CP!InsertAddress,
         C!UpdateBegin, CP!UpdateBegin, C!UpdateAddress, CP!UpdateAddress,
         C!RemoveBegin, CP!RemoveBegin, C!RemoveAddress, CP!RemoveAddress
<1>3. CP!TypeOK => C!TypeOK
  BY DEF C!TypeOK, CP!TypeOK, C!Life, CP!Life, C!VehicleRow, CP!VehicleRow, C!AddressRow,
         CP!AddressRow, C!Handler, CP!Handler, C!Stage, CP!Stage
<1>4. CP!OneDefaultUnlessContested => C!OneDefaultUnlessContested
  BY DEF C!OneDefaultUnlessContested, CP!OneDefaultUnlessContested, C!Defaults, CP!Defaults,
         C!Addresses, CP!Addresses, C!SetsDefault, CP!SetsDefault
<1>5. CP!NoVehicleOutlivesCustomer => C!NoVehicleOutlivesCustomer
  BY DEF C!NoVehicleOutlivesCustomer, CP!NoVehicleOutlivesCustomer
<1> QED BY <1>1, <1>2, <1>3, <1>4, <1>5

LEMMA CustomersNull == CP!NullIsApart
BY CustomersAssumption DEF CP!NullIsApart, C!AddressRow, CP!AddressRow

LEMMA CustomersInit == C!Init => CP!Inv
BY SameCustomers, CustomersNull, CP!InitInv

LEMMA CustomersNextInv == CP!Inv /\ [C!Next]_C!vars => CP!Inv'
BY SameCustomers, CustomersNull, CP!NextInv

\* The invariant of the module that runs, and the registers'.
BackOfficeInv ==
  /\ Inv
  /\ part = "customers" => CP!Inv
  /\ part = "catalogue" => CatalogueInv
  /\ part = "drivers" => DriversInv
  /\ part = "estimates" => EstimatesInv

backOfficeVars ==
  <<part, vars, customerVars, catalogueVars, driverVars, estimateVars, deskVars>>

LEMMA BackOfficeInit == MCInit => BackOfficeInv
BY InitInv, CustomersInit, CatalogueInit, DriversInit, EstimatesInit DEF MCInit, BackOfficeInv

LEMMA BackOfficeNextInv == BackOfficeInv /\ [MCNext]_backOfficeVars => BackOfficeInv'
<1> SUFFICES ASSUME BackOfficeInv, [MCNext]_backOfficeVars PROVE BackOfficeInv' OBVIOUS
<1>1. CASE RegistryNext
  <2>1. Inv'
    BY <1>1, StepInv DEF RegistryNext, Next, BackOfficeInv
  <2> QED BY <1>1, <2>1 DEF RegistryNext, BackOfficeInv
<1>2. ASSUME UNCHANGED <<part, vars>> PROVE Inv' /\ part' = part
  BY <1>2, StutterInv DEF BackOfficeInv
<1>3. CASE CustomersNext
  BY <1>2, <1>3, CustomersNextInv DEF CustomersNext, BackOfficeInv
<1>4. CASE CatalogueNext
  BY <1>2, <1>4, CatalogueNextInv DEF CatalogueNext, BackOfficeInv
<1>5. CASE DriversNext
  BY <1>2, <1>5, DriversNextInv DEF DriversNext, BackOfficeInv
<1>6. CASE EstimatesNext
  BY <1>2, <1>6, EstimatesNextInv DEF EstimatesNext, BackOfficeInv
<1>7. CASE UNCHANGED backOfficeVars
  <2>1. /\ UNCHANGED <<part, vars>>
        /\ UNCHANGED C!vars /\ UNCHANGED K!vars /\ UNCHANGED O!vars /\ UNCHANGED E!vars
    BY <1>7 DEF backOfficeVars, customerVars, catalogueVars, driverVars, estimateVars,
                deskVars, C!vars, K!vars, O!vars, E!vars
  <2> QED
    BY <1>2, <2>1, CustomersNextInv, CatalogueNextInv, DriversNextInv, EstimatesNextInv
       DEF BackOfficeInv
<1> QED BY <1>1, <1>3, <1>4, <1>5, <1>6, <1>7 DEF MCNext

\* The invariant holds in every state.
THEOREM BackOfficeInvariance == MCSpec => []BackOfficeInv
BY BackOfficeInit, BackOfficeNextInv, PTL DEF MCSpec, backOfficeVars

-----------------------------------------------------------------------------
(* Theorems: each module by itself *)

\* A catalogue without foreign keys loses the row that a reference led to only where
\* requests overlapped; a reference that never led anywhere is a moved sub-service's or
\* an order's to its service.  For any number of rows and requests.
THEOREM CatalogueKeepsReferences ==
  K!Spec => [](K!TypeOK /\ K!NoOrphanUnlessContested)
<1>1. CatalogueInv => K!TypeOK /\ K!NoOrphanUnlessContested
  BY DEF CatalogueInv
<1> QED BY <1>1, CatalogueInit, CatalogueNextInv, PTL DEF K!Spec

\* Who is under approval has handed in every document, and a ban holds until somebody asks
\* anew, for any number of drivers, documents and requests.
THEOREM ApprovalIsEarned ==
  O!Spec => [](O!TypeOK /\ O!ReviewedHasDocuments /\ O!BanHoldsUnlessContested)
<1>1. DriversInv => O!TypeOK /\ O!ReviewedHasDocuments /\ O!BanHoldsUnlessContested
  BY DEF DriversInv, BanStands, O!BanHoldsUnlessContested
<1> QED BY <1>1, DriversInit, DriversNextInv, PTL DEF O!Spec

\* Every estimate is linear; an order with what was answered charges no more than the
\* estimate, and differs from what was told with its voucher by the taxes of the discount
\* or by a second discount; the arrival is that of the quickest of the nearest drivers.
\* For any prices, distances, vouchers and drivers, and whatever bodies may name.
THEOREM EstimatesAreKept ==
  E!Spec => [](/\ E!TypeOK /\ E!EstimateIsLinear
               /\ E!ChargedAsEstimated /\ E!ArrivalIsQuickest)
<1>1. EstimatesInv => /\ E!TypeOK /\ E!EstimateIsLinear
                      /\ E!ChargedAsEstimated /\ E!ArrivalIsQuickest
  BY DEF EstimatesInv
<1> QED BY <1>1, EstimatesInit, EstimatesNextInv, PTL DEF E!Spec

-----------------------------------------------------------------------------
(* Theorems: the properties of the composition *)

\* Rows, handlers, answers and amounts of every module keep their types.
THEOREM BackOfficeTypes == MCSpec => []TypesOK
<1>1. BackOfficeInv => TypesOK
  BY SameCustomers
     DEF BackOfficeInv, Inv, CP!Inv, CatalogueInv, DriversInv, EstimatesInv, TypesOK
<1> QED BY <1>1, BackOfficeInvariance, PTL

\* A value that is to be unique is in one live row, unless requests for it overlapped.
THEOREM BackOfficeUnique == MCSpec => []UniqueUnlessContested
<1>1. BackOfficeInv => UniqueUnlessContested
  BY DEF BackOfficeInv, Inv, Serial, AtMostOne, Holds, UniqueUnlessContested
<1> QED BY <1>1, BackOfficeInvariance, PTL

\* One default address, unless two requests set one at the same time.
THEOREM BackOfficeDefaults == MCSpec => []OneDefaultUnlessContested
<1>1. ASSUME CP!Inv PROVE CP!OneDefaultUnlessContested
  <2>1. \A c \in Customer : CP!Addresses(c) # {} => CP!Promised(c)
    BY <1>1 DEF CP!Inv, CP!Book
  <2>2. \A c \in Customer : c \in overlapped \/ \A a, b \in CP!Defaults(c) : a = b
    BY <1>1 DEF CP!Inv, CP!Single
  <2> QED BY <2>1, <2>2
       DEF CP!OneDefaultUnlessContested, CP!Promised, CP!Cleared, CP!SetsDefault
<1>2. BackOfficeInv => OneDefaultUnlessContested
  BY <1>1, SameCustomers DEF BackOfficeInv, OneDefaultUnlessContested
<1> QED BY <1>2, BackOfficeInvariance, PTL

\* deleteAsync takes the vehicles with the customer.
THEOREM BackOfficeVehicles == MCSpec => []NoVehicleOutlivesCustomer
<1>1. CP!Inv => CP!NoVehicleOutlivesCustomer
  BY DEF CP!Inv, CP!Owned, CP!NoVehicleOutlivesCustomer
<1>2. BackOfficeInv => NoVehicleOutlivesCustomer
  BY <1>1, SameCustomers DEF BackOfficeInv, NoVehicleOutlivesCustomer
<1> QED BY <1>2, BackOfficeInvariance, PTL

\* The look-ups of the handlers, and those of a deletion, keep the references that no
\* foreign key keeps, but for the two that nobody looks up.
THEOREM BackOfficeReferences == MCSpec => []NoOrphanUnlessContested
<1>1. BackOfficeInv => NoOrphanUnlessContested
  BY DEF BackOfficeInv, CatalogueInv, NoOrphanUnlessContested
<1> QED BY <1>1, BackOfficeInvariance, PTL

\* submitForApprovalAsync and the check after a change ask for every document.
THEOREM BackOfficeReviews == MCSpec => []ReviewedHasDocuments
<1>1. BackOfficeInv => ReviewedHasDocuments
  BY DEF BackOfficeInv, DriversInv, ReviewedHasDocuments
<1> QED BY <1>1, BackOfficeInvariance, PTL

\* A vendor's ban, edit or upload is undone only by a request that overlapped it.
THEOREM BackOfficeBans == MCSpec => []BanHoldsUnlessContested
<1>1. BackOfficeInv => BanHoldsUnlessContested
  BY DEF BackOfficeInv, DriversInv, BanStands, BanHoldsUnlessContested,
         O!BanHoldsUnlessContested
<1> QED BY <1>1, BackOfficeInvariance, PTL

\* An estimate is the fixed price or the line through it, and 18 % of it.
THEOREM BackOfficeEstimates == MCSpec => []EstimateIsLinear
<1>1. BackOfficeInv => EstimateIsLinear
  BY DEF BackOfficeInv, EstimatesInv, EstimateIsLinear
<1> QED BY <1>1, BackOfficeInvariance, PTL

\* An order with what was answered charges the estimate at most, and with a voucher what
\* was told but for the taxes of the discount or a second discount.
THEOREM BackOfficeCharges == MCSpec => []ChargedAsEstimated
<1>1. BackOfficeInv => ChargedAsEstimated
  BY DEF BackOfficeInv, EstimatesInv, ChargedAsEstimated
<1> QED BY <1>1, BackOfficeInvariance, PTL

\* The two phases of the search find the quickest of the nearest.
THEOREM BackOfficeArrivals == MCSpec => []ArrivalIsQuickest
<1>1. BackOfficeInv => ArrivalIsQuickest
  BY DEF BackOfficeInv, EstimatesInv, ArrivalIsQuickest
<1> QED BY <1>1, BackOfficeInvariance, PTL
=============================================================================
