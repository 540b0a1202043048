---------------------------- MODULE OrderPromise ----------------------------
(***************************************************************************)
(* What an order promises once transactions, locks, races and failures are *)
(* hidden: it gets a driver only after its customer was sent a START code, *)
(* and stays with a driver from then on; it is started only when a START   *)
(* code is stored for it and completed only when a COMPLETE code is; the   *)
(* referral reward is paid by a completion and by nothing else.  It        *)
(* promises no order between those steps: the status is whatever the last  *)
(* of them wrote.  Nor does it promise that a stored code was sent.        *)
(***************************************************************************)
EXTENDS Naturals

CONSTANTS Order, Driver, None

VARIABLES
  status,   \* status[o]
  driver,   \* driver[o]
  carries,  \* carries[o]: a voucher was applied to o
  stored,   \* stored[o]: the types of code there are for o
  sent,     \* sent[o]: the types of code the customer was sent for o
  paid      \* paid[o]: rewards paid for o

vars == <<status, driver, carries, stored, sent, paid>>

Init ==
  /\ status = [o \in Order |-> "Absent"]
  /\ driver = [o \in Order |-> None]
  /\ carries = [o \in Order |-> FALSE]
  /\ stored = [o \in Order |-> {}]
  /\ sent = [o \in Order |-> {}]
  /\ paid = [o \in Order |-> 0]

Place(o) ==
  /\ status[o] = "Absent"
  /\ status' = [status EXCEPT ![o] = "New"]
  /\ \E b \in BOOLEAN : carries' = [carries EXCEPT ![o] = b]
  /\ UNCHANGED <<driver, stored, sent, paid>>

\* An accept sends its START code before it is sure to succeed.
Announce(o) ==
  /\ status[o] # "Absent"
  /\ sent' = [sent EXCEPT ![o] = @ \cup {"START"}]
  /\ UNCHANGED <<status, driver, carries, stored, paid>>

Assign(o, d) ==
  /\ "START" \in sent[o]
  /\ status' = [status EXCEPT ![o] = "OtpPending"]
  /\ driver' = [driver EXCEPT ![o] = d]
  /\ stored' = [stored EXCEPT ![o] = @ \cup {"START"}]
  /\ UNCHANGED <<carries, sent, paid>>

StoreCode(o, t) ==
  /\ driver[o] # None
  /\ stored' = [stored EXCEPT ![o] = @ \cup {t}]
  /\ UNCHANGED <<status, driver, carries, sent, paid>>

\* A stored code is sent, or was not, and is waited for.
AwaitCode(o, t) ==
  /\ driver[o] # None
  /\ t \in stored[o]
  /\ status' = [status EXCEPT ![o] = "OtpPending"]
  /\ sent' \in {sent, [sent EXCEPT ![o] = @ \cup {t}]}
  /\ UNCHANGED <<driver, carries, stored, paid>>

Start(o) ==
  /\ "START" \in stored[o]
  /\ status' = [status EXCEPT ![o] = "InProgress"]
  /\ UNCHANGED <<driver, carries, stored, sent, paid>>

Complete(o) ==
  /\ "COMPLETE" \in stored[o]
  /\ status' = [status EXCEPT ![o] = "Completed"]
  /\ paid' = IF carries[o] THEN [paid EXCEPT ![o] = @ + 1] ELSE paid
  /\ UNCHANGED <<driver, carries, stored, sent>>

Next ==
  \E o \in Order :
    \/ Place(o) \/ Announce(o) \/ Start(o) \/ Complete(o)
    \/ \E d \in Driver : Assign(o, d)
    \/ \E t \in {"START", "COMPLETE"} : StoreCode(o, t) \/ AwaitCode(o, t)

Spec == Init /\ [][Next]_vars
=============================================================================
