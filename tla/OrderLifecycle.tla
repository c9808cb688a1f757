--------------------------- MODULE OrderLifecycle ---------------------------
(***************************************************************************)
(* What the payments code promises about each order, with no provider, no  *)
(* webhooks and no crashes: it is paid at most once, together with access  *)
(* and an invoice; it is refunded at most once, together with the loss of  *)
(* that access and a credit note; and nothing follows a refund.            *)
(***************************************************************************)
CONSTANT Orders

VARIABLES
    status,    \* the status of each order, "absent" before checkout created it
    access,    \* the entitlement bought with it: "none", "active" or "revoked"
    invoiced,  \* the orders that have an invoice
    credited   \* the orders that have a credit note

lifecycleVars == <<status, access, invoiced, credited>>

Init ==
    /\ status = [o \in Orders |-> "absent"]
    /\ access = [o \in Orders |-> "none"]
    /\ invoiced = {}
    /\ credited = {}

\* The status moves with no other effect.
Move(o, from, to) ==
    /\ status[o] = from
    /\ status' = [status EXCEPT ![o] = to]
    /\ UNCHANGED <<access, invoiced, credited>>

Create(o) == Move(o, "absent", "created")
AttemptFails(o) == Move(o, "created", "failed")   \* the order stays payable
AskRefund(o) == Move(o, "paid", "refund_pending")
GiveUpRefund(o) == Move(o, "refund_pending", "paid")

Pay(o) ==
    /\ status[o] \in {"created", "failed"}
    /\ status' = [status EXCEPT ![o] = "paid"]
    /\ access' = [access EXCEPT ![o] = "active"]
    /\ invoiced' = invoiced \cup {o}
    /\ UNCHANGED credited

Refund(o) ==
    /\ status[o] \in {"paid", "refund_pending"}
    /\ status' = [status EXCEPT ![o] = "refunded"]
    /\ access' = [access EXCEPT ![o] = "revoked"]
    /\ credited' = credited \cup {o}
    /\ UNCHANGED invoiced

Next ==
    \E o \in Orders :
        \/ Create(o) \/ AttemptFails(o) \/ Pay(o)
        \/ AskRefund(o) \/ GiveUpRefund(o) \/ Refund(o)

Spec == Init /\ [][Next]_lifecycleVars
=============================================================================
