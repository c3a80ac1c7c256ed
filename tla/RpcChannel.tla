----------------------------- MODULE RpcChannel -----------------------------
(***************************************************************************)
(* What the RPC mechanism promises to the modes of the guest: a call to    *)
(* the service opens a channel, only the service closes it, and closing it *)
(* gives control back to the mode that called.  Whatever else moves        *)
(* control between the modes in the meantime leaves the channel as it is,  *)
(* and never starts the service when nobody has called it.                 *)
(***************************************************************************)
CONSTANTS
  Clients,   \* the modes that may call
  Service,   \* the mode that answers, none of Clients
  Nobody     \* no mode

VARIABLES
  running,   \* the mode that has control
  caller     \* the mode whose call is open, or Nobody

Init ==
  /\ running = Nobody
  /\ caller = Nobody

Call ==
  /\ running \in Clients
  /\ caller = Nobody
  /\ caller' = running
  /\ running' = Service

Return ==
  /\ running = Service
  /\ caller \in Clients
  /\ running' = caller
  /\ caller' = Nobody

(* Interrupts, aborts, system calls and context restores.                  *)
Switch ==
  /\ running' \in Clients \cup {Service}
  /\ running' = Service => caller # Nobody
  /\ UNCHANGED caller

Next == Call \/ Return \/ Switch

Spec == Init /\ [][Next]_<<running, caller>>
=============================================================================
