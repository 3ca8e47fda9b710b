----------------------------- MODULE Assignment -----------------------------
(***************************************************************************)
(* The promise behind dispatch, free of offers, sweeps and hooks: at every *)
(* moment a booking is with nobody or with one contractor; it passes from  *)
(* one to the next only while it is merely offered; and the contractor who *)
(* reserved it is the one it is assigned to, unless it is cancelled first. *)
(***************************************************************************)
CONSTANTS Contractors, None

VARIABLES
  phase,    \* searching, offered, reserved, assigned or cancelled
  holder    \* the contractor concerned, or None

Init == phase = "searching" /\ holder = None

Offer(c) ==
  /\ phase \in {"searching", "offered"}
  /\ c # holder
  /\ phase' = "offered"
  /\ holder' = c

Withdraw ==
  /\ phase = "offered"
  /\ phase' = "searching"
  /\ holder' = None

Reserve ==
  /\ phase = "offered"
  /\ phase' = "reserved"
  /\ UNCHANGED holder

Assign ==
  /\ phase = "reserved"
  /\ phase' = "assigned"
  /\ UNCHANGED holder

Cancel ==
  /\ phase \in {"searching", "offered", "reserved"}
  /\ phase' = "cancelled"
  /\ holder' = None

Next ==
  \/ Withdraw \/ Reserve \/ Assign \/ Cancel
  \/ \E c \in Contractors : Offer(c)

Spec == Init /\ [][Next]_<<phase, holder>>
=============================================================================
