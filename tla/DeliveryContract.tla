-------------------------- MODULE DeliveryContract --------------------------
(***************************************************************************)
(* What the sending pipeline promises about one e-mail job, with the       *)
(* queue, the workers, the claim and the recovery sweeps abstracted away.  *)
(*                                                                         *)
(* A job is open until it gets an outcome, and an outcome is final.  A     *)
(* copy of the mail may be handed to the SMTP server when every earlier    *)
(* copy has been forgotten, and a copy can only be forgotten while the job *)
(* is open.  The outcome tells the truth about the remembered copy: "sent" *)
(* when there is one, "failed" or "cancelled" when there is none.          *)
(***************************************************************************)
EXTENDS Naturals

CONSTANT Jobs      \* the e-mail jobs

VARIABLES
  copies,          \* copies[j]: copies of j the SMTP server has accepted
  lost,            \* lost[j]: accepted copies of which no record survives
  outcome          \* outcome[j]: "open", or how j ended

vars == <<copies, lost, outcome>>

Outcomes == {"open", "sent", "failed", "cancelled"}

\* An accepted copy is on record: in a worker, in the marker or in the row.
Remembered(j) == copies[j] = lost[j] + 1

Init ==
  /\ copies = [j \in Jobs |-> 0]
  /\ lost = [j \in Jobs |-> 0]
  /\ outcome = [j \in Jobs |-> "open"]

\* The server accepts a copy of an open job that has none on record.
Deliver(j) ==
  /\ outcome[j] = "open"
  /\ copies[j] = lost[j]
  /\ copies' = [copies EXCEPT ![j] = @ + 1]
  /\ UNCHANGED <<lost, outcome>>

\* Every record of the copies of the jobs S disappears (a crash may hit several).
Forget(S) ==
  /\ \A j \in S : outcome[j] = "open" /\ Remembered(j)
  /\ lost' = [j \in Jobs |-> IF j \in S THEN lost[j] + 1 ELSE lost[j]]
  /\ UNCHANGED <<copies, outcome>>

\* The remembered copy is reported.
Confirm(j) ==
  /\ outcome[j] = "open"
  /\ Remembered(j)
  /\ outcome' = [outcome EXCEPT ![j] = "sent"]
  /\ UNCHANGED <<copies, lost>>

\* The jobs S end without a copy on record.
GiveUp(S, how) ==
  /\ \A j \in S : outcome[j] = "open" /\ copies[j] = lost[j]
  /\ outcome' = [j \in Jobs |-> IF j \in S THEN how ELSE outcome[j]]
  /\ UNCHANGED <<copies, lost>>

Next ==
  \/ \E j \in Jobs : Deliver(j) \/ Confirm(j)
  \/ \E S \in SUBSET Jobs :
       Forget(S) \/ GiveUp(S, "failed") \/ GiveUp(S, "cancelled")

Spec == Init /\ [][Next]_vars
=============================================================================
