---------------------------- MODULE DeliveryLedger ----------------------------
(***************************************************************************)
(* What the delivery logs promise the staff who read them: a log is open    *)
(* until one outcome is written; "sent" is written only about a copy the    *)
(* program knows was accepted, "failed" and "suppressed" only when it knows *)
(* of none; an outcome is final unless the job was delivered again after a  *)
(* crash; and a second copy goes out only if the outcome of the first was   *)
(* lost.                                                                    *)
(***************************************************************************)
EXTENDS Naturals

CONSTANT Log

VARIABLES
  ledger,   \* what the log says
  copies,   \* copies the provider accepted
  lost,     \* accepted copies whose outcome was lost
  reopened  \* the job of the log was delivered again

vars == <<ledger, copies, lost, reopened>>

Outcome == {"sent", "failed", "suppressed"}

Init ==
  /\ ledger = [l \in Log |-> "none"]
  /\ copies = [l \in Log |-> 0]
  /\ lost = [l \in Log |-> 0]
  /\ reopened = [l \in Log |-> FALSE]

Open(l) ==
  /\ \/ ledger[l] = "none"
     \/ ledger[l] \in Outcome /\ reopened[l] /\ copies[l] <= lost[l]
  /\ ledger' = [ledger EXCEPT ![l] = "open"]
  /\ UNCHANGED <<copies, lost, reopened>>

\* an accepted copy, known or not
Deliver(l) ==
  /\ copies[l] <= lost[l]
  /\ copies' = [copies EXCEPT ![l] = @ + 1]
  /\ lost' \in {lost, [lost EXCEPT ![l] = @ + 1]}
  /\ UNCHANGED <<ledger, reopened>>

\* the program forgets about copies: a failed write, or a crash
Forget(S) ==
  /\ \A l \in S : copies[l] > lost[l]
  /\ lost' = [l \in Log |-> IF l \in S THEN lost[l] + 1 ELSE lost[l]]
  /\ UNCHANGED <<ledger, copies, reopened>>

Settle(l, outcome) ==
  /\ \/ ledger[l] = "open"
     \/ ledger[l] \in Outcome /\ reopened[l]
  /\ IF outcome = "sent" THEN copies[l] > lost[l] ELSE copies[l] <= lost[l]
  /\ ledger' = [ledger EXCEPT ![l] = outcome]
  /\ UNCHANGED <<copies, lost, reopened>>

Reopen(l) ==
  /\ reopened' = [reopened EXCEPT ![l] = TRUE]
  /\ UNCHANGED <<ledger, copies, lost>>

Next ==
  \/ \E l \in Log : Open(l) \/ Deliver(l) \/ Reopen(l)
  \/ \E l \in Log, outcome \in Outcome : Settle(l, outcome)
  \/ \E S \in SUBSET Log : Forget(S)

Spec == Init /\ [][Next]_vars
=============================================================================
