----------------------------- MODULE CustomerGate -----------------------------
(***************************************************************************)
(* What a step that needs the customer's consent promises: a question is    *)
(* emailed in numbered rounds, the customer agrees to a round that was      *)
(* emailed, and the step is taken only on a round that was agreed to.  A     *)
(* consent stored without a round stands for some round.                    *)
(***************************************************************************)
EXTENDS Naturals

CONSTANT Round  \* the numbers of the rounds

VARIABLES
  asked,   \* the rounds that were emailed
  agreed,  \* the rounds the customer agreed to
  begun    \* the rounds the step was taken on

vars == <<asked, agreed, begun>>

Unnumbered == 0

Init == asked = {} /\ agreed = {} /\ begun = {}

Ask(round) ==
  asked' = asked \cup {round} /\ UNCHANGED <<agreed, begun>>

Agree(round) ==
  round \in asked /\ agreed' = agreed \cup {round} /\ UNCHANGED <<asked, begun>>

Begin(round) ==
  /\ \/ round \in agreed
     \/ round = Unnumbered /\ agreed # {}
  /\ begun' = begun \cup {round}
  /\ UNCHANGED <<asked, agreed>>

Next == \E round \in Round : Ask(round) \/ Agree(round) \/ Begin(round)

Spec == Init /\ [][Next]_vars
=============================================================================
