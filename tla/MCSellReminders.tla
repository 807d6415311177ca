--------------------------- MODULE MCSellReminders ---------------------------
(***************************************************************************)
(* The instances of SellReminders that TLC checks.                          *)
(***************************************************************************)
EXTENDS SellRemindersProps, TLC

Symmetry == Permutations(Pass)

\* everything but the history "pressed", which no action and no property of
\* this module reads
View == <<journey, exists, request, click, mails, faults, age, memory, kept, pass,
          claimed, returned, wentBack>>
=============================================================================
