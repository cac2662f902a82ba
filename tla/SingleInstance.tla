--------------------------- MODULE SingleInstance ---------------------------
(* What the single-instance lock of a runtime directory promises: a process *)
(* becomes the supervisor only when nobody is, until the file the lock is on *)
(* has been taken away from somebody (broken), when nothing is promised any *)
(* more.                                                                    *)
CONSTANT Proc

VARIABLES holders, broken

Become(p) ==
  /\ holders = {} \/ broken
  /\ holders' = holders \cup {p}
  /\ UNCHANGED broken

Leave(p) ==
  /\ holders' = holders \ {p}
  /\ UNCHANGED broken

Break ==
  /\ broken' = TRUE
  /\ UNCHANGED holders

SingleInit == holders = {} /\ broken = FALSE

SingleNext == \/ \E p \in Proc : Become(p) \/ Leave(p)
              \/ Break

SingleSpec == SingleInit /\ [][SingleNext]_<<holders, broken>>
=============================================================================
