-------------------------- MODULE MCAccountActions --------------------------
(* AccountActions for TLC.                                                    *)
EXTENDS AccountActions

CONSTANTS o, m1, m2, s, b1

AllEmail == Token \cup Notices
(* BOUND: the outbox delivers two of the mails; the others wait.              *)
SomeEmail == {Invitation(m1), [user |-> s, purpose |-> "password_reset", n |-> 1]}
=============================================================================
