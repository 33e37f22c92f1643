------------------------------- MODULE MCIntake -------------------------------
(* An instance of Intake for TLC. *)
EXTENDS Intake

CONSTANTS ann, ben, plain, open, copy, card, noise

\* Ann gives a command and opens a preview; Ben opens a copy of its link.
Makers == [c \in Command |-> IF c = copy THEN ben ELSE ann]

Links == [c \in Command |-> IF c = plain THEN NoPayload ELSE card]
=============================================================================
