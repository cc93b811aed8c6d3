------------------------------- MODULE MCDiscovery ------------------------------
(* Instances of Discovery for TLC. *)
EXTENDS Discovery

\* Numbers that need every byte.
TwoIdentities ==
    {[vendor |-> 258, product |-> 1, major |-> 20, minor |-> 11, status |-> 48,
      serial |-> <<1, 2, 3, 255>>],
     [vendor |-> 1, product |-> 32767, major |-> 255, minor |-> 0, status |-> 65535,
      serial |-> <<255, 255, 255, 255>>]}

\* What module DiscoveryProofs asks of the parsers.
ASSUME ParsersTellAnswers == TellsAnswers
==============================================================================
