------------------------------- MODULE MCKbd --------------------------------
(***************************************************************************)
(* Kbd for TLC: a buffer of a few characters, a size_t of a few bits, two  *)
(* keys pressed and one released.                                          *)
(***************************************************************************)
EXTENDS Kbd

MCScancodes == {2, 30, 158}     \* press "1", press "a", release "a"

\* Enough where the order of the characters is not looked at.
MCFewScancodes == {2, 158}
=============================================================================
