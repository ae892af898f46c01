--------------------------- MODULE MCRegistration ---------------------------
(* Registration for TLC.  The clients register one address in two spellings *)
(* and log in with one of them, with the right password and a wrong one.    *)
EXTENDS Registration

CONSTANTS a, lo, up, p1, p2

RegisteredCredentials == {<<<<a, lo>>, p1>>, <<<<a, up>>, p1>>}

SentCredentials == {<<<<a, up>>, p1>>, <<<<a, up>>, p2>>}
=============================================================================
