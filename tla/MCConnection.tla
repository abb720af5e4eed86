----------------------------- MODULE MCConnection -----------------------------
(***************************************************************************)
(* Small instances of ConnectionSpec.                                      *)
(***************************************************************************)
EXTENDS ConnectionSpec

\* The client sends two bytes, the server one; both start just below the
\* point where sequence numbers wrap around.
MCBytes == [p \in Peer |-> IF p = "client" THEN 2 ELSE 1]
\* A client that sends five bytes to a server that sends none.
MCBytes5 == [p \in Peer |-> IF p = "client" THEN 5 ELSE 0]

MCIsn == [p \in Peer |-> IF p = "client" THEN 14 ELSE 15]
===============================================================================
