------------------------------- MODULE MCSocket -------------------------------
(***************************************************************************)
(* Instances of SocketSpec: an owner that connects, and one that listens.  *)
(* A behaviour is about one of the two, its subject.                       *)
(***************************************************************************)
EXTENDS SocketSpec

\* The owner writes more than the sender's buffer takes at once.
MCOutbound == [owner |-> 2, peer |-> 1]
\* The peer writes more than the pipe to the owner takes at once.
MCInbound == [owner |-> 1, peer |-> 2]

MCIsn == [owner |-> 14, peer |-> 3]

VARIABLE subject

\* The peer connects; the owner may destroy the socket, and the peer does not
\* reset the connection.
Listening ==
  INSTANCE SocketSpec WITH Connects <- FALSE, PipeCap <- 1, Bytes <- MCOutbound,
    RecvCapacity <- 1, SendCapacity <- 1, MayReset <- FALSE, MayDestroy <- TRUE

MCInit ==
  \/ subject = "connecting" /\ Init
  \/ subject = "listening" /\ Listening!Init

MCNext ==
  /\ \/ subject = "connecting" /\ Next
     \/ subject = "listening" /\ Listening!Next
  /\ UNCHANGED subject

Threads == IF subject = "connecting" THEN Thread ELSE Listening!Thread

ThreadDue == loop.pc # "ended" /\ sock.threw = "nothing"

Peers ==
  IF subject = "connecting" THEN PeerReceive \/ PeerEnd \/ PeerTick
  ELSE \/ Listening!PeerConnect \/ Listening!PeerReceive
       \/ Listening!PeerEnd \/ Listening!PeerTick

PeersDue == IF subject = "connecting" THEN PeerDue ELSE Listening!PeerDue

\* The thread runs; the network delivers, and the peer's program ends its
\* stream; the owner reads what arrives, ends its stream, and waits when it has
\* read to the end.  None of them has to write, and none is asked to choose
\* one of its steps before another.  Each condition is weak fairness of the
\* actor's steps, with its guard spelled out.
MCSpec ==
  /\ MCInit /\ [][MCNext]_<<subject, vars>>
  /\ []<>(~ ThreadDue) \/ []<><<Threads>>_loop
  /\ []<>(~ PeersDue) \/ []<><<Peers>>_vars
  /\ []<>(~ OwnerDue) \/ []<><<OwnerRead \/ OwnerShutdown \/ OwnerWait \/ OwnerJoin>>_vars
===============================================================================
