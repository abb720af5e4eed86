---------------------------- MODULE FileDescriptor ----------------------------
(***************************************************************************)
(* FileDescriptor::write and read (file_descriptor.cc) on the two ends of  *)
(* a blocking pipe.  The writer sends lists of buffers, each with one call *)
(* of write, which may go around its loop several times, and may take what *)
(* write did not send off the list and try again; then it closes.  The     *)
(* other end has two FileDescriptors, one a duplicate, that read in turn.  *)
(***************************************************************************)
EXTENDS Buffers, FiniteSets

CONSTANTS Lists,      \* the strings of a list of buffers, one of which is sent
          PipeCap, MaxEmptyReads

VARIABLES list,     \* what the writer has still to send
          call,     \* the call of write under way: views, total, write_all
          pipe, received, closed,
          eof,      \* _eof of the FDWrapper that the readers share
          reads,    \* how many calls of read asked for no bytes
          sent      \* the bytes of the list at first

vars == <<list, call, pipe, received, closed, eof, reads, sent>>

\* No call, or one whose writev has not returned yet.
NoCall == << >>

Init ==
  /\ \E strings \in Lists :
       /\ list = FoldLeft(LAMBDA l, s : append(l, <<NewBuffer(s)>>), << >>, strings)
       /\ sent = concatenate(list)
  /\ call = NoCall /\ pipe = << >> /\ received = << >>
  /\ closed = FALSE /\ eof = FALSE /\ reads = 0

Write(write_all) ==
  /\ call = NoCall /\ list # << >> /\ ~ closed
  /\ call' = <<[views |-> Views(list), total |-> 0, write_all |-> write_all]>>
  /\ UNCHANGED <<list, pipe, received, closed, eof, reads, sent>>

\* Faulty variant: goes on although the rest is empty.
Again_always(c) == c.write_all

\* The condition of the do loop.
Again(c) == c.write_all /\ view_size(c.views) > 0

\* One round of the loop: writev takes what the pipe has room for, some of it
\* at least, or waits.  After the last round the caller takes the bytes that
\* write says it wrote off its list, and keeps the list if any are left.
WriteV ==
  /\ call # NoCall
  /\ \E n \in 0 .. PipeCap - Len(pipe) :
       LET c     == call[1]
           after == [c EXCEPT !.views = view_remove_prefix(@, n).rest, !.total = @ + n]
       IN  /\ n <= view_size(c.views) /\ (n = 0 => view_size(c.views) = 0)
           /\ pipe' = pipe \o SubSeq(FlattenSeq(c.views), 1, n)
           /\ call' = IF Again(after) THEN <<after>> ELSE NoCall
           /\ list' = IF Again(after) THEN list
                      ELSE LET rest == remove_prefix(list, after.total).rest
                           IN  IF size(rest) = 0 THEN << >> ELSE rest
  /\ UNCHANGED <<received, closed, eof, reads, sent>>

Close ==
  /\ call = NoCall /\ list = << >> /\ ~ closed /\ closed' = TRUE
  /\ UNCHANGED <<list, call, pipe, received, eof, reads, sent>>

AtEnd(limit, bytes_read) == limit > 0 /\ bytes_read = 0

\* read(limit): the kernel returns nothing only at the end, or if asked for
\* nothing.
Read(limit) ==
  /\ reads < MaxEmptyReads \/ limit > 0
  /\ limit = 0 \/ pipe # << >> \/ closed
  /\ ~ eof
  /\ LET n == IF limit < Len(pipe) THEN limit ELSE Len(pipe)
     IN  /\ received' = received \o SubSeq(pipe, 1, n)
         /\ pipe' = SubSeq(pipe, n + 1, Len(pipe))
         /\ eof' = AtEnd(limit, n)
  /\ reads' = IF limit = 0 THEN reads + 1 ELSE reads
  /\ UNCHANGED <<list, call, closed, sent>>

Done == eof /\ closed /\ UNCHANGED vars

Next ==
  \/ \E write_all \in BOOLEAN : Write(write_all)
  \/ WriteV \/ Close \/ Done
  \/ \E limit \in {0, 1, 2} : Read(limit)

Spec == Init /\ [][Next]_vars
-------------------------------------------------------------------------------
\* The bytes of the list reach the reader in order, none twice and none left
\* out, however writev and read cut them: what was received, what is in the
\* pipe and what is still to be sent make up the list.
BytesOnce ==
  received \o pipe \o
    (IF call = NoCall THEN concatenate(list) ELSE FlattenSeq(call[1].views)) = sent

\* The end is seen only behind the last byte.
EofBehindAll == eof => closed /\ received = sent

\* A list is sent to its end, and the end is seen.
Finishes == <>eof
===============================================================================
