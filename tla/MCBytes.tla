------------------------------- MODULE MCBytes -------------------------------
(***************************************************************************)
(* Instances of the three components that carry octets: the wire formats,  *)
(* the reads and writes of a file descriptor, and the copy of two streams. *)
(* A behaviour is about one of them, its subject; the others stand still.  *)
(***************************************************************************)
EXTENDS WireSpec

\* Extreme and ordinary values of every field of the wire formats.
Mac1 == <<2, 0, 0, 0, 0, 1>>
Mac2 == <<2, 0, 0, 0, 0, 2>>

Segments ==
  [kind : {"tcp"}, dst_mac : {Mac1}, src_mac : {Mac2}, src : {<<10, 0, 0, 255>>},
   dst : {<<192, 168, 255, 1>>}, ttl : {1}, sport : {0, 65535}, dport : {80},
   seqno : {<<0, 0, 0, 0>>, <<255, 255, 255, 255>>}, ackno : {<<1, 2, 3, 4>>}, doff : {5, 6},
   flags : {{}, {"syn"}, DOMAIN FlagBit}, win : {258},
   payload : {<< >>, <<0>>, <<0, 0>>, <<7, 255, 0>>}]

ARPs ==
  [hardware_type : {1}, protocol_type : {TYPE_IPv4}, hardware_address_size : {6},
   protocol_address_size : {4}, opcode : {1, 2}, sender_ethernet_address : {Mac1},
   sender_ip_address : {<<10, 0, 0, 1>>}, target_ethernet_address : {Zeros(6), Mac2},
   target_ip_address : {<<10, 0, 0, 2>>, <<255, 255, 255, 255>>}]

MCMessages == Segments \union [kind : {"arp"}, dst_mac : {Mac1}, src_mac : {Mac2}, arp : ARPs]

\* Lists of buffers for the file descriptor, with empty ones among them.
MCLists ==
  {<< <<1, 2, 3>>, <<4>>, <<5, 6>> >>, << <<1>>, << >>, <<2, 3, 4>> >>,
   << << >>, <<1, 2>>, << >> >>, << << >> >>}

VARIABLES list, call, pipe, received, closed, eof, reads, listed
VARIABLES copy, loop, stdin, sock, stdout
VARIABLE subject

Descriptor ==
  INSTANCE FileDescriptor WITH Lists <- MCLists, PipeCap <- 3, MaxEmptyReads <- 2,
    sent <- listed

\* Standard input is a pipe, and the buffers are larger than what the kernel
\* keeps and than what is copied at once.
Copying ==
  INSTANCE StreamCopy WITH BufferSize <- 3, MaxCopy <- 2, PipeCap <- 2, Typed <- 4, Sent <- 3,
    InputIsPipe <- TRUE

descriptorVars == <<list, call, pipe, received, closed, eof, reads, listed>>
copyVars == <<copy, loop, stdin, sock, stdout>>
allVars == <<subject, vars, descriptorVars, copyVars>>

MCInit ==
  /\ subject \in {"wire", "descriptor", "copy"}
  /\ Init /\ (subject # "wire" => sent = CHOOSE m \in Messages : TRUE)
  /\ Descriptor!Init /\ (subject # "descriptor" => listed = << >>)
  /\ Copying!Init

MCNext ==
  /\ \/ subject = "wire" /\ Next /\ UNCHANGED <<descriptorVars, copyVars>>
     \/ subject = "descriptor" /\ Descriptor!Next /\ UNCHANGED <<vars, copyVars>>
     \/ subject = "copy" /\ Copying!Next /\ UNCHANGED <<vars, descriptorVars>>
  /\ UNCHANGED subject

WriterSteps ==
  \/ Descriptor!WriteV \/ Descriptor!Close
  \/ \E write_all \in BOOLEAN : Descriptor!Write(write_all)

\* The writer of the descriptor goes on, and its reader reads; the copying
\* function runs; standard input and the peer come to their ends, and what is
\* copied is read.  The last two conditions are weak fairness of the steps, with
\* their guard spelled out: what waits for room waits for a reader.
MCSpec ==
  /\ MCInit /\ [][MCNext]_allVars
  /\ WF_descriptorVars(subject = "descriptor" /\ WriterSteps)
  /\ WF_descriptorVars(subject = "descriptor" /\ Descriptor!Read(1))
  /\ []<>(subject # "copy" \/ ~ Copying!CopierDue) \/ []<><<Copying!Copier>>_copyVars
  /\ []<>(subject # "copy" \/ ~ Copying!OutsideDue) \/ []<><<Copying!Outside>>_copyVars
-------------------------------------------------------------------------------
\* Whatever the sizes of the list's buffers and of the pipe, its bytes arrive
\* once and in order, and the end is seen only behind the last of them
\* (FileDescriptor::write and read).
BytesOnce == Descriptor!BytesOnce /\ Descriptor!EofBehindAll

\* Both directions of the copy deliver the bytes they were given, in order; the
\* socket is shut only behind the last byte of standard input, and the function
\* returns only with all of the peer's bytes, to their end, in standard output
\* (the four callbacks of bidirectional_stream_copy).
CopiesInOrder ==
  Copying!CopiesInOrder /\ Copying!ShutBehindInput /\ Copying!InboundComplete

\* A list of buffers is sent to its end, and the end is seen;
\* bidirectional_stream_copy returns.
Finishes ==
  /\ subject = "descriptor" => Descriptor!Finishes
  /\ subject = "copy" => Copying!Returns
===============================================================================
