------------------------------- MODULE NetParser -------------------------------
(***************************************************************************)
(* NetParser, NetUnparser (parser.cc) and InternetChecksum (util.cc).  A   *)
(* buffer is a sequence of octets, a parser a record of its members.  A    *)
(* layout is a sequence of fields, each with its width in octets: the      *)
(* calls of u8, u16 and u32 in the order in which a header makes them.     *)
(* Fields of one or two octets are numbers; wider ones, addresses and      *)
(* sequence numbers, stay sequences of octets, since nothing here counts   *)
(* with them.                                                              *)
(***************************************************************************)
EXTENDS Integers, Sequences, SequencesExt

NewParser(octets) == [buffer |-> octets, error |-> "NoError"]

check_size(p, size) ==
  IF size > Len(p.buffer) THEN [p EXCEPT !.error = "PacketTooShort"] ELSE p

remove_prefix(p, n) ==
  LET c == check_size(p, n)
  IN  IF c.error # "NoError" THEN c ELSE [c EXCEPT !.buffer = SubSeq(@, n + 1, Len(@))]

Zeros(n) == [i \in 1 .. n |-> 0]

\* The octets that an integer of n octets is made of, zeros after an error.
parse_int(p, n) ==
  IF check_size(p, n).error # "NoError" THEN Zeros(n) ELSE SubSeq(p.buffer, 1, n)

\* Network byte order: the first octet counts most.
Value(octets) ==
  CASE Len(octets) = 1 -> octets[1]
    [] Len(octets) = 2 -> octets[1] * 256 + octets[2]
    [] OTHER -> octets


unparse_int(n, val) ==
  CASE n = 1 -> <<val>>
    [] n = 2 -> <<val \div 256, val % 256>>
    [] OTHER -> val

\* What is read of a layout, and the parser behind it.
parse_fields(p, layout) ==
  LET Parse(acc, f) ==
        [p |-> remove_prefix(acc.p, f[2]),
         h |-> (f[1] :> Value(parse_int(acc.p, f[2]))) @@ acc.h]
  IN  FoldLeft(Parse, [p |-> p, h |-> << >>], layout)

unparse_fields(h, layout) ==
  FoldLeft(LAMBDA s, f : s \o unparse_int(f[2], h[f[1]]), << >>, layout)

\* Bit number b of n.
Bit(n, b) == (n \div 2^b) % 2 = 1
-------------------------------------------------------------------------------
InternetChecksum(initial_sum) == [sum |-> initial_sum, parity |-> FALSE]

\* What octet i of data counts, high and low by turns.
Weighed(data, parity, i) ==
  IF (i % 2 = 1) = ~ parity THEN data[i] * 256 ELSE data[i]

\* The turns go on across calls.
add(c, data) ==
  LET Sum[i \in 0 .. Len(data)] ==
        IF i = 0 THEN c.sum ELSE Sum[i - 1] + Weighed(data, c.parity, i)
  IN  [sum |-> Sum[Len(data)], parity |-> c.parity # (Len(data) % 2 = 1)]

Carry(n) == (n \div 65536) + (n % 65536)

\* The loop of value() ends after two rounds for every 32-bit sum, and another
\* round changes nothing.
value(c) == 65535 - Carry(Carry(c.sum))
===============================================================================
