--------------------------- MODULE WrappingIntegers ---------------------------
(***************************************************************************)
(* class WrappingInt32 (wrapping_integers.hh, .cc): sequence numbers on    *)
(* the wire wrap around at SeqModulus (2^32 in the code), the absolute     *)
(* ones inside the program at AbsModulus (2^64).                           *)
(***************************************************************************)
EXTENDS Integers

CONSTANTS SeqModulus, AbsModulus

ASSUME ModuliAssumption ==
  /\ SeqModulus \in Nat \ {0} /\ SeqModulus % 2 = 0
  /\ AbsModulus \in Nat \ {0} /\ AbsModulus % SeqModulus = 0

wrap(n, isn) == ((n + isn) % AbsModulus) % SeqModulus

\* WrappingInt32 + uint32_t.
Plus(a, k) == (a + k) % SeqModulus

Distance(m, n) == IF m <= n THEN n - m ELSE m - n

\* Faulty variant: stays in the period of the checkpoint.
unwrap_same_period(n, isn, checkpoint) ==
  ((n - isn) % SeqModulus) + (checkpoint - (checkpoint % SeqModulus))

unwrap(n, isn, checkpoint) ==
  LET low      == (n - isn) % SeqModulus
      absolute == low + (checkpoint - (checkpoint % SeqModulus))
  IN  IF checkpoint <= low THEN low
      ELSE IF Distance(checkpoint, absolute) <= SeqModulus \div 2 THEN absolute
      ELSE IF checkpoint <= absolute
           THEN IF SeqModulus <= absolute THEN absolute - SeqModulus ELSE absolute
      ELSE (absolute + SeqModulus) % AbsModulus
===============================================================================
