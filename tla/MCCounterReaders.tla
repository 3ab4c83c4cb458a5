-------------------------- MODULE MCCounterReaders --------------------------
(* Every reader over counters of two bits: small enough for both to wrap  *)
(* between two polls, alone and together, from every value.  The floats    *)
(* are 0, 1, 2, 4 and 8.                                                   *)
EXTENDS CounterReaders

MCRounded == [n \in 0..8 |-> IF n <= 2 THEN n ELSE IF n <= 5 THEN 4 ELSE 8]

=============================================================================
