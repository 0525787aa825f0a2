------------------------------ MODULE MCEtdbResp ------------------------------
(* Small instances of EtdbResp for TLC. *)
EXTENDS EtdbResp

\* A line that is no request, and requests of 7, 11 and 17 bytes, the last with
\* a length of two digits and newlines in its body
MCRequests == {<< >>, << <<Other>> >>, << <<Other>>, <<Other>> >>,
               << <<Other, NL, 0, NL, NL, 1, NL, Other, NL, NL>> >>}

\* The lengths of one and of two digits
MCDecimal == [n \in 0..99 |-> IF n < 10 THEN <<n>> ELSE <<n \div 10, n % 10>>]
=============================================================================
