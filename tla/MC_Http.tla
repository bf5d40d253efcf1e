------------------------------ MODULE MC_Http ------------------------------
EXTENDS Http

(* A client that sends a request with a one-byte body and then one      *)
(* without a body; a backend that answers with a one-byte chunked body.  *)
MC_Requests ==
    << [start |-> SL, mode |-> "length", sizes |-> <<1>>],
       [start |-> SL, mode |-> "none", sizes |-> <<>>] >>
MC_Responses ==
    << [start |-> ST, mode |-> "chunked", sizes |-> <<1>>] >>
====
