------------------------------ MODULE MCFastCgi ------------------------------
(* Instance of FastCgi for TLC: the code's own buffer size, and lengths at *)
(* its limits.                                                             *)
EXTENDS FastCgi

Rec(type, len, pad) == [type |-> type, len |-> len, pad |-> pad]

(* A begin record, one record of parameters, the records of the body.      *)
Sends(kept, stdin) ==
  [keep |-> kept,
   recs |-> <<Rec("begin", 8, 0), Rec("params", 5, 3), Rec("params", 0, 0)>>
            \o stdin \o <<Rec("stdin", 0, 0)>>]

MCRequests ==
  {Sends(FALSE, <<Rec("stdin", 2, 6), Rec("stdin", 3, 5)>>),
   Sends(TRUE,  <<Rec("stdin", 2, 1)>>)}

(* Around a full buffer with and without an open packet, the most that     *)
(* goes out without being copied in one record, one more, and three.       *)
MCLens == {1, 8183, 8184, 131064}
==============================================================================
