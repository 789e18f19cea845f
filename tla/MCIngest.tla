------------------------------ MODULE MCIngest ------------------------------
(***************************************************************************)
(* Ingest with frames of two units (the second ends in "\r" or not) and    *)
(* requests of five: a part of the request line, up to "RTSP/", up to the  *)
(* end of the last header, "\r", "\n".                                     *)
(***************************************************************************)
EXTENDS Ingest

Frame(cr) ==
    [request |-> FALSE, size |-> 2, slash |-> 0, full |-> 0, fault |-> "none", cr |-> cr]

Request(full, fault) ==
    [request |-> TRUE, size |-> 5, slash |-> 2, full |-> full, fault |-> fault, cr |-> {4}]

MCKinds ==
    { Frame({}), Frame({2}), Request(0, "none"), Request(3, "none"), Request(0, "line"),
      Request(0, "late") }
=============================================================================
