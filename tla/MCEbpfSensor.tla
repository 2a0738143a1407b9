----------------------------- MODULE MCEbpfSensor -----------------------------
(* EbpfSensor with one process that starts a program with a URL, ends, and    *)
(* calls connect without an IPv4 peer: wanted and unwanted records.          *)
EXTENDS EbpfSensor

ACall(kind, prog, path, peer) ==
  [kind |-> kind, prog |-> prog, path |-> path, peer |-> peer, port |-> 80,
   write |-> path # None]

MCCalls == {
  ACall("process_exec", "script", None, None),
  ACall("process_exit", None, None, None),
  ACall("network_connect", None, None, None)}
=============================================================================
