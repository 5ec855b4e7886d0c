--------------------------- MODULE MCWorkerRelay ---------------------------
(***************************************************************************)
(* A small instance of WorkerRelay: the packets a DNS client sends.        *)
(***************************************************************************)
EXTENDS WorkerRelay

\* An empty packet, one that is long enough, one whose length takes both digits.
SmallFramings == {<<1, 0, 2>>, <<2, 1>>, <<3, 1>>}
=============================================================================
