---------------------------- MODULE MCStreamCalls ----------------------------
(* A writer, a status reader and a deactivating thread, over two streams.   *)
EXTENDS StreamCalls

CONSTANTS r1, d1

MCReaders == {r1}
MCDrainers == {d1}
=============================================================================
