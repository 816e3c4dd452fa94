---------------------------- MODULE MCNetworkClient ----------------------------
(* A small instance of NetworkClient: two data packets, one picture of each    *)
(* camera.  In a session without zones, whose Accept queues no list, a picture *)
(* and the first data packet fill the queue, and the second is dropped.        *)
EXTENDS NetworkClient

MCPackets == [main |-> 2, hw |-> 1, pi |-> 1]
=============================================================================
