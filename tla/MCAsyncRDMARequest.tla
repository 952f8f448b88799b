------------------------ MODULE MCAsyncRDMARequest ------------------------
(* AsyncRDMARequest with two request objects and two sockets.               *)
EXTENDS AsyncRDMARequest

CONSTANTS sockA, sockB

MCSocks == {sockA, sockB}
MCSlots == 1 .. 2
MCFaults == {"setup", "disk", "rdma", "send"}
=============================================================================
