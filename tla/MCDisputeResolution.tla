------------------------ MODULE MCDisputeResolution ------------------------
(***************************************************************************)
(* One disputed task, five committee members of whom one is a party, and   *)
(* enough time for the yield to outrun the reserve.                        *)
(***************************************************************************)
EXTENDS DisputeResolution

CONSTANTS m1, m2, m3, m4, m5

MCMembers == <<m1, m2, m3, m4, m5>>
=============================================================================
