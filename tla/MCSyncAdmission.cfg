SPECIFICATION FairSpec
CONSTANTS
  Job = {j1, j2, j3}
  Slots <- MCSlots
  Weight <- MCWeight
  Units = 3
  Outcome = {"completed"}
  Wrap = 2
INVARIANTS AdmissionStaysBounded EveryReservationCounted
PROPERTY NoTierStarves
