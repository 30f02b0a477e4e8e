------------------------------ MODULE MCVector ------------------------------
(* Two vectors of up to three elements of two values.                      *)
EXTENDS Vector

MCVectors == {"v", "w"}
MCValues == {"a", "b"}

KernelHabits == {}
RemovesObjects == {"remove objects"}
RemovesNeighbours == {"remove neighbours"}
MovesOnto == {"move onto"}
CopiesItself == {"copy itself"}
=============================================================================
