------------------------------ MODULE MCVcClient ------------------------------
EXTENDS VcClient
CONSTANTS c1, c2
PortOfBuffer == [b \in Buffers |-> IF b = "i1" \/ b = "i2" THEN "in" ELSE IF b = "j1" THEN "in2" ELSE "out"]
=============================================================================
