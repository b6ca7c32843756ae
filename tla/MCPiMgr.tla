-------------------------------- MODULE MCPiMgr --------------------------------
EXTENDS PiMgr, TLC

CONSTANTS t1, t2, m1, m2, d1, cart, rom, sram, leo

OwnerOf   == [m \in Mesgs |-> IF m \in DiskMesgs THEN t2 ELSE t1]
HandleType == [h \in Handles \cup {Disk} |-> h]
Domains    == [h \in Handles \cup {Disk} |-> IF h \in {cart, rom} THEN 1 ELSE 2]
================================================================================
