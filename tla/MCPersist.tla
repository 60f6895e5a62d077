------------------------------ MODULE MCPersist ------------------------------
(* Persist with two builds: the newer one appends a setting, and its shots *)
(* have another version; two shots, one word of network settings.          *)
EXTENDS Persist

MCFirmware == {1, 2}
MCSchema == [r \in {"config", "network", "shots"} |->
                [b \in MCFirmware |-> IF r = "network" THEN 1 ELSE b]]
MCLength == [r \in {"config", "network", "shots"} |->
                [v \in {1, 2} |-> IF r = "config" THEN v
                                  ELSE IF r = "network" THEN 1 ELSE 2]]
MCPages == [r \in {"config", "network", "shots"} |-> IF r = "shots" THEN 2 ELSE 1]
MCDefault == [r \in {"config", "network", "shots"} |->
                [i \in 1..2 |-> IF r = "config" THEN 1 ELSE 0]]
=============================================================================
