----------------------------- MODULE RecordStore -----------------------------
(***************************************************************************)
(* What app/persist promises of a flash region: it holds one record, or    *)
(* none.  A save first gives up the record that was there and only then    *)
(* has the new one; one that is cut short, by a failure or by a loss of    *)
(* power, leaves the old record, the new one or none, and never a mixture. *)
(* Persist.tla has the pages, double words and checksums, and is shown to  *)
(* implement this module for each of its regions.                          *)
(***************************************************************************)
CONSTANTS
    Record,
    NoRecord

VARIABLES
    stored,     \* the record a load would find
    writing     \* the record a save in progress is to leave, or NoRecord

StoreInit == stored = NoRecord /\ writing = NoRecord

BeginSave ==
    /\ writing = NoRecord
    /\ writing' \in Record
    /\ stored' = stored

GiveUpOld ==
    /\ writing # NoRecord
    /\ stored' = NoRecord
    /\ writing' = writing

(* The new record only ever takes an empty place.                          *)
EndSave ==
    /\ writing # NoRecord /\ stored = NoRecord
    /\ stored' = writing
    /\ writing' = NoRecord

CutShort ==
    /\ writing # NoRecord
    /\ \/ stored' \in {stored, NoRecord}
       \/ stored = NoRecord /\ stored' = writing
    /\ writing' = NoRecord

StoreStep == BeginSave \/ GiveUpOld \/ EndSave \/ CutShort

StoreSpec == StoreInit /\ [][StoreStep]_<<stored, writing>>

=============================================================================
