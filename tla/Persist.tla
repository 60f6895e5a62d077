------------------------------- MODULE Persist -------------------------------
(***************************************************************************)
(* app/persist over bsp/flash, with its users: the settings of             *)
(* axis_manager (CONFIG), the network settings of config (NETWORK) and the *)
(* shot table of cmc_state (SHOTS).  A region is one or two flash pages    *)
(* with a header of two double words and a payload.  A save erases the     *)
(* pages, programs the header and then the payload, one double word at a   *)
(* time; power may be lost, or the flash refuse, at each of these steps.   *)
(* The super-loop stands still meanwhile: no command comes during a save.  *)
(*                                                                         *)
(* A payload is a sequence of words, one for each field or shot; a newer   *)
(* schema appends to it.  The checksum of a payload is the payload itself: *)
(* two payloads with one CRC-32 are left out.                              *)
(***************************************************************************)
EXTENDS Naturals

CONSTANTS
    Firmware,   \* the builds that may run on the board
    Schema,     \* Schema[r][b]: the version of r's payload in build b
    Length,     \* Length[r][v]: the words of r's payload in version v
    Pages,      \* num_pages of a region
    MaxLength,  \* max_payload, in words
    Word,       \* values of a field, or of a shot; 0 is an empty slot
    Default,    \* Default[r][i]: the coded default of word i
    NoRecord,
    MaxFaults   \* bound: losses of power in a save and refusals of the flash

Region == {"config", "network", "shots"}
Version == UNION {{Schema[r][b] : b \in Firmware} : r \in Region}

ASSUME PersistAssumption ==
    /\ Schema \in [Region -> [Firmware -> Nat]]
    /\ Length \in [Region -> [Version -> 1..MaxLength]]
    /\ \A r \in Region : \A v, w \in Version : v <= w => Length[r][v] <= Length[r][w]
    /\ Pages \in [Region -> Nat \ {0}]
    /\ MaxLength \in Nat
    /\ 0 \in Word
    /\ Default \in [Region -> [1..MaxLength -> Word]]
    /\ \A i \in 1..MaxLength : Default["shots"][i] = 0
    /\ MaxFaults \in Nat

VARIABLES
    cells,      \* the double words of each region
    fw,         \* the build that runs
    ram,        \* what each user works with
    current,    \* s_current_shot
    saving,     \* the region persist_save is at, or "none"
    done,       \* flash operations it has carried out
    rest,       \* regions the same command saves after this one
    good,       \* the command's saves so far have succeeded
    faults,     \* counter of MaxFaults
    saved,      \* history: the record persist_save last reported saved
    spoiled,    \* history: a save of the shots has failed since the restart
    promised    \* history: the protocol that a save of the PC tool covered

user == <<fw, ram, current>>
job == <<saving, done, rest, good>>
history == <<saved, spoiled, promised>>
persistVars == <<cells, user, job, faults, history>>

-----------------------------------------------------------------------------
(* The layout.                                                             *)

Cell == 1..(2 + MaxLength)

(* Erased, or left undefined by an operation cut short.                    *)
Blank == [kind |-> "blank"]
Head(v) == [kind |-> "head", ver |-> v]             \* magic and version
Sum(d) == [kind |-> "sum", data |-> d]              \* size and crc32
Datum(w) == [kind |-> "word", word |-> w]

Payload(r, v) == [1..Length[r][v] -> Word]
AnyPayload == UNION {Payload(r, v) : r \in Region, v \in Version}
Record == [ver : Version, data : AnyPayload]

ASSUME NoRecordAssumption == NoRecord \notin Record

CellValue == {Blank} \cup {Head(v) : v \in Version} \cup {Sum(d) : d \in AnyPayload}
                     \cup {Datum(w) : w \in Word}

Size(rec, r) == Length[r][rec.ver]

(* What a whole save of rec leaves in each double word of r.               *)
Image(r, rec, c) ==
    IF c = 1 THEN Head(rec.ver)
    ELSE IF c = 2 THEN Sum(rec.data)
    ELSE IF c <= 2 + Size(rec, r) THEN Datum(rec.data[c - 2])
    ELSE Blank

-----------------------------------------------------------------------------
(* Loading.                                                                *)

(* Variant: the checksum is not looked at.                                 *)
WholeUnchecked(r, f) ==
    f[1].kind = "head" /\ f[2].kind = "sum"

(* validate_header: the magic, the size and the checksum.                  *)
Whole(r, f) ==
    /\ f[1].kind = "head" /\ f[2].kind = "sum"
    /\ f[2].data \in Payload(r, f[1].ver)
    /\ \A i \in 1..Length[r][f[1].ver] : f[2 + i] = Datum(f[2].data[i])

(* A blank double word reads as something, too.                            *)
Read(cell) == IF cell.kind = "word" THEN cell.word ELSE 0

Content(r, f) ==
    IF Whole(r, f)
    THEN [ver |-> f[1].ver, data |-> [i \in 1..Length[r][f[1].ver] |-> Read(f[2 + i])]]
    ELSE NoRecord

(* persist_load takes one version, persist_load_or_upgrade (CONFIG) every  *)
(* version up to the build's own.                                          *)
Accepts(r, v, b) == IF r = "config" THEN v <= Schema[r][b] ELSE v = Schema[r][b]

(* The blob, its tail zero, as persist_load_or_upgrade hands it out.       *)
Blob(r, rec, n) == [i \in 1..n |-> IF i <= Size(rec, r) THEN rec.data[i] ELSE 0]

(* Variant: the zero tail is left as it is.                                *)
PromotedNone(r, v, blob) == blob

(* axis_manager_init promotes the zero of a field younger than the blob.   *)
Promoted(r, v, blob) ==
    [i \in DOMAIN blob |-> IF i > Length[r][v] THEN Default[r][i] ELSE blob[i]]

Defaults(r, b) == [i \in 1..Length[r][Schema[r][b]] |-> Default[r][i]]

(* What the users have after a start of build b.                           *)
Loaded(r, f, b) ==
    LET rec == Content(r, f)
    IN IF rec # NoRecord /\ Accepts(r, rec.ver, b)
       THEN Promoted(r, rec.ver, Blob(r, rec, Length[r][Schema[r][b]]))
       ELSE Defaults(r, b)

-----------------------------------------------------------------------------
PersistTypeOK ==
    /\ cells \in [Region -> [Cell -> CellValue]]
    /\ fw \in Firmware
    /\ ram \in [Region -> UNION {[1..n -> Word] : n \in 1..MaxLength}]
    /\ \A r \in Region : ram[r] \in Payload(r, Schema[r][fw])
    /\ current \in 0..MaxLength
    /\ saving \in Region \cup {"none"}
    /\ done \in Nat
    /\ rest \subseteq Region
    /\ good \in BOOLEAN
    /\ faults \in 0..MaxFaults
    /\ saved \in [Region -> Record \cup {NoRecord}]
    /\ spoiled \in BOOLEAN
    /\ promised \in Word \cup {NoRecord}

(* A board as it is made: nothing in flash.                                *)
PersistInit ==
    /\ cells = [r \in Region |-> [c \in Cell |-> Blank]]
    /\ fw \in Firmware
    /\ ram = [r \in Region |-> Loaded(r, cells[r], fw)]
    /\ current = 0
    /\ saving = "none" /\ done = 0 /\ rest = {} /\ good = TRUE
    /\ faults = 0
    /\ saved = [r \in Region |-> NoRecord] /\ spoiled = FALSE /\ promised = NoRecord

-----------------------------------------------------------------------------
(* Commands.                                                               *)

Idle == saving = "none"

(* The setters of axis_manager and config, from the PC tool and the page:  *)
(* RAM only.                                                               *)
Set(r, i, w) ==
    /\ Idle /\ r # "shots"
    /\ i \in DOMAIN ram[r]
    /\ ram' = [ram EXCEPT ![r][i] = w]
    /\ promised' = IF r = "network" THEN NoRecord ELSE promised
    /\ UNCHANGED <<cells, fw, current, job, faults, saved, spoiled>>

(* persist_save is entered for r; the same command goes on with others.    *)
Begins(r, others) ==
    /\ saving' = r /\ rest' = others
    /\ done' = 0 /\ good' = TRUE
    /\ saved' = [saved EXCEPT ![r] = NoRecord]

(* OD 0x3050 (PC tool) saves CONFIG, the page's Save CONFIG and NETWORK.   *)
SaveSettings(others) ==
    /\ Idle
    /\ Begins("config", others)
    /\ UNCHANGED <<cells, user, faults, spoiled, promised>>

(* OD 0x3051                                                               *)
SaveShots ==
    /\ Idle
    /\ Begins("shots", {})
    /\ UNCHANGED <<cells, user, faults, spoiled, promised>>

(* Variant: the table is left to the next save.                            *)
StoreShotUnsaved(n, w) ==
    /\ Idle /\ n \in DOMAIN ram["shots"] /\ w # 0
    /\ ram' = [ram EXCEPT !["shots"][n] = w]
    /\ current' = n
    /\ UNCHANGED <<cells, fw, job, faults, history>>

(* cmc_state_store_shot: a valid shot, and the table is saved.             *)
StoreShot(n, w) ==
    /\ Idle /\ n \in DOMAIN ram["shots"] /\ w # 0
    /\ ram' = [ram EXCEPT !["shots"][n] = w]
    /\ current' = n
    /\ Begins("shots", {})
    /\ UNCHANGED <<cells, fw, faults, spoiled, promised>>

(* cmc_state_store_next                                                    *)
StoreNext(w) ==
    StoreShot(IF current > 0 /\ current + 1 \in DOMAIN ram["shots"] THEN current + 1 ELSE 1, w)

(* cmc_state_set_shot_time_tenths: of a shot that is there.                *)
SetShotTime(n, w) ==
    /\ Idle /\ n \in DOMAIN ram["shots"] /\ ram["shots"][n] # 0 /\ w # 0
    /\ ram' = [ram EXCEPT !["shots"][n] = w]
    /\ Begins("shots", {})
    /\ UNCHANGED <<cells, fw, current, faults, spoiled, promised>>

-----------------------------------------------------------------------------
(* persist_save, one flash operation at a time: the erases, then the       *)
(* double words in their order.                                            *)

NewRecord(r) == [ver |-> Schema[r][fw], data |-> ram[r]]
Operations(r) == Pages[r] + 2 + Length[r][Schema[r][fw]]

(* Cell c after the next operation on r.  All double words in use are in a *)
(* region's first page.                                                    *)
AfterOperation(r, c) ==
    IF done = 0 THEN Blank
    ELSE IF done < Pages[r] THEN cells[r][c]
    ELSE IF c = done - Pages[r] + 1 THEN Image(r, NewRecord(r), c) ELSE cells[r][c]

Operated(r) == [cells EXCEPT ![r] = [c \in Cell |-> AfterOperation(r, c)]]

(* An operation cut short: some of the cells it would have changed are     *)
(* neither what they were nor what they were to be.                        *)
Disturbed(r) ==
    \E lost \in SUBSET {c \in Cell : AfterOperation(r, c) # cells[r][c]} :
        cells' = [cells EXCEPT ![r] =
                    [c \in Cell |-> IF c \in lost THEN Blank ELSE cells[r][c]]]

(* persist_save returns to the command, which goes on with the other       *)
(* region or answers.                                                      *)
Returns(ok) ==
    /\ good' = (good /\ ok)
    /\ saving' = IF rest = {} THEN "none" ELSE "network"
    /\ done' = 0 /\ rest' = {}
    /\ spoiled' = IF saving = "shots" THEN ~ok ELSE spoiled
    /\ promised' = IF rest = {} /\ good' /\ saving # "shots" THEN ram["network"][1] ELSE promised

FlashStep ==
    /\ ~Idle
    /\ cells' = Operated(saving)
    /\ IF done + 1 < Operations(saving)
       THEN /\ done' = done + 1
            /\ UNCHANGED <<saving, rest, good, history>>
       ELSE /\ Returns(TRUE)
            /\ saved' = [r \in Region |-> IF r = saving THEN NewRecord(r)
                                          ELSE IF r \in rest THEN NoRecord ELSE saved[r]]
    /\ UNCHANGED <<user, faults>>

(* Variant: the result of a flash operation is not looked at.              *)
FlashRefusesUnread ==
    /\ ~Idle /\ faults < MaxFaults
    /\ faults' = faults + 1
    /\ cells' = Operated(saving) \/ Disturbed(saving)
    /\ Returns(TRUE)
    /\ saved' = [r \in Region |-> IF r \in rest THEN NoRecord ELSE saved[r]]
    /\ UNCHANGED user

(* The flash refuses: the save of this region is over.                     *)
FlashRefuses ==
    /\ ~Idle /\ faults < MaxFaults
    /\ faults' = faults + 1
    /\ cells' = Operated(saving) \/ Disturbed(saving)
    /\ Returns(FALSE)
    /\ saved' = [r \in Region |-> IF r \in rest THEN NoRecord ELSE saved[r]]
    /\ UNCHANGED user

-----------------------------------------------------------------------------
(* Start-up: axis_manager_init, config_init and cmc_state_init.            *)

Starts(b) ==
    /\ fw' = b
    /\ ram' = [r \in Region |-> Loaded(r, cells'[r], b)]
    /\ current' = 0
    /\ saving' = "none" /\ done' = 0 /\ rest' = {} /\ good' = TRUE
    /\ spoiled' = FALSE
    /\ UNCHANGED <<saved, promised>>

(* A restart between commands, with the same or another build.             *)
Restart(b) ==
    /\ Idle
    /\ cells' = cells
    /\ Starts(b)
    /\ UNCHANGED faults

(* Power is lost in the middle of a save.                                  *)
PowerLoss ==
    /\ ~Idle /\ faults < MaxFaults
    /\ faults' = faults + 1
    /\ cells' = cells \/ Disturbed(saving)
    /\ Starts(fw)

PersistCommand ==
    \/ \E r \in Region, i \in 1..MaxLength, w \in Word : Set(r, i, w)
    \/ \E others \in SUBSET {"network"} : SaveSettings(others)
    \/ SaveShots
    \/ \E n \in 1..MaxLength, w \in Word : StoreShot(n, w) \/ SetShotTime(n, w)
    \/ \E w \in Word : StoreNext(w)

PersistNext ==
    \/ PersistCommand
    \/ FlashStep \/ FlashRefuses
    \/ PowerLoss \/ \E b \in Firmware : Restart(b)

PersistSpec == PersistInit /\ [][PersistNext]_persistVars

-----------------------------------------------------------------------------
(* What holds.                                                             *)

(* Each region keeps the promise of RecordStore: persist_load finds the    *)
(* record of one save, whole, or none (persist.h:27), wherever a save was  *)
(* cut short.                                                              *)
StoredIn(r) == Content(r, cells[r])
WrittenTo(r) == IF saving = r THEN NewRecord(r) ELSE NoRecord

Settings == INSTANCE RecordStore WITH
    stored <- StoredIn("config"), writing <- WrittenTo("config")
Network == INSTANCE RecordStore WITH
    stored <- StoredIn("network"), writing <- WrittenTo("network")
Shots == INSTANCE RecordStore WITH
    stored <- StoredIn("shots"), writing <- WrittenTo("shots")

RegionsAreStores == Settings!StoreSpec /\ Network!StoreSpec /\ Shots!StoreSpec

(* Word i of rec in a build whose payload has it.                          *)
Meant(r, rec, i) == IF i <= Size(rec, r) THEN rec.data[i] ELSE Default[r][i]

(* What persist_save has reported saved is what every later start has,     *)
(* until the next save of that region begins: under the build that saved   *)
(* it and, for the settings, under every newer one, with what the older    *)
(* build had not at its default and an operator's zero a zero              *)
(* (axis_manager.c:811), whatever became of the other regions.             *)
SavedIsKept ==
    \A r \in Region, b \in Firmware :
        saved[r] # NoRecord /\ Accepts(r, saved[r].ver, b)
        => \A i \in 1..Length[r][Schema[r][b]] :
               Loaded(r, cells[r], b)[i] = Meant(r, saved[r], i)

(* The shot table in RAM, which moves are made from, is the table that a   *)
(* restart would load, whenever it is not being saved (cmc_state.c:295     *)
(* "Save-on-every-store"), unless the flash has refused the last save.     *)
ShotsAreKept ==
    saving # "shots" /\ ~spoiled => Loaded("shots", cells["shots"], fw) = ram["shots"]

-----------------------------------------------------------------------------
(* Why it holds.                                                           *)

(* During a save nothing is in the region from its first erase on but the  *)
(* double words already programmed, in their order.                        *)
Underway ==
    saving # "none" =>
        /\ done < Operations(saving)
        /\ done > 0 => \A c \in Cell :
              cells[saving][c] = IF c + Pages[saving] <= done
                                 THEN Image(saving, NewRecord(saving), c) ELSE Blank
        /\ saved[saving] = NoRecord
        /\ rest \subseteq {"network"} \ {saving}

SavedIsThere ==
    \A r \in Region : saved[r] # NoRecord =>
        /\ saved[r].data \in Payload(r, saved[r].ver)
        /\ \A c \in Cell : cells[r][c] = Image(r, saved[r], c)

PersistInv == PersistTypeOK /\ Underway /\ SavedIsThere /\ ShotsAreKept

-----------------------------------------------------------------------------
(* What a comment says and the code does not do.                           *)

(* cmc_od.c:446 of the protocol "Save + Reboot to take effect": the PC     *)
(* tool's Save, told as done, does not save it.                            *)
ProtocolIsKept ==
    Idle /\ promised # NoRecord
    => Loaded("network", cells["network"], fw)[1] = promised \/ ram["network"][1] # promised

=============================================================================
