---------------------------- MODULE FirmwareLoad ----------------------------
(***************************************************************************)
(* Bringing the firmware up (nx_start_firmware of driver/unm_nic_main.c,   *)
(* load_fw and pinit_from_rom of driver/unm_nic_init.c).  The function of  *)
(* port 0 does it at its probe and again in every recovery: it chooses     *)
(* between the flash and a file, resets the chip under the lock of the     *)
(* flash, writes the initialisation data, copies the boot loader of the    *)
(* flash, or that and the image of the file, into the memory of the card,  *)
(* releases its processors (the pegs) and waits for them.                  *)
(* Most steps may fail, and most results are ignored.  The other functions *)
(* read the flash at any time.                                             *)
(***************************************************************************)
EXTENDS FlashRom

CONSTANTS
  Loader,       \* the reader that is the function of port 0
  BoardWord,    \* the flash word with the board information and the init data
  BootWords,    \* the flash words of the boot loader
  ImageWords,   \* those of the firmware, boot loader and compressed image
  MaxStarts,    \* bound: bring-ups
  MaxLosses     \* bound: writes to the memory of the card that fail

ASSUME LoadAssumption ==
  /\ Loader \in Readers /\ BoardWord \in FlashWords \ ImageWords
  /\ ImageWords \subseteq FlashWords /\ BootWords \subseteq ImageWords
  /\ MaxStarts \in Nat /\ MaxLosses \in Nat

\* Versions by what is asked of them: 1 is 3.4, 2 to 3 are 4.0, with the clock
\* fix (4.0.554) from 3, and 4 is later.  Probe refuses flashes below 4.0.505.
Versions == 1..4
Supported(v) == v \in 1..3
ClockFix(v) == v >= 3

\* A file: its version, and if its BIOS version is that of the flash.
NoFile == [ver |-> 0, bios |-> FALSE]
Offers == {NoFile} \cup [ver : Versions, bios : BOOLEAN]

VARIABLES
  fwLoad,    \* the module parameter: "flash", "compare", "nocompare", "cutthrough"
  board,     \* "P2", "P3", or "HMEZ": a P3 with memory that is reset first
  flashVer,  \* the version in the flash, read at probe
  lpc,       \* where nx_start_firmware is
  file,      \* nx_fw: the file that is kept (NX_FILE_FW_READ), or NoFile
  use,       \* "file" or "flash"
  mismatch,  \* driver_mismatch
  mem,       \* the memory of the card: per word, what was written into it
  toLoad,    \* words still to be copied
  magic,     \* UNM_CAM_RAM(0x1fc) tells the boot loader that the image is in memory
  pegs,      \* 0: in reset, or the start that released them
  booted,    \* 0, or the start that released the pegs that run
  cmdpeg, rcvpeg,  \* CRB_CMDPEG_STATE and CRB_RCVPEG_STATE
  starts, losses,
  late,      \* history: the receive peg of an earlier start was ready only after
             \* this start had cleared its state
  tainted    \* history: since the reset, a word of the image was read disturbed or
             \* lost on its way into the memory

config == <<fwLoad, board, flashVer>>
image == <<mem, toLoad, magic>>
card == <<pegs, booted, cmdpeg, rcvpeg, late>>
bounds == <<starts, losses>>
loadVars == <<config, lpc, file, use, mismatch, image, card, bounds, tainted>>
loaderVars == <<romVars, loadVars>>

P2 == board = "P2"
At(l) == lpc = l
Go(l) == lpc' = l

\* What pegs that are released run, or will when they boot.
WillRun(w) == IF booted > 0 \/ magic \/ w \in BootWords THEN mem[w] ELSE w

LoadInit ==
  /\ RomInit
  /\ fwLoad \in {"flash", "compare", "nocompare", "cutthrough"}
  /\ board \in {"P2", "P3", "HMEZ"}
  /\ flashVer \in 2..4
  /\ lpc = "off" /\ file = NoFile /\ use = "flash" /\ mismatch = FALSE
  /\ mem = [w \in ImageWords |-> "nothing"] /\ toLoad = {} /\ magic = FALSE
  /\ pegs = 0 /\ booted = 0 /\ cmdpeg = "0" /\ rcvpeg = "0"
  /\ starts = 0 /\ losses = 0 /\ late = FALSE /\ tainted = FALSE
-----------------------------------------------------------------------------
ClearPegStates == cmdpeg' = "0" /\ rcvpeg' = "0"

\* nx_p2_check_hw_init: the boot loader of a P2 in its first boot is started and, unless
\* the flash is to be loaded, halted when it has taken the magic back or was given long
\* enough; in a wrong state that is all.
FirstBoot == P2 /\ starts = 0

\* nx_start_firmware at port 0, at probe or for a recovery.
StartFirmware ==
  /\ lpc \in {"off", "up", "failed"} /\ ReadAt(Loader, "idle")
  /\ starts < MaxStarts
  /\ starts' = starts + 1
  /\ \/ board = "HMEZ" /\ Go("hmez") /\ UNCHANGED <<cmdpeg, rcvpeg>>
     \/ board # "HMEZ" /\ Go("choose") /\ ClearPegStates
     \/ FirstBoot /\ Go("failed") /\ UNCHANGED <<cmdpeg, rcvpeg>>
  /\ \/ UNCHANGED magic
     \/ FirstBoot /\ magic' = TRUE
  /\ late' = FALSE
  /\ UNCHANGED <<romVars, config, file, use, mismatch, mem, toLoad, pegs, booted,
                 losses, tainted>>

\* nx_get_file_firmware: what is asked of a file.
Accepted(o) ==
  /\ o # NoFile /\ Supported(o.ver)
  /\ ClockFix(o.ver) => ClockFix(flashVer)
  /\ o.bios

Older(o) == o.ver < flashVer

\* load_fw: when the flash is loaded though there may be a file.  An older file
\* for cards with memory yields whether or not versions are to be compared.
FlashFirst(mn, ct) ==
  \/ fwLoad = "flash"
  \/ Accepted(mn) /\ Older(mn)
  \/ ~Accepted(mn) /\ ~Accepted(ct)
  \/ ~Accepted(mn) /\ fwLoad = "compare" /\ Supported(flashVer) /\ Older(ct)

\* mn is the file for cards with memory and ct the other one (a P2 has one file).
\* A file that was read is kept, and taken again without another look.
ChooseFirmware ==
  /\ At("choose")
  /\ IF file # NoFile
     THEN use' = "file" /\ UNCHANGED <<file, mismatch>>
     ELSE \E mn, ct \in Offers :
            /\ board # "HMEZ" \/ fwLoad = "cutthrough" => mn = NoFile
            /\ IF FlashFirst(mn, ct)
               THEN /\ use' = "flash" /\ UNCHANGED file
                    /\ mismatch' = (mismatch \/ ~Supported(flashVer))
               ELSE /\ use' = "file" /\ UNCHANGED mismatch
                    /\ file' = IF Accepted(mn) THEN mn ELSE ct
  /\ cmdpeg' = "0"
  /\ Go("board")
  /\ UNCHANGED <<romVars, config, image, pegs, booted, rcvpeg, late,
                 bounds, tainted>>

\* The reads of pinit_from_rom and of load_from_flash.
WordToRead ==
  IF lpc \in {"board", "crbinit"} THEN BoardWord ELSE CHOOSE w \in toLoad : TRUE

LoaderReads ==
  /\ \/ lpc \in {"board", "crbinit"}
     \/ At("load") /\ use = "flash" /\ toLoad # {}
  /\ RomFastRead(Loader, WordToRead)
  /\ UNCHANGED loadVars

\* The board information is read for nothing; without valid initialisation data
\* pinit_from_rom returns, and load_fw goes on, but a P2 does not mind if the first
\* word was not read; without a word of the boot loader load_from_flash returns with
\* the pegs in reset, and nx_start_firmware goes on.
LoaderTakes ==
  LET ok == ReadAt(Loader, "read") IN
  /\ reading[Loader].at \in {"read", "failed"}
  /\ RomReturn(Loader)
  /\ tainted' = (tainted \/ (At("load") /\ disturbed[Loader]))
  /\ \/ At("board") /\ Go("lock")
     \/ At("crbinit") /\ (Go("load") \/ ((ok \/ P2) /\ Go("write")))
     \/ At("load") /\ Go(IF ok THEN "store" ELSE "dummy")
  /\ mem' = IF At("load") /\ ok
            THEN [mem EXCEPT ![reading[Loader].addr] = reading[Loader].word] ELSE mem
  /\ UNCHANGED <<config, file, use, mismatch, toLoad, magic, card, bounds>>

\* unm_nic_pci_mem_write of what was read: its result is ignored.
Stored(w) ==
  \/ toLoad' = toLoad \ {w} /\ UNCHANGED <<losses, tainted>>
  \/ losses < MaxLosses /\ losses' = losses + 1 /\ tainted' = TRUE /\ toLoad' = toLoad \ {w}

StoreFlashWord ==
  /\ At("store")
  /\ Stored(CHOOSE w \in toLoad : TRUE)
  /\ Go("load")
  /\ UNCHANGED <<romVars, config, file, use, mismatch, mem, magic, card, starts>>

\* do_load_fw_file.
StoreFileWord ==
  /\ At("load") /\ use = "file" /\ toLoad # {}
  /\ LET w == CHOOSE x \in toLoad : TRUE IN
       mem' = [mem EXCEPT ![w] = "file"] /\ Stored(w)
  /\ UNCHANGED <<romVars, config, lpc, file, use, mismatch, magic, card, starts>>

\* Releases the pegs, once all is copied, and after a file leaves the magic.
ReleasePegs ==
  /\ At("load") /\ toLoad = {} /\ ReadAt(Loader, "idle")
  /\ magic' = (magic \/ use = "file")
  /\ pegs' = starts
  /\ Go("dummy")
  /\ UNCHANGED <<romVars, config, file, use, mismatch, mem, toLoad, booted, cmdpeg, rcvpeg,
                 late, bounds, tainted>>
-----------------------------------------------------------------------------
\* The lock of the flash around the reset of the chip; one call of rom_lock,
\* whose failure is ignored, and an unlock that frees whoever holds it.
LockForReset ==
  /\ lpc \in {"hmez", "lock"} /\ ReadAt(Loader, "idle")
  /\ \/ LockGranted(Loader) /\ TakesSem2(Loader) /\ UNCHANGED <<giveUps, disturbed>>
     \/ /\ ~LockGranted(Loader) /\ giveUps < MaxGiveUps
        /\ giveUps' = giveUps + 1 /\ Disturb
        /\ UNCHANGED sem2
  /\ GoRead(Loader, "reset")
  /\ UNCHANGED <<chip, loadVars>>

\* Mutant of ResetChip: pinit_from_rom, too, leaves the CAM alone.
ResetAllButCam ==
  /\ ReadAt(Loader, "reset") /\ lpc \in {"hmez", "lock"}
  /\ pegs' = 0 /\ booted' = 0
  /\ fetching' = "none"
  /\ mem' = [w \in ImageWords |-> "nothing"]
  /\ toLoad' = IF use = "file" THEN ImageWords ELSE BootWords
  /\ tainted' = FALSE
  /\ Disturb
  /\ Go(IF At("hmez") THEN "hmezUnlock" ELSE "unlock")
  /\ UNCHANGED <<sem2, romAddr, romData, settling, reading, giveUps, config, file,
                 use, mismatch, magic, cmdpeg, rcvpeg, late, bounds>>

\* The reset of pinit_from_rom takes the CAM with the magic along, that of a P3 with
\* memory before does not.
ResetChip ==
  /\ ReadAt(Loader, "reset") /\ lpc \in {"hmez", "lock"}
  /\ pegs' = 0 /\ booted' = 0
  /\ fetching' = "none"
  /\ mem' = [w \in ImageWords |-> "nothing"] /\ magic' = (magic /\ At("hmez"))
  /\ toLoad' = IF use = "file" THEN ImageWords ELSE BootWords
  /\ tainted' = FALSE
  /\ Disturb
  /\ Go(IF At("hmez") THEN "hmezUnlock" ELSE "unlock")
  /\ UNCHANGED <<sem2, romAddr, romData, settling, reading, giveUps, config, file,
                 use, mismatch, cmdpeg, rcvpeg, late, bounds>>

UnlockAfterReset ==
  /\ lpc \in {"hmezUnlock", "unlock"}
  /\ sem2' = NoReader
  /\ GoRead(Loader, "idle")
  /\ disturbed' = [disturbed EXCEPT ![Loader] = FALSE]
  /\ IF At("hmezUnlock")
     THEN Go("choose") /\ ClearPegStates
     ELSE Go("crbinit") /\ UNCHANGED <<cmdpeg, rcvpeg>>
  /\ UNCHANGED <<chip, giveUps, config, file, use, mismatch, image, pegs, booted, late,
                 bounds, tainted>>

\* Among the initialisation data may be another reset, after which the registers
\* need a while; nobody holds the lock of the flash then.
WriteInitData ==
  /\ At("write")
  /\ \/ Go("load") /\ UNCHANGED <<settling, disturbed, fetching>>
     \/ Go("quiet") /\ settling' = TRUE /\ Disturb /\ fetching' = "none"
  /\ UNCHANGED <<sem2, romAddr, romData, reading, giveUps, config, file, use,
                 mismatch, image, card, bounds, tainted>>

Settled ==
  /\ At("quiet")
  /\ settling' = FALSE /\ Disturb /\ Go("load")
  /\ UNCHANGED <<sem2, romAddr, fetching, romData, reading, giveUps, config, file,
                 use, mismatch, image, card, bounds, tainted>>
-----------------------------------------------------------------------------
\* Released pegs run the boot loader in the memory, in their own time.  It takes the
\* magic back, and with it starts the image in the memory; without, that of the flash.
Boot ==
  /\ pegs > 0 /\ booted = 0
  /\ booted' = pegs /\ cmdpeg' = "complete"
  /\ magic' = FALSE
  /\ mem' = [w \in ImageWords |-> WillRun(w)]
  /\ UNCHANGED <<romVars, config, lpc, file, use, mismatch, toLoad, pegs, rcvpeg, late,
                 bounds, tainted>>

ReceivePegStarts ==
  /\ booted > 0 /\ cmdpeg # "0" /\ rcvpeg = "0"
  /\ rcvpeg' = "ready"
  /\ late' = (booted # starts)
  /\ UNCHANGED <<romVars, config, lpc, file, use, mismatch, image, pegs, booted, cmdpeg,
                 bounds, tainted>>

\* The dummy DMA area (whose allocation may fail), and
\* the wait for the command peg, which may end for lack of patience: the results of
\* both are ignored.
PhantomInit ==
  /\ At("dummy") /\ ReadAt(Loader, "idle")
  /\ Go("rcvpeg")
  /\ UNCHANGED <<romVars, config, file, use, mismatch, image, card, bounds, tainted>>

ReceivePegReady ==
  /\ At("rcvpeg")
  /\ Go(IF rcvpeg = "ready" THEN "up" ELSE "failed")
  /\ UNCHANGED <<romVars, config, file, use, mismatch, image, card, bounds, tainted>>

\* The first interface that is opened acknowledges the state; not with a firmware
\* the driver does not fit.
InitFirmware ==
  /\ At("up") /\ ~mismatch /\ cmdpeg = "complete"
  /\ cmdpeg' = "ack"
  /\ UNCHANGED <<romVars, config, lpc, file, use, mismatch, image, pegs, booted, rcvpeg,
                 late, bounds, tainted>>
-----------------------------------------------------------------------------
\* A function reads board information, versions, its MAC address, the EEPROM.
OtherReads(t, a) == t # Loader /\ RomFastRead(t, a) /\ UNCHANGED loadVars
OtherTakes(t) == t # Loader /\ RomReturn(t) /\ UNCHANGED loadVars

LoadNext ==
  \/ StartFirmware \/ ChooseFirmware \/ LoaderReads \/ LoaderTakes
  \/ StoreFlashWord \/ StoreFileWord \/ ReleasePegs
  \/ LockForReset \/ ResetChip \/ UnlockAfterReset \/ WriteInitData \/ Settled
  \/ Boot \/ ReceivePegStarts \/ PhantomInit \/ ReceivePegReady
  \/ InitFirmware
  \/ Fetch /\ UNCHANGED loadVars
  \/ \E t \in Readers :
       \/ RomStep(t) /\ UNCHANGED loadVars
       \/ OtherTakes(t)
       \/ \E a \in FlashWords \ ImageWords : OtherReads(t, a)

LoadSpec == LoadInit /\ [][LoadNext]_loaderVars
-----------------------------------------------------------------------------
\* Pegs that were released run the firmware that was to be loaded: the boot loader and
\* image of the flash - the boot loader copied, no magic left for an image that is not in
\* memory -, with driver_mismatch set if the driver does not support it, or all of a file
\* the driver supports, whose BIOS and clock fit those of the flash, and which is not
\* older than a supported flash where versions are compared - or newer files passed over.
\* Unless a word was lost or read while disturbed, and until a recovery, having chosen
\* anew, resets the chip.
RightFirmwareRuns ==
  pegs > 0 /\ ~tainted /\ lpc \notin {"board", "lock"} =>
    /\ \A w \in ImageWords : WillRun(w) = IF use = "file" THEN "file" ELSE w
    /\ use = "flash" /\ ~Supported(flashVer) => mismatch
    /\ use = "file" => /\ Supported(file.ver) /\ file.bios
                       /\ ClockFix(file.ver) => ClockFix(flashVer)
    /\ use = "file" /\ fwLoad = "compare" /\ Supported(flashVer) => ~Older(file)

\* When nx_start_firmware succeeds at port 0, the firmware is up that this start
\* loaded, not what an earlier one left in the card or in its registers; unless the
\* receive peg of the earlier one became ready after its state was cleared, which
\* load_fw does not do again after the reset.
UpMeansBooted == lpc = "up" /\ ~late => booted = starts

\* The firmware that runs is the one to run, and "up" speaks of it.
FirmwareRight == RightFirmwareRuns /\ UpMeansBooted
=============================================================================
