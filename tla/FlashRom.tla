------------------------------ MODULE FlashRom ------------------------------
(***************************************************************************)
(* Reading a word of the flash (driver/unm_nic_init.c).  All functions of  *)
(* a card share the registers of the flash interface; semaphore 2 of the   *)
(* card keeps their reads apart.  Waits are bounded: for the semaphore     *)
(* (rom_lock_timeout, and 50000 times that in rom_fast_read) and for the   *)
(* flash (rom_max_timeout).  The lock also keeps readers out while the     *)
(* chip is reset; but after the initialisation data of the flash has reset *)
(* it again, registers read as all ones for a while, the lock's too.       *)
(***************************************************************************)
EXTENDS Naturals, FiniteSets

CONSTANTS
  Readers, NoReader,
  FlashWords,     \* addresses of the flash; a word is known by its address
  MaxLoops,       \* 50000: tries of rom_lock in rom_fast_read
  MaxGiveUps      \* bound: waits for the flash, or for the lock, that give up

ASSUME FlashAssumption ==
  /\ NoReader \notin Readers /\ FlashWords # {} /\ "none" \notin FlashWords
  /\ MaxLoops \in Nat \ {0} /\ MaxGiveUps \in Nat

AllOnes == "0xffffffff"
AnyFlashWord == CHOOSE a \in FlashWords : TRUE

VARIABLES
  sem2,      \* who holds the semaphore, as the card has it
  romAddr,   \* ROM_ADDRESS
  fetching,  \* the address the flash was told to fetch, or "none"
  romData,   \* ROM_RDATA
  settling,  \* the chip quiets down after a reset: registers read as all ones
  reading,   \* per reader: where it is, its address, tries of the lock, the word
  disturbed, \* history: during the read of this reader, or one that overlaps it
             \* so disturbed, a wait of anyone gave up or the chip was reset
  giveUps

romVars == <<sem2, romAddr, fetching, romData, settling, reading, disturbed, giveUps>>

NoRead == [at |-> "idle", addr |-> AnyFlashWord, loops |-> 0, word |-> AllOnes]

RomInit ==
  /\ sem2 = NoReader /\ romAddr = AnyFlashWord
  /\ fetching = "none" /\ romData = AllOnes /\ settling = FALSE
  /\ reading = [t \in Readers |-> NoRead]
  /\ disturbed = [t \in Readers |-> FALSE]
  /\ giveUps = 0

ReadAt(t, l) == reading[t].at = l
GoRead(t, l) == reading' = [reading EXCEPT ![t].at = l]
chip == <<romAddr, fetching, romData, settling>>
notes == <<disturbed, giveUps>>
Disturb == disturbed' = [t \in Readers |-> ~ReadAt(t, "idle")]

RomFastRead(t, a) ==
  /\ ReadAt(t, "idle")
  /\ reading' = [reading EXCEPT ![t] = [NoRead EXCEPT !.at = "lock", !.addr = a]]
  /\ disturbed' = [disturbed EXCEPT ![t] = \/ settling \/ fetching # "none"
                                       \/ \E u \in Readers : disturbed[u]]
  /\ UNCHANGED <<sem2, chip, giveUps>>

\* rom_lock reads the register of the semaphore until it is not 0: 1 when the
\* semaphore was free and is taken, all ones while the chip settles.
LockGranted(t) == sem2 = NoReader \/ settling
TakesSem2(t) == sem2' = IF settling THEN sem2 ELSE t

\* The loop of rom_fast_read ends when the lock was obtained or tried once more
\* than MaxLoops times; either way the number of tries decides what it returns: a
\* lock obtained at the last try is kept by a read that failed.
RomLock(t) ==
  /\ ReadAt(t, "lock") /\ LockGranted(t)
  /\ TakesSem2(t)
  /\ GoRead(t, IF reading[t].loops >= MaxLoops THEN "failed" ELSE "addr")
  /\ UNCHANGED <<chip, notes>>

RomLockBusy(t) ==
  /\ ReadAt(t, "lock") /\ ~LockGranted(t)
  /\ IF reading[t].loops < MaxLoops
     THEN reading' = [reading EXCEPT ![t].loops = @ + 1]
     ELSE GoRead(t, "failed")
  /\ UNCHANGED <<sem2, chip, notes>>

\* do_rom_fast_read: the address and the opcode, which starts the flash.
SetRomAddr(t) ==
  /\ ReadAt(t, "addr")
  /\ romAddr' = reading[t].addr
  /\ GoRead(t, "opcode")
  /\ UNCHANGED <<sem2, fetching, romData, settling, notes>>

SetRomOpcode(t) ==
  /\ ReadAt(t, "opcode")
  /\ fetching' = romAddr
  /\ GoRead(t, "wait")
  /\ UNCHANGED <<sem2, romAddr, romData, settling, notes>>

\* The flash.
Fetch ==
  /\ fetching # "none"
  /\ romData' = fetching /\ fetching' = "none"
  /\ UNCHANGED <<sem2, romAddr, settling, reading, notes>>

\* Mutant of RomDone: the result is read without waiting for the flash.
RomDoneAtOnce == TRUE

RomDone == fetching = "none" \/ settling

WaitRomDone(t) ==
  /\ ReadAt(t, "wait") /\ RomDone
  /\ reading' = [reading EXCEPT ![t].at = "unlock",
                                ![t].word = IF settling THEN AllOnes ELSE romData]
  /\ UNCHANGED <<sem2, chip, notes>>

\* The flash took too long; it is not told to stop, and the lock is given back.
WaitRomTimeout(t) ==
  /\ ReadAt(t, "wait") /\ ~RomDone /\ giveUps < MaxGiveUps
  /\ giveUps' = giveUps + 1
  /\ Disturb
  /\ GoRead(t, "unlockfail")
  /\ UNCHANGED <<sem2, chip>>

\* Reading the register frees the semaphore, whoever holds it.
RomUnlock(t) ==
  /\ reading[t].at \in {"unlock", "unlockfail"}
  /\ sem2' = IF settling THEN sem2 ELSE NoReader
  /\ GoRead(t, IF ReadAt(t, "unlock") THEN "read" ELSE "failed")
  /\ UNCHANGED <<chip, notes>>

\* The caller takes the result.
RomReturn(t) ==
  /\ reading[t].at \in {"read", "failed"}
  /\ reading' = [reading EXCEPT ![t] = NoRead]
  /\ disturbed' = [disturbed EXCEPT ![t] = FALSE]
  /\ UNCHANGED <<sem2, chip, giveUps>>

RomStep(t) ==
  \/ RomLock(t) \/ RomLockBusy(t) \/ SetRomAddr(t) \/ SetRomOpcode(t)
  \/ WaitRomDone(t) \/ WaitRomTimeout(t) \/ RomUnlock(t)
-----------------------------------------------------------------------------
\* A read of the flash that returns 0 returns the word of its address, whoever
\* else reads at the time; unless during it a wait was given up or the chip was
\* reset.
FlashReadRight ==
  \A t \in Readers :
    reading[t].at = "read" /\ ~disturbed[t] => reading[t].word = reading[t].addr
=============================================================================
