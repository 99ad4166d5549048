------------------------------ MODULE PhyTest ------------------------------
(***************************************************************************)
(* The self test of a P2 port (unm_led_test and unm_loopback_test of       *)
(* driver/unm_nic_tool.c, do_xge_loopback and the MDIO frames of           *)
(* xge_mdio.c, phy_lock of niu.c): the driver and peg 0 of the card share  *)
(* the management bus of the PHY, whose accesses are a frame that says     *)
(* which register and a frame that reads or writes it.  The rtnl lock      *)
(* allows one test at a time.                                              *)
(***************************************************************************)
EXTENDS Naturals, Sequences

CONSTANTS Phys,       \* "quake", with one loopback bit, and "puma", with two
          MaxTests,   \* bound: tests
          Blinks      \* times the LED is tested: eight in the driver

ASSUME PhyAssumption == Blinks \in Nat \ {0}

VARIABLES
  phyKind,
  owner,      \* semaphore 3: "none", "driver", "peg"
  halted,     \* peg 0
  pegPc,
  selected,   \* the register the last address frame named
  phy,        \* per register: of which one it has the content, and if a test's bit is in it
  held,       \* what the driver read last
  tpc,        \* the step of the test
  script,     \* the accesses the driver has still to make
  framed,     \* the address frame of the first of them is out
  blinks, tests,
  noMemory,   \* history: a test ended for want of memory
  broken,     \* history: ... and released the lock while peg 0 held it
  astray      \* history: the users whose access met another register

card == <<phyKind, pegPc, selected, phy>>
bus == <<card, held, framed, astray>>
test == <<tpc, script, blinks, tests, noMemory, broken>>
phyVars == <<owner, halted, bus, test>>

\* The registers for loopback are "ctrl" of Quake, and "ael" and "xs" of Puma.
Registers == {"id", "status", "ctrl", "ael", "xs", "led"}
AsSet(r) == [of |-> r, bit |-> FALSE]

PhyInit ==
  /\ phyKind \in Phys /\ owner = "none" /\ halted = FALSE /\ pegPc = "idle"
  /\ selected \in Registers /\ phy = [r \in Registers |-> AsSet(r)] /\ held = AsSet("id")
  /\ tpc = "idle" /\ script = <<>> /\ framed = FALSE /\ blinks = 0 /\ tests = 0
  /\ noMemory = FALSE /\ broken = FALSE /\ astray = {}
-----------------------------------------------------------------------------
\* Accesses: [reg, to], to = "read" for one that reads, "set" and "clear" for one that writes
\* back what was read last with the bit set or cleared, "on" and "restore" for the LED.
Reads(r) == [reg |-> r, to |-> "read"]
Writes(r, to) == [reg |-> r, to |-> to]

\* do_xge_loopback, for the PHY kind that was identified; Puma's two bits are taken back in
\* the other order.
LoopbackScript(kind, on) ==
  IF kind = "quake"
  THEN <<Reads("ctrl"), Writes("ctrl", IF on THEN "set" ELSE "clear")>>
  ELSE IF on
  THEN <<Reads("ael"), Writes("ael", "set"), Reads("xs"), Writes("xs", "set")>>
  ELSE <<Reads("xs"), Writes("xs", "clear"), Reads("ael"), Writes("ael", "clear")>>

\* unm_led_test: the last one restores.
LedScript(kind) ==
  IF kind # "quake" THEN <<>>
  ELSE IF blinks + 1 = Blinks THEN <<Writes("led", "on"), Writes("led", "restore")>>
  ELSE <<Writes("led", "on")>>

\* Both begin with the identifier: what is not Quake's is Puma's for the loopback, and
\* unknown to the LED test.
Identify == <<Reads("id")>>
Identified(v) ==
  LET kind == IF v = AsSet("id") THEN phyKind ELSE "other" IN
  IF tpc = "led" THEN LedScript(kind) ELSE LoopbackScript(kind, tpc = "on")

Written(to) ==
  IF to \in {"set", "clear"} THEN [held EXCEPT !.bit = (to = "set")]
  ELSE [of |-> "led", bit |-> to = "on"]

\* The address frame ...
MdioAddress ==
  /\ script # <<>> /\ ~framed /\ framed' = TRUE
  /\ selected' = Head(script).reg
  /\ UNCHANGED <<phyKind, owner, halted, pegPc, phy, held, test, astray>>

\* ... and the other, which meets the register that was named last.
MdioData ==
  LET a == Head(script) IN
  /\ script # <<>> /\ framed /\ framed' = FALSE
  /\ script' = IF a = Reads("id") THEN Identified(phy[selected]) ELSE Tail(script)
  /\ IF a.to = "read" THEN held' = phy[selected] /\ UNCHANGED phy
     ELSE phy' = [phy EXCEPT ![selected] = Written(a.to)] /\ UNCHANGED held
  /\ astray' = IF selected = a.reg THEN astray
               ELSE astray \cup {IF tpc = "led" THEN "led" ELSE "loopback"}
  /\ UNCHANGED <<phyKind, owner, halted, selected, pegPc, tpc, blinks, tests, noMemory, broken>>
-----------------------------------------------------------------------------
\* The card's peg follows the PHY's status, under the lock.
PegLocks ==
  /\ pegPc = "idle" /\ ~halted /\ owner = "none"
  /\ owner' = "peg" /\ pegPc' = "locked"
  /\ UNCHANGED <<phyKind, halted, selected, phy, held, framed, astray, test>>

PegAddresses ==
  /\ pegPc = "locked" /\ ~halted /\ pegPc' = "addressed" /\ selected' = "status"
  /\ UNCHANGED <<phyKind, owner, halted, phy, held, framed, astray, test>>

PegReads ==
  /\ pegPc = "addressed" /\ ~halted /\ pegPc' = "read"
  /\ astray' = IF selected = "status" THEN astray ELSE astray \cup {"peg"}
  /\ UNCHANGED <<phyKind, owner, halted, selected, phy, held, framed, test>>

PegUnlocks ==
  /\ pegPc = "read" /\ ~halted /\ pegPc' = "idle" /\ owner' = "none"
  /\ UNCHANGED <<phyKind, halted, selected, phy, held, framed, astray, test>>
-----------------------------------------------------------------------------
TestGo(s, sc) == tpc' = s /\ script' = sc /\ UNCHANGED bus

\* unm_nic_diag_test: the LED, without the lock, and then the loopback.
TestBegins ==
  /\ tpc = "idle" /\ tests < MaxTests /\ tests' = tests + 1 /\ blinks' = 0
  /\ TestGo("led", Identify) /\ UNCHANGED <<owner, halted, noMemory, broken>>

LedTested ==
  /\ tpc = "led" /\ script = <<>>
  /\ IF blinks + 1 < Blinks
     THEN blinks' = blinks + 1 /\ TestGo("blink", <<>>)
     ELSE blinks' = blinks /\ TestGo("memory", <<>>)
  /\ UNCHANGED <<owner, halted, tests, noMemory, broken>>

LedAgain ==
  /\ tpc = "blink" /\ TestGo("led", Identify)
  /\ UNCHANGED <<owner, halted, blinks, tests, noMemory, broken>>

\* Without memory for the first packet the test is over; without any for the answers it
\* goes to its end as if it had begun.
TestAllocates ==
  /\ tpc = "memory"
  /\ \/ TestGo("halt", <<>>) /\ UNCHANGED noMemory
     \/ TestGo("idle", <<>>) /\ UNCHANGED noMemory
     \/ TestGo("end", <<>>) /\ noMemory' = TRUE
  /\ UNCHANGED <<owner, halted, blinks, tests, broken>>

\* Mutant of MayHalt: peg 0 is halted at any time.
MayHaltAtOnce == TRUE

\* Peg 0 is halted under the lock it uses itself.
MayHalt == owner = "none"

TestHalts ==
  /\ tpc = "halt" /\ MayHalt
  /\ halted' = TRUE /\ TestGo("halted", <<>>)
  /\ UNCHANGED <<owner, blinks, tests, noMemory, broken>>

\* It is not if the lock is not to be had in many tries: that is the end of the test.
HaltGivesUp ==
  /\ tpc = "halt" /\ owner = "peg" /\ TestGo("idle", <<>>)
  /\ UNCHANGED <<owner, halted, blinks, tests, noMemory, broken>>

\* do_xge_loopback takes the lock, or gives it up after many tries; then the first time the
\* test ends where it is, with the peg halted, and the last time it goes on.
LoopbackLocks ==
  /\ tpc \in {"halted", "unloop"} /\ owner = "none" /\ owner' = "driver"
  /\ TestGo(IF tpc = "halted" THEN "on" ELSE "off", Identify)
  /\ UNCHANGED <<halted, blinks, tests, noMemory, broken>>

LoopbackGivesUp ==
  /\ tpc \in {"halted", "unloop"} /\ owner = "peg"
  /\ TestGo(IF tpc = "halted" THEN "idle" ELSE "unhalt", <<>>)
  /\ UNCHANGED <<owner, halted, blinks, tests, noMemory, broken>>

LoopbackUnlocks ==
  /\ tpc \in {"on", "off"} /\ script = <<>>
  /\ owner' = "none" /\ TestGo(IF tpc = "on" THEN "traffic" ELSE "unhalt", <<>>)
  /\ UNCHANGED <<halted, blinks, tests, noMemory, broken>>

Traffic ==
  /\ tpc = "traffic" /\ TestGo("end", <<>>)
  /\ UNCHANGED <<owner, halted, blinks, tests, noMemory, broken>>

\* The end releases the lock, whoever holds it.
TestEnds ==
  /\ tpc = "end" /\ owner' = "none" /\ TestGo("unloop", <<>>)
  /\ broken' = (broken \/ owner = "peg")
  /\ UNCHANGED <<halted, blinks, tests, noMemory>>

TestUnhalts ==
  /\ tpc = "unhalt" /\ halted' = FALSE /\ TestGo("idle", <<>>)
  /\ UNCHANGED <<owner, blinks, tests, noMemory, broken>>
-----------------------------------------------------------------------------
PhyNext ==
  \/ MdioAddress \/ MdioData
  \/ PegLocks \/ PegAddresses \/ PegReads \/ PegUnlocks
  \/ TestBegins \/ LedTested \/ LedAgain \/ TestAllocates \/ TestHalts \/ HaltGivesUp
  \/ LoopbackLocks \/ LoopbackGivesUp \/ LoopbackUnlocks \/ Traffic \/ TestEnds \/ TestUnhalts

PhySpec == PhyInit /\ [][PhyNext]_phyVars

\* A test leaves nothing behind: the peg runs, the lock is not the driver's and the PHY is
\* as the card set it up; and what the driver reads, changes and writes back for the
\* loopback meets the register it means.  Except that an access which met another register
\* may have spoilt that one or its own, which only the LED test does, as it takes no lock,
\* and the loopback after the end of a test without memory broke the peg's lock
\* (tool.c:404).
TestLeavesNothing ==
  /\ tpc = "idle" =>
       /\ ~halted /\ owner # "driver"
       /\ astray \cap {"led", "loopback"} = {} => \A r \in Registers : phy[r] = AsSet(r)
  /\ "loopback" \in astray => broken
  /\ broken => noMemory
=============================================================================
