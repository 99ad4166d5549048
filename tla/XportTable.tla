----------------------------- MODULE XportTable -----------------------------
(***************************************************************************)
(* The table of adapters of nx_xport (nx_xport/nx_pci_xport.c), by whose   *)
(* index the tools address a function (nx_xport_tool.c): devices are       *)
(* probed in any order, the module sorts the table when it has been        *)
(* loaded, and devices come and go.                                        *)
(***************************************************************************)
EXTENDS Naturals, Sequences, FiniteSets

CONSTANTS
  Devices,    \* numbers in the order of bus and function
  Empty,
  MaxEntries  \* bound: probes altogether; the code has room for 128, and no check

ASSUME XportAssumption == Devices \subseteq Nat /\ Empty \notin Devices

VARIABLES
  module,        \* "out", "probing", "sorting", "in", or "hollow"
  table,         \* all_adapters, up to current_adapter_index
  adapterIndex,  \* adapter_index of each adapter
  mapped,        \* functions that are bound
  sortAt,        \* nx_sort_adapters: <<i, j>>
  swapped,       \* entries j and j + 1 are exchanged, their indices not yet
  files,         \* open files
  using,         \* the adapter an ioctl works on
  hot,           \* history: devices unplugged while the module was loaded
  disturbed      \* history: one was, while the table was being sorted

xportVars == <<module, table, adapterIndex, mapped, sortAt, swapped, files, using, hot,
               disturbed>>
others == <<files, using, hot, disturbed>>

XportInit ==
  /\ module = "out" /\ table = <<>> /\ adapterIndex = [d \in Devices |-> 0]
  /\ mapped = {} /\ sortAt = <<0, 0>> /\ swapped = FALSE
  /\ files = 0 /\ using = Empty /\ hot = {} /\ disturbed = FALSE

\* The character device comes first: files can be opened from here on.  A class that
\* cannot be created leaves a module with nothing in it, whose load succeeded.
LoadModule ==
  /\ module = "out"
  /\ module' \in {"probing", "hollow"}
  /\ table' = <<>> /\ hot' = {} /\ disturbed' = FALSE
  /\ UNCHANGED <<adapterIndex, mapped, sortAt, swapped, files, using>>

\* nx_pci_probe, when all mappings can be had.
Probe(d) ==
  /\ module \in {"probing", "sorting", "in"} /\ d \notin mapped
  /\ Len(table) < MaxEntries
  /\ mapped' = mapped \cup {d}
  /\ adapterIndex' = [adapterIndex EXCEPT ![d] = Len(table)]
  /\ table' = Append(table, d)
  /\ UNCHANGED <<module, sortAt, swapped, others>>

\* The driver is registered, and the devices there are have been probed.
Probed ==
  /\ module = "probing"
  /\ module' = "sorting" /\ sortAt' = <<0, 0>>
  /\ UNCHANGED <<table, adapterIndex, mapped, swapped, others>>

Entry(n) == table[n + 1]

\* An entry that was cleared meanwhile is read as well; that is the end of the kernel.
SortRow ==
  /\ module = "sorting" /\ ~swapped
  /\ IF sortAt[1] + 1 < Len(table)
     THEN sortAt' = <<sortAt[1] + 1, 0>> /\ UNCHANGED module
     ELSE module' = "in" /\ UNCHANGED sortAt
  /\ sortAt[1] + 1 < Len(table) => sortAt[2] + 1 + sortAt[1] >= Len(table)
  /\ UNCHANGED <<table, adapterIndex, mapped, swapped, others>>

SortCompare ==
  /\ module = "sorting" /\ ~swapped
  /\ sortAt[2] + 1 + sortAt[1] < Len(table)
  /\ LET j == sortAt[2] IN
       /\ Entry(j) # Empty /\ Entry(j + 1) # Empty
       /\ IF Entry(j) > Entry(j + 1)
          THEN /\ table' = [table EXCEPT ![j + 1] = Entry(j + 1), ![j + 2] = Entry(j)]
               /\ swapped' = TRUE /\ UNCHANGED sortAt
          ELSE sortAt' = <<sortAt[1], j + 1>> /\ UNCHANGED <<table, swapped>>
  /\ UNCHANGED <<module, adapterIndex, mapped, others>>

\* Mutant of SortSwapped: the second index is not written.
SortSwappedHalf ==
  /\ swapped
  /\ adapterIndex' = [adapterIndex EXCEPT ![Entry(sortAt[2])] = sortAt[2]]
  /\ swapped' = FALSE /\ sortAt' = <<sortAt[1], sortAt[2] + 1>>
  /\ UNCHANGED <<module, table, mapped, others>>

SortSwapped ==
  /\ swapped
  /\ LET j == sortAt[2] IN
       adapterIndex' = [d \in Devices |->
         IF d = Entry(j) THEN j ELSE IF d = Entry(j + 1) THEN j + 1 ELSE adapterIndex[d]]
  /\ swapped' = FALSE /\ sortAt' = <<sortAt[1], sortAt[2] + 1>>
  /\ UNCHANGED <<module, table, mapped, others>>

\* nx_pci_remove.
Remove(d) ==
  /\ d \in mapped
  /\ table' = [table EXCEPT ![adapterIndex[d] + 1] = Empty]
  /\ mapped' = mapped \ {d}
  /\ UNCHANGED <<adapterIndex, sortAt, swapped, files, using>>

HotRemove(d) ==
  /\ module \in {"sorting", "in"}
  /\ Remove(d) /\ hot' = hot \cup {d}
  /\ disturbed' = (disturbed \/ module = "sorting")
  /\ UNCHANGED module

\* unm_exit_module, once nobody holds the module.
Unused == files = 0

Unload ==
  /\ module = "in" /\ Unused
  /\ module' = "unloading"
  /\ UNCHANGED <<table, adapterIndex, mapped, sortAt, swapped, others>>

UnloadRemoves(d) == module = "unloading" /\ Remove(d) /\ UNCHANGED <<module, hot, disturbed>>

\* current_adapter_index starts from 0 with the next load.
Unloaded ==
  /\ module = "unloading" /\ mapped = {}
  /\ module' = "out"
  /\ UNCHANGED <<table, adapterIndex, mapped, sortAt, swapped, others>>

\* nx_pci_open and nx_pci_release hold the module.
OpenFile ==
  /\ module \in {"probing", "sorting", "in"} /\ files = 0
  /\ files' = 1
  /\ UNCHANGED <<module, table, adapterIndex, mapped, sortAt, swapped, using, hot, disturbed>>

ReleaseFile ==
  /\ files = 1 /\ using = Empty
  /\ files' = 0
  /\ UNCHANGED <<module, table, adapterIndex, mapped, sortAt, swapped, using, hot, disturbed>>

\* nx_xport_do_ioctl takes an index and works on what the table has there.
IoctlBegins(n) ==
  /\ files = 1 /\ using = Empty /\ n < Len(table) /\ Entry(n) # Empty
  /\ using' = Entry(n)
  /\ UNCHANGED <<module, table, adapterIndex, mapped, sortAt, swapped, files, hot, disturbed>>

IoctlEnds ==
  /\ using # Empty
  /\ using' = Empty
  /\ UNCHANGED <<module, table, adapterIndex, mapped, sortAt, swapped, files, hot, disturbed>>

XportNext ==
  \/ LoadModule \/ Probed \/ SortRow \/ SortCompare \/ SortSwapped
  \/ Unload \/ Unloaded \/ OpenFile \/ ReleaseFile \/ IoctlEnds
  \/ \E d \in Devices : Probe(d) \/ HotRemove(d) \/ UnloadRemoves(d)
  \/ \E n \in 0..(MaxEntries - 1) : IoctlBegins(n)
-----------------------------------------------------------------------------
\* The table leads to every function that is bound, by the index the function has in
\* it, and to none that is gone - but for the two entries just exchanged - and an
\* ioctl works on a function that is there unless it was unplugged; except if one was
\* unplugged while the table was being sorted (nx_sort_adapters, nx_pci_remove).
TableTrue ==
  ~disturbed =>
    /\ \A d \in mapped : swapped \/ Entry(adapterIndex[d]) = d
    /\ \A n \in 1..Len(table) : table[n] # Empty => table[n] \in mapped
    /\ using # Empty => using \in mapped \cup hot
=============================================================================
