--------------------------- MODULE ForwardingTable ---------------------------
(***************************************************************************)
(* The ForwardingTable of switch.c.  A table is the sequence of its first  *)
(* size entries, so its size is its length; positions and link numbers     *)
(* count from 1 here and from 0 in the code, and -1 is "none" in both.     *)
(*                                                                         *)
(* A definition named X_Slip stands next to a definition X and is what a   *)
(* slip in the code would make of it; nothing uses it.                     *)
(***************************************************************************)
EXTENDS Integers, Sequences

TableEntry == [valid : {1}, dest_addr : Int, linkOutNum : Nat \ {0}]

tableInit == << >>

\* The first entry for the address.
tableEntryIndex_Short(t, dest_addr) ==
  IF \E i \in 1 .. Len(t) - 1 : t[i].dest_addr = dest_addr
  THEN CHOOSE i \in 1 .. Len(t) - 1 : t[i].dest_addr = dest_addr
  ELSE -1

tableEntryIndex(t, dest_addr) ==
  LET Found(i) == t[i].dest_addr = dest_addr
  IN  IF \E i \in DOMAIN t : Found(i)
      THEN CHOOSE i \in DOMAIN t : Found(i) /\ \A j \in 1 .. i - 1 : ~Found(j)
      ELSE -1

\* The entry goes into entries[size] whether or not the array has such a slot.
tableAddEntry(t, valid, dest_addr, linkOut) ==
  Append(t, [valid |-> valid, dest_addr |-> dest_addr, linkOutNum |-> linkOut])

tableUpdateEntry(t, i, valid, linkOut) ==
  [t EXCEPT ![i] = [valid |-> valid, dest_addr |-> @.dest_addr, linkOutNum |-> linkOut]]

tableUpdate(t, valid, dest_addr, linkOut) ==
  LET i == tableEntryIndex(t, dest_addr)
  IN  IF i = -1
      THEN tableAddEntry(t, valid, dest_addr, linkOut)
      ELSE tableUpdateEntry(t, i, valid, linkOut)

tableGetOutLink_NotFirst(t, dest_addr) ==
  LET i == tableEntryIndex(t, dest_addr)
  IN  IF i <= 1 THEN -1 ELSE t[i].linkOutNum

tableGetOutLink(t, dest_addr) ==
  LET i == tableEntryIndex(t, dest_addr)
  IN  IF i = -1 THEN -1 ELSE t[i].linkOutNum

-----------------------------------------------------------------------------
\* The addresses with an entry.
KnownAddrs(t) == { t[i].dest_addr : i \in DOMAIN t }
=============================================================================
