-------------------------------- MODULE Acpi --------------------------------
(***************************************************************************)
(* madt_parsing of src/apic.c: findAPIC looks through the tables the RSDT  *)
(* points to for the MADT, whose entries madt_parsing then walks, each by  *)
(* the length it says it has, up to the first I/O APIC.                    *)
(*                                                                         *)
(* The firmware wrote the tables; nothing checks them.  A table's bytes    *)
(* are numbered from 0, as ptr - the_madt is; an I/O APIC's address is one *)
(* of them here.                                                           *)
(***************************************************************************)
EXTENDS Integers, SequencesExt

CONSTANTS
  SDT_HEADER,        (* bytes of an acpi_header_t (36)                     *)
  POINTER,           (* bytes of a pointer in the RSDT (4)                 *)
  MADT_HEADER,       (* bytes of a MADT before its entries (44)            *)
  ADDRESS,           (* of the address in an I/O APIC's entry (4)          *)
  Tables,            (* tables the RSDT may point to: a signature and      *)
                     (* entries, sequences of bytes                        *)
  MaxTables,         (* pointers in an RSDT                                *)
  HHDM,              (* g_hhdm_offset                                      *)
  Garbage            (* bytes that may lie behind a table                  *)

ASSUME AcpiAssumption ==
  /\ {SDT_HEADER, POINTER, MADT_HEADER, ADDRESS, MaxTables, HHDM} \subseteq Nat \ {0}
  /\ \A t \in Tables : t.entries \in Seq(Seq(Nat))
  /\ Garbage \subseteq Nat

IOAPIC == 1          (* the type of an I/O APIC's entry                    *)

VARIABLES
  rsdt,              (* the tables the RSDT points to                      *)
  acpi,              (* "find", "parse", "done"                            *)
  entry,             (* findAPIC's index into the RSDT                     *)
  the_madt,          (* the table found, 0 for NULL                        *)
  ptr,               (* offset of the entry madt_parsing looks at          *)
  ioapic_base,
  astray             (* a byte has been read that is in no table           *)

acpivars == <<rsdt, acpi, entry, the_madt, ptr, ioapic_base, astray>>

AcpiInit ==
  /\ rsdt \in UNION {[1 .. n -> Tables] : n \in 0 .. MaxTables}
  /\ acpi = "find" /\ entry = 0
  /\ the_madt = 0 /\ ptr = 0
  /\ ioapic_base = 0
  /\ astray = FALSE

-----------------------------------------------------------------------------
(* findAPIC *)

rsdt_length == SDT_HEADER + POINTER * Len(rsdt)

EntriesWithHeader == rsdt_length \div POINTER
Entries == (rsdt_length - SDT_HEADER) \div POINTER

(* memcmp of the signature with "APIC".                                    *)
FindMadt ==
  /\ acpi = "find" /\ entry < Entries
  /\ entry' = entry + 1
  /\ astray' = (astray \/ entry >= Len(rsdt))
  /\ IF entry < Len(rsdt) /\ rsdt[entry + 1].signature = "APIC"
       THEN the_madt' = entry + 1 /\ acpi' = "parse" /\ ptr' = MADT_HEADER
       ELSE UNCHANGED <<the_madt, acpi, ptr>>
  /\ UNCHANGED <<rsdt, ioapic_base>>

NoMadt ==
  /\ acpi = "find" /\ entry >= Entries
  /\ acpi' = "done"
  /\ UNCHANGED <<rsdt, entry, the_madt, ptr, ioapic_base, astray>>

-----------------------------------------------------------------------------
(* The walk over the MADT *)

Bytes == FlattenSeq(rsdt[the_madt].entries)
end == MADT_HEADER + Len(Bytes)
InTable(o) == o < end
Byte(o) == Bytes[o - MADT_HEADER + 1]

(* What is read at o: behind the table that may be anything.               *)
BytesAt(o) == IF InTable(o) THEN {Byte(o)} ELSE Garbage

Type == Byte(ptr)

(* The walk goes on with what it has read, from the table or not.          *)
Entry ==
  /\ acpi = "parse" /\ ptr < end
  /\ \/ /\ Type = IOAPIC
        /\ \E address \in BytesAt(ptr + ADDRESS) : ioapic_base' = address + HHDM
        /\ astray' = (astray \/ ~InTable(ptr + 1) \/ ~InTable(ptr + ADDRESS))
        /\ acpi' = "done"
        /\ UNCHANGED ptr
     \/ /\ Type # IOAPIC
        /\ \E length \in BytesAt(ptr + 1) : ptr' = ptr + length
        /\ astray' = (astray \/ ~InTable(ptr + 1))
        /\ UNCHANGED <<acpi, ioapic_base>>
  /\ UNCHANGED <<rsdt, entry, the_madt>>

NoIoapic ==
  /\ acpi = "parse" /\ ptr >= end
  /\ acpi' = "done"
  /\ UNCHANGED <<rsdt, entry, the_madt, ptr, ioapic_base, astray>>

madt_parsing == FindMadt \/ NoMadt \/ Entry \/ NoIoapic

-----------------------------------------------------------------------------
(* Properties *)

AcpiTypeOK ==
  /\ acpi \in {"find", "parse", "done"}
  /\ entry \in 0 .. Len(rsdt)
  /\ the_madt \in 0 .. Len(rsdt)
  /\ ptr \in Nat /\ ioapic_base \in Nat
  /\ astray \in BOOLEAN

(* Tables as the ACPI specification has them: an entry's second byte is    *)
(* its length, and an I/O APIC's entry holds its address.                  *)
WellFormed(t) ==
  \A k \in DOMAIN t.entries :
    LET e == t.entries[k]
    IN  Len(e) >= 2 /\ e[2] = Len(e) /\ (e[1] = IOAPIC => Len(e) > ADDRESS)

MADTs == {k \in DOMAIN rsdt : rsdt[k].signature = "APIC"}
FirstMadt == rsdt[Min(MADTs)]

(* The I/O APICs that the first MADT lists, and the address of the first.  *)
Listed ==
  IF MADTs = {} THEN {} ELSE {k \in DOMAIN FirstMadt.entries : FirstMadt.entries[k][1] = IOAPIC}
ListedAddress == FirstMadt.entries[Min(Listed)][ADDRESS + 1]

(* In well-formed tables no byte is read that is in no table, and what     *)
(* madt_parsing leaves in ioapic_base is the address of the first I/O APIC *)
(* that the first MADT lists, or 0 without one: whatever other entries, of *)
(* whatever lengths and contents, come before it.                          *)
IoapicFound ==
  (\A k \in DOMAIN rsdt : WellFormed(rsdt[k])) =>
    /\ ~astray
    /\ acpi = "done" =>
         ioapic_base = IF Listed = {} THEN 0 ELSE ListedAddress + HHDM
=============================================================================
