------------------------------- MODULE MCBoot -------------------------------
(***************************************************************************)
(* RSDTs of up to two tables, among them MADTs whose I/O APIC comes after  *)
(* entries of other types and lengths, that have none, or two, and that    *)
(* are not as they should be: an entry of length 0, ones that end early.   *)
(* The contents of an entry may look like the head of another.             *)
(***************************************************************************)
EXTENDS Boot

Ioapic(a) == <<1, 4, 0, a>>
Processor == <<0, 3, 1>>
Override == <<2, 5, 1, 4, 9>>

Table(signature, entries) == [signature |-> signature, entries |-> entries]

MCTables ==
  {Table("FACP", <<Ioapic(5)>>),
   Table("APIC", <<Processor, Override, Ioapic(3)>>),
   Table("APIC", <<Override, Ioapic(4), Ioapic(3)>>),
   Table("APIC", <<Processor>>),
   Table("APIC", <<Processor, <<5, 0>>>>),
   Table("APIC", <<Override, <<1, 2>>>>),
   Table("APIC", <<Processor, <<5>>>>)}

MCTssAddress == <<1, 2, 3, 4, 5, 6, 7, 8>>
MCIsrAddress == [n \in {0, 1, 6, 8, 13, 14, 32, 33, 50} |-> <<n, 102, 103, 104, 105, 106, 107, 108>>]
=============================================================================
