------------------------------- MODULE BootInfo -----------------------------
(***************************************************************************)
(* What the boot loader and the firmware hand to the kernel, and how        *)
(* _start reads it (src/boot/boot_info.rs, src/lib.rs): the tags of the     *)
(* Multiboot2 information structure, the memory map and the modules among   *)
(* them, the ACPI tables and the records of the MADT.                       *)
(*                                                                         *)
(* Memory is a sequence of words of 4 bytes, so that 8 bytes are two words; *)
(* a 64-bit field of a memory map entry is kept to one word.                *)
(***************************************************************************)
EXTENDS Integers, Sequences, SequencesExt

----------------------------------------------------------------------------
(* The boot loader's side. *)

\* A tag: type, size and contents, and padding to 8 bytes that the size leaves out.
TagWords(t) ==
  <<t.type, 2 + Len(t.body)>> \o t.body \o (IF Len(t.body) % 2 = 0 THEN <<>> ELSE <<0>>)

TagWordsOf(tags) == FlattenSeq([i \in DOMAIN tags |-> TagWords(tags[i])])

\* The information structure: total size, a reserved word, the tags, and the last tag.
Information(tags) ==
  <<4 + Len(TagWordsOf(tags)), 0>> \o TagWordsOf(tags) \o <<0, 2>>

\* An entry of the memory map: base, length, type (1: usable), reserved.
EntryWords(e) == <<e.base, e.end - e.base, IF e.usable THEN 1 ELSE 2, 0>>

MapTag(map) ==
  [type |-> 6, body |-> <<4, 0>> \o FlattenSeq([i \in DOMAIN map |-> EntryWords(map[i])])]

\* A module and the words of its command line.
ModuleTag(m) == [type |-> 3, body |-> <<m.start, m.end>> \o m.line]

\* The bytes of a MADT after its fixed part: records of type, length and contents.
RecordWords(r) == <<r.type, r.length>> \o r.body

MadtWords(records) == FlattenSeq([i \in DOMAIN records |-> RecordWords(records[i])])

----------------------------------------------------------------------------
(* The kernel's side. *)

\* The address of the tag after the one at a: its size further, rounded up to 8 bytes.
NextTag(words, a) == ((a + words[a + 2] + 1) \div 2) * 2

\* TagIterator: the addresses of the tags, until the last tag or the end.
TagIterator(words) ==
  LET end == words[1]
      from[a \in Nat] ==
        IF a >= end \/ (words[a + 1] = 0 /\ words[a + 2] = 2) THEN <<>>
        ELSE <<a>> \o from[NextTag(words, a)]
  IN from[2]

TagsOfType(words, typ) == SelectSeq(TagIterator(words), LAMBDA a : words[a + 1] = typ)

\* The module tags, as the ranges to reserve.
ModuleRanges(words) ==
  LET tags == TagsOfType(words, 3)
  IN [i \in DOMAIN tags |-> [start |-> words[tags[i] + 3], end |-> words[tags[i] + 4]]]

\* The entries of the last memory map tag, which start 16 bytes into it.
MemoryMapEntries(words) ==
  LET tag == Last(TagsOfType(words, 6))
      entry(i) == tag + 4 + 4 * (i - 1)
  IN [i \in 1..(words[tag + 2] - 4) \div words[tag + 3] |->
        [base |-> words[entry(i) + 1],
         end |-> words[entry(i) + 1] + words[entry(i) + 2],
         usable |-> words[entry(i) + 3] = 1]]

\* The RSDP tags, with the address of the RSDT (14) or of the XSDT (15).
AcpiTables(words) ==
  LET tags == SelectSeq(TagIterator(words), LAMBDA a : words[a + 1] \in {14, 15})
  IN [i \in DOMAIN tags |-> words[tags[i] + 3]]

\* Every table of tables has a valid checksum (sdt[t].valid), or _start panics.
ChecksumsValid(words, sdt) == \A t \in Range(AcpiTables(words)) : sdt[t].valid

\* madt_phys_addr: the first table with the signature APIC of the last RSDP that
\* leads to one, or 0.
MadtAddress(words, sdt, madts) ==
  LET first(found, t) ==
        LET apics == SelectSeq(sdt[t].tables, LAMBDA a : a \in madts)
        IN IF apics = <<>> THEN found ELSE Head(apics)
  IN FoldLeft(first, 0, AcpiTables(words))

=============================================================================
