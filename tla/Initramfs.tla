------------------------------ MODULE Initramfs -----------------------------
(***************************************************************************)
(* The initramfs of src/fs/tar.rs: a tar archive in memory, the directory   *)
(* parse_tarball makes of it, and reads through a TarVnode.  Memory is a    *)
(* sequence of bytes; an address is the number of bytes before it.  Of the  *)
(* fields of a header only the name and the size are kept.                  *)
(***************************************************************************)
EXTENDS Integers, Sequences

CONSTANTS
  BlockSize,  \* 512
  NameLen,    \* the length of the name field: 100
  SizeLen,    \* the length of the size field: 12
  DirNameLen  \* the length of the name field of a DirEntry: 64

ASSUME InitramfsAssumption ==
  /\ {BlockSize, NameLen, SizeLen, DirNameLen} \subseteq Nat \ {0}
  /\ NameLen + SizeLen <= BlockSize

----------------------------------------------------------------------------
(* The archive, as tar writes it. *)

Zeros(n) == [i \in 1..n |-> 0]

Filled(s, n) == s \o Zeros(n - Len(s))

\* The octal digits of a size in the field, and a NUL.
OctalField(size) ==
  [i \in 1..SizeLen |-> IF i = SizeLen THEN 0 ELSE 48 + ((size \div 8^(SizeLen - 1 - i)) % 8)]

Header(member) ==
  Filled(Filled(member.name, NameLen) \o OctalField(Len(member.data)), BlockSize)

\* A header and the data, padded to whole blocks; two blocks of zeros at the end.
Blocks(n) == (n + BlockSize - 1) \div BlockSize

Archive(members) ==
  LET upTo[i \in 0..Len(members)] ==
        IF i = 0 THEN <<>>
        ELSE upTo[i - 1] \o Header(members[i])
             \o Filled(members[i].data, BlockSize * Blocks(Len(members[i].data)))
  IN upTo[Len(members)] \o Zeros(2 * BlockSize)

----------------------------------------------------------------------------
(* The kernel's side. *)

\* parse_octal: digits count, a NUL or a space ends the number once it is
\* positive, and everything else is skipped.
ParseOctal(bytes) ==
  LET digit(acc, b) ==
        IF acc.done THEN acc
        ELSE IF b \in 48..55 THEN [acc EXCEPT !.n = @ * 8 + (b - 48)]
        ELSE [acc EXCEPT !.done = b \in {0, 32} /\ acc.n > 0]
      after[i \in 0..Len(bytes)] ==
        IF i = 0 THEN [n |-> 0, done |-> FALSE] ELSE digit(after[i - 1], bytes[i])
  IN after[Len(bytes)].n

\* The name: up to the first NUL of its field, and empty if there is none.
ParseName(field) ==
  LET nuls == {i \in DOMAIN field : field[i] = 0}
  IN IF nuls = {} THEN <<>>
     ELSE SubSeq(field, 1, (CHOOSE i \in nuls : \A j \in nuls : i <= j) - 1)

\* align_to(size, 512).
AlignTo(n) == Blocks(n) * BlockSize

\* parse_tarball: one TarVnode per header, until a header that starts with a NUL.
ParseTarball(image) ==
  LET field(a, from, n) == SubSeq(image, a + from + 1, a + from + n)
      vnode(a) == [name |-> ParseName(field(a, 0, NameLen)),
                   size |-> ParseOctal(field(a, NameLen, SizeLen)),
                   data |-> a + BlockSize]
      from[a \in Nat] ==
        IF image[a + 1] = 0 THEN <<>>
        ELSE <<vnode(a)>> \o from[a + BlockSize + AlignTo(vnode(a).size)]
  IN from[0]

\* TarDirectory::lookup: the first vnode with the name, or 0.
Lookup(dir, name) ==
  LET found == {i \in DOMAIN dir : dir[i].name = name}
  IN IF found = {} THEN 0 ELSE CHOOSE i \in found : \A j \in found : i <= j

\* TarDirectory::readdir: the entry, its name cut to fit, or nothing.
ReadDir(dir, i) ==
  IF i \notin DOMAIN dir THEN <<>>
  ELSE <<[size |-> dir[i].size,
          name |-> IF Len(dir[i].name) < DirNameLen THEN dir[i].name
                   ELSE SubSeq(dir[i].name, 1, DirNameLen - 1)]>>

\* (Mutant: the rest of the file does not bound the read.)
BytesReadUnbounded(v, offset, len) == len

\* TarVnode::read: how many bytes, up to the end of the file ...
BytesRead(v, offset, len) ==
  IF offset >= v.size THEN 0
  ELSE IF len < v.size - offset THEN len ELSE v.size - offset

\* ... and which.
ReadAt(image, v, offset, len) ==
  SubSeq(image, v.data + offset + 1, v.data + offset + BytesRead(v, offset, len))

=============================================================================
