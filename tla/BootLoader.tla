---------------------------- MODULE BootLoader ------------------------------
(***************************************************************************)
(* boot/main.c: the kernel image is read from the disk into memory, sector *)
(* by sector.  The image starts at sector 1 of the disk; a byte of it is   *)
(* named by its offset, and memory maps an address to such an offset, or   *)
(* to NotRead.  A segment is [va, memsz, offset].                          *)
(***************************************************************************)
EXTENDS Integers, Sequences

CONSTANTS
    SectSize,   \* SECTSIZE
    MemTop,     \* 2^24: the bits of an address above it are dropped
    ElfHdr,     \* 0x10000, where the ELF header is read
    HdrSectors  \* 8, the sectors it is read with

ASSUME BootAssumption ==
    /\ SectSize \in Nat \ {0} /\ MemTop \in Nat /\ HdrSectors \in Nat
    /\ ElfHdr \in 0 .. MemTop - HdrSectors * SectSize

NotRead == -1
EmptyMemory == [a \in 0 .. MemTop - 1 |-> NotRead]

\* readsect: a sector of the disk to dst.
readsect(mem, dst, sector) ==
    [a \in DOMAIN mem |->
        IF a \in dst .. dst + SectSize - 1 THEN (sector - 1) * SectSize + a - dst ELSE mem[a]]

RECURSIVE ReadSectors(_, _, _, _)
ReadSectors(mem, va, end_va, sector) ==
    IF va >= end_va THEN mem
    ELSE ReadSectors(readsect(mem, va, sector), va + SectSize, end_va, sector + 1)

\* Mutant: the end is computed from the rounded address.
SegmentEnd_Rounded(va, count) == va - (va % SectSize) + count
\* end_va.
SegmentEnd(va, count) == va + count

readseg(mem, va, count, offset) ==
    LET v == va % MemTop
    IN  ReadSectors(mem, v - (v % SectSize), SegmentEnd(v, count), (offset \div SectSize) + 1)

\* cmain's loop over the program headers.
RECURSIVE LoadSegments(_, _)
LoadSegments(mem, phs) ==
    IF phs = <<>> THEN mem
    ELSE LoadSegments(readseg(mem, Head(phs).va, Head(phs).memsz, Head(phs).offset), Tail(phs))

\* cmain: the memory when it enters the kernel, or when it stops because what it
\* read is no ELF file.
cmain(magic, phs) ==
    LET header == readseg(EmptyMemory, ElfHdr, HdrSectors * SectSize, 0)
    IN  [bad |-> ~magic, mem |-> IF magic THEN LoadSegments(header, phs) ELSE header]
=============================================================================
