----------------------------- MODULE MCStorage -----------------------------
(* Sectors of 4 bytes, directory entries of 2; 3 clusters make a FAT16, 6 a FAT32. *)
EXTENDS Fat, TLC

MCForeign == <<4>>

Bpb(bps, roots, total) ==
  [bps |-> bps, spc |-> 1, reserved |-> 1, fats |-> 2, spf |-> 1, roots |-> roots, total |-> total]
Vbr(bps, roots, total) == [NoSector EXCEPT !.sig = TRUE, !.bpb = Bpb(bps, roots, total)]
V16 == Vbr(4, 3, 9)
V32 == Vbr(4, 0, 9)
V12 == Vbr(4, 3, 7)
VBad == Vbr(8, 0, 9)

Entry(type, lba) == [type |-> type, lba |-> lba]
Unused == Entry("none", 0)
Mbr(e1, e2, e3) == [NoSector EXCEPT !.sig = TRUE, !.parts = <<e1, e2, Unused, e3>>]
Gpt(lba, count, size) == [NoSector EXCEPT !.gpt = [lba |-> lba, count |-> count, size |-> size]]
Guid(guid, lba) == [guid |-> guid, lba |-> lba]
Entries(f) == [NoSector EXCEPT !.entries = f]

Protective == Mbr(Entry("gpt", 1), Unused, Unused)

MCDrives ==
  {\* no table: a volume, a blank drive
   0 :> V32, 0 :> NoSector, 0 :> Vbr(4, 3, 9),
   \* MBR
   (0 :> Mbr(Entry("ntfs", 5), Entry("fat16", 0), Entry("fat32_lba", 7))) @@ (5 :> V16) @@ (7 :> V32),
   (0 :> Mbr(Entry("fat16_small", 5), Entry("fat32", 7), Unused)) @@ (5 :> V12) @@ (7 :> V32),
   (0 :> Mbr(Entry("fat16_lba", 5), Entry("fat32", 7), Unused)) @@ (5 :> V16) @@ (7 :> VBad),
   \* GPT: the system partition, then data partitions in two sectors, the first not FAT
   (0 :> Protective) @@ (1 :> Gpt(2, 4, 2)) @@ (2 :> Entries((0 :> Guid("esp", 5)) @@ (2 :> Guid("basic", 6))))
     @@ (3 :> Entries((0 :> Guid("basic", 8)) @@ (2 :> Guid("basic", 7)))) @@ (5 :> V32) @@ (6 :> V12) @@ (7 :> V16),
   (0 :> Protective) @@ (1 :> Gpt(2, 3, 2)) @@ (2 :> Entries((0 :> Guid("basic", 5)) @@ (2 :> Guid("basic", 6))))
     @@ (5 :> VBad) @@ (6 :> V32),
   \* GPT: entries across the end of a sector, only the system partition is FAT
   (0 :> Protective) @@ (1 :> Gpt(2, 3, 3)) @@ (2 :> Entries(0 :> Guid("esp", 5))) @@ (3 :> Entries(2 :> Guid("basic", 0)))
     @@ (5 :> V32),
   (0 :> Protective) @@ (1 :> Gpt(2, 0, 2))}
=============================================================================
