------------------------------- MODULE MCExt2 -------------------------------
(* Disks as mkfs.ext2 lays them out: the root directory, a directory of    *)
(* two blocks with deleted entries, two small files and one whose length   *)
(* varies.  Inodes 5 and up are in the second block group.                 *)
EXTENDS Ext2, FiniteSets, TLC

CONSTANT Lengths

Sectors == 8
Words == 16
Direct == 2
Descriptor == 4
PerGroup == 4
InodeSize == 8
FirstData == 7

Entry(inode, rec_len, name) == [inode |-> inode, rec_len |-> rec_len, name |-> name]

Directories ==
  (2 :> << <<Entry(2, 3, 8), Entry(2, 3, 9), Entry(3, 4, 1), Entry(0, 3, 4),
             Entry(5, 3, 3)>> >>)
  @@ (3 :> << <<Entry(3, 3, 8), Entry(2, 3, 9), Entry(4, 10, 2)>>,
             <<Entry(0, 9, 4), Entry(6, 7, 5)>> >>)

Inodes == 2..6
Size(n, len) == CASE n = 4 -> 20 [] n = 5 -> len [] n = 6 -> 32
                  [] OTHER -> Words * Len(Directories[n])
Data(n, len) == [k \in 1..Size(n, len) |-> 1000 * n + k]
DataBlocks(n, len) == DivideCeil(Size(n, len), Words)
AllBlocks(n, len) ==
  DataBlocks(n, len) + (IF DataBlocks(n, len) > Direct THEN 1 ELSE 0)

(* The places for data, each with its inode and the place in the inode;    *)
(* the last place of a big file is its block of pointers.                  *)
Places(len) ==
  FlattenSeq([j \in 1..Cardinality(Inodes) |->
    [k \in 1..AllBlocks(j + 1, len) |-> <<j + 1, k>>]])
PlaceOf(n, k, len) == CHOOSE p \in DOMAIN Places(len) : Places(len)[p] = <<n, k>>
Physical(n, len, backward) ==
  [k \in 1..AllBlocks(n, len) |->
    IF backward THEN FirstData + Len(Places(len)) - PlaceOf(n, k, len)
    ELSE FirstData - 1 + PlaceOf(n, k, len)]

Padded(s, size) == s \o [k \in 1..(size - Len(s)) |-> 0]
EntryOnDisk(e) == Padded(<<e.inode, e.rec_len, e.name>>, e.rec_len)

InodeOnDisk(n, len, backward) ==
  IF n \notin Inodes THEN Padded(<<>>, InodeSize)
  ELSE LET blocks == Physical(n, len, backward)
           direct == SubSeq(blocks, 1, IF Len(blocks) < Direct THEN Len(blocks) ELSE Direct)
       IN Padded(<<IF n \in DOMAIN Directories THEN 1 ELSE 0, Size(n, len)>>
                   \o Padded(direct, Direct)
                   \o <<IF Len(blocks) > Direct THEN Last(blocks) ELSE 0>>, InodeSize)

DataBlock(n, k, len, backward) ==
  CASE n \in DOMAIN Directories ->
         FlattenSeq([e \in DOMAIN Directories[n][k] |-> EntryOnDisk(Directories[n][k][e])])
    [] n \notin DOMAIN Directories /\ k <= DataBlocks(n, len) ->
         LET till == IF k * Words < Size(n, len) THEN k * Words ELSE Size(n, len)
         IN Padded(SubSeq(Data(n, len), (k - 1) * Words + 1, till), Words)
    [] OTHER -> Padded(SubSeq(Physical(n, len, backward), Direct + 1,
                              DataBlocks(n, len)), Words)

Image(len, backward, spare, version) ==
  LET places == Places(len)
      count == FirstData + Len(places) + spare
      At(p) == DataBlock(places[p][1], places[p][2], len, backward)
      data == [p \in DOMAIN places |->
                IF backward THEN At(Len(places) + 1 - p) ELSE At(p)]
  IN Padded(<<>>, Words)
     \o Padded(<<8, count, 0, DivideCeil(count, 2), PerGroup, EXT2_SIGNATURE,
                 version, InodeSize>>, Words)
     \o Padded(<<0, 0, 3, 0, 0, 0, 5, 0>>, Words)
     \o FlattenSeq([n \in 1..8 |-> InodeOnDisk(n, len, backward)])
     \o FlattenSeq(data)
     \o Padded(<<>>, spare * Words)

Tree(len, backward) ==
  [n \in Inodes |->
    IF n \in DOMAIN Directories
    THEN [type |-> "dir", blocks |-> Physical(n, len, backward), data |-> <<>>,
          entries |-> SelectSeq(FlattenSeq(Directories[n]), LAMBDA e : e.inode # 0)]
    ELSE [type |-> "file", blocks |-> Physical(n, len, backward),
          data |-> Data(n, len), entries |-> <<>>]]

OneDisk == [master |-> "disk", slave |-> "absent"]
Drives == [{"master", "slave"} -> {"disk", "absent", "packet", "faulty", "no sector size"}]

Disks ==
  {[disk |-> Image(len, backward, spare, 1), tree |-> Tree(len, backward), drives |-> OneDisk] :
     len \in Lengths, backward \in BOOLEAN, spare \in {0, 1}}
  \cup {[disk |-> Image(20, FALSE, 1, 0), tree |-> Tree(20, FALSE), drives |-> d] : d \in Drives}

(* 0 is the empty name, behind a slash at the end.                         *)
Searched == {<<1>>, <<3>>, <<4>>, <<0>>, <<1, 2>>, <<1, 5>>, <<1, 4>>,
             <<1, 9, 3>>, <<1, 8, 2>>, <<3, 1>>, <<1, 0>>}
=============================================================================
