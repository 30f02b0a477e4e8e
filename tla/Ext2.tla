-------------------------------- MODULE Ext2 --------------------------------
(***************************************************************************)
(* Reading files and directories: kernel/filesystem/vfs.cpp on top of      *)
(* kernel/filesystem/ext2.cpp on top of the drives and byte reads of       *)
(* kernel/x86/pata.cpp.  The disk is an array of words; a number, a block  *)
(* pointer and a name are a word each, and so is a unit of file data.      *)
(* What the drive does between a command and its data is left out.         *)
(***************************************************************************)
EXTENDS Integers, Sequences, SequencesExt

CONSTANTS
  SectorSize,     (* words of a sector                                     *)
  KiB,            (* words of the smallest block                           *)
  DirectBlocks,   (* the direct block pointers of an inode                 *)
  DescriptorSize, (* words of a block group's descriptor                   *)
  Numbers,        (* the numbers a u32 tells apart                         *)
  Paths,          (* what callers look up: the names between the slashes   *)
  Formatted       (* the master's disk, the files mkfs put there, and what *)
                  (* drives there are: [disk, tree, drives]                *)

VARIABLES
  disk,     (* the words of the drive                                      *)
  tree,     (* what the disk was made from; no part of the program         *)
  drives,   (* what answers as master and as slave                         *)
  s_master_drive, (* the sectors it is known to have, Unknown at first     *)
  m_superblock, (* the superblock in memory, NotMounted before Ext2()      *)
  answer,   (* the last call of the VFS and what it returned               *)
  panic     (* why the kernel stopped, "no" while it runs                  *)

hardware == <<disk, tree, drives>>
vars == <<hardware, s_master_drive, m_superblock, answer, panic>>

NotMounted == <<>>
Unknown == -1
NoAnswer == [op |-> "none"]
EXT2_ROOT_INODE == 2
EXT2_SIGNATURE == 61267
InodeWords == DirectBlocks + 3
EntryWords == 4   (* sizeof(DirectoryEntry), more than the shortest entry *)

DivideCeil(n, d) == IF n % d # 0 THEN n \div d + 1 ELSE n \div d
AtLeastOne(n) == IF n > 1 THEN n ELSE 1

-----------------------------------------------------------------------------
(* kernel/x86/pata.cpp: the words read, or Crash when an assertion fails.  *)
(* A master that was not found has no sectors, of length zero, by which    *)
(* read_bytes divides.                                                     *)

Crash == <<-1>>

read_sectors(sector, count) ==
  IF sector + count > s_master_drive THEN Crash
  ELSE SubSeq(disk, sector * SectorSize + 1, (sector + count) * SectorSize)

read_bytes(offset, len) ==
  LET count == AtLeastOne(len \div SectorSize)
                 + (IF len % SectorSize > 0 THEN 1 ELSE 0)
      rest == offset % SectorSize
      buffer == read_sectors(offset \div SectorSize, count)
  IN IF buffer = Crash THEN Crash ELSE SubSeq(buffer, rest + 1, rest + len)

-----------------------------------------------------------------------------
(* kernel/filesystem/ext2.cpp.                                             *)

SuperBlock(words) ==
  [inode_count |-> words[1], block_count |-> words[2],
   block_size_log |-> words[3], block_group_block_count |-> words[4],
   block_group_inode_count |-> words[5], signature |-> words[6],
   version_major |-> words[7], inode_struct_size |-> words[8]]

m_block_size == KiB * 2 ^ m_superblock.block_size_log
block_index_to_offset(index) == (m_block_size * index) % Numbers
DescriptorTable == IF m_block_size = KiB THEN 2 * KiB ELSE KiB

read_inode(n) ==
  LET group == (n - 1) \div m_superblock.block_group_inode_count
      index == (n - 1) % m_superblock.block_group_inode_count
      table == read_bytes(DescriptorTable + group * DescriptorSize,
                          DescriptorSize)[3]
      w == read_bytes(block_index_to_offset(table)
                        + index * m_superblock.inode_struct_size, InodeWords)
  IN [type |-> IF w[1] = 0 THEN "file" ELSE "dir", size |-> w[2],
      direct |-> SubSeq(w, 3, DirectBlocks + 2), indirect |-> w[DirectBlocks + 3]]

read_block(index) == read_bytes(block_index_to_offset(index), m_block_size)

(* Mutants: the direct blocks are not subtracted; one block less is read.  *)
ReadIndirectShifted(inode, number) ==
  IF number < DirectBlocks THEN read_block(inode.direct[number + 1])
  ELSE IF number < m_block_size THEN read_block(read_block(inode.indirect)[number + 1])
  ELSE Crash

ReadOneBlockLess(inode, number) ==
  IF number < DirectBlocks THEN read_block(inode.direct[number + 1])
  ELSE IF number < m_block_size
    THEN read_block(read_block(inode.indirect)[number - DirectBlocks + 1])
  ELSE Crash

(* The bound leaves out the direct blocks: the last indirect ones of a     *)
(* full file end in the TODO, which panics.                                *)
read_inode_block(inode, number) ==
  CASE number < DirectBlocks -> read_block(inode.direct[number + 1])
    [] DirectBlocks <= number /\ number <= m_block_size ->
         read_block(read_block(inode.indirect)[number - DirectBlocks + 1])
    [] OTHER -> Crash

(* What data_from_inode wrote: the rest of the first block, every whole    *)
(* block before the last, and then as much of the last one as is missing   *)
(* from the file's length, whatever the request's.  Wild says that it      *)
(* wrote past the buffer or read past a block.                             *)
Wild == <<-2>>

data_from_inode(inode, offset, bytes) ==
  LET first == offset \div m_block_size
      last == DivideCeil(offset + bytes, m_block_size) - 1
      skipped == offset % m_block_size
      Whole(i) == read_inode_block(inode, i)
      start == SubSeq(Whole(first), skipped + 1, m_block_size)
      numbers == [k \in 1..(last - 1 - first) |-> first + k]
      front == start \o FlattenSeq([k \in DOMAIN numbers |-> Whole(numbers[k])])
      left == inode.size - Len(front)
      wild == Len(front) > bytes \/ left \notin 0..m_block_size
                \/ Len(front) + left > bytes
  IN IF inode.type = "dir" \/ offset + bytes > inode.size THEN Crash
     ELSE IF \E i \in first..last : Whole(i) = Crash THEN Crash
     ELSE IF wild THEN Wild
     ELSE IF left = 0 THEN front
     ELSE front \o SubSeq(Whole(last), 1, left)

(* The entries func is called with, in order: what func returns is not     *)
(* looked at, so the walk never ends early.  The entry after the last one  *)
(* is read as well, and that read may be the one that fails.               *)
CrashEntry == [inode |-> -1, rec_len |-> 0, name |-> 0]

read_directory_entry(offset) ==
  LET w == read_bytes(offset, EntryWords)
  IN IF w = Crash THEN CrashEntry
     ELSE [inode |-> w[1], rec_len |-> w[2], name |-> w[3]]

(* Mutant: a deleted entry ends the block.                                 *)
EntriesUntilDeleted(index) ==
  LET from[o \in 0..m_block_size] ==
        LET dir == read_directory_entry(block_index_to_offset(index) + o)
        IN IF dir = CrashEntry \/ o >= m_block_size \/ dir.inode = 0 THEN <<>>
           ELSE <<dir>> \o from[o + dir.rec_len]
  IN from[0]

EntriesOfBlock(index) ==
  LET from[o \in 0..m_block_size] ==
        LET dir == read_directory_entry(block_index_to_offset(index) + o)
        IN CASE dir = CrashEntry -> <<dir>>
             [] dir # CrashEntry /\ o >= m_block_size -> <<>>
             [] OTHER -> (IF dir.inode # 0 THEN <<dir>> ELSE <<>>)
                           \o from[o + dir.rec_len]
  IN from[0]

(* Mutant: only the first block of a directory is walked.                  *)
ForEachInFirstBlock(inode) ==
  IF inode.type # "dir" THEN <<CrashEntry>> ELSE EntriesOfBlock(inode.direct[1])

for_each_entry_in_dir(inode) ==
  LET used == {i \in 1..DirectBlocks : \A j \in 1..i : inode.direct[j] # 0}
      blocks == [i \in used |-> EntriesOfBlock(inode.direct[i])]
      Ends(i) == \E k \in DOMAIN blocks[i] : blocks[i][k] = CrashEntry
      indirect == used = 1..DirectBlocks /\ inode.indirect # 0
  IN IF inode.type # "dir" \/ indirect \/ \E i \in used : Ends(i)
       THEN <<CrashEntry>>
       ELSE FlattenSeq(blocks)

Crashes(entries) == entries = <<CrashEntry>>

(* The last entry of that name wins, and there is one at most.             *)
find_file_in_directory(entries, name) ==
  LET found == SelectSeq(entries, LAMBDA entry : entry.name = name)
  IN IF found = <<>> THEN 0 ELSE Last(found).inode

(* The inode a path leads to, 0 for none and -1 for a failed assertion.    *)
get_inode_at_path(path) ==
  LET Step(n, name) ==
        IF n <= 0 THEN n
        ELSE LET entries == for_each_entry_in_dir(read_inode(n))
             IN IF Crashes(entries) THEN -1
                ELSE find_file_in_directory(entries, name)
  IN FoldLeft(Step, EXT2_ROOT_INODE, path)

-----------------------------------------------------------------------------
(* The calls of the VFS.                                                   *)

Init ==
  /\ \E formatted \in Formatted :
       /\ disk = formatted.disk /\ tree = formatted.tree
       /\ drives = formatted.drives
  /\ s_master_drive = Unknown
  /\ m_superblock = NotMounted
  /\ answer = NoAnswer
  /\ panic = "no"

Stop(why, arg) ==
  /\ panic' = why
  /\ answer' = [op |-> "stop", arg |-> arg]

Return(op, arg, result) ==
  /\ answer' = [op |-> op, arg |-> arg, result |-> result]
  /\ panic' = panic

Ready == panic = "no" /\ m_superblock # NotMounted

(* What identify and parse_info make of a drive: the kernel stops for one  *)
(* that is no plain disk, that reports an error, or that does not tell the *)
(* length of its sectors.                                                  *)
Identified(drive) == drive \in {"absent", "disk"}

(* initialize_pata: the master, then the slave, whose answer is not kept.  *)
initialize_pata ==
  /\ panic = "no" /\ s_master_drive = Unknown
  /\ s_master_drive' = IF drives.master = "disk" THEN Len(disk) \div SectorSize ELSE 0
  /\ IF Identified(drives.master) /\ Identified(drives.slave) THEN Return("identify", 0, 0)
     ELSE Stop("drive", 0)
  /\ UNCHANGED <<hardware, m_superblock>>

(* Ext2::Ext2 and Vfs::mount.  print_root_dir, the end of it, walks the    *)
(* root directory, which the superblock must be in memory for.             *)
ValidSuperBlock(super) ==
  /\ super.signature = EXT2_SIGNATURE
  /\ super.version_major >= 1
  /\ DivideCeil(super.block_count, super.block_group_block_count)
       = DivideCeil(super.inode_count, super.block_group_inode_count)

mount ==
  /\ panic = "no" /\ s_master_drive # Unknown /\ m_superblock = NotMounted
  /\ UNCHANGED <<hardware, s_master_drive>>
  /\ LET words == read_bytes(KiB, KiB) IN
     \/ /\ words = Crash
        /\ Stop("mount", 0) /\ UNCHANGED m_superblock
     \/ /\ words # Crash
        /\ m_superblock' = SuperBlock(words)
        /\ IF ValidSuperBlock(m_superblock')
                /\ ~Crashes(for_each_entry_in_dir(read_inode(EXT2_ROOT_INODE)))'
             THEN Return("mount", 0, 0)
             ELSE Stop("mount", 0)

LookUp(path) ==
  /\ Ready
  /\ LET n == get_inode_at_path(path)
     IN IF n = -1 THEN Stop("look up", path) ELSE Return("look up", path, n)
  /\ UNCHANGED <<hardware, s_master_drive, m_superblock>>

(* Vfs::quick_read_all_data of an inode that was found.                    *)
quick_read_all_data(path) ==
  /\ Ready
  /\ answer.op = "look up"
  /\ answer.arg = path
  /\ answer.result > 0
  /\ LET inode == read_inode(answer.result)
         data == data_from_inode(inode, 0, inode.size)
     IN CASE data = Crash -> Stop("read", answer.result)
          [] data = Wild -> Stop("wild", answer.result)
          [] OTHER -> Return("read", answer.result, data)
  /\ UNCHANGED <<hardware, s_master_drive, m_superblock>>

list_directory(n) ==
  /\ Ready
  /\ LET entries == for_each_entry_in_dir(read_inode(n))
         Generic(entry) == [name |-> entry.name, inode |-> entry.inode,
                            type |-> read_inode(entry.inode).type]
     IN IF Crashes(entries) THEN Stop("list", n)
        ELSE Return("list", n, [k \in DOMAIN entries |-> Generic(entries[k])])
  /\ UNCHANGED <<hardware, s_master_drive, m_superblock>>

Halted ==
  /\ panic # "no"
  /\ UNCHANGED vars

Next ==
  \/ initialize_pata
  \/ mount
  \/ \E path \in Paths : LookUp(path) \/ quick_read_all_data(path)
  \/ \E n \in DOMAIN tree : list_directory(n)
  \/ Halted

Spec == Init /\ [][Next]_vars

-----------------------------------------------------------------------------
(* What callers rely on.                                                   *)

(* The inode a path leads to in the tree: 0 if it leads nowhere, -1 if it  *)
(* goes on behind a file.                                                  *)
TreeAt(path) ==
  LET Step(n, name) ==
        IF n <= 0 THEN n
        ELSE IF tree[n].type = "file" THEN -1
        ELSE IF \E entry \in ToSet(tree[n].entries) : entry.name = name
          THEN (CHOOSE entry \in ToSet(tree[n].entries) : entry.name = name).inode
        ELSE 0
  IN FoldLeft(Step, EXT2_ROOT_INODE, path)

(* get_inode_at_path (ext2.cpp:265) finds exactly what is there, through   *)
(* directories of several blocks with deleted entries and inodes of other  *)
(* block groups.                                                           *)
LookUpFindsTree ==
  answer.op = "look up" => answer.result = TreeAt(answer.arg)

(* quick_read_all_data (vfs.cpp:38) returns the whole file, word by word,  *)
(* wherever its blocks lie and whether they are direct or indirect.        *)
ReadIsWhole ==
  answer.op = "read" => answer.result = tree[answer.arg].data

(* list_directory (ext2.cpp:300) gives every entry once, in the order of   *)
(* the disk, with the type of the inode it leads to.                       *)
ListIsTree ==
  answer.op = "list" =>
    /\ Len(answer.result) = Len(tree[answer.arg].entries)
    /\ \A k \in DOMAIN answer.result :
         LET entry == tree[answer.arg].entries[k]
         IN answer.result[k] = [name |-> entry.name, inode |-> entry.inode,
                                type |-> tree[entry.inode].type]

(* The kernel stops, or writes past a buffer, only for what the code does  *)
(* not support: no master, a drive that is no plain disk even where it is  *)
(* not used, a superblock of another kind, a path behind a file, a         *)
(* directory read as a file or a file listed, a directory in the last      *)
(* block of the disk (the entry after its last one is read too), a file    *)
(* shorter than a block, and one of more blocks than block pointers fit    *)
(* into a block, and one.                                                  *)
DirectoryAtEnd ==
  \E n \in DOMAIN tree :
    tree[n].type = "dir" /\ (Len(disk) \div KiB) - 1 \in ToSet(tree[n].blocks)

StopsAtLimitsOnly ==
  CASE panic = "drive" -> \E d \in {"master", "slave"} : drives[d] \notin {"absent", "disk"}
    [] panic = "mount" -> \/ drives.master = "absent" \/ DirectoryAtEnd
                          \/ ~ValidSuperBlock(m_superblock)
    [] panic = "look up" -> DirectoryAtEnd \/ TreeAt(answer.arg) = -1
    [] panic = "list" -> DirectoryAtEnd \/ tree[answer.arg].type = "file"
    [] panic = "wild" -> Len(tree[answer.arg].data) < KiB
    [] panic = "read" -> \/ tree[answer.arg].type = "dir"
                         \/ Len(tree[answer.arg].data) > (KiB + 1) * KiB
    [] OTHER -> TRUE
=============================================================================
