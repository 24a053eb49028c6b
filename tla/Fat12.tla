------------------------------- MODULE Fat12 --------------------------------
(***************************************************************************)
(* The file system of ScorchOS: volumes (src/fsys.c), the FAT12 reader     *)
(* (src/fat12.c), and the command that prints a file (cmd_read() in        *)
(* src/kernel.c), over sectors that the floppy driver reads.               *)
(*                                                                         *)
(* One thread runs all of it.  A sector may be unreadable: the driver then *)
(* returns what its buffer held, or a null pointer, and nobody looks: the  *)
(* code goes on with some file, or some entry, in its place (here, one at  *)
(* cluster 2, or an end), and nothing is claimed of it any more ("bad").   *)
(* Memory behind a string holds one unknown character ("beyond").          *)
(* Clusters that the disk does not have are not followed ("astray").       *)
(***************************************************************************)
EXTENDS Integers, Sequences, FiniteSets

CONSTANTS
  BaseLength, ExtLength,   \* of a DOS name: 8 and 3
  SectorSize,              \* bytes: 512
  RootSectors,             \* of the root directory, as the code has it: 14
  EntriesPerSector,        \* 16
  DataOffset,              \* the code's constant for the data area: 32
  PathnameSize,            \* room for a component of a path: 16
  NumberOfFats, SectorsPerFat,   \* the disk: its boot sector
  MaxCluster,                    \* the disk: its last cluster
  Root,                    \* the disk: entries of the root directory
  Sub,                     \* the disk: entries in the clusters of directories
  Fats,                    \* the disk: what its FAT may hold
  Paths,                   \* what callers ask to open
  Capital                  \* the small letters of names, and their capitals

Clusters == 2..MaxCluster
NameLength == BaseLength + ExtLength
FatValues == 0..4095

\* Two entries of the root directory that have one name are of one kind.
RootEntriesFit ==
  \A k \in DOMAIN Root :
    /\ Root[k].Filename \in Seq(STRING) /\ Len(Root[k].Filename) = NameLength
    /\ Root[k].Attrib \in {"file", "directory"}
    /\ \A l \in DOMAIN Root :
         Root[k].Filename = Root[l].Filename => Root[k].Attrib = Root[l].Attrib

\* The disk is laid out as the constants in the code say, as 1.44 MB disks are,
\* and its FAT has room for every cluster.
DiskLayout ==
  /\ {BaseLength, ExtLength, SectorSize, RootSectors, EntriesPerSector} \subseteq Nat \ {0}
  /\ {PathnameSize, NumberOfFats, SectorsPerFat} \subseteq Nat \ {0}
  /\ DataOffset = NumberOfFats * SectorsPerFat + RootSectors
  /\ MaxCluster \in 2..4087 /\ (MaxCluster * 3) \div 2 + 1 < SectorsPerFat * SectorSize
  /\ DOMAIN Root = 0..(RootSectors * EntriesPerSector - 1)
  /\ RootEntriesFit
  /\ \A f \in Fats : f \in [0..MaxCluster -> FatValues] /\ f[0] = 4080

\* Callers pass strings; letters are neither marks nor the end of a string; a
\* component of a path has room for a DOS name and its dot.
Names ==
  /\ Paths \subseteq Seq(STRING) /\ PathnameSize > NameLength
  /\ DOMAIN Capital \cap {".", ":", "\\", "nul"} = {}
  /\ \A c \in DOMAIN Capital : Capital[c] \in STRING \ {"nul"}

ASSUME FatAssumption == DiskLayout
ASSUME NamesAssumption == Names

VARIABLES
  stage,       \* where the thread is
  fat,         \* the disk: its FAT
  rootOffset,  \* _MountInfo.rootOffset
  path,        \* the path being opened, without the drive
  beyond,      \* the character behind the end of strings
  p,           \* where the component being looked for starts; -1: no '\'
  name,        \* DosFileName: what the directory is searched for
  sector,      \* sectors of the root directory looked at
  file,        \* the FILE being found or read: its cluster and eof
  opened,      \* history: what volOpenFile() returned: FS_* and first cluster
  asked,       \* history: the path as it was given
  handed,         \* history: the sectors handed to the reader of the file
  bad          \* history: a sector could not be read since the file was asked for

fatVars ==
  <<stage, fat, rootOffset, path, beyond, p, name, sector, file, opened, asked, handed, bad>>

NUL   == "nul"
SPACE == "space"
toupper(c) == IF c \in DOMAIN Capital THEN Capital[c] ELSE c

Nothing == [kind |-> "FS_INVALID", cluster |-> 0]

Min2(a, b) == IF a <= b THEN a ELSE b

-----------------------------------------------------------------------------
(* Names *)

\* Character i of string s, counted from 0.
Char(s, i, after) ==
  IF i < Len(s) THEN s[i + 1] ELSE IF i = Len(s) THEN NUL ELSE after

\* Where the loop over the name stops: at the last character, whatever it is,
\* unless strlen() - 1 has wrapped; at a dot; or when the base is full.
Stops(s, after) ==
  LET stop == {i \in 0..BaseLength : \/ Len(s) # 0 /\ i >= Len(s) - 1
                                     \/ Char(s, i, after) = "." \/ i = BaseLength}
  IN CHOOSE i \in stop : \A j \in stop : i <= j

\* Mutant: the extension is put one place too far to the left.
ToDosFileNameLeft(s, after) ==
  LET stop == Stops(s, after)
      dot  == Char(s, stop, after) = "."
  IN [k \in 1..NameLength |->
        IF k < BaseLength THEN IF k <= stop THEN toupper(Char(s, k - 1, after)) ELSE SPACE
        ELSE LET c == Char(s, stop + k - BaseLength + 1, after)
             IN IF dot /\ c # NUL THEN toupper(c) ELSE SPACE]

ToDosFileName(s, after) ==
  LET stop == Stops(s, after)
      dot  == Char(s, stop, after) = "."
  IN [k \in 1..NameLength |->
        IF k <= BaseLength THEN IF k <= stop THEN toupper(Char(s, k - 1, after)) ELSE SPACE
        ELSE LET c == Char(s, stop + k - BaseLength, after)
             IN IF dot /\ c # NUL THEN toupper(c) ELSE SPACE]

\* Strings end at their first NUL.
strcmp(s, t) ==
  LET end(u) == {k \in 1..Len(u) : u[k] = NUL}
      cut(u) == IF end(u) = {} THEN u
                ELSE SubSeq(u, 1, (CHOOSE k \in end(u) : \A l \in end(u) : k <= l) - 1)
  IN cut(s) = cut(t)

\* The position of the first '\' at or after i, or -1.
strchr(s, i) ==
  LET found == {k \in i..(Len(s) - 1) : s[k + 1] = "\\"}
  IN IF found = {} THEN -1 ELSE CHOOSE k \in found : \A l \in found : k <= l

\* The component of the path that starts at p, or all of it when p is -1.
Pathname(s, start) ==
  IF start = -1 THEN s
  ELSE LET end == IF strchr(s, start) = -1 THEN Len(s) ELSE strchr(s, start)
       IN SubSeq(s, start + 1, Min2(end, start + PathnameSize))

-----------------------------------------------------------------------------
(* The FAT *)

\* The disk: two clusters of 12 bits in three bytes.
FatByte(k) ==
  LET e(c) == IF c <= MaxCluster THEN fat[c] ELSE 0
      even == 2 * (k \div 3)
  IN CASE k % 3 = 0 -> e(even) % 256
       [] k % 3 = 1 -> e(even) \div 256 + (e(even + 1) % 16) * 16
       [] k % 3 = 2 -> e(even + 1) \div 16

\* The disk: byte b of sector n of the FATs, all copies alike; 0 elsewhere.
DiskByte(n, b) ==
  IF n \in 1..(NumberOfFats * SectorsPerFat)
  THEN FatByte(((n - 1) % SectorsPerFat) * SectorSize + b) ELSE 0

\* Mutant: only the first of the two sectors is read.
NextClusterOneSector(c) ==
  LET FAT_Offset  == c + c \div 2
      FAT_Sector  == 1 + FAT_Offset \div SectorSize
      entryOffset == FAT_Offset % SectorSize
      FAT(i)      == IF i < SectorSize THEN DiskByte(FAT_Sector, i) ELSE 0
      word        == FAT(entryOffset) + 256 * FAT(entryOffset + 1)
  IN IF c % 2 = 1 THEN word \div 16 ELSE word % 4096

\* Two sectors are read into FAT, the entry may lie across them.
NextCluster(c) ==
  LET FAT_Offset  == c + c \div 2
      FAT_Sector  == 1 + FAT_Offset \div SectorSize
      entryOffset == FAT_Offset % SectorSize
      FAT(i)      == DiskByte(FAT_Sector + i \div SectorSize, i % SectorSize)
      word        == FAT(entryOffset) + 256 * FAT(entryOffset + 1)
  IN IF c % 2 = 1 THEN word \div 16 ELSE word % 4096

\* The file ends at an end mark, and at a free cluster.
EndMark(n) == n >= 4088 \/ n = 0

\* Mutant: at an end mark the file is left as it is.
AdvanceNoEof(f, next) == IF EndMark(next) THEN f ELSE [f EXCEPT !.cluster = next]
\* What fsysFatRead() leaves in the FILE, given the entry it found.
Advance(f, next) ==
  IF EndMark(next) THEN [f EXCEPT !.eof = TRUE] ELSE [f EXCEPT !.cluster = next]

PhysSector(c) == DataOffset + (c - 1)

-----------------------------------------------------------------------------
(* Mounting and opening *)

FatInit ==
  /\ stage = "off" /\ fat \in Fats /\ rootOffset = 0
  /\ path = <<>> /\ beyond = NUL /\ p = -1 /\ name = <<>> /\ sector = 0
  /\ file = [cluster |-> 0, eof |-> FALSE]
  /\ opened = Nothing /\ asked = <<>> /\ handed = <<>> /\ bad = FALSE

\* The boot sector tells where the root directory is, if it can be read.
fsysFatMount ==
  /\ stage = "off" /\ stage' = "idle"
  /\ \/ rootOffset' = NumberOfFats * SectorsPerFat + 1
     \/ rootOffset' = 0
  /\ UNCHANGED <<bad, fat, path, beyond, p, name, sector, file, opened, asked, handed>>

\* A drive letter is looked for one place too far; letters other than 'a'
\* have no file system, and what is no letter indexes outside of the table.
volOpenFile(fname) ==
  /\ stage = "idle" /\ asked' = fname /\ handed' = <<>> /\ opened' = Nothing
  /\ beyond' \in {NUL, "a"}
  /\ LET drive == Char(fname, 2, beyond') = ":"
         rest  == IF drive THEN SubSeq(fname, 4, Len(fname)) ELSE fname
         start == strchr(rest, 0)
     IN /\ path' = rest
        /\ p' = IF start = -1 THEN -1 ELSE start + 1
        /\ IF ~drive \/ fname[1] = "a" THEN stage' = "directory"
           ELSE IF fname[1] \in DOMAIN Capital THEN stage' = "opened"
           ELSE stage' \in {"opened", "astray"}
  /\ name' = ToDosFileName(Pathname(path', p'), beyond')
  /\ sector' = 0
  /\ UNCHANGED <<fat, rootOffset, file, bad>>

Found(entry) ==
  [kind |-> IF entry.Attrib = "directory" THEN "FS_DIRECTORY" ELSE "FS_FILE",
   cluster |-> entry.FirstCluster]

\* What fsysFatOpen() does with the FILE it handed for a component: a file is
\* returned even when more components follow; a directory is gone into.
Component(found) ==
  LET next == strchr(path, p + 1) IN
  /\ file' = [cluster |-> found.cluster, eof |-> FALSE]
  /\ IF p # -1 /\ found.kind = "FS_DIRECTORY" /\ next # -1
     THEN /\ stage' = "subdir" /\ p' = next + 1
          /\ name' = ToDosFileName(Pathname(path, next + 1), beyond)
          /\ UNCHANGED opened
     ELSE /\ stage' = "opened" /\ UNCHANGED <<p, name>>
          /\ opened' = IF found.kind = "FS_FILE" THEN found ELSE Nothing

MoreSectors(n) == n + 1 < RootSectors

\* The entries of the sector of the root directory that match, lowest first.
Matching(entries) == {k \in DOMAIN entries : strcmp(name, entries[k].Filename)}
First(entries) ==
  entries[CHOOSE k \in Matching(entries) : \A l \in Matching(entries) : k <= l]

RootEntries(n) ==
  [k \in {l \in DOMAIN Root : l \div EntriesPerSector = n} |-> Root[k]]

fsysFatDirectory ==
  LET entries == RootEntries(rootOffset + sector - (NumberOfFats * SectorsPerFat + 1)) IN
  /\ stage = "directory"
  /\ \/ /\ Matching(entries) # {} /\ Component(Found(First(entries)))
        /\ UNCHANGED <<sector, bad>>
     \/ /\ bad' = TRUE /\ UNCHANGED sector
        /\ \E k \in {"FS_FILE", "FS_DIRECTORY"} : Component([kind |-> k, cluster |-> 2])
     \/ /\ Matching(entries) = {} /\ UNCHANGED bad
        /\ IF MoreSectors(sector)
           THEN sector' = sector + 1 /\ UNCHANGED <<stage, file, opened, p, name>>
           ELSE Component(Nothing) /\ UNCHANGED sector
  /\ UNCHANGED <<fat, rootOffset, path, beyond, asked, handed>>

\* The FILE that is read is not the directory: it is not initialized.
Uninitialized ==
  /\ stage = "subdir" /\ stage' = "subread"
  /\ \E c \in Clusters : file' = [file EXCEPT !.cluster = c]
  /\ UNCHANGED <<fat, rootOffset, path, beyond, p, name, sector, opened, asked, handed, bad>>

\* The loop ends when the name is found, and never otherwise.
fsysFatOpenSubDir ==
  LET entries == Sub[file.cluster] IN
  /\ stage = "subread"
  /\ \/ /\ file.cluster \in Clusters /\ Matching(entries) # {}
        /\ Component(Found(First(entries)))
     \/ /\ file.cluster \in Clusters /\ Matching(entries) = {}
        /\ file' = Advance(file, NextCluster(file.cluster))
        /\ UNCHANGED <<stage, opened, p, name>>
     \/ file.cluster \notin Clusters /\ stage' = "astray" /\ UNCHANGED <<file, opened, p, name>>
  /\ UNCHANGED <<fat, rootOffset, path, beyond, sector, asked, handed, bad>>

-----------------------------------------------------------------------------
(* Reading *)

\* cmd_read() looks at what it was given.
cmd_read ==
  /\ stage = "opened"
  /\ stage' = IF opened.kind = "FS_FILE" THEN "reading" ELSE "done"
  /\ UNCHANGED <<fat, rootOffset, path, beyond, p, name, sector, file, opened, asked, handed, bad>>

\* The history stops at as many sectors as there are clusters, the reading does
\* not.
Grown ==
  IF ~bad /\ Len(handed) < MaxCluster THEN Append(handed, PhysSector(file.cluster)) ELSE handed

\* One cluster of the file and its entry in the FAT.
fsysFatRead ==
  /\ stage = "reading"
  /\ IF file.cluster \in Clusters
     THEN /\ file' = Advance(file, NextCluster(file.cluster)) /\ handed' = Grown
          /\ stage' = IF file'.eof THEN "done" ELSE "reading"
     ELSE stage' = "astray" /\ UNCHANGED <<file, handed>>
  /\ UNCHANGED <<fat, rootOffset, path, beyond, p, name, sector, opened, asked, bad>>

\* A sector of the FAT or of the file could not be read.
ReadFails ==
  /\ stage = "reading" /\ file.cluster \in Clusters
  /\ \E n \in {0, 2} : file' = Advance(file, n)
  /\ handed' = Grown /\ bad' = TRUE
  /\ stage' = IF file'.eof THEN "done" ELSE "reading"
  /\ UNCHANGED <<fat, rootOffset, path, beyond, p, name, sector, opened, asked>>

\* The FILE is closed, or forgotten; nothing of it is left.
volCloseFile ==
  /\ stage = "done" /\ stage' = "idle" /\ opened' = Nothing
  /\ path' = <<>> /\ beyond' = NUL /\ p' = -1 /\ name' = <<>>
  /\ sector' = 0 /\ asked' = <<>> /\ handed' = <<>>
  /\ file' = [cluster |-> 0, eof |-> FALSE] /\ bad' = FALSE
  /\ UNCHANGED <<fat, rootOffset>>

Work ==
  \/ fsysFatMount \/ fsysFatDirectory \/ Uninitialized \/ fsysFatOpenSubDir
  \/ cmd_read \/ fsysFatRead \/ volCloseFile

FatNext == Work \/ ReadFails \/ \E fname \in Paths : volOpenFile(fname)

\* The thread runs; no sector has to fail, and nobody has to open a file.
FatSpec == FatInit /\ [][FatNext]_fatVars /\ WF_fatVars(Work)

-----------------------------------------------------------------------------
(* What the FAT and DOS names are, apart from the code that reads them *)

\* Names with a base and a full extension, and how a directory holds them.
Letters == DOMAIN Capital
Name83(s) ==
  \E b \in 1..BaseLength :
    /\ Len(s) = b + 1 + ExtLength /\ s[b + 1] = "."
    /\ \A k \in 1..Len(s) : k # b + 1 => s[k] \in Letters
Dot(s) == CHOOSE k \in 1..Len(s) : s[k] = "."
Padded(s) ==
  [k \in 1..NameLength |->
     IF k < Dot(s) THEN Capital[s[k]]
     ELSE IF k <= BaseLength THEN SPACE ELSE Capital[s[Dot(s) + k - BaseLength]]]

\* The clusters of a file that begins at c, as FAT f has them: the first is
\* number 0, and behind the end there is none.
Chain(f, c) ==
  LET cluster[n \in 0..MaxCluster] ==
        IF n = 0 THEN c
        ELSE IF cluster[n - 1] \in Clusters THEN f[cluster[n - 1]] ELSE 0
  IN cluster
Ends(c) == \E n \in 1..MaxCluster : Chain(fat, c)[n] >= 4088

AllRead == ~bad /\ rootOffset = NumberOfFats * SectorsPerFat + 1

\* "file", "a:\file" and "\file" name a file of the root directory.
Plain(s) ==
  IF Len(s) > 3 /\ SubSeq(s, 1, 3) = <<"a", ":", "\\">> THEN SubSeq(s, 4, Len(s))
  ELSE IF s # <<>> /\ s[1] = "\\" THEN Tail(s) ELSE s

RootFiles(dos) ==
  {k \in DOMAIN Root : Root[k].Filename = dos /\ Root[k].Attrib = "file"}

-----------------------------------------------------------------------------
(* Properties *)

\* A name with a full extension opens the file of that name in the root
\* directory, whichever of the three ways it is given, whatever lies behind
\* the end of the string, and wherever in the directory it is; and opens
\* nothing when there is none.
RightFile ==
  stage = "opened" /\ AllRead /\ Name83(Plain(asked)) =>
    LET files == RootFiles(Padded(Plain(asked))) IN
    /\ files = {} => opened = Nothing
    /\ files # {} => \E k \in files : opened = Found(Root[k])

\* The sectors a file is read from are those of its clusters, in the order of
\* its chain, entries that lie across two sectors of the FAT included, up to
\* the end mark and not less.  The data area starts behind the root directory,
\* with cluster 2.
ReadsTheChain ==
  AllRead /\ opened.cluster \in Clusters =>
    /\ \A n \in 1..Len(handed) :
         handed[n] = 1 + NumberOfFats * SectorsPerFat + RootSectors
                       + Chain(fat, opened.cluster)[n - 1] - 2
    /\ stage = "done" /\ opened.kind = "FS_FILE" /\ Ends(opened.cluster) =>
         Chain(fat, opened.cluster)[Len(handed)] >= 4088

\* Clusters that the disk does not have are read only for files that have
\* none or whose chain is broken, for directories other than the root, and
\* for drives that are no letters.
KeepsToTheDisk ==
  stage = "astray" /\ AllRead =>
    \/ opened.kind = "FS_FILE" /\ ~Ends(opened.cluster)
    \/ opened = Nothing

\* Reading follows the chain, and leaves the disk only where there is none.
ReadsOnlyTheChain == ReadsTheChain /\ KeepsToTheDisk

\* A file whose chain ends is read to its end.
ReadsEnd ==
  stage = "reading" /\ Ends(opened.cluster) ~> stage = "done" \/ ~AllRead

=============================================================================
