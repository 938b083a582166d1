------------------------------- MODULE Fat16 -------------------------------
(***************************************************************************)
(* The FAT16 file system of kernel/fs/ramdisk_fat16.c behind the facade of *)
(* fs.c, on a ramdisk seen as sectors (Ramdisk shows it is one row of      *)
(* bytes): the file allocation table, the root directory and the data      *)
(* clusters, one sector each.  Calls run to completion one after another.  *)
(***************************************************************************)
EXTENDS Libc

CONSTANTS BytesPerSector,  \* FAT16_BYTES_PER_SECTOR, also bytes per cluster
          ClusterCount,    \* CLUSTER_COUNT
          RootEntries,     \* ROOT_DIRECTORY_SECTORS: the entries looked at
          NameLen, ExtLen, \* 8 and 3
          FileNames,       \* the names callers use, as character codes
          FileSizes,       \* the sizes callers write
          StartFile,       \* "test.bin"
          StrayClusters    \* the clusters after 1 in the FAT's first sector

ASSUME GeometryAssumption ==
  /\ BytesPerSector \in Nat \ {0}
  /\ ClusterCount \in Nat /\ ClusterCount >= 2
  /\ RootEntries \in Nat \ {0}
  /\ StrayClusters \subseteq 2 .. ClusterCount - 1
  /\ StrayClusters # 2 .. ClusterCount - 1   \* the FAT has a second sector
ASSUME NamesAssumption ==
  /\ NameLen \in Nat \ {0} /\ ExtLen \in Nat
  /\ FileNames \subseteq Seq(1 .. 255) /\ StartFile \in FileNames
  /\ FileSizes \subseteq Nat

Cluster == 0 .. ClusterCount - 1
EntryNumber == 0 .. RootEntries - 1
Unwritten == <<>>      \* a byte left by an earlier owner of the page

VARIABLES
  mounted,   \* the ramdisk is initialized and formatted
  loaded,    \* fs_load_starting_files has run
  fat,       \* the first allocation table
  fat2,      \* the second one
  data,      \* the data sectors
  root,      \* the root directory
  answer,    \* what the last call returned
  panicked

store == <<fat, fat2, data, root>>
vars == <<mounted, loaded, store, answer, panicked>>
-----------------------------------------------------------------------------
(* Names. *)

\* The first n characters of s, filled up with blanks.
Padded(s, n) == [i \in 1 .. n |-> IF i <= Len(s) THEN s[i] ELSE Blank]

\* ramdisk_fat16_filename_to_native: what comes before the first dot, and
\* what comes after it, each cut or filled to its length.
filename_to_native(raw) ==
  LET dots == {i \in DOMAIN raw : raw[i] = Dot}
      end == IF dots = {} THEN Len(raw) + 1 ELSE Min(dots)
  IN  Padded(SubSeq(raw, 1, end - 1), NameLen)
        \o Padded(SubSeq(raw, end + 1, Len(raw)), ExtLen)
-----------------------------------------------------------------------------
(* The structures on the disk. *)

FreeEntry == [name |-> [i \in 1 .. NameLen + ExtLen |-> 0],
              cluster |-> 0, size |-> 0]
InUse(e) == e.name[1] # 0

FIRST_MARK == 65528   \* 0xFFF8, also the end of a chain
SECOND_MARK == 65535

\* find_next_free_cluster: 0 when there is none.
FreeCluster(table) ==
  LET free == {c \in Cluster : table[c] = 0}
  IN  IF free = {} THEN 0 ELSE Min(free)

\* find_next_free_root_entry: 0, a real entry, when there is none.
FreeRootEntry ==
  LET free == {i \in EntryNumber \ {0} : ~InUse(root[i])}
  IN  IF free = {} THEN 0 ELSE Min(free)

\* ramdisk_fat16_file_exists: the entry that matches, 0 when none does.
file_exists(raw) ==
  LET match == {i \in EntryNumber \ {0} :
                  /\ InUse(root[i])
                  /\ memcmp(filename_to_native(raw), root[i].name) = 0}
  IN  IF match = {} THEN 0 ELSE Min(match)

\* The data of a file: every byte tells which file and which place it is from.
Text(name, size) == [i \in 1 .. size |-> <<name, i>>]
-----------------------------------------------------------------------------
BlankSector == [i \in 1 .. BytesPerSector |-> Unwritten]

Init ==
  /\ mounted = FALSE /\ loaded = FALSE
  /\ fat = [c \in Cluster |-> 0] /\ fat2 = fat
  /\ data = [c \in Cluster |-> BlankSector]
  /\ root = [i \in EntryNumber |-> FreeEntry]
  /\ answer = [call |-> "none"]
  /\ panicked = "none"

Running == panicked = "none"

\* ramdisk_fat16_init and ramdisk_fat16_format, which writes a whole sector
\* from an array of four bytes: the table entries after the first two get
\* whatever follows it on the stack.
ramdisk_fat16_init ==
  /\ Running /\ ~mounted
  /\ \E stray, stray2 \in SUBSET StrayClusters :
       LET Table(taken) == [c \in Cluster |->
             CASE c = 0 -> FIRST_MARK
               [] c = 1 -> SECOND_MARK
               [] c \in taken -> 1
               [] OTHER -> 0]
       IN  fat' = Table(stray) /\ fat2' = Table(stray2)
  /\ data' = [c \in Cluster |-> BlankSector]
  /\ root' = [i \in EntryNumber |-> FreeEntry]
  /\ mounted' = TRUE /\ loaded' = FALSE
  /\ answer' = [call |-> "none"]
  /\ UNCHANGED panicked

\* ramdisk_fat16_destroy: nothing on the disk can be reached any more.
ramdisk_fat16_destroy ==
  /\ Running /\ mounted
  /\ mounted' = FALSE
  /\ root' = [i \in EntryNumber |-> FreeEntry]
  /\ answer' = [call |-> "none"]
  /\ UNCHANGED <<loaded, fat, fat2, data, panicked>>
-----------------------------------------------------------------------------
(* ramdisk_fat16_file_write. *)

\* The sector once bytes is written over its start.
Over(sector, bytes) ==
  [i \in 1 .. BytesPerSector |->
     IF i <= Len(bytes) THEN bytes[i] ELSE sector[i]]

\* The k-th piece of the data, one cluster long or what is left of it.
Piece(text, k) ==
  SubSeq(text, (k - 1) * BytesPerSector + 1,
         IF k * BytesPerSector < Len(text) THEN k * BytesPerSector
                                           ELSE Len(text))

\* How often the loop that fills whole clusters runs.
FullClusters(size) == IF size = 0 THEN 0 ELSE (size - 1) \div BytesPerSector

\* The tables, the data and current_sector after k rounds of that loop; a
\* current_sector of 0 is its panic.  Only the first table is searched, and
\* the current cluster is not yet marked in it; the write meant for the
\* second table goes to byte 1 + 32 * 512 + 2 * sector, where neither table has
\* an entry that is ever read.
Filled(text, rounds) ==
  LET after[k \in 0 .. rounds] ==
        IF k = 0 THEN [fat |-> fat, data |-> data, sector |-> FreeCluster(fat)]
        ELSE LET w == after[k - 1]
                 next == FreeCluster(w.fat)
             IN  IF w.sector = 0 THEN w
                 ELSE [fat |-> IF next = 0 THEN w.fat
                               ELSE [w.fat EXCEPT
                                       ![w.sector] = eswap_uint16(next)],
                       data |-> [w.data EXCEPT ![w.sector] =
                                   Over(@, Piece(text, k))],
                       sector |-> next]
  IN  after[rounds]

\* Accepted with a bug: files are written again.
Accepted_Twice(raw) == FreeCluster(fat) # 0

\* The call gets past its two early returns.
Accepted(raw) == file_exists(raw) = 0 /\ FreeCluster(fat) # 0

Reply(call, raw, code) ==
  answer' = [call |-> call, name |-> filename_to_native(raw), ok |-> code = 0]

\* The file is written, and entered in the directory, in entry 0 when the
\* directory is full.
WriteWhole(raw, size) ==
  LET name == filename_to_native(raw)
      text == Text(name, size)
      w == Filled(text, FullClusters(size))
  IN  /\ Accepted(raw)
      /\ w.sector # 0
      /\ data' = [w.data EXCEPT ![w.sector] =
                    Over(@, Piece(text, FullClusters(size) + 1))]
      /\ fat' = [w.fat EXCEPT ![w.sector] = eswap_uint16(FIRST_MARK)]
      /\ root' = [root EXCEPT ![FreeRootEntry] =
                    [name |-> name, cluster |-> FreeCluster(fat),
                     size |-> size]]
      /\ UNCHANGED fat2

ramdisk_fat16_file_write(raw, size) ==
  /\ Running /\ loaded
  /\ \/ WriteWhole(raw, size) /\ Reply("write", raw, 0)
     \/ /\ ~Accepted(raw)
        /\ Reply("write", raw, IF file_exists(raw) # 0 THEN 4 ELSE 2)
        /\ UNCHANGED store
  /\ UNCHANGED <<mounted, loaded, panicked>>

\* "cannot undo partial write!"
file_write_panics(raw, size) ==
  LET w == Filled(Text(filename_to_native(raw), size), FullClusters(size))
  IN  /\ Running /\ loaded
      /\ Accepted(raw) /\ w.sector = 0
      /\ data' = w.data /\ fat' = w.fat
      /\ panicked' = "partial write"
      /\ UNCHANGED <<mounted, loaded, fat2, root, answer>>

\* fs_load_starting_files, right after ramdisk_fat16_init: nothing is there and
\* a cluster is free, so file_write does not refuse.
fs_load_starting_files ==
  /\ Running /\ mounted /\ ~loaded
  /\ loaded' = TRUE
  /\ WriteWhole(StartFile, 1) /\ Reply("write", StartFile, 0)
  /\ UNCHANGED <<mounted, panicked>>
-----------------------------------------------------------------------------
fs_file_exists(raw) ==
  /\ Running /\ loaded /\ mounted
  /\ Reply("exists", raw, IF file_exists(raw) # 0 THEN 0 ELSE 3)
  /\ UNCHANGED <<mounted, loaded, store, panicked>>

\* ramdisk_fat16_file_read: the first sector of the file, whatever is asked.
ramdisk_fat16_file_read(raw, index) ==
  /\ Running /\ loaded /\ mounted
  /\ LET i == file_exists(raw)
     IN  answer' =
           [call |-> IF index = 0 THEN "read" ELSE "read_rest",
            name |-> filename_to_native(raw),
            ok |-> i # 0 /\ index = 0,
            buffer |-> IF i = 0 THEN BlankSector ELSE data[root[i].cluster]]
  /\ UNCHANGED <<mounted, loaded, store, panicked>>

Halted == ~Running /\ UNCHANGED vars

Next ==
  \/ ramdisk_fat16_init
  \/ ramdisk_fat16_destroy
  \/ fs_load_starting_files
  \/ \E raw \in FileNames, size \in FileSizes :
       mounted /\ ramdisk_fat16_file_write(raw, size)
  \/ \E raw \in FileNames, size \in FileSizes :
       mounted /\ file_write_panics(raw, size)
  \/ \E raw \in FileNames : fs_file_exists(raw)
  \/ \E raw \in FileNames, index \in {0, 1} :
       ramdisk_fat16_file_read(raw, index)
  \/ Halted

Spec == Init /\ [][Next]_vars
-----------------------------------------------------------------------------
\* What the file system looks like to its callers.
Visible == {i \in EntryNumber \ {0} : InUse(root[i])}
Names == {filename_to_native(raw) : raw \in FileNames}
NamesInUse == {root[i].name : i \in Visible}
FileOf(name) == root[CHOOSE i \in Visible : root[i].name = name]
KeptBytes(f) == IF f.size < BytesPerSector THEN f.size ELSE BytesPerSector
=============================================================================
