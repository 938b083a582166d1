------------------------------ MODULE Fat16Irq ------------------------------
(***************************************************************************)
(* The calls of Fat16 one after another, and, from a disk that is not      *)
(* mounted, the file system while the kernel boots: ramdisk_fat16_format   *)
(* and the write of the starting file, one disk access per step, against   *)
(* handlers in which the shell writes files.  A handler's call is one      *)
(* step.  The two searches of the boot code are one step each: a handler   *)
(* only ever takes clusters and entries, the first free ones, so a search  *)
(* finds what it would find at the moment of its last read.                *)
(***************************************************************************)
EXTENDS Fat16

CONSTANTS EntriesPerSector,  \* of an allocation table and of the directory
          OldTaken,          \* clusters that look taken before the format
          HandlerNames,      \* the files handlers write during boot,
          HandlerSizes       \* and their sizes

ASSUME EntriesPerSectorAssumption ==
  /\ EntriesPerSector \in Nat \ {0, 1}
  /\ \A c \in StrayClusters : c < EntriesPerSector
ASSUME OldTakenAssumption == OldTaken \subseteq SUBSET Cluster
ASSUME HandlersAssumption == HandlerNames \subseteq FileNames
                               /\ HandlerSizes \subseteq Nat

VARIABLES
  pc,       \* where the boot code is; "calls" outside of the steps below
  next,     \* the next write of ramdisk_fat16_format
  sector,   \* current_sector of the boot code's file_write
  entry,    \* its new_root_entry
  stray,    \* history: clusters that format left looking taken
  log       \* history: the files handlers wrote since the disk was formatted

local == <<pc, next, sector, entry, stray, log>>
allvars == <<vars, local>>

\* What an earlier owner of the pages may have left in an entry.
OldEntry == [FreeEntry EXCEPT !.name[1] = 1]

IrqInit ==
  /\ Init
  /\ pc = "calls" /\ next = 1
  /\ sector = 0 /\ entry = 0
  /\ stray = {} /\ log = {}

OneCall == pc = "calls" /\ Next /\ UNCHANGED local

\* ramdisk_fat16_init up to the call of ramdisk_fat16_format: the pages of the
\* disk hold whatever their last owner left there.
ramdisk_fat16_mount ==
  /\ Running /\ pc = "calls" /\ ~mounted
  /\ \E old \in OldTaken :
       fat' = [c \in Cluster |-> IF c \in old THEN 1 ELSE 0]
  /\ fat2' = fat'
  /\ data' = [c \in Cluster |-> BlankSector]
  /\ \E e \in {FreeEntry, OldEntry} : root' = [n \in EntryNumber |-> e]
  /\ mounted' = TRUE /\ loaded' = FALSE
  /\ pc' = "format"
  /\ UNCHANGED <<answer, panicked, next, sector, entry, stray, log>>
-----------------------------------------------------------------------------
(* ramdisk_fat16_format. *)

TableSectors == (ClusterCount - 1) \div EntriesPerSector + 1
RootSectors == (RootEntries - 1) \div EntriesPerSector + 1

\* Zeroes to the tables, a sector of each in turn.
TableWrites ==
  [k \in 1 .. 2 * TableSectors |->
     [to |-> IF k % 2 = 1 THEN "fat" ELSE "fat2", sector |-> (k - 1) \div 2]]

\* FormatWrites with a bug: the directory is emptied last.
FormatWrites_RootLast ==
  TableWrites
    \o <<[to |-> "marks", sector |-> 0], [to |-> "marks2", sector |-> 0]>>
    \o [s \in 1 .. RootSectors |-> [to |-> "root", sector |-> s - 1]]

\* The sectors it writes after the boot record, in this order: zeroes to the
\* tables and to the directory, then the marks of the first two clusters to
\* both tables.
FormatWrites ==
  TableWrites
    \o [s \in 1 .. RootSectors |-> [to |-> "root", sector |-> s - 1]]
    \o <<[to |-> "marks", sector |-> 0], [to |-> "marks2", sector |-> 0]>>

\* A table once a sector of it is zeroed, or once the marks are in the first
\* one, followed by whatever lay behind them on the stack.
Zeroed(table, s) ==
  [c \in Cluster |-> IF c \div EntriesPerSector = s THEN 0 ELSE table[c]]
Marked(table, taken) ==
  [c \in Cluster |-> CASE c = 0 -> FIRST_MARK
                       [] c = 1 -> SECOND_MARK
                       [] c \in taken -> 1
                       [] OTHER -> Zeroed(table, 0)[c]]

ramdisk_fat16_format ==
  LET w == FormatWrites[next]
  IN  /\ Running /\ pc = "format"
      /\ \E taken \in IF w.to \in {"marks", "marks2"} THEN SUBSET StrayClusters
                                                      ELSE {{}} :
           /\ fat' = CASE w.to = "fat" -> Zeroed(fat, w.sector)
                       [] w.to = "marks" -> Marked(fat, taken)
                       [] OTHER -> fat
           /\ fat2' = CASE w.to = "fat2" -> Zeroed(fat2, w.sector)
                        [] w.to = "marks2" -> Marked(fat2, taken)
                        [] OTHER -> fat2
           /\ stray' = IF w.to = "marks" THEN taken ELSE stray
      /\ root' = [n \in EntryNumber |->
                    IF w.to = "root" /\ n \div EntriesPerSector = w.sector
                    THEN FreeEntry ELSE root[n]]
      /\ next' = next + 1
      /\ pc' = IF next = Len(FormatWrites) THEN "exists" ELSE "format"
      /\ UNCHANGED <<mounted, loaded, data, answer, panicked>>
      /\ UNCHANGED <<sector, entry, log>>
-----------------------------------------------------------------------------
(* fs_load_starting_files: ramdisk_fat16_file_write of one cluster. *)

Start == filename_to_native(StartFile)
StartText == Text(Start, 1)

Goto(from, to) == Running /\ pc = from /\ pc' = to

\* The early returns, and the panic of the caller: the boot code spins, and
\* handlers go on.
check_exists ==
  /\ Goto("exists", IF file_exists(StartFile) # 0 THEN "panic" ELSE "cluster")
  /\ UNCHANGED <<vars, next, sector, entry, stray, log>>

find_cluster ==
  /\ Goto("cluster", IF FreeCluster(fat) = 0 THEN "panic" ELSE "data")
  /\ sector' = FreeCluster(fat)
  /\ UNCHANGED <<vars, next, entry, stray, log>>

write_data ==
  /\ Goto("data", "end_mark")
  /\ data' = [data EXCEPT ![sector] = Over(@, StartText)]
  /\ UNCHANGED <<mounted, loaded, fat, fat2, root, answer, panicked>>
  /\ UNCHANGED <<next, sector, entry, stray, log>>

\* write_end_mark with a bug: only the second table is written.
write_end_mark_Second ==
  /\ Goto("end_mark", "root_entry")
  /\ fat2' = [fat2 EXCEPT ![sector] = eswap_uint16(FIRST_MARK)]
  /\ UNCHANGED <<mounted, loaded, fat, data, root, answer, panicked>>
  /\ UNCHANGED <<next, sector, entry, stray, log>>

\* The write meant for the second table misses it, as in Fat16.
write_end_mark ==
  /\ Goto("end_mark", "root_entry")
  /\ fat' = [fat EXCEPT ![sector] = eswap_uint16(FIRST_MARK)]
  /\ UNCHANGED <<mounted, loaded, fat2, data, root, answer, panicked>>
  /\ UNCHANGED <<next, sector, entry, stray, log>>

find_root_entry ==
  /\ Goto("root_entry", "enter")
  /\ entry' = FreeRootEntry
  /\ UNCHANGED <<vars, next, sector, stray, log>>

write_entry ==
  /\ Goto("enter", "done")
  /\ root' = [root EXCEPT ![entry] =
                [name |-> Start, cluster |-> sector, size |-> 1]]
  /\ loaded' = TRUE
  /\ UNCHANGED <<mounted, fat, fat2, data, answer, panicked>>
  /\ UNCHANGED <<next, sector, entry, stray, log>>

BootStep == ramdisk_fat16_format \/ check_exists \/ find_cluster \/ write_data
              \/ write_end_mark \/ find_root_entry \/ write_entry
-----------------------------------------------------------------------------
(* The shell, inside a handler. *)

\* Formatted in all that is ever read: what is left is the second table.
Formatted == pc \notin {"calls", "format"} \/ next = Len(FormatWrites)

\* The boot code is inside the write of the starting file.
Writing == pc \in {"cluster", "data", "end_mark", "root_entry", "enter"}

handler_writes(raw, size) ==
  /\ Running /\ pc # "calls"
  /\ WriteWhole(raw, size)
  /\ log' = IF ~Formatted THEN log
            ELSE log \cup {[name |-> filename_to_native(raw), size |-> size,
                            entry |-> FreeRootEntry,
                            cluster |-> FreeCluster(fat),
                            taken |-> {c \in Cluster : fat[c] # fat'[c]},
                            overlaps |-> Writing]}
  /\ UNCHANGED <<mounted, loaded, answer, panicked>>
  /\ UNCHANGED <<pc, next, sector, entry, stray>>

\* "cannot undo partial write!", with interrupts disabled.
handler_panics(raw, size) ==
  LET w == Filled(Text(filename_to_native(raw), size), FullClusters(size))
  IN  /\ Running /\ pc # "calls"
      /\ Accepted(raw) /\ w.sector = 0
      /\ data' = w.data /\ fat' = w.fat
      /\ panicked' = "partial write"
      /\ UNCHANGED <<mounted, loaded, fat2, root, answer, local>>

Quiet ==
  /\ pc # "calls" /\ (~Running \/ pc \in {"done", "panic"})
  /\ UNCHANGED allvars

IrqNext ==
  \/ OneCall
  \/ ramdisk_fat16_mount
  \/ BootStep
  \/ \E raw \in HandlerNames, size \in HandlerSizes : handler_writes(raw, size)
  \/ \E raw \in HandlerNames, size \in HandlerSizes : handler_panics(raw, size)
  \/ Quiet

IrqSpec == IrqInit /\ [][IrqNext]_allvars
-----------------------------------------------------------------------------
(* Properties. *)

\* What FileStore sees of the disk; while the boot code formats step by step
\* the store is empty and nobody is answered.
StoredFiles ==
  [name \in IF pc = "calls" THEN NamesInUse ELSE {} |->
     SubSeq(data[FileOf(name).cluster], 1, KeptBytes(FileOf(name)))]
Down == pc = "calls" /\ ~Running
Texts == {Text(name, size) : name \in Names, size \in FileSizes}

\* The file system as its callers see it (ramdisk_fat16.h): a file whose write
\* returned success exists from then on, under the name it was given and no
\* other, and reading it returns what was written.  A file longer than a sector
\* keeps one sector of its bytes, since the search for the next cluster finds
\* the current one again (ramdisk_fat16.c:426); with the root directory full
\* the file goes to entry 0, which no search looks at.
Files == INSTANCE FileStore WITH
           Name <- Names, Contents <- Texts, Whole <- BytesPerSector,
           MaxFiles <- RootEntries - 1, files <- StoredFiles, down <- Down
ImplementsFileStore == Files!Spec

\* Formatting leaves an empty disk whatever handlers write meanwhile: from then
\* on the directory lists only files written later, and only their clusters
\* look taken, besides the ones the marks are followed by.  It is the order of
\* the writes that gives this: from the first zero to the marks the table says
\* that cluster 0 is free, which a caller takes for a full disk
\* (ramdisk_fat16.c:216).
FormatLeavesEmptyDisk ==
  Formatted /\ Running =>
    /\ \A n \in Visible : \/ \E w \in log : w.name = root[n].name
                          \/ pc = "done" /\ root[n].name = Start
    /\ \A c \in Cluster : fat[c] # 0 =>
         \/ c \in {0, 1} \cup stray
         \/ \E w \in log : c \in w.taken
         \/ pc \in {"root_entry", "enter", "done"} /\ c = sector

\* The file w is in the directory, and its sector holds what was written.
Stored(w) ==
  /\ root[w.entry] = [name |-> w.name, cluster |-> w.cluster, size |-> w.size]
  /\ w.size <= BytesPerSector =>
       SubSeq(data[w.cluster], 1, w.size) = Text(w.name, w.size)
  /\ \A n \in Visible \ {w.entry} : root[n].cluster # w.cluster

\* A handler that writes in the middle of the boot code's file_write can be
\* given its cluster and its root entry (both are taken only after the search,
\* ramdisk_fat16.c:400 and 469).  That hurts nobody else: every file written
\* outside of that call stays in the directory, whole, and shares its sector
\* with no other; so does the starting file if no write fell into the call.
OnlyOverlappingWritesHurt ==
  /\ \A w \in log : ~w.overlaps /\ w.entry # 0 => Stored(w)
  /\ pc = "done" /\ entry # 0 /\ (\A w \in log : ~w.overlaps) =>
       Stored([name |-> Start, cluster |-> sector, size |-> 1,
               entry |-> entry])
=============================================================================
