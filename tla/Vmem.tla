-------------------------------- MODULE Vmem --------------------------------
(***************************************************************************)
(* The page tables of kernel/drivers/memory/vmem.c.  vmem_init takes one   *)
(* page for the directory and one for every table, and switches paging on  *)
(* at the end.  A table's page is known by the directory entry it is for:  *)
(* pmem_alloc never lends a page twice (PmemProofs).                       *)
(***************************************************************************)
EXTENDS Integers

CONSTANTS DirEntries, TableEntries,  \* both 1024
          PageBytes                  \* 4096

ASSUME PagingAssumption ==
  /\ DirEntries \in Nat \ {0} /\ TableEntries \in Nat \ {0}
  /\ PageBytes \in Nat /\ PageBytes >= 8   \* room for the flags

VirtualSpace == DirEntries * TableEntries * PageBytes
Address == 0 .. VirtualSpace - 1
FLAGS == 7               \* present, writable, user

VARIABLES
  directory,  \* for each entry: 0, or FLAGS when its table is entered
  tables,     \* the entries of each table
  base_ptr,   \* the directory has its page
  paging      \* vmem_page_directory and CR3 are set, paging is on

vm == <<directory, tables, base_ptr, paging>>

VmemInit ==
  /\ directory = [d \in 0 .. DirEntries - 1 |-> 0]
  /\ tables = [d \in 0 .. DirEntries - 1 |-> [t \in 0 .. TableEntries - 1 |-> 0]]
  /\ base_ptr = FALSE
  /\ paging = FALSE

NewDirectory ==
  /\ ~base_ptr
  /\ base_ptr' = TRUE
  /\ UNCHANGED <<directory, tables, paging>>

\* IdentityEntry with a bug: every table maps the first part of memory.
IdentityEntry_FirstTable(d, t) == ((t * PageBytes) % VirtualSpace) + FLAGS

\* ((i << 22) | (j << 12)) & ~0xFFF, with its flags
IdentityEntry(d, t) ==
  (((d * TableEntries + t) * PageBytes) % VirtualSpace) + FLAGS

\* One round of the loop: a table is taken, entered and filled.
NewTable(d) ==
  /\ base_ptr /\ directory[d] = 0
  /\ \A e \in 0 .. d - 1 : directory[e] # 0
  /\ directory' = [directory EXCEPT ![d] = FLAGS]
  /\ tables' = [tables EXCEPT ![d] =
                  [t \in 0 .. TableEntries - 1 |-> IdentityEntry(d, t)]]
  /\ UNCHANGED <<base_ptr, paging>>

TablesBuilt == base_ptr /\ \A d \in DOMAIN directory : directory[d] # 0

vmem_enable_page_dir ==
  /\ TablesBuilt
  /\ paging' = TRUE
  /\ UNCHANGED <<directory, tables, base_ptr>>

\* 0 is no translation, as for address 0.
vmem_get_phys_addr(v) ==
  LET d == v \div (TableEntries * PageBytes)
      t == (v \div PageBytes) % TableEntries
      entry == tables[d][t]
  IN  IF directory[d] = 0 \/ entry = 0 THEN 0
      ELSE (entry - (entry % PageBytes)) + (v % PageBytes)

\* vmem.c:167 "Identity page the entire kernel-space": once paging is on,
\* every address the kernel, its handlers and its device memory use is
\* translated to itself.
IdentityMapped == paging => \A v \in Address : vmem_get_phys_addr(v) = v
=============================================================================
