-------------------------------- MODULE Fat --------------------------------
(***************************************************************************)
(* The FAT16 boot volume: fsSaveFile(), the cache of the allocation table, *)
(* the two calls that write the cache to the disk (service 10008 and       *)
(* do_reboot), fsLoadFile() and the reload of everything at boot.          *)
(*                                                                         *)
(* A system call runs with interrupts disabled, so nothing but a power     *)
(* loss comes between two sectors it writes.  A sector is written or not.  *)
(* The directories that boot itself needs keep entries and clusters that   *)
(* are not modelled.  A file is saved with at least one sector.            *)
(***************************************************************************)
EXTENDS Naturals, Sequences

CONSTANTS LastCluster,      \* the table's entries 3 .. LastCluster are modelled
          FatPerSector,     \* entries of the table in one sector (256 in the code)
          RootEntries,      \* entries of the root directory (512)
          DeEntries,        \* entries of the directory DE/ that boot loads
          Names,            \* file names
          MaxFileSizeInSectors,
          MaxSaves,         \* bound: files saved
          MaxLosses         \* bound: power losses and reboots

ASSUME FatAssumption ==
    /\ LastCluster \in Nat /\ FatPerSector \in Nat /\ RootEntries \in Nat /\ DeEntries \in Nat
    /\ MaxFileSizeInSectors \in Nat /\ MaxSaves \in Nat /\ MaxLosses \in Nat
    /\ FatPerSector > 0 /\ RootEntries > 0 /\ LastCluster >= 3 /\ LastCluster < 65520
    /\ "free" \notin Names

VARIABLES diskFat,    \* the table on the disk
          diskDir,    \* the root directory on the disk
          data,       \* the data area: what each cluster holds
          fat,        \* VOLUME1_FAT_ADDRESS: the cached table
          dir,        \* VOLUME1_ROOTDIR_ADDRESS: the root directory in memory
          de,         \* sdDE.address: the directory DE/ in memory
          g_fat_cache_saved,
          job,        \* the system call that is writing to the disk
          panic,      \* what the kernel panicked for
          saves,      \* files saved so far; a file's identity
          losses,     \* power losses and reboots so far
          durable,    \* files the last complete write of the table covered
          lost        \* power failed with clusters the table on disk omits

disk == <<diskFat, diskDir, data>>
memory == <<fat, dir, de, g_fat_cache_saved>>
history == <<saves, losses, durable, lost>>
vars == <<disk, memory, job, panic, history>>
-----------------------------------------------------------------------------
Cluster == 3..LastCluster
Free == 0
EndMark == 65528      \* 0xFFF8
Link == Cluster \cup {Free, EndMark}

(***************************************************************************)
(* A directory entry holds a name and the first cluster; here it also      *)
(* remembers all the clusters the file was given, in order, and which save *)
(* it comes from.                                                          *)
(***************************************************************************)
ClusterList == UNION {[1..n -> Cluster] : n \in 1..MaxFileSizeInSectors}
File == [name : Names, at : ClusterList, id : 1..MaxSaves]
Empty == [name |-> "free", at |-> <<>>, id |-> 0]
Directory(n) == [1..n -> File \cup {Empty}]
Files(d) == {d[i] : i \in DOMAIN d} \ {Empty}

Idle == [op |-> "idle"]
Ready == job = Idle /\ panic = "none"

\* The link that the k-th cluster of the list at has in the table.
NextOf(at, k) == IF k = Len(at) THEN EndMark ELSE at[k + 1]

\* The file e is whole under the table f: its chain and its own data.
Linked(f, e) == \A k \in 1..Len(e.at) : f[e.at[k]] = NextOf(e.at, k)
Stored(e) == \A k \in 1..Len(e.at) : data[e.at[k]] = <<e.id, k>>
Whole(f, e) == Linked(f, e) /\ Stored(e)

(***************************************************************************)
(* fsLoadFile() and search_in_dir() take the first entry with the name; a  *)
(* load follows the cached table until the end mark.                       *)
(***************************************************************************)
Named(d, name) == {i \in DOMAIN d : d[i].name = name}
FirstNamed(d, name) == d[CHOOSE i \in Named(d, name) : \A j \in Named(d, name) : i <= j]

LoadEnds(first) ==
    LET walk[k \in 1..LastCluster] ==
            IF k = 1 THEN first
            ELSE IF walk[k - 1] \in Cluster THEN fat[walk[k - 1]] ELSE walk[k - 1]
    IN  walk[LastCluster] = EndMark

findEmptyDirectoryEntry(d) ==
    CHOOSE i \in DOMAIN d : d[i] = Empty /\ \A j \in 1..(i - 1) : d[j] # Empty

(***************************************************************************)
(* The clusters for a file of n sectors: the lowest free ones, in order.   *)
(* The search ends only when it meets one more free cluster.               *)
(***************************************************************************)
FreeClusters == {c \in Cluster : fat[c] = Free}

\* Mutant: the search goes down from the end of the table.
fat16ClustersToSaveDown(n) ==
    {at \in [1..n -> FreeClusters] :
        /\ \A k \in 1..(n - 1) : at[k] > at[k + 1]
        /\ \E c \in FreeClusters : c < at[n]}

fat16ClustersToSave(n) ==
    {at \in [1..n -> FreeClusters] :
        /\ \A j, k \in 1..n : j < k => at[j] < at[k]
        /\ \A c \in FreeClusters : c < at[n] => \E k \in 1..n : at[k] = c
        /\ \E c \in FreeClusters : c > at[n]}
-----------------------------------------------------------------------------
(***************************************************************************)
(* Boot: fat16Init(), fsbp_initialize_fat(), the main directories.         *)
(***************************************************************************)
Boot ==
    /\ fat' = diskFat'
    /\ dir' = diskDir'
    /\ de' = [i \in 1..DeEntries |-> Empty]
    /\ g_fat_cache_saved' = FALSE
    /\ job' = Idle
    /\ panic' = "none"
    /\ losses' = losses + 1

Init ==
    /\ diskFat = [c \in Cluster |-> Free]
    /\ diskDir = [i \in 1..RootEntries |-> Empty]
    /\ data = [c \in Cluster |-> <<0, 0>>]
    /\ fat = diskFat /\ dir = diskDir /\ de = [i \in 1..DeEntries |-> Empty]
    /\ g_fat_cache_saved = FALSE
    /\ job = Idle /\ panic = "none"
    /\ saves = 0 /\ losses = 0 /\ durable = {} /\ lost = FALSE

(***************************************************************************)
(* fsSaveFile(), up to its loop: the root directory is read again, the     *)
(* clusters are the first free ones and one more has to be free to end the *)
(* search; the entry is made in memory before any sector is written.  Only *)
(* open() may name another directory.                                      *)
(***************************************************************************)
\* Mutant: the limit on the size is left out.
CanSaveAny(d, n) ==
    /\ fat16ClustersToSave(n) # {}
    /\ \E i \in DOMAIN d : d[i] = Empty

CanSave(d, n) ==
    /\ n <= MaxFileSizeInSectors
    /\ fat16ClustersToSave(n) # {}
    /\ \E i \in DOMAIN d : d[i] = Empty

\* Mutant: always the first entry.
EnterFileFirst(d, name, at) ==
    [d EXCEPT ![1] = [name |-> name, at |-> at, id |-> saves + 1]]

EnterFile(d, name, at) ==
    [d EXCEPT ![findEmptyDirectoryEntry(d)] = [name |-> name, at |-> at, id |-> saves + 1]]

fsSaveFile(name, n, inRoot) ==
    /\ UNCHANGED <<disk, fat, g_fat_cache_saved, panic, losses, durable, lost>>
    /\ IF CanSave(IF inRoot THEN diskDir ELSE de, n)
       THEN \E at \in fat16ClustersToSave(n) :
               /\ dir' = IF inRoot THEN EnterFile(diskDir, name, at) ELSE diskDir
               /\ de' = IF inRoot THEN de ELSE EnterFile(de, name, at)
               /\ job' = [op |-> "clusters", at |-> at, i |-> 1]
               /\ saves' = saves + 1
       ELSE dir' = (IF n <= MaxFileSizeInSectors THEN diskDir ELSE dir) /\ UNCHANGED <<de, job, saves>>

\* Services 43 and 44 and the write of a whole file, all in the root.
sys_write_file_to_disk(name, n) ==
    /\ Ready /\ saves < MaxSaves
    /\ fsSaveFile(name, n, TRUE)

(***************************************************************************)
(* open(): a file that is not there is created with one sector if O_CREAT  *)
(* asks for it; one that is there is loaded, and the load panics when the  *)
(* chain leads to a free entry of the table.                               *)
(***************************************************************************)
do_read_file_from_disk(name, inRoot) ==
    LET d == IF inRoot THEN dir ELSE de
    IN  /\ Ready
        /\ \/ /\ Named(d, name) = {} /\ saves < MaxSaves
              /\ fsSaveFile(name, 1, inRoot)
           \/ /\ Named(d, name) # {}
              /\ ~ LoadEnds(FirstNamed(d, name).at[1])
              /\ panic' = "load"
              /\ UNCHANGED <<disk, memory, job, history>>

\* Mutant: the end mark is left out.
SaveClusterNoEnd ==
    /\ job.op = "clusters"
    /\ fat' = [fat EXCEPT ![job.at[job.i]] = IF job.i = Len(job.at) THEN Free ELSE job.at[job.i + 1]]
    /\ data' = [data EXCEPT ![job.at[job.i]] = <<saves, job.i>>]
    /\ job' = IF job.i = Len(job.at) THEN [op |-> "dir", i |-> 1]
                                     ELSE [job EXCEPT !.i = job.i + 1]
    /\ UNCHANGED <<diskFat, diskDir, dir, de, g_fat_cache_saved, panic, history>>

(***************************************************************************)
(* The loop of fsSaveFile(): link one cluster in the cache and write its   *)
(* sector; at the end of the list, mark the end and go on to the root      *)
(* directory.                                                              *)
(***************************************************************************)
SaveCluster ==
    /\ job.op = "clusters"
    /\ fat' = [fat EXCEPT ![job.at[job.i]] = NextOf(job.at, job.i)]
    /\ data' = [data EXCEPT ![job.at[job.i]] = <<saves, job.i>>]
    /\ job' = IF job.i = Len(job.at) THEN [op |-> "dir", i |-> 1]
                                     ELSE [job EXCEPT !.i = job.i + 1]
    /\ UNCHANGED <<diskFat, diskDir, dir, de, g_fat_cache_saved, panic, history>>

\* fs_save_rootdir(), a sector at a time; then the cache needs to be saved.
fs_save_rootdir ==
    /\ job.op = "dir"
    /\ diskDir' = [diskDir EXCEPT ![job.i] = dir[job.i]]
    /\ IF job.i = RootEntries
       THEN job' = Idle /\ g_fat_cache_saved' = FALSE
       ELSE job' = [job EXCEPT !.i = job.i + 1] /\ UNCHANGED g_fat_cache_saved
    /\ UNCHANGED <<diskFat, data, fat, dir, de, panic, history>>

(***************************************************************************)
(* fs_save_fat16_cache() refuses when the cache is already saved.  Service *)
(* 10008 panics on that; do_reboot() returns to its caller, which leaves   *)
(* everything as it was.                                                   *)
(***************************************************************************)
SaveFatCache ==
    /\ Ready
    /\ IF g_fat_cache_saved
       THEN panic' = "fat" /\ UNCHANGED job
       ELSE job' = [op |-> "fat", i |-> 3, reboot |-> FALSE] /\ UNCHANGED panic
    /\ UNCHANGED <<disk, memory, history>>

do_reboot ==
    /\ Ready /\ ~g_fat_cache_saved /\ losses < MaxLosses
    /\ job' = [op |-> "fat", i |-> 3, reboot |-> TRUE]
    /\ UNCHANGED <<disk, memory, panic, history>>

(***************************************************************************)
(* fs_save_fat(), a sector at a time (i is the first entry of the next     *)
(* one); then the flag, and the reboot if one was asked for.               *)
(***************************************************************************)
fs_save_fat ==
    /\ job.op = "fat"
    /\ diskFat' = [c \in Cluster |-> IF c \in job.i..(job.i + FatPerSector - 1)
                                     THEN fat[c] ELSE diskFat[c]]
    /\ UNCHANGED <<diskDir, data, saves, lost>>
    /\ IF job.i + FatPerSector <= LastCluster
       THEN /\ job' = [job EXCEPT !.i = job.i + FatPerSector]
            /\ UNCHANGED <<memory, panic, losses, durable>>
       ELSE /\ durable' = {e \in Files(diskDir) : Whole(fat, e)}
            /\ IF job.reboot
               THEN Boot
               ELSE /\ g_fat_cache_saved' = TRUE /\ job' = Idle
                    /\ UNCHANGED <<fat, dir, de, panic, losses>>

\* The power fails, or the machine is reset after a panic.
PowerLoss ==
    /\ losses < MaxLosses
    /\ lost' = (lost \/ \E e \in Files(diskDir) : ~ Whole(diskFat, e))
    /\ UNCHANGED <<disk, saves, durable>>
    /\ Boot

Next ==
    \/ \E name \in Names : \E n \in 1..(MaxFileSizeInSectors + 1) :
          sys_write_file_to_disk(name, n)
    \/ \E name \in Names, inRoot \in BOOLEAN : do_read_file_from_disk(name, inRoot)
    \/ SaveCluster
    \/ fs_save_rootdir
    \/ SaveFatCache
    \/ do_reboot
    \/ fs_save_fat
    \/ PowerLoss

Spec == Init /\ [][Next]_vars
-----------------------------------------------------------------------------
\* Type invariant.
TypeOK ==
    /\ diskFat \in [Cluster -> Link] /\ fat \in [Cluster -> Link]
    /\ diskDir \in Directory(RootEntries) /\ dir \in Directory(RootEntries)
    /\ de \in Directory(DeEntries)
    /\ data \in [Cluster -> (0..MaxSaves) \X (0..MaxFileSizeInSectors)]
    /\ g_fat_cache_saved \in BOOLEAN /\ lost \in BOOLEAN
    /\ panic \in {"none", "load", "fat"}
    /\ job.op \in {"idle", "clusters", "dir", "fat"}
    /\ saves \in 0..MaxSaves /\ losses \in 0..MaxLosses
    /\ durable \subseteq File

\* A file that a complete write of the table covered stays on the disk, whole,
\* through every later save, torn write of the table, power loss and reboot.
Durable ==
    \A e \in durable : e \in Files(diskDir) /\ Whole(diskFat, e)

\* While no power loss has cost a file its clusters, every file of the two
\* directories is whole in the cached table: two files share no cluster, and
\* a load reads what was saved, also while another file is being saved.
FilesWhole ==
    ~ lost => \A e \in Files(diskDir) \cup {f \in Files(de) : job.op # "clusters" \/ f.id # saves} :
                 Whole(fat, e)

\* A table, on disk or cached, that was torn by any number of power losses
\* still leads only upwards: no chain has a cycle and every load ends.
ChainsAscend ==
    \A c \in Cluster : \A f \in {fat, diskFat} : f[c] = Free \/ f[c] > c

\* The flag that lets the cache go unsaved is right: when it says saved, and
\* no save is running, the disk has the cached table.
SavedIsOnDisk ==
    g_fat_cache_saved /\ job.op \in {"idle", "fat"} => diskFat = fat
=============================================================================
