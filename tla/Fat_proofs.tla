----------------------------- MODULE Fat_proofs -----------------------------
(***************************************************************************)
(* Proofs about the FAT16 volume, for tables, sectors and directories of   *)
(* any size, any number of files and power lost at any sector.             *)
(***************************************************************************)
EXTENDS Fat, SequenceTheorems, NaturalsInduction, WellFoundedInduction, TLAPS

-----------------------------------------------------------------------------
(* Lists of clusters and directories.                                       *)

LEMMA ConstantFacts ==
    /\ Cluster \subseteq Nat /\ Free \notin Cluster /\ EndMark # Free
    /\ \A c \in Cluster : c < EndMark
  BY FatAssumption DEF Cluster, Free, EndMark

LEMMA ListFacts ==
    ASSUME NEW at \in ClusterList
    PROVE  /\ Len(at) \in 1..MaxFileSizeInSectors /\ Len(at) \in Nat
           /\ at \in [1..Len(at) -> Cluster] /\ \A k \in 1..Len(at) : at[k] \in Cluster
           /\ \A k \in 1..Len(at) : NextOf(at, k) \in Link /\ NextOf(at, k) # Free
  <1>1. PICK n \in 1..MaxFileSizeInSectors : at \in [1..n -> Cluster]
    BY DEF ClusterList
  <1>2. n \in Nat /\ Len(at) = n
    BY <1>1, FatAssumption
  <1>3. \A k \in 1..n : NextOf(at, k) \in Link /\ NextOf(at, k) # Free
    <2> TAKE k \in 1..n
    <2>1. k # n => at[k + 1] \in Cluster
      BY <1>1, <1>2
    <2> QED BY <1>2, <2>1, ConstantFacts DEF NextOf, Link
  <1> QED BY <1>1, <1>2, <1>3

\* What the search for free clusters finds.
Ascending(at) == \A j, k \in 1..Len(at) : j < k => at[j] < at[k]

LEMMA SearchFacts ==
    ASSUME NEW n \in 1..MaxFileSizeInSectors, NEW at \in fat16ClustersToSave(n)
    PROVE  /\ at \in ClusterList /\ Ascending(at)
           /\ \A k \in 1..Len(at) : fat[at[k]] = Free
  <1>1. at \in [1..n -> FreeClusters] /\ \A j, k \in 1..n : j < k => at[j] < at[k]
    BY DEF fat16ClustersToSave
  <1>2. at \in [1..n -> Cluster] /\ \A k \in 1..n : fat[at[k]] = Free
    BY <1>1 DEF FreeClusters
  <1>3. at \in ClusterList
    BY <1>2 DEF ClusterList
  <1>4. n \in Nat /\ Len(at) = n
    BY <1>2, FatAssumption
  <1> QED BY <1>1, <1>2, <1>3, <1>4 DEF Ascending

LEMMA LinkUp ==
    ASSUME NEW at \in ClusterList, Ascending(at), NEW k \in 1..Len(at)
    PROVE  NextOf(at, k) > at[k]
  <1>1. at[k] \in Cluster /\ at[k] \in Nat /\ Len(at) \in Nat
    BY ListFacts, ConstantFacts
  <1>2. CASE k = Len(at)
    BY <1>1, <1>2, ConstantFacts DEF NextOf, EndMark
  <1>3. CASE k # Len(at)
    <2>1. k + 1 \in 1..Len(at) /\ k < k + 1
      BY <1>1, <1>3
    <2>2. at[k] < at[k + 1] /\ at[k + 1] \in Nat
      BY <2>1, ListFacts, ConstantFacts DEF Ascending
    <2> QED BY <1>1, <1>3, <2>1, <2>2 DEF NextOf
  <1> QED BY <1>2, <1>3

\* A set of natural numbers that is not empty has a least element.
LEMMA LeastEntry ==
    ASSUME NEW S \in SUBSET Nat, S # {}
    PROVE  \E j \in S : \A k \in S : j <= k
  <1> DEFINE Less == {ss \in Nat \X Nat : ss[1] < ss[2]}
  <1>1. IsWellFoundedOn(Less, Nat)
    BY NatLessThanWellFounded, Zenon DEF OpToRel
  <1>2. PICK j \in S : \A k \in S : ~(<<k, j>> \in Less)
    <2> HIDE DEF Less
    <2> QED BY <1>1, WFMin
  <1>3. ASSUME NEW k \in S PROVE j <= k
    <2>1. k < j => <<k, j>> \in Less
      OBVIOUS
    <2> QED BY <1>2, <2>1
  <1> QED BY <1>3

\* The new entry takes the place of an empty one and leaves the others alone.
NewFile(name, at) == [name |-> name, at |-> at, id |-> saves + 1]

LEMMA EmptyFacts == Empty \notin File
  BY FatAssumption DEF Empty, File

LEMMA EnterFacts ==
    ASSUME NEW m \in Nat, NEW d \in Directory(m), \E i \in DOMAIN d : d[i] = Empty,
           NEW name \in Names, NEW at \in ClusterList, saves \in Nat, saves < MaxSaves
    PROVE  /\ NewFile(name, at) \in File
           /\ EnterFile(d, name, at) \in Directory(m)
           /\ Files(EnterFile(d, name, at)) \subseteq Files(d) \cup {NewFile(name, at)}
           /\ \A i \in 1..m : d[i] # Empty => EnterFile(d, name, at)[i] = d[i]
  <1>1. NewFile(name, at) \in File
    BY FatAssumption DEF NewFile, File
  <1>2. DOMAIN d = 1..m /\ \A i \in 1..m : d[i] \in File \cup {Empty}
    BY DEF Directory
  <1> DEFINE S == {i \in 1..m : d[i] = Empty}
             p == findEmptyDirectoryEntry(d)
  <1>3. \E i \in S : \A j \in S : i <= j
    <2>1. S \in SUBSET Nat /\ S # {}
      BY <1>2
    <2> HIDE DEF S
    <2> QED BY <2>1, LeastEntry
  <1>4. \E i \in DOMAIN d : d[i] = Empty /\ \A j \in 1..(i - 1) : d[j] # Empty
    <2>1. PICK i \in S : \A j \in S : i <= j
      BY <1>3
    <2>2. \A j \in 1..(i - 1) : d[j] # Empty
      <3> TAKE j \in 1..(i - 1)
      <3>1. j \in 1..m /\ ~(i <= j)
        BY <2>1
      <3> QED BY <2>1, <3>1
    <2> QED BY <1>2, <2>1, <2>2
  <1>5. p \in 1..m /\ d[p] = Empty
    BY <1>2, <1>4 DEF findEmptyDirectoryEntry
  <1>6. EnterFile(d, name, at) = [d EXCEPT ![p] = NewFile(name, at)]
    BY DEF EnterFile, NewFile
  <1> HIDE DEF p
  <1>7. EnterFile(d, name, at) \in Directory(m)
    BY <1>1, <1>5, <1>6 DEF Directory
  <1>8. \A i \in 1..m : EnterFile(d, name, at)[i] = IF i = p THEN NewFile(name, at) ELSE d[i]
    BY <1>2, <1>6
  <1>9. DOMAIN EnterFile(d, name, at) = 1..m
    BY <1>7 DEF Directory
  <1>10. Files(EnterFile(d, name, at)) \subseteq Files(d) \cup {NewFile(name, at)}
    BY <1>2, <1>8, <1>9 DEF Files
  <1> QED BY <1>1, <1>5, <1>7, <1>8, <1>10

-----------------------------------------------------------------------------
(* Types.                                                                   *)

\* The system call that is writing, and how far it is.
JobOK ==
    \/ job = Idle
    \/ /\ job \in [op : {"clusters"}, at : ClusterList, i : Nat]
       /\ job.i \in 1..Len(job.at) /\ saves > 0
    \/ job \in [op : {"dir"}, i : 1..RootEntries]
    \/ /\ job \in [op : {"fat"}, i : Nat, reboot : BOOLEAN]
       /\ job.reboot => losses < MaxLosses

Typed == TypeOK /\ JobOK

LEMMA FatTypeInit == Init => Typed
  <1>1. Empty \in File \cup {Empty} /\ Free \in Link
    BY DEF Link
  <1>2. <<0, 0>> \in (0..MaxSaves) \X (0..MaxFileSizeInSectors) /\ 0 \in 0..MaxLosses /\ 0 \in 0..MaxSaves
    BY FatAssumption
  <1>3. ASSUME Init PROVE TypeOK
    BY <1>1, <1>2, <1>3 DEF Init, TypeOK, Idle, Directory
  <1>4. ASSUME Init PROVE JobOK
    BY <1>4 DEF Init, JobOK
  <1> QED BY <1>3, <1>4 DEF Typed

LEMMA BootType ==
    ASSUME Typed, losses < MaxLosses, Boot, diskFat' \in [Cluster -> Link],
           diskDir' \in Directory(RootEntries)
    PROVE  /\ fat' \in [Cluster -> Link] /\ dir' \in Directory(RootEntries)
           /\ de' \in Directory(DeEntries) /\ g_fat_cache_saved' \in BOOLEAN
           /\ panic' = "none" /\ job' = Idle /\ losses' \in 0..MaxLosses /\ JobOK'
  <1>1. de' \in Directory(DeEntries)
    BY DEF Boot, Directory
  <1>2. losses' \in 0..MaxLosses
    BY FatAssumption DEF Typed, TypeOK, Boot
  <1> QED BY <1>1, <1>2 DEF Boot, JobOK

LEMMA SaveFileType ==
    ASSUME Typed, NEW name \in Names, NEW n \in Nat \ {0}, NEW inRoot \in BOOLEAN, Ready, saves < MaxSaves,
           fsSaveFile(name, n, inRoot)
    PROVE  Typed'
  <1>0. saves \in Nat /\ RootEntries \in Nat /\ DeEntries \in Nat
    BY FatAssumption DEF Typed, TypeOK
  <1>1. CASE CanSave(IF inRoot THEN diskDir ELSE de, n)
    <2>1. n \in 1..MaxFileSizeInSectors
      BY <1>1, FatAssumption DEF CanSave
    <2>2. PICK at \in fat16ClustersToSave(n) :
               /\ dir' = IF inRoot THEN EnterFile(diskDir, name, at) ELSE diskDir
               /\ de' = IF inRoot THEN de ELSE EnterFile(de, name, at)
               /\ job' = [op |-> "clusters", at |-> at, i |-> 1]
               /\ saves' = saves + 1
      BY <1>1 DEF fsSaveFile
    <2>3. at \in ClusterList
      BY <2>1, SearchFacts
    <2>4. dir' \in Directory(RootEntries) /\ de' \in Directory(DeEntries)
      BY <1>0, <1>1, <2>2, <2>3, EnterFacts DEF CanSave, Typed, TypeOK
    <2>5. JobOK'
      BY <1>0, <2>2, <2>3, ListFacts DEF JobOK
    <2> QED BY <2>2, <2>4, <2>5, FatAssumption DEF Typed, TypeOK, fsSaveFile, disk
  <1>2. CASE ~CanSave(IF inRoot THEN diskDir ELSE de, n)
    BY <1>2 DEF fsSaveFile, Typed, TypeOK, JobOK, disk
  <1> QED BY <1>1, <1>2

LEMMA FatTypeStep == Typed /\ [Next]_vars => Typed'
  <1> SUFFICES ASSUME Typed, [Next]_vars PROVE Typed'
    OBVIOUS
  <1>1. CASE UNCHANGED vars
    BY <1>1 DEF vars, disk, memory, history, Typed, TypeOK, JobOK
  <1>2. ASSUME NEW name \in Names, NEW n \in 1..(MaxFileSizeInSectors + 1), sys_write_file_to_disk(name, n)
        PROVE  Typed'
    <2>1. n \in Nat \ {0} /\ TRUE \in BOOLEAN
      BY FatAssumption
    <2> QED BY <1>2, <2>1, SaveFileType DEF sys_write_file_to_disk
  <1>3. ASSUME NEW name \in Names, NEW inRoot \in BOOLEAN, do_read_file_from_disk(name, inRoot) PROVE Typed'
    <2>1. CASE saves < MaxSaves /\ fsSaveFile(name, 1, inRoot)
      BY <1>3, <2>1, SaveFileType DEF do_read_file_from_disk
    <2>2. CASE panic' = "load" /\ UNCHANGED <<disk, memory, job, history>>
      BY <2>2 DEF disk, memory, history, Typed, TypeOK, JobOK
    <2> QED BY <1>3, <2>1, <2>2 DEF do_read_file_from_disk
  <1>4. CASE SaveCluster
    <2>1. /\ job.op = "clusters" /\ job.at \in ClusterList /\ job.i \in 1..Len(job.at) /\ saves > 0
          /\ job \in [op : {"clusters"}, at : ClusterList, i : Nat]
      BY <1>4 DEF SaveCluster, Typed, JobOK, Idle
    <2>2. /\ Len(job.at) \in 1..MaxFileSizeInSectors /\ job.at[job.i] \in Cluster
          /\ NextOf(job.at, job.i) \in Link
      BY <2>1, ListFacts
    <2>3. fat' \in [Cluster -> Link]
      BY <1>4, <2>2 DEF SaveCluster, Typed, TypeOK
    <2>4. data' \in [Cluster -> (0..MaxSaves) \X (0..MaxFileSizeInSectors)]
      BY <1>4, <2>1, <2>2, FatAssumption DEF SaveCluster, Typed, TypeOK
    <2>5. JobOK' /\ job'.op \in {"dir", "clusters"}
      <3>1. saves' = saves
        BY <1>4 DEF SaveCluster, history
      <3>2. CASE job.i = Len(job.at)
        BY <1>4, <3>2, FatAssumption DEF SaveCluster, JobOK
      <3>3. CASE job.i # Len(job.at)
        BY <1>4, <2>1, <2>2, <3>1, <3>3 DEF SaveCluster, JobOK
      <3> QED BY <3>2, <3>3
    <2> QED BY <1>4, <2>3, <2>4, <2>5 DEF SaveCluster, history, Typed, TypeOK
  <1>5. CASE fs_save_rootdir
    <2>1. job \in [op : {"dir"}, i : 1..RootEntries]
      BY <1>5 DEF fs_save_rootdir, Typed, JobOK, Idle
    <2>2. diskDir' \in Directory(RootEntries)
      BY <1>5, <2>1 DEF fs_save_rootdir, Typed, TypeOK, Directory
    <2>3. JobOK' /\ job'.op \in {"dir", "idle"}
      BY <1>5, <2>1, FatAssumption DEF fs_save_rootdir, JobOK, Idle
    <2> QED BY <1>5, <2>2, <2>3 DEF fs_save_rootdir, history, Typed, TypeOK
  <1>6. CASE SaveFatCache
    <2>1. UNCHANGED <<disk, memory, history>> /\ panic' \in {"none", "load", "fat"}
      BY <1>6 DEF SaveFatCache, Typed, TypeOK
    <2>2. JobOK' /\ job'.op \in {"idle", "fat"}
      <3>1. CASE job' = Idle
        BY <3>1 DEF JobOK, Idle
      <3>2. CASE job' = [op |-> "fat", i |-> 3, reboot |-> FALSE]
        BY <3>2 DEF JobOK
      <3> QED BY <1>6, <3>1, <3>2 DEF SaveFatCache, Ready
    <2> QED BY <2>1, <2>2 DEF disk, memory, history, Typed, TypeOK
  <1>7. CASE do_reboot
    BY <1>7 DEF do_reboot, disk, memory, history, Typed, TypeOK, JobOK
  <1>8. CASE fs_save_fat
    <2>1. job \in [op : {"fat"}, i : Nat, reboot : BOOLEAN] /\ (job.reboot => losses < MaxLosses)
      BY <1>8 DEF fs_save_fat, Typed, JobOK, Idle
    <2>2. diskFat' \in [Cluster -> Link] /\ UNCHANGED <<diskDir, data, saves, lost>>
      BY <1>8 DEF fs_save_fat, Typed, TypeOK
    <2>3. CASE job.i + FatPerSector <= LastCluster
      BY <1>8, <2>1, <2>2, <2>3, FatAssumption DEF fs_save_fat, memory, Typed, TypeOK, JobOK
    <2>4. CASE ~(job.i + FatPerSector <= LastCluster)
      <3>1. durable' = {e \in Files(diskDir) : Whole(fat, e)}
        BY <1>8, <2>4 DEF fs_save_fat
      <3>2. durable' \subseteq File
        BY <3>1 DEF Typed, TypeOK, Directory, Files
      <3>3. CASE job.reboot
        <4>1. Boot
          BY <1>8, <2>4, <3>3 DEF fs_save_fat
        <4>2. diskDir' \in Directory(RootEntries)
          BY <2>2 DEF Typed, TypeOK
        <4> QED BY <2>1, <2>2, <3>2, <3>3, <4>1, <4>2, BootType DEF Typed, TypeOK, Idle
      <3>4. CASE ~job.reboot
        BY <1>8, <2>2, <2>4, <3>2, <3>4 DEF fs_save_fat, Typed, TypeOK, JobOK, Idle
      <3> QED BY <3>3, <3>4
    <2> QED BY <2>3, <2>4
  <1>9. CASE PowerLoss
    <2>1. lost' \in BOOLEAN
      BY <1>9, Zenon DEF PowerLoss
    <2>2. UNCHANGED <<diskFat, diskDir, data, saves, durable>> /\ Boot /\ losses < MaxLosses
      BY <1>9 DEF PowerLoss, disk
    <2> QED BY <2>1, <2>2, BootType DEF Typed, TypeOK, Idle
  <1> QED BY <1>1, <1>2, <1>3, <1>4, <1>5, <1>6, <1>7, <1>8, <1>9 DEF Next

\* The system calls of the volume keep its types.
THEOREM FatTypeCorrect == Spec => []TypeOK
  <1>1. Typed => TypeOK
    BY DEF Typed
  <1> QED BY <1>1, FatTypeInit, FatTypeStep, PTL DEF Spec

-----------------------------------------------------------------------------
(* What the actions do, in the terms of the invariants below.               *)

\* A save that starts has found free clusters in ascending order and has made an entry
\* in memory; one that fails leaves at most the root directory read again.
SaveStarts ==
    \E at \in ClusterList, name \in Names :
        /\ Ascending(at) /\ \A k \in 1..Len(at) : fat[at[k]] = Free
        /\ job' = [op |-> "clusters", at |-> at, i |-> 1]
        /\ saves' = saves + 1
        /\ Files(dir') \cup Files(de') \subseteq Files(diskDir) \cup Files(de) \cup {NewFile(name, at)}
        /\ \A i \in 1..RootEntries : diskDir[i] # Empty => dir'[i] = diskDir[i]

SaveFails == UNCHANGED <<de, job, saves>> /\ dir' \in {dir, diskDir}

SaveFrame == UNCHANGED <<diskFat, diskDir, data, fat, g_fat_cache_saved, panic, losses, durable, lost>>

LEMMA SaveFileEffect ==
    ASSUME Typed, NEW name \in Names, NEW n \in Nat \ {0}, NEW inRoot \in BOOLEAN, saves < MaxSaves,
           fsSaveFile(name, n, inRoot)
    PROVE  SaveFrame /\ (SaveStarts \/ SaveFails)
  <1>0. saves \in Nat /\ RootEntries \in Nat /\ DeEntries \in Nat
    BY FatAssumption DEF Typed, TypeOK
  <1>1. SaveFrame
    BY DEF fsSaveFile, disk, SaveFrame
  <1>2. CASE CanSave(IF inRoot THEN diskDir ELSE de, n)
    <2>1. n \in 1..MaxFileSizeInSectors
      BY <1>2, FatAssumption DEF CanSave
    <2>2. PICK at \in fat16ClustersToSave(n) :
               /\ dir' = IF inRoot THEN EnterFile(diskDir, name, at) ELSE diskDir
               /\ de' = IF inRoot THEN de ELSE EnterFile(de, name, at)
               /\ job' = [op |-> "clusters", at |-> at, i |-> 1]
               /\ saves' = saves + 1
      BY <1>2 DEF fsSaveFile
    <2>3. at \in ClusterList /\ Ascending(at) /\ \A k \in 1..Len(at) : fat[at[k]] = Free
      BY <2>1, SearchFacts
    <2>4. /\ Files(dir') \cup Files(de') \subseteq Files(diskDir) \cup Files(de) \cup {NewFile(name, at)}
          /\ \A i \in 1..RootEntries : diskDir[i] # Empty => dir'[i] = diskDir[i]
      <3>1. CASE inRoot
        <4>1. diskDir \in Directory(RootEntries) /\ \E i \in DOMAIN diskDir : diskDir[i] = Empty
          BY <1>2, <3>1 DEF CanSave, Typed, TypeOK
        <4>2. /\ Files(dir') \subseteq Files(diskDir) \cup {NewFile(name, at)}
              /\ \A i \in 1..RootEntries : diskDir[i] # Empty => dir'[i] = diskDir[i]
          BY <1>0, <2>2, <2>3, <3>1, <4>1, EnterFacts
        <4> QED BY <2>2, <3>1, <4>2
      <3>2. CASE ~inRoot
        <4>1. de \in Directory(DeEntries) /\ \E i \in DOMAIN de : de[i] = Empty
          BY <1>2, <3>2 DEF CanSave, Typed, TypeOK
        <4>2. Files(de') \subseteq Files(de) \cup {NewFile(name, at)}
          BY <1>0, <2>2, <2>3, <3>2, <4>1, EnterFacts
        <4> QED BY <2>2, <3>2, <4>2
      <3> QED BY <3>1, <3>2
    <2> QED BY <1>1, <2>2, <2>3, <2>4 DEF SaveStarts
  <1>3. CASE ~CanSave(IF inRoot THEN diskDir ELSE de, n)
    BY <1>1, <1>3 DEF fsSaveFile, SaveFails
  <1> QED BY <1>2, <1>3

\* A load that panics.
LoadPanics == panic' = "load" /\ UNCHANGED <<disk, memory, job, history>>

\* The calls that may save a file.
LEMMA SaveCalls ==
    ASSUME Typed, \/ \E name \in Names : \E n \in 1..(MaxFileSizeInSectors + 1) : sys_write_file_to_disk(name, n)
                  \/ \E name \in Names, inRoot \in BOOLEAN : do_read_file_from_disk(name, inRoot)
    PROVE  job = Idle /\ ((SaveFrame /\ (SaveStarts \/ SaveFails)) \/ LoadPanics)
  <1>1. ASSUME NEW name \in Names, NEW n \in 1..(MaxFileSizeInSectors + 1), sys_write_file_to_disk(name, n)
        PROVE  job = Idle /\ SaveFrame /\ (SaveStarts \/ SaveFails)
    <2>1. n \in Nat \ {0} /\ TRUE \in BOOLEAN
      BY FatAssumption
    <2> QED BY <1>1, <2>1, SaveFileEffect DEF sys_write_file_to_disk, Ready
  <1>2. ASSUME NEW name \in Names, NEW inRoot \in BOOLEAN, do_read_file_from_disk(name, inRoot)
        PROVE  job = Idle /\ ((SaveFrame /\ (SaveStarts \/ SaveFails)) \/ LoadPanics)
    <2>1. CASE saves < MaxSaves /\ fsSaveFile(name, 1, inRoot)
      BY <1>2, <2>1, SaveFileEffect DEF do_read_file_from_disk, Ready
    <2> QED BY <1>2, <2>1 DEF do_read_file_from_disk, Ready, LoadPanics
  <1> QED BY <1>1, <1>2

\* One cluster is linked and written.
LEMMA ClusterEffect ==
    ASSUME Typed, SaveCluster
    PROVE  LET c == job.at[job.i]
           IN  /\ job.op = "clusters" /\ job.at \in ClusterList /\ job.i \in 1..Len(job.at)
               /\ job \in [op : {"clusters"}, at : ClusterList, i : Nat]
               /\ c \in Cluster
               /\ \A b \in Cluster : /\ fat'[b] = IF b = c THEN NextOf(job.at, job.i) ELSE fat[b]
                                     /\ data'[b] = IF b = c THEN <<saves, job.i>> ELSE data[b]
               /\ UNCHANGED <<diskFat, diskDir, dir, de, g_fat_cache_saved, panic, saves, losses, durable, lost>>
               /\ IF job.i = Len(job.at)
                  THEN job' = [op |-> "dir", i |-> 1]
                  ELSE job' = [job EXCEPT !.i = job.i + 1]
  <1>1. /\ job.op = "clusters" /\ job.at \in ClusterList /\ job.i \in 1..Len(job.at)
        /\ job \in [op : {"clusters"}, at : ClusterList, i : Nat]
    BY DEF SaveCluster, Typed, JobOK, Idle
  <1>2. job.at[job.i] \in Cluster
    BY <1>1, ListFacts
  <1> QED BY <1>1, <1>2 DEF SaveCluster, history, Typed, TypeOK

\* One sector of the table is written.
LEMMA SectorEffect ==
    ASSUME Typed, fs_save_fat
    PROVE  /\ job \in [op : {"fat"}, i : Nat, reboot : BOOLEAN]
           /\ \A c \in Cluster : diskFat'[c] = IF c \in job.i..(job.i + FatPerSector - 1) THEN fat[c] ELSE diskFat[c]
           /\ UNCHANGED <<diskDir, data, saves, lost>>
           /\ IF job.i + FatPerSector <= LastCluster
              THEN /\ job' = [job EXCEPT !.i = job.i + FatPerSector]
                   /\ UNCHANGED <<fat, dir, de, g_fat_cache_saved, panic, losses, durable>>
              ELSE /\ durable' = {e \in Files(diskDir) : Whole(fat, e)}
                   /\ job' = Idle
                   /\ \/ Boot
                      \/ g_fat_cache_saved' = TRUE /\ UNCHANGED <<fat, dir, de, panic, losses>>
  <1>1. job \in [op : {"fat"}, i : Nat, reboot : BOOLEAN]
    BY DEF fs_save_fat, Typed, JobOK, Idle
  <1> QED BY <1>1 DEF fs_save_fat, memory, Boot

-----------------------------------------------------------------------------
(* The tables.                                                              *)

\* The clusters that a save still has to link are free, and in ascending order.
JobFree ==
    job.op = "clusters" =>
        Ascending(job.at) /\ \A k \in job.i..Len(job.at) : fat[job.at[k]] = Free

\* The sectors of the table that are already written.
Copied ==
    job.op = "fat" => ~g_fat_cache_saved /\ \A c \in Cluster : c < job.i => diskFat[c] = fat[c]

Tables == ChainsAscend /\ SavedIsOnDisk /\ JobFree /\ Copied

LEMMA TablesInit == Init => Tables
  BY DEF Init, Tables, ChainsAscend, SavedIsOnDisk, JobFree, Copied, Idle

LEMMA DifferentClusters ==
    ASSUME NEW at \in ClusterList, Ascending(at), NEW j \in 1..Len(at), NEW k \in 1..Len(at), j # k
    PROVE  at[j] # at[k]
  <1>1. at[j] \in Cluster /\ at[k] \in Cluster /\ Len(at) \in Nat
    BY ListFacts
  <1>2. j \in Nat /\ k \in Nat
    BY <1>1
  <1>3. at[j] \in Nat /\ at[k] \in Nat
    BY <1>1, ConstantFacts, Zenon
  <1>4. CASE j < k
    BY <1>3, <1>4 DEF Ascending
  <1>5. CASE k < j
    BY <1>3, <1>5 DEF Ascending
  <1> QED BY <1>2, <1>4, <1>5

LEMMA TablesCluster == Typed /\ Tables /\ SaveCluster => Tables'
  <1> SUFFICES ASSUME Typed, Tables, SaveCluster PROVE Tables'
    OBVIOUS
  <1> DEFINE c == job.at[job.i]
  <1>1. /\ job.op = "clusters" /\ job.at \in ClusterList /\ job.i \in 1..Len(job.at)
        /\ job \in [op : {"clusters"}, at : ClusterList, i : Nat]
        /\ c \in Cluster
        /\ \A b \in Cluster : fat'[b] = IF b = c THEN NextOf(job.at, job.i) ELSE fat[b]
        /\ diskFat' = diskFat
        /\ IF job.i = Len(job.at) THEN job' = [op |-> "dir", i |-> 1]
                                  ELSE job' = [job EXCEPT !.i = job.i + 1]
    BY ClusterEffect
  <1>2. Ascending(job.at) /\ \A k \in job.i..Len(job.at) : fat[job.at[k]] = Free
    BY <1>1 DEF Tables, JobFree
  <1>3. NextOf(job.at, job.i) > c
    BY <1>1, <1>2, LinkUp
  <1>4. ChainsAscend'
    <2>1. \A b \in Cluster : fat'[b] = Free \/ fat'[b] > b
      BY <1>1, <1>3 DEF Tables, ChainsAscend
    <2> QED BY <1>1, <2>1 DEF Tables, ChainsAscend
  <1>5. job'.op \in {"dir", "clusters"}
    BY <1>1
  <1>6. JobFree'
    <2>1. CASE job.i = Len(job.at)
      BY <1>1, <2>1 DEF JobFree
    <2>2. CASE job.i # Len(job.at)
      <3>1. job'.at = job.at /\ job'.i = job.i + 1
        BY <1>1, <2>2
      <3>2. ASSUME NEW k \in (job.i + 1)..Len(job.at) PROVE fat'[job.at[k]] = Free
        <4>1. k \in 1..Len(job.at) /\ k # job.i /\ k \in job.i..Len(job.at)
          BY <1>1, ListFacts
        <4>2. job.at[k] \in Cluster /\ job.at[k] # c
          BY <1>1, <1>2, <4>1, ListFacts, DifferentClusters
        <4> QED BY <1>1, <1>2, <4>1, <4>2
      <3> QED BY <1>2, <3>1, <3>2 DEF JobFree
    <2> QED BY <2>1, <2>2
  <1> QED BY <1>4, <1>5, <1>6 DEF Tables, SavedIsOnDisk, Copied

\* The last sector makes the table on the disk the cached one.
LEMMA WholeTable ==
    ASSUME Typed, Tables, fs_save_fat, ~(job.i + FatPerSector <= LastCluster)
    PROVE  diskFat' = fat
  <1>1. /\ job \in [op : {"fat"}, i : Nat, reboot : BOOLEAN]
        /\ \A c \in Cluster : diskFat'[c] = IF c \in job.i..(job.i + FatPerSector - 1) THEN fat[c] ELSE diskFat[c]
    BY SectorEffect
  <1>2. \A c \in Cluster : c < job.i => diskFat[c] = fat[c]
    BY <1>1 DEF Tables, Copied
  <1>3. \A c \in Cluster : c < job.i + FatPerSector
    BY <1>1, FatAssumption DEF Cluster
  <1>4. \A c \in Cluster : diskFat'[c] = fat[c]
    BY <1>1, <1>2, <1>3, ConstantFacts, FatAssumption
  <1>5. diskFat' \in [Cluster -> Link] /\ fat \in [Cluster -> Link]
    BY FatTypeStep DEF Typed, TypeOK, Next
  <1> QED BY <1>4, <1>5

LEMMA TablesSector == Typed /\ Tables /\ fs_save_fat => Tables'
  <1> SUFFICES ASSUME Typed, Tables, fs_save_fat PROVE Tables'
    OBVIOUS
  <1>1. /\ job \in [op : {"fat"}, i : Nat, reboot : BOOLEAN]
        /\ \A c \in Cluster : diskFat'[c] = IF c \in job.i..(job.i + FatPerSector - 1) THEN fat[c] ELSE diskFat[c]
    BY SectorEffect
  <1>2. ~g_fat_cache_saved /\ \A c \in Cluster : c < job.i => diskFat[c] = fat[c]
    BY <1>1 DEF Tables, Copied
  <1>3. \A c \in Cluster : c < job.i + FatPerSector => diskFat'[c] = fat[c]
    BY <1>1, <1>2, ConstantFacts, FatAssumption
  <1>4. \A c \in Cluster : diskFat'[c] = Free \/ diskFat'[c] > c
    BY <1>1 DEF Tables, ChainsAscend
  <1>5. CASE job.i + FatPerSector <= LastCluster
    <2>1. job' = [job EXCEPT !.i = job.i + FatPerSector] /\ UNCHANGED <<fat, g_fat_cache_saved>>
      BY <1>5, SectorEffect
    <2>2. job'.op = "fat" /\ job'.i = job.i + FatPerSector
      BY <1>1, <2>1
    <2> QED BY <1>2, <1>3, <1>4, <2>1, <2>2 DEF Tables, ChainsAscend, SavedIsOnDisk, JobFree, Copied
  <1>6. CASE ~(job.i + FatPerSector <= LastCluster)
    <2>1. job' = Idle /\ (Boot \/ fat' = fat)
      BY <1>6, SectorEffect
    <2>2. diskFat' = fat
      BY <1>6, WholeTable
    <2>3. fat' = fat
      BY <2>1, <2>2 DEF Boot
    <2> QED BY <1>4, <2>1, <2>2, <2>3 DEF Tables, ChainsAscend, SavedIsOnDisk, JobFree, Copied, Idle
  <1> QED BY <1>5, <1>6

LEMMA TablesStep == Typed /\ Tables /\ [Next]_vars => Tables'
  <1> SUFFICES ASSUME Typed, Tables, [Next]_vars PROVE Tables'
    OBVIOUS
  <1> USE DEF Tables, ChainsAscend, SavedIsOnDisk, JobFree, Copied
  <1>1. CASE UNCHANGED vars
    BY <1>1 DEF vars, disk, memory
  <1>2. CASE \/ \E name \in Names : \E n \in 1..(MaxFileSizeInSectors + 1) : sys_write_file_to_disk(name, n)
             \/ \E name \in Names, inRoot \in BOOLEAN : do_read_file_from_disk(name, inRoot)
    <2>1. CASE SaveFrame /\ SaveStarts
      BY <2>1 DEF SaveFrame, SaveStarts
    <2>2. CASE SaveFrame /\ SaveFails
      BY <2>2 DEF SaveFrame, SaveFails
    <2>3. CASE LoadPanics
      BY <2>3 DEF LoadPanics, disk, memory
    <2> QED BY <1>2, <2>1, <2>2, <2>3, SaveCalls
  <1>3. CASE SaveCluster
    BY <1>3, TablesCluster
  <1>4. CASE fs_save_rootdir
    <2>1. job \in [op : {"dir"}, i : 1..RootEntries]
      BY <1>4 DEF fs_save_rootdir, Typed, JobOK, Idle
    <2> QED BY <1>4, <2>1 DEF fs_save_rootdir, Idle
  <1>5. CASE SaveFatCache
    BY <1>5, FatAssumption DEF SaveFatCache, Ready, Idle, disk, memory, Cluster
  <1>6. CASE do_reboot
    BY <1>6, FatAssumption DEF do_reboot, Ready, Idle, disk, memory, Cluster
  <1>7. CASE fs_save_fat
    BY <1>7, TablesSector
  <1>8. CASE PowerLoss
    BY <1>8 DEF PowerLoss, Boot, disk, Idle
  <1> QED BY <1>1, <1>2, <1>3, <1>4, <1>5, <1>6, <1>7, <1>8 DEF Next

LEMMA TablesHold == Spec => [](Typed /\ Tables)
  <1>1. Init => Typed /\ Tables
    BY FatTypeInit, TablesInit
  <1>2. Typed /\ Tables /\ [Next]_vars => (Typed /\ Tables)'
    BY FatTypeStep, TablesStep
  <1> QED BY <1>1, <1>2, PTL DEF Spec

\* Whatever the power cuts off, a table that fs_save_fat() wrote only in part mixes old and
\* new links that all lead upwards: fsLoadFile() never follows a cycle.
THEOREM LoadsEnd == Spec => []ChainsAscend
  <1>1. Tables => ChainsAscend
    BY DEF Tables
  <1> QED BY <1>1, TablesHold, PTL

\* g_fat_cache_saved is TRUE only while the table on the disk is the cached one, so that
\* fs_save_fat16_cache() never refuses a save that is needed.
THEOREM SavedFlagIsRight == Spec => []SavedIsOnDisk
  <1>1. Tables => SavedIsOnDisk
    BY DEF Tables
  <1> QED BY <1>1, TablesHold, PTL

-----------------------------------------------------------------------------
(* The files that a complete write of the table covered.                    *)

\* The clusters of a file that is linked are not free.
LEMMA LinkedTaken ==
    ASSUME NEW e \in File, NEW f, Linked(f, e), NEW k \in 1..Len(e.at)
    PROVE  e.at[k] \in Cluster /\ f[e.at[k]] = NextOf(e.at, k) /\ f[e.at[k]] # Free
  <1>1. e.at \in ClusterList
    BY DEF File
  <1> QED BY <1>1, ListFacts DEF Linked

\* A save touches no cluster of a file that is linked in the cached table.
LEMMA ClusterKeeps ==
    ASSUME Typed, Tables, SaveCluster, NEW e \in File, Linked(fat, e)
    PROVE  Linked(fat', e) /\ (Stored(e) => Stored(e)')
  <1> DEFINE c == job.at[job.i]
  <1>1. /\ job.op = "clusters" /\ job.at \in ClusterList /\ job.i \in 1..Len(job.at)
        /\ \A b \in Cluster : /\ fat'[b] = IF b = c THEN NextOf(job.at, job.i) ELSE fat[b]
                              /\ data'[b] = IF b = c THEN <<saves, job.i>> ELSE data[b]
    BY ClusterEffect
  <1>2. fat[c] = Free
    <2>1. job.i \in job.i..Len(job.at)
      BY <1>1, ListFacts
    <2> QED BY <1>1, <2>1 DEF Tables, JobFree
  <1> HIDE DEF c
  <1>3. ASSUME NEW k \in 1..Len(e.at)
        PROVE  fat'[e.at[k]] = fat[e.at[k]] /\ data'[e.at[k]] = data[e.at[k]]
    <2>1. e.at[k] \in Cluster /\ fat[e.at[k]] # Free
      BY LinkedTaken
    <2> QED BY <1>1, <1>2, <2>1
  <1> QED BY <1>3 DEF Linked, Stored

\* A sector of the table loses no file that both tables have.
LEMMA SectorKeeps ==
    ASSUME Typed, fs_save_fat, NEW e \in File, Linked(fat, e), Linked(diskFat, e)
    PROVE  Linked(diskFat', e)
  <1>1. \A c \in Cluster : diskFat'[c] \in {fat[c], diskFat[c]}
    BY SectorEffect
  <1>2. ASSUME NEW k \in 1..Len(e.at) PROVE diskFat'[e.at[k]] = NextOf(e.at, k)
    <2>1. e.at[k] \in Cluster /\ fat[e.at[k]] = NextOf(e.at, k) /\ diskFat[e.at[k]] = NextOf(e.at, k)
      BY LinkedTaken
    <2> QED BY <1>1, <2>1
  <1> QED BY <1>2 DEF Linked

\* The directory in memory has what the one on the disk has, so that writing it again
\* loses nothing; and both tables have the files that must last.
DirAgrees == \A i \in 1..RootEntries : diskDir[i] # Empty => dir[i] = diskDir[i]
Lasting == \A e \in durable : e \in Files(diskDir) /\ Linked(diskFat, e) /\ Linked(fat, e) /\ Stored(e)
Disk == DirAgrees /\ Lasting

LEMMA DiskInit == Init => Disk
  BY DEF Init, Disk, DirAgrees, Lasting

LEMMA FilesAre ==
    ASSUME Typed
    PROVE  /\ Files(diskDir) = {diskDir[i] : i \in 1..RootEntries} \ {Empty}
           /\ Files(dir) = {dir[i] : i \in 1..RootEntries} \ {Empty}
           /\ Files(diskDir) \cup Files(dir) \cup Files(de) \subseteq File
  <1>1. DOMAIN diskDir = 1..RootEntries /\ DOMAIN dir = 1..RootEntries /\ DOMAIN de = 1..DeEntries
    BY DEF Typed, TypeOK, Directory
  <1>2. /\ \A i \in 1..RootEntries : diskDir[i] \in File \cup {Empty} /\ dir[i] \in File \cup {Empty}
        /\ \A i \in 1..DeEntries : de[i] \in File \cup {Empty}
    BY DEF Typed, TypeOK, Directory
  <1> QED BY <1>1, <1>2 DEF Files

\* Writing a sector of the root directory adds files and loses none.
LEMMA RootdirEffect ==
    ASSUME Typed, DirAgrees, fs_save_rootdir
    PROVE  /\ DirAgrees'
           /\ Files(diskDir) \subseteq Files(diskDir') /\ Files(diskDir') \subseteq Files(diskDir) \cup Files(dir)
           /\ UNCHANGED <<diskFat, data, fat, dir, de, panic, saves, losses, durable, lost>>
           /\ job.op = "dir" /\ job'.op \in {"dir", "idle"}
  <1>1. job \in [op : {"dir"}, i : 1..RootEntries]
    BY DEF fs_save_rootdir, Typed, JobOK, Idle
  <1>2. \A i \in 1..RootEntries : diskDir'[i] = IF i = job.i THEN dir[i] ELSE diskDir[i]
    BY DEF fs_save_rootdir, Typed, TypeOK, Directory
  <1>3. UNCHANGED <<diskFat, data, fat, dir, de, panic, saves, losses, durable, lost>>
    BY DEF fs_save_rootdir, history
  <1>4. DirAgrees'
    BY <1>2, <1>3 DEF DirAgrees
  <1>5. DOMAIN diskDir' = 1..RootEntries
    BY DEF fs_save_rootdir, Typed, TypeOK, Directory
  <1>6. Files(diskDir') = {diskDir'[i] : i \in 1..RootEntries} \ {Empty}
    BY <1>5 DEF Files
  <1>7. Files(diskDir) \subseteq Files(diskDir')
    BY <1>2, <1>6, FilesAre DEF DirAgrees
  <1>8. Files(diskDir') \subseteq Files(diskDir) \cup Files(dir)
    BY <1>2, <1>6, FilesAre
  <1>9. job.op = "dir" /\ job'.op \in {"dir", "idle"}
    BY <1>1 DEF fs_save_rootdir, Idle
  <1> QED BY <1>3, <1>4, <1>7, <1>8, <1>9

LEMMA DiskStep == Typed /\ Tables /\ Disk /\ [Next]_vars => Disk'
  <1> SUFFICES ASSUME Typed, Tables, Disk, [Next]_vars PROVE Disk'
    OBVIOUS
  <1>0. DirAgrees /\ Lasting /\ durable \subseteq File
    BY DEF Disk, Typed, TypeOK
  <1>1. ASSUME UNCHANGED <<diskFat, diskDir, data, fat, durable>> PROVE Lasting'
    BY <1>0, <1>1 DEF Lasting, Stored
  <1>2. CASE UNCHANGED vars
    BY <1>0, <1>1, <1>2 DEF vars, disk, memory, history, Disk, DirAgrees
  <1>3. CASE \/ \E name \in Names : \E n \in 1..(MaxFileSizeInSectors + 1) : sys_write_file_to_disk(name, n)
             \/ \E name \in Names, inRoot \in BOOLEAN : do_read_file_from_disk(name, inRoot)
    <2>1. CASE SaveFrame /\ SaveStarts
      BY <1>1, <2>1 DEF SaveFrame, SaveStarts, Disk, DirAgrees
    <2>2. CASE SaveFrame /\ SaveFails
      BY <1>0, <1>1, <2>2 DEF SaveFrame, SaveFails, Disk, DirAgrees
    <2>3. CASE LoadPanics
      BY <1>0, <1>1, <2>3 DEF LoadPanics, disk, memory, history, Disk, DirAgrees
    <2> QED BY <1>3, <2>1, <2>2, <2>3, SaveCalls
  <1>4. CASE SaveCluster
    <2>1. UNCHANGED <<diskFat, diskDir, dir, durable>>
      BY <1>4, ClusterEffect
    <2>2. ASSUME NEW e \in durable PROVE Linked(fat', e) /\ Stored(e)'
      BY <1>0, <1>4, ClusterKeeps DEF Lasting
    <2> QED BY <1>0, <2>1, <2>2 DEF Disk, DirAgrees, Lasting
  <1>5. CASE fs_save_rootdir
    <2>1. Lasting'
      BY <1>0, <1>5, RootdirEffect DEF Lasting, Stored
    <2> QED BY <1>0, <1>5, <2>1, RootdirEffect DEF Disk
  <1>6. CASE SaveFatCache
    BY <1>0, <1>1, <1>6 DEF SaveFatCache, disk, memory, history, Disk, DirAgrees
  <1>7. CASE do_reboot
    BY <1>0, <1>1, <1>7 DEF do_reboot, disk, memory, history, Disk, DirAgrees
  <1>8. CASE fs_save_fat
    <2>1. UNCHANGED <<diskDir, data>>
      BY <1>8, SectorEffect
    <2>2. ASSUME NEW e \in durable PROVE Linked(diskFat', e)
      BY <1>0, <1>8, SectorKeeps DEF Lasting
    <2>3. CASE job.i + FatPerSector <= LastCluster
      <3>1. UNCHANGED <<fat, dir, durable>>
        BY <1>8, <2>3, SectorEffect
      <3> QED BY <1>0, <2>1, <2>2, <3>1 DEF Disk, DirAgrees, Lasting, Stored
    <2>4. CASE ~(job.i + FatPerSector <= LastCluster)
      <3>1. durable' = {e \in Files(diskDir) : Whole(fat, e)} /\ (Boot \/ UNCHANGED <<fat, dir>>)
        BY <1>8, <2>4, SectorEffect
      <3>2. diskFat' = fat
        BY <1>8, <2>4, WholeTable
      <3>3. fat' = fat /\ DirAgrees'
        BY <1>0, <2>1, <3>1, <3>2 DEF Boot, DirAgrees
      <3> QED BY <2>1, <3>1, <3>2, <3>3 DEF Disk, Lasting, Whole, Stored
    <2> QED BY <2>3, <2>4
  <1>9. CASE PowerLoss
    <2>1. UNCHANGED <<diskFat, diskDir, data, durable>> /\ fat' = diskFat /\ dir' = diskDir
      BY <1>9 DEF PowerLoss, Boot, disk
    <2> QED BY <1>0, <2>1 DEF Disk, DirAgrees, Lasting, Stored
  <1> QED BY <1>2, <1>3, <1>4, <1>5, <1>6, <1>7, <1>8, <1>9 DEF Next

LEMMA DiskHolds == Spec => [](Typed /\ Tables /\ Disk)
  <1>1. Init => Typed /\ Tables /\ Disk
    BY FatTypeInit, TablesInit, DiskInit
  <1>2. Typed /\ Tables /\ Disk /\ [Next]_vars => (Typed /\ Tables /\ Disk)'
    BY FatTypeStep, TablesStep, DiskStep
  <1> QED BY <1>1, <1>2, PTL DEF Spec

\* A file that service 10008 or a reboot has put on the disk stays there, whole, whatever
\* is saved later and wherever the power fails, on volumes of any size.
THEOREM SavedFilesLast == Spec => []Durable
  <1>1. Disk => Durable
    BY DEF Disk, Lasting, Durable, Whole
  <1> QED BY <1>1, DiskHolds, PTL

-----------------------------------------------------------------------------
(* The files of the directories.                                            *)

AllFiles == Files(diskDir) \cup Files(dir) \cup Files(de)

\* The file that is being saved is the one with the last identity, and is not yet on disk.
Identities ==
    /\ \A e \in AllFiles : e.id <= saves
    /\ job.op = "clusters" => \A e \in Files(diskDir) : e.id < saves

\* The clusters that a save has already linked and written.
Progress ==
    job.op = "clusters" =>
        /\ \A e \in Files(dir) \cup Files(de) : e.id = saves => e.at = job.at
        /\ \A k \in 1..(job.i - 1) : fat[job.at[k]] = NextOf(job.at, k) /\ data[job.at[k]] = <<saves, k>>

OthersWhole ==
    ~lost => \A e \in AllFiles : (job.op = "clusters" => e.id # saves) => Whole(fat, e)

Volume == Identities /\ Progress /\ OthersWhole

LEMMA EmptyDirectory == \A n \in Nat : Files([i \in 1..n |-> Empty]) = {}
  BY DEF Files

LEMMA VolumeInit == Init => Volume
  <1> SUFFICES ASSUME Init PROVE Volume
    OBVIOUS
  <1>1. Files(diskDir) = {} /\ Files(dir) = {} /\ Files(de) = {} /\ job.op = "idle"
    BY EmptyDirectory, FatAssumption DEF Init, Idle
  <1> QED BY <1>1 DEF Volume, Identities, Progress, OthersWhole, AllFiles

\* A step that leaves clusters alone and adds no file.
LEMMA VolumeQuiet ==
    ASSUME Volume, UNCHANGED <<fat, data, saves>>, lost => lost', AllFiles' \subseteq AllFiles,
           job.op # "clusters", job'.op # "clusters"
    PROVE  Volume'
  BY DEF Volume, Identities, Progress, OthersWhole, Whole, Linked, Stored

LEMMA VolumeCluster == Typed /\ Tables /\ Volume /\ SaveCluster => Volume'
  <1> SUFFICES ASSUME Typed, Tables, Volume, SaveCluster PROVE Volume'
    OBVIOUS
  <1> DEFINE c == job.at[job.i]
  <1>1. /\ job.op = "clusters" /\ job.at \in ClusterList /\ job.i \in 1..Len(job.at)
        /\ job \in [op : {"clusters"}, at : ClusterList, i : Nat]
        /\ c \in Cluster
        /\ \A b \in Cluster : /\ fat'[b] = IF b = c THEN NextOf(job.at, job.i) ELSE fat[b]
                              /\ data'[b] = IF b = c THEN <<saves, job.i>> ELSE data[b]
        /\ UNCHANGED <<diskDir, dir, de, saves, lost>>
        /\ IF job.i = Len(job.at) THEN job' = [op |-> "dir", i |-> 1]
                                  ELSE job' = [job EXCEPT !.i = job.i + 1]
    BY ClusterEffect
  <1>2. Identities /\ Progress /\ OthersWhole /\ AllFiles \subseteq File /\ AllFiles' = AllFiles
    BY <1>1, FilesAre DEF Volume, AllFiles
  <1>3. Identities'
    <2>1. job'.op = "clusters" => job.op = "clusters"
      BY <1>1
    <2> QED BY <1>1, <1>2, <2>1 DEF Identities
  <1>4. Len(job.at) \in Nat /\ job.i \in Nat /\ \A k \in 1..Len(job.at) : job.at[k] \in Cluster
    BY <1>1, ListFacts
  <1>5. \A k \in 1..job.i : fat'[job.at[k]] = NextOf(job.at, k) /\ data'[job.at[k]] = <<saves, k>>
    <2> TAKE k \in 1..job.i
    <2>1. CASE k = job.i
      BY <1>1, <2>1
    <2>2. CASE k # job.i
      <3>1. k \in 1..(job.i - 1) /\ k \in 1..Len(job.at)
        BY <1>1, <1>4, <2>2
      <3>2. job.at[k] \in Cluster /\ job.at[k] # c
        BY <1>1, <1>4, <2>2, <3>1, DifferentClusters DEF Tables, JobFree
      <3>3. fat[job.at[k]] = NextOf(job.at, k) /\ data[job.at[k]] = <<saves, k>>
        BY <1>1, <1>2, <3>1 DEF Progress
      <3> QED BY <1>1, <3>2, <3>3
    <2> QED BY <2>1, <2>2
  <1>6. ASSUME ~lost, NEW e \in AllFiles, e.id # saves PROVE Linked(fat', e) /\ Stored(e)'
    <2>1. Whole(fat, e) /\ e \in File
      BY <1>2, <1>6 DEF OthersWhole
    <2> QED BY <2>1, ClusterKeeps DEF Whole
  <1>7. CASE job.i # Len(job.at)
    <2>1. job'.op = "clusters" /\ job'.at = job.at /\ job'.i = job.i + 1
      BY <1>1, <1>7
    <2>2. Progress'
      <3>1. (job.i + 1) - 1 = job.i
        BY <1>4
      <3> QED BY <1>1, <1>2, <1>5, <2>1, <3>1 DEF Progress
    <2>3. OthersWhole'
      BY <1>1, <1>2, <1>6, <2>1 DEF OthersWhole, Whole
    <2> QED BY <1>3, <2>2, <2>3 DEF Volume
  <1>8. CASE job.i = Len(job.at)
    <2>1. job'.op = "dir"
      BY <1>1, <1>8
    <2>2. ASSUME NEW e \in AllFiles, e.id = saves PROVE Linked(fat', e) /\ Stored(e)'
      <3>1. saves \in Nat
        BY DEF Typed, TypeOK
      <3>2. e \in Files(dir) \cup Files(de)
        BY <1>1, <1>2, <2>2, <3>1 DEF Identities, AllFiles
      <3>3. e.at = job.at
        BY <1>1, <1>2, <2>2, <3>2 DEF Progress
      <3> QED BY <1>5, <1>8, <2>2, <3>3 DEF Whole, Linked, Stored
    <2>3. OthersWhole'
      BY <1>1, <1>2, <1>6, <2>2 DEF OthersWhole, Whole
    <2> QED BY <1>3, <2>1, <2>3 DEF Volume, Progress
  <1> QED BY <1>7, <1>8

LEMMA VolumeStep == Typed /\ Tables /\ Disk /\ Volume /\ [Next]_vars => Volume'
  <1> SUFFICES ASSUME Typed, Tables, Disk, Volume, [Next]_vars PROVE Volume'
    OBVIOUS
  <1>1. CASE UNCHANGED vars
    BY <1>1 DEF vars, disk, memory, history, Volume, Identities, Progress, OthersWhole, AllFiles,
                Whole, Linked, Stored
  <1>2. CASE \/ \E name \in Names : \E n \in 1..(MaxFileSizeInSectors + 1) : sys_write_file_to_disk(name, n)
             \/ \E name \in Names, inRoot \in BOOLEAN : do_read_file_from_disk(name, inRoot)
    <2>0. job.op = "idle" /\ saves \in Nat /\ AllFiles \subseteq File
      BY <1>2, SaveCalls, FilesAre DEF Idle, Typed, TypeOK, AllFiles
    <2>1. CASE SaveFrame /\ SaveStarts
      <3>1. PICK at \in ClusterList, name \in Names :
                /\ job' = [op |-> "clusters", at |-> at, i |-> 1]
                /\ saves' = saves + 1
                /\ Files(dir') \cup Files(de') \subseteq Files(diskDir) \cup Files(de) \cup {NewFile(name, at)}
        BY <2>1 DEF SaveStarts
      <3>2. UNCHANGED <<diskDir, data, fat, lost>>
        BY <2>1 DEF SaveFrame
      <3>3. AllFiles' \subseteq AllFiles \cup {NewFile(name, at)} /\ Files(diskDir') \subseteq AllFiles
        BY <3>1, <3>2 DEF AllFiles
      <3>4. NewFile(name, at).id = saves' /\ NewFile(name, at).at = at /\ job'.op = "clusters" /\ job'.at = at
        BY <3>1 DEF NewFile
      <3>5. \A e \in AllFiles : e.id \in Nat /\ e.id <= saves /\ e.id # saves'
        BY <2>0, <3>1, FatAssumption DEF Volume, Identities, File
      <3>6. Identities'
        BY <2>0, <3>1, <3>2, <3>3, <3>4, <3>5 DEF Identities
      <3>7. Progress'
        <4>1. \A e \in Files(dir') \cup Files(de') : e.id = saves' => e.at = at
          BY <3>1, <3>4, <3>5 DEF AllFiles
        <4>2. 1..(job'.i - 1) = {}
          BY <3>1
        <4> QED BY <3>4, <4>1, <4>2 DEF Progress
      <3>8. OthersWhole'
        BY <2>0, <3>2, <3>3, <3>4, <3>5 DEF OthersWhole, Volume, Whole, Linked, Stored
      <3> QED BY <3>6, <3>7, <3>8 DEF Volume
    <2>2. CASE SaveFrame /\ SaveFails
      BY <2>0, <2>2, VolumeQuiet DEF SaveFrame, SaveFails, AllFiles
    <2>3. CASE LoadPanics
      BY <2>0, <2>3, VolumeQuiet DEF LoadPanics, disk, memory, history, AllFiles
    <2> QED BY <1>2, <2>1, <2>2, <2>3, SaveCalls
  <1>3. CASE SaveCluster
    BY <1>3, VolumeCluster
  <1>4. CASE fs_save_rootdir
    <2>1. /\ Files(diskDir') \subseteq Files(diskDir) \cup Files(dir)
          /\ UNCHANGED <<data, fat, dir, de, saves, lost>>
          /\ job.op = "dir" /\ job'.op \in {"dir", "idle"}
      BY <1>4, RootdirEffect DEF Disk
    <2> QED BY <2>1, VolumeQuiet DEF AllFiles
  <1>5. CASE SaveFatCache
    <2>1. job.op = "idle" /\ job'.op \in {"idle", "fat"}
      BY <1>5 DEF SaveFatCache, Ready, Idle
    <2> QED BY <1>5, <2>1, VolumeQuiet DEF SaveFatCache, disk, memory, history, AllFiles
  <1>6. CASE do_reboot
    <2>1. job.op = "idle" /\ job'.op = "fat"
      BY <1>6 DEF do_reboot, Ready, Idle
    <2> QED BY <1>6, <2>1, VolumeQuiet DEF do_reboot, disk, memory, history, AllFiles
  <1>7. CASE fs_save_fat
    <2>1. job \in [op : {"fat"}, i : Nat, reboot : BOOLEAN] /\ UNCHANGED <<diskDir, data, saves, lost>>
      BY <1>7, SectorEffect
    <2>2. CASE job.i + FatPerSector <= LastCluster
      BY <1>7, <2>1, <2>2, SectorEffect, VolumeQuiet DEF AllFiles
    <2>3. CASE ~(job.i + FatPerSector <= LastCluster)
      <3>1. job' = Idle /\ (Boot \/ UNCHANGED <<fat, dir, de>>)
        BY <1>7, <2>3, SectorEffect
      <3>2. diskFat' = fat
        BY <1>7, <2>3, WholeTable
      <3>3. fat' = fat /\ AllFiles' \subseteq AllFiles
        BY <2>1, <3>1, <3>2, EmptyDirectory, FatAssumption DEF Boot, AllFiles
      <3> QED BY <2>1, <3>1, <3>3, VolumeQuiet DEF Idle
    <2> QED BY <2>2, <2>3
  <1>8. CASE PowerLoss
    <2>1. /\ UNCHANGED <<diskFat, diskDir, data, saves>> /\ Boot
          /\ ~lost' => \A e \in Files(diskDir) : Whole(diskFat, e)
      BY <1>8 DEF PowerLoss, disk
    <2>2. job'.op = "idle" /\ fat' = diskFat /\ AllFiles' = Files(diskDir)
      BY <2>1, EmptyDirectory, FatAssumption DEF Boot, Idle, AllFiles
    <2> QED BY <2>1, <2>2 DEF Volume, Identities, Progress, OthersWhole, AllFiles, Whole, Linked, Stored
  <1> QED BY <1>1, <1>2, <1>3, <1>4, <1>5, <1>6, <1>7, <1>8 DEF Next

\* While no power loss has cost a file its clusters, what open() finds in either directory
\* is whole, on volumes of any size: fsSaveFile() gives no cluster to two files.
THEOREM FilesAlwaysWhole == Spec => []FilesWhole
  <1>1. Init => Typed /\ Tables /\ Disk /\ Volume
    BY FatTypeInit, TablesInit, DiskInit, VolumeInit
  <1>2. Typed /\ Tables /\ Disk /\ Volume /\ [Next]_vars => (Typed /\ Tables /\ Disk /\ Volume)'
    BY FatTypeStep, TablesStep, DiskStep, VolumeStep
  <1>3. Typed /\ Volume => FilesWhole
    <2> SUFFICES ASSUME Typed, Volume PROVE FilesWhole
      OBVIOUS
    <2>1. saves \in Nat /\ AllFiles \subseteq File
      BY FilesAre DEF Typed, TypeOK, AllFiles
    <2>2. \A e \in AllFiles : e.id \in Nat
      BY <2>1, FatAssumption DEF File
    <2>3. job.op = "clusters" => \A e \in Files(diskDir) : e.id # saves
      BY <2>1, <2>2 DEF Volume, Identities, AllFiles
    <2> QED BY <2>3 DEF FilesWhole, Volume, OthersWhole, AllFiles
  <1> QED BY <1>1, <1>2, <1>3, PTL DEF Spec
=============================================================================
