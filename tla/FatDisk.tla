------------------------------ MODULE FatDisk ------------------------------
(***************************************************************************)
(* What a FAT32 volume holds, as the driver fs/fat/fat32.c reads it: the   *)
(* allocation table, directory clusters made of entry slots, and data      *)
(* clusters.  The operators are the driver's searches; the single sector   *)
(* writes that change the volume are the steps of module FatVfs.           *)
(*                                                                         *)
(* A long name is one value, kept in the slot of its short (8.3) entry;    *)
(* the slots in front of it that spell it out are marked "lfn".  What is   *)
(* left of a cluster's old content when it is put to another use is Junk.  *)
(***************************************************************************)
EXTENDS Integers, FiniteSets, Sequences, FiniteSetsExt

CONSTANTS
    Last,       \* the volume's clusters are 2 .. Last
    Table,      \* the table has entries for 2 .. Table
    Slots,      \* directory entries in a cluster
    Cells,      \* bytes in a cluster, which is also a page of the file cache
    Name,       \* long names
    Short,      \* Short[n]: the 8.3 name fat32_to_83_name makes of n
    Entries     \* Entries[n]: slots n takes, its long-name slots and its own

ASSUME GeometryAssumption ==
    /\ Last \in Nat /\ Table \in Nat /\ 2 <= Last /\ Last <= Table
    /\ Slots \in Nat /\ Slots >= 3 /\ Cells \in Nat \ {0}
ASSUME NameAssumption ==
    DOMAIN Short = Name /\ Entries \in [Name -> 2 .. Slots]

VARIABLES
    fat,        \* the allocation table
    slots,      \* slots[c]: cluster c read as a directory
    bytes       \* bytes[c]: cluster c read as data

disk == <<fat, slots, bytes>>

Cluster == 2 .. Last
Root == 2               \* vol->root_cluster
Free == 0
Eof == -1               \* FAT32_EOF
NoCluster == -2         \* FAT32_BAD_CLUSTER as an answer

\* A directory slot: name[0] = 0x00, name[0] = 0xE5, a long-name fragment,
\* the "." and ".." entries, old data, or an entry.
Slot(k) == [k |-> k]
Sfn(n, d, f, s) == [k |-> "sfn", name |-> n, dir |-> d, first |-> f, size |-> s]
Blank == [i \in 1 .. Slots |-> Slot("end")]
OldData == [i \in 1 .. Slots |-> Slot("junk")]
\* fat32_mkdir: the content of a new directory.
DotEntries == [i \in 1 .. Slots |-> Slot(IF i <= 2 THEN "dot" ELSE "end")]

Junk == 0
JunkCells == [i \in 0 .. Cells - 1 |-> Junk]

-----------------------------------------------------------------------------
(* The allocation table.                                                   *)

\* fat32_get_next_cluster, over and over: the chain that starts at c, up to
\* the first value that is no cluster.
Chain(c) ==
    LET ch[i \in 0 .. Table] ==
            IF i = 0 THEN IF c \in 2 .. Table THEN <<c>> ELSE <<>>
            ELSE LET s == ch[i - 1]
                 IN  IF s = <<>> \/ fat[s[Len(s)]] \notin 2 .. Table THEN s
                     ELSE Append(s, fat[s[Len(s)]])
    IN  ch[Table]
ClustersOf(c) == LET ch == Chain(c) IN {ch[i] : i \in DOMAIN ch}
\* What the chain's last cluster holds: Eof, or Free if it has been given back.
LastOf(c) == LET ch == Chain(c) IN ch[Len(ch)]
ChainEnd(c) == IF c \in 2 .. Table THEN fat[LastOf(c)] ELSE c

\* fat32_allocate_cluster looks for the first free entry in all the sectors
\* up to the data, whether or not the volume has that cluster.
FreeEntries == {c \in 2 .. Table : fat[c] = Free}
FirstFree == IF FreeEntries = {} THEN NoCluster ELSE Min(FreeEntries)

-----------------------------------------------------------------------------
(* Directories.                                                            *)

InDirectory(d) == ClustersOf(d) \X (1 .. Slots)
SlotAt(p) == slots[p[1]][p[2]]
NoEnd(c, n) == \A i \in 1 .. n : slots[c][i].k # "end"

\* fat32_readdir goes through the clusters of the chain in turn and ends at
\* the first slot that was never used.
Listed(d) ==
    LET ch == Chain(d)
        K == {k \in DOMAIN ch : \A j \in 1 .. k - 1 : NoEnd(ch[j], Slots)}
    IN  UNION {{<<ch[k], i>> : i \in {j \in 1 .. Slots : NoEnd(ch[k], j)}} : k \in K}
FirstOf(d, S) ==
    LET ch == Chain(d)
        k == Min({j \in DOMAIN ch : \E p \in S : p[1] = ch[j]})
    IN  <<ch[k], Min({i \in 1 .. Slots : <<ch[k], i>> \in S})>>

\* fat32_finddir compares long names.
Found(d, n) == {p \in Listed(d) : SlotAt(p).k = "sfn" /\ SlotAt(p).name = n}
Exists(d, n) == Found(d, n) # {}
FindDir(d, n) == SlotAt(FirstOf(d, Found(d, n)))

\* fat32_update_entry_size compares the 11 bytes of the short name, up to the
\* first slot that was never used.
SameShort(p, n) == SlotAt(p).k = "sfn" /\ Short[SlotAt(p).name] = Short[n]
ForSize(d, n) == {p \in Listed(d) : SameShort(p, n)}

\* fat32_invalidate_entries does too, but goes on with the next cluster.
ForRemoval(d, n) ==
    {p \in InDirectory(d) : SameShort(p, n) /\ NoEnd(p[1], p[2])}

\* fat32_is_dir_empty: nothing but deleted and dot entries in front of the end.
IsDirEmpty(d) == \A p \in Listed(d) : SlotAt(p).k \in {"del", "dot"}

\* fat32_add_entry: where n free slots in a row begin in cluster c.
Room(c, n) ==
    {i \in 1 .. Slots - n + 1 : \A j \in i .. i + n - 1 : slots[c][j].k \in {"end", "del"}}
WithRoom(d, n) == LET ch == Chain(d) IN {i \in DOMAIN ch : Room(ch[i], n) # {}}
Written(c, n, isdir, first, size) ==
    LET i == Min(Room(c, Entries[n]))
        e == i + Entries[n] - 1
    IN  [j \in 1 .. Slots |-> IF j \in i .. e - 1 THEN Slot("lfn")
                              ELSE IF j = e THEN Sfn(n, isdir, first, size) ELSE slots[c][j]]

\* fat32_invalidate_entries: the entry and the fragments in front of it.
Erased(p) ==
    [j \in 1 .. Slots |->
        IF j = p[2] \/ (j < p[2] /\ \A l \in j .. p[2] - 1 : slots[p[1]][l].k = "lfn")
        THEN Slot("del") ELSE slots[p[1]][j]]

-----------------------------------------------------------------------------
(* Files.                                                                  *)

\* fat32_read: n bytes at offset o of the chain that starts at c; where the
\* chain ends, or the volume, the read ends too.
ReadCells(c, o, n) ==
    LET ch == Chain(c)
        m == Cardinality({i \in 0 .. n - 1 :
                 \A j \in 0 .. i : /\ (o + j) \div Cells < Len(ch)
                                   /\ ch[((o + j) \div Cells) + 1] \in Cluster})
    IN  [i \in 1 .. m |-> bytes[ch[((o + i - 1) \div Cells) + 1]][(o + i - 1) % Cells]]
=============================================================================
