------------------------------- MODULE FatVfs -------------------------------
(***************************************************************************)
(* File calls on a FAT32 volume: the page cache of fs/vfs/vfs.c on top of  *)
(* the driver fs/fat/fat32.c.  One process calls at a time.  A step writes *)
(* one table entry, directory cluster or data cluster.  Power can fail     *)
(* between any two, and every operation of the disk and every allocation   *)
(* of a buffer can fail, with the consequences the code gives it: the      *)
(* result is tested, or it is ignored.                                     *)
(*                                                                         *)
(* The driver makes a node of its own for every open file (fat32_finddir), *)
(* with the file's size and cached pages: the model has one open file at a *)
(* time.  Writes never leave a gap behind the end of a file.               *)
(***************************************************************************)
EXTENDS FatDisk

CONSTANTS
    Calls,      \* the calls the process makes
    Sectors,    \* sectors in a cluster (sectors_per_cluster)
    MaxSize,    \* bound on a file's size
    MaxCrash,   \* bound on power failures
    MaxFail     \* bound on operations that fail

\* A call names a directory of the root, or the root itself ("/"), and a name
\* in it; rename also where to.  A file call has an offset and a length.
CallNames == {"open", "creat", "mkdir", "unlink", "rmdir", "rename",
              "write", "read", "flush", "close"}
Labels == {"idle", "alloc", "dots", "add", "find", "link", "zero", "free", "remove",
           "write", "chain", "data", "flush", "size", "read", "return", "wild"}
ASSUME CallAssumption == \A c \in Calls : c.op \in CallNames
ASSUME BoundAssumption == MaxSize \in Nat /\ MaxCrash \in Nat /\ MaxFail \in Nat
ASSUME SectorAssumption == Sectors \in Nat \ {0} /\ Slots % Sectors = 0

VARIABLES
    node,       \* the open file: name, directory, first cluster, size, cached pages
    pc, cur,    \* the running call: its next step and its local variables
    want,       \* want[c]: what the file that begins at cluster c was given to hold
    leaked,     \* clusters a failed create or mkdir gave up
    torn,       \* has a change been left half done?
    crashes,    \* power failures so far
    faults      \* operations that failed so far

vars == <<fat, slots, bytes, node, pc, cur, want, leaked, torn, crashes, faults>>
ghosts == <<want, leaked, torn>>

Page == 0 .. (MaxSize - 1) \div Cells
NoPage == [size |-> 0, dirty |-> FALSE, buf |-> <<>>]
NoNode == [name |-> "", dir |-> 0, inode |-> 0, size |-> 0, wrote |-> FALSE,
           pages |-> [b \in Page |-> NoPage]]
Cached(b) == node.pages[b] # NoPage
\* Nobody knows what the file holds: it was open for writing when power failed,
\* or a write to it was cut short and what the cache had of it is gone.
Unknown == <<-1>>
Forget == [want EXCEPT ![node.inode] = Unknown]

NoCall == [op |-> "none", dir |-> 0, name |-> "", to |-> 0, as |-> "", isdir |-> FALSE,
           first |-> 0, size |-> 0, new |-> 0, at |-> 0, hop |-> 0,
           off |-> 0, buf |-> <<>>, done |-> 0, err |-> FALSE, seen |-> {},  \* the user's request
           doff |-> 0, dbuf |-> <<>>, dput |-> 0,                            \* the driver's
           back |-> "idle"]

\* A volume that was formatted and given one file, the kernel; nothing is open.
Init ==
    /\ fat = [c \in 2 .. Table |-> IF c \in {Root, 3} THEN Eof ELSE Free]
    /\ slots = [c \in 2 .. Table |-> IF c = Root
                    THEN [Blank EXCEPT ![1] = Slot("lfn"), ![2] = Sfn("kernel", FALSE, 3, 1)]
                    ELSE OldData]
    /\ bytes = [c \in 2 .. Table |-> IF c = 3 THEN [JunkCells EXCEPT ![0] = 1] ELSE JunkCells]
    /\ node = NoNode /\ pc = "idle" /\ cur = NoCall
    /\ want = [c \in 2 .. Table |-> IF c = 3 THEN <<1>> ELSE <<>>]
    /\ leaked = {} /\ torn = FALSE /\ crashes = 0 /\ faults = 0

-----------------------------------------------------------------------------
(* Disk operations.  Each succeeds or (ok = FALSE) fails.                  *)

Io(ok) == (ok \/ faults < MaxFail) /\ faults' = IF ok THEN faults ELSE faults + 1
NoIo == UNCHANGED faults

\* fat32_set_cluster.  What a cluster holds when it is given back counts as
\* old data from then on.
SetCluster(c, v) ==
    /\ fat' = [fat EXCEPT ![c] = v]
    /\ IF v = Free THEN slots' = [slots EXCEPT ![c] = OldData] /\ bytes' = [bytes EXCEPT ![c] = JunkCells]
       ELSE UNCHANGED <<slots, bytes>>

\* write_blocks of directory cluster c, of which k sectors reach the disk: all, or
\* it fails.  A power failure in the middle leaves on the disk what such a failure
\* followed by a power failure leaves.
Reached(i, k) == i <= k * (Slots \div Sectors)
WriteDir(c, s, k) ==
    /\ Io(k = Sectors)
    /\ slots' = [slots EXCEPT ![c] = [i \in 1 .. Slots |-> IF Reached(i, k) THEN s[i] ELSE @[i]]]
    /\ bytes' = [bytes EXCEPT ![c] = JunkCells] /\ UNCHANGED fat
WriteData(c, b) ==
    bytes' = [bytes EXCEPT ![c] = b] /\ slots' = [slots EXCEPT ![c] = OldData] /\ UNCHANGED fat
NoWrite == UNCHANGED disk

Goto(l, r) == pc' = l /\ cur' = r
Finish == Goto("idle", NoCall)

\* vfs_path_to_node for a path with at most one directory in it.
IsDir(d) == d = "/" \/ (Exists(Root, d) /\ FindDir(Root, d).dir)
DirOf(d) == IF d = "/" THEN Root ELSE FindDir(Root, d).first

-----------------------------------------------------------------------------
(* Names: open, creat, mkdir, unlink, rmdir, rename.                       *)

\* A new node for the entry (fat32_readdir, vfs_open, fat32_open).
NodeOf(d, e) == [NoNode EXCEPT !.name = e.name, !.dir = d, !.inode = e.first, !.size = e.size]

\* vfs_open finds the file, or has the driver create it.
Open(c) ==
    /\ pc = "idle" /\ c.op \in {"open", "creat"} /\ node = NoNode /\ IsDir(c.dir)
    /\ IF Exists(DirOf(c.dir), c.name)
       THEN /\ ~FindDir(DirOf(c.dir), c.name).dir
            /\ node' = NodeOf(DirOf(c.dir), FindDir(DirOf(c.dir), c.name))
            /\ UNCHANGED <<pc, cur>>
       ELSE /\ c.op = "creat"
            /\ Goto("alloc", [NoCall EXCEPT !.op = "creat", !.dir = DirOf(c.dir), !.name = c.name])
            /\ UNCHANGED node
    /\ NoWrite /\ NoIo /\ UNCHANGED ghosts

\* fat32_mkdir, fat32_create: the search that refuses a second of the name.
Mkdir(c) ==
    /\ pc = "idle" /\ c.op = "mkdir" /\ IsDir(c.dir) /\ ~Exists(DirOf(c.dir), c.name)
    /\ Goto("alloc", [NoCall EXCEPT !.op = "mkdir", !.dir = DirOf(c.dir), !.name = c.name,
                                    !.isdir = TRUE])
    /\ NoWrite /\ NoIo /\ UNCHANGED <<node, ghosts>>

\* fat32_unlink and fat32_rmdir look the name up and free its chain.
Unlink(c) ==
    /\ pc = "idle" /\ c.op = "unlink" /\ IsDir(c.dir) /\ Exists(DirOf(c.dir), c.name)
    /\ LET e == FindDir(DirOf(c.dir), c.name)
       IN  /\ ~e.dir
           /\ Goto("free", [NoCall EXCEPT !.op = "unlink", !.dir = DirOf(c.dir), !.name = c.name,
                                          !.first = e.first, !.at = e.first])
    /\ NoWrite /\ NoIo /\ UNCHANGED <<node, ghosts>>
Rmdir(c) ==
    /\ pc = "idle" /\ c.op = "rmdir" /\ IsDir(c.dir) /\ Exists(DirOf(c.dir), c.name)
    /\ LET e == FindDir(DirOf(c.dir), c.name)
       IN  /\ e.dir /\ IsDirEmpty(e.first)
           /\ Goto("free", [NoCall EXCEPT !.op = "rmdir", !.dir = DirOf(c.dir), !.name = c.name,
                                          !.first = e.first, !.at = e.first])
    /\ NoWrite /\ NoIo /\ UNCHANGED <<node, ghosts>>

\* fat32_rename refuses a name that exists and carries the entry over.
Rename(c) ==
    /\ pc = "idle" /\ c.op = "rename" /\ IsDir(c.dir) /\ IsDir(c.to)
    /\ ~Exists(DirOf(c.to), c.as) /\ Exists(DirOf(c.dir), c.name)
    /\ LET e == FindDir(DirOf(c.dir), c.name)
       IN  Goto("add", [NoCall EXCEPT !.op = "rename", !.dir = DirOf(c.to), !.name = c.as,
                               !.to = DirOf(c.dir), !.as = c.name, !.isdir = e.dir,
                               !.first = e.first, !.size = e.size, !.at = DirOf(c.to)])
    /\ NoWrite /\ NoIo /\ UNCHANGED <<node, ghosts>>

\* fat32_allocate_cluster: the first free entry of the table becomes Eof.
Allocate ==
    /\ pc = "alloc"
    /\ \/ /\ FirstFree # NoCluster /\ NoIo
          /\ SetCluster(FirstFree, Eof)
          /\ want' = [want EXCEPT ![FirstFree] = <<>>]
          /\ Goto(IF cur.isdir THEN "dots" ELSE "add", [cur EXCEPT !.first = FirstFree, !.at = cur.dir])
       \/ /\ Io(FirstFree = NoCluster) /\ Finish /\ NoWrite /\ UNCHANGED want
    /\ UNCHANGED <<node, leaked, torn>>

\* fat32_mkdir writes the "." and ".." entries and blanks the rest.
WriteDots ==
    /\ pc = "dots"
    /\ \E k \in 0 .. Sectors :
          WriteDir(cur.first, DotEntries, k) /\ IF k = Sectors THEN Goto("add", cur) ELSE Finish
    /\ UNCHANGED <<node, ghosts>>

\* fat32_add_entry, from cluster cur.at of the directory on: the entry goes into
\* the first cluster with room for it; then vfs_open looks the new file up and
\* opens it, and rename removes the old entry.  A failing write ends the call,
\* even if it is the other sectors that are not written.
AddEntry ==
    /\ pc = "add" /\ WithRoom(cur.at, Entries[cur.name]) # {}
    /\ LET c == Chain(cur.at)[Min(WithRoom(cur.at, Entries[cur.name]))]
           e == Min(Room(c, Entries[cur.name])) + Entries[cur.name] - 1
       IN  \E k \in 0 .. Sectors :
              /\ WriteDir(c, Written(c, cur.name, cur.isdir, cur.first, cur.size), k)
              /\ IF k < Sectors
                 THEN Finish /\ torn' = (torn \/ (cur.op = "rename" /\ Reached(e, k)))
                 ELSE /\ CASE cur.op = "rename" -> Goto("remove", [cur EXCEPT !.dir = cur.to, !.name = cur.as])
                           [] cur.op = "creat" -> Goto("find", cur)
                           [] cur.op = "mkdir" -> Finish
                      /\ UNCHANGED torn
    /\ UNCHANGED <<node, want, leaked>>
FindNew ==
    /\ pc = "find"
    /\ \E ok \in BOOLEAN :
          /\ Io(ok)
          /\ node' = IF ok /\ Exists(cur.dir, cur.name) /\ node = NoNode
                     THEN NodeOf(cur.dir, FindDir(cur.dir, cur.name)) ELSE node
    /\ Finish /\ NoWrite /\ UNCHANGED ghosts

\* No room as far as cluster c: the directory gets another cluster, which is linked
\* and then blanked.  c is the last one, or what fat32_get_next_cluster says of it
\* when it fails is taken for the end.  If there is no cluster the entry is given
\* up, and with it the cluster that was to be the new file or directory.
Grow ==
    /\ pc = "add"
    /\ LET ch == Chain(cur.at)
           full == {i \in DOMAIN ch : \A j \in 1 .. i : Room(ch[j], Entries[cur.name]) = {}}
       IN  \E i \in full :
              LET last == fat[ch[i]] \notin 2 .. Table
              IN  \/ /\ FirstFree # NoCluster /\ Io(last)
                     /\ IF last /\ fat[ch[i]] # Eof THEN NoWrite /\ Goto("wild", cur)
                        ELSE /\ SetCluster(FirstFree, Eof)
                             /\ Goto("link", [cur EXCEPT !.at = ch[i], !.new = FirstFree])
                     /\ UNCHANGED leaked
                  \/ /\ last /\ Io(FirstFree = NoCluster) /\ Finish /\ NoWrite
                     /\ leaked' = IF cur.op = "rename" THEN leaked ELSE leaked \cup {cur.first}
    /\ UNCHANGED <<node, want, torn>>
\* The result of linking is not looked at: the new cluster is used all the same.
LinkDirectory ==
    /\ pc = "link"
    /\ \E ok \in BOOLEAN : Io(ok) /\ IF ok THEN SetCluster(cur.at, cur.new) ELSE NoWrite
    /\ Goto("zero", [cur EXCEPT !.at = cur.new]) /\ UNCHANGED <<node, ghosts>>
\* Nor is the result of blanking it.
BlankDirectory ==
    /\ pc = "zero"
    /\ \E k \in 0 .. Sectors : WriteDir(cur.new, Blank, k) /\ torn' = (torn \/ k < Sectors)
    /\ Goto("add", cur) /\ UNCHANGED <<node, want, leaked>>

\* Mutant of FreeChain: only the first cluster is given back.
FreeFirst ==
    /\ pc = "free"
    /\ SetCluster(cur.at, Free) /\ NoIo
    /\ want' = [want EXCEPT ![cur.first] = <<>>]
    /\ torn' = (torn \/ node.inode = cur.first)
    /\ Goto("remove", cur)
    /\ UNCHANGED <<node, leaked>>

\* fat32_free_cluster_chain: one table entry after the other, from the front.  A
\* cluster that cannot be given back is passed over; the loop ends where the next
\* one cannot be read.
FreeChain ==
    /\ pc = "free"
    /\ LET next == fat[cur.at]
           on == IF next \in 2 .. Table THEN Goto("free", [cur EXCEPT !.at = next]) ELSE Goto("remove", cur)
       IN  \/ SetCluster(cur.at, Free) /\ NoIo /\ on
           \/ NoWrite /\ Io(FALSE) /\ on
           \/ SetCluster(cur.at, Free) /\ Io(FALSE) /\ Goto("remove", cur)
    /\ want' = [want EXCEPT ![cur.first] = <<>>]
    /\ torn' = (torn \/ node.inode = cur.first)
    /\ UNCHANGED <<node, leaked>>

\* fat32_invalidate_entries.  The entry it finds by the short name may be another
\* file's, and nobody looks at its result.
Invalidate ==
    /\ pc = "remove"
    /\ LET S == ForRemoval(cur.dir, cur.name)
           p == FirstOf(cur.dir, S)
       IN  \/ \E k \in 0 .. Sectors :
                 /\ S # {} /\ WriteDir(p[1], Erased(p), k)
                 /\ torn' = (torn \/ ~Reached(p[2], k) \/ SlotAt(p).first # cur.first)
           \/ S = {} /\ NoWrite /\ NoIo /\ torn' = TRUE
    /\ Finish /\ UNCHANGED <<node, want, leaked>>

-----------------------------------------------------------------------------
(* The open file: write, read, flush, close.                               *)

Least(a, b) == IF a <= b THEN a ELSE b
Most(a, b) == IF a <= b THEN b ELSE a

\* vfs_get_or_create_page: the cached page, or a new one, filled from the file
\* as far as the file goes.
PageFor(b, read) ==
    IF Cached(b) THEN node.pages[b]
    ELSE LET n == IF read THEN Most(0, Least(Cells, node.size - b * Cells)) ELSE 0
             r == ReadCells(node.inode, b * Cells, n)
         IN  [size |-> n, dirty |-> FALSE,
              buf |-> [i \in 0 .. Cells - 1 |-> IF i < Len(r) THEN r[i + 1] ELSE Junk]]
\* vfs_invalidate_cache_page, for a range of pages.
Without(B) == [b \in Page |-> IF b \in B THEN NoPage ELSE node.pages[b]]

\* The bytes a program writes differ from the ones that are there.
Fresh(o, n) ==
    LET w == want[node.inode]
    IN  [i \in 1 .. n |-> IF o + i <= Len(w) /\ w[o + i] = 1 THEN 2 ELSE 1]
Overlay(w, o, b) ==
    IF w = Unknown THEN Unknown
    ELSE [i \in 1 .. Most(Len(w), o + Len(b)) |->
            IF i > o /\ i <= o + Len(b) THEN b[i - o] ELSE w[i]]

\* Where the request has got to, what is left of it, and how much of that is
\* whole pages, which bypass the cache.
Pos == cur.off + cur.done
Left == cur.size - cur.done
Whole == IF Pos % Cells = 0 THEN Left \div Cells ELSE 0
WholePages == (Pos \div Cells) .. (Pos \div Cells) + Whole - 1

\* vfs_write.
Write(c) ==
    /\ pc = "idle" /\ c.op = "write" /\ node # NoNode
    /\ c.off <= node.size /\ c.off + c.len <= MaxSize
    /\ node' = [node EXCEPT !.wrote = TRUE]
    /\ Goto("write", [NoCall EXCEPT !.op = "write", !.off = c.off, !.size = c.len,
                                    !.first = node.size, !.buf = Fresh(c.off, c.len)])
    /\ NoWrite /\ NoIo /\ UNCHANGED ghosts
\* The call returns what it has written: everything, or (there is no memory for a
\* page) what came before.
WriteDone ==
    /\ pc = "write" /\ Whole = 0 /\ Io(Left = 0)
    /\ want' = [want EXCEPT ![node.inode] = Overlay(@, cur.off, SubSeq(cur.buf, 1, cur.done))]
    /\ Finish /\ NoWrite /\ UNCHANGED <<node, leaked, torn>>
\* Hand cur.dbuf to the driver.
ToDriver(back, o, b) ==
    Goto("data", [cur EXCEPT !.doff = o, !.dbuf = b, !.dput = 0, !.back = back, !.at = node.inode, !.hop = 0])
\* Whole pages are dropped from the cache, changed or not, and go to the driver.
WriteDirect ==
    /\ pc = "write" /\ Whole > 0
    /\ node' = [node EXCEPT !.pages = Without(WholePages)]
    /\ ToDriver("write", Pos, SubSeq(cur.buf, cur.done + 1, cur.done + Whole * Cells))
    /\ NoWrite /\ NoIo /\ UNCHANGED ghosts
\* A part of a page stays in the cache; cur.first is the file's size when the
\* call began, behind which there is nothing to read.
WriteCached ==
    /\ pc = "write" /\ Left > 0 /\ Whole = 0
    /\ LET b == Pos \div Cells
           o == Pos % Cells
           n == Least(Cells - o, Left)
           p == PageFor(b, b * Cells < cur.first)
       IN  /\ node' = [node EXCEPT !.size = Most(@, Pos + n),
                   !.pages[b] = [size |-> Most(p.size, o + n), dirty |-> TRUE,
                                 buf |-> [i \in 0 .. Cells - 1 |->
                                            IF i \in o .. o + n - 1 THEN cur.buf[cur.done + i - o + 1]
                                            ELSE p.buf[i]]]]
           /\ Goto("write", [cur EXCEPT !.done = @ + n])
    /\ NoWrite /\ NoIo /\ UNCHANGED ghosts

-----------------------------------------------------------------------------
(* fat32_write of cur.dbuf at cur.doff; cur.at is the cluster it has come  *)
(* to, the cur.hop'th behind the first.                                    *)

DPos == cur.doff + cur.dput
DLeft == Len(cur.dbuf) - cur.dput
There == cur.hop = DPos \div Cells

\* What the caller makes of the driver's result: a negative one ends vfs_write and
\* leaves the page as changed as it was in vfs_flush; vfs_read does not look at it.
\* A count may be less than what was asked, even nothing; then a write tries the
\* rest again, and a flush and a read take the page as written.
DriverReturn(res) ==
    LET b == cur.doff \div Cells
        s == IF res > 0 THEN Most(node.size, cur.doff + res) ELSE node.size
    IN  /\ CASE cur.back = "write" ->
                  /\ node' = [node EXCEPT !.size = s]
                  /\ IF res < 0 THEN Finish ELSE Goto("write", [cur EXCEPT !.done = @ + res])
             [] cur.back = "flush" ->
                  /\ node' = [node EXCEPT !.size = s, !.pages[b].dirty = res < 0]
                  /\ Goto("flush", [cur EXCEPT !.seen = @ \cup {b}])
             [] cur.back = "read" ->
                  /\ node' = [node EXCEPT !.size = s, !.pages[b] = NoPage]
                  /\ Goto("read", cur)
        /\ want' = IF res = Len(cur.dbuf) \/ (cur.back = "flush" /\ res < 0) THEN want ELSE Forget
        /\ NoWrite /\ UNCHANGED <<leaked, torn>>

DriverData ==
    /\ pc = "data" /\ DLeft > 0 /\ There /\ cur.at \in Cluster /\ NoIo
    /\ LET o == DPos % Cells
           n == Least(Cells - o, DLeft)
       IN  /\ WriteData(cur.at, [i \in 0 .. Cells - 1 |->
                   IF i \in o .. o + n - 1 THEN cur.dbuf[cur.dput + i - o + 1] ELSE bytes[cur.at][i]])
           /\ Goto("data", [cur EXCEPT !.dput = @ + n])
    /\ UNCHANGED <<node, ghosts>>
\* Everything is written; or reading or writing the cluster fails, as it does
\* outside the volume; or there is no buffer, which gives a negative result.
DriverDone ==
    /\ pc = "data"
    /\ \/ DLeft = 0 /\ NoIo /\ DriverReturn(cur.dput)
       \/ DLeft > 0 /\ There /\ Io(cur.at \notin Cluster) /\ DriverReturn(cur.dput)
       \/ DLeft > 0 /\ There /\ cur.dput = 0 /\ Io(FALSE) /\ DriverReturn(-1)

DriverHop ==
    /\ pc = "data" /\ DLeft > 0 /\ ~There /\ NoIo
    /\ \/ fat[cur.at] \in 2 .. Table /\ Goto("data", [cur EXCEPT !.at = fat[cur.at], !.hop = @ + 1])
       \/ fat[cur.at] = Free /\ Goto("wild", cur)
    /\ NoWrite /\ UNCHANGED <<node, ghosts>>
\* Mutant of DriverExtend: the new cluster is linked without being claimed.
ExtendUnmarked ==
    /\ pc = "data" /\ DLeft > 0 /\ ~There /\ fat[cur.at] = Eof /\ FirstFree # NoCluster /\ NoIo
    /\ NoWrite /\ Goto("chain", [cur EXCEPT !.new = FirstFree])
    /\ UNCHANGED <<node, ghosts>>

\* The chain is too short, or fat32_get_next_cluster fails and is taken to say so:
\* another cluster is claimed, then linked.
DriverExtend ==
    /\ pc = "data" /\ DLeft > 0 /\ ~There /\ fat[cur.at] # Free
    /\ \/ /\ FirstFree # NoCluster /\ Io(fat[cur.at] = Eof)
          /\ SetCluster(FirstFree, Eof) /\ Goto("chain", [cur EXCEPT !.new = FirstFree])
          /\ want' = IF fat[cur.at] = Eof THEN want ELSE Forget
          /\ UNCHANGED <<node, leaked, torn>>
       \/ fat[cur.at] = Eof /\ Io(FirstFree = NoCluster) /\ DriverReturn(cur.dput)
\* The result of linking is not looked at: what follows goes to the new cluster.
DriverLink ==
    /\ pc = "chain"
    /\ \E ok \in BOOLEAN :
          /\ Io(ok)
          /\ IF ok THEN SetCluster(cur.at, cur.new) /\ UNCHANGED want ELSE NoWrite /\ want' = Forget
    /\ Goto("data", [cur EXCEPT !.at = cur.new, !.hop = @ + 1]) /\ UNCHANGED <<node, leaked, torn>>

-----------------------------------------------------------------------------

\* vfs_flush and vfs_close: every changed page goes to the driver; close then
\* has the driver store the size and drops the node with its pages.
Flush(c) ==
    /\ pc = "idle" /\ c.op \in {"flush", "close"} /\ node # NoNode
    /\ Goto("flush", [NoCall EXCEPT !.op = c.op]) /\ NoWrite /\ NoIo /\ UNCHANGED <<node, ghosts>>
FlushPage ==
    /\ pc = "flush"
    /\ \E b \in Page \ cur.seen :
          /\ node.pages[b].dirty
          /\ ToDriver("flush", b * Cells, [i \in 1 .. node.pages[b].size |-> node.pages[b].buf[i - 1]])
    /\ NoWrite /\ NoIo /\ UNCHANGED <<node, ghosts>>
\* The pages have all been tried; vfs_close goes on whatever came of it.
FlushDone ==
    /\ pc = "flush" /\ \A b \in Page \ cur.seen : ~node.pages[b].dirty
    /\ IF cur.op = "flush" THEN Finish ELSE Goto("size", cur)
    /\ NoWrite /\ NoIo /\ UNCHANGED <<node, ghosts>>
\* fat32_close, fat32_update_entry_size, which finds the entry by its short name
\* and whose result nobody looks at; then vfs_close drops the pages, also those
\* vfs_flush could not write.
UpdateSize ==
    /\ pc = "size"
    /\ LET S == ForSize(node.dir, node.name)
           p == FirstOf(node.dir, S)
       IN  \/ \E k \in 0 .. Sectors : S # {} /\ WriteDir(p[1], [slots[p[1]] EXCEPT ![p[2]].size = node.size], k)
           \/ S = {} /\ NoWrite /\ NoIo
    /\ want' = IF \E b \in Page : node.pages[b].dirty THEN Forget ELSE want
    /\ node' = NoNode /\ Finish /\ UNCHANGED <<leaked, torn>>

\* vfs_read; cur.buf collects what the program gets.
Read(c) ==
    /\ pc = "idle" /\ c.op = "read" /\ node # NoNode /\ c.off < node.size
    /\ Goto("read", [NoCall EXCEPT !.op = "read", !.off = c.off,
                                   !.size = Least(c.len, node.size - c.off)])
    /\ NoWrite /\ NoIo /\ UNCHANGED <<node, ghosts>>
Got(r) == [cur EXCEPT !.buf = @ \o r, !.done = @ + Len(r)]

\* Whole pages are read past the cache, after changed ones are written back.
ReadWriteBack ==
    /\ pc = "read" /\ Whole > 0
    /\ LET D == {b \in WholePages : node.pages[b].dirty}
       IN  D # {} /\ ToDriver("read", Min(D) * Cells, [i \in 1 .. Cells |-> node.pages[Min(D)].buf[i - 1]])
    /\ NoWrite /\ NoIo /\ UNCHANGED <<node, ghosts>>
ReadDirect ==
    /\ pc = "read" /\ Whole > 0 /\ \A b \in WholePages : ~node.pages[b].dirty
    /\ node' = [node EXCEPT !.pages = Without(WholePages)]
    /\ Goto("read", Got(ReadCells(node.inode, Pos, Whole * Cells)))
    /\ NoWrite /\ NoIo /\ UNCHANGED ghosts
ReadCached ==
    /\ pc = "read" /\ Left > 0 /\ Whole = 0
    /\ LET b == Pos \div Cells
           o == Pos % Cells
           p == PageFor(b, TRUE)
           n == Least(p.size - o, Left)
       IN  /\ node' = [node EXCEPT !.pages[b] = p]
           /\ IF n <= 0 THEN Goto("return", cur)
              ELSE Goto("read", Got([i \in 1 .. n |-> p.buf[o + i - 1]]))
    /\ NoWrite /\ NoIo /\ UNCHANGED ghosts
\* Everything is read; or the driver has no buffer for a cluster or the cache no
\* page, and the call returns what it has.
ReadDone ==
    /\ pc = "read" /\ (\A b \in WholePages : ~node.pages[b].dirty) /\ Io(Left = 0)
    /\ node' = [node EXCEPT !.pages = Without(WholePages)]
    /\ Goto("return", [cur EXCEPT !.err = Left > 0]) /\ NoWrite /\ UNCHANGED ghosts
ReadReturn ==
    /\ pc = "return" /\ Finish /\ NoWrite /\ NoIo /\ UNCHANGED <<node, ghosts>>

-----------------------------------------------------------------------------
\* Power fails: what was in memory is gone.  A chain that is being given back still
\* has its entry, a file that is being moved has two, and a directory that is being
\* extended has old data in it.
Crash ==
    /\ crashes < MaxCrash /\ pc # "wild"
    /\ crashes' = crashes + 1
    /\ node' = NoNode /\ Finish
    /\ want' = IF node.wrote THEN Forget ELSE want
    /\ torn' = (torn \/ pc \in {"zero", "remove"} \/ (pc = "free" /\ cur.at # cur.first))
    /\ NoWrite /\ NoIo /\ UNCHANGED leaked

Start(c) ==
    \/ Open(c) \/ Mkdir(c) \/ Unlink(c) \/ Rmdir(c) \/ Rename(c)
    \/ Write(c) \/ Read(c) \/ Flush(c)
NameStep ==
    \/ Allocate \/ WriteDots \/ AddEntry \/ FindNew \/ Grow \/ LinkDirectory \/ BlankDirectory
    \/ FreeChain \/ Invalidate
FileStep ==
    \/ WriteDone \/ WriteDirect \/ WriteCached
    \/ DriverData \/ DriverDone \/ DriverHop \/ DriverExtend \/ DriverLink
    \/ FlushPage \/ FlushDone \/ UpdateSize
    \/ ReadWriteBack \/ ReadDirect \/ ReadCached \/ ReadDone \/ ReadReturn
Step == (NameStep \/ FileStep) /\ UNCHANGED crashes

Next ==
    \/ \E c \in Calls : Start(c) /\ UNCHANGED crashes
    \/ Step
    \/ Crash

Spec == Init /\ [][Next]_vars

-----------------------------------------------------------------------------
(* Properties.                                                             *)

\* Every variable keeps its type; a page holds no more than its cluster and a
\* stored size no more than the file ever had.
TypeOK ==
    /\ fat \in [2 .. Table -> {Free, Eof} \cup 2 .. Table]
    /\ \A c \in 2 .. Table : DOMAIN slots[c] = 1 .. Slots /\ DOMAIN bytes[c] = 0 .. Cells - 1
    /\ pc \in Labels
    /\ node.size \in 0 .. MaxSize
    /\ \A b \in Page : node.pages[b].size \in 0 .. Cells
    /\ leaked \subseteq 2 .. Table /\ torn \in BOOLEAN
    /\ crashes \in 0 .. MaxCrash /\ faults \in 0 .. MaxFail

FirstAt(p) == SlotAt(p).first
\* The entry that is being removed; rename has written the new one already.
Going(p) == pc \in {"free", "remove"} /\ FirstAt(p) = cur.first

\* The entries of the directories: the root's and those of the directories in it.
EntriesOf(d) == {p \in InDirectory(d) : SlotAt(p).k = "sfn"}
Dirs == {Root} \cup {SlotAt(p).first : p \in {q \in EntriesOf(Root) : SlotAt(q).dir /\ ~Going(q)}}
AllEntries == UNION {EntriesOf(d) : d \in Dirs}
\* No cluster belongs to two files or directories, in whatever order clusters
\* are claimed, linked and given back.
NoCrossLink ==
    LET E == AllEntries
    IN  /\ \A p, q \in E : p # q /\ ~(Going(p) /\ Going(q)) =>
              ClustersOf(FirstAt(p)) \cap ClustersOf(FirstAt(q)) = {}
        /\ \A p \in E : ClustersOf(FirstAt(p)) \cap ClustersOf(Root) = {}

\* The chain of every file and directory ends properly and stays inside the
\* volume: none leads to a cluster that was given back, where the driver would
\* read and write outside the data area; and no old data is read as entries.
ChainsWhole ==
    /\ pc # "wild"
    /\ \A p \in AllEntries : ~Going(p) =>
          ChainEnd(FirstAt(p)) = Eof /\ ClustersOf(FirstAt(p)) \subseteq Cluster
    /\ ChainEnd(Root) = Eof
    /\ pc # "zero" => \A d \in Dirs : \A p \in Listed(d) : SlotAt(p).k # "junk"

\* The volume is sound at every write, also after power has failed between two
\* writes or an operation has failed, tested or ignored, wherever that was but in
\* five cases (torn): a chain is given back while its entry is still there, a file
\* being moved has both its entries, a directory was extended by a cluster that is
\* not blank, the short name led to the entry of another file, or the file that is
\* removed is open.
VolumeSafe == TypeOK /\ (~torn => NoCrossLink /\ ChainsWhole)

\* Between calls, and as long as power has not failed and no operation has, every
\* cluster in use belongs to somebody, apart from those a failed create or mkdir
\* on a full volume gives up.
NothingLost ==
    pc = "idle" /\ ~torn /\ crashes = 0 /\ faults = 0 =>
        {c \in 2 .. Table : fat[c] # Free} =
            ClustersOf(Root) \cup leaked \cup UNION {ClustersOf(FirstAt(p)) : p \in AllEntries}

=============================================================================
