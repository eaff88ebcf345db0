-------------------------------- MODULE Files --------------------------------
(***************************************************************************)
(* The file system calls (x86/syscall.rs) over the virtual file system     *)
(* (kernel/src/vfs): mounts, tmpfs, devfs, inodes, open files, and the     *)
(* handle table of each process.  System calls run with interrupts enabled *)
(* (`sti' in syscall_entry), so the timer may switch processes wherever a  *)
(* call holds neither TABLE nor SCHEDULER; a call is cut into steps where  *)
(* another process can change what it read.                                *)
(***************************************************************************)
EXTENDS Integers, Sequences, FiniteSets, FiniteSetsExt, SequencesExt

CONSTANTS
  Procs,          \* user processes
  MaxHandles,     \* MAX_HANDLES: slots of a handle table
  MaxOpenFiles,   \* MAX_OPEN_FILES: entry 0 is never used
  Archive,        \* the initramfs: sequence of [name, is_directory, data]
  Paths,          \* paths the processes present, as sequences of components
  FlagSets,       \* open flags the processes present
  Writes,         \* contents the processes write
  ReadLens,       \* sizes of read buffers
  DirentRooms,    \* directory entries a getdents buffer holds
  SocketIds,      \* what the socket table gives out
  MaxSize,        \* bound: length of a file, offset of an open file
  MaxCalls        \* bound: system calls and restarts

(* MAX_HANDLES and MAX_OPEN_FILES are 256 and 4096; contents are bytes.     *)
ASSUME FilesAssumption ==
  /\ MaxHandles \in Nat /\ MaxHandles >= 3 /\ MaxOpenFiles \in Nat
  /\ Archive \in Seq([name: Seq(STRING), is_directory: BOOLEAN, data: Seq(Nat)])
  /\ Writes \subseteq Seq(Nat) /\ ReadLens \subseteq Nat /\ DirentRooms \subseteq Nat

VARIABLES
  up,         \* the kernel has not panicked
  life,       \* process -> "new", "live" or "exited"
  handles,    \* process -> slot -> [value, active, generation]
  openfiles,  \* number -> [inode_id, offset, flags, active]
  files,      \* TMPFS.files: inode -> contents
  isize,      \* INODES: inode -> size
  syscall,    \* process -> the system call it is in
  calls,      \* system calls and restarts so far
  socks,      \* sockets given out
  lost,       \* history: open files whose handle table was cleared
  confused,   \* history: a file call resolved a socket descriptor
  raced,      \* history: inodes written by two overlapping calls
  listing     \* history: open file -> entries getdents returned

fvars == <<up, life, handles, openfiles, files, isize, syscall, calls, socks, lost, confused, raced, listing>>

Slots == 0 .. MaxHandles - 1
OpenIds == 1 .. MaxOpenFiles - 1
-----------------------------------------------------------------------------
(* Boot: vfs::init and load_initramfs.  Inodes are never released. *)

Root == 1
DevDir == 2
Null == 3
Zero == 4
Random == 5
Serial == 0          \* SERIAL_INODE_ID, no inode of the table
NotFound == -1
TmpfsId == 1
DevfsId == 2

(* load_initramfs skips nameless entries; the rest take the next inodes. *)
Loaded ==
  LET kept[n \in 0 .. Len(Archive)] ==
        IF n = 0 THEN << >>
        ELSE IF Archive[n].name = << >> THEN kept[n - 1] ELSE Append(kept[n - 1], Archive[n])
  IN  kept[Len(Archive)]
InodeOf(i) == Random + i
Inodes == 1 .. Random + Len(Loaded)

InodeType(i) ==
  CASE i \in {Root, DevDir} -> "Directory"
    [] i \in {Null, Zero, Random} -> "CharDevice"
    [] OTHER -> IF Loaded[i - Random].is_directory THEN "Directory" ELSE "File"

(* The directory made for /dev keeps the fs_id 0 it was allocated with. *)
FsId(i) == CASE i = DevDir -> 0
             [] i \in {Null, Zero, Random} -> DevfsId
             [] OTHER -> TmpfsId

(* TMPFS.dirs.  Every entry of the archive is put into the root, under its *)
(* whole name; the directories of the archive stay empty, and /dev has no  *)
(* list of its own.                                                        *)
TmpfsDirs == {Root} \cup {InodeOf(i) : i \in {j \in DOMAIN Loaded : Loaded[j].is_directory}}
DirEntries(dir) ==
  IF dir # Root THEN << >>
  ELSE <<[name |-> <<"dev">>, inode_id |-> DevDir]>>
         \o [i \in DOMAIN Loaded |-> [name |-> Loaded[i].name, inode_id |-> InodeOf(i)]]

FileInodes == {i \in Inodes : InodeType(i) = "File"}
BootData(i) == Loaded[i - Random].data

(* Tmpfs::lookup compares one component with whole names. *)
Lookup(dir, component) ==
  IF dir \notin TmpfsDirs THEN NotFound
  ELSE LET hits == {k \in DOMAIN DirEntries(dir) : DirEntries(dir)[k].name = <<component>>}
       IN  IF hits = {} THEN NotFound ELSE DirEntries(dir)[Min(hits)].inode_id

DevLookup(remaining) ==
  CASE remaining = <<"null">> -> Null
    [] remaining = <<"zero">> -> Zero
    [] remaining = <<"random">> -> Random
    [] OTHER -> NotFound

(* MountTable::resolve: the longest mount that ends at a component.  A path *)
(* that begins with // stays in the root mount.                             *)
MountOf(path) == IF path[1] = "dev" THEN "Devfs" ELSE "Tmpfs"
Remaining(path) == IF MountOf(path) = "Devfs" THEN Tail(path) ELSE path

(* resolve copies what remains into a buffer of MAX_MOUNT_PATH bytes and    *)
(* panics if it does not fit; "long" stands for such a component.           *)
Overflows(path) == "long" \in Range(Remaining(path))

(* resolve_path: tmpfs skips empty components, devfs is flat. *)
ResolvePath(path) ==
  LET remaining == Remaining(path)
      walk[n \in 0 .. Len(remaining)] ==
        IF n = 0 THEN Root
        ELSE IF remaining[n] = "" \/ walk[n - 1] = NotFound THEN walk[n - 1]
        ELSE Lookup(walk[n - 1], remaining[n])
  IN  CASE MountOf(path) = "Devfs" /\ remaining \in {<< >>, <<"">>} -> DevDir
        [] MountOf(path) = "Devfs" -> DevLookup(remaining)
        [] OTHER -> walk[Len(remaining)]
-----------------------------------------------------------------------------
(* Tables *)

NoHandle == [value |-> [sock |-> FALSE, id |-> 0], active |-> FALSE, generation |-> 0]
NoFile == [inode_id |-> 0, offset |-> 0, flags |-> {}, active |-> FALSE]
Idle == [op |-> "none"]

FreeOpen(of) == {i \in OpenIds : ~of[i].active}
OpenEntry(inode_id, flags) == [inode_id |-> inode_id, offset |-> 0, flags |-> flags, active |-> TRUE]

FreeSlots(p) == {s \in Slots : ~handles[p][s].active}

(* HandleTable::alloc into the first slot that is not active; the           *)
(* generation the slot has is kept.                                         *)
GiveHandle(table, value) ==
  LET slot == Min({s \in Slots : ~table[s].active})
  IN  [table EXCEPT ![slot].value = value, ![slot].active = TRUE]

FileValue(id) == [sock |-> FALSE, id |-> id]

(* resolve_fd presents generation 0, whatever generation the slot has, and  *)
(* keeps the low 32 bits of the value: the socket flag is dropped.          *)
Resolves(p, fd) == handles[p][fd].active /\ handles[p][fd].generation = 0
FdTarget(p, fd) == handles[p][fd].value.id

(* A process enters the kernel.  Bound: a run is followed up to the calls   *)
(* under way when the first one is confused.                                *)
Enter(p) ==
  /\ up /\ life[p] = "live" /\ syscall[p] = Idle /\ ~confused
  /\ calls < MaxCalls /\ calls' = calls + 1

(* What the file calls share: the descriptor is resolved, and a socket      *)
(* descriptor is remembered as a confusion.                                 *)
FileCall(p, fd) ==
  /\ Enter(p)
  /\ Resolves(p, fd)
  /\ confused' = (confused \/ handles[p][fd].value.sock)
-----------------------------------------------------------------------------
FilesInit ==
  /\ up = TRUE
  /\ life = [p \in Procs |-> "new"]
  /\ handles = [p \in Procs |-> [s \in Slots |-> NoHandle]]
  /\ openfiles = [i \in OpenIds |-> NoFile]
  /\ files = [i \in FileInodes |-> BootData(i)]
  /\ isize = [i \in Inodes |-> IF i \in FileInodes THEN Len(BootData(i)) ELSE 0]
  /\ syscall = [p \in Procs |-> Idle]
  /\ calls = 0
  /\ socks = {}
  /\ lost = {} /\ confused = FALSE /\ raced = {}
  /\ listing = [i \in OpenIds |-> << >>]

Panic ==
  /\ up' = FALSE
  /\ UNCHANGED <<life, handles, openfiles, files, isize, syscall, socks, lost, confused, raced, listing>>

(* spawn_user: setup_stdio opens /dev/null and twice the serial sentinel    *)
(* and panics if the table of open files is full; the handles are given     *)
(* while the slots last.                                                    *)
SetupStdio(p) ==
  LET ids == CHOOSE s \in [1 .. 3 -> FreeOpen(openfiles)] : s[1] < s[2] /\ s[2] < s[3]
               /\ \A i \in FreeOpen(openfiles) : i <= s[3] => i \in {s[1], s[2], s[3]}
      give(table, k) == IF \E s \in Slots : ~table[s].active
                        THEN GiveHandle(table, FileValue(ids[k])) ELSE table
  IN  /\ up /\ life[p] = "new"
      /\ \/ /\ Cardinality(FreeOpen(openfiles)) < 3
            /\ Panic /\ UNCHANGED calls
         \/ /\ Cardinality(FreeOpen(openfiles)) >= 3
            /\ openfiles' = [openfiles EXCEPT ![ids[1]] = OpenEntry(Null, {"READ"}),
                                              ![ids[2]] = OpenEntry(Serial, {"WRITE"}),
                                              ![ids[3]] = OpenEntry(Serial, {"WRITE"})]
            /\ handles' = [handles EXCEPT ![p] = give(give(give(@, 1), 2), 3)]
            /\ life' = [life EXCEPT ![p] = "live"]
            /\ listing' = [listing EXCEPT ![ids[1]] = << >>, ![ids[2]] = << >>, ![ids[3]] = << >>]
            /\ UNCHANGED <<up, calls, files, isize, syscall, socks, lost, confused, raced>>

(* SYS_OPEN: the path is resolved, an open file taken, then a handle; if    *)
(* there is no handle the open file is released again.                      *)
SysOpen(p, path, flags) ==
  LET inode == ResolvePath(path)
      id == Min(FreeOpen(openfiles))
  IN  /\ Enter(p)
      /\ \/ /\ Overflows(path)
            /\ Panic
         \/ /\ ~Overflows(path)
            /\ inode # NotFound /\ FreeOpen(openfiles) # {}
            /\ \/ /\ FreeSlots(p) # {}
                  /\ openfiles' = [openfiles EXCEPT ![id] = OpenEntry(inode, flags)]
                  /\ handles' = [handles EXCEPT ![p] = GiveHandle(@, FileValue(id))]
               \/ /\ FreeSlots(p) = {}
                  /\ openfiles' = [openfiles EXCEPT ![id] = [OpenEntry(inode, flags) EXCEPT
                                                               !.active = FALSE, !.inode_id = 0]]
                  /\ UNCHANGED handles
            /\ listing' = [listing EXCEPT ![id] = << >>]
            /\ UNCHANGED <<up, life, files, isize, syscall, socks, lost, confused, raced>>

(* SYS_READ, first part: the open file and the inode are looked up. *)
ReadBegin(p, fd, len) ==
  LET id == FdTarget(p, fd)
  IN  /\ FileCall(p, fd)
      /\ id \in OpenIds /\ openfiles[id].active /\ openfiles[id].inode_id \in Inodes
      /\ syscall' = [syscall EXCEPT ![p] = [op |-> "read", id |-> id, inode |-> openfiles[id].inode_id,
                                      offset |-> openfiles[id].offset, len |-> len]]
      /\ UNCHANGED <<up, life, handles, openfiles, files, isize, socks, lost, raced, listing>>

(* Tmpfs::read and Devfs::read: how many bytes they return. *)
BytesRead(inode, offset, len) ==
  CASE inode \in FileInodes -> Min({len, Max({0, Len(files[inode]) - offset})})
    [] inode \in {Zero, Random} -> len
    [] OTHER -> 0

(* The open file moves on, if the number still names one. *)
Advance(id, n) ==
  openfiles' = IF openfiles[id].active THEN [openfiles EXCEPT ![id].offset = @ + n] ELSE openfiles

ReadFinish(p) ==
  /\ up /\ syscall[p].op = "read"
  /\ openfiles[syscall[p].id].offset + BytesRead(syscall[p].inode, syscall[p].offset, syscall[p].len) <= MaxSize
  /\ Advance(syscall[p].id, BytesRead(syscall[p].inode, syscall[p].offset, syscall[p].len))
  /\ syscall' = [syscall EXCEPT ![p] = Idle]
  /\ UNCHANGED <<up, life, calls, handles, files, isize, socks, lost, confused, raced, listing>>

(* SYS_WRITE.  Descriptors 1 and 2 and the serial sentinel go to the serial *)
(* port and change nothing here.  Otherwise the offset is read, or under    *)
(* APPEND the size, before the lock is taken again for the write.           *)
WriteBegin(p, fd, data) ==
  LET id == FdTarget(p, fd)
      file == openfiles[id]
  IN  /\ fd \notin {1, 2}
      /\ FileCall(p, fd)
      /\ id \in OpenIds /\ file.active /\ file.inode_id \in Inodes
      /\ InodeType(file.inode_id) # "Directory"
      /\ syscall' = [syscall EXCEPT ![p] =
                    [op |-> "write", id |-> id, inode |-> file.inode_id, data |-> data,
                     offset |-> IF "APPEND" \in file.flags /\ file.inode_id \in FileInodes
                                THEN Len(files[file.inode_id]) ELSE file.offset]]
      /\ UNCHANGED <<up, life, handles, openfiles, files, isize, socks, lost, raced, listing>>

(* Tmpfs::write extends the file with zeroes up to the offset. *)
Splice(old, offset, data) ==
  [i \in 1 .. Max({Len(old), offset + Len(data)}) |->
     IF i > offset /\ i <= offset + Len(data) THEN data[i - offset]
     ELSE IF i <= Len(old) THEN old[i] ELSE 0]

(* The size handed on to the inode: that of the whole file. *)
NewSizeWritten(new, data) == Len(data)
NewSize(new, data) == Len(new)

InUpdate(p, inode) == syscall[p].op = "update" /\ syscall[p].inode = inode

WriteApply(p) ==
  LET c == syscall[p]
      new == Splice(files[c.inode], c.offset, c.data)
  IN  /\ up /\ c.op = "write"
      /\ \/ /\ c.inode \in FileInodes
            /\ Len(new) <= MaxSize
            /\ files' = [files EXCEPT ![c.inode] = new]
            /\ syscall' = [syscall EXCEPT ![p] = [op |-> "update", id |-> c.id, inode |-> c.inode,
                                            written |-> Len(c.data), new_size |-> NewSize(new, c.data)]]
            /\ raced' = IF \E q \in Procs \ {p} : InUpdate(q, c.inode)
                        THEN raced \cup {c.inode} ELSE raced
         \/ /\ c.inode \notin FileInodes
            /\ syscall' = [syscall EXCEPT ![p] = [op |-> "update", id |-> c.id, inode |-> c.inode,
                                            written |-> Len(c.data), new_size |-> 0]]
            /\ UNCHANGED <<files, raced>>
      /\ UNCHANGED <<up, life, calls, handles, openfiles, isize, socks, lost, confused, listing>>

(* The size found under the lock of tmpfs is stored under that of the       *)
(* inodes, then the open file moves on.                                     *)
WriteFinish(p) ==
  LET c == syscall[p]
  IN  /\ up /\ c.op = "update"
      /\ openfiles[c.id].offset + c.written <= MaxSize
      /\ isize' = IF c.inode \in FileInodes THEN [isize EXCEPT ![c.inode] = c.new_size] ELSE isize
      /\ Advance(c.id, c.written)
      /\ syscall' = [syscall EXCEPT ![p] = Idle]
      /\ UNCHANGED <<up, life, calls, handles, files, socks, lost, confused, raced, listing>>

(* HandleTable::release *)
ReleaseHandle(h) == [value |-> NoHandle.value, active |-> FALSE, generation |-> h.generation + 1]

(* SYS_CLOSE: the handle is released, then whatever open file it named. *)
SysClose(p, fd) ==
  LET id == FdTarget(p, fd)
  IN  /\ FileCall(p, fd)
      /\ handles' = [handles EXCEPT ![p][fd] = ReleaseHandle(@)]
      /\ openfiles' = IF id \in OpenIds /\ openfiles[id].active
                      THEN [openfiles EXCEPT ![id].active = FALSE, ![id].inode_id = 0]
                      ELSE openfiles
      /\ UNCHANGED <<up, life, files, isize, syscall, socks, lost, raced, listing>>

(* The offset after a batch of entries that ends with the one numbered to. *)
NextDirent(entries, to) == Min({to, Len(entries)})

(* SYS_GETDENTS: entries from the offset on, as many as the buffer holds.   *)
(* /dev has no list in tmpfs and is not recognised as devfs: NotFound.      *)
SysGetdents(p, fd, room) ==
  LET id == FdTarget(p, fd)
      dir == openfiles[id].inode_id
      entries == DirEntries(dir)
      from == openfiles[id].offset
      to == Max({from, Min({Len(entries), from + room})})
  IN  /\ FileCall(p, fd)
      /\ id \in OpenIds /\ openfiles[id].active
      /\ dir \in Inodes /\ InodeType(dir) = "Directory" /\ dir \in TmpfsDirs
      /\ openfiles' = [openfiles EXCEPT ![id].offset = NextDirent(entries, to)]
      /\ listing' = [listing EXCEPT ![id] = @ \o SubSeq(entries, from + 1, to)]
      /\ UNCHANGED <<up, life, handles, files, isize, syscall, socks, lost, raced>>

(* SYS_SOCKET: the value of the handle carries SOCKET_FD_FLAG. *)
SysSocket(p, id) ==
  /\ Enter(p)
  /\ id \in SocketIds \ socks
  /\ socks' = socks \cup {id}
  /\ handles' = IF FreeSlots(p) = {} THEN handles
                ELSE [handles EXCEPT ![p] = GiveHandle(@, [sock |-> TRUE, id |-> id])]
  /\ UNCHANGED <<up, life, openfiles, files, isize, syscall, lost, confused, raced, listing>>

(* SYS_EXIT leaves the handles and what they name as they are. *)
SysExit(p) ==
  /\ Enter(p)
  /\ life' = [life EXCEPT ![p] = "exited"]
  /\ UNCHANGED <<up, handles, openfiles, files, isize, syscall, socks, lost, confused, raced, listing>>

(* A restart by the supervisor clears the handle table and nothing else. *)
Restart(p) ==
  /\ Enter(p)
  /\ handles' = [handles EXCEPT ![p] = [s \in Slots |-> NoHandle]]
  /\ lost' = lost \cup {FdTarget(p, s) : s \in {t \in Slots : handles[p][t].active
                                                              /\ ~handles[p][t].value.sock}}
  /\ UNCHANGED <<up, life, openfiles, files, isize, syscall, socks, confused, raced, listing>>

FilesNext ==
  \E p \in Procs :
    \/ SetupStdio(p)
    \/ \E path \in Paths, flags \in FlagSets : SysOpen(p, path, flags)
    \/ \E fd \in Slots, len \in ReadLens : ReadBegin(p, fd, len)
    \/ ReadFinish(p)
    \/ \E fd \in Slots, data \in Writes : WriteBegin(p, fd, data)
    \/ WriteApply(p)
    \/ WriteFinish(p)
    \/ \E fd \in Slots : SysClose(p, fd)
    \/ \E fd \in Slots, room \in DirentRooms : SysGetdents(p, fd, room)
    \/ \E id \in SocketIds : SysSocket(p, id)
    \/ SysExit(p)
    \/ Restart(p)

FilesSpec == FilesInit /\ [][FilesNext]_fvars
-----------------------------------------------------------------------------
(* Properties *)

HandleAt(h) == handles[h[1]][h[2]]
FileHandles == {h \in Procs \X Slots : HandleAt(h).active /\ ~HandleAt(h).value.sock}
Names(h) == HandleAt(h).value.id

(* Until a file call is made on a socket descriptor, the handle tables and  *)
(* the table of open files agree: a handle names an open file, no two       *)
(* handles name the same one, and an open file that no handle names was     *)
(* left behind by a restart.                                                *)
FdsExact ==
  ~confused =>
    /\ \A h \in FileHandles : openfiles[Names(h)].active
    /\ \A h, g \in FileHandles : h # g => Names(h) # Names(g)
    /\ \A i \in OpenIds : openfiles[i].active =>
         i \in lost \/ \E h \in FileHandles : Names(h) = i

(* The size in an inode never exceeds the length of the file, and it is     *)
(* the length once no write is under way, unless two writes overlapped: the *)
(* size stored last may then be the smaller one, and stays.                 *)
SizeFollows ==
  \A i \in FileInodes :
    /\ isize[i] <= Len(files[i])
    /\ i \notin raced /\ ~(\E p \in Procs : InUpdate(p, i)) => isize[i] = Len(files[i])

(* Whatever the sizes of the buffers, and until a file call is made on a    *)
(* socket descriptor, the entries that getdents has returned for an open    *)
(* directory are its first entries, each once, in order.                    *)
ListingExact ==
  ~confused =>
    \A i \in OpenIds : openfiles[i].active /\ openfiles[i].inode_id \in TmpfsDirs =>
      listing[i] = SubSeq(DirEntries(openfiles[i].inode_id), 1, openfiles[i].offset)

(* Handles and open files match one to one, sizes agree with contents where *)
(* writes do not overlap, and what getdents returned is exact, as stated    *)
(* above.                                                                   *)
FilesExact == FdsExact /\ SizeFollows /\ ListingExact
=============================================================================
