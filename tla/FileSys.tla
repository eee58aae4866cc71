------------------------------ MODULE FileSys ------------------------------
(***************************************************************************)
(* The file system calls of kernel/sysfile.c with path lookup and iput     *)
(* (kernel/fs.c), the open files (kernel/file.c) and the descriptors and   *)
(* current directories of processes, run by several processes at once,     *)
(* over an inode layer with crashes and recovery.                          *)
(*                                                                         *)
(* A step runs from taking an inode's sleep lock to releasing it; whenever *)
(* a call waits for a second lock, or gives up a reference, others may run *)
(* in between.  iput, which may free the inode, is three steps of its own. *)
(* Calls are transactions: a crash leaves the disk as it was at a moment   *)
(* at which none was under way (Log), so crashes are taken there.          *)
(***************************************************************************)
EXTENDS Inode

CONSTANTS Proc,      \* process slots; 1 is the one that runs fsinit
          NOFILE,    \* descriptors of a process
          NFILE,     \* entries of the open file table
          NDEV,      \* device majors are below NDEV
          MaxWrite,  \* what filewrite writes in one transaction
          Calls,     \* the system calls, with arguments, each process may make
          MaxCalls,  \* bound: calls made in all
          MaxCrash,  \* bound: crashes
          File0      \* the file mkfs put in the root directory

VARIABLES fs,      \* the state of the inode layer (Inode)
          lk,      \* the process holding each inode's sleep lock, or 0
          th,      \* where each process is in its call
          ft,      \* the open file table
          ofile,   \* descriptors: an index of ft, or 0
          cwd,     \* current directories, 0 in a slot not in use
          calls,   \* how many calls were made so far
          crashes,
          lost     \* history: inodes that a directory named when it was freed

vars == <<fs, lk, th, ft, ofile, cwd, calls, crashes, lost>>

ASSUME FileSysAssumption ==
  /\ Proc \subseteq Nat \ {0} /\ 1 \in Proc
  /\ {NOFILE, NFILE, NDEV, MaxWrite, MaxCalls, MaxCrash} \subseteq Nat
  /\ 3 % BSIZE # 0   \* mkfs would leave the root a hole in its directory

FD == 1..NOFILE
NoFile == [ref |-> 0, type |-> "NONE", ip |-> 0, off |-> 0,
           readable |-> FALSE, writable |-> FALSE]

\* pc: what the process does once the inodes of put are released; ip, dp: the
\* inodes it holds references to; rest: what is left of the path; iput: how
\* far the release of the first inode of put is; n: a count of the call.
Idle == [pc |-> "idle", call |-> [op |-> "none"], rest |-> <<>>, ip |-> 0,
         dp |-> 0, put |-> <<>>, iput |-> "check", n |-> 0]

Busy(p) == th[p].pc # "idle" \/ th[p].put # <<>>
\* No transaction is under way: filewrite and exit are made of several.
InOp(p) == th[p].put # <<>> \/ th[p].pc \notin {"idle", "write", "exit", "boot"}

Init ==
  /\ fs = [mkfs(File0) EXCEPT
             !.ip[ROOTINO] = [NoInode EXCEPT !.ref = Cardinality(Proc)]]
  /\ lk = [i \in Inum |-> 0]
  /\ th = [p \in Proc |-> Idle]
  /\ ft = [f \in 1..NFILE |-> NoFile]
  /\ ofile = [p \in Proc |-> [d \in FD |-> 0]]
  /\ cwd = [p \in Proc |-> ROOTINO]
  /\ calls = 0
  /\ crashes = 0
  /\ lost = {}

\* Go on at pc with the references and releases of r, a partial record.
Goto(p, pc, r) == th' = [th EXCEPT ![p] = [f \in DOMAIN Idle |->
  CASE f = "pc" -> pc
    [] f \in DOMAIN r -> r[f]
    [] f \in {"ip", "dp", "put", "rest", "n"} -> Idle[f]
    [] OTHER -> @[f]]]

\* The call is over once the inodes of put are released.
Return(p, put) == th' = [th EXCEPT ![p] = [Idle EXCEPT !.put = put]]

At(p, pc) == th[p].pc = pc /\ th[p].put = <<>> /\ fs.panic = ""

\* The results of an operator of Inode are of no use after the step.
Set(s) == fs' = [s EXCEPT !.ret = 0, !.tot = 0, !.ok = TRUE]

FilesSame == UNCHANGED <<ft, ofile, cwd, calls, crashes, lost>>

Lock(p, L) == [i \in Inum |-> IF i \in L THEN p ELSE lk[i]]
Unlock(L) == [i \in Inum |-> IF i \in L THEN 0 ELSE lk[i]]

-----------------------------------------------------------------------------
(* iput: the last reference to an inode without links frees it.            *)

\* Mutant of LastUse: links alone decide, other references are not looked at.
LastUseIgnoresRefs(i) == fs.ip[i].valid /\ fs.ip[i].d.nlink = 0

LastUse(i) == fs.ip[i].ref = 1 /\ fs.ip[i].valid /\ fs.ip[i].d.nlink = 0

\* acquiresleep under the table's lock: the kernel panics if it has to wait.
IputCheck(p) ==
  /\ th[p].put # <<>> /\ th[p].iput = "check" /\ fs.panic = ""
  /\ LET i == Head(th[p].put) IN
     IF LastUse(i)
       THEN /\ IF lk[i] = 0 THEN lk' = Lock(p, {i}) /\ fs' = fs
                            ELSE lk' = lk /\ fs' = Panic(fs, "sched locks")
            /\ th' = [th EXCEPT ![p].iput = "free"]
       ELSE /\ fs' = DropRef(fs, i)
            /\ th' = [th EXCEPT ![p].put = Tail(@)]
            /\ lk' = lk
  /\ FilesSame

\* The inode is freed under its own lock, the table's lock released.
FreeInode(s, i) ==
  [iupdate([s EXCEPT !.ip[i].d.type = "FREE"], i)
     EXCEPT !.ip[i].valid = FALSE, !.ip[i].d = NoDinode]

\* The inodes a directory names, "." and ".." apart.  (create works in a directory
\* that has been removed; what it makes there is lost with the directory.)
Entries(s, d) ==
  IF d.type = "DIR" THEN {Ent(s, d, k).inum : k \in Slots(d) \ {0, 1}} \ {0} ELSE {}

IputFree(p) ==
  /\ th[p].put # <<>> /\ th[p].iput = "free" /\ fs.panic = ""
  /\ LET i == Head(th[p].put) IN
     /\ Set(FreeInode(itrunc(fs, i), i)) /\ lk' = Unlock({i})
     /\ lost' = lost \cup Entries(fs, fs.ip[i].d)
  /\ th' = [th EXCEPT ![p].iput = "drop"]
  /\ UNCHANGED <<ft, ofile, cwd, calls, crashes>>

\* Back under the table's lock: the reference goes, whatever ref is by now.
IputDrop(p) ==
  /\ th[p].put # <<>> /\ th[p].iput = "drop" /\ fs.panic = ""
  /\ fs' = DropRef(fs, Head(th[p].put))
  /\ th' = [th EXCEPT ![p].put = Tail(@), ![p].iput = "check"]
  /\ UNCHANGED lk /\ FilesSame

Iput(p) == IputCheck(p) \/ IputFree(p) \/ IputDrop(p)

-----------------------------------------------------------------------------
(* Path lookup.  A path is the sequence of its elements, "/" the first of  *)
(* an absolute one.                                                        *)

Parent(c, pc) == c.op \in {"create", "mkdir", "mknod", "unlink"} \/ pc = "namex2"

\* iget of the root or idup of the current directory, then on at pc.
NamexStart(s, p, path, pc, c, dp) ==
  LET abs == path # <<>> /\ Head(path) = "/"
      i   == IF abs THEN ROOTINO ELSE cwd[p]
  IN /\ Set(IF abs THEN iget(s, i) ELSE idup(s, i))
     /\ th' = [th EXCEPT ![p] = [Idle EXCEPT !.pc = pc, !.call = c, !.ip = i,
                 !.dp = dp, !.rest = IF abs THEN Tail(path) ELSE path]]

\* namex found nothing: only link has something to undo.
NamexFail(p) ==
  IF th[p].pc = "namex2" THEN Goto(p, "link_bad", [dp |-> th[p].dp, put |-> <<th[p].ip>>])
                         ELSE Return(p, <<th[p].ip>>)

\* One element of the path, directory i locked in s; then i is given up.
Element(p, pc, s, i, last) ==
  LET parent == last /\ Parent(th[p].call, pc)
      j      == dirlookup(s, i, Head(th[p].rest))
  IN \/ s.ip[i].d.type # "DIR" /\ Set(s) /\ NamexFail(p)
     \/ /\ s.ip[i].d.type = "DIR" /\ parent
        /\ Set(s)
        /\ Goto(p, IF pc = "namex2" THEN "link2" ELSE th[p].call.op,
                [ip |-> i, dp |-> th[p].dp, rest |-> th[p].rest])
     \/ s.ip[i].d.type = "DIR" /\ ~parent /\ j = 0 /\ Set(s) /\ NamexFail(p)
     \/ /\ s.ip[i].d.type = "DIR" /\ ~parent /\ j # 0
        /\ Set(iget(s, j))
        /\ Goto(p, IF last THEN th[p].call.op ELSE pc,
                [ip |-> j, dp |-> th[p].dp, put |-> <<i>>, rest |-> Tail(th[p].rest)])

Namex(p) ==
  \E pc \in {"namex", "namex2"} :
    /\ At(p, pc) /\ th[p].rest # <<>> /\ lk[th[p].ip] = 0
    /\ Element(p, pc, ilock(fs, th[p].ip), th[p].ip, Len(th[p].rest) = 1)
    /\ UNCHANGED lk /\ FilesSame

\* A path without elements: the inode is found, or has no parent to return.
NamexEnd(p) ==
  \E pc \in {"namex", "namex2"} :
    /\ At(p, pc) /\ th[p].rest = <<>>
    /\ IF Parent(th[p].call, pc) THEN NamexFail(p)
       ELSE Goto(p, th[p].call.op, [ip |-> th[p].ip])
    /\ UNCHANGED <<fs, lk>> /\ FilesSame

-----------------------------------------------------------------------------
(* Calls that take a path.                                                 *)

PathOps == {"open", "create", "mkdir", "mknod", "unlink", "link", "chdir"}

\* begin_op and the start of namei or nameiparent; "create" is open(O_CREATE).
Start(p) ==
  /\ At(p, "idle") /\ cwd[p] # 0 /\ calls < MaxCalls
  /\ \E c \in {c \in Calls[p] : c.op \in PathOps} :
       NamexStart(fs, p, c.path, "namex", c, 0)
  /\ calls' = calls + 1
  /\ UNCHANGED <<lk, ft, ofile, cwd, crashes, lost>>

FreeFiles == {f \in DOMAIN ft : ft[f].ref = 0}
FreeFds(p) == {d \in FD : ofile[p][d] = 0}

\* The rest of sys_open, in state s, with inode i locked.
OpenTail(p, s, i) ==
  LET c == th[p].call
      type == s.ip[i].d.type
  IN /\ \/ /\ \/ type = "DEVICE" /\ s.ip[i].d.major >= NDEV
              \/ FreeFiles = {} \/ FreeFds(p) = {}
           /\ Set(s) /\ Return(p, <<i>>) /\ UNCHANGED <<ft, ofile>>
        \/ /\ type = "DEVICE" => s.ip[i].d.major < NDEV
           /\ FreeFiles # {} /\ FreeFds(p) # {}
           /\ ft' = [ft EXCEPT ![Min(FreeFiles)] =
                [ref |-> 1, ip |-> i, off |-> 0,
                 type |-> IF type = "DEVICE" THEN "DEVICE" ELSE "INODE",
                 readable |-> c.mode # "w", writable |-> c.mode # "r"]]
           /\ ofile' = [ofile EXCEPT ![p][Min(FreeFds(p))] = Min(FreeFiles)]
           /\ Set(IF c.trunc /\ type = "FILE" THEN itrunc(s, i) ELSE s)
           /\ Return(p, <<>>)
     /\ lk' = Unlock({i})
     /\ UNCHANGED <<cwd, calls, crashes, lost>>

\* iunlockput(i) after s, and the call is over.
GiveUp(p, s, i) == Set(s) /\ Return(p, <<i>>) /\ UNCHANGED lk /\ FilesSame

OpenLocked(p, s, i) ==
  LET c == th[p].call IN
  IF s.ip[i].d.type = "DIR" /\ (c.mode # "r" \/ c.trunc)
    THEN GiveUp(p, s, i) ELSE OpenTail(p, s, i)

Open(p) ==
  /\ At(p, "open") /\ lk[th[p].ip] = 0
  /\ OpenLocked(p, ilock(fs, th[p].ip), th[p].ip)

TypeOf(c) == CASE c.op = "create" -> "FILE" [] c.op = "mkdir" -> "DIR"
               [] OTHER -> "DEVICE"

\* ip->nlink moves by one, the inode being locked.
AddLink(s, i) == iupdate([s EXCEPT !.ip[i].d.nlink = @ + 1], i)

DropLink(s, i) == iupdate([s EXCEPT !.ip[i].d.nlink = @ - 1], i)

\* Mutant of CreateFailed: the link of the new inode stays.
CreateFailedLinked(s, i) == iupdate(s, i)

\* create gives up on the inode it allocated.
CreateFailed(s, i) == iupdate([s EXCEPT !.ip[i].d.nlink = 0], i)

\* The new inode i, locked, with its link and, in a directory, its entries.
NewInode(s, i, major) ==
  iupdate([s EXCEPT !.ip[i].d.major = major, !.ip[i].d.nlink = 1], i)

DotDot(s, i, dp) == IF s.ok THEN dirlink(s, i, "..", dp) ELSE s
Dots(s, i, dp, type) ==
  IF type = "DIR" THEN DotDot(dirlink(s, i, ".", i), i, dp) ELSE [s EXCEPT !.ok = TRUE]
Enter(s, i, dp, name) == IF s.ok THEN dirlink(s, dp, name, i) ELSE s

\* The end of create: the new inode stays locked when it succeeds, else the
\* directory does while the inode is released.
CreateEnd(p, s, i, dp) ==
  \/ /\ ~s.ok
     /\ Set(CreateFailed(s, i))
     /\ lk' = Lock(p, {dp})
     /\ Goto(p, "unlock_dp", [dp |-> dp, put |-> <<i>>])
  \/ /\ s.ok
     /\ Set(IF th[p].call.op = "mkdir" THEN AddLink(s, dp) ELSE s)
     /\ lk' = Lock(p, {i})
     /\ Goto(p, "created", [ip |-> i, put |-> <<dp>>])

\* create once ialloc has left the inode, or 0, in s.ret.
CreateNew(p, s, dp, name, c) ==
  IF s.ret = 0 THEN Set(s) /\ lk' = lk /\ Return(p, <<dp>>)
  ELSE CreateEnd(p, Enter(Dots(NewInode(ilock(s, s.ret), s.ret, c.major),
                               s.ret, dp, TypeOf(c)), s.ret, dp, name), s.ret, dp)

CreateLocked(p, s, dp, name) ==
  LET j == dirlookup(s, dp, name) IN
  IF j # 0
    THEN Set(iget(s, j)) /\ lk' = lk /\ Goto(p, "exists", [ip |-> j, put |-> <<dp>>])
    ELSE CreateNew(p, ialloc(s, TypeOf(th[p].call)), dp, name, th[p].call)

Create(p) ==
  /\ \E op \in {"create", "mkdir", "mknod"} : At(p, op)
  /\ lk[th[p].ip] = 0
  /\ CreateLocked(p, ilock(fs, th[p].ip), th[p].ip, Head(th[p].rest))
  /\ FilesSame

\* The name was there: only an open of a file or a device goes on.
ExistsLocked(p, s, i) ==
  IF th[p].call.op = "create" /\ s.ip[i].d.type \in {"FILE", "DEVICE"}
    THEN OpenTail(p, s, i) ELSE GiveUp(p, s, i)

Exists(p) ==
  /\ At(p, "exists") /\ lk[th[p].ip] = 0
  /\ ExistsLocked(p, ilock(fs, th[p].ip), th[p].ip)

Created(p) ==
  /\ At(p, "created")
  /\ LET i == th[p].ip IN
     IF th[p].call.op = "create" THEN OpenTail(p, fs, i)
     ELSE fs' = fs /\ lk' = Unlock({i}) /\ Return(p, <<i>>) /\ FilesSame

\* iunlockput(dp) at the end of an error path.
UnlockDp(p) ==
  /\ At(p, "unlock_dp")
  /\ lk' = Unlock({th[p].dp})
  /\ Return(p, <<th[p].dp>>)
  /\ UNCHANGED fs /\ FilesSame

\* The parent is locked and the name looked up; the parent stays locked.
UnlinkLocked(p, s, dp, name) ==
  LET j == dirlookup(s, dp, name) IN
  IF name \in {".", ".."} \/ j = 0 THEN GiveUp(p, s, dp)
  ELSE /\ Set(iget(s, j))
       /\ lk' = Lock(p, {dp})
       /\ Goto(p, "unlink2", [ip |-> j, dp |-> dp, rest |-> th[p].rest])
       /\ FilesSame

Unlink(p) ==
  /\ At(p, "unlink") /\ lk[th[p].ip] = 0
  /\ UnlinkLocked(p, ilock(fs, th[p].ip), th[p].ip, Head(th[p].rest))

MayUnlink(s, i) == s.ip[i].d.type = "DIR" => isdirempty(s, s.ip[i].d)

\* The entry, at the offset dirlookup found, is erased, and with it the link
\* ".." was to the parent.
Erase(s, dp, name) ==
  writei(s, dp, NoEnt, Min(Named(s, s.ip[dp].d, name)), 1, 1)
Erased(s, i, dp) ==
  IF s.tot # 1 THEN Panic(s, "unlink: writei")
  ELSE IF s.ip[i].d.type = "DIR" THEN DropLink(s, dp) ELSE s

\* The inode is locked too; the parent is released once the entry is gone.
\* The panic comes before the test of an empty directory.
Linked(s, i) == IF s.ip[i].d.nlink < 1 THEN Panic(s, "unlink: nlink < 1") ELSE s
Unlink2Locked(p, s, i, dp) ==
  \/ /\ ~MayUnlink(s, i)
     /\ Set(s) /\ lk' = lk /\ Goto(p, "unlock_dp", [dp |-> dp, put |-> <<i>>])
  \/ /\ MayUnlink(s, i)
     /\ Set(Erased(Erase(s, dp, Head(th[p].rest)), i, dp))
     /\ lk' = [lk EXCEPT ![dp] = 0, ![i] = p]
     /\ Goto(p, "unlink3", [ip |-> i, put |-> <<dp>>])

Unlink2(p) ==
  /\ At(p, "unlink2") /\ lk[th[p].ip] = 0
  /\ Unlink2Locked(p, Linked(ilock(fs, th[p].ip), th[p].ip), th[p].ip, th[p].dp)
  /\ FilesSame

Unlink3(p) ==
  /\ At(p, "unlink3")
  /\ Set(DropLink(fs, th[p].ip))
  /\ lk' = Unlock({th[p].ip})
  /\ Return(p, <<th[p].ip>>)
  /\ FilesSame

\* The old name's inode, which is not locked while the new parent is found.
LinkLocked(p, s, i) ==
  IF s.ip[i].d.type = "DIR" THEN Set(s) /\ Return(p, <<i>>)
  ELSE NamexStart(AddLink(s, i), p, th[p].call.new, "namex2", th[p].call, i)

Link(p) ==
  /\ At(p, "link") /\ lk[th[p].ip] = 0
  /\ LinkLocked(p, ilock(fs, th[p].ip), th[p].ip)
  /\ UNCHANGED lk /\ FilesSame

\* th.dp is the inode to link here, th.ip the directory.
LinkDone(p, s, dp) ==
  /\ Set(s)
  /\ IF s.ok THEN Return(p, <<dp, th[p].dp>>)
             ELSE Goto(p, "link_bad", [dp |-> th[p].dp, put |-> <<dp>>])

Link2(p) ==
  /\ At(p, "link2") /\ lk[th[p].ip] = 0
  /\ LinkDone(p, dirlink(ilock(fs, th[p].ip), th[p].ip, Head(th[p].rest), th[p].dp),
              th[p].ip)
  /\ UNCHANGED lk /\ FilesSame

LinkBad(p) ==
  /\ At(p, "link_bad") /\ lk[th[p].dp] = 0
  /\ Set(DropLink(ilock(fs, th[p].dp), th[p].dp))
  /\ Return(p, <<th[p].dp>>)
  /\ UNCHANGED lk /\ FilesSame

\* The old directory is given up before p->cwd is set.
Chdir(p) ==
  /\ At(p, "chdir") /\ lk[th[p].ip] = 0
  /\ LET i == th[p].ip
         s == ilock(fs, i)
     IN /\ fs' = s
        /\ IF s.ip[i].d.type # "DIR" THEN Return(p, <<i>>) /\ UNCHANGED cwd
           ELSE /\ Goto(p, "chdir2", [ip |-> i, put |-> <<cwd[p]>>])
                /\ cwd' = [cwd EXCEPT ![p] = 0]
  /\ UNCHANGED <<lk, ft, ofile, calls, crashes, lost>>

Chdir2(p) ==
  /\ At(p, "chdir2")
  /\ cwd' = [cwd EXCEPT ![p] = th[p].ip]
  /\ Return(p, <<>>)
  /\ UNCHANGED <<fs, lk, ft, ofile, calls, crashes, lost>>

-----------------------------------------------------------------------------
(* Calls that take a descriptor, fork and exit.                            *)

\* argfd: the call c names an open descriptor.
FdCall(p, op, c) ==
  /\ At(p, "idle") /\ cwd[p] # 0 /\ calls < MaxCalls
  /\ c \in Calls[p] /\ c.op = op /\ ofile[p][c.fd] # 0
  /\ calls' = calls + 1

Dup(p) == \E c \in Calls[p] :
  /\ FdCall(p, "dup", c) /\ FreeFds(p) # {}
  /\ LET f == ofile[p][c.fd] IN
     /\ ofile' = [ofile EXCEPT ![p][Min(FreeFds(p))] = f]
     /\ ft' = [ft EXCEPT ![f].ref = @ + 1]
  /\ UNCHANGED <<fs, lk, th, cwd, crashes, lost>>

\* Mutant of fileclose: the inode is released with every descriptor.
FilecloseAlways(f) ==
  <<[ft EXCEPT ![f] = IF @.ref = 1 THEN NoFile ELSE [@ EXCEPT !.ref = @ - 1]],
    <<ft[f].ip>> >>

\* The file table after fileclose, and the inode then to be released.
fileclose(f) ==
  <<[ft EXCEPT ![f] = IF @.ref = 1 THEN NoFile ELSE [@ EXCEPT !.ref = @ - 1]],
    IF ft[f].ref = 1 THEN <<ft[f].ip>> ELSE <<>> >>

Close(p) == \E c \in Calls[p] :
  /\ FdCall(p, "close", c)
  /\ ft' = fileclose(ofile[p][c.fd])[1]
  /\ Return(p, fileclose(ofile[p][c.fd])[2])
  /\ ofile' = [ofile EXCEPT ![p][c.fd] = 0]
  /\ UNCHANGED <<fs, lk, cwd, crashes, lost>>

\* fstat and read: the inode is locked, and a read moves the offset.
Stat(p) == \E c \in Calls[p] :
  /\ FdCall(p, "stat", c)
  /\ LET i == ft[ofile[p][c.fd]].ip IN lk[i] = 0 /\ fs' = ilock(fs, i)
  /\ UNCHANGED <<lk, th, ft, ofile, cwd, crashes, lost>>

Read(p) == \E c \in Calls[p] :
  /\ FdCall(p, "read", c)
  /\ LET f == ofile[p][c.fd]
         i == ft[f].ip
         s == ilock(fs, i)
     IN /\ ft[f].readable /\ ft[f].type = "INODE" /\ lk[i] = 0
        /\ fs' = s
        /\ ft' = [ft EXCEPT ![f].off = @ + readi(s, i, @, c.n)]
  /\ UNCHANGED <<lk, th, ofile, cwd, crashes, lost>>

Write(p) == \E c \in Calls[p] :
  /\ FdCall(p, "write", c)
  /\ LET f == ft[ofile[p][c.fd]] IN f.writable /\ f.type = "INODE"
  /\ th' = [th EXCEPT ![p] = [Idle EXCEPT !.pc = "write", !.call = c, !.n = c.n]]
  /\ UNCHANGED <<fs, lk, ft, ofile, cwd, crashes, lost>>

\* One transaction of filewrite; the user's memory is good for call.good.
WroteChunk(p, s, f, n1) ==
  /\ Set(s)
  /\ ft' = [ft EXCEPT ![f].off = @ + s.tot]
  /\ IF s.tot # n1 \/ n1 = th[p].n THEN Return(p, <<>>)
                                  ELSE Goto(p, "write", [n |-> th[p].n - n1])

WriteChunk(p) ==
  /\ At(p, "write")
  /\ LET c  == th[p].call
         f  == ofile[p][c.fd]
         i  == ft[f].ip
         n1 == Min({th[p].n, MaxWrite})
     IN /\ lk[i] = 0
        /\ WroteChunk(p, writei(ilock(fs, i), i, NoEnt, ft[f].off, n1,
                                c.good - (c.n - th[p].n)), f, n1)
  /\ UNCHANGED <<lk, ofile, cwd, calls, crashes, lost>>

\* filedup of every descriptor of p.
DupFiles(p) ==
  [f \in DOMAIN ft |-> [ft[f] EXCEPT
     !.ref = @ + Cardinality({d \in FD : ofile[p][d] = f})]]

\* The descriptors and the current directory of a forked child.
Fork(p) == \E q \in Proc :
  /\ At(p, "idle") /\ cwd[p] # 0 /\ calls < MaxCalls
  /\ \E c \in Calls[p] : c.op = "fork"
  /\ cwd[q] = 0 /\ ~Busy(q)
  /\ ofile' = [ofile EXCEPT ![q] = ofile[p]]
  /\ ft' = DupFiles(p)
  /\ cwd' = [cwd EXCEPT ![q] = cwd[p]]
  /\ fs' = idup(fs, cwd[p])
  /\ calls' = calls + 1
  /\ UNCHANGED <<lk, th, crashes, lost>>

\* The first process never exits.
Exit(p) ==
  /\ At(p, "idle") /\ cwd[p] # 0 /\ p # 1
  /\ \E c \in Calls[p] : c.op = "exit"
  /\ th' = [th EXCEPT ![p].pc = "exit"]
  /\ UNCHANGED <<fs, lk, ft, ofile, cwd, calls, crashes, lost>>

\* kexit closes the descriptors in turn, then gives up the directory.
ExitStep(p) ==
  /\ At(p, "exit")
  /\ LET open == FD \ FreeFds(p)
         f == ofile[p][Min(open)]
     IN IF open = {}
        THEN /\ Return(p, <<cwd[p]>>)
             /\ cwd' = [cwd EXCEPT ![p] = 0]
             /\ UNCHANGED <<ft, ofile>>
        ELSE /\ Goto(p, "exit", [put |-> fileclose(f)[2]])
             /\ ft' = fileclose(f)[1]
             /\ ofile' = [ofile EXCEPT ![p][Min(open)] = 0]
             /\ UNCHANGED cwd
  /\ UNCHANGED <<fs, lk, calls, crashes, lost>>

-----------------------------------------------------------------------------
(* A crash leaves the disk; the first process then runs ireclaim.          *)

Crash ==
  /\ crashes < MaxCrash /\ fs.panic = ""
  /\ \A p \in Proc : ~InOp(p)
  /\ fs' = [fs EXCEPT !.ip = [i \in Inum |->
              IF i = ROOTINO THEN [NoInode EXCEPT !.ref = 1] ELSE NoInode]]
  /\ lk' = [i \in Inum |-> 0]
  /\ th' = [p \in Proc |-> IF p = 1 THEN [Idle EXCEPT !.pc = "boot", !.n = 1] ELSE Idle]
  /\ ft' = [f \in DOMAIN ft |-> NoFile]
  /\ ofile' = [p \in Proc |-> [d \in FD |-> 0]]
  /\ cwd' = [p \in Proc |-> IF p = 1 THEN ROOTINO ELSE 0]
  /\ crashes' = crashes + 1
  /\ UNCHANGED <<calls, lost>>

\* Mutant of IsOrphan: nothing is reclaimed.
IsOrphanNever(s, i) == FALSE

IsOrphan(s, i) == s.din[i].type # "FREE" /\ s.din[i].nlink = 0

\* One inode of ireclaim.
Ireclaim(p) ==
  /\ At(p, "boot")
  /\ LET i == th[p].n IN
     IF i > NINODES THEN fs' = fs /\ Return(p, <<>>)
     ELSE IF IsOrphan(fs, i)
       THEN /\ fs' = ilock(iget(fs, i), i)
            /\ Goto(p, "boot", [n |-> i + 1, put |-> <<i>>])
       ELSE fs' = fs /\ Goto(p, "boot", [n |-> i + 1])
  /\ UNCHANGED lk /\ FilesSame

Quiet == \A p \in Proc : ~Busy(p)

\* The calls are used up (the bound) and nothing is left to do, or a panic has
\* stopped the machine.
Done ==
  /\ (Quiet /\ calls = MaxCalls) \/ fs.panic # ""
  /\ UNCHANGED vars

Step(p) ==
  \/ Iput(p) \/ Start(p) \/ Namex(p) \/ NamexEnd(p)
  \/ Open(p) \/ Create(p) \/ Exists(p) \/ Created(p) \/ UnlockDp(p)
  \/ Unlink(p) \/ Unlink2(p) \/ Unlink3(p)
  \/ Link(p) \/ Link2(p) \/ LinkBad(p) \/ Chdir(p) \/ Chdir2(p)
  \/ Dup(p) \/ Close(p) \/ Stat(p) \/ Read(p) \/ Write(p) \/ WriteChunk(p)
  \/ Fork(p) \/ Exit(p) \/ ExitStep(p) \/ Ireclaim(p)

Next == Crash \/ Done \/ \E p \in Proc : Step(p)

Spec == Init /\ [][Next]_vars

-----------------------------------------------------------------------------
(* Correctness.                                                            *)

\* The state of an inode: in memory once read, else on disk.
Cur(i) == IF fs.ip[i].valid THEN fs.ip[i].d ELSE fs.din[i]

Orphan(s, i) == s.din[i].type # "FREE" /\ s.din[i].nlink = 0

\* Every variable has its type.
TypeOK ==
  /\ fs.used \subseteq Blk
  /\ \A i \in Inum : /\ fs.ip[i].ref \in Nat /\ Cur(i).nlink \in Nat
                     /\ \A k \in 0..NDIRECT : Cur(i).addrs[k] \in Blk \cup {0}
  /\ lk \in [Inum -> Proc \cup {0}]
  /\ \A p \in Proc : th[p].ip \in Inum \cup {0} /\ th[p].dp \in Inum \cup {0}
  /\ ofile \in [Proc -> [FD -> 0..NFILE]]
  /\ cwd \in [Proc -> Inum \cup {0}]
  /\ calls \in 0..MaxCalls /\ crashes \in 0..MaxCrash

\* The table may be full when iget needs an entry ("iget: no inodes"); CountsExact
\* says that its entries are then all in use.  No other panic of fs.c or sysfile.c is
\* reached: in particular an inode in use has a type when it is locked (ilock), no
\* block is freed twice (bfree), and the last reference is never dropped while
\* somebody holds the lock (iput).
NoPanic == fs.panic \in {"", "iget: no inodes"}
Running == fs.panic = ""

Occurs(i, q) == Cardinality({k \in DOMAIN q : q[k] = i})

\* ip->ref is the number of pointers to the inode: current directories, open
\* files, and the local variables of calls, iput under way included.
RefsExact ==
  \A i \in Inum : fs.ip[i].ref =
    Cardinality({p \in Proc : cwd[p] = i}) + Cardinality({f \in DOMAIN ft : ft[f].ip = i})
    + Cardinality({p \in Proc : th[p].ip = i}) + Cardinality({p \in Proc : th[p].dp = i})
    + MapThenSumSet(LAMBDA p : Occurs(i, th[p].put), Proc)

\* The bitmap marks exactly the blocks some inode uses, and none is used twice:
\* neither a failed write (bmap, writei), nor create's error path, nor a crash
\* between unlink and the last close leaks a block.
BlocksExact ==
  /\ fs.used = UNION {BlocksOf(fs, Cur(i)) : i \in Inum}
  /\ \A i, j \in Inum : i # j => BlocksOf(fs, Cur(i)) \cap BlocksOf(fs, Cur(j)) = {}

\* An inode that nobody has locked is on disk as it is in memory: every change
\* made under the lock was followed by iupdate before the lock was released.
InodeWritten ==
  \A i \in Inum : lk[i] = 0 /\ fs.ip[i].valid => fs.ip[i].d = fs.din[i]

\* Directories, and where, "." and ".." apart, they name i.
Dirs == {d \in Inum : Cur(d).type = "DIR"}
Names(d, i) == {k \in 2..Cur(d).size - 1 : Ent(fs, Cur(d), k).inum = i}
NameCount(i) == MapThenSumSet(LAMBDA d : Cardinality(Names(d, i)), Dirs)

\* No entry of a directory names a freed inode: link raises nlink before it writes
\* the entry and unlink erases the entry before it lowers nlink, so at every moment
\* an inode has at least as many links as names.
NamesCounted ==
  \A i \in Inum : NameCount(i) > 0 =>
    /\ Cur(i).type # "FREE"
    /\ Cur(i).nlink >= NameCount(i)

\* Between calls the link counts are exact: one for every name of the inode, one
\* for the ".." of every directory named in it, and one that mkfs gave the root.
\* No call that fails half way (create, link) leaves a link behind.  The inodes that
\* went down with a directory keep theirs.
Subdirs(i) == {e \in Dirs : Names(i, e) # {}}
LinksExact ==
  (\A p \in Proc : ~InOp(p)) =>
    \A i \in Inum \ lost : Cur(i).type # "FREE" =>
      Cur(i).nlink = NameCount(i) + (IF i \in Dirs THEN Cardinality(Subdirs(i)) ELSE 0)
                     + (IF i = ROOTINO THEN 1 ELSE 0)

\* Directories form a tree: a directory has at most one name, and its ".."
\* is the directory that holds it (no links to directories, no removal of one
\* that is not empty).
DirsAreTree ==
  \A d, e \in Dirs : Names(d, e) # {} => NameCount(e) = 1 /\ Ent(fs, Cur(e), 1).inum = d

\* What is open or somebody's current directory is not freed, whoever unlinks
\* it: iput frees an inode only with the last reference.
InUseStaysAllocated ==
  \A i \in Inum :
    (\E p \in Proc : cwd[p] = i) \/ (\E f \in DOMAIN ft : ft[f].ip = i)
      => fs.din[i].type # "FREE"

\* "If that was the last reference and the inode has no links to it, free the
\* inode (and its content) on disk" (iput, fs.c:333): with no call under way,
\* an inode without links is in use by somebody.
OrphansReclaimed ==
  Quiet => \A i \in Inum : Orphan(fs, i) => fs.ip[i].ref > 0

\* When ireclaim is done no inode without links is left, whatever was open or
\* half removed at the crash.
ReclaimedAtBoot ==
  [][th[1].pc = "boot" /\ th'[1].pc = "idle" =>
       \A i \in Inum : ~Orphan(fs', i)]_vars

\* f->ref is the number of descriptors of the file, in every process.
FilesExact ==
  \A f \in DOMAIN ft :
    ft[f].ref = Cardinality({pd \in Proc \X FD : ofile[pd[1]][pd[2]] = f})

\* What is in use is never freed under its users, and no panic tells of it.  (Of a
\* state after a panic nothing more is said.)
InUseSafe == NoPanic /\ (Running => InUseStaysAllocated)

\* The reference counts of the inode table and of the file table are exact
\* (iget, idup, iput; filealloc, filedup, fileclose, fork, exit).
CountsExact == Running => TypeOK /\ RefsExact /\ FilesExact

\* The disk is exact: blocks belong to one inode or are free, and inodes on disk
\* are those in memory once they are unlocked.
DiskExact == Running => BlocksExact /\ InodeWritten

\* Names, link counts and ".." agree (create, link, unlink): the counts are never
\* below the names, and equal to them and the ".." between calls.
TreeExact == Running => NamesCounted /\ LinksExact /\ DirsAreTree
=============================================================================
