------------------------------ MODULE FileSys -------------------------------
(***************************************************************************)
(* Inodes, directories, path names (fs.c) and the system calls on them     *)
(* (sysfile.c), run by several processes.                                  *)
(*                                                                         *)
(* A process in the kernel has a list todo of what is left of its call;    *)
(* the head is the next piece of code that runs without waiting.  A piece  *)
(* starts where the code may wait (ilock, begin_trans) or where it drops   *)
(* icache.lock (iput); an inode that is locked and unlocked within a piece *)
(* needs no I_BUSY in between.  Contents of files are in BlockMap, what a  *)
(* crash leaves of a transaction in Log.                                   *)
(***************************************************************************)
EXTENDS Naturals, Sequences, FiniteSets, FiniteSetsExt

CONSTANTS Proc, NoProc,
          NINODES,   \* inodes on disk (superblock), the first is the root
          Name,      \* names other than "." and ".."
          Path,      \* the paths programs use: [abs |-> BOOLEAN, elems |-> Seq]
          Links,     \* the pairs of paths they call link with
          Fd,        \* descriptors of a process
          MaxCalls   \* bound on the number of system calls

VARIABLES disk,   \* the inodes as the open transaction sees them
          ic,     \* the inode cache, by inode number
          trans,  \* who is between begin_trans and commit_trans
          ofile,  \* the inode behind each open descriptor, 0 if closed
          cwd,    \* proc->cwd, 0 after exit
          todo,   \* what is left of the system call of a process
          res,    \* the inode namei or nameiparent returned
          name,   \* the last path element, from nameiparent
          panicked,  \* the panic that stopped the machine, or "no"
          calls,
          adrift  \* history: inodes linked into a directory that was removed

vars == <<disk, ic, trans, ofile, cwd, todo, res, name, panicked, calls, adrift>>

Inum == 1 .. NINODES
ROOTINO == 1
Dots == {".", ".."}
Type == {"none", "dir", "file", "dev"}

NoEntries == [n \in Name \cup Dots |-> 0]
FreeInode == [type |-> "none", nlink |-> 0, ent |-> NoEntries]
FreeEntry == [ref |-> 0, valid |-> FALSE, busy |-> NoProc, type |-> "none", nlink |-> 0]

\* A piece of code: what it is and the inodes it holds a reference to.
Op(o, i, j, path) == [op |-> o, i |-> i, j |-> j, path |-> path]
NoPath == [abs |-> FALSE, elems |-> <<>>]
Do(o) == Op(o, 0, 0, NoPath)
With(o, i) == Op(o, i, 0, NoPath)
Namei(path) == Op("namei", 0, 0, path)
Nameiparent(path) == Op("nameiparent", 0, 0, path)
Iput(i) == With("iput", i)

Init ==
  /\ disk = [i \in Inum |->
       IF i = ROOTINO
       THEN [type |-> "dir", nlink |-> 1, ent |-> [NoEntries EXCEPT !["."] = 1, ![".."] = 1]]
       ELSE FreeInode]
  /\ ic = [i \in Inum |-> IF i = ROOTINO THEN [FreeEntry EXCEPT !.ref = Cardinality(Proc)] ELSE FreeEntry]
  /\ trans = NoProc
  /\ ofile = [p \in Proc |-> [f \in Fd |-> 0]]
  /\ cwd = [p \in Proc |-> ROOTINO]
  /\ todo = [p \in Proc |-> <<>>]
  /\ res = [p \in Proc |-> 0]
  /\ name = [p \in Proc |-> "."]
  /\ panicked = "no" /\ calls = 0 /\ adrift = {}

user == <<ofile, cwd, calls>>

At(p, o) == panicked = "no" /\ todo[p] # <<>> /\ todo[p][1].op = o
Here(p) == todo[p][1].i

Then(p, ops) == todo' = [todo EXCEPT ![p] = ops \o Tail(@)]

Panic(why) == /\ panicked' = why
              /\ UNCHANGED <<disk, ic, trans, user, todo, res, name, adrift>>

-----------------------------------------------------------------------------
(* The inode cache.                                                         *)

\* iget finds the entry of an inode or takes a free one, whose flags it clears.
\* That the NINODE entries are enough is assumed.
Iget(c, i) == IF c[i].ref > 0 THEN [c EXCEPT ![i].ref = @ + 1]
              ELSE [c EXCEPT ![i] = [FreeEntry EXCEPT !.ref = 1]]

\* ilock waits for I_BUSY and reads the inode from disk d if it has not been
\* read; an inode of type 0 is a panic.
LoadFrom(d, c, i) == IF c[i].valid THEN c
                     ELSE [c EXCEPT ![i] = [@ EXCEPT !.valid = TRUE, !.type = d[i].type,
                                                     !.nlink = d[i].nlink]]
Load(c, i) == LoadFrom(disk, c, i)

Unlocked(i) == ic[i].busy = NoProc
Typeless(i) == ~ic[i].valid /\ disk[i].type = "none"
MayLock(i) == Unlocked(i) /\ ~Typeless(i)
IsDir(i) == Load(ic, i)[i].type = "dir"

\* iupdate after a change of nlink.
NoUpdate(d, i, n) == d

iupdate(d, i, n) == [d EXCEPT ![i].nlink = n]

Lock(c, i, p) == [Load(c, i) EXCEPT ![i].busy = p]
Unlock(c, i) == [c EXCEPT ![i].busy = NoProc]

\* ialloc takes the first free inode, 0 if there is none.
Ialloc == LET free == {i \in Inum : disk[i].type = "none"} IN IF free = {} THEN 0 ELSE Min(free)

\* A directory that has been unlinked but is still in use.
Removed(i) == disk[i].nlink = 0 \/ i \in adrift

\* iput drops a reference.  The last one to an inode without links frees it:
\* I_BUSY is set, icache.lock dropped, and the rest is the next piece.
LastPutEarly(i) == ic[i].valid /\ ic[i].nlink = 0

LastPut(i) == ic[i].ref = 1 /\ ic[i].valid /\ ic[i].nlink = 0

IputStep(p) ==
  /\ At(p, "iput")
  /\ LET i == todo[p][1].i IN
     \/ /\ LastPut(i) /\ Unlocked(i)
        /\ ic' = [ic EXCEPT ![i].busy = p]
        /\ Then(p, <<With("ifree", i)>>)
        /\ UNCHANGED <<disk, trans, user, res, name, panicked, adrift>>
     \/ LastPut(i) /\ ~Unlocked(i) /\ Panic("iput busy")
     \/ /\ ~LastPut(i)
        /\ ic' = [ic EXCEPT ![i].ref = @ - 1]
        /\ Then(p, <<>>)
        /\ UNCHANGED <<disk, trans, user, res, name, panicked, adrift>>

\* itrunc, type = 0, iupdate, flags = 0 and the reference, in one step: nobody
\* gets at a busy inode in between.  log_write panics unless some transaction is
\* open, not necessarily this process's own; if another process's ends after
\* itrunc, iupdate panics as itrunc would have.
IfreeStep(p) ==
  /\ At(p, "ifree")
  /\ LET i == todo[p][1].i IN
     IF trans = NoProc THEN Panic("write outside of trans")
     ELSE /\ disk' = [disk EXCEPT ![i] = FreeInode]
          /\ ic' = [ic EXCEPT ![i] = [@ EXCEPT !.valid = FALSE, !.busy = NoProc, !.ref = @ - 1]]
          /\ adrift' = adrift \ {i}
          /\ Then(p, <<>>)
          /\ UNCHANGED <<trans, user, res, name, panicked>>

BeginTrans(p) ==
  /\ At(p, "begin") /\ trans = NoProc
  /\ trans' = p
  /\ Then(p, <<>>)
  /\ UNCHANGED <<disk, ic, user, res, name, panicked, adrift>>

CommitTrans(p) ==
  /\ At(p, "commit")
  /\ trans' = NoProc
  /\ Then(p, <<>>)
  /\ UNCHANGED <<disk, ic, user, res, name, panicked, adrift>>

-----------------------------------------------------------------------------
(* namex.                                                                   *)

WalkOp(o, i, elems) == Op(o, i, 0, [abs |-> FALSE, elems |-> elems])
Walking(p) == At(p, "walk") \/ At(p, "walkparent")
Elems(p) == todo[p][1].path.elems

Start(p) == IF todo[p][1].path.abs THEN ROOTINO ELSE cwd[p]

NamexStart(p) ==
  /\ At(p, "namei") \/ At(p, "nameiparent")
  /\ ic' = Iget(ic, Start(p))
  /\ IF Elems(p) # <<>>
     THEN /\ Then(p, <<WalkOp(IF At(p, "namei") THEN "walk" ELSE "walkparent", Start(p), Elems(p))>>)
          /\ UNCHANGED res
     ELSE IF At(p, "namei") THEN Then(p, <<>>) /\ res' = [res EXCEPT ![p] = Start(p)]
     ELSE Then(p, <<Iput(Start(p))>>) /\ UNCHANGED res
  /\ UNCHANGED <<disk, trans, user, name, panicked, adrift>>

\* One element: ilock, the tests, dirlookup, iunlock; the iput comes after.
Stop(p) == At(p, "walkparent") /\ Len(Elems(p)) = 1
NextInode(p) == disk[Here(p)].ent[Elems(p)[1]]

WalkAnything(i) == TRUE

Walkable(i) == IsDir(i)

NamexFails(p) ==
  /\ Walking(p) /\ MayLock(Here(p)) /\ (~Walkable(Here(p)) \/ (~Stop(p) /\ NextInode(p) = 0))
  /\ ic' = Load(ic, Here(p))
  /\ Then(p, <<Iput(Here(p))>>)
  /\ UNCHANGED <<disk, trans, user, res, name, panicked, adrift>>

NamexParent(p) ==
  /\ Walking(p) /\ MayLock(Here(p)) /\ Walkable(Here(p)) /\ Stop(p)
  /\ ic' = Load(ic, Here(p))
  /\ res' = [res EXCEPT ![p] = Here(p)] /\ name' = [name EXCEPT ![p] = Elems(p)[1]]
  /\ Then(p, <<>>)
  /\ UNCHANGED <<disk, trans, user, panicked, adrift>>

NamexNext(p) ==
  /\ Walking(p) /\ MayLock(Here(p)) /\ Walkable(Here(p)) /\ ~Stop(p) /\ NextInode(p) # 0
  /\ ic' = Iget(Load(ic, Here(p)), NextInode(p))
  /\ IF Len(Elems(p)) = 1
     THEN Then(p, <<Iput(Here(p))>>) /\ res' = [res EXCEPT ![p] = NextInode(p)]
     ELSE Then(p, <<Iput(Here(p)), WalkOp(todo[p][1].op, NextInode(p), Tail(Elems(p)))>>) /\ UNCHANGED res
  /\ UNCHANGED <<disk, trans, user, name, panicked, adrift>>

-----------------------------------------------------------------------------
CreateOp == [file |-> "create_file", dir |-> "create_dir", dev |-> "create_dev"]

(* create, in three pieces: look the name up in the parent, then either     *)
(* take the inode that was found or make a new one.  The result is locked.  *)

\* The ".." of a new directory is a link to its parent.
ForgetDotDot(t, n) == n

ParentLinks(t, n) == IF t = "dir" THEN n + 1 ELSE n

Create(p, t) ==
  /\ At(p, CreateOp[t])
  /\ \/ res[p] = 0 /\ Then(p, <<>>) /\ UNCHANGED <<ic, disk, res, adrift>>
     \/ LET dp == res[p]
            ip == disk[dp].ent[name[p]] IN
        /\ dp # 0 /\ MayLock(dp) /\ IsDir(dp) /\ ip # 0
        /\ ic' = Iget(Load(ic, dp), ip)
        /\ res' = [res EXCEPT ![p] = 0]
        /\ Then(p, <<Iput(dp), With(IF t = "file" THEN "found_file" ELSE "found", ip)>>)
        /\ UNCHANGED <<disk, adrift>>
     \/ \E ip \in Inum :
        LET dp == res[p]
            new == [disk EXCEPT ![ip] = [FreeInode EXCEPT !.type = t]]
            c == Load(ic, dp)
            locked == [LoadFrom(new, Iget(c, ip), ip) EXCEPT ![ip].busy = p, ![ip].nlink = 1]
            dplinks == ParentLinks(t, c[dp].nlink) IN
        /\ dp # 0 /\ MayLock(dp) /\ IsDir(dp) /\ disk[dp].ent[name[p]] = 0
        /\ ip = Ialloc /\ Unlocked(ip)
        /\ ic' = [locked EXCEPT ![dp].nlink = dplinks]
        /\ disk' = [disk EXCEPT
              ![ip] = [type |-> locked[ip].type, nlink |-> 1,
                       ent |-> IF t = "dir" THEN [NoEntries EXCEPT !["."] = ip, ![".."] = dp]
                               ELSE NoEntries],
              ![dp] = [@ EXCEPT !.nlink = dplinks, !.ent[name[p]] = ip]]
        /\ adrift' = IF Removed(dp) THEN adrift \cup {ip} \cup (IF t = "dir" THEN {dp} ELSE {})
                     ELSE adrift
        /\ res' = [res EXCEPT ![p] = ip]
        /\ Then(p, <<Iput(dp)>>)
  /\ UNCHANGED <<trans, user, name, panicked>>

\* The name exists: only a file that is to be created as a file will do.
CreateFound(p) ==
  /\ At(p, "found_file") \/ At(p, "found")
  /\ MayLock(Here(p))
  /\ LET ip == Here(p)
         c == Load(ic, ip) IN
     IF At(p, "found_file") /\ c[ip].type = "file"
     THEN ic' = Lock(ic, ip, p) /\ res' = [res EXCEPT ![p] = ip] /\ Then(p, <<>>)
     ELSE ic' = c /\ Then(p, <<Iput(ip)>>) /\ UNCHANGED res
  /\ UNCHANGED <<disk, trans, user, name, panicked, adrift>>

-----------------------------------------------------------------------------
(* The rest of the system calls.                                            *)

\* mkdir and mknod drop what create returned.
Made(p) ==
  /\ At(p, "made")
  /\ IF res[p] = 0 THEN Then(p, <<>>) /\ UNCHANGED <<ic, res>>
     ELSE /\ ic' = Unlock(ic, res[p])
          /\ Then(p, <<Iput(res[p])>>)
          /\ res' = [res EXCEPT ![p] = 0]
  /\ UNCHANGED <<disk, trans, user, name, panicked, adrift>>

\* open without O_CREATE locks what namei returned; a directory is read only.
OpenLock(p) ==
  /\ At(p, "open_read") \/ At(p, "open_write")
  /\ \/ res[p] = 0 /\ Then(p, <<>>) /\ UNCHANGED <<ic, res>>
     \/ /\ res[p] # 0 /\ MayLock(res[p])
        /\ IF Load(ic, res[p])[res[p]].type = "dir" /\ At(p, "open_write")
           THEN ic' = Load(ic, res[p]) /\ Then(p, <<Iput(res[p])>>) /\ res' = [res EXCEPT ![p] = 0]
           ELSE ic' = Lock(ic, res[p], p) /\ Then(p, <<>>) /\ UNCHANGED res
  /\ UNCHANGED <<disk, trans, user, name, panicked, adrift>>

\* filealloc and fdalloc, either of which may fail (module FileTable).
OpenFile(p) ==
  /\ At(p, "open_file")
  /\ res' = [res EXCEPT ![p] = 0]
  /\ \/ res[p] = 0 /\ Then(p, <<>>) /\ UNCHANGED <<ic, ofile>>
     \/ /\ res[p] # 0
        /\ ic' = Unlock(ic, res[p])
        /\ \/ Then(p, <<Iput(res[p])>>) /\ UNCHANGED ofile
           \/ \E f \in Fd : /\ ofile[p][f] = 0
                            /\ ofile' = [ofile EXCEPT ![p][f] = res[p]]
                            /\ Then(p, <<>>)
  /\ UNCHANGED <<disk, trans, cwd, name, panicked, calls, adrift>>

\* filestat, fileread and each round of filewrite lock the inode and unlock it.
FileUse(p) ==
  /\ At(p, "use")
  /\ \E f \in Fd : /\ ofile[p][f] # 0 /\ MayLock(ofile[p][f])
                   /\ ic' = Load(ic, ofile[p][f])
  /\ Then(p, <<>>)
  /\ UNCHANGED <<disk, trans, user, res, name, panicked, adrift>>

Chdir(p) ==
  /\ At(p, "chdir")
  /\ \/ res[p] = 0 /\ Then(p, <<>>) /\ UNCHANGED <<ic, cwd>>
     \/ /\ res[p] # 0 /\ MayLock(res[p])
        /\ ic' = Load(ic, res[p])
        /\ IF ic'[res[p]].type = "dir"
           THEN Then(p, <<Iput(cwd[p])>>) /\ cwd' = [cwd EXCEPT ![p] = res[p]]
           ELSE Then(p, <<Iput(res[p])>>) /\ UNCHANGED cwd
  /\ res' = [res EXCEPT ![p] = 0]
  /\ UNCHANGED <<disk, trans, ofile, name, panicked, calls, adrift>>

\* link: count the new link, then look for its place; undo the count if there
\* is none.
LinkBegin(p) ==
  /\ At(p, "link")
  /\ \/ res[p] = 0 /\ Then(p, <<>>) /\ UNCHANGED trans
     \/ /\ res[p] # 0 /\ trans = NoProc
        /\ trans' = p
        /\ Then(p, <<Op("link_inc", res[p], 0, todo[p][1].path)>>)
  /\ res' = [res EXCEPT ![p] = 0]
  /\ UNCHANGED <<disk, ic, user, name, panicked, adrift>>

MayLink(t) == t # "dir"

LinkInc(p) ==
  /\ At(p, "link_inc") /\ MayLock(Here(p))
  /\ LET ip == Here(p)
         c == Load(ic, ip) IN
     IF ~MayLink(c[ip].type)
     THEN ic' = c /\ Then(p, <<Iput(ip), Do("commit")>>) /\ UNCHANGED disk
     ELSE /\ ic' = [c EXCEPT ![ip].nlink = @ + 1]
          /\ disk' = iupdate(disk, ip, c[ip].nlink + 1)
          /\ Then(p, <<Nameiparent(todo[p][1].path), With("link_dir", ip)>>)
  /\ UNCHANGED <<trans, user, res, name, panicked, adrift>>

LinkDir(p) ==
  /\ At(p, "link_dir")
  /\ LET ip == Here(p)
         dp == res[p] IN
     \/ dp = 0 /\ Then(p, <<With("link_bad", ip)>>) /\ UNCHANGED <<ic, disk, adrift>>
     \/ /\ dp # 0 /\ MayLock(dp) /\ IsDir(dp)
        /\ LET old == disk[dp].ent[name[p]] IN
           IF old # 0
           THEN /\ ic' = Iget(Load(ic, dp), old)
                /\ Then(p, <<Iput(old), Iput(dp), With("link_bad", ip)>>)
                /\ UNCHANGED <<disk, adrift>>
           ELSE /\ ic' = Load(ic, dp)
                /\ disk' = [disk EXCEPT ![dp].ent[name[p]] = ip]
                /\ adrift' = IF Removed(dp) THEN adrift \cup {ip} ELSE adrift
                /\ Then(p, <<Iput(dp), Iput(ip), Do("commit")>>)
  /\ res' = [res EXCEPT ![p] = 0]
  /\ UNCHANGED <<trans, user, name, panicked>>

LinkBad(p) ==
  /\ At(p, "link_bad") /\ MayLock(Here(p))
  /\ LET ip == Here(p)
         c == Load(ic, ip) IN
     /\ ic' = [c EXCEPT ![ip].nlink = @ - 1]
     /\ disk' = iupdate(disk, ip, c[ip].nlink - 1)
     /\ Then(p, <<Iput(ip), Do("commit")>>)
  /\ UNCHANGED <<trans, user, res, name, panicked, adrift>>

\* unlink: lock the directory and find the entry; lock what it names, which
\* may take waiting; erase the entry; drop the link.
UnlinkBegin(p) ==
  /\ At(p, "unlink")
  /\ \/ res[p] = 0 /\ Then(p, <<>>) /\ UNCHANGED trans
     \/ res[p] # 0 /\ trans = NoProc /\ trans' = p /\ Then(p, <<With("unlink_dir", res[p])>>)
  /\ res' = [res EXCEPT ![p] = 0]
  /\ UNCHANGED <<disk, ic, user, name, panicked, adrift>>

UnlinkAnything(n) == TRUE

MayUnlink(n) == n \notin Dots

UnlinkDir(p) ==
  /\ At(p, "unlink_dir") /\ MayLock(Here(p)) /\ IsDir(Here(p))
  /\ LET dp == Here(p)
         ip == disk[dp].ent[name[p]] IN
     IF ~MayUnlink(name[p]) \/ ip = 0
     THEN ic' = Load(ic, dp) /\ Then(p, <<Iput(dp), Do("commit")>>)
     ELSE ic' = Iget(Lock(ic, dp, p), ip) /\ Then(p, <<Op("unlink_entry", ip, dp, NoPath)>>)
  /\ UNCHANGED <<disk, trans, user, res, name, panicked, adrift>>

isdirempty(i) == \A n \in Name : disk[i].ent[n] = 0

UnlinkEntry(p) ==
  /\ At(p, "unlink_entry") /\ MayLock(Here(p))
  /\ LET ip == Here(p)
         dp == todo[p][1].j
         c == Unlock(Lock(ic, ip, p), dp)
         isdir == c[ip].type = "dir"
         dplinks == IF isdir THEN c[dp].nlink - 1 ELSE c[dp].nlink IN
     IF c[ip].nlink < 1 THEN Panic("unlink: nlink < 1")
     ELSE /\ IF isdir /\ ~isdirempty(ip)
             THEN /\ ic' = Unlock(c, ip)
                  /\ Then(p, <<Iput(ip), Iput(dp), Do("commit")>>)
                  /\ UNCHANGED disk
             ELSE /\ ic' = [c EXCEPT ![dp].nlink = dplinks]
                  /\ disk' = [disk EXCEPT ![dp] = [@ EXCEPT !.nlink = dplinks, !.ent[name[p]] = 0]]
                  /\ Then(p, <<Iput(dp), With("unlink_dec", ip)>>)
          /\ UNCHANGED <<trans, user, res, name, panicked, adrift>>

UnlinkDec(p) ==
  /\ At(p, "unlink_dec")
  /\ LET ip == Here(p) IN
     /\ ic' = [ic EXCEPT ![ip] = [@ EXCEPT !.nlink = @ - 1, !.busy = NoProc]]
     /\ disk' = iupdate(disk, ip, ic[ip].nlink - 1)
     /\ Then(p, <<Iput(ip), Do("commit")>>)
  /\ UNCHANGED <<trans, user, res, name, panicked, adrift>>

\* exit closes the descriptors one by one and drops the working directory,
\* which is no transaction.
ExitStep(p) ==
  /\ At(p, "exit")
  /\ LET open == {f \in Fd : ofile[p][f] # 0}
         f == Min(open) IN
     IF open = {}
     THEN Then(p, <<Iput(cwd[p])>>) /\ cwd' = [cwd EXCEPT ![p] = 0] /\ UNCHANGED ofile
     ELSE /\ Then(p, <<Do("begin"), Iput(ofile[p][f]), Do("commit"), Do("exit")>>)
          /\ ofile' = [ofile EXCEPT ![p][f] = 0] /\ UNCHANGED cwd
  /\ UNCHANGED <<disk, ic, trans, calls, res, name, panicked, adrift>>

\* Where ilock is called, on the inode named there or on what namex returned,
\* and where that inode must be a directory.
LocksHere == {"walk", "walkparent", "found_file", "found", "link_inc", "link_bad", "unlink_dir", "unlink_entry"}
LocksResult == {"create_file", "create_dir", "create_dev", "open_read", "open_write", "chdir", "link_dir"}
NeedsDir == {"create_file", "create_dir", "create_dev", "link_dir", "unlink_dir"}

\* The other panics of the pieces above.
Panics(p) ==
  /\ panicked = "no" /\ todo[p] # <<>>
  /\ LET o == todo[p][1].op
         i == IF o \in LocksResult THEN res[p] ELSE Here(p) IN
     /\ o \in LocksResult \cup LocksHere
     /\ i # 0 /\ Unlocked(i)
     /\ \/ Typeless(i) /\ Panic("ilock: no type")
        \/ ~Typeless(i) /\ ~IsDir(i) /\ o \in NeedsDir /\ Panic("dirlookup not DIR")
        \/ /\ MayLock(i) /\ IsDir(i)
           /\ \E t \in DOMAIN CreateOp : o = CreateOp[t]
           /\ disk[i].ent[name[p]] = 0 /\ (\A k \in Inum : disk[k].type # "none")
           /\ Panic("ialloc: no inodes")

-----------------------------------------------------------------------------
Call(p, ops) == /\ panicked = "no" /\ todo[p] = <<>> /\ cwd[p] # 0 /\ calls < MaxCalls
                /\ todo' = [todo EXCEPT ![p] = ops] /\ calls' = calls + 1
                /\ UNCHANGED <<disk, ic, trans, res, name, panicked, adrift>>

\* read and fstat, write, and close of an open file.
FdCall(p) ==
  \E f \in Fd :
    /\ ofile[p][f] # 0
    /\ \/ Call(p, <<Do("use")>>) /\ UNCHANGED <<ofile, cwd>>
       \/ Call(p, <<Do("begin"), Do("use"), Do("commit")>>) /\ UNCHANGED <<ofile, cwd>>
       \/ /\ Call(p, <<Do("begin"), Iput(ofile[p][f]), Do("commit")>>)
          /\ ofile' = [ofile EXCEPT ![p][f] = 0] /\ UNCHANGED cwd

SysCall(p) ==
  \/ \E path \in Path :
       /\ \/ Call(p, <<Do("begin"), Nameiparent(path), Do("create_file"), Do("commit"), Do("open_file")>>)
          \/ \E o \in {"open_read", "open_write"} : Call(p, <<Namei(path), Do(o), Do("open_file")>>)
          \/ \E t \in {"dir", "dev"} :
               Call(p, <<Do("begin"), Nameiparent(path), Do(CreateOp[t]), Do("made"), Do("commit")>>)
          \/ Call(p, <<Namei(path), Do("chdir")>>)
          \/ Call(p, <<Nameiparent(path), Do("unlink")>>)
       /\ UNCHANGED <<ofile, cwd>>
  \/ \E l \in Links : Call(p, <<Namei(l[1]), Op("link", 0, 0, l[2])>>) /\ UNCHANGED <<ofile, cwd>>
  \/ Call(p, <<Do("exit")>>) /\ UNCHANGED <<ofile, cwd>>

Step(p) == \/ IputStep(p) \/ IfreeStep(p) \/ BeginTrans(p) \/ CommitTrans(p)
           \/ NamexStart(p) \/ NamexFails(p) \/ NamexParent(p) \/ NamexNext(p)
           \/ \E t \in DOMAIN CreateOp : Create(p, t)
           \/ CreateFound(p) \/ Made(p) \/ OpenLock(p) \/ OpenFile(p) \/ FileUse(p) \/ Chdir(p)
           \/ LinkBegin(p) \/ LinkInc(p) \/ LinkDir(p) \/ LinkBad(p)
           \/ UnlinkBegin(p) \/ UnlinkDir(p) \/ UnlinkEntry(p) \/ UnlinkDec(p)
           \/ Panics(p) \/ ExitStep(p)

Next == \E p \in Proc : Step(p) \/ SysCall(p) \/ FdCall(p)

Spec == Init /\ [][Next]_vars

\* Some process that can run does; as many calls as MaxCalls leave none behind.
FairSpec == Spec /\ WF_vars(\E p \in Proc : Step(p))

-----------------------------------------------------------------------------
(* Correctness.                                                             *)

\* The values of the variables.
TypeOK ==
  /\ disk \in [Inum -> [type : Type, nlink : Nat, ent : [Name \cup Dots -> 0 .. NINODES]]]
  /\ ic \in [Inum -> [ref : Nat, valid : BOOLEAN, busy : Proc \cup {NoProc}, type : Type, nlink : Nat]]
  /\ trans \in Proc \cup {NoProc}
  /\ ofile \in [Proc -> [Fd -> 0 .. NINODES]]
  /\ cwd \in [Proc -> 0 .. NINODES] /\ res \in [Proc -> 0 .. NINODES]
  /\ name \in [Proc -> Name \cup Dots]
  /\ adrift \subseteq Inum /\ calls \in 0 .. MaxCalls
  /\ panicked \in STRING /\ \A p \in Proc : \A k \in DOMAIN todo[p] : todo[p][k].op \in STRING

\* Every reference in the cache is held by somebody who will drop it: a
\* working directory, an open file or a call in progress (fs.c:122-127); no
\* error path of sysfile.c drops one too few or one too many.
RefsCounted ==
  panicked = "no" => \A i \in Inum :
    ic[i].ref = Quantify(Proc, LAMBDA p : cwd[p] = i)
              + Quantify(Proc, LAMBDA p : res[p] = i)
              + Quantify(Proc \X Fd, LAMBDA q : ofile[q[1]][q[2]] = i)
              + MapThenSumSet(LAMBDA p : Quantify(DOMAIN todo[p], LAMBDA k : todo[p][k].i = i)
                                         + Quantify(DOMAIN todo[p], LAMBDA k : todo[p][k].j = i), Proc)

\* What the cache says of an inode nobody holds locked is what the disk says:
\* every change was followed by iupdate, and freed entries are not believed.
CacheCoherent ==
  \A i \in Inum : ic[i].ref > 0 /\ ic[i].valid =>
     ic[i].type = disk[i].type /\ ic[i].nlink = disk[i].nlink

\* Together: ref, valid and the copied fields of every entry of the inode cache
\* are right on every path through the system calls, the failing ones included.
InodesCounted == TypeOK /\ RefsCounted /\ CacheCoherent

Entries(i) == {e \in Inum \X Name : disk[e[1]].ent[e[2]] = i}
Subdirs(i) == {d \in Inum \ {i} : disk[d].type = "dir" /\ disk[d].ent[".."] = i /\ ~Removed(d)}

\* Between transactions the link count of an inode is the number of entries
\* that name it, those ".." of its subdirectories included; the tree that a
\* crash would leave is consistent.  Inodes put into a directory that was
\* already removed are the exception: sysfile.c does not look for that.
LinksCounted ==
  trans = NoProc => \A i \in Inum \ adrift :
    disk[i].type # "none" =>
       disk[i].nlink = Cardinality(Entries(i)) + Cardinality(Subdirs(i)) + (IF i = ROOTINO THEN 1 ELSE 0)

\* A directory has one place in the tree, and its ".." leads back there.
DotDotIsParent ==
  trans = NoProc => \A i \in Inum \ {ROOTINO} :
    disk[i].type = "dir" => \A e \in Entries(i) : disk[i].ent[".."] = e[1] /\ Entries(i) = {e}

\* Together: what is on disk between two transactions is a tree.
TreeConsistent == LinksCounted /\ DotDotIsParent

\* iput frees an inode that no entry names and nobody else has; while it does,
\* without icache.lock, nobody gets hold of it (fs.c:321-333).  Only the ".."
\* of a removed directory can still lead there.
FreesOnlyUnused ==
  \A p \in Proc : At(p, "ifree") =>
     LET i == Here(p) IN
     /\ Entries(i) = {}
     /\ ic[i].ref = 1 \/ \E d \in Inum \ {i} : disk[d].type = "dir" /\ disk[d].nlink = 0 /\ disk[d].ent[".."] = i

\* The only panics are those for want of inodes, and two that take a removed
\* inode: freeing it outside a transaction, and following the ".." of a
\* removed directory to a parent that is gone too.
PanicsExplained ==
  panicked \in {"no", "ialloc: no inodes", "write outside of trans", "ilock: no type"}

\* An inode is freed inside a transaction of the process that frees it
\* (log.c:8-9: "Each system call that might write the file system should be
\* surrounded with begin_trans() and commit_trans() calls").
WritesInTransaction == \A p \in Proc : At(p, "ifree") => trans = p

\* Every system call returns, whatever locks and transactions the others hold
\* in between, unless the machine has stopped.
CallsReturn == \A p \in Proc : todo[p] # <<>> ~> (todo[p] = <<>> \/ panicked # "no")
=============================================================================
