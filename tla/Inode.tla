---------------------------------- MODULE Inode ----------------------------------
(***************************************************************************)
(* Inodes and directories (os/kernel/fs.c, sysfile.c): the system calls    *)
(* that walk, create, link and remove names, run by several processes that *)
(* interleave wherever the code may sleep.  An inode has a state on disk   *)
(* (disk), a copy in the inode table (itable: reference count, valid flag  *)
(* and the copied fields) and a sleep-lock.  A table entry is named by its *)
(* inode number, since iget never makes a second entry for one.  File      *)
(* contents and blocks are left out; transactions are those of Log.        *)
(* Steps under one inode lock are one action, unless they let the lock of  *)
(* another inode, the table or a free inode on disk be seen in between.    *)
(***************************************************************************)
EXTENDS Naturals, Sequences, FiniteSets, FiniteSetsExt

CONSTANTS
  Procs, NoProc,
  NInodes,              \* sb.ninodes - 1: inodes are 1 .. NInodes
  Names,                \* what an entry can be called
  DOTDOT,
  Programs,             \* the sets of system calls that processes make together
  MaxLinks              \* bound: no link of a file that has so many links

\* A path is [abs, elems], elems a sequence over Names and DOTDOT ("." and repeated
\* slashes change nothing); new is meant for link, write for open.
ASSUME InodeAssumption ==
  /\ NoProc \notin Procs /\ DOTDOT \notin Names
  /\ NInodes \in Nat \ {0}
  /\ \A c \in UNION Programs :
       /\ c.call \in {"open", "create", "mkdir", "mknod", "unlink", "link", "chdir"}
       /\ c.path.elems \in Seq(Names \cup {DOTDOT})

VARIABLES
  calls,        \* the calls of this behaviour
  disk,         \* struct dinode: type and nlink of each inode
  dirs, up,     \* the entries of each directory; its ".." entry
  itable,       \* the inode table: ref, valid, type and nlink
  lock,         \* who holds ip->lock
  pc, op,       \* where each process is, and in which call
  rest,         \* namex: the path that is left
  ip, dp,       \* the inodes a call works on, 0 if none
  puts, after,  \* the iput calls to make, and where to go on
  cwd, file     \* the current directory and the open file (0: none)

fs   == <<disk, dirs, up>>
regs == <<op, rest, ip, dp>>
user == <<cwd, file>>
vars == <<calls, fs, itable, lock, pc, regs, puts, after, user>>

ROOTINO   == 1
Inums     == 1 .. NInodes
NoEntries == [n \in Names |-> 0]
Free      == [type |-> "free", nlink |-> 0]
Unused    == [ref |-> 0, valid |-> FALSE, type |-> "free", nlink |-> 0]
NoCall    == [call |-> "close"]

\* The table with the current directory of every process, and nobody in a call.
BootTable == [i \in Inums |-> IF i = ROOTINO THEN [Unused EXCEPT !.ref = Cardinality(Procs)]
                              ELSE Unused]
Each(v) == [p \in Procs |-> v]

\* A new file system, and processes in its root directory.
Init ==
  /\ calls \in Programs
  /\ disk = [i \in Inums |-> IF i = ROOTINO THEN [type |-> "dir", nlink |-> 1] ELSE Free]
  /\ dirs = [i \in Inums |-> NoEntries]
  /\ up = [i \in Inums |-> IF i = ROOTINO THEN ROOTINO ELSE 0]
  /\ itable = BootTable /\ lock = [i \in Inums |-> NoProc]
  /\ pc = Each("user") /\ op = Each(NoCall) /\ rest = Each(<<>>)
  /\ ip = Each(0) /\ dp = Each(0) /\ puts = Each(<<>>) /\ after = Each("end")
  /\ cwd = Each(ROOTINO) /\ file = Each(0)

--------------------------------------------------------------------------------
(* The operations on inodes, as parts of steps. *)

\* Mutant: an entry that is there already is not found.
iget_new(T, i) == [T EXCEPT ![i] = [Unused EXCEPT !.ref = 1]]

\* iget: a new entry is not valid, an old one is shared.  T is the table before.
iget(T, i) ==
  [T EXCEPT ![i] = IF @.ref > 0 THEN [@ EXCEPT !.ref = @ + 1]
                   ELSE [Unused EXCEPT !.ref = 1]]

\* ilock: the caller gets the lock, and a copy that is not valid is read.
can_lock(i) == lock[i] = NoProc

ilock(i) ==
  [itable EXCEPT ![i] = IF @.valid THEN @
                        ELSE [ref |-> @.ref, valid |-> TRUE,
                              type |-> disk[i].type, nlink |-> disk[i].nlink]]

\* The copy of a locked inode.
copy(i) == ilock(i)[i]

\* ip->nlink = n; iupdate(ip): in the table and on disk.
set_nlink(F, i, n) == [F EXCEPT ![i].nlink = n]

\* dirlookup, 0 if there is no such entry.
dirlookup(d, n) == IF n = DOTDOT THEN up[d] ELSE dirs[d][n]

Goto(p, l) == pc' = [pc EXCEPT ![p] = l]

\* iput, or iunlockput if the lock is held, of each inode in s, then go on at l.
Put(p, s, l) ==
  /\ puts' = [puts EXCEPT ![p] = s]
  /\ after' = [after EXCEPT ![p] = l]
  /\ Goto(p, "iput")

NoPut == UNCHANGED <<puts, after>>

Clear(r, p) == [r EXCEPT ![p] = 0]

--------------------------------------------------------------------------------
(* iunlockput, iput *)

iunlock(p) ==
  /\ pc[p] = "iput"
  /\ lock[Head(puts[p])] = p
  /\ lock' = [lock EXCEPT ![Head(puts[p])] = NoProc]
  /\ UNCHANGED <<fs, itable, pc, regs, puts, after, user>>

frees(i) == itable[i].ref = 1 /\ itable[i].valid /\ itable[i].nlink = 0

\* ip->ref--; nobody sees what is left in an entry without references.
Drop(p, i) ==
  /\ itable' = [itable EXCEPT ![i] = IF @.ref = 1 THEN Unused ELSE [@ EXCEPT !.ref = @ - 1]]
  /\ puts' = [puts EXCEPT ![p] = Tail(@)]
  /\ IF Len(puts[p]) = 1 THEN Goto(p, after[p]) /\ after' = [after EXCEPT ![p] = "end"]
                         ELSE Goto(p, "iput") /\ UNCHANGED after

iput(p) ==
  /\ pc[p] = "iput"
  /\ LET i == Head(puts[p])
     IN  /\ lock[i] # p
         /\ \/ ~frees(i) /\ Drop(p, i) /\ UNCHANGED lock
            \/ /\ frees(i) /\ can_lock(i)
               /\ lock' = [lock EXCEPT ![i] = p]
               /\ Goto(p, "iput_free")
               /\ UNCHANGED <<itable, puts, after>>
  /\ UNCHANGED <<fs, regs, user>>

\* itrunc(ip); ip->type = 0; iupdate(ip): from here ialloc may take the inode.
iput_free(p) ==
  /\ pc[p] = "iput_free"
  /\ LET i == Head(puts[p])
     IN  /\ disk' = [disk EXCEPT ![i].type = "free"]
         /\ dirs' = [dirs EXCEPT ![i] = NoEntries]
         /\ up' = [up EXCEPT ![i] = 0]
         /\ itable' = [itable EXCEPT ![i].type = "free"]
  /\ Goto(p, "iput_unlock")
  /\ UNCHANGED <<lock, regs, puts, after, user>>

\* ip->valid = 0; releasesleep(&ip->lock)
iput_unlock(p) ==
  /\ pc[p] = "iput_unlock"
  /\ LET i == Head(puts[p])
     IN  /\ itable' = [itable EXCEPT ![i].valid = FALSE]
         /\ lock' = [lock EXCEPT ![i] = NoProc]
  /\ Goto(p, "iput_drop")
  /\ UNCHANGED <<fs, regs, puts, after, user>>

iput_drop(p) ==
  /\ pc[p] = "iput_drop"
  /\ Drop(p, Head(puts[p]))
  /\ UNCHANGED <<fs, lock, regs, user>>

--------------------------------------------------------------------------------
(* namex *)

start(p, path) == IF path.abs THEN ROOTINO ELSE cwd[p]

\* A system call up to begin_op and the iget or idup of namex.
call(p, c) ==
  /\ pc[p] = "user"
  /\ c.call = "link" => \A i \in Inums : disk[i].type = "dir" \/ disk[i].nlink < MaxLinks
  /\ op' = [op EXCEPT ![p] = c]
  /\ rest' = [rest EXCEPT ![p] = c.path.elems]
  /\ dp' = [dp EXCEPT ![p] = start(p, c.path)]
  /\ itable' = iget(itable, start(p, c.path))
  /\ Goto(p, "walk")
  /\ UNCHANGED <<fs, lock, ip, puts, after, user>>

\* The second path of link is looked up when ip is known.
linking(p) == op[p].call = "link" /\ ip[p] # 0

nameiparent(p) == op[p].call \in {"unlink", "create", "mkdir", "mknod"} \/ linking(p)

\* Where a call goes on when a path leads nowhere.
fails(p) == IF linking(p) THEN "link_bad" ELSE "end"

\* One pass of the loop; the last one of nameiparent leaves the name in rest.
namex(p) ==
  /\ pc[p] = "walk" /\ rest[p] # <<>>
  /\ can_lock(dp[p])
  /\ LET d    == dp[p]
         next == dirlookup(d, Head(rest[p]))
         isdir == copy(d).type = "dir"
         last == nameiparent(p) /\ Len(rest[p]) = 1
     IN  \/ /\ isdir /\ last
            /\ itable' = ilock(d)
            /\ Goto(p, "found")
            /\ UNCHANGED <<rest, dp>> /\ NoPut
         \/ /\ isdir /\ ~last /\ next # 0
            /\ itable' = iget(ilock(d), next)
            /\ dp' = [dp EXCEPT ![p] = next]
            /\ rest' = [rest EXCEPT ![p] = Tail(@)]
            /\ Put(p, <<d>>, "walk")
         \/ /\ ~isdir \/ (~last /\ next = 0)
            /\ itable' = ilock(d)
            /\ dp' = Clear(dp, p)
            /\ Put(p, <<d>>, fails(p))
            /\ UNCHANGED rest
  /\ UNCHANGED <<fs, lock, op, ip, user>>

namex_ends(p) ==
  /\ pc[p] = "walk" /\ rest[p] = <<>>
  /\ dp' = Clear(dp, p)
  /\ \/ nameiparent(p) /\ Put(p, <<dp[p]>>, fails(p)) /\ UNCHANGED ip
     \/ /\ ~nameiparent(p)
        /\ ip' = [ip EXCEPT ![p] = dp[p]]
        /\ Goto(p, "found") /\ NoPut
  /\ UNCHANGED <<fs, itable, lock, op, rest, user>>

At(p, l, C) == pc[p] = l /\ op[p].call \in C
name(p) == Head(rest[p])

--------------------------------------------------------------------------------
(* open without O_CREATE, chdir, close *)

\* filealloc and fdalloc give ip a descriptor, or one of them fails.
opened(p) ==
  \/ /\ file[p] = 0
     /\ file' = [file EXCEPT ![p] = ip[p]]
     /\ Goto(p, "end") /\ NoPut
     /\ lock' = [lock EXCEPT ![ip[p]] = NoProc]
  \/ Put(p, <<ip[p]>>, "end") /\ UNCHANGED <<file, lock>>

sys_open(p) ==
  /\ At(p, "found", {"open"}) /\ can_lock(ip[p])
  /\ itable' = ilock(ip[p])
  /\ \/ copy(ip[p]).type = "dir" /\ op[p].write /\ Put(p, <<ip[p]>>, "end") /\ UNCHANGED <<file, lock>>
     \/ (copy(ip[p]).type = "dir" => ~op[p].write) /\ opened(p)
  /\ ip' = Clear(ip, p)
  /\ UNCHANGED <<fs, op, rest, dp, cwd>>

\* p->cwd is set after end_op, which nobody else can tell.
sys_chdir(p) ==
  /\ At(p, "found", {"chdir"}) /\ can_lock(ip[p])
  /\ itable' = ilock(ip[p])
  /\ \/ /\ copy(ip[p]).type = "dir"
        /\ cwd' = [cwd EXCEPT ![p] = ip[p]]
        /\ Put(p, <<cwd[p]>>, "end")
     \/ copy(ip[p]).type # "dir" /\ Put(p, <<ip[p]>>, "end") /\ UNCHANGED cwd
  /\ ip' = Clear(ip, p)
  /\ UNCHANGED <<fs, lock, op, rest, dp, file>>

\* fileclose of the last descriptor of the file.
fileclose(p) ==
  /\ pc[p] = "user" /\ file[p] # 0
  /\ file' = Clear(file, p)
  /\ Put(p, <<file[p]>>, "end")
  /\ UNCHANGED <<fs, itable, lock, regs, cwd>>

--------------------------------------------------------------------------------
(* link *)

\* Mutant: the link is not counted before it is made.
linked_late(n) == n

linked(n) == n + 1

\* The first path is found: one more link, then the second path.
sys_link(p) ==
  /\ At(p, "found", {"link"}) /\ dp[p] = 0
  /\ can_lock(ip[p])
  /\ LET i == ip[p]
         c == copy(i)
         new == op[p].new
     IN  \/ /\ c.type = "dir"
            /\ itable' = ilock(i)
            /\ ip' = Clear(ip, p)
            /\ Put(p, <<i>>, "end")
            /\ UNCHANGED <<disk, rest, dp>>
         \/ /\ c.type # "dir"
            /\ itable' = iget(set_nlink(ilock(i), i, linked(c.nlink)), start(p, new))
            /\ disk' = set_nlink(disk, i, linked(c.nlink))
            /\ rest' = [rest EXCEPT ![p] = new.elems]
            /\ dp' = [dp EXCEPT ![p] = start(p, new)]
            /\ Goto(p, "walk")
            /\ UNCHANGED ip /\ NoPut
  /\ UNCHANGED <<dirs, up, lock, op, user>>

\* dirlink into the second path; the iput of an entry it finds there changes
\* nothing, and the directory may be full.
link_dirlink(p) ==
  /\ At(p, "found", {"link"}) /\ dp[p] # 0
  /\ can_lock(dp[p])
  /\ itable' = ilock(dp[p])
  /\ \/ /\ dirlookup(dp[p], name(p)) = 0
        /\ dirs' = [dirs EXCEPT ![dp[p]][name(p)] = ip[p]]
        /\ ip' = Clear(ip, p)
        /\ Put(p, <<dp[p], ip[p]>>, "end")
     \/ Put(p, <<dp[p]>>, "link_bad") /\ UNCHANGED <<dirs, ip>>
  /\ dp' = Clear(dp, p)
  /\ UNCHANGED <<disk, up, lock, op, rest, user>>

link_bad(p) ==
  /\ pc[p] = "link_bad" /\ can_lock(ip[p])
  /\ LET n == copy(ip[p]).nlink - 1
     IN  /\ itable' = set_nlink(ilock(ip[p]), ip[p], n)
         /\ disk' = set_nlink(disk, ip[p], n)
  /\ ip' = Clear(ip, p)
  /\ Put(p, <<ip[p]>>, "end")
  /\ UNCHANGED <<dirs, up, lock, op, rest, dp, user>>

--------------------------------------------------------------------------------
(* unlink *)

\* Mutant: ".." may be unlinked.
unlinkable_any(p) == dirlookup(dp[p], name(p))

\* The inode of the entry to remove, 0 if there is none or it is "..".
unlinkable(p) == IF name(p) = DOTDOT THEN 0 ELSE dirlookup(dp[p], name(p))

sys_unlink(p) ==
  /\ At(p, "found", {"unlink"}) /\ can_lock(dp[p])
  /\ LET i == unlinkable(p)
     IN  \/ /\ i # 0
            /\ itable' = iget(ilock(dp[p]), i)
            /\ lock' = [lock EXCEPT ![dp[p]] = p]
            /\ ip' = [ip EXCEPT ![p] = i]
            /\ Goto(p, "unlink_ip")
            /\ UNCHANGED dp /\ NoPut
         \/ /\ i = 0
            /\ itable' = ilock(dp[p])
            /\ dp' = Clear(dp, p)
            /\ Put(p, <<dp[p]>>, "end")
            /\ UNCHANGED <<lock, ip>>
  /\ UNCHANGED <<fs, op, rest, user>>

isdirempty(i) == dirs[i] = NoEntries

\* ilock(ip) with dp locked; then the entry goes.
unlink_ip(p) ==
  /\ pc[p] = "unlink_ip" /\ can_lock(ip[p])
  /\ lock' = [lock EXCEPT ![ip[p]] = p]
  /\ dp' = Clear(dp, p)
  /\ LET dir == copy(ip[p]).type = "dir"
         n   == itable[dp[p]].nlink - 1
     IN  \/ /\ dir /\ ~isdirempty(ip[p])
            /\ itable' = ilock(ip[p])
            /\ ip' = Clear(ip, p)
            /\ Put(p, <<ip[p], dp[p]>>, "end")
            /\ UNCHANGED <<disk, dirs>>
         \/ /\ ~dir \/ isdirempty(ip[p])
            /\ dirs' = [dirs EXCEPT ![dp[p]][name(p)] = 0]
            /\ itable' = IF dir THEN set_nlink(ilock(ip[p]), dp[p], n) ELSE ilock(ip[p])
            /\ disk' = IF dir THEN set_nlink(disk, dp[p], n) ELSE disk
            /\ Put(p, <<dp[p]>>, "unlink_dec")
            /\ UNCHANGED ip
  /\ UNCHANGED <<up, op, rest, user>>

unlink_dec(p) ==
  /\ pc[p] = "unlink_dec"
  /\ itable' = set_nlink(itable, ip[p], itable[ip[p]].nlink - 1)
  /\ disk' = set_nlink(disk, ip[p], itable[ip[p]].nlink - 1)
  /\ ip' = Clear(ip, p)
  /\ Put(p, <<ip[p]>>, "end")
  /\ UNCHANGED <<dirs, up, lock, op, rest, dp, user>>

--------------------------------------------------------------------------------
(* create: open with O_CREATE, mkdir, mknod *)

Creating == {"create", "mkdir", "mknod"}
type_of(c) == CASE c = "create" -> "file" [] c = "mkdir" -> "dir" [] c = "mknod" -> "dev"

\* The entry is there already.
create_exists(p) ==
  /\ At(p, "found", Creating) /\ can_lock(dp[p])
  /\ LET i == dirlookup(dp[p], name(p))
     IN  /\ i # 0
         /\ itable' = iget(ilock(dp[p]), i)
         /\ ip' = [ip EXCEPT ![p] = i]
  /\ dp' = Clear(dp, p)
  /\ Put(p, <<dp[p]>>, "create_found")
  /\ UNCHANGED <<fs, lock, op, rest, user>>

create_found(p) ==
  /\ pc[p] = "create_found" /\ can_lock(ip[p])
  /\ itable' = ilock(ip[p])
  /\ \/ op[p].call = "create" /\ copy(ip[p]).type # "dir" /\ opened(p)
     \/ /\ op[p].call # "create" \/ copy(ip[p]).type = "dir"
        /\ Put(p, <<ip[p]>>, "end")
        /\ UNCHANGED <<file, lock>>
  /\ ip' = Clear(ip, p)
  /\ UNCHANGED <<fs, op, rest, dp, cwd>>

\* ialloc takes the first free inode on disk; the directory stays locked.
ialloc(p) ==
  /\ At(p, "found", Creating) /\ can_lock(dp[p])
  /\ dirlookup(dp[p], name(p)) = 0
  /\ LET free == {i \in Inums : disk[i].type = "free"}
         i    == Min(free)
     IN  \/ /\ free # {}
            /\ disk' = [disk EXCEPT ![i] = [type |-> type_of(op[p].call), nlink |-> 0]]
            /\ itable' = iget(ilock(dp[p]), i)
            /\ lock' = [lock EXCEPT ![dp[p]] = p]
            /\ ip' = [ip EXCEPT ![p] = i]
            /\ Goto(p, "create_ip")
            /\ UNCHANGED dp /\ NoPut
         \/ /\ free = {}
            /\ itable' = ilock(dp[p])
            /\ dp' = Clear(dp, p)
            /\ Put(p, <<dp[p]>>, "end")
            /\ UNCHANGED <<disk, lock, ip>>
  /\ UNCHANGED <<dirs, up, op, rest, user>>

\* The new inode gets its link, ".." and its entry; dirlink may fail.
create_ip(p) ==
  /\ pc[p] = "create_ip" /\ can_lock(ip[p])
  /\ lock' = [lock EXCEPT ![ip[p]] = p]
  /\ dp' = Clear(dp, p)
  /\ LET i == ip[p]
         d == dp[p]
         dir == op[p].call = "mkdir"
         made(F) == set_nlink(IF dir THEN [F EXCEPT ![d].nlink = @ + 1] ELSE F, i, 1)
     IN  \/ /\ dirs' = [dirs EXCEPT ![d][name(p)] = i]
            /\ up' = IF dir THEN [up EXCEPT ![i] = d] ELSE up
            /\ itable' = made(ilock(i))
            /\ disk' = made(disk)
            /\ Put(p, <<d>>, "create_done")
            /\ UNCHANGED ip
         \/ /\ itable' = set_nlink(ilock(i), i, 0)
            /\ disk' = set_nlink(disk, i, 0)
            /\ ip' = Clear(ip, p)
            /\ Put(p, <<i, d>>, "end")
            /\ UNCHANGED <<dirs, up>>
  /\ UNCHANGED <<op, rest, user>>

create_done(p) ==
  /\ pc[p] = "create_done"
  /\ \/ op[p].call = "create" /\ opened(p)
     \/ op[p].call # "create" /\ Put(p, <<ip[p]>>, "end") /\ UNCHANGED <<file, lock>>
  /\ ip' = Clear(ip, p)
  /\ UNCHANGED <<fs, itable, op, rest, dp, cwd>>

--------------------------------------------------------------------------------
(* Transactions *)

end_op(p) ==
  /\ pc[p] = "end"
  /\ Goto(p, "user")
  /\ op' = [op EXCEPT ![p] = NoCall]
  /\ rest' = [rest EXCEPT ![p] = <<>>]
  /\ UNCHANGED <<fs, itable, lock, ip, dp, puts, after, user>>

ireclaim == {i \in Inums : disk[i].type # "free" /\ disk[i].nlink = 0}

\* A crash, the log's recovery, and ireclaim, which frees orphans one by one and
\* does so again if it is interrupted.  Since the log commits when no operation is
\* under way, a crash leads where one right after the last commit would.
crash ==
  /\ \A p \in Procs : pc[p] = "user"
  /\ LET gone == ireclaim
     IN  /\ disk' = [i \in Inums |-> IF i \in gone THEN Free ELSE disk[i]]
         /\ dirs' = [i \in Inums |-> IF i \in gone THEN NoEntries ELSE dirs[i]]
         /\ up' = [i \in Inums |-> IF i \in gone THEN 0 ELSE up[i]]
  /\ itable' = BootTable /\ lock' = [i \in Inums |-> NoProc]
  /\ pc' = Each("user") /\ op' = Each(NoCall) /\ rest' = Each(<<>>)
  /\ ip' = Each(0) /\ dp' = Each(0) /\ puts' = Each(<<>>) /\ after' = Each("end")
  /\ cwd' = Each(ROOTINO) /\ file' = Each(0)

--------------------------------------------------------------------------------
Step(p) ==
  \/ iunlock(p) \/ iput(p) \/ iput_free(p) \/ iput_unlock(p) \/ iput_drop(p)
  \/ namex(p) \/ namex_ends(p)
  \/ sys_open(p) \/ sys_chdir(p)
  \/ sys_link(p) \/ link_dirlink(p) \/ link_bad(p)
  \/ sys_unlink(p) \/ unlink_ip(p) \/ unlink_dec(p)
  \/ create_exists(p) \/ create_found(p) \/ ialloc(p) \/ create_ip(p) \/ create_done(p)
  \/ end_op(p)

Next ==
  /\ \/ \E p \in Procs : Step(p) \/ fileclose(p) \/ \E c \in calls : call(p, c)
     \/ crash
  /\ UNCHANGED calls

Spec == Init /\ [][Next]_vars

--------------------------------------------------------------------------------
(* Properties. *)

\* The references process p has to inode i.
Held(p, i) ==
  LET one(b) == IF b THEN 1 ELSE 0
  IN  one(cwd[p] = i) + one(file[p] = i) + one(ip[p] = i) + one(dp[p] = i)
        + Cardinality({k \in DOMAIN puts[p] : puts[p][k] = i})

\* The inode table counts exactly the references there are, so that an inode is
\* neither freed while somebody uses it nor kept when nobody does.
InodeRefsExact ==
  \A i \in Inums : itable[i].ref = MapThenSumSet(LAMBDA p : Held(p, i), Procs)

\* The inode p is about to lock.
Wants(p) ==
  CASE pc[p] = "walk" /\ rest[p] # <<>> -> dp[p]
    [] pc[p] = "found" /\ dp[p] # 0     -> dp[p]
    [] pc[p] = "found" /\ dp[p] = 0     -> ip[p]
    [] pc[p] \in {"link_bad", "unlink_ip", "create_found", "create_ip"} -> ip[p]
    [] OTHER -> 0

\* No assertion fails: whoever locks an inode finds it allocated ("ilock: no type"),
\* looks names up in directories ("dirlookup not DIR") and removes links that are
\* counted ("unlink: nlink < 1"), and an iput that frees an inode never has to
\* wait for its lock.
NoFsPanic ==
  \A p \in Procs :
    /\ LET i == Wants(p)
       IN  i # 0 /\ can_lock(i) =>
             /\ copy(i).type # "free"
             /\ pc[p] = "found" /\ dp[p] # 0 => copy(i).type = "dir"
             /\ pc[p] = "unlink_ip" => copy(i).nlink >= 1
    /\ pc[p] = "iput" /\ lock[Head(puts[p])] # p /\ frees(Head(puts[p]))
         => can_lock(Head(puts[p]))

\* Processes never wait for each other's inode locks in a circle, whatever the
\* paths: only a directory and something in it are ever locked together.
NoLockCycle ==
  LET waits == {p \in Procs : Wants(p) # 0 /\ ~can_lock(Wants(p))}
  IN  ~ \E S \in SUBSET waits : S # {} /\ \A p \in S : lock[Wants(p)] \in S

Entries(i) == {<<d, n>> \in Inums \X Names : dirs[d][n] = i}

\* The links of i: entries, and for a directory the ".." of its subdirectories.
Links(i) ==
  Cardinality(Entries(i))
    + Cardinality({s \in Inums : disk[s].type = "dir" /\ \E n \in Names : dirs[i][n] = s})

\* On disk, at every moment and after every crash, no link is uncounted: what a
\* directory lists is allocated and has a link count that covers all its names.
LinksEnough ==
  \A i \in Inums :
    /\ disk[i].nlink >= Links(i)
    /\ Entries(i) # {} => disk[i].type # "free"

\* An inode without links is freed at last: as long as it is allocated somebody has
\* a reference to it, whose iput frees it.
NoOrphan ==
  \A i \in Inums : disk[i].type # "free" /\ disk[i].nlink = 0 => itable[i].ref > 0
================================================================================
