--------------------------------- MODULE MCInode ---------------------------------
(* Instances of Inode for TLC. *)
EXTENDS Inode, TLC

CONSTANTS p1, p2, x, y

ProcSymmetry == Permutations(Procs)

Root(s) == [abs |-> TRUE, elems |-> s]
Here(s) == [abs |-> FALSE, elems |-> s]

open(path)   == [call |-> "open", path |-> path, write |-> TRUE]
create(path) == [call |-> "create", path |-> path]
mkdir(path)  == [call |-> "mkdir", path |-> path]
mknod(path)  == [call |-> "mknod", path |-> path]
unlink(path) == [call |-> "unlink", path |-> path]
chdir(path)  == [call |-> "chdir", path |-> path]
link(path, new) == [call |-> "link", path |-> path, new |-> new]

\* One name for a file and a directory; a directory that is removed while it is
\* somebody's current directory, while it is walked through, or while it is linked
\* to; several names of one file.
SomePrograms ==
  { {mkdir(Root(<<x>>)), create(Root(<<x>>)), unlink(Root(<<x>>)), open(Root(<<x>>))},
    {mkdir(Root(<<x>>)), unlink(Root(<<x>>)), chdir(Root(<<x>>)), create(Here(<<x>>))},
    {mkdir(Root(<<x>>)), unlink(Root(<<x>>)), mknod(Here(<<x>>)),
     create(Root(<<x, DOTDOT>>)), unlink(Root(<<x, DOTDOT>>))},
    {mkdir(Root(<<x>>)), unlink(Root(<<x>>)), mknod(Root(<<y>>)), link(Root(<<y>>), Root(<<x, y>>))},
    {create(Root(<<y>>)), unlink(Root(<<y>>)), link(Root(<<y>>), Root(<<x>>))} }

\* A directory x/y that is removed, and x after it.
NestedPrograms ==
  { {mkdir(Root(<<x>>)), mkdir(Root(<<x, y>>)), chdir(Root(<<x, y>>)), chdir(Here(<<DOTDOT>>)),
     unlink(Root(<<x, y>>)), unlink(Root(<<x>>))} }
================================================================================
