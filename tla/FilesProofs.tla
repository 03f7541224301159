------------------------------ MODULE FilesProofs ------------------------------
(***************************************************************************)
(* Proofs about open files (Files), for any numbers of processes,          *)
(* descriptors, files and pages: the counts are exact, an end of a pipe is *)
(* open as long as someone has it, and no object is freed that a file      *)
(* refers to.  What files refer to is in FilesObjects; here the references *)
(* are counted, and the two halves put together.                           *)
(*                                                                         *)
(* Then semaphores (Sem), for any number of processes: resources are       *)
(* neither made nor lost.                                                  *)
(***************************************************************************)
EXTENDS FilesObjects, FiniteSetTheorems

Bit(b) == IF b THEN 1 ELSE 0

LEMMA BitType == \A b : Bit(b) \in {0, 1}
BY DEF Bit

\* Two sets that differ at most in x.
LEMMA OnePlace ==
  ASSUME NEW S, NEW T, NEW x, IsFiniteSet(S), \A y : y # x => (y \in T <=> y \in S)
  PROVE  /\ IsFiniteSet(T)
         /\ Cardinality(T) = Cardinality(S) + Bit(x \in T) - Bit(x \in S)
<1>1. IsFiniteSet(S \cup {x}) /\ IsFiniteSet(S \ {x})
      /\ Cardinality(S \cup {x}) = (IF x \in S THEN Cardinality(S) ELSE Cardinality(S) + 1)
      /\ Cardinality(S \ {x}) = (IF x \in S THEN Cardinality(S) - 1 ELSE Cardinality(S))
  BY FS_AddElement, FS_RemoveElement, Zenon
<1>2. Cardinality(S) \in Nat
  BY FS_CardinalityType, Zenon
<1>3. CASE x \in T
  <2>1. T = S \cup {x}
    BY <1>3
  <2>. QED BY <1>1, <1>2, <1>3, <2>1, SMT DEF Bit
<1>4. CASE x \notin T
  <2>1. T = S \ {x}
    BY <1>4
  <2>. QED BY <1>1, <1>2, <1>4, <2>1, SMT DEF Bit
<1>. QED BY <1>3, <1>4

\* At most in x and in z.
LEMMA TwoPlaces ==
  ASSUME NEW S, NEW T, NEW x, NEW z, IsFiniteSet(S), x # z,
         \A y : y # x /\ y # z => (y \in T <=> y \in S)
  PROVE  /\ IsFiniteSet(T)
         /\ Cardinality(T) = (Cardinality(S) + Bit(x \in T) - Bit(x \in S))
                             + Bit(z \in T) - Bit(z \in S)
<1> DEFINE M == {y \in S \cup T : IF y = x THEN y \in T ELSE y \in S}
<1>1. /\ \A y : y # x => (y \in M <=> y \in S)
      /\ \A y : y # z => (y \in T <=> y \in M)
      /\ (x \in M <=> x \in T) /\ (z \in M <=> z \in S)
  OBVIOUS
<1> HIDE DEF M
<1>2. IsFiniteSet(M) /\ Cardinality(M) = Cardinality(S) + Bit(x \in M) - Bit(x \in S)
  BY <1>1, OnePlace, Zenon
<1>3. IsFiniteSet(M) /\ \A y : y # z => (y \in T <=> y \in M)
  BY <1>1, <1>2
<1>4. IsFiniteSet(T) /\ Cardinality(T) = Cardinality(M) + Bit(z \in T) - Bit(z \in M)
  BY <1>3, OnePlace, Zenon
<1>5. Bit(x \in M) = Bit(x \in T) /\ Bit(z \in M) = Bit(z \in S)
  BY <1>1 DEF Bit
<1>. QED BY <1>2, <1>4, <1>5

\* The number of references to f.
Refs(f) == Cardinality(InOfile(f)) + Cardinality(InHand(f)) + Cardinality(InClosing(f))

Finite(f) == IsFiniteSet(InOfile(f)) /\ IsFiniteSet(InHand(f)) /\ IsFiniteSet(InClosing(f))

\* The references are finitely many, and ref counts them.
Counted == \A f \in Files : Finite(f) /\ ref[f] = Refs(f)

LEMMA CountedExact == Counted => FileRefsExact
BY Zenon DEF Counted, Refs, FileRefsExact

--------------------------------------------------------------------------------
(* The references: each step moves them in one place of each kind. *)

\* A descriptor changes from u to v.
SetFd(p, fd, u, v) == ofile[p][fd] = u /\ ofile' = [ofile EXCEPT ![p][fd] = v]

LEMMA FdCount ==
  ASSUME TypeOK, NEW p \in Procs, NEW fd \in Fds, NEW u, NEW v,
         SetFd(p, fd, u, v), NEW f \in Files, IsFiniteSet(InOfile(f))
  PROVE  /\ IsFiniteSet(InOfile(f)')
         /\ Cardinality(InOfile(f)')
              = Cardinality(InOfile(f)) + Bit(v = f) - Bit(u = f)
<1> DEFINE x == <<p, fd>>
<1>1. ASSUME NEW y, y # x PROVE y \in InOfile(f)' <=> y \in InOfile(f)
  <2>1. y \in Procs \X Fds => ofile'[y[1]][y[2]] = ofile[y[1]][y[2]]
    BY <1>1 DEF TypeOK, SetFd
  <2>. QED BY <2>1 DEF InOfile
<1>2. (x \in InOfile(f)' <=> v = f) /\ (x \in InOfile(f) <=> u = f)
  BY DEF InOfile, TypeOK, SetFd
<1> HIDE DEF x
<1>3. \A y : y # x => (y \in InOfile(f)' <=> y \in InOfile(f))
  BY <1>1
<1>4. /\ IsFiniteSet(InOfile(f)')
      /\ Cardinality(InOfile(f)')
           = Cardinality(InOfile(f)) + Bit(x \in InOfile(f)') - Bit(x \in InOfile(f))
  BY <1>3, OnePlace, Zenon
<1>5. Bit(x \in InOfile(f)') = Bit(v = f) /\ Bit(x \in InOfile(f)) = Bit(u = f)
  BY <1>2, Zenon DEF Bit
<1>. QED BY <1>4, <1>5, Zenon

LEMMA HandCount ==
  ASSUME TypeOK, NEW p \in Procs, NEW o, Goto(p, o),
         NEW f \in Files, IsFiniteSet(InHand(f))
  PROVE  /\ IsFiniteSet(InHand(f)')
         /\ Cardinality(InHand(f)')
              = Cardinality(InHand(f)) + Bit(f \in o.files) - Bit(f \in op[p].files)
<1>1. \A y : y # p => (y \in InHand(f)' <=> y \in InHand(f))
  BY DEF InHand, TypeOK, Goto
<1>2. (p \in InHand(f)' <=> f \in o.files) /\ (p \in InHand(f) <=> f \in op[p].files)
  BY DEF InHand, TypeOK, Goto
<1>3. /\ IsFiniteSet(InHand(f)')
      /\ Cardinality(InHand(f)')
           = Cardinality(InHand(f)) + Bit(p \in InHand(f)') - Bit(p \in InHand(f))
  BY <1>1, OnePlace, Zenon
<1>4. Bit(p \in InHand(f)') = Bit(f \in o.files) /\ Bit(p \in InHand(f)) = Bit(f \in op[p].files)
  BY <1>2, Zenon DEF Bit
<1>. QED BY <1>3, <1>4, Zenon

LEMMA ClosingCount ==
  ASSUME TypeOK, NEW p \in Procs, NEW fs, Close(p, fs),
         NEW f \in Files, IsFiniteSet(InClosing(f))
  PROVE  /\ IsFiniteSet(InClosing(f)')
         /\ Cardinality(InClosing(f)')
              = Cardinality(InClosing(f)) + Bit(f \in fs) - Bit(f \in closing[p])
<1>1. \A y : y # p => (y \in InClosing(f)' <=> y \in InClosing(f))
  BY DEF InClosing, TypeOK, Close
<1>2. (p \in InClosing(f)' <=> f \in fs) /\ (p \in InClosing(f) <=> f \in closing[p])
  BY DEF InClosing, TypeOK, Close
<1>3. /\ IsFiniteSet(InClosing(f)')
      /\ Cardinality(InClosing(f)')
           = Cardinality(InClosing(f)) + Bit(p \in InClosing(f)') - Bit(p \in InClosing(f))
  BY <1>1, OnePlace, Zenon
<1>4. Bit(p \in InClosing(f)') = Bit(f \in fs) /\ Bit(p \in InClosing(f)) = Bit(f \in closing[p])
  BY <1>2, Zenon DEF Bit
<1>. QED BY <1>3, <1>4, Zenon

LEMMA SameFds ==
  ASSUME ofile' = ofile, NEW f
  PROVE  InOfile(f)' = InOfile(f)
BY DEF InOfile

LEMMA SameHands ==
  ASSUME op' = op, NEW f
  PROVE  InHand(f)' = InHand(f)
BY DEF InHand

LEMMA SameClosing ==
  ASSUME closing' = closing, NEW f
  PROVE  InClosing(f)' = InClosing(f)
BY DEF InClosing

\* A file without references has no holder.
LEMMA NoRefs ==
  ASSUME Counted, NEW f \in Files, ref[f] = 0
  PROVE  /\ \A q \in Procs : f \notin op[q].files /\ f \notin closing[q]
         /\ \A q \in Procs, fd \in Fds : ofile[q][fd] # f
<1>1. Finite(f) /\ ref[f] = Refs(f)
  BY DEF Counted
<1>2. /\ Cardinality(InOfile(f)) \in Nat /\ Cardinality(InHand(f)) \in Nat
      /\ Cardinality(InClosing(f)) \in Nat
  BY <1>1, FS_CardinalityType, Zenon DEF Finite
<1>3. /\ Cardinality(InOfile(f)) = 0 /\ Cardinality(InHand(f)) = 0
      /\ Cardinality(InClosing(f)) = 0
  BY <1>1, <1>2, SMT DEF Refs
<1>4. InOfile(f) = {} /\ InHand(f) = {} /\ InClosing(f) = {}
  BY <1>1, <1>3, FS_EmptySet, Zenon DEF Finite
<1>5. \A q \in Procs : f \notin op[q].files /\ f \notin closing[q]
  BY <1>4 DEF InHand, InClosing
<1>6. ASSUME NEW q \in Procs, NEW fd \in Fds PROVE ofile[q][fd] # f
  <2>1. <<q, fd>> \in Procs \X Fds /\ <<q, fd>>[1] = q /\ <<q, fd>>[2] = fd
    OBVIOUS
  <2>. QED BY <1>4, <2>1, Zenon DEF InOfile
<1>. QED BY <1>5, <1>6

\* A file with a holder has a reference.
LEMMA HasRef ==
  ASSUME TypeOK, Counted, NEW f \in Files, NEW p \in Procs,
         f \in op[p].files \/ f \in closing[p] \/ \E fd \in Fds : ofile[p][fd] = f
  PROVE  ref[f] >= 1
<1>1. ref[f] # 0
  BY NoRefs
<1>. QED BY <1>1 DEF TypeOK

LEMMA CountType ==
  ASSUME Counted, NEW f \in Files
  PROVE  /\ Finite(f) /\ ref[f] = Refs(f)
         /\ Cardinality(InOfile(f)) \in Nat /\ Cardinality(InHand(f)) \in Nat
         /\ Cardinality(InClosing(f)) \in Nat
<1>1. Finite(f) /\ ref[f] = Refs(f)
  BY DEF Counted
<1>. QED BY <1>1, FS_CardinalityType, Zenon DEF Finite

\* What is proved of the references, together.
Owned == Places /\ OneHand /\ Counted

\* close and exit: the descriptor is cleared, and the file is to be closed.
LEMMA FdToClosing ==
  ASSUME Constants, TypeOK, Owned, NEW p \in Procs, NEW fd \in Fds, NEW pc,
         Ready(p, pc), pc \in {"user", "exit"}, ofile[p][fd] # NULL,
         SetFd(p, fd, ofile[p][fd], NULL), Close(p, {ofile[p][fd]}),
         op' = op, ref' = ref
  PROVE  Owned'
<1>1. PICK g \in Files : ofile[p][fd] = g /\ g # NULL /\ SetFd(p, fd, g, NULL)
  BY DEF TypeOK
<1>2. /\ closing[p] = {} /\ closing' = [closing EXCEPT ![p] = {g}]
      /\ closing' \in [Procs -> SUBSET Files]
  BY <1>1 DEF Ready, Close, TypeOK
<1>3. \A q \in Procs, e \in Fds : ofile'[q][e] = ofile[q][e] \/ ofile'[q][e] = NULL
  BY DEF TypeOK, SetFd
<1>4. Places'
  BY <1>3 DEF Owned, Places
<1>5. OneHand'
  <2>1. \A q \in Procs : op[q].files \subseteq Files
    BY DEF TypeOK
  <2>2. \A q \in Procs : g \notin op[q].files
    BY <1>1 DEF Owned, OneHand
  <2>3. \A q \in Procs : closing'[q] = closing[q] \/ closing'[q] = {g}
    BY <1>2 DEF TypeOK
  <2>. QED BY <1>3, <2>1, <2>2, <2>3 DEF Owned, OneHand, Constants
<1>6. ASSUME NEW f \in Files PROVE Finite(f)' /\ ref'[f] = Refs(f)'
  <2>1. /\ Finite(f) /\ ref[f] = Refs(f)
        /\ Cardinality(InOfile(f)) \in Nat /\ Cardinality(InHand(f)) \in Nat
        /\ Cardinality(InClosing(f)) \in Nat
    BY CountType DEF Owned
  <2>2. /\ IsFiniteSet(InOfile(f)')
        /\ Cardinality(InOfile(f)') = Cardinality(InOfile(f)) + Bit(NULL = f) - Bit(g = f)
    <3>1. SetFd(p, fd, g, NULL) /\ IsFiniteSet(InOfile(f))
      BY <1>1, <2>1 DEF Finite
    <3>. QED BY <3>1, FdCount
  <2>3. /\ IsFiniteSet(InClosing(f)')
        /\ Cardinality(InClosing(f)')
             = Cardinality(InClosing(f)) + Bit(f \in {g}) - Bit(f \in {})
    BY <1>1, <1>2, <2>1, ClosingCount, Zenon DEF Finite
  <2>4. InHand(f)' = InHand(f)
    BY SameHands
  <2>5. Bit(NULL = f) = 0 /\ Bit(f \in {}) = 0 /\ Bit(f \in {g}) = Bit(g = f)
    BY DEF Bit, Constants
  <2>6. Bit(g = f) \in {0, 1}
    BY BitType
  <2>7. Finite(f)'
    BY <2>1, <2>2, <2>3, <2>4 DEF Finite
  <2>8. Cardinality(InOfile(f)') + Cardinality(InClosing(f)')
          = Cardinality(InOfile(f)) + Cardinality(InClosing(f))
    BY <2>1, <2>2, <2>3, <2>5, <2>6
  <2>9. Cardinality(InOfile(f)') \in Int /\ Cardinality(InClosing(f)') \in Int
    BY <2>1, <2>2, <2>3, <2>5, <2>6
  <2>10. Refs(f)' = Refs(f)
    BY <2>1, <2>4, <2>8, <2>9 DEF Refs
  <2>. QED BY <2>1, <2>7, <2>10
<1>7. Counted'
  BY <1>6 DEF Counted
<1>. QED BY <1>4, <1>5, <1>7 DEF Owned

LEMMA DupOwned ==
  ASSUME Constants, TypeOK, Owned, NEW p \in Procs, NEW fd \in Fds, sys_dup(p, fd)
  PROVE  Owned'
<1>1. PICK g \in Files : ofile[p][fd] = g /\ g # NULL
  BY DEF TypeOK, sys_dup
<1>2. PICK to \in Fds : ofile[p][to] = NULL /\ SetFd(p, to, NULL, g)
  BY <1>1, Zenon DEF sys_dup, fdalloc, FreeFds, SetFd
<1>3. op[p].pc = "user" /\ op' = op /\ closing' = closing /\ ref' = [ref EXCEPT ![g] = @ + 1]
  BY <1>1 DEF sys_dup, Ready
<1>4. \A q \in Procs, e \in Fds :
        ofile'[q][e] = ofile[q][e] \/ (ofile'[q][e] = g /\ q = p)
  BY <1>2 DEF TypeOK, SetFd
<1>5. Places'
  BY <1>3, <1>4 DEF Owned, Places
<1>6. OneHand'
  <2>1. \A q \in Procs : g \notin op[q].files
    BY <1>1 DEF Owned, OneHand
  <2>. QED BY <1>3, <1>4, <2>1 DEF Owned, OneHand
<1>7. ASSUME NEW f \in Files PROVE Finite(f)' /\ ref'[f] = Refs(f)'
  <2>1. /\ Finite(f) /\ ref[f] = Refs(f)
        /\ Cardinality(InOfile(f)) \in Nat /\ Cardinality(InHand(f)) \in Nat
        /\ Cardinality(InClosing(f)) \in Nat
    BY CountType DEF Owned
  <2>2. /\ IsFiniteSet(InOfile(f)')
        /\ Cardinality(InOfile(f)') = Cardinality(InOfile(f)) + Bit(g = f) - Bit(NULL = f)
    <3>1. SetFd(p, to, NULL, g) /\ IsFiniteSet(InOfile(f))
      BY <1>2, <2>1 DEF Finite
    <3>. QED BY <3>1, FdCount
  <2>3. InHand(f)' = InHand(f) /\ InClosing(f)' = InClosing(f)
    BY <1>3, SameHands, SameClosing
  <2>4. Bit(NULL = f) = 0 /\ Bit(g = f) \in {0, 1}
    BY BitType DEF Bit, Constants
  <2>5. Finite(f)'
    BY <2>1, <2>2, <2>3 DEF Finite
  <2>6. Refs(f)' = Refs(f) + Bit(g = f)
    BY <2>1, <2>2, <2>3, <2>4 DEF Refs
  <2>7. ref'[f] = ref[f] + Bit(g = f)
    BY <1>3 DEF Bit, TypeOK
  <2>. QED BY <2>1, <2>5, <2>6, <2>7
<1>8. Counted'
  BY <1>7 DEF Counted
<1>. QED BY <1>5, <1>6, <1>8 DEF Owned

LEMMA ForkOwned ==
  ASSUME Constants, TypeOK, Owned, NEW p \in Procs, NEW np \in Procs, kfork(p, np)
  PROVE  Owned'
<1>1. /\ op[p].pc = "user" /\ op[np].pc = "unused" /\ closing[np] = {} /\ closing' = closing
      /\ ofile' = [ofile EXCEPT ![np] = ofile[p]] /\ Goto(np, User)
      /\ ref' = [f \in Files |-> ref[f] + dups(p, f)]
  BY DEF kfork, Ready
<1>2. op[np].files = {} /\ \A fd \in Fds : ofile[np][fd] = NULL
  BY <1>1 DEF Owned, Places
<1>3. User.pc = "user" /\ User.files = {}
  BY DEF User, At
<1>4. \A q \in Procs : op'[q] = IF q = np THEN User ELSE op[q]
  BY <1>1 DEF Goto, TypeOK
<1>5. \A q \in Procs : ofile'[q] = IF q = np THEN ofile[p] ELSE ofile[q]
  BY <1>1 DEF TypeOK
<1>6. Places'
  BY <1>3, <1>4, <1>5 DEF Owned, Places
<1>7. OneHand'
  <2>1. \A q \in Procs : op'[q].files = op[q].files
    BY <1>2, <1>3, <1>4, ZenonT(60)
  <2>. QED BY <1>1, <1>5, <2>1 DEF Owned, OneHand
<1>8. ASSUME NEW f \in Files PROVE Finite(f)' /\ ref'[f] = Refs(f)'
  <2> DEFINE D == {fd \in Fds : ofile[p][fd] = f}
  <2>1. /\ Finite(f) /\ ref[f] = Refs(f)
        /\ Cardinality(InOfile(f)) \in Nat /\ Cardinality(InHand(f)) \in Nat
        /\ Cardinality(InClosing(f)) \in Nat
    BY CountType DEF Owned
  <2>2. dups(p, f) = Cardinality(D)
    BY Zenon DEF dups
  <2>3. IsFiniteSet(D)
    <3>1. IsFiniteSet(Fds)
      BY FS_Interval DEF Fds, Constants
    <3>. QED BY <3>1, FS_Subset
  <2>4. InOfile(f)' = InOfile(f) \cup ({np} \X D)
    <3>1. ASSUME NEW h \in Procs \X Fds
          PROVE  ofile'[h[1]][h[2]] = f <=>
                   (h[1] = np /\ ofile[p][h[2]] = f) \/ ofile[h[1]][h[2]] = f
      BY <1>2, <1>5 DEF Constants
    <3>2. \A h : h \in {np} \X D <=> h \in Procs \X Fds /\ h[1] = np /\ ofile[p][h[2]] = f
      OBVIOUS
    <3> HIDE DEF D
    <3>. QED BY <3>1, <3>2 DEF InOfile
  <2>5. InOfile(f) \cap ({np} \X D) = {}
    BY <1>2 DEF InOfile, Constants
  <2> HIDE DEF D
  <2>6. IsFiniteSet({np} \X D) /\ Cardinality({np} \X D) = Cardinality(D)
        /\ Cardinality(D) \in Nat
    <3>1. IsFiniteSet({np}) /\ Cardinality({np}) = 1 /\ Cardinality(D) \in Nat
      BY <2>3, FS_Singleton, FS_CardinalityType, Zenon
    <3>2. IsFiniteSet({np} \X D) /\ Cardinality({np} \X D) = Cardinality({np}) * Cardinality(D)
      BY <2>3, <3>1, FS_Product, Zenon
    <3>. QED BY <3>1, <3>2
  <2>7. /\ IsFiniteSet(InOfile(f)')
        /\ Cardinality(InOfile(f)') = Cardinality(InOfile(f)) + Cardinality(D)
    <3>1. IsFiniteSet(InOfile(f))
      BY <2>1 DEF Finite
    <3>2. /\ IsFiniteSet(InOfile(f) \cup ({np} \X D))
          /\ Cardinality(InOfile(f) \cup ({np} \X D))
               = Cardinality(InOfile(f)) + Cardinality({np} \X D)
                 - Cardinality(InOfile(f) \cap ({np} \X D))
      BY <2>6, <3>1, FS_Union, Zenon
    <3>3. Cardinality(InOfile(f) \cap ({np} \X D)) = 0
      BY <2>5, FS_EmptySet, Zenon
    <3>. QED BY <2>1, <2>4, <2>6, <3>2, <3>3
  <2>8. InHand(f)' = InHand(f) /\ InClosing(f)' = InClosing(f)
    <3>1. \A q \in Procs : op'[q].files = op[q].files
      BY <1>2, <1>3, <1>4, ZenonT(60)
    <3>. QED BY <1>1, <3>1, SameClosing DEF InHand
  <2>9. Finite(f)'
    BY <2>1, <2>7, <2>8 DEF Finite
  <2>10. ref'[f] = ref[f] + Cardinality(D)
    BY <1>1, <2>2
  <2>. QED BY <2>1, <2>6, <2>7, <2>8, <2>9, <2>10 DEF Refs
<1>9. Counted'
  BY <1>8 DEF Counted
<1>. QED BY <1>6, <1>7, <1>9 DEF Owned

\* exit: nothing is in hand before or after.
LEMMA PlaceOwned ==
  ASSUME TypeOK, Owned, NEW p \in Procs, NEW from, NEW o, Ready(p, from), Goto(p, o),
         from \in {"user", "exit"}, o.files = {},
         o.pc = "exit" \/ (o.pc = "unused" /\ FreeFds(p) = Fds),
         ofile' = ofile, closing' = closing, ref' = ref
  PROVE  Owned'
<1>1. op[p].files = {}
  BY DEF Ready, Owned, Places
<1>2. \A q \in Procs : op'[q] = IF q = p THEN o ELSE op[q]
  BY DEF Goto, TypeOK
<1>3. \A q \in Procs : op'[q].files = op[q].files
  BY <1>1, <1>2
<1>4. Places'
  <2>1. o.pc = "unused" => \A fd \in Fds : ofile[p][fd] = NULL
    BY DEF FreeFds
  <2>. QED BY <1>2, <2>1 DEF Owned, Places
<1>5. OneHand'
  BY <1>3 DEF Owned, OneHand
<1>6. Counted'
  <2>1. ASSUME NEW f
        PROVE  /\ InOfile(f)' = InOfile(f) /\ InHand(f)' = InHand(f)
               /\ InClosing(f)' = InClosing(f)
    BY <1>3, SameFds, SameClosing DEF InHand
  <2>. QED BY <2>1 DEF Owned, Counted, Finite, Refs
<1>. QED BY <1>4, <1>5, <1>6 DEF Owned

LEMMA FileallocOwned ==
  ASSUME TypeOK, Owned, NEW p \in Procs, NEW from, NEW to, filealloc(p, from, to),
         \/ from = "user" /\ to \in {"pipe1", "sem1"}
         \/ from = "pipe1" /\ to = "pipe2"
  PROVE  Owned'
<1> DEFINE o(g) == At(to, op[p].files \cup {g}, NULL)
<1>1. PICK g \in Files : ref[g] = 0 /\ ref' = [ref EXCEPT ![g] = 1] /\ Goto(p, o(g))
  BY Zenon DEF filealloc
<1>2. op[p].pc = from /\ ofile' = ofile /\ closing' = closing
  BY DEF filealloc, Ready
<1>3. o(g).pc = to /\ o(g).files = op[p].files \cup {g}
  BY DEF At
<1> HIDE DEF o
<1>4. /\ \A q \in Procs : g \notin op[q].files /\ g \notin closing[q]
      /\ \A q \in Procs, fd \in Fds : ofile[q][fd] # g
  BY <1>1, NoRefs DEF Owned
<1>5. \A q \in Procs : op'[q] = IF q = p THEN o(g) ELSE op[q]
  BY <1>1 DEF Goto, TypeOK
<1>6. Places'
  <2>1. from = "user" => o(g).files = {g}
    BY <1>2, <1>3 DEF Owned, Places
  <2>2. from = "pipe1" => \E f \in Files : f # g /\ o(g).files = {f, g}
    BY <1>2, <1>3, <1>4 DEF Owned, Places
  <2>3. /\ o(g).pc \in {"pipe1", "sem1"} => \E f \in Files : o(g).files = {f}
        /\ o(g).pc = "pipe2" => \E f, h \in Files : f # h /\ o(g).files = {f, h}
        /\ o(g).pc \in {"pipe1", "sem1", "pipe2"}
    BY <1>3, <2>1, <2>2
  <2>. QED BY <1>2, <1>5, <2>3 DEF Owned, Places
<1>7. OneHand'
  <2>1. ASSUME NEW q \in Procs, NEW f \in op'[q].files
        PROVE  (q = p /\ f = g) \/ f \in op[q].files
    BY <1>3, <1>5, <2>1, ZenonT(60)
  <2>. QED BY <1>2, <1>4, <2>1 DEF Owned, OneHand
<1>8. ASSUME NEW f \in Files PROVE Finite(f)' /\ ref'[f] = Refs(f)'
  <2>1. /\ Finite(f) /\ ref[f] = Refs(f)
        /\ Cardinality(InOfile(f)) \in Nat /\ Cardinality(InHand(f)) \in Nat
        /\ Cardinality(InClosing(f)) \in Nat
    BY CountType DEF Owned
  <2>2. /\ IsFiniteSet(InHand(f)')
        /\ Cardinality(InHand(f)')
             = Cardinality(InHand(f)) + Bit(f \in o(g).files) - Bit(f \in op[p].files)
    <3>1. Goto(p, o(g)) /\ IsFiniteSet(InHand(f))
      BY <1>1, <2>1 DEF Finite
    <3>. QED BY <3>1, HandCount
  <2>3. InOfile(f)' = InOfile(f) /\ InClosing(f)' = InClosing(f)
    BY <1>2, SameFds, SameClosing, ZenonT(60)
  <2>4. ref'[f] = ref[f] + Bit(f \in o(g).files) - Bit(f \in op[p].files)
    BY <1>1, <1>3, <1>4 DEF Bit, TypeOK
  <2>5. Bit(f \in o(g).files) \in {0, 1} /\ Bit(f \in op[p].files) \in {0, 1}
    BY BitType
  <2>6. Finite(f)'
    BY <2>1, <2>2, <2>3 DEF Finite
  <2>. QED BY <2>1, <2>2, <2>3, <2>4, <2>5, <2>6 DEF Refs
<1>9. Counted'
  BY <1>8 DEF Counted
<1>. QED BY <1>6, <1>7, <1>9 DEF Owned

LEMMA GiveUpOwned ==
  ASSUME TypeOK, Owned, NEW p \in Procs, NEW from, Ready(p, from), GiveUp(p),
         ofile' = ofile, ref' = ref,
         from \in {"pipe1", "pipe2", "pipe3", "sem1", "sem2"}
  PROVE  Owned'
<1>1. /\ op[p].pc = from /\ closing[p] = {} /\ Close(p, op[p].files) /\ Goto(p, User)
  BY DEF Ready, GiveUp
<1>2. User.pc = "user" /\ User.files = {}
  BY DEF User, At
<1>3. \A q \in Procs : op'[q] = IF q = p THEN User ELSE op[q]
  BY <1>1 DEF Goto, TypeOK
<1>4. \A q \in Procs : closing'[q] = IF q = p THEN op[p].files ELSE closing[q]
  BY <1>1 DEF Close, TypeOK
<1>5. Places'
  BY <1>2, <1>3 DEF Owned, Places
<1>6. OneHand'
  <2>1. ASSUME NEW q \in Procs, NEW f \in op'[q].files
        PROVE  q # p /\ f \in op[q].files
    BY <1>2, <1>3, <2>1
  <2>. QED BY <1>3, <1>4, <2>1 DEF Owned, OneHand
<1>7. ASSUME NEW f \in Files PROVE Finite(f)' /\ ref'[f] = Refs(f)'
  <2>1. /\ Finite(f) /\ ref[f] = Refs(f)
        /\ Cardinality(InOfile(f)) \in Nat /\ Cardinality(InHand(f)) \in Nat
        /\ Cardinality(InClosing(f)) \in Nat
    BY CountType DEF Owned
  <2>2. /\ IsFiniteSet(InHand(f)')
        /\ Cardinality(InHand(f)')
             = Cardinality(InHand(f)) + Bit(f \in User.files) - Bit(f \in op[p].files)
    <3>1. Goto(p, User) /\ IsFiniteSet(InHand(f))
      BY <1>1, <2>1 DEF Finite
    <3>. QED BY <3>1, HandCount
  <2>3. /\ IsFiniteSet(InClosing(f)')
        /\ Cardinality(InClosing(f)')
             = Cardinality(InClosing(f)) + Bit(f \in op[p].files) - Bit(f \in closing[p])
    <3>1. Close(p, op[p].files) /\ IsFiniteSet(InClosing(f))
      BY <1>1, <2>1 DEF Finite
    <3>. QED BY <3>1, ClosingCount
  <2>4. InOfile(f)' = InOfile(f)
    BY SameFds
  <2>5. /\ Bit(f \in User.files) = 0 /\ Bit(f \in closing[p]) = 0
        /\ Bit(f \in op[p].files) \in {0, 1}
    BY <1>1, <1>2, BitType DEF Bit
  <2>6. Finite(f)'
    BY <2>1, <2>2, <2>3, <2>4 DEF Finite
  <2>. QED BY <2>1, <2>2, <2>3, <2>4, <2>5, <2>6 DEF Refs
<1>8. Counted'
  BY <1>7 DEF Counted
<1>. QED BY <1>5, <1>6, <1>8 DEF Owned

\* A step that leaves the files in hand where they are.
LEMMA KeepOwned ==
  ASSUME TypeOK, Owned, ofile' = ofile, closing' = closing, ref' = ref,
         \A q \in Procs :
           /\ op'[q].files = op[q].files
           /\ \/ op'[q].pc = op[q].pc
              \/ op[q].pc = "pipe2" /\ op'[q].pc = "pipe3"
              \/ op[q].pc = "sem1" /\ op'[q].pc = "sem2"
  PROVE  Owned'
<1>1. Places'
  BY DEF Owned, Places
<1>2. OneHand'
  BY DEF Owned, OneHand
<1>3. Counted'
  <2>1. ASSUME NEW f
        PROVE  /\ InOfile(f)' = InOfile(f) /\ InHand(f)' = InHand(f)
               /\ InClosing(f)' = InClosing(f)
    BY SameFds, SameClosing DEF InHand
  <2>. QED BY <2>1 DEF Owned, Counted, Finite, Refs
<1>. QED BY <1>1, <1>2, <1>3 DEF Owned

LEMMA FilecloseOwned ==
  ASSUME TypeOK, Owned, NEW p \in Procs, NEW g \in closing[p],
         ref' = [ref EXCEPT ![g] = @ - 1], Close(p, closing[p] \ {g}), ofile' = ofile, op' = op
  PROVE  Owned'
<1>1. g \in Files /\ ref[g] >= 1
  <2>1. g \in Files
    BY DEF TypeOK
  <2>. QED BY <2>1, HasRef DEF Owned
<1>2. \A q \in Procs : closing'[q] \subseteq closing[q]
  BY DEF Close, TypeOK
<1>3. Places'
  BY DEF Owned, Places
<1>4. OneHand'
  BY <1>2 DEF Owned, OneHand
<1>5. ASSUME NEW f \in Files PROVE Finite(f)' /\ ref'[f] = Refs(f)'
  <2>1. /\ Finite(f) /\ ref[f] = Refs(f)
        /\ Cardinality(InOfile(f)) \in Nat /\ Cardinality(InHand(f)) \in Nat
        /\ Cardinality(InClosing(f)) \in Nat
    BY CountType DEF Owned
  <2>2. /\ IsFiniteSet(InClosing(f)')
        /\ Cardinality(InClosing(f)')
             = Cardinality(InClosing(f)) + Bit(f \in closing[p] \ {g}) - Bit(f \in closing[p])
    <3>1. Close(p, closing[p] \ {g}) /\ IsFiniteSet(InClosing(f))
      BY <2>1 DEF Finite
    <3>. QED BY <3>1, ClosingCount
  <2>3. InOfile(f)' = InOfile(f) /\ InHand(f)' = InHand(f)
    BY SameFds, SameHands
  <2>4. ref'[f] = ref[f] + Bit(f \in closing[p] \ {g}) - Bit(f \in closing[p])
    BY <1>1 DEF Bit, TypeOK
  <2>5. Bit(f \in closing[p] \ {g}) \in {0, 1} /\ Bit(f \in closing[p]) \in {0, 1}
    BY BitType
  <2>6. Finite(f)'
    BY <2>1, <2>2, <2>3 DEF Finite
  <2>. QED BY <2>1, <2>2, <2>3, <2>4, <2>5, <2>6 DEF Refs
<1>6. Counted'
  BY <1>5 DEF Counted
<1>. QED BY <1>3, <1>4, <1>6 DEF Owned

\* sem_create installs the one file that it has.
LEMMA InstallOwned ==
  ASSUME Constants, TypeOK, Owned, NEW p \in Procs, NEW g \in op[p].files, NEW fd \in Fds,
         Ready(p, "sem2"), fdalloc(p, fd), Goto(p, User),
         ofile' = [ofile EXCEPT ![p][fd] = g], closing' = closing, ref' = ref
  PROVE  Owned'
<1>1. g \in Files /\ op[p].files = {g} /\ op[p].pc = "sem2"
  BY DEF TypeOK, Ready, Owned, Places
<1>2. User.pc = "user" /\ User.files = {}
  BY DEF User, At
<1>3. \A q \in Procs : op'[q] = IF q = p THEN User ELSE op[q]
  BY DEF Goto, TypeOK
<1>4. SetFd(p, fd, NULL, g)
  BY DEF SetFd, fdalloc, FreeFds
<1>5. \A q \in Procs, e \in Fds :
        ofile'[q][e] = ofile[q][e] \/ (q = p /\ ofile'[q][e] = g)
  BY DEF TypeOK
<1>6. Places'
  BY <1>2, <1>3, <1>5 DEF Owned, Places
<1>7. OneHand'
  <2>1. ASSUME NEW q \in Procs, NEW f \in op'[q].files
        PROVE  q # p /\ f \in op[q].files /\ f # g
    BY <1>1, <1>2, <1>3, <2>1 DEF Owned, OneHand
  <2>. QED BY <1>3, <1>5, <2>1 DEF Owned, OneHand
<1>8. ASSUME NEW f \in Files PROVE Finite(f)' /\ ref'[f] = Refs(f)'
  <2>1. /\ Finite(f) /\ ref[f] = Refs(f)
        /\ Cardinality(InOfile(f)) \in Nat /\ Cardinality(InHand(f)) \in Nat
        /\ Cardinality(InClosing(f)) \in Nat
    BY CountType DEF Owned
  <2>2. /\ IsFiniteSet(InOfile(f)')
        /\ Cardinality(InOfile(f)') = Cardinality(InOfile(f)) + Bit(g = f) - Bit(NULL = f)
    <3>1. SetFd(p, fd, NULL, g) /\ IsFiniteSet(InOfile(f))
      BY <1>4, <2>1 DEF Finite
    <3>. QED BY <3>1, FdCount
  <2>3. /\ IsFiniteSet(InHand(f)')
        /\ Cardinality(InHand(f)')
             = Cardinality(InHand(f)) + Bit(f \in User.files) - Bit(f \in op[p].files)
    <3>1. Goto(p, User) /\ IsFiniteSet(InHand(f))
      BY <2>1 DEF Finite
    <3>. QED BY <3>1, HandCount
  <2>4. InClosing(f)' = InClosing(f)
    BY SameClosing
  <2>5. /\ Bit(f \in User.files) = 0 /\ Bit(NULL = f) = 0
        /\ Bit(f \in op[p].files) = Bit(g = f) /\ Bit(g = f) \in {0, 1}
    BY <1>1, <1>2, BitType DEF Bit, Constants
  <2>6. Finite(f)'
    BY <2>1, <2>2, <2>3, <2>4 DEF Finite
  <2>. QED BY <2>1, <2>2, <2>3, <2>4, <2>5, <2>6 DEF Refs
<1>9. Counted'
  BY <1>8 DEF Counted
<1>. QED BY <1>6, <1>7, <1>9 DEF Owned

\* pipe installs both.
LEMMA PipeOwned ==
  ASSUME Constants, TypeOK, Owned, NEW p \in Procs, sys_pipe(p)
  PROVE  Owned'
<1>1. PICK rf \in op[p].files, wf \in op[p].files, fd0 \in FreeFds(p), fd1 \in FreeFds(p) :
        /\ rf # wf /\ fd1 # fd0
        /\ ofile' = [ofile EXCEPT ![p][fd0] = rf, ![p][fd1] = wf]
  BY Zenon DEF sys_pipe
<1>2. op[p].pc = "pipe3" /\ Goto(p, User) /\ closing' = closing /\ ref' = ref
  BY DEF sys_pipe, Ready, file
<1>3. /\ rf \in Files /\ wf \in Files /\ fd0 \in Fds /\ fd1 \in Fds
      /\ ofile[p][fd0] = NULL /\ ofile[p][fd1] = NULL
  BY DEF TypeOK, FreeFds
<1>4. op[p].files = {rf, wf}
  BY <1>1, <1>2 DEF Owned, Places
<1>5. User.pc = "user" /\ User.files = {}
  BY DEF User, At
<1>6. \A q \in Procs : op'[q] = IF q = p THEN User ELSE op[q]
  BY <1>2 DEF Goto, TypeOK
<1>7. /\ ofile'[p][fd0] = rf /\ ofile'[p][fd1] = wf
      /\ \A q \in Procs, e \in Fds :
           q # p \/ (e # fd0 /\ e # fd1) => ofile'[q][e] = ofile[q][e]
  BY <1>1, <1>3 DEF TypeOK
<1>8. Places'
  BY <1>5, <1>6, <1>7 DEF Owned, Places
<1>9. OneHand'
  <2>1. ASSUME NEW q \in Procs, NEW f \in op'[q].files
        PROVE  q # p /\ f \in op[q].files /\ f # rf /\ f # wf
    BY <1>4, <1>5, <1>6, <2>1, ZenonT(60) DEF Owned, OneHand
  <2>. QED BY <1>2, <1>6, <1>7, <2>1 DEF Owned, OneHand
<1>10. ASSUME NEW f \in Files PROVE Finite(f)' /\ ref'[f] = Refs(f)'
  <2> DEFINE x == <<p, fd0>>
             z == <<p, fd1>>
  <2>1. /\ Finite(f) /\ ref[f] = Refs(f)
        /\ Cardinality(InOfile(f)) \in Nat /\ Cardinality(InHand(f)) \in Nat
        /\ Cardinality(InClosing(f)) \in Nat
    BY CountType DEF Owned
  <2>2. ASSUME NEW y, y # x, y # z PROVE y \in InOfile(f)' <=> y \in InOfile(f)
    <3>1. y \in Procs \X Fds => ofile'[y[1]][y[2]] = ofile[y[1]][y[2]]
      BY <1>7, <2>2
    <3>. QED BY <3>1 DEF InOfile
  <2>3. /\ x \in InOfile(f)' <=> rf = f
        /\ z \in InOfile(f)' <=> wf = f
        /\ x \notin InOfile(f) /\ z \notin InOfile(f)
    BY <1>3, <1>7 DEF InOfile, Constants
  <2>4. x # z /\ IsFiniteSet(InOfile(f))
    BY <1>1, <2>1 DEF Finite
  <2> HIDE DEF x, z
  <2>5. x # z /\ IsFiniteSet(InOfile(f))
        /\ \A y : y # x /\ y # z => (y \in InOfile(f)' <=> y \in InOfile(f))
    BY <2>2, <2>4, ZenonT(60)
  <2>6. /\ IsFiniteSet(InOfile(f)')
        /\ Cardinality(InOfile(f)')
             = (Cardinality(InOfile(f)) + Bit(x \in InOfile(f)') - Bit(x \in InOfile(f)))
               + Bit(z \in InOfile(f)') - Bit(z \in InOfile(f))
    BY <2>5, TwoPlaces
  <2>7. /\ IsFiniteSet(InHand(f)')
        /\ Cardinality(InHand(f)')
             = Cardinality(InHand(f)) + Bit(f \in User.files) - Bit(f \in op[p].files)
    <3>1. Goto(p, User) /\ IsFiniteSet(InHand(f))
      BY <1>2, <2>1 DEF Finite
    <3>. QED BY <3>1, HandCount
  <2>8. InClosing(f)' = InClosing(f)
    BY <1>2, SameClosing
  <2>9. /\ Bit(x \in InOfile(f)) = 0 /\ Bit(z \in InOfile(f)) = 0
        /\ Bit(x \in InOfile(f)') = Bit(rf = f) /\ Bit(z \in InOfile(f)') = Bit(wf = f)
    BY <2>3, Zenon DEF Bit
  <2>10. /\ Bit(f \in User.files) = 0
         /\ Bit(f \in op[p].files) = Bit(rf = f) + Bit(wf = f)
         /\ Bit(rf = f) \in {0, 1} /\ Bit(wf = f) \in {0, 1}
    BY <1>1, <1>4, <1>5 DEF Bit
  <2>11. Finite(f)'
    BY <2>1, <2>6, <2>7, <2>8 DEF Finite
  <2>. QED BY <1>2, <2>1, <2>6, <2>7, <2>8, <2>9, <2>10, <2>11 DEF Refs
<1>11. Counted'
  BY <1>10 DEF Counted
<1>. QED BY <1>8, <1>9, <1>11 DEF Owned

--------------------------------------------------------------------------------
(* The steps. *)

LEMMA OwnedInit ==
  ASSUME Constants, Init
  PROVE  Owned
<1>1. \A p \in Procs : op[p] = User \/ op[p] = Unused
  BY DEF Init
<1>2. User.files = {} /\ User.pc = "user" /\ Unused.files = {} /\ Unused.pc = "unused"
  BY ZenonT(60) DEF User, Unused, At
<1>3. Places
  BY <1>1, <1>2 DEF Init, Places
<1>4. OneHand
  BY <1>1, <1>2 DEF OneHand
<1>5. Counted
  <2>1. ASSUME NEW f \in Files PROVE InOfile(f) = {} /\ InHand(f) = {} /\ InClosing(f) = {}
    BY <1>1, <1>2 DEF Init, InOfile, InHand, InClosing, Constants
  <2>2. IsFiniteSet({}) /\ Cardinality({}) = 0
    BY FS_EmptySet
  <2>3. \A f \in Files : ref[f] = 0
    BY DEF Init
  <2>4. ASSUME NEW f \in Files PROVE Finite(f) /\ Refs(f) = 0
    <3>1. Cardinality(InOfile(f)) = 0 /\ Cardinality(InHand(f)) = 0
          /\ Cardinality(InClosing(f)) = 0 /\ Finite(f)
      BY <2>1, <2>2, ZenonT(60) DEF Finite
    <3>. QED BY <3>1, SMT DEF Refs
  <2>. QED BY <2>3, <2>4 DEF Counted
<1>. QED BY <1>3, <1>4, <1>5 DEF Owned

\* close and exit clear a descriptor.
LEMMA DropFdOwned ==
  ASSUME Constants, TypeOK, Owned, NEW p \in Procs, NEW fd \in Fds, NEW pc,
         Ready(p, pc), pc \in {"user", "exit"}, ofile[p][fd] # NULL,
         ofile' = [ofile EXCEPT ![p][fd] = NULL], Close(p, {ofile[p][fd]}),
         UNCHANGED <<file, page, op, ending>>
  PROVE  Owned'
<1>1. op' = op /\ ref' = ref
  BY DEF file
<1>2. SetFd(p, fd, ofile[p][fd], NULL)
  BY DEF SetFd
<1>. QED BY <1>1, <1>2, FdToClosing

\* exit, at its start and at its end.
LEMMA ExitOwned ==
  ASSUME TypeOK, Owned, NEW p \in Procs, kexit(p) \/ kexit_done(p)
  PROVE  Owned'
<1>1. PICK from \in {"user", "exit"}, to \in {"exit", "unused"} :
        /\ Ready(p, from) /\ Goto(p, At(to, {}, NULL))
        /\ to = "exit" \/ (to = "unused" /\ FreeFds(p) = Fds)
  BY DEF kexit, kexit_done, Unused
<1>2. UNCHANGED <<ofile, ref, closing>>
  BY DEF kexit, kexit_done, file
<1>3. At(to, {}, NULL).pc = to /\ At(to, {}, NULL).files = {}
  BY DEF At
<1>. QED BY <1>1, <1>2, <1>3, PlaceOwned

\* The last steps of fileclose.
LEMMA CloseOwned ==
  ASSUME TypeOK, Owned, NEW p \in Procs, fileclose(p) \/ pipeclose(p) \/ sem_close(p)
  PROVE  Owned'
<1>1. CASE fileclose(p)
  <2>1. PICK g \in closing[p] :
          ref' = [ref EXCEPT ![g] = @ - 1] /\ Close(p, closing[p] \ {g})
    BY <1>1, Zenon DEF fileclose
  <2>2. ofile' = ofile /\ op' = op
    BY <1>1 DEF fileclose
  <2>. QED BY <2>1, <2>2, FilecloseOwned, ZenonT(60)
<1>2. CASE pipeclose(p) \/ sem_close(p)
  <2>1. UNCHANGED <<ofile, ref, op, closing>>
    BY <1>2, ZenonT(60) DEF pipeclose, sem_close, file
  <2>. QED BY <2>1, KeepOwned
<1>. QED BY <1>1, <1>2

\* The object is made.
LEMMA ObjectOwned ==
  ASSUME TypeOK, Owned, NEW p \in Procs, pipealloc_page(p) \/ sem_alloc(p)
  PROVE  Owned'
<1>1. UNCHANGED <<ofile, ref, closing>>
  BY DEF pipealloc_page, sem_alloc, file
<1>2. CASE pipealloc_page(p)
  <2>1. Goto(p, At("pipe3", op[p].files, NULL)) /\ op[p].pc = "pipe2"
    BY <1>2, Zenon DEF pipealloc_page, Ready
  <2>2. \A q \in Procs :
          /\ op'[q].files = op[q].files
          /\ op'[q].pc = op[q].pc \/ (op[q].pc = "pipe2" /\ op'[q].pc = "pipe3")
    BY <2>1 DEF TypeOK, Goto, At
  <2>. QED BY <1>1, <2>2, KeepOwned, ZenonT(60)
<1>3. CASE sem_alloc(p)
  <2>1. PICK pg \in Pages : Goto(p, At("sem2", op[p].files, pg))
    BY <1>3, Zenon DEF sem_alloc
  <2>2. op[p].pc = "sem1"
    BY <1>3 DEF sem_alloc, Ready
  <2>3. \A q \in Procs :
          /\ op'[q].files = op[q].files
          /\ op'[q].pc = op[q].pc \/ (op[q].pc = "sem1" /\ op'[q].pc = "sem2")
    BY <2>1, <2>2 DEF TypeOK, Goto, At
  <2>. QED BY <1>1, <2>3, KeepOwned, ZenonT(60)
<1>. QED BY <1>2, <1>3

LEMMA OwnedNext ==
  ASSUME Constants, TypeOK, Owned, [Next]_vars
  PROVE  Owned'
<1>1. ASSUME NEW p \in Procs, ProcStep(p)
      PROVE  Owned'
  <2>1. CASE fileclose(p) \/ pipeclose(p) \/ sem_close(p)
    BY <2>1, CloseOwned
  <2>2. ASSUME NEW fd \in Fds, sys_close(p, fd)
        PROVE  Owned'
    BY <2>2, DropFdOwned, Zenon DEF sys_close
  <2>3. ASSUME NEW fd \in Fds, sys_dup(p, fd)
        PROVE  Owned'
    BY <2>3, DupOwned
  <2>4. ASSUME NEW np \in Procs, kfork(p, np)
        PROVE  Owned'
    BY <2>4, ForkOwned
  <2>5. CASE kexit(p) \/ kexit_done(p)
    BY <2>5, ExitOwned
  <2>6. CASE kexit_close(p)
    <3>1. PICK fd \in Fds :
            /\ ofile[p][fd] # NULL /\ ofile' = [ofile EXCEPT ![p][fd] = NULL]
            /\ Close(p, {ofile[p][fd]})
      BY <2>6, Zenon DEF kexit_close
    <3>2. Ready(p, "exit") /\ UNCHANGED <<file, page, op, ending>>
      BY <2>6 DEF kexit_close
    <3>. QED BY <3>1, <3>2, DropFdOwned, Zenon
  <2>7. CASE pipealloc(p) \/ sem_filealloc(p)
    BY <2>7, FileallocOwned DEF pipealloc, sem_filealloc
  <2>8. CASE pipealloc_fails(p) \/ sys_pipe_fails(p) \/ sem_alloc_fails(p)
             \/ sys_sem_create_fails(p)
    <3>1. PICK from \in {"pipe1", "pipe2", "pipe3", "sem1", "sem2"} :
            Ready(p, from) /\ GiveUp(p) /\ ofile' = ofile /\ ref' = ref
      BY <2>8 DEF pipealloc_fails, sys_pipe_fails, sem_alloc_fails, sys_sem_create_fails, file
    <3>. QED BY <3>1, GiveUpOwned
  <2>9. CASE pipealloc_page(p) \/ sem_alloc(p)
    BY <2>9, ObjectOwned
  <2>10. CASE sys_pipe(p)
    BY <2>10, PipeOwned
  <2>11. CASE sys_sem_create(p)
    <3>1. PICK g \in op[p].files, fd \in Fds :
            fdalloc(p, fd) /\ ofile' = [ofile EXCEPT ![p][fd] = g]
      BY <2>11, Zenon DEF sys_sem_create
    <3>2. Ready(p, "sem2") /\ Goto(p, User) /\ UNCHANGED <<ref, closing>>
      BY <2>11 DEF sys_sem_create
    <3>. QED BY <3>1, <3>2, InstallOwned, ZenonT(60)
  <2>. QED
    BY <1>1, <2>1, <2>2, <2>3, <2>4, <2>5, <2>6, <2>7, <2>8, <2>9, <2>10, <2>11, ZenonT(60)
    DEF ProcStep
<1>2. ASSUME UNCHANGED vars
      PROVE  Owned'
  <2>1. UNCHANGED <<ofile, ref, op, closing>>
    BY <1>2 DEF vars, file
  <2>. QED BY <2>1, KeepOwned
<1>. QED BY <1>1, <1>2, Zenon DEF Next, Done

--------------------------------------------------------------------------------
(* The two halves. *)

LEMMA DupsType ==
  ASSUME Constants, NEW p, NEW f
  PROVE  dups(p, f) \in Nat
<1> DEFINE D == {fd \in Fds : ofile[p][fd] = f}
<1>1. dups(p, f) = Cardinality(D)
  BY Zenon DEF dups
<1>2. IsFiniteSet(Fds)
  BY FS_Interval DEF Fds, Constants
<1>3. IsFiniteSet(D)
  BY <1>2, FS_Subset
<1>4. Cardinality(D) \in Nat
  BY <1>3, FS_CardinalityType
<1>. QED BY <1>1, <1>4

LEMMA OwnedHeld ==
  ASSUME TypeOK, Owned
  PROVE  Held
<1>1. ASSUME NEW p \in Procs, NEW f \in op[p].files PROVE ref[f] >= 1
  <2>1. f \in Files
    BY DEF TypeOK
  <2>. QED BY <2>1, HasRef DEF Owned
<1>. QED BY <1>1 DEF Held, Owned

\* The inductive invariant: types, exact counts, and what the files refer to.
FilesInv == TypeOK /\ Owned /\ Typed

LEMMA FilesNext ==
  ASSUME Constants, FilesInv, [Next]_vars
  PROVE  FilesInv'
<1>1. TypeOK /\ Owned /\ Typed
  BY DEF FilesInv
<1>2. Owned'
  BY <1>1, OwnedNext
<1>3. TypeOK' /\ Typed'
  BY <1>1, OwnedHeld, DupsType, ObjectsNext
<1>. QED BY <1>2, <1>3 DEF FilesInv

\* The inductive invariant of file.c, for any numbers of processes, descriptors, files
\* and pages.
THEOREM FilesInvariant ==
  ASSUME Constants
  PROVE  Spec => []FilesInv
<1>1. Init => FilesInv
  BY OwnedInit, ObjectsInit DEF FilesInv
<1>. QED BY <1>1, FilesNext, PTL DEF Spec

\* file.c, pipe.c, sem.c, for any numbers of processes, descriptors, files and pages:
\* reference counts are exact, an end of a pipe is open as long as one file is that end
\* or is being closed, and no file leads to a page that was freed.
THEOREM FilesExactlyCounted ==
  ASSUME Constants
  PROVE  Spec => [](FileRefsExact /\ PipeEndsExact /\ ObjectsAlive)
<1>1. FilesInv => FileRefsExact
  BY CountedExact DEF FilesInv, Owned
<1>2. FilesInv => PipeEndsExact /\ ObjectsAlive
  BY ObjectsExact DEF FilesInv
<1>. QED BY <1>1, <1>2, FilesInvariant, PTL

--------------------------------------------------------------------------------
(* Semaphores, used by any processes. *)

CONSTANTS Clients, N, MaxTotal
VARIABLES value, destroyed, s_pc, s_killed, holds, total

S == INSTANCE Sem WITH Procs <- Clients, pc <- s_pc, killed <- s_killed

\* Every resource is in the semaphore or with one process.
Conserved == value + Cardinality(S!Held) = total

\* With a value that is never negative nobody has a resource that is not there.
LEMMA ConservedAll ==
  ASSUME value \in Nat, IsFiniteSet(S!Held), Conserved
  PROVE  S!ResourcesConserved
<1>1. Cardinality(S!Held) = S!Cardinality(S!Held)
  BY Zenon DEF S!Cardinality, Cardinality
<1>2. Cardinality(S!Held) \in Nat
  BY FS_CardinalityType, Zenon
<1>3. ASSUME NEW v \in Nat, NEW c \in Nat PROVE c <= v + c /\ v = (v + c) - c
  OBVIOUS
<1>. QED BY <1>1, <1>2, <1>3, Zenon DEF Conserved, S!ResourcesConserved

\* The resources are finitely many, and none is in two places.
SemInv ==
  /\ S!TypeOK
  /\ IsFiniteSet(S!Held) /\ Conserved
  /\ S!NoLostPost

LEMMA HeldPair ==
  ASSUME holds \in [Clients -> Nat], NEW h
  PROVE  h \in S!Held <=> \E p \in Clients, i \in Nat : h = <<p, i>> /\ 1 <= i /\ i <= holds[p]
BY DEF S!Held

\* A wait that gets through and a post that gives back move one resource.
LEMMA TakeResource ==
  ASSUME SemInv, NEW p \in Clients, holds' = [holds EXCEPT ![p] = @ + 1]
  PROVE  IsFiniteSet(S!Held)' /\ Cardinality(S!Held)' = Cardinality(S!Held) + 1
<1> DEFINE h == <<p, holds[p] + 1>>
<1>1. holds \in [Clients -> Nat] /\ holds' \in [Clients -> Nat] /\ holds'[p] = holds[p] + 1
      /\ \A q \in Clients : q # p => holds'[q] = holds[q]
  BY DEF SemInv, S!TypeOK
<1>2. \A g : g \in S!Held' <=> \E q \in Clients, i \in Nat : g = <<q, i>> /\ 1 <= i /\ i <= holds'[q]
  BY <1>1 DEF S!Held
<1>3. \A g : g \in S!Held <=> \E q \in Clients, i \in Nat : g = <<q, i>> /\ 1 <= i /\ i <= holds[q]
  BY <1>1, HeldPair
<1>4. S!Held' = S!Held \cup {h}
  <2>1. h \in S!Held'
    BY <1>1, <1>2
  <2>2. \A g \in S!Held : g \in S!Held'
    BY <1>1, <1>2, <1>3
  <2>3. ASSUME NEW g \in S!Held' PROVE g \in S!Held \/ g = h
    <3>1. PICK q \in Clients, i \in Nat : g = <<q, i>> /\ 1 <= i /\ i <= holds'[q]
      BY <1>2, <2>3
    <3>2. i <= holds[q] \/ (q = p /\ i = holds[p] + 1)
      BY <1>1, <3>1
    <3>. QED BY <1>3, <3>1, <3>2
  <2>. QED BY <2>1, <2>2, <2>3
<1>5. h \notin S!Held
  BY <1>1, <1>3
<1>6. IsFiniteSet(S!Held)
  BY DEF SemInv
<1>. QED BY <1>4, <1>5, <1>6, FS_AddElement, Zenon

LEMMA GiveResource ==
  ASSUME SemInv, NEW p \in Clients, holds[p] > 0, holds' = [holds EXCEPT ![p] = @ - 1]
  PROVE  IsFiniteSet(S!Held)' /\ Cardinality(S!Held)' = Cardinality(S!Held) - 1
<1> DEFINE h == <<p, holds[p]>>
<1>1. holds \in [Clients -> Nat] /\ holds' \in [Clients -> Nat] /\ holds'[p] = holds[p] - 1
      /\ \A q \in Clients : q # p => holds'[q] = holds[q]
  BY DEF SemInv, S!TypeOK
<1>2. \A g : g \in S!Held' <=> \E q \in Clients, i \in Nat : g = <<q, i>> /\ 1 <= i /\ i <= holds'[q]
  BY <1>1 DEF S!Held
<1>3. \A g : g \in S!Held <=> \E q \in Clients, i \in Nat : g = <<q, i>> /\ 1 <= i /\ i <= holds[q]
  BY <1>1, HeldPair
<1>4. S!Held' = S!Held \ {h}
  <2>1. h \notin S!Held'
    BY <1>1, <1>2
  <2>2. \A g \in S!Held' : g \in S!Held
    BY <1>1, <1>2, <1>3
  <2>3. ASSUME NEW g \in S!Held, g # h PROVE g \in S!Held'
    <3>1. PICK q \in Clients, i \in Nat : g = <<q, i>> /\ 1 <= i /\ i <= holds[q]
      BY <1>3, <2>3
    <3>2. i <= holds'[q]
      BY <1>1, <2>3, <3>1
    <3>. QED BY <1>2, <3>1, <3>2
  <2>. QED BY <2>1, <2>2, <2>3
<1>5. h \in S!Held
  BY <1>1, <1>3
<1>6. IsFiniteSet(S!Held)
  BY DEF SemInv
<1>. QED BY <1>4, <1>5, <1>6, FS_RemoveElement, Zenon

LEMMA InitSem ==
  ASSUME S!Constants, S!Init
  PROVE  SemInv
<1>1. S!TypeOK
  <2>1. /\ value = N /\ total = N /\ destroyed = FALSE /\ s_pc = [p \in Clients |-> "user"]
        /\ s_killed = [p \in Clients |-> FALSE] /\ holds = [p \in Clients |-> 0]
        /\ N \in Nat /\ N \in N .. MaxTotal /\ 0 \in Nat
    BY DEF S!Init, S!Constants
  <2>. QED BY <2>1, Zenon DEF S!TypeOK
<1>3. S!NoLostPost
  BY DEF S!Init, S!NoLostPost
<1>2. S!Held = {}
  BY DEF S!Init, S!Held
<1>4. IsFiniteSet(S!Held) /\ Cardinality(S!Held) = 0
  BY <1>2, FS_EmptySet, Zenon
<1>5. Conserved
  BY <1>4 DEF S!Init, Conserved, S!Constants
<1>. QED BY <1>1, <1>3, <1>4, <1>5 DEF SemInv

\* The sum is kept when what goes out of the semaphore goes to a process, and back.
LEMMA SumKept ==
  ASSUME SemInv, NEW d \in Int, value' = value - d, total' = total,
         Cardinality(S!Held)' = Cardinality(S!Held) + d
  PROVE  Conserved'
<1>1. value \in Nat /\ value + Cardinality(S!Held) = total /\ IsFiniteSet(S!Held)
  BY Zenon DEF SemInv, S!TypeOK, Conserved
<1>2. Cardinality(S!Held) \in Nat
  BY <1>1, FS_CardinalityType, Zenon
<1>3. ASSUME NEW c \in Nat, NEW v \in Nat PROVE (v - d) + (c + d) = v + c
  OBVIOUS
<1>4. value' + Cardinality(S!Held)' = total'
  BY <1>1, <1>2, <1>3, Zenon
<1>. QED BY <1>4, Zenon DEF Conserved

LEMMA NextSem ==
  ASSUME S!Constants, SemInv, [S!Next]_(S!vars)
  PROVE  SemInv'
<1>1. S!TypeOK /\ S!NoLostPost /\ IsFiniteSet(S!Held)
  BY DEF SemInv
<1>2. ASSUME value' = value, holds' = holds, total' = total
      PROVE  IsFiniteSet(S!Held)' /\ Conserved'
  <2>1. S!Held' = S!Held
    BY <1>2, Zenon DEF S!Held
  <2>2. Conserved
    BY DEF SemInv
  <2>. QED BY <1>1, <1>2, <2>1, <2>2, Zenon DEF Conserved
<1>3. ASSUME NEW p \in Clients, S!sys_sem_wait(p) \/ S!sem_wait_fail(p) \/ S!usertrap_exit(p)
      PROVE  SemInv'
  <2>1. IsFiniteSet(S!Held)' /\ Conserved'
    BY <1>2, <1>3 DEF S!sys_sem_wait, S!sem_wait_fail, S!usertrap_exit
  <2>2. S!TypeOK' /\ S!NoLostPost'
    BY <1>1, <1>3 DEF S!sys_sem_wait, S!sem_wait_fail, S!usertrap_exit, S!TypeOK, S!NoLostPost
  <2>. QED BY <2>1, <2>2 DEF SemInv
<1>4. ASSUME NEW p \in Clients, S!sem_wait_take(p)
      PROVE  SemInv'
  <2>1. IsFiniteSet(S!Held)' /\ Cardinality(S!Held)' = Cardinality(S!Held) + 1
    BY <1>4, TakeResource, Zenon DEF S!sem_wait_take
  <2>2. Conserved'
    BY <1>4, <2>1, SumKept DEF S!sem_wait_take
  <2>3. S!TypeOK' /\ S!NoLostPost'
    BY <1>1, <1>4 DEF S!sem_wait_take, S!may_take, S!TypeOK, S!NoLostPost
  <2>. QED BY <2>1, <2>2, <2>3 DEF SemInv
<1>5. ASSUME NEW p \in Clients, S!sem_wait_sleep(p)
      PROVE  SemInv'
  <2>1. IsFiniteSet(S!Held)' /\ Conserved'
    BY <1>2, <1>5, ZenonT(60) DEF S!sem_wait_sleep
  <2>2. S!TypeOK' /\ S!NoLostPost'
    BY <1>1, <1>5 DEF S!sem_wait_sleep, S!may_sleep, S!TypeOK, S!NoLostPost
  <2>. QED BY <2>1, <2>2 DEF SemInv
<1>6. ASSUME NEW p \in Clients, S!sys_sem_post(p)
      PROVE  SemInv'
  <2>1. /\ value' = value + 1 /\ s_pc' = S!WakeAll
        /\ UNCHANGED <<destroyed, s_killed>>
    BY <1>6 DEF S!sys_sem_post, S!post_wakes
  <2>2. CASE holds[p] > 0 /\ holds' = [holds EXCEPT ![p] = @ - 1] /\ total' = total
    <3>1. IsFiniteSet(S!Held)' /\ Cardinality(S!Held)' = Cardinality(S!Held) - 1
      BY <2>2, GiveResource, Zenon
    <3>2. Conserved'
      <4>1. /\ -1 \in Int /\ value' = value - (-1) /\ total' = total
            /\ Cardinality(S!Held)' = Cardinality(S!Held) + (-1)
        <5>1. value \in Nat /\ Cardinality(S!Held) \in Nat
          BY <1>1, FS_CardinalityType, Zenon DEF S!TypeOK
        <5>. QED BY <2>1, <2>2, <3>1, <5>1
      <4>. QED BY <4>1, SumKept, Zenon
    <3>3. S!TypeOK' /\ S!NoLostPost'
      BY <1>1, <2>1, <2>2 DEF S!WakeAll, S!TypeOK, S!NoLostPost
    <3>. QED BY <3>1, <3>2, <3>3 DEF SemInv
  <2>3. CASE total < MaxTotal /\ holds' = holds /\ total' = total + 1
    <3>1. IsFiniteSet(S!Held)' /\ Cardinality(S!Held)' = Cardinality(S!Held)
      BY <1>1, <2>3 DEF S!Held
    <3>2. Conserved'
      <4>1. value \in Nat /\ Cardinality(S!Held) \in Nat /\ value + Cardinality(S!Held) = total
        BY <1>1, FS_CardinalityType, Zenon DEF S!TypeOK, SemInv, Conserved
      <4>2. ASSUME NEW c \in Nat, NEW v \in Nat PROVE (v + 1) + c = (v + c) + 1
        OBVIOUS
      <4>. QED BY <2>1, <2>3, <3>1, <4>1, <4>2, Zenon DEF Conserved
    <3>3. S!TypeOK' /\ S!NoLostPost'
      BY <1>1, <2>1, <2>3 DEF S!WakeAll, S!TypeOK, S!NoLostPost, S!Constants
    <3>. QED BY <3>1, <3>2, <3>3 DEF SemInv
  <2>. QED BY <1>6, <2>2, <2>3 DEF S!sys_sem_post
<1>7. ASSUME NEW p \in Clients, S!sys_sem_destroy(p)
      PROVE  SemInv'
  <2>1. IsFiniteSet(S!Held)' /\ Conserved'
    BY <1>2, <1>7, ZenonT(60) DEF S!sys_sem_destroy
  <2>2. S!TypeOK' /\ S!NoLostPost'
    BY <1>1, <1>7, ZenonT(60) DEF S!sys_sem_destroy, S!destroy_wakes, S!WakeAll, S!TypeOK, S!NoLostPost
  <2>. QED BY <2>1, <2>2 DEF SemInv
<1>8. ASSUME NEW p \in Clients, S!kkill(p)
      PROVE  SemInv'
  <2>1. IsFiniteSet(S!Held)' /\ Conserved'
    BY <1>2, <1>8 DEF S!kkill
  <2>2. S!TypeOK' /\ S!NoLostPost'
    BY <1>1, <1>8 DEF S!kkill, S!TypeOK, S!NoLostPost
  <2>. QED BY <2>1, <2>2 DEF SemInv
<1>9. ASSUME UNCHANGED S!vars
      PROVE  SemInv'
  <2>1. IsFiniteSet(S!Held)' /\ Conserved'
    BY <1>2, <1>9 DEF S!vars
  <2>2. S!TypeOK' /\ S!NoLostPost'
    BY <1>1, <1>9 DEF S!vars, S!TypeOK, S!NoLostPost
  <2>. QED BY <2>1, <2>2 DEF SemInv
<1>. QED BY <1>3, <1>4, <1>5, <1>6, <1>7, <1>8, <1>9, Zenon DEF S!Next, S!WaitStep, S!Done

\* The inductive invariant of sem.c, for any number of processes.
THEOREM SemInvariant ==
  ASSUME S!Constants
  PROVE  S!Spec => []SemInv
BY InitSem, NextSem, PTL DEF S!Spec

\* sem.c, for any number of processes: of those that a post wakes no more get through than
\* there are resources, and nobody sleeps in sem_wait who has something to do.
THEOREM SemConserves ==
  ASSUME S!Constants
  PROVE  S!Spec => [](S!ResourcesConserved /\ S!NoLostPost)
<1>1. SemInv => S!ResourcesConserved /\ S!NoLostPost
  BY ConservedAll, Zenon DEF SemInv, S!TypeOK
<1>. QED BY <1>1, SemInvariant, PTL

================================================================================
