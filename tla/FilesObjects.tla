------------------------------ MODULE FilesObjects ------------------------------
(***************************************************************************)
(* What open files refer to (Files), for any numbers of processes,         *)
(* descriptors, files and pages: every step keeps the types, and the ties  *)
(* between files, closes on the way and the pages of pipes and semaphores. *)
(* FilesProofs counts the references and puts the two halves together.     *)
(***************************************************************************)
EXTENDS Files, TLAPS

\* What a system call has in hand at each place.
Places ==
  \A p \in Procs :
    /\ op[p].pc \in {"user", "exit", "unused"} => op[p].files = {}
    /\ op[p].pc \in {"pipe1", "sem1", "sem2"} => \E f \in Files : op[p].files = {f}
    /\ op[p].pc \in {"pipe2", "pipe3"} => \E f, g \in Files : f # g /\ op[p].files = {f, g}
    /\ op[p].pc = "unused" => \A fd \in Fds : ofile[p][fd] = NULL

\* Nobody else has a file that a system call is setting up.
OneHand ==
  \A p \in Procs : \A f \in op[p].files : \A q \in Procs :
    /\ \A fd \in Fds : ofile[q][fd] # f
    /\ f \in op[q].files => q = p
    /\ f \notin closing[q]

\* The object is there, and the page holds what the type says.
Backed(pages, t, pg, w) ==
  /\ pg \in Pages
  /\ t = "FD_PIPE" => pages[pg].kind = "pipe" /\ End(w) \in pages[pg].ends
  /\ t = "FD_SEM" => w = TRUE /\ pages[pg] = SemPage(1)

\* Files and closes on the way have objects, and never the same end of one.
Claims ==
  /\ \A f \in Files : type[f] # "FD_NONE" => Backed(page, type[f], obj[f], writable[f])
  /\ \A p \in Procs : ending[p].type # "FD_NONE" =>
       Backed(page, ending[p].type, ending[p].page, ending[p].writable)
  /\ \A f, g \in Files :
       type[f] # "FD_NONE" /\ type[g] = type[f] /\ obj[g] = obj[f] /\ writable[g] = writable[f]
         => f = g
  /\ \A f \in Files, p \in Procs :
       ~(type[f] # "FD_NONE" /\ ending[p].type = type[f] /\ ending[p].page = obj[f]
         /\ ending[p].writable = writable[f])
  /\ \A p, q \in Procs :
       ending[p].type # "FD_NONE" /\ ending[q].type = ending[p].type
       /\ ending[q].page = ending[p].page /\ ending[q].writable = ending[p].writable
         => p = q

\* An open end of a pipe has a file or a close on the way.
EndsHeld ==
  \A pg \in Pages, w \in BOOLEAN :
    page[pg].kind = "pipe" /\ End(w) \in page[pg].ends =>
      \/ \E f \in Files : type[f] = "FD_PIPE" /\ obj[f] = pg /\ writable[f] = w
      \/ \E p \in Procs : ending[p].type = "FD_PIPE" /\ ending[p].page = pg
                          /\ ending[p].writable = w

\* The semaphore that sem_create has just made is its own.
NewSems ==
  \A p \in Procs : op[p].pc = "sem2" =>
    /\ op[p].page \in Pages /\ page[op[p].page] = SemPage(0)
    /\ \A q \in Procs : op[q].pc = "sem2" /\ op[q].page = op[p].page => q = p

\* A file has no type until its object is there, and none when it is closed.
Untyped ==
  /\ \A p \in Procs : op[p].pc # "pipe3" => \A f \in op[p].files : type[f] = "FD_NONE"
  /\ \A f \in Files : ref[f] = 0 => type[f] = "FD_NONE"

\* What the counts give: a file that a system call is setting up is its own, and is
\* not free.
Held ==
  /\ Places /\ OneHand
  /\ \A p \in Procs : \A f \in op[p].files : ref[f] >= 1

--------------------------------------------------------------------------------
(* The pipes and semaphores. *)

LEMMA PageKinds ==
  /\ Free.kind = "free"
  /\ \A n : SemPage(n).kind = "sem" /\ SemPage(n).ref_count = n
  /\ \A e : PipePage(e).kind = "pipe" /\ PipePage(e).ends = e
BY DEF Free, SemPage, PipePage

LEMMA TwoEnds ==
  End(TRUE) = "write" /\ End(FALSE) = "read"
BY DEF End

Typed == Claims /\ EndsHeld /\ NewSems /\ Untyped

\* A step of descriptors, counts and files without type leaves the objects alone.
LEMMA KeepTyped ==
  ASSUME TypeOK, Typed, type' = type, writable' = writable, obj' = obj, page' = page,
         ending' = ending,
         \A q \in Procs :
           \/ op'[q] = op[q]
           \/ op'[q].pc # "sem2" /\ \A f \in op'[q].files : type[f] = "FD_NONE",
         \A f \in Files : ref'[f] = 0 => type[f] = "FD_NONE"
  PROVE  Typed'
<1>1. Claims'
  BY DEF Typed, Claims
<1>2. EndsHeld'
  BY DEF Typed, EndsHeld
<1>3. NewSems'
  BY DEF Typed, NewSems
<1>4. Untyped'
  BY DEF Typed, Untyped
<1>. QED BY <1>1, <1>2, <1>3, <1>4 DEF Typed

\* The last close of a file with an object: the object is the closing process's.
LEMMA LastClose ==
  ASSUME TypeOK, Typed, NEW p \in Procs, NEW g \in Files, type[g] # "FD_NONE",
         ending[p] = NoObject, ending' = [ending EXCEPT ![p] = Object(g)],
         type' = [type EXCEPT ![g] = "FD_NONE"], ref' = [ref EXCEPT ![g] = @ - 1],
         writable' = writable, obj' = obj, page' = page, op' = op
  PROVE  Typed'
<1>1. ending[p].type = "FD_NONE"
  BY DEF NoObject
<1>2. /\ ending'[p].type = type[g] /\ ending'[p].page = obj[g] /\ ending'[p].writable = writable[g]
      /\ \A q \in Procs : q # p => ending'[q] = ending[q]
  BY DEF Object, TypeOK
<1>3. type'[g] = "FD_NONE" /\ \A f \in Files : f # g => type'[f] = type[f] /\ ref'[f] = ref[f]
  BY DEF TypeOK
<1>4. Claims'
  <2>1. \A f \in Files : type'[f] # "FD_NONE" => Backed(page, type'[f], obj[f], writable[f])
    BY <1>3 DEF Typed, Claims
  <2>2. \A q \in Procs : ending'[q].type # "FD_NONE" =>
          Backed(page, ending'[q].type, ending'[q].page, ending'[q].writable)
    BY <1>2 DEF Typed, Claims
  <2>3. \A f, h \in Files :
          type'[f] # "FD_NONE" /\ type'[h] = type'[f] /\ obj[h] = obj[f]
          /\ writable[h] = writable[f] => f = h
    BY <1>3 DEF Typed, Claims
  <2>4. \A f \in Files, q \in Procs :
          ~(type'[f] # "FD_NONE" /\ ending'[q].type = type'[f] /\ ending'[q].page = obj[f]
            /\ ending'[q].writable = writable[f])
    BY <1>2, <1>3 DEF Typed, Claims
  <2>5. \A q, r \in Procs :
          ending'[q].type # "FD_NONE" /\ ending'[r].type = ending'[q].type
          /\ ending'[r].page = ending'[q].page /\ ending'[r].writable = ending'[q].writable
            => q = r
    BY <1>2 DEF Typed, Claims
  <2>. QED BY <2>1, <2>2, <2>3, <2>4, <2>5 DEF Claims
<1>5. EndsHeld'
  BY <1>1, <1>2, <1>3 DEF Typed, EndsHeld
<1>6. NewSems'
  BY DEF Typed, NewSems
<1>7. Untyped'
  BY <1>3 DEF Typed, Untyped, TypeOK
<1>. QED BY <1>4, <1>5, <1>6, <1>7 DEF Typed

LEMMA PipecloseTyped ==
  ASSUME TypeOK, Typed, NEW p \in Procs, pipeclose(p)
  PROVE  Typed'
<1> DEFINE pg == ending[p].page
           w == ending[p].writable
           left == page[pg].ends \ {End(w)}
<1>1. /\ ending[p].type = "FD_PIPE" /\ page' = [page EXCEPT ![pg] = pipe_left(left)]
      /\ ending' = [ending EXCEPT ![p] = NoObject]
      /\ UNCHANGED <<ofile, ref, type, writable, obj, op, closing>>
  BY DEF pipeclose, file
<1>2. pg \in Pages /\ page[pg].kind = "pipe" /\ End(w) \in page[pg].ends /\ w \in BOOLEAN
  BY <1>1 DEF Typed, Claims, Backed, TypeOK
<1>3. /\ page'[pg] = pipe_left(left) /\ \A q \in Pages : q # pg => page'[q] = page[q]
      /\ ending'[p].type = "FD_NONE" /\ \A q \in Procs : q # p => ending'[q] = ending[q]
  BY <1>1, <1>2, Zenon DEF TypeOK, NoObject
<1>4. /\ left # {} => page'[pg].kind = "pipe" /\ page'[pg].ends = left
      /\ left = {} => page'[pg].kind = "free"
  BY <1>3, PageKinds, ZenonT(60) DEF pipe_left
<1>5. ASSUME NEW t \in Types, NEW v \in BOOLEAN, NEW o, t # "FD_NONE", Backed(page, t, o, v),
             ~(t = "FD_PIPE" /\ o = pg /\ v = w)
      PROVE  Backed(page', t, o, v)
  <2>1. CASE o = pg
    <3>1. t = "FD_PIPE" /\ v # w
      BY <1>2, <1>5, <2>1, PageKinds DEF Backed, Types
    <3>2. End(v) \in left
      BY <1>2, <1>5, <2>1, <3>1, TwoEnds, ZenonT(60) DEF Backed
    <3>. QED BY <1>2, <1>4, <2>1, <3>1, <3>2 DEF Backed
  <2>2. CASE o # pg
    BY <1>3, <1>5, <2>2 DEF Backed
  <2>. QED BY <2>1, <2>2
<1> HIDE DEF pg, w, left
<1>6. Claims'
  <2>1. ASSUME NEW f \in Files, type[f] # "FD_NONE" PROVE Backed(page', type[f], obj[f], writable[f])
    <3>1. Backed(page, type[f], obj[f], writable[f]) /\ type[f] \in Types /\ writable[f] \in BOOLEAN
      BY <2>1 DEF Typed, Claims, TypeOK
    <3>2. ~(type[f] = "FD_PIPE" /\ obj[f] = pg /\ writable[f] = w)
      BY <1>1, <2>1 DEF Typed, Claims, pg, w
    <3>. QED BY <1>1, <1>5, <2>1, <3>1, <3>2, Zenon
  <2>2. ASSUME NEW q \in Procs, ending'[q].type # "FD_NONE"
        PROVE  Backed(page', ending'[q].type, ending'[q].page, ending'[q].writable)
    <3>1. q # p /\ ending'[q] = ending[q]
      BY <1>3, <2>2
    <3>2. /\ Backed(page, ending[q].type, ending[q].page, ending[q].writable)
          /\ ending[q].type \in Types /\ ending[q].writable \in BOOLEAN
      BY <2>2, <3>1 DEF Typed, Claims, TypeOK
    <3>3. ~(ending[q].type = "FD_PIPE" /\ ending[q].page = pg /\ ending[q].writable = w)
      BY <1>1, <3>1 DEF Typed, Claims, pg, w
    <3>4. Backed(page', ending[q].type, ending[q].page, ending[q].writable)
      BY <1>5, <2>2, <3>1, <3>2, <3>3
    <3>. QED BY <3>1, <3>4
  <2>3. \A f, h \in Files :
          type[f] # "FD_NONE" /\ type[h] = type[f] /\ obj[h] = obj[f]
          /\ writable[h] = writable[f] => f = h
    BY DEF Typed, Claims
  <2>4. \A f \in Files, q \in Procs :
          ~(type[f] # "FD_NONE" /\ ending'[q].type = type[f] /\ ending'[q].page = obj[f]
            /\ ending'[q].writable = writable[f])
    BY <1>3 DEF Typed, Claims
  <2>5. \A q, r \in Procs :
          ending'[q].type # "FD_NONE" /\ ending'[r].type = ending'[q].type
          /\ ending'[r].page = ending'[q].page /\ ending'[r].writable = ending'[q].writable
            => q = r
    BY <1>3 DEF Typed, Claims
  <2>. QED BY <1>1, <2>1, <2>2, <2>3, <2>4, <2>5, ZenonT(60) DEF Claims
<1>7. EndsHeld'
  <2>1. ASSUME NEW o \in Pages, NEW v \in BOOLEAN,
               page'[o].kind = "pipe", End(v) \in page'[o].ends
        PROVE  \/ \E f \in Files : type'[f] = "FD_PIPE" /\ obj'[f] = o /\ writable'[f] = v
               \/ \E q \in Procs : ending'[q].type = "FD_PIPE" /\ ending'[q].page = o
                                   /\ ending'[q].writable = v
    <3>1. page[o].kind = "pipe" /\ End(v) \in page[o].ends /\ ~(o = pg /\ v = w)
      BY <1>2, <1>3, <1>4, <2>1 DEF left
    <3>2. \/ \E f \in Files : type[f] = "FD_PIPE" /\ obj[f] = o /\ writable[f] = v
          \/ \E q \in Procs : ending[q].type = "FD_PIPE" /\ ending[q].page = o
                              /\ ending[q].writable = v
      BY <3>1 DEF Typed, EndsHeld
    <3>. QED BY <1>1, <1>3, <3>1, <3>2 DEF pg, w
  <2>. QED BY <2>1 DEF EndsHeld
<1>8. NewSems'
  <2>1. \A q \in Procs : op[q].pc = "sem2" => op[q].page # pg
    BY <1>2, PageKinds DEF Typed, NewSems
  <2>. QED BY <1>1, <1>3, <2>1 DEF Typed, NewSems
<1>9. Untyped'
  BY <1>1 DEF Typed, Untyped
<1>. QED BY <1>6, <1>7, <1>8, <1>9 DEF Typed

LEMMA SemcloseTyped ==
  ASSUME TypeOK, Typed, NEW p \in Procs, sem_close(p)
  PROVE  Typed' /\ page' = [page EXCEPT ![ending[p].page] = Free]
<1> DEFINE pg == ending[p].page
<1>1. /\ ending[p].type = "FD_SEM" /\ ending' = [ending EXCEPT ![p] = NoObject]
      /\ page' = [page EXCEPT ![pg] = IF @.ref_count - 1 > 0
                                      THEN SemPage(@.ref_count - 1) ELSE Free]
      /\ UNCHANGED <<ofile, ref, type, writable, obj, op, closing>>
  BY DEF sem_close, file
<1>2. pg \in Pages /\ page[pg] = SemPage(1) /\ ending[p].writable = TRUE
  BY <1>1 DEF Typed, Claims, Backed
<1>3. page' = [page EXCEPT ![pg] = Free]
  <2>1. page[pg].ref_count = 1
    BY <1>2, PageKinds
  <2>2. ~(page[pg].ref_count - 1 > 0)
    BY <2>1
  <2>. QED BY <1>1, <2>2, Zenon
<1>4. /\ page'[pg] = Free /\ \A q \in Pages : q # pg => page'[q] = page[q]
      /\ ending'[p].type = "FD_NONE" /\ \A q \in Procs : q # p => ending'[q] = ending[q]
  BY <1>1, <1>2, <1>3 DEF TypeOK, NoObject
<1>5. /\ page[pg].kind = "sem" /\ page'[pg].kind = "free"
      /\ page[pg].ref_count = 1 /\ SemPage(0).ref_count = 0
  BY <1>2, <1>4, PageKinds
<1>6. ASSUME NEW t \in Types, NEW v \in BOOLEAN, NEW o, t # "FD_NONE", Backed(page, t, o, v),
             ~(t = "FD_SEM" /\ o = pg /\ v = TRUE)
      PROVE  Backed(page', t, o, v)
  <2>1. o # pg
    BY <1>5, <1>6 DEF Backed, Types
  <2>. QED BY <1>4, <1>6, <2>1 DEF Backed
<1> HIDE DEF pg
<1>7. Claims'
  <2>1. ASSUME NEW f \in Files, type[f] # "FD_NONE" PROVE Backed(page', type[f], obj[f], writable[f])
    <3>1. Backed(page, type[f], obj[f], writable[f]) /\ type[f] \in Types /\ writable[f] \in BOOLEAN
      BY <2>1 DEF Typed, Claims, TypeOK
    <3>2. ~(type[f] = "FD_SEM" /\ obj[f] = pg /\ writable[f] = TRUE)
      BY <1>1, <1>2, <2>1, Zenon DEF Typed, Claims, pg
    <3>. QED BY <1>1, <1>6, <2>1, <3>1, <3>2, Zenon
  <2>2. ASSUME NEW q \in Procs, ending'[q].type # "FD_NONE"
        PROVE  Backed(page', ending'[q].type, ending'[q].page, ending'[q].writable)
    <3>1. q # p /\ ending'[q] = ending[q]
      BY <1>4, <2>2
    <3>2. /\ Backed(page, ending[q].type, ending[q].page, ending[q].writable)
          /\ ending[q].type \in Types /\ ending[q].writable \in BOOLEAN
      BY <2>2, <3>1 DEF Typed, Claims, TypeOK
    <3>3. ~(ending[q].type = "FD_SEM" /\ ending[q].page = pg /\ ending[q].writable = TRUE)
      BY <1>1, <1>2, <3>1, Zenon DEF Typed, Claims, pg
    <3>4. Backed(page', ending[q].type, ending[q].page, ending[q].writable)
      BY <1>6, <2>2, <3>1, <3>2, <3>3, ZenonT(60)
    <3>. QED BY <3>1, <3>4
  <2>3. \A f, h \in Files :
          type[f] # "FD_NONE" /\ type[h] = type[f] /\ obj[h] = obj[f]
          /\ writable[h] = writable[f] => f = h
    BY DEF Typed, Claims
  <2>4. \A f \in Files, q \in Procs :
          ~(type[f] # "FD_NONE" /\ ending'[q].type = type[f] /\ ending'[q].page = obj[f]
            /\ ending'[q].writable = writable[f])
    BY <1>4 DEF Typed, Claims
  <2>5. \A q, r \in Procs :
          ending'[q].type # "FD_NONE" /\ ending'[r].type = ending'[q].type
          /\ ending'[r].page = ending'[q].page /\ ending'[r].writable = ending'[q].writable
            => q = r
    BY <1>4 DEF Typed, Claims
  <2>. QED BY <1>1, <2>1, <2>2, <2>3, <2>4, <2>5, ZenonT(60) DEF Claims
<1>8. EndsHeld'
  <2>1. \A o \in Pages : page'[o].kind = "pipe" => page'[o] = page[o]
    BY <1>4, <1>5
  <2>2. \A q \in Procs : ending[q].type = "FD_PIPE" => ending'[q] = ending[q]
    BY <1>1, <1>4
  <2>. QED BY <1>1, <2>1, <2>2 DEF Typed, EndsHeld
<1>9. NewSems'
  <2>1. \A q \in Procs : op[q].pc = "sem2" => op[q].page # pg
    BY <1>5 DEF Typed, NewSems
  <2>. QED BY <1>1, <1>4, <2>1 DEF Typed, NewSems
<1>10. Untyped'
  BY <1>1 DEF Typed, Untyped
<1>. QED BY <1>3, <1>7, <1>8, <1>9, <1>10 DEF Typed, pg

\* Nobody claims a page that is free or is a semaphore without file.
LEMMA Unclaimed ==
  ASSUME TypeOK, Claims, NEW pg \in Pages, page[pg] \in {Free, SemPage(0)}
  PROVE  /\ \A f \in Files : type[f] # "FD_NONE" => obj[f] # pg
         /\ \A q \in Procs : ending[q].type # "FD_NONE" => ending[q].page # pg
<1>1. page[pg].kind # "pipe" /\ page[pg] # SemPage(1)
  BY PageKinds
<1>. QED BY <1>1 DEF Claims, Backed, TypeOK, Types

\* Files and closes that do not claim pg keep their objects when it changes.
LEMMA StillBacked ==
  ASSUME TypeOK, Claims, NEW pg \in Pages, NEW x, page' = [page EXCEPT ![pg] = x]
  PROVE  /\ \A f \in Files : type[f] # "FD_NONE" /\ obj[f] # pg =>
                Backed(page', type[f], obj[f], writable[f])
         /\ \A q \in Procs : ending[q].type # "FD_NONE" /\ ending[q].page # pg =>
                Backed(page', ending[q].type, ending[q].page, ending[q].writable)
<1>1. \A t, w : \A o \in Pages : o # pg /\ Backed(page, t, o, w) => Backed(page', t, o, w)
  BY DEF Backed, TypeOK
<1>2. \A t, o, w : Backed(page, t, o, w) => o \in Pages
  BY DEF Backed
<1>. QED BY <1>1, <1>2, ZenonT(60) DEF Claims

LEMMA PipeallocTyped ==
  ASSUME TypeOK, Held, Typed, NEW p \in Procs, pipealloc_page(p)
  PROVE  Typed'
<1> DEFINE fs == op[p].files
<1>1. PICK pg \in Pages, wf \in fs :
        /\ page[pg] = Free
        /\ page' = [page EXCEPT ![pg] = PipePage({"read", "write"})]
        /\ type' = [f \in Files |-> IF f \in fs THEN "FD_PIPE" ELSE type[f]]
        /\ writable' = [f \in Files |-> IF f \in fs THEN f = wf ELSE writable[f]]
        /\ obj' = [f \in Files |-> IF f \in fs THEN pg ELSE obj[f]]
        /\ Goto(p, At("pipe3", fs, NULL))
  BY Zenon DEF pipealloc_page
<1>2. op[p].pc = "pipe2" /\ ref' = ref /\ ending' = ending
  BY ZenonT(60) DEF pipealloc_page, Ready
<1>3. PICK rf \in Files : rf # wf /\ fs = {rf, wf}
  BY <1>2 DEF Held, Places
<1>4. wf \in Files /\ type[rf] = "FD_NONE" /\ type[wf] = "FD_NONE"
  BY <1>2, <1>3 DEF Typed, Untyped, TypeOK
<1> HIDE DEF fs
<1>5. /\ \A f \in Files : f # rf /\ f # wf =>
           type'[f] = type[f] /\ writable'[f] = writable[f] /\ obj'[f] = obj[f]
      /\ type'[rf] = "FD_PIPE" /\ writable'[rf] = FALSE /\ obj'[rf] = pg
      /\ type'[wf] = "FD_PIPE" /\ writable'[wf] = TRUE /\ obj'[wf] = pg
  BY <1>1, <1>3, <1>4, ZenonT(60)
<1>6. /\ page'[pg].kind = "pipe" /\ page'[pg].ends = {"read", "write"}
      /\ \A o \in Pages : o # pg => page'[o] = page[o]
  BY <1>1, PageKinds DEF TypeOK
<1>7. /\ \A f \in Files : type[f] # "FD_NONE" => obj[f] # pg
      /\ \A q \in Procs : ending[q].type # "FD_NONE" => ending[q].page # pg
  BY <1>1, Unclaimed, Zenon DEF Typed
<1>8. /\ \A f \in Files : type[f] # "FD_NONE" /\ obj[f] # pg =>
            Backed(page', type[f], obj[f], writable[f])
      /\ \A q \in Procs : ending[q].type # "FD_NONE" /\ ending[q].page # pg =>
            Backed(page', ending[q].type, ending[q].page, ending[q].writable)
  BY <1>1, StillBacked, ZenonT(60) DEF Typed
<1>9. Claims'
  <2>1. ASSUME NEW f \in Files, type'[f] # "FD_NONE"
        PROVE  Backed(page', type'[f], obj'[f], writable'[f])
    <3>1. CASE f = rf \/ f = wf
      <4>1. Backed(page', "FD_PIPE", pg, FALSE) /\ Backed(page', "FD_PIPE", pg, TRUE)
        BY <1>6, TwoEnds, ZenonT(60) DEF Backed
      <4>. QED BY <1>5, <3>1, <4>1, Zenon
    <3>2. CASE f # rf /\ f # wf
      BY <1>5, <1>7, <1>8, <2>1, <3>2, ZenonT(60)
    <3>. QED BY <3>1, <3>2, Zenon
  <2>2. \A q \in Procs : ending'[q].type # "FD_NONE" =>
          Backed(page', ending'[q].type, ending'[q].page, ending'[q].writable)
    BY <1>2, <1>7, <1>8
  <2>3. ASSUME NEW f \in Files, NEW h \in Files,
               type'[f] # "FD_NONE", type'[h] = type'[f], obj'[h] = obj'[f],
               writable'[h] = writable'[f]
        PROVE  f = h
    <3>1. CASE f \in {rf, wf} /\ h \in {rf, wf}
      BY <1>3, <1>5, <2>3, <3>1
    <3>2. CASE f \in {rf, wf} /\ h \notin {rf, wf}
      BY <1>5, <1>7, <2>3, <3>2
    <3>3. CASE f \notin {rf, wf} /\ h \in {rf, wf}
      BY <1>5, <1>7, <2>3, <3>3
    <3>4. CASE f \notin {rf, wf} /\ h \notin {rf, wf}
      BY <1>5, <2>3, <3>4 DEF Typed, Claims
    <3>. QED BY <3>1, <3>2, <3>3, <3>4
  <2>4. ASSUME NEW f \in Files, NEW q \in Procs,
               type'[f] # "FD_NONE", ending[q].type = type'[f], ending[q].page = obj'[f],
               ending[q].writable = writable'[f]
        PROVE  FALSE
    <3>1. CASE f \in {rf, wf}
      BY <1>5, <1>7, <2>4, <3>1
    <3>2. CASE f \notin {rf, wf}
      BY <1>5, <2>4, <3>2 DEF Typed, Claims
    <3>. QED BY <3>1, <3>2
  <2>5. \A q, r \in Procs :
          ending'[q].type # "FD_NONE" /\ ending'[r].type = ending'[q].type
          /\ ending'[r].page = ending'[q].page /\ ending'[r].writable = ending'[q].writable
            => q = r
    BY <1>2, ZenonT(60) DEF Typed, Claims
  <2>. QED BY <1>2, <2>1, <2>2, <2>3, <2>4, <2>5, ZenonT(60) DEF Claims
<1>10. EndsHeld'
  <2>1. ASSUME NEW o \in Pages, NEW v \in BOOLEAN,
               page'[o].kind = "pipe", End(v) \in page'[o].ends
        PROVE  \/ \E f \in Files : type'[f] = "FD_PIPE" /\ obj'[f] = o /\ writable'[f] = v
               \/ \E q \in Procs : ending'[q].type = "FD_PIPE" /\ ending'[q].page = o
                                   /\ ending'[q].writable = v
    <3>1. CASE o = pg
      BY <1>4, <1>5, <2>1, <3>1, ZenonT(60)
    <3>2. CASE o # pg
      <4>1. \/ \E f \in Files : type[f] = "FD_PIPE" /\ obj[f] = o /\ writable[f] = v
            \/ \E q \in Procs : ending[q].type = "FD_PIPE" /\ ending[q].page = o
                                /\ ending[q].writable = v
        BY <1>6, <2>1, <3>2 DEF Typed, EndsHeld
      <4>2. \A f \in Files : type[f] = "FD_PIPE" =>
              type'[f] = type[f] /\ obj'[f] = obj[f] /\ writable'[f] = writable[f]
        BY <1>4, <1>5
      <4>. QED BY <1>2, <4>1, <4>2
    <3>. QED BY <3>1, <3>2
  <2>. QED BY <2>1 DEF EndsHeld
<1>11. /\ op'[p].pc = "pipe3" /\ op'[p].files = fs
       /\ \A q \in Procs : q # p => op'[q] = op[q]
  BY <1>1 DEF Goto, TypeOK, At
<1>12. NewSems'
  <2>1. \A q \in Procs : op[q].pc = "sem2" => op[q].page # pg
    <3>1. SemPage(0) # Free
      BY PageKinds
    <3>. QED BY <1>1, <3>1 DEF Typed, NewSems
  <2>. QED BY <1>6, <1>11, <2>1 DEF Typed, NewSems
<1>13. Untyped'
  <2>1. ref[rf] >= 1 /\ ref[wf] >= 1
    BY <1>3, <1>4 DEF Held, fs
  <2>2. \A q \in Procs : q # p => rf \notin op[q].files /\ wf \notin op[q].files
    BY <1>3, <1>4 DEF Held, OneHand, fs
  <2>3. \A q \in Procs : op[q].files \subseteq Files
    BY DEF TypeOK
  <2>4. \A f \in Files : ref'[f] = 0 => type'[f] = "FD_NONE"
    BY <1>2, <1>5, <2>1 DEF Typed, Untyped
  <2>5. ASSUME NEW q \in Procs, op'[q].pc # "pipe3", NEW f \in op'[q].files
        PROVE  type'[f] = "FD_NONE"
    BY <1>5, <1>11, <2>2, <2>3, <2>5 DEF Typed, Untyped
  <2>. QED BY <2>4, <2>5 DEF Untyped
<1>. QED BY <1>9, <1>10, <1>12, <1>13 DEF Typed

LEMMA SemallocTyped ==
  ASSUME TypeOK, Typed, NEW p \in Procs, sem_alloc(p)
  PROVE  Typed'
<1>1. PICK pg \in Pages :
        /\ page[pg] = Free /\ page' = [page EXCEPT ![pg] = SemPage(0)]
        /\ Goto(p, At("sem2", op[p].files, pg))
  BY Zenon DEF sem_alloc
<1>2. op[p].pc = "sem1" /\ UNCHANGED <<ref, type, writable, obj, ending>>
  BY ZenonT(60) DEF sem_alloc, Ready, file
<1>3. /\ op'[p].pc = "sem2" /\ op'[p].files = op[p].files /\ op'[p].page = pg
      /\ \A q \in Procs : q # p => op'[q] = op[q]
  BY <1>1 DEF Goto, TypeOK, At
<1>4. /\ page'[pg] = SemPage(0) /\ page'[pg].kind = "sem"
      /\ \A o \in Pages : o # pg => page'[o] = page[o]
  BY <1>1, PageKinds, ZenonT(60) DEF TypeOK
<1>5. /\ \A f \in Files : type[f] # "FD_NONE" => obj[f] # pg
      /\ \A q \in Procs : ending[q].type # "FD_NONE" => ending[q].page # pg
  BY <1>1, Unclaimed DEF Typed
<1>6. /\ \A f \in Files : type[f] # "FD_NONE" /\ obj[f] # pg =>
            Backed(page', type[f], obj[f], writable[f])
      /\ \A q \in Procs : ending[q].type # "FD_NONE" /\ ending[q].page # pg =>
            Backed(page', ending[q].type, ending[q].page, ending[q].writable)
  BY <1>1, StillBacked, ZenonT(60) DEF Typed
<1>7. Claims'
  <2>1. /\ \A f \in Files : type[f] # "FD_NONE" => Backed(page', type[f], obj[f], writable[f])
        /\ \A q \in Procs : ending[q].type # "FD_NONE" =>
             Backed(page', ending[q].type, ending[q].page, ending[q].writable)
    BY <1>5, <1>6
  <2>. QED BY <1>2, <2>1, ZenonT(60) DEF Typed, Claims
<1>8. EndsHeld'
  <2>1. \A o \in Pages : page'[o].kind = "pipe" => page'[o] = page[o]
    BY <1>4
  <2>. QED BY <1>2, <2>1 DEF Typed, EndsHeld
<1>9. NewSems'
  <2>1. \A q \in Procs : op[q].pc = "sem2" => op[q].page # pg
    <3>1. SemPage(0) # Free
      BY PageKinds
    <3>. QED BY <1>1, <3>1, Zenon DEF Typed, NewSems
  <2>. QED BY <1>3, <1>4, <2>1 DEF Typed, NewSems
<1>10. Untyped'
  BY <1>2, <1>3 DEF Typed, Untyped
<1>. QED BY <1>7, <1>8, <1>9, <1>10 DEF Typed

LEMMA SemcreateTyped ==
  ASSUME TypeOK, Held, Typed, NEW p \in Procs, sys_sem_create(p)
  PROVE  Typed' /\ page' = [page EXCEPT ![op[p].page] = SemPage(1)]
<1> DEFINE pg == op[p].page
<1>1. PICK g \in op[p].files :
        /\ type' = [type EXCEPT ![g] = "FD_SEM"]
        /\ writable' = [writable EXCEPT ![g] = TRUE]
        /\ obj' = [obj EXCEPT ![g] = pg]
        /\ page' = [page EXCEPT ![pg] = SemPage(@.ref_count + 1)]
  BY Zenon DEF sys_sem_create
<1>2. op[p].pc = "sem2" /\ Goto(p, User) /\ ref' = ref /\ ending' = ending
  BY DEF sys_sem_create, Ready
<1>3. /\ g \in Files /\ op[p].files = {g} /\ type[g] = "FD_NONE"
      /\ pg \in Pages /\ page[pg] = SemPage(0)
  BY <1>2 DEF TypeOK, Held, Places, Typed, Untyped, NewSems
<1>4. page' = [page EXCEPT ![pg] = SemPage(1)]
  <2>1. page[pg].ref_count + 1 = 1
    BY <1>3, PageKinds
  <2>. QED BY <1>1, <2>1, ZenonT(60)
<1>5. /\ type'[g] = "FD_SEM" /\ writable'[g] = TRUE /\ obj'[g] = pg
      /\ \A f \in Files : f # g =>
           type'[f] = type[f] /\ writable'[f] = writable[f] /\ obj'[f] = obj[f]
  BY <1>1, <1>3 DEF TypeOK
<1>6. /\ page'[pg] = SemPage(1) /\ page'[pg].kind = "sem"
      /\ \A o \in Pages : o # pg => page'[o] = page[o]
  BY <1>3, <1>4, PageKinds, ZenonT(60) DEF TypeOK
<1>7. /\ \A q \in Procs : q # p => op'[q] = op[q]
      /\ op'[p].pc = "user" /\ op'[p].files = {}
  BY <1>2 DEF Goto, TypeOK, User, At
<1>8. /\ \A f \in Files : type[f] # "FD_NONE" => obj[f] # pg
      /\ \A q \in Procs : ending[q].type # "FD_NONE" => ending[q].page # pg
  BY <1>3, Unclaimed DEF Typed
<1>9. /\ \A f \in Files : type[f] # "FD_NONE" /\ obj[f] # pg =>
            Backed(page', type[f], obj[f], writable[f])
      /\ \A q \in Procs : ending[q].type # "FD_NONE" /\ ending[q].page # pg =>
            Backed(page', ending[q].type, ending[q].page, ending[q].writable)
  BY <1>3, <1>4, StillBacked, ZenonT(60) DEF Typed
<1> HIDE DEF pg
<1>10. Claims'
  <2>1. ASSUME NEW f \in Files, type'[f] # "FD_NONE"
        PROVE  Backed(page', type'[f], obj'[f], writable'[f])
    <3>1. Backed(page', "FD_SEM", pg, TRUE)
      BY <1>3, <1>6 DEF Backed
    <3>. QED BY <1>5, <1>8, <1>9, <2>1, <3>1, ZenonT(60)
  <2>2. \A q \in Procs : ending'[q].type # "FD_NONE" =>
          Backed(page', ending'[q].type, ending'[q].page, ending'[q].writable)
    BY <1>2, <1>8, <1>9, ZenonT(60)
  <2>3. \A f, h \in Files :
          type'[f] # "FD_NONE" /\ type'[h] = type'[f] /\ obj'[h] = obj'[f]
          /\ writable'[h] = writable'[f] => f = h
    BY <1>5, <1>8 DEF Typed, Claims
  <2>4. \A f \in Files, q \in Procs :
          ~(type'[f] # "FD_NONE" /\ ending[q].type = type'[f] /\ ending[q].page = obj'[f]
            /\ ending[q].writable = writable'[f])
    BY <1>5, <1>8 DEF Typed, Claims
  <2>5. \A q, r \in Procs :
          ending'[q].type # "FD_NONE" /\ ending'[r].type = ending'[q].type
          /\ ending'[r].page = ending'[q].page /\ ending'[r].writable = ending'[q].writable
            => q = r
    BY <1>2, ZenonT(60) DEF Typed, Claims
  <2>. QED BY <1>2, <2>1, <2>2, <2>3, <2>4, <2>5, ZenonT(60) DEF Claims
<1>11. EndsHeld'
  <2>1. \A o \in Pages : page'[o].kind = "pipe" => page'[o] = page[o]
    BY <1>6
  <2>2. \A f \in Files : type[f] = "FD_PIPE" =>
          type'[f] = type[f] /\ obj'[f] = obj[f] /\ writable'[f] = writable[f]
    BY <1>3, <1>5, ZenonT(60)
  <2>3. ASSUME NEW o \in Pages, NEW w \in BOOLEAN,
               page'[o].kind = "pipe" /\ End(w) \in page'[o].ends
        PROVE  \/ \E f \in Files : type'[f] = "FD_PIPE" /\ obj'[f] = o /\ writable'[f] = w
               \/ \E q \in Procs : ending[q].type = "FD_PIPE" /\ ending[q].page = o
                                   /\ ending[q].writable = w
    <3>1. page[o].kind = "pipe" /\ End(w) \in page[o].ends
      BY <2>1, <2>3, Zenon
    <3>2. \/ \E f \in Files : type[f] = "FD_PIPE" /\ obj[f] = o /\ writable[f] = w
          \/ \E q \in Procs : ending[q].type = "FD_PIPE" /\ ending[q].page = o
                              /\ ending[q].writable = w
      BY <3>1 DEF Typed, EndsHeld
    <3>. QED BY <2>2, <3>2, ZenonT(60)
  <2>. QED BY <1>2, <2>3 DEF EndsHeld
<1>12. NewSems'
  <2>1. \A q \in Procs : q # p /\ op[q].pc = "sem2" => op[q].page # pg
    BY <1>2 DEF Typed, NewSems, pg
  <2>. QED BY <1>6, <1>7, <2>1 DEF Typed, NewSems
<1>13. Untyped'
  <2>1. ref[g] >= 1
    BY <1>3 DEF Held
  <2>2. \A q \in Procs : op[q].files \subseteq Files /\ (q # p => g \notin op[q].files)
    BY <1>3 DEF TypeOK, Held, OneHand
  <2>3. \A f \in Files : ref'[f] = 0 => type'[f] = "FD_NONE"
    BY <1>2, <1>5, <2>1 DEF Typed, Untyped
  <2>. QED BY <1>5, <1>7, <2>2, <2>3 DEF Typed, Untyped
<1>. QED BY <1>4, <1>10, <1>11, <1>12, <1>13 DEF Typed, pg

--------------------------------------------------------------------------------
(* The steps. *)

LEMMA GotoType ==
  ASSUME TypeOK, NEW p \in Procs, NEW c, NEW fs \in SUBSET Files, NEW o \in Pages \cup {NULL},
         c \in {"unused", "user", "exit", "pipe1", "pipe2", "pipe3", "sem1", "sem2"},
         Goto(p, At(c, fs, o))
  PROVE  op' \in [Procs -> [pc : {"unused", "user", "exit", "pipe1", "pipe2", "pipe3", "sem1", "sem2"},
                           files : SUBSET Files, page : Pages \cup {NULL}]]
BY DEF TypeOK, Goto, At

LEMMA UserType ==
  ASSUME TypeOK, NEW p \in Procs, Goto(p, User)
  PROVE  op' \in [Procs -> [pc : {"unused", "user", "exit", "pipe1", "pipe2", "pipe3", "sem1", "sem2"},
                           files : SUBSET Files, page : Pages \cup {NULL}]]
<1>1. Goto(p, At("user", {}, NULL))
  BY DEF User
<1>. QED BY <1>1, GotoType, Zenon

LEMMA FilecloseStep ==
  ASSUME TypeOK, Held, Typed, NEW p \in Procs, fileclose(p)
  PROVE  TypeOK' /\ Typed'
<1>1. PICK g \in closing[p] :
        /\ ref[g] >= 1 /\ ref' = [ref EXCEPT ![g] = @ - 1]
        /\ type' = IF ref[g] = 1 THEN [type EXCEPT ![g] = "FD_NONE"] ELSE type
        /\ Close(p, closing[p] \ {g})
        /\ ending' = [ending EXCEPT ![p] =
                        IF ref[g] = 1 /\ type[g] # "FD_NONE" THEN Object(g) ELSE NoObject]
  BY Zenon DEF fileclose, closed_type
<1>2. ending[p] = NoObject /\ UNCHANGED <<ofile, writable, obj, page, op>>
  BY DEF fileclose
<1>3. g \in Files
  BY DEF TypeOK
<1>4. TypeOK'
  <2>1. Object(g) \in [type : Types, page : Pages \cup {NULL}, writable : BOOLEAN]
    BY <1>3 DEF Object, TypeOK
  <2>2. ending' \in [Procs -> [type : Types, page : Pages \cup {NULL}, writable : BOOLEAN]]
    BY <1>1, <1>2, <2>1 DEF TypeOK
  <2>3. type' \in [Files -> Types] /\ ref' \in [Files -> Nat]
    BY <1>1, <1>3 DEF TypeOK, Types
  <2>4. closing' \in [Procs -> SUBSET Files]
    BY <1>1 DEF TypeOK, Close
  <2>. QED BY <1>2, <2>2, <2>3, <2>4 DEF TypeOK
<1>5. CASE ref[g] = 1 /\ type[g] # "FD_NONE"
  <2>1. type' = [type EXCEPT ![g] = "FD_NONE"] /\ ending' = [ending EXCEPT ![p] = Object(g)]
    BY <1>1, <1>5
  <2>2. Typed'
    BY <1>1, <1>2, <1>3, <1>5, <2>1, LastClose, ZenonT(60)
  <2>. QED BY <1>4, <2>2
<1>6. CASE ~(ref[g] = 1 /\ type[g] # "FD_NONE")
  <2>1. type' = type /\ ending' = ending
    BY <1>1, <1>2, <1>3, <1>6 DEF TypeOK
  <2>2. \A f \in Files : ref'[f] = 0 => type[f] = "FD_NONE"
    BY <1>1, <1>3, <1>6 DEF TypeOK, Typed, Untyped
  <2>3. Typed'
    BY <1>2, <2>1, <2>2, KeepTyped
  <2>. QED BY <1>4, <2>3
<1>. QED BY <1>5, <1>6

LEMMA PipecloseStep ==
  ASSUME TypeOK, Held, Typed, NEW p \in Procs, pipeclose(p)
  PROVE  TypeOK' /\ Typed'
<1>1. Typed'
  BY PipecloseTyped
<1>2. /\ ending[p].type = "FD_PIPE" /\ page[ending[p].page].kind = "pipe"
      /\ page' = [page EXCEPT ![ending[p].page] = pipe_left(@.ends \ {End(ending[p].writable)})]
      /\ ending' = [ending EXCEPT ![p] = NoObject]
      /\ UNCHANGED <<ofile, ref, type, writable, obj, op, closing>>
  BY DEF pipeclose, file
<1>3. ending[p].page \in Pages
  BY <1>2, ZenonT(60) DEF Typed, Claims, Backed
<1>4. PICK e \in SUBSET {"read", "write"} : page[ending[p].page] = PipePage(e)
  <2> DEFINE x == page[ending[p].page]
  <2>1. x \in {Free, SemPage(0), SemPage(1)}
              \cup {PipePage(ends) : ends \in SUBSET {"read", "write"}}
    BY <1>3 DEF TypeOK
  <2>2. x.kind = "pipe"
    BY <1>2
  <2> HIDE DEF x
  <2>3. x \notin {Free, SemPage(0), SemPage(1)}
    BY <2>2, PageKinds
  <2>. QED BY <2>1, <2>3, Zenon DEF x
<1>5. page[ending[p].page].ends \in SUBSET {"read", "write"}
  <2>1. PipePage(e).ends = e
    BY DEF PipePage
  <2>. QED BY <1>4, <2>1, Zenon
<1>6. pipe_left(page[ending[p].page].ends \ {End(ending[p].writable)})
        \in {Free} \cup {PipePage(ends) : ends \in SUBSET {"read", "write"}}
  BY <1>5 DEF pipe_left
<1>7. page' \in [Pages -> {Free, SemPage(0), SemPage(1)}
                           \cup {PipePage(ends) : ends \in SUBSET {"read", "write"}}]
  BY <1>2, <1>3, <1>6, ZenonT(60) DEF TypeOK
<1>8. ending' \in [Procs -> [type : Types, page : Pages \cup {NULL}, writable : BOOLEAN]]
  BY <1>2 DEF TypeOK, NoObject, Types
<1>. QED BY <1>1, <1>2, <1>7, <1>8, ZenonT(60) DEF TypeOK

LEMMA SemcloseStep ==
  ASSUME TypeOK, Held, Typed, NEW p \in Procs, sem_close(p)
  PROVE  TypeOK' /\ Typed'
<1>1. Typed' /\ page' = [page EXCEPT ![ending[p].page] = Free]
  BY SemcloseTyped
<1>2. /\ ending' = [ending EXCEPT ![p] = NoObject]
      /\ UNCHANGED <<ofile, ref, type, writable, obj, op, closing>>
  BY DEF sem_close, file
<1>3. page' \in [Pages -> {Free, SemPage(0), SemPage(1)}
                           \cup {PipePage(ends) : ends \in SUBSET {"read", "write"}}]
  BY <1>1, ZenonT(60) DEF TypeOK
<1>4. ending' \in [Procs -> [type : Types, page : Pages \cup {NULL}, writable : BOOLEAN]]
  BY <1>2 DEF TypeOK, NoObject, Types
<1>. QED BY <1>1, <1>2, <1>3, <1>4 DEF TypeOK

\* close and exit clear a descriptor.
LEMMA DropFdStep ==
  ASSUME TypeOK, Held, Typed, NEW p \in Procs, NEW fd \in Fds, NEW pc,
         Ready(p, pc), pc \in {"user", "exit"}, ofile[p][fd] # NULL,
         ofile' = [ofile EXCEPT ![p][fd] = NULL], Close(p, {ofile[p][fd]}),
         UNCHANGED <<file, page, op, ending>>
  PROVE  TypeOK' /\ Typed'
<1>1. UNCHANGED <<ref, type, writable, obj, page, op, ending>>
  BY DEF file
<1>2. Typed'
  <2>1. \A f \in Files : ref'[f] = 0 => type[f] = "FD_NONE"
    BY <1>1 DEF Typed, Untyped
  <2>. QED BY <1>1, <2>1, KeepTyped
<1>3. ofile[p][fd] \in Files
  BY DEF TypeOK
<1>4. ofile' \in [Procs -> [Fds -> Files \cup {NULL}]]
  BY DEF TypeOK
<1>5. closing' \in [Procs -> SUBSET Files]
  BY <1>3 DEF TypeOK, Close
<1>6. TypeOK'
  BY <1>1, <1>4, <1>5 DEF TypeOK
<1>. QED BY <1>2, <1>6

LEMMA DupStep ==
  ASSUME TypeOK, Held, Typed, NEW p \in Procs, NEW fd \in Fds, sys_dup(p, fd)
  PROVE  TypeOK' /\ Typed'
<1>1. PICK g \in Files : ofile[p][fd] = g /\ ref' = [ref EXCEPT ![g] = @ + 1]
  <2>1. ofile[p][fd] # NULL /\ ref' = [ref EXCEPT ![ofile[p][fd]] = @ + 1]
    BY DEF sys_dup
  <2>2. ofile[p][fd] \in Files
    BY <2>1 DEF TypeOK
  <2>. QED BY <2>1, <2>2, ZenonT(60)
<1>2. UNCHANGED <<type, writable, obj, page, op, closing, ending>>
  BY DEF sys_dup
<1>3. Typed'
  <2>1. \A f \in Files : ref'[f] = 0 => type[f] = "FD_NONE"
    BY <1>1 DEF Typed, Untyped, TypeOK
  <2>. QED BY <1>2, <2>1, KeepTyped
<1>4. TypeOK'
  <2>1. PICK to \in Fds : ofile' = [ofile EXCEPT ![p][to] = g]
    BY <1>1, Zenon DEF sys_dup
  <2>2. ofile' \in [Procs -> [Fds -> Files \cup {NULL}]]
    BY <2>1 DEF TypeOK
  <2>3. ref' \in [Files -> Nat]
    BY <1>1 DEF TypeOK
  <2>. QED BY <1>2, <2>2, <2>3 DEF TypeOK
<1>. QED BY <1>3, <1>4

LEMMA ForkStep ==
  ASSUME TypeOK, Held, Typed, NEW p \in Procs, NEW np \in Procs, kfork(p, np),
         \A f \in Files : dups(p, f) \in Nat
  PROVE  TypeOK' /\ Typed'
<1>1. /\ ofile' = [ofile EXCEPT ![np] = ofile[p]] /\ Goto(np, User)
      /\ ref' = [f \in Files |-> ref[f] + dups(p, f)]
      /\ UNCHANGED <<type, writable, obj, page, closing, ending>>
  BY DEF kfork
<1>2. Typed'
  <2>1. \A f \in Files : ref'[f] = 0 => type[f] = "FD_NONE"
    BY <1>1 DEF Typed, Untyped, TypeOK
  <2>2. \A q \in Procs :
          \/ op'[q] = op[q]
          \/ op'[q].pc # "sem2" /\ \A f \in op'[q].files : type[f] = "FD_NONE"
    BY <1>1, ZenonT(60) DEF Goto, TypeOK, User, At
  <2>. QED BY <1>1, <2>1, <2>2, KeepTyped
<1>3. TypeOK'
  <2>1. ofile' \in [Procs -> [Fds -> Files \cup {NULL}]]
    BY <1>1 DEF TypeOK
  <2>2. ref' \in [Files -> Nat]
    BY <1>1 DEF TypeOK
  <2>3. op' \in [Procs -> [pc : {"unused", "user", "exit", "pipe1", "pipe2", "pipe3", "sem1", "sem2"},
                          files : SUBSET Files, page : Pages \cup {NULL}]]
    BY <1>1, UserType
  <2>. QED BY <1>1, <2>1, <2>2, <2>3 DEF TypeOK
<1>. QED BY <1>2, <1>3

\* exit, at its start and at its end.
LEMMA ExitStep ==
  ASSUME TypeOK, Held, Typed, NEW p \in Procs, kexit(p) \/ kexit_done(p)
  PROVE  TypeOK' /\ Typed'
<1>1. PICK from \in {"user", "exit"}, to \in {"exit", "unused"} :
        /\ Ready(p, from) /\ Goto(p, At(to, {}, NULL))
        /\ to = "exit" \/ (to = "unused" /\ FreeFds(p) = Fds)
  BY DEF kexit, kexit_done, Unused
<1>2. UNCHANGED <<ofile, ref, type, writable, obj, page, closing, ending>>
  BY DEF kexit, kexit_done, file
<1>3. At(to, {}, NULL).pc = to /\ At(to, {}, NULL).files = {}
  BY DEF At
<1>4. Typed'
  <2>1. \A q \in Procs :
          \/ op'[q] = op[q]
          \/ op'[q].pc # "sem2" /\ \A f \in op'[q].files : type[f] = "FD_NONE"
    BY <1>1, <1>3 DEF Goto, TypeOK
  <2>2. \A f \in Files : ref'[f] = 0 => type[f] = "FD_NONE"
    BY <1>2 DEF Typed, Untyped
  <2>. QED BY <1>2, <2>1, <2>2, KeepTyped, ZenonT(60)
<1>5. op' \in [Procs -> [pc : {"unused", "user", "exit", "pipe1", "pipe2", "pipe3", "sem1", "sem2"},
                        files : SUBSET Files, page : Pages \cup {NULL}]]
  BY <1>1, GotoType, Zenon
<1>. QED BY <1>2, <1>4, <1>5 DEF TypeOK

LEMMA FileallocStep ==
  ASSUME TypeOK, Held, Typed, NEW p \in Procs, NEW from, NEW to, filealloc(p, from, to),
         \/ from = "user" /\ to \in {"pipe1", "sem1"}
         \/ from = "pipe1" /\ to = "pipe2"
  PROVE  TypeOK' /\ Typed'
<1> DEFINE o(g) == At(to, op[p].files \cup {g}, NULL)
<1>1. PICK g \in Files : ref[g] = 0 /\ ref' = [ref EXCEPT ![g] = 1] /\ Goto(p, o(g))
  BY Zenon DEF filealloc
<1>2. op[p].pc = from /\ UNCHANGED <<ofile, type, writable, obj, page, closing, ending>>
  BY ZenonT(60) DEF filealloc, Ready
<1>3. o(g).pc = to /\ o(g).files = op[p].files \cup {g}
  BY DEF At
<1>4. op[p].files \cup {g} \in SUBSET Files
  BY DEF TypeOK
<1>5. op' \in [Procs -> [pc : {"unused", "user", "exit", "pipe1", "pipe2", "pipe3", "sem1", "sem2"},
                        files : SUBSET Files, page : Pages \cup {NULL}]]
  BY <1>1, <1>4, GotoType, ZenonT(60)
<1> HIDE DEF o
<1>6. Typed'
  <2>1. \A f \in op[p].files \cup {g} : type[f] = "FD_NONE"
    BY <1>1, <1>2 DEF Typed, Untyped
  <2>2. \A q \in Procs :
          \/ op'[q] = op[q]
          \/ op'[q].pc # "sem2" /\ \A f \in op'[q].files : type[f] = "FD_NONE"
    BY <1>1, <1>3, <2>1 DEF Goto, TypeOK
  <2>3. \A f \in Files : ref'[f] = 0 => type[f] = "FD_NONE"
    BY <1>1 DEF Typed, Untyped, TypeOK
  <2>. QED BY <1>2, <2>2, <2>3, KeepTyped
<1>7. ref' \in [Files -> Nat]
  BY <1>1 DEF TypeOK
<1>8. TypeOK'
  BY <1>2, <1>5, <1>7 DEF TypeOK
<1>. QED BY <1>6, <1>8

\* The four ways in which pipe and sem_create fail.
LEMMA GiveUpStep ==
  ASSUME TypeOK, Held, Typed, NEW p \in Procs, NEW from, Ready(p, from), GiveUp(p),
         UNCHANGED <<ofile, file, page>>,
         from \in {"pipe1", "pipe2", "pipe3", "sem1", "sem2"}
  PROVE  TypeOK' /\ Typed'
<1>1. /\ Close(p, op[p].files) /\ Goto(p, User)
      /\ UNCHANGED <<ofile, ref, type, writable, obj, page, ending>>
  BY DEF GiveUp, file
<1>2. Typed'
  <2>1. \A q \in Procs :
          \/ op'[q] = op[q]
          \/ op'[q].pc # "sem2" /\ \A f \in op'[q].files : type[f] = "FD_NONE"
    BY <1>1, ZenonT(60) DEF Goto, TypeOK, User, At
  <2>2. \A f \in Files : ref'[f] = 0 => type[f] = "FD_NONE"
    BY <1>1, Zenon DEF Typed, Untyped
  <2>. QED BY <1>1, <2>1, <2>2, KeepTyped, ZenonT(60)
<1>3. op' \in [Procs -> [pc : {"unused", "user", "exit", "pipe1", "pipe2", "pipe3", "sem1", "sem2"},
                        files : SUBSET Files, page : Pages \cup {NULL}]]
  BY <1>1, UserType
<1>4. closing' \in [Procs -> SUBSET Files]
  BY <1>1 DEF Close, TypeOK
<1>. QED BY <1>1, <1>2, <1>3, <1>4 DEF TypeOK

LEMMA PipeallocStep ==
  ASSUME TypeOK, Held, Typed, NEW p \in Procs, pipealloc_page(p)
  PROVE  TypeOK' /\ Typed'
<1>1. Typed'
  BY PipeallocTyped
<1>2. PICK pg \in Pages, wf \in op[p].files :
        /\ page' = [page EXCEPT ![pg] = PipePage({"read", "write"})]
        /\ type' = [f \in Files |-> IF f \in op[p].files THEN "FD_PIPE" ELSE type[f]]
        /\ writable' = [f \in Files |-> IF f \in op[p].files THEN f = wf ELSE writable[f]]
        /\ obj' = [f \in Files |-> IF f \in op[p].files THEN pg ELSE obj[f]]
        /\ Goto(p, At("pipe3", op[p].files, NULL))
  BY ZenonT(60) DEF pipealloc_page
<1>3. op[p].pc = "pipe2" /\ UNCHANGED <<ofile, ref, closing, ending>>
  BY ZenonT(60) DEF pipealloc_page, Ready
<1>4. type' \in [Files -> Types] /\ obj' \in [Files -> Pages \cup {NULL}]
  BY <1>2 DEF TypeOK, Types
<1>5. writable' \in [Files -> BOOLEAN]
  BY <1>2, ZenonT(60) DEF TypeOK
<1>6. page' \in [Pages -> {Free, SemPage(0), SemPage(1)}
                           \cup {PipePage(ends) : ends \in SUBSET {"read", "write"}}]
  BY <1>2, ZenonT(60) DEF TypeOK
<1>7. op' \in [Procs -> [pc : {"unused", "user", "exit", "pipe1", "pipe2", "pipe3", "sem1", "sem2"},
                        files : SUBSET Files, page : Pages \cup {NULL}]]
  <2>1. op[p].files \in SUBSET Files
    BY DEF TypeOK
  <2>. QED BY <1>2, <2>1, GotoType, ZenonT(60)
<1>. QED BY <1>1, <1>3, <1>4, <1>5, <1>6, <1>7 DEF TypeOK

LEMMA SemallocStep ==
  ASSUME TypeOK, Held, Typed, NEW p \in Procs, sem_alloc(p)
  PROVE  TypeOK' /\ Typed'
<1>1. Typed'
  BY SemallocTyped
<1>2. PICK pg \in Pages :
        page' = [page EXCEPT ![pg] = SemPage(0)] /\ Goto(p, At("sem2", op[p].files, pg))
  BY ZenonT(60) DEF sem_alloc
<1>3. op[p].pc = "sem1" /\ UNCHANGED <<ofile, ref, type, writable, obj, closing, ending>>
  BY ZenonT(60) DEF sem_alloc, Ready, file
<1>4. op[p].files \in SUBSET Files
  BY DEF TypeOK
<1>5. op' \in [Procs -> [pc : {"unused", "user", "exit", "pipe1", "pipe2", "pipe3", "sem1", "sem2"},
                        files : SUBSET Files, page : Pages \cup {NULL}]]
  BY <1>2, <1>4, GotoType, ZenonT(60)
<1>6. page' \in [Pages -> {Free, SemPage(0), SemPage(1)}
                           \cup {PipePage(ends) : ends \in SUBSET {"read", "write"}}]
  BY <1>2 DEF TypeOK
<1>. QED BY <1>1, <1>3, <1>5, <1>6 DEF TypeOK

LEMMA SyspipeStep ==
  ASSUME TypeOK, Held, Typed, NEW p \in Procs, sys_pipe(p)
  PROVE  TypeOK' /\ Typed'
<1>1. PICK rf \in op[p].files, wf \in op[p].files, fd0 \in FreeFds(p), fd1 \in FreeFds(p) :
        ofile' = [ofile EXCEPT ![p][fd0] = rf, ![p][fd1] = wf]
  BY Zenon DEF sys_pipe
<1>2. Goto(p, User) /\ UNCHANGED <<ref, type, writable, obj, page, closing, ending>>
  BY DEF sys_pipe, file
<1>3. rf \in Files /\ wf \in Files /\ fd0 \in Fds /\ fd1 \in Fds
  BY DEF TypeOK, FreeFds
<1>4. ofile' \in [Procs -> [Fds -> Files \cup {NULL}]]
  BY <1>1, <1>3, ZenonT(60) DEF TypeOK
<1>5. op' \in [Procs -> [pc : {"unused", "user", "exit", "pipe1", "pipe2", "pipe3", "sem1", "sem2"},
                        files : SUBSET Files, page : Pages \cup {NULL}]]
  BY <1>2, UserType
<1>6. Typed'
  <2>1. \A q \in Procs :
          \/ op'[q] = op[q]
          \/ op'[q].pc # "sem2" /\ \A f \in op'[q].files : type[f] = "FD_NONE"
    BY <1>2, ZenonT(60) DEF Goto, TypeOK, User, At
  <2>2. \A f \in Files : ref'[f] = 0 => type[f] = "FD_NONE"
    BY <1>2, ZenonT(60) DEF Typed, Untyped
  <2>. QED BY <1>2, <2>1, <2>2, KeepTyped
<1>. QED BY <1>2, <1>4, <1>5, <1>6 DEF TypeOK

LEMMA SemcreateStep ==
  ASSUME TypeOK, Held, Typed, NEW p \in Procs, sys_sem_create(p)
  PROVE  TypeOK' /\ Typed'
<1>1. Typed' /\ page' = [page EXCEPT ![op[p].page] = SemPage(1)]
  BY SemcreateTyped
<1>2. PICK g \in op[p].files, fd \in Fds :
        /\ fdalloc(p, fd) /\ ofile' = [ofile EXCEPT ![p][fd] = g]
        /\ type' = [type EXCEPT ![g] = "FD_SEM"]
        /\ writable' = [writable EXCEPT ![g] = TRUE]
        /\ obj' = [obj EXCEPT ![g] = op[p].page]
  BY Zenon DEF sys_sem_create
<1>3. Ready(p, "sem2") /\ Goto(p, User) /\ UNCHANGED <<ref, closing, ending>>
  BY DEF sys_sem_create
<1>4. g \in Files /\ op[p].page \in Pages \cup {NULL}
  BY DEF TypeOK
<1>5. ofile' \in [Procs -> [Fds -> Files \cup {NULL}]]
  BY <1>2, <1>4 DEF TypeOK
<1>6. /\ type' \in [Files -> Types] /\ writable' \in [Files -> BOOLEAN]
      /\ obj' \in [Files -> Pages \cup {NULL}]
  BY <1>2, <1>4 DEF TypeOK, Types
<1>7. page' \in [Pages -> {Free, SemPage(0), SemPage(1)}
                           \cup {PipePage(ends) : ends \in SUBSET {"read", "write"}}]
  BY <1>1, Zenon DEF TypeOK
<1>8. op' \in [Procs -> [pc : {"unused", "user", "exit", "pipe1", "pipe2", "pipe3", "sem1", "sem2"},
                        files : SUBSET Files, page : Pages \cup {NULL}]]
  BY <1>3, UserType, Zenon
<1>. QED BY <1>1, <1>3, <1>5, <1>6, <1>7, <1>8 DEF TypeOK

LEMMA ObjectsInit ==
  ASSUME Init
  PROVE  TypeOK /\ Typed
<1>1. \A p \in Procs : op[p] = User \/ op[p] = Unused
  BY DEF Init
<1>2. /\ User.files = {} /\ User.pc = "user" /\ User.page = NULL
      /\ Unused.files = {} /\ Unused.pc = "unused" /\ Unused.page = NULL
  BY DEF User, Unused, At
<1>3. TypeOK
  <2>1. op \in [Procs -> [pc : {"unused", "user", "exit", "pipe1", "pipe2", "pipe3", "sem1", "sem2"},
                         files : SUBSET Files, page : Pages \cup {NULL}]]
    BY DEF Init, User, Unused, At
  <2>2. ending \in [Procs -> [type : Types, page : Pages \cup {NULL}, writable : BOOLEAN]]
    BY DEF Init, NoObject, Types
  <2>. QED BY <2>1, <2>2 DEF Init, TypeOK, Types
<1>4. Claims
  BY ZenonT(60) DEF Init, Claims, NoObject
<1>5. EndsHeld
  BY PageKinds DEF Init, EndsHeld
<1>6. NewSems
  BY <1>1, <1>2 DEF NewSems
<1>7. Untyped
  BY <1>1, <1>2 DEF Init, Untyped
<1>. QED BY <1>3, <1>4, <1>5, <1>6, <1>7 DEF Typed

LEMMA ObjectsNext ==
  ASSUME TypeOK, Held, Typed, \A p \in Procs : \A f \in Files : dups(p, f) \in Nat, [Next]_vars
  PROVE  TypeOK' /\ Typed'
<1>1. ASSUME NEW p \in Procs, ProcStep(p)
      PROVE  TypeOK' /\ Typed'
  <2>1. CASE fileclose(p) \/ pipeclose(p) \/ sem_close(p)
    BY <2>1, FilecloseStep, PipecloseStep, SemcloseStep
  <2>2. ASSUME NEW fd \in Fds, sys_close(p, fd)
        PROVE  TypeOK' /\ Typed'
    BY <2>2, DropFdStep, Zenon DEF sys_close
  <2>3. ASSUME NEW fd \in Fds, sys_dup(p, fd)
        PROVE  TypeOK' /\ Typed'
    BY <2>3, DupStep
  <2>4. ASSUME NEW np \in Procs, kfork(p, np)
        PROVE  TypeOK' /\ Typed'
    BY <2>4, ForkStep
  <2>5. CASE kexit(p) \/ kexit_done(p)
    BY <2>5, ExitStep
  <2>6. CASE kexit_close(p)
    <3>1. PICK fd \in Fds :
            /\ ofile[p][fd] # NULL /\ ofile' = [ofile EXCEPT ![p][fd] = NULL]
            /\ Close(p, {ofile[p][fd]})
      BY <2>6, Zenon DEF kexit_close
    <3>2. Ready(p, "exit") /\ UNCHANGED <<file, page, op, ending>>
      BY <2>6 DEF kexit_close
    <3>. QED BY <3>1, <3>2, DropFdStep, Zenon
  <2>7. CASE pipealloc(p) \/ sem_filealloc(p)
    BY <2>7, FileallocStep DEF pipealloc, sem_filealloc
  <2>8. CASE pipealloc_fails(p) \/ sys_pipe_fails(p) \/ sem_alloc_fails(p)
             \/ sys_sem_create_fails(p)
    <3>1. PICK from \in {"pipe1", "pipe2", "pipe3", "sem1", "sem2"} :
            Ready(p, from) /\ GiveUp(p) /\ UNCHANGED <<ofile, file, page>>
      BY <2>8 DEF pipealloc_fails, sys_pipe_fails, sem_alloc_fails, sys_sem_create_fails
    <3>. QED BY <3>1, GiveUpStep
  <2>9. CASE pipealloc_page(p) \/ sys_pipe(p)
    BY <2>9, PipeallocStep, SyspipeStep
  <2>10. CASE sem_alloc(p) \/ sys_sem_create(p)
    BY <2>10, SemallocStep, SemcreateStep
  <2>. QED
    BY <1>1, <2>1, <2>2, <2>3, <2>4, <2>5, <2>6, <2>7, <2>8, <2>9, <2>10, ZenonT(60) DEF ProcStep
<1>2. ASSUME UNCHANGED vars
      PROVE  TypeOK' /\ Typed'
  <2>1. UNCHANGED <<ofile, ref, type, writable, obj, page, op, closing, ending>>
    BY <1>2, ZenonT(60) DEF vars, file
  <2>2. Typed'
    <3>1. \A f \in Files : ref'[f] = 0 => type[f] = "FD_NONE"
      BY <2>1 DEF Typed, Untyped
    <3>. QED BY <2>1, <3>1, KeepTyped
  <2>. QED BY <2>1, <2>2 DEF TypeOK
<1>. QED BY <1>1, <1>2, Zenon DEF Next, Done

LEMMA ObjectsExact ==
  ASSUME TypeOK, Typed
  PROVE  PipeEndsExact /\ ObjectsAlive
<1>1. /\ TypeOK /\ Claims /\ EndsHeld /\ \A f \in Files : ref[f] = 0 => type[f] = "FD_NONE"
  BY DEF Typed, Untyped
<1>2. \A q \in Procs, pg \in Pages, w \in BOOLEAN :
        q \in PendingCloses(pg, w) <=>
          ending[q].type = "FD_PIPE" /\ ending[q].page = pg /\ ending[q].writable = w
  BY <1>1 DEF PendingCloses, TypeOK
<1>3. \A f \in Files, pg \in Pages, w \in BOOLEAN :
        EndOf(f, pg, w) <=> type[f] = "FD_PIPE" /\ obj[f] = pg /\ writable[f] = w
  BY <1>1 DEF EndOf, TypeOK
<1>4. ASSUME NEW pg \in Pages, NEW w \in BOOLEAN
      PROVE  page[pg].kind = "pipe" /\ End(w) \in page[pg].ends =>
               (\E f \in Files : EndOf(f, pg, w)) \/ PendingCloses(pg, w) # {}
  BY <1>1, <1>2, <1>3 DEF EndsHeld
<1>5. ASSUME NEW pg \in Pages, NEW w \in BOOLEAN, NEW f \in Files, EndOf(f, pg, w)
      PROVE  page[pg].kind = "pipe" /\ End(w) \in page[pg].ends
  <2>1. type[f] = "FD_PIPE" /\ obj[f] = pg /\ writable[f] = w
    BY <1>3, <1>5
  <2>2. Backed(page, "FD_PIPE", pg, w)
    BY <1>1, <2>1, Zenon DEF Claims
  <2>. QED BY <2>2 DEF Backed
<1>6. ASSUME NEW pg \in Pages, NEW w \in BOOLEAN, NEW q \in Procs, q \in PendingCloses(pg, w)
      PROVE  page[pg].kind = "pipe" /\ End(w) \in page[pg].ends
  <2>1. ending[q].type = "FD_PIPE" /\ ending[q].page = pg /\ ending[q].writable = w
    BY <1>2, <1>6
  <2>2. Backed(page, "FD_PIPE", pg, w)
    BY <1>1, <2>1, Zenon DEF Claims
  <2>. QED BY <2>2 DEF Backed
<1>7. \A pg, w : PendingCloses(pg, w) \subseteq Procs
  BY ZenonT(60) DEF PendingCloses
<1>8. PipeEndsExact
  BY <1>4, <1>5, <1>6, <1>7, ZenonT(60) DEF PipeEndsExact
<1>9. ObjectsAlive
  BY <1>1 DEF Claims, Backed, ObjectsAlive
<1>. QED BY <1>8, <1>9

=================================================================================
