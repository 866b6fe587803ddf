-------------------------- MODULE SiteFilesProofs --------------------------
(***************************************************************************)
(* Proofs about the file manager for every finite set of paths, every tree *)
(* of files it may start with, and any number of requests and failures.    *)
(***************************************************************************)
EXTENDS SiteFiles, FiniteSetTheorems, SequenceTheorems, TLAPS

-----------------------------------------------------------------------------
(* The inductive invariant of the document root.                             *)

Entry == {None, Dir} \cup [kind : {"file"}, data : Seq(STRING)]
FileTree == [Paths -> Entry]

\* Whatever is there has a directory at every step of its path.
Rooted(t) == \A p \in Paths : t[p] # None =>
  \A n \in 0 .. Len(p) - 1 : t[SubSeq(p, 1, n)] = Dir

Acts == {"visit", "rmdir"} \X Paths
Record == [op : {"none", "content", "upload", "delete", "mkdir", "rmdir", "rmtree", "backup"},
           path : Paths, data : Seq(STRING),
           at : {"idle", "ensure", "mkdir", "open", "write", "remove", "rmtree", "zip", "walk"},
           todo : Seq(Paths) \cup Seq(Acts), linked : BOOLEAN, touched : SUBSET Paths,
           zip : Nat, second : Nat, reply : {"none", "ok", "error"}]

CountersOK ==
  /\ begun \in [1 .. MaxOps -> Nat]
  /\ now \in Nat /\ ops \in Nat /\ faults \in Nat /\ now <= ops /\ ops <= MaxOps
TypeOK ==
  /\ fs \in FileTree
  /\ req \in [Requests -> Record]
  /\ zips \in Seq(FileTree)
  /\ tmp \in [1 .. MaxOps -> Nat] /\ saved \in [1 .. MaxOps -> Nat]
  /\ CountersOK

Writers == {"content", "upload"}

\* What a request q still has to do, and what it may rely on in the tree t and the
\* first k archive files, at each of its system calls.
Sound(q, t, k) ==
  /\ q.at = "ensure" => q.op = "upload"
  /\ q.at = "mkdir" =>
       /\ q.op \in Writers \cup {"mkdir"}
       /\ q.todo \in Seq(Paths) /\ q.todo # << >>
       /\ \A i \in 1 .. Len(q.todo) : IsPrefix(q.todo[i], q.path)
       /\ q.op = "mkdir" => q.todo[Len(q.todo)] = q.path
  /\ q.at = "open" => q.op \in Writers
  /\ q.at = "write" =>
       /\ q.op \in Writers
       /\ q.linked => t[q.path].kind = "file"
       /\ q.path \notin q.touched => q.linked /\ t[q.path] = File(<< >>)
  /\ q.at = "remove" =>
       /\ q.op \in {"delete", "rmdir"}
       /\ q.op = "delete" => t[q.path].kind = "file" \/ q.path \in q.touched
       /\ q.op = "rmdir" => t[q.path] = Dir \/ q.path \in q.touched
  /\ q.at = "rmtree" =>
       /\ q.op = "rmtree"
       /\ q.todo \in Seq(Acts) /\ q.todo # << >>
       /\ \A i \in 1 .. Len(q.todo) : IsPrefix(q.path, q.todo[i][2])
       /\ q.todo[Len(q.todo)][2] = q.path
  /\ q.at \in {"zip", "walk"} => q.op = "backup" /\ q.second \in 1 .. MaxOps
  /\ q.at = "walk" => q.todo \in Seq(Paths) /\ q.zip \in 1 .. k

FilesInv == TypeOK /\ Rooted(fs) /\ \A r \in Requests : Sound(req[r], fs, Len(zips))

-----------------------------------------------------------------------------
(* The inductive invariant of the content backups.                           *)

Backing(r, s) == req[r].at \in {"zip", "walk"} /\ req[r].second = s

\* The archive file i has, or had, the name of second s, or a backup that began in
\* s has it open.
Owns(i, s) ==
  \/ tmp[s] = i \/ saved[s] = i
  \/ \E r \in Requests : req[r].at = "walk" /\ req[r].second = s /\ req[r].zip = i

\* No file belongs to two seconds.
OwnersApart ==
  /\ \A s \in 1 .. MaxOps : tmp[s] <= Len(zips) /\ saved[s] <= Len(zips)
  /\ \A i \in 1 .. Len(zips) : \A s, t \in 1 .. MaxOps : Owns(i, s) /\ Owns(i, t) => s = t

\* A second in which no backup began has none and no files; one in which a single
\* backup began has that one until the archive has its final name.
SecondsSound ==
  /\ \A s \in 1 .. MaxOps : begun[s] = 0 =>
       tmp[s] = 0 /\ saved[s] = 0 /\ \A r \in Requests : ~Backing(r, s)
  /\ \A s \in 1 .. MaxOps : begun[s] = 1 =>
       /\ \A r, q \in Requests : Backing(r, s) /\ Backing(q, s) => r = q
       /\ saved[s] # 0 => \A r \in Requests : ~Backing(r, s)

\* Of the files nobody has changed since a walk began, the archive z holds each as it
\* is, or it has no entry and a path above the file, or its own, is still to come.
Archived(z, q, t) == \A p \in Below : p \notin q.touched =>
  z[p] = t[p] \/ (z[p] = None /\ \E i \in 1 .. Len(q.todo) : IsPrefix(q.todo[i], p))

WalkSound == \A r \in Requests : req[r].at = "walk" /\ begun[req[r].second] = 1 =>
  tmp[req[r].second] = req[r].zip /\ Archived(zips[req[r].zip], req[r], fs)

BackupInv == FilesInv /\ OwnersApart /\ SecondsSound /\ WalkSound

-----------------------------------------------------------------------------
(* Paths.                                                                    *)

\* The first n names of a path.
LEMMA TakeProperties ==
  ASSUME NEW q \in Seq(STRING), NEW n \in 0 .. Len(q)
  PROVE  /\ SubSeq(q, 1, n) \in Seq(STRING) /\ Len(SubSeq(q, 1, n)) = n
         /\ \A i \in 1 .. n : SubSeq(q, 1, n)[i] = q[i]
<1>1. Len(q) \in Nat /\ \A i \in 1 .. n : q[i] \in STRING
  BY LenProperties, ElementOfSeq
<1> QED BY <1>1, SubSeqProperties

\* Beginnings of beginnings.
LEMMA TakeTake ==
  ASSUME NEW q \in Seq(STRING), NEW n \in 0 .. Len(q), NEW m \in 0 .. n
  PROVE  SubSeq(SubSeq(q, 1, n), 1, m) = SubSeq(q, 1, m)
<1> DEFINE a == SubSeq(q, 1, n)
           b == SubSeq(a, 1, m)
           c == SubSeq(q, 1, m)
<1>1. Len(q) \in Nat /\ m \in 0 .. Len(q)
  BY LenProperties
<1>2. a \in Seq(STRING) /\ Len(a) = n /\ \A i \in 1 .. n : a[i] = q[i]
  BY TakeProperties
<1>3. c \in Seq(STRING) /\ Len(c) = m /\ \A i \in 1 .. m : c[i] = q[i]
  BY <1>1, TakeProperties
<1> HIDE DEF a, c
<1>4. b \in Seq(STRING) /\ Len(b) = m /\ \A i \in 1 .. m : b[i] = a[i]
  BY <1>2, TakeProperties
<1> HIDE DEF b
<1>5. b = c
  <2>1. \A i \in 1 .. Len(b) : b[i] = c[i]
    BY <1>2, <1>3, <1>4
  <2> QED BY <1>3, <1>4, <2>1, SeqEqual
<1> QED BY <1>5 DEF a, b, c

\* A prefix is a beginning.
LEMMA PrefixIsTake ==
  ASSUME NEW p \in Seq(STRING), NEW q \in Seq(STRING)
  PROVE  IsPrefix(p, q) <=> Len(p) <= Len(q) /\ p = SubSeq(q, 1, Len(p))
BY SubSeqFull DEF IsPrefix

\* Paths are sequences of names, and so are the beginnings of a path.
LEMMA PathTake ==
  ASSUME NEW q \in Paths, NEW n \in 0 .. Len(q)
  PROVE  /\ q \in Seq(STRING) /\ Len(q) \in Nat
         /\ SubSeq(q, 1, n) \in Paths /\ Len(SubSeq(q, 1, n)) = n
         /\ IsPrefix(SubSeq(q, 1, n), q)
<1> DEFINE a == SubSeq(q, 1, n)
<1>1. q \in Seq(STRING) /\ a \in Paths
  BY PathsAssumption
<1>2. Len(q) \in Nat /\ Len(a) = n /\ a \in Seq(STRING)
  BY <1>1, TakeProperties, LenProperties
<1>3. a = SubSeq(q, 1, Len(a))
  BY <1>2
<1> HIDE DEF a
<1>4. IsPrefix(a, q)
  BY <1>1, <1>2, <1>3, PrefixIsTake
<1> QED BY <1>1, <1>2, <1>4 DEF a

\* The parent of a path.
LEMMA ParentPath ==
  ASSUME NEW q \in Paths
  PROVE  /\ Len(q) \in Nat /\ q \in Seq(STRING) /\ Front(q) \in Paths
         /\ q # << >> => /\ Len(q) > 0 /\ Len(Front(q)) = Len(q) - 1
                         /\ Front(q) = SubSeq(q, 1, Len(q) - 1)
<1>1. q \in Seq(STRING) /\ Len(q) \in Nat /\ << >> \in Paths
  BY PathsAssumption, LenProperties
<1>2. CASE q = << >>
  <2>1. Len(q) = 0
    BY <1>2
  <2>2. Front(q) = << >>
    BY <2>1, SubSeqEmpty DEF Front
  <2> QED BY <1>1, <1>2, <2>2
<1>3. CASE q # << >>
  <2>1. Len(q) > 0
    BY <1>1, <1>3, EmptySeq
  <2>2. Len(q) - 1 \in 0 .. Len(q)
    BY <1>1, <2>1
  <2> QED BY <1>1, <2>1, <2>2, PathTake DEF Front
<1> QED BY <1>2, <1>3

\* Below a path whose parent lies below p.
LEMMA ChildBelow ==
  ASSUME NEW p \in Paths, NEW q \in Paths, q # << >>, IsPrefix(p, Front(q))
  PROVE  IsPrefix(p, q)
<1>1. /\ Len(q) \in Nat /\ q \in Seq(STRING) /\ Front(q) \in Paths
      /\ Len(q) > 0 /\ Len(Front(q)) = Len(q) - 1 /\ Front(q) = SubSeq(q, 1, Len(q) - 1)
  BY ParentPath
<1>2. p \in Seq(STRING) /\ Len(p) \in Nat /\ Front(q) \in Seq(STRING)
  BY <1>1, ParentPath
<1>3. Len(p) <= Len(q) - 1 /\ p = SubSeq(Front(q), 1, Len(p))
  BY <1>1, <1>2, PrefixIsTake
<1>4. SubSeq(Front(q), 1, Len(p)) = SubSeq(q, 1, Len(p))
  <2>1. Len(q) - 1 \in 0 .. Len(q) /\ Len(p) \in 0 .. Len(q) - 1
    BY <1>1, <1>2, <1>3
  <2> QED BY <1>1, <2>1, TakeTake
<1> QED BY <1>1, <1>2, <1>3, <1>4, PrefixIsTake

\* A path is a prefix of itself.
LEMMA PrefixReflexive ==
  ASSUME NEW p \in Paths
  PROVE  IsPrefix(p, p)
BY ParentPath DEF IsPrefix

\* What lies above p lies above everything below p.
LEMMA PrefixTransitive ==
  ASSUME NEW x \in Paths, NEW p \in Paths, NEW q \in Paths, IsPrefix(x, p), IsPrefix(p, q)
  PROVE  IsPrefix(x, q)
<1>1. /\ x \in Seq(STRING) /\ p \in Seq(STRING) /\ q \in Seq(STRING)
      /\ Len(x) \in Nat /\ Len(p) \in Nat /\ Len(q) \in Nat
  BY ParentPath
<1>2. /\ Len(x) <= Len(p) /\ x = SubSeq(p, 1, Len(x))
      /\ Len(p) <= Len(q) /\ p = SubSeq(q, 1, Len(p))
  BY <1>1, PrefixIsTake
<1>3. Len(p) \in 0 .. Len(q) /\ Len(x) \in 0 .. Len(p)
  BY <1>1, <1>2
<1>4. SubSeq(SubSeq(q, 1, Len(p)), 1, Len(x)) = SubSeq(q, 1, Len(x))
  BY <1>1, <1>3, TakeTake
<1>5. x = SubSeq(q, 1, Len(x)) /\ Len(x) <= Len(q)
  BY <1>1, <1>2, <1>4
<1> QED BY <1>1, <1>5, PrefixIsTake

\* On the way from p to a path q below it lies a child of p.
LEMMA WayDown ==
  ASSUME NEW p \in Paths, NEW q \in Paths, IsPrefix(p, q), p # q
  PROVE  LET c == SubSeq(q, 1, Len(p) + 1) IN
         /\ Len(p) \in Nat /\ Len(q) \in Nat /\ Len(p) < Len(q)
         /\ p = SubSeq(q, 1, Len(p))
         /\ c \in Paths /\ c # << >> /\ Front(c) = p /\ IsPrefix(c, q)
<1> DEFINE c == SubSeq(q, 1, Len(p) + 1)
<1>1. p \in Seq(STRING) /\ Len(p) \in Nat /\ q \in Seq(STRING) /\ Len(q) \in Nat
  BY ParentPath
<1>2. Len(p) <= Len(q) /\ p = SubSeq(q, 1, Len(p))
  BY <1>1, PrefixIsTake
<1>3. Len(p) # Len(q)
  BY <1>1, <1>2, SubSeqFull
<1>4. Len(p) + 1 \in 0 .. Len(q) /\ Len(p) \in 0 .. Len(p) + 1
  BY <1>1, <1>2, <1>3
<1>5. c \in Paths /\ Len(c) = Len(p) + 1 /\ IsPrefix(c, q)
  BY <1>4, PathTake
<1>6. SubSeq(c, 1, Len(p)) = SubSeq(q, 1, Len(p))
  BY <1>1, <1>4, TakeTake
<1> HIDE DEF c
<1>7. Len(c) - 1 = Len(p)
  BY <1>1, <1>5
<1>8. Front(c) = p
  BY <1>2, <1>6, <1>7 DEF Front
<1>9. c # << >>
  BY <1>1, <1>5
<1> QED BY <1>1, <1>2, <1>3, <1>5, <1>8, <1>9 DEF c
-----------------------------------------------------------------------------
(* Requests.                                                                 *)

\* An answered request is idle and relies on nothing.
LEMMA AnswerSound ==
  ASSUME NEW reply \in {"none", "ok", "error"}, NEW t, NEW k
  PROVE  Answer(reply) \in Record /\ Sound(Answer(reply), t, k) /\ Answer(reply).at = "idle"
<1>1. << >> \in Paths /\ << >> \in Seq(Paths)
  BY PathsAssumption
<1>2. Idle \in Record /\ Idle.at = "idle"
  BY <1>1 DEF Idle, Record
<1>3. Answer(reply) \in Record /\ Answer(reply).at = "idle"
  BY <1>2 DEF Answer, Record
<1> QED BY <1>3 DEF Sound

\* A request as another one leaves it that makes u of the tree t.
Seen(q, t, u) ==
  IF q.at = "idle" THEN q
  ELSE [q EXCEPT !.touched = @ \cup {p \in Paths : u[p] # t[p]},
                 !.linked = @ /\ u[q.path].kind = "file"]

\* What others change a request no longer relies on.
LEMMA SeenSound ==
  ASSUME NEW q \in Record, NEW t \in FileTree, NEW u \in FileTree,
         NEW k \in Nat, NEW l \in Nat, k <= l, Sound(q, t, k)
  PROVE  /\ Seen(q, t, u) \in Record /\ Sound(Seen(q, t, u), u, l)
         /\ Seen(q, t, u).at = q.at /\ Seen(q, t, u).second = q.second
         /\ Seen(q, t, u).zip = q.zip /\ Seen(q, t, u).todo = q.todo
         /\ q.at # "idle" => Seen(q, t, u).touched = q.touched \cup {p \in Paths : u[p] # t[p]}
<1> DEFINE n == Seen(q, t, u)
<1>1. CASE q.at = "idle"
  <2>1. n = q
    BY <1>1 DEF Seen
  <2> QED BY <1>1, <2>1 DEF Sound
<1>2. CASE q.at # "idle"
  <2> DEFINE moved == {p \in Paths : u[p] # t[p]}
             still == q.linked /\ u[q.path].kind = "file"
  <2>1. n = [q EXCEPT !.touched = q.touched \cup moved, !.linked = still]
    BY <1>2 DEF Seen
  <2>2. moved \in SUBSET Paths /\ still \in BOOLEAN /\ q.path \in Paths /\ q.linked \in BOOLEAN
    BY DEF Record
  <2> HIDE DEF moved, still
  <2>3. /\ n \in Record /\ n.op = q.op /\ n.at = q.at /\ n.path = q.path /\ n.todo = q.todo
        /\ n.second = q.second /\ n.zip = q.zip /\ n.touched = q.touched \cup moved
        /\ n.linked = still
    BY <2>1, <2>2 DEF Record
  <2> HIDE DEF n
  <2>4. q.path \notin n.touched => u[q.path] = t[q.path] /\ q.path \notin q.touched
    BY <2>2, <2>3 DEF moved
  <2>5. n.at = "write" =>
          /\ n.op \in Writers
          /\ n.linked => u[n.path].kind = "file"
          /\ n.path \notin n.touched => n.linked /\ u[n.path] = File(<< >>)
    <3>1. still = (q.linked /\ u[q.path].kind = "file")
      BY DEF still
    <3>2. File(<< >>).kind = "file"
      BY DEF File
    <3> QED BY <2>3, <2>4, <3>1, <3>2 DEF Sound
  <2>6. n.at = "remove" =>
          /\ n.op \in {"delete", "rmdir"}
          /\ n.op = "delete" => u[n.path].kind = "file" \/ n.path \in n.touched
          /\ n.op = "rmdir" => u[n.path] = Dir \/ n.path \in n.touched
    BY <2>3, <2>4 DEF Sound
  <2>7. /\ n.at = "ensure" => n.op = "upload"
        /\ n.at = "open" => n.op \in Writers
        /\ n.at \in {"zip", "walk"} => n.op = "backup" /\ n.second \in 1 .. MaxOps
    BY <2>3 DEF Sound
  <2>8. n.at = "walk" => n.todo \in Seq(Paths) /\ n.zip \in 1 .. l
    BY <2>3 DEF Sound
  <2>9. n.at = "mkdir" =>
          /\ n.op \in Writers \cup {"mkdir"}
          /\ n.todo \in Seq(Paths) /\ n.todo # << >>
          /\ \A i \in 1 .. Len(n.todo) : IsPrefix(n.todo[i], n.path)
          /\ n.op = "mkdir" => n.todo[Len(n.todo)] = n.path
    BY <2>3 DEF Sound
  <2>10. n.at = "rmtree" =>
          /\ n.op = "rmtree"
          /\ n.todo \in Seq(Acts) /\ n.todo # << >>
          /\ \A i \in 1 .. Len(n.todo) : IsPrefix(n.path, n.todo[i][2])
          /\ n.todo[Len(n.todo)][2] = n.path
    BY <2>3 DEF Sound
  <2>11. Sound(n, u, l)
    BY <2>5, <2>6, <2>7, <2>8, <2>9, <2>10 DEF Sound
  <2> QED BY <2>3, <2>11 DEF n, moved
<1> QED BY <1>1, <1>2

\* A step of r makes u of the tree and next of its record.
Moves(r, u, next) == Change(r, u, next) \/ (u = fs /\ Proceed(r, next))

\* Everybody else's record is what that step leaves of it.
LEMMA MoveEffect ==
  ASSUME TypeOK, NEW r \in Requests, NEW u, NEW next, Moves(r, u, next)
  PROVE  /\ fs' = u /\ req' = [q \in Requests |-> req'[q]] /\ req'[r] = next
         /\ \A q \in Requests \ {r} : req'[q] = Seen(req[q], fs, u) \/ (u = fs /\ req'[q] = req[q])
<1>1. CASE Change(r, u, next)
  <2>1. req' = [q \in Requests |-> IF q = r THEN next ELSE Seen(req[q], fs, u)]
    BY <1>1 DEF Change, Seen
  <2> QED BY <1>1, <2>1 DEF Change
<1>2. CASE u = fs /\ Proceed(r, next)
  BY <1>2 DEF Proceed, TypeOK
<1> QED BY <1>1, <1>2 DEF Moves

\* A step that keeps the types and the tree rooted, and after which its own request
\* is sound, keeps the invariant.
LEMMA MoveKeeps ==
  ASSUME FilesInv, NEW r \in Requests, NEW u \in FileTree, NEW next \in Record,
         Moves(r, u, next), Rooted(u), CountersOK',
         zips' \in Seq(FileTree), Len(zips) <= Len(zips'),
         tmp' \in [1 .. MaxOps -> Nat], saved' \in [1 .. MaxOps -> Nat],
         Sound(next, u, Len(zips'))
  PROVE  FilesInv'
<1>1. TypeOK /\ \A q \in Requests : req[q] \in Record /\ Sound(req[q], fs, Len(zips))
  BY DEF FilesInv, TypeOK
<1>2. Len(zips) \in Nat /\ Len(zips') \in Nat
  BY <1>1, LenProperties DEF TypeOK
<1>3. /\ fs' = u /\ req' = [q \in Requests |-> req'[q]] /\ req'[r] = next
      /\ \A q \in Requests \ {r} : req'[q] = Seen(req[q], fs, u) \/ (u = fs /\ req'[q] = req[q])
  BY <1>1, MoveEffect
<1>4. ASSUME NEW q \in Requests PROVE req'[q] \in Record /\ Sound(req'[q], u, Len(zips'))
  <2>1. CASE q = r
    BY <1>3, <2>1
  <2>2. CASE q # r /\ req'[q] = Seen(req[q], fs, u)
    BY <1>1, <1>2, <2>2, SeenSound DEF TypeOK
  <2>3. CASE q # r /\ u = fs /\ req'[q] = req[q]
    BY <1>1, <1>2, <2>3 DEF Sound
  <2> QED BY <1>3, <2>1, <2>2, <2>3
<1>5. TypeOK'
  BY <1>3, <1>4 DEF TypeOK
<1> QED BY <1>3, <1>4, <1>5 DEF FilesInv

\* The same for a step that leaves the archives alone.
LEMMA FileMoveKeeps ==
  ASSUME FilesInv, NEW r \in Requests, NEW u \in FileTree, NEW next \in Record,
         Moves(r, u, next), Rooted(u), Sound(next, u, Len(zips)),
         CountersOK', UNCHANGED archiveVars
  PROVE  FilesInv'
<1>1. /\ zips' = zips /\ zips' \in Seq(FileTree)
      /\ tmp' \in [1 .. MaxOps -> Nat] /\ saved' \in [1 .. MaxOps -> Nat]
  BY DEF FilesInv, TypeOK, archiveVars
<1>2. Len(zips) <= Len(zips')
  BY <1>1, LenProperties
<1> QED BY <1>1, <1>2, MoveKeeps
-----------------------------------------------------------------------------
(* Trees.                                                                    *)

\* The three kinds of entries are told apart.
LEMMA EntryKinds ==
  /\ None \in Entry /\ Dir \in Entry /\ None # Dir
  /\ \A e \in Entry : e.kind = "file" => e # None /\ e # Dir
  /\ \A e \in Entry : e # None /\ e # Dir => e.kind = "file" /\ e.data \in Seq(STRING)
  /\ \A d \in Seq(STRING) : File(d) \in Entry /\ File(d).kind = "file" /\ File(d).data = d
BY DEF Entry, None, Dir, File

\* A new entry, or new content, under a directory that is there.
LEMMA RootedPut ==
  ASSUME NEW t \in FileTree, Rooted(t), NEW d \in Paths, d = << >> \/ t[Front(d)] = Dir,
         t[d] # Dir, NEW e \in Entry
  PROVE  [t EXCEPT ![d] = e] \in FileTree /\ (e # None => Rooted([t EXCEPT ![d] = e]))
<1> DEFINE u == [t EXCEPT ![d] = e]
<1>1. u \in FileTree /\ u[d] = e /\ \A p \in Paths \ {d} : u[p] = t[p]
  BY DEF FileTree
<1> HIDE DEF u
<1>2. ASSUME e # None, NEW p \in Paths, u[p] # None, NEW n \in 0 .. Len(p) - 1
      PROVE  u[SubSeq(p, 1, n)] = Dir
  <2> DEFINE x == SubSeq(p, 1, n)
  <2>1. Len(p) \in Nat /\ n \in 0 .. Len(p)
    BY ParentPath
  <2>2. x \in Paths /\ Len(x) = n
    BY <2>1, PathTake
  <2>3. CASE p = d
    <3>1. p # << >> /\ x # d
      BY <2>1, <2>2, <2>3
    <3>2. p \in Seq(STRING) /\ Front(p) \in Paths /\ Front(p) = SubSeq(p, 1, Len(p) - 1) /\ Len(Front(p)) = Len(p) - 1
      BY <3>1, ParentPath
    <3>3. t[Front(p)] = Dir
      BY <2>3, <3>1
    <3>4. CASE n = Len(p) - 1
      BY <1>1, <2>2, <3>1, <3>2, <3>3, <3>4
    <3>5. CASE n # Len(p) - 1
      <4>1. n \in 0 .. Len(Front(p)) - 1 /\ Len(p) - 1 \in 0 .. Len(p) /\ n \in 0 .. Len(p) - 1
        BY <2>1, <3>2, <3>5
      <4>2. SubSeq(Front(p), 1, n) = x
        BY <3>2, <4>1, TakeTake
      <4>3. t[Front(p)] # None
        BY <3>3, EntryKinds
      <4>4. t[SubSeq(Front(p), 1, n)] = Dir
        BY <3>2, <4>1, <4>3 DEF Rooted
      <4> QED BY <1>1, <2>2, <3>1, <4>2, <4>4
    <3> QED BY <3>4, <3>5
  <2>4. CASE p # d
    <3>1. t[x] = Dir
      BY <1>1, <1>2, <2>4 DEF Rooted
    <3> QED BY <1>1, <2>2, <3>1
  <2> QED BY <2>3, <2>4
<1>3. e # None => Rooted(u)
  BY <1>2 DEF Rooted
<1> QED BY <1>1, <1>3 DEF u

\* A file, or a directory without entries, can go.
LEMMA RootedRemove ==
  ASSUME fs \in FileTree, Rooted(fs), NEW d \in Paths, fs[d] # Dir \/ Children(d) = {}
  PROVE  [fs EXCEPT ![d] = None] \in FileTree /\ Rooted([fs EXCEPT ![d] = None])
<1> DEFINE u == [fs EXCEPT ![d] = None]
<1>1. u \in FileTree /\ u[d] = None /\ \A p \in Paths \ {d} : u[p] = fs[p]
  BY EntryKinds DEF FileTree
<1> HIDE DEF u
<1>2. ASSUME NEW p \in Paths, u[p] # None, NEW n \in 0 .. Len(p) - 1
      PROVE  u[SubSeq(p, 1, n)] = Dir
  <2> DEFINE x == SubSeq(p, 1, n)
  <2>1. Len(p) \in Nat /\ n \in 0 .. Len(p)
    BY ParentPath
  <2>2. x \in Paths /\ Len(x) = n /\ IsPrefix(x, p)
    BY <2>1, PathTake
  <2>3. p # d /\ fs[p] # None
    BY <1>1, <1>2
  <2>4. fs[x] = Dir
    BY <2>3 DEF Rooted
  <2>5. ASSUME x = d PROVE FALSE
    <3> DEFINE c == SubSeq(p, 1, n + 1)
    <3>1. c \in Paths /\ c # << >> /\ Front(c) = d
      BY <2>2, <2>3, <2>5, WayDown
    <3>2. fs[c] # None
      <4>1. CASE n + 1 = Len(p)
        <5>1. c = p
          <6>1. p \in Seq(STRING)
            BY ParentPath
          <6>2. SubSeq(p, 1, Len(p)) = p
            BY <6>1, SubSeqFull
          <6> QED BY <4>1, <6>2
        <5> QED BY <2>3, <5>1
      <4>2. CASE n + 1 # Len(p)
        <5>1. n + 1 \in 0 .. Len(p) - 1
          BY <2>1, <4>2
        <5> QED BY <2>3, <5>1, EntryKinds DEF Rooted
      <4> QED BY <4>1, <4>2
    <3>3. c \in Children(d)
      BY <3>1, <3>2 DEF Children
    <3> QED BY <2>4, <2>5, <3>3
  <2> QED BY <1>1, <2>2, <2>4, <2>5
<1>3. Rooted(u)
  BY <1>2 DEF Rooted
<1> QED BY <1>1, <1>3 DEF u

\* Below what is gone there is nothing.
LEMMA GoneBelow ==
  ASSUME NEW t \in FileTree, Rooted(t), NEW p \in Paths, t[p] = None,
         NEW q \in Paths, IsPrefix(p, q)
  PROVE  t[q] = None
<1>1. CASE p = q
  BY <1>1
<1>2. CASE p # q
  <2>1. Len(p) \in Nat /\ Len(q) \in Nat /\ Len(p) < Len(q) /\ p = SubSeq(q, 1, Len(p))
    BY <1>2, WayDown
  <2>2. Len(p) \in 0 .. Len(q) - 1
    BY <2>1
  <2>3. t[q] # None => t[p] = Dir
    BY <2>1, <2>2 DEF Rooted
  <2> QED BY <2>3, EntryKinds
<1> QED BY <1>1, <1>2

-----------------------------------------------------------------------------
(* What is to be shown of a step.                                            *)

\* A step of the file manager on the document root: no backup's, and the archives
\* and the clock are left alone.
Aside(r) ==
  /\ req[r].at \notin {"zip", "walk"}
  /\ CountersOK' /\ UNCHANGED <<archiveVars, clockVars>>
Tidy(r) == \E u \in FileTree, next \in Record :
  Moves(r, u, next) /\ Rooted(u) /\ Sound(next, u, Len(zips)) /\ next.at \notin {"zip", "walk"}

\* What ChangesOnlyAsked and OkMeansDone say of the request that takes the step.
Asked(r) == \A p \in Paths : fs'[p] # fs[p] => req[r].at # "idle" /\ Explains(r, p)
Done(r) == LET p == req[r].path IN
  /\ (Answered(r, "upload") \/ Answered(r, "content")) /\ p \notin req[r].touched
       => fs'[p] = File(req[r].data)
  /\ Answered(r, "mkdir") /\ p \notin req[r].touched => fs'[p] = Dir
  /\ (Answered(r, "delete") \/ Answered(r, "rmdir")) /\ p \notin req[r].touched => fs'[p] = None
  /\ Answered(r, "rmtree") => \A q \in Paths : IsPrefix(p, q) => fs'[q] = None

Correct(r) == Aside(r) /\ Tidy(r) /\ Asked(r) /\ Done(r)

\* A step that leaves the files alone and does not end with "ok".
LEMMA ProceedCorrect ==
  ASSUME FilesInv, NEW r \in Requests, NEW next \in Record, Aside(r), Proceed(r, next),
         Sound(next, fs, Len(zips)), next.at \notin {"zip", "walk"},
         req[r].at = "idle" \/ next.at # "idle" \/ next.reply # "ok"
  PROVE  Correct(r)
<1>1. fs \in FileTree /\ Rooted(fs) /\ fs' = fs /\ req'[r] = next
  BY DEF FilesInv, TypeOK, Proceed
<1>2. Tidy(r)
  BY <1>1 DEF Tidy, Moves
<1>3. ~Answered(r, "upload") /\ ~Answered(r, "content") /\ ~Answered(r, "mkdir")
      /\ ~Answered(r, "delete") /\ ~Answered(r, "rmdir") /\ ~Answered(r, "rmtree")
  BY <1>1 DEF Answered
<1> QED BY <1>1, <1>2, <1>3 DEF Correct, Asked, Done

\* A request that is answered with an error.
LEMMA FailCorrect ==
  ASSUME FilesInv, NEW r \in Requests, Aside(r), Proceed(r, Answer("error"))
  PROVE  Correct(r)
<1>1. /\ Answer("error") \in Record /\ Sound(Answer("error"), fs, Len(zips))
      /\ Answer("error").at = "idle" /\ Answer("error").reply = "error"
  BY AnswerSound DEF Answer, Idle
<1> QED BY <1>1, ProceedCorrect

\* The counters of a step that begins no backup.
LEMMA CountersKept ==
  ASSUME FilesInv, UNCHANGED clockVars, ops' = ops \/ (ops < MaxOps /\ ops' = ops + 1),
         faults' = faults \/ (faults > 0 /\ faults' = faults - 1)
  PROVE  CountersOK'
<1>1. CountersOK /\ now' = now /\ begun' = begun /\ MaxOps \in Nat
  BY BoundsAssumption DEF FilesInv, TypeOK, clockVars
<1>2. /\ begun' \in [1 .. MaxOps -> Nat] /\ now' \in Nat /\ ops' \in Nat
      /\ now' <= ops' /\ ops' <= MaxOps
  BY <1>1 DEF CountersOK
<1>3. faults' \in Nat
  BY <1>1 DEF CountersOK
<1> QED BY <1>2, <1>3 DEF CountersOK

\* The record of a request that begins.
LEMMA WorkingRecord ==
  ASSUME NEW op \in {"content", "upload", "delete", "mkdir", "rmdir", "rmtree", "backup"},
         NEW p \in Paths,
         NEW at \in {"ensure", "mkdir", "open", "write", "remove", "rmtree", "zip", "walk"}
  PROVE  /\ Working(op, p, at) \in Record
         /\ Working(op, p, at).op = op /\ Working(op, p, at).path = p
         /\ Working(op, p, at).at = at
<1>1. << >> \in Paths /\ << >> \in Seq(Paths)
  BY PathsAssumption
<1>2. Idle \in Record
  BY <1>1 DEF Idle, Record
<1> QED BY <1>2 DEF Working, Record

-----------------------------------------------------------------------------
(* os.MkdirAll.                                                              *)

\* The paths on the way down to d.
LEMMA UpToPaths ==
  ASSUME NEW d \in Paths, NEW n \in 0 .. Len(d) + 1
  PROVE  LET s == SubSeq(UpTo(d), n + 1, Len(d) + 1) IN
         /\ s \in Seq(Paths)
         /\ \A i \in 1 .. Len(s) : IsPrefix(s[i], d)
         /\ s # << >> => s[Len(s)] = d
<1> DEFINE s == SubSeq(UpTo(d), n + 1, Len(d) + 1)
<1>1. d \in Seq(STRING) /\ Len(d) \in Nat
  BY ParentPath
<1>2. ASSUME NEW i \in 1 .. Len(d) + 1 PROVE UpTo(d)[i] \in Paths /\ IsPrefix(UpTo(d)[i], d)
  <2>1. i - 1 \in 0 .. Len(d)
    BY <1>1
  <2>2. UpTo(d)[i] = SubSeq(d, 1, i - 1)
    BY DEF UpTo
  <2> QED BY <2>1, <2>2, PathTake
<1>3. UpTo(d)[Len(d) + 1] = d
  <2>1. UpTo(d)[Len(d) + 1] = SubSeq(d, 1, Len(d))
    BY <1>1 DEF UpTo
  <2> QED BY <1>1, <2>1, SubSeqFull
<1>4. /\ s \in Seq(Paths)
      /\ Len(s) = IF n + 1 <= Len(d) + 1 THEN (Len(d) + 1) - (n + 1) + 1 ELSE 0
      /\ \A i \in 1 .. (Len(d) + 1) - (n + 1) + 1 : s[i] = UpTo(d)[(n + 1) + i - 1]
  <2>1. n + 1 \in Int /\ Len(d) + 1 \in Int /\ \A i \in n + 1 .. Len(d) + 1 : UpTo(d)[i] \in Paths
    BY <1>1, <1>2
  <2> HIDE <1>2
  <2> QED BY <2>1, SubSeqProperties
<1> HIDE DEF s
<1>5. Len(s) = Len(d) + 1 - n /\ \A i \in 1 .. Len(s) : s[i] = UpTo(d)[n + i]
  BY <1>1, <1>4
<1>6. ASSUME NEW i \in 1 .. Len(s) PROVE IsPrefix(s[i], d)
  <2>1. n + i \in 1 .. Len(d) + 1
    BY <1>1, <1>5
  <2> QED BY <1>2, <1>5, <2>1
<1>7. ASSUME s # << >> PROVE s[Len(s)] = d
  <2>1. Len(s) \in 1 .. Len(s)
    BY <1>4, <1>7, EmptySeq, LenProperties
  <2>2. n + Len(s) = Len(d) + 1
    BY <1>1, <1>5
  <2> QED BY <1>3, <1>5, <2>1, <2>2
<1> QED BY <1>4, <1>6, <1>7 DEF s

\* A request with names to create, or with none left.
LEMMA EnsuredSound ==
  ASSUME NEW q \in Record, NEW t, NEW k, q.op \in Writers \cup {"mkdir"},
         q.todo \in Seq(Paths),
         \A i \in 1 .. Len(q.todo) : IsPrefix(q.todo[i], q.path),
         q.op = "mkdir" /\ q.todo # << >> => q.todo[Len(q.todo)] = q.path
  PROVE  /\ Ensured(q) \in Record /\ Sound(Ensured(q), t, k)
         /\ Ensured(q).at \in {"idle", "mkdir", "open"}
         /\ q.op # "mkdir" => Ensured(q).at # "idle"
<1>1. CASE q.todo # << >>
  <2> DEFINE n == [q EXCEPT !.at = "mkdir"]
  <2>1. /\ n \in Record /\ n.at = "mkdir" /\ n.op = q.op /\ n.todo = q.todo /\ n.path = q.path
    BY DEF Record
  <2>2. Ensured(q) = n
    BY <1>1 DEF Ensured
  <2> HIDE DEF n
  <2>3. Sound(n, t, k)
    BY <1>1, <2>1 DEF Sound
  <2> QED BY <2>1, <2>2, <2>3
<1>2. CASE q.todo = << >> /\ q.op = "mkdir"
  <2>1. Ensured(q) = Answer("ok")
    BY <1>2 DEF Ensured
  <2> QED BY <1>2, <2>1, AnswerSound
<1>3. CASE q.todo = << >> /\ q.op # "mkdir"
  <2> DEFINE n == [q EXCEPT !.at = "open"]
  <2>1. n \in Record /\ n.at = "open" /\ n.op = q.op
    BY DEF Record
  <2>2. Ensured(q) = n
    BY <1>3 DEF Ensured
  <2> HIDE DEF n
  <2>3. Sound(n, t, k)
    BY <1>3, <2>1 DEF Sound
  <2> QED BY <2>1, <2>2, <2>3
<1> QED BY <1>1, <1>2, <1>3

\* The steps that end in os.MkdirAll.
LEMMA MkdirAllCorrect ==
  ASSUME FilesInv, NEW r \in Requests, NEW q \in Record, q.op \in Writers \cup {"mkdir"},
         NEW d \in Paths, IsPrefix(d, q.path), q.op = "mkdir" => d = q.path,
         MkdirAll(r, q, d), Aside(r), req[r].at = "idle" \/ q.op # "mkdir"
  PROVE  Correct(r)
<1>1. PICK n \in 0 .. Len(d) + 1 :
        \/ Proceed(r, Answer("error"))
        \/ Proceed(r, Ensured([q EXCEPT !.todo = SubSeq(UpTo(d), n + 1, Len(d) + 1)]))
  BY DEF MkdirAll
<1> DEFINE s == SubSeq(UpTo(d), n + 1, Len(d) + 1)
           e == [q EXCEPT !.todo = s]
<1>2. /\ s \in Seq(Paths) /\ \A i \in 1 .. Len(s) : IsPrefix(s[i], d)
      /\ s # << >> => s[Len(s)] = d
  BY UpToPaths
<1> HIDE DEF s
<1>3. e \in Record /\ e.op = q.op /\ e.todo = s /\ e.path = q.path /\ q.path \in Paths
  BY <1>2 DEF Record
<1>4. \A i \in 1 .. Len(s) : IsPrefix(s[i], q.path)
  BY <1>2, <1>3, PrefixTransitive, ElementOfSeq
<1> HIDE DEF e
<1>5. /\ Ensured(e) \in Record /\ Sound(Ensured(e), fs, Len(zips))
      /\ Ensured(e).at \in {"idle", "mkdir", "open"}
      /\ q.op # "mkdir" => Ensured(e).at # "idle"
  BY <1>2, <1>3, <1>4, EnsuredSound
<1>6. CASE Proceed(r, Ensured(e))
  BY <1>5, <1>6, ProceedCorrect
<1>7. CASE Proceed(r, Answer("error"))
  BY <1>7, FailCorrect
<1> QED BY <1>1, <1>6, <1>7 DEF e, s
-----------------------------------------------------------------------------
(* The operations.                                                           *)

\* A request that begins leaves archives and clock alone.
LEMMA NewAside ==
  ASSUME FilesInv, NEW r \in Requests, New(r), UNCHANGED clockVars
  PROVE  Aside(r) /\ req[r].at = "idle"
<1>1. req[r].at = "idle" /\ ops < MaxOps /\ ops' = ops + 1 /\ UNCHANGED <<archiveVars, faults>>
  BY DEF New
<1>2. CountersOK'
  BY <1>1, CountersKept
<1> QED BY <1>1, <1>2 DEF Aside

\* So does one that goes on.
LEMMA StepAside ==
  ASSUME FilesInv, NEW r \in Requests, req[r].at \notin {"zip", "walk"},
         UNCHANGED <<archiveVars, clockVars, ops>>,
         faults' = faults \/ (faults > 0 /\ faults' = faults - 1)
  PROVE  Aside(r)
<1>1. CountersOK'
  BY CountersKept
<1> QED BY <1>1 DEF Aside

\* What is known of a request and of the tree.
LEMMA FileFacts ==
  ASSUME FilesInv, NEW r \in Requests
  PROVE  /\ fs \in FileTree /\ Rooted(fs) /\ req[r] \in Record /\ Sound(req[r], fs, Len(zips))
         /\ req[r].path \in Paths /\ req[r].data \in Seq(STRING) /\ req[r].touched \in SUBSET Paths
         /\ req[r].linked \in BOOLEAN
         /\ \A p \in Paths : fs[p] \in Entry
BY DEF FilesInv, TypeOK, Record, FileTree

\* A content update creates the root if need be.
LEMMA UpdateSiteContentCorrect ==
  ASSUME FilesInv, NEW r \in Requests, NEW p \in Editable, NEW c \in Contents,
         UpdateSiteContent(r, p, c)
  PROVE  Correct(r)
<1> DEFINE w == Working("content", p, "open")
           q == [w EXCEPT !.data = c]
<1>1. p \in Paths /\ c \in Seq(STRING) /\ << >> \in Paths
  BY PathsAssumption, ContentsAssumption
<1>2. w \in Record /\ w.op = "content" /\ w.path = p
  BY <1>1, WorkingRecord
<1> HIDE DEF w
<1>3. q \in Record /\ q.op = "content" /\ q.path = p
  BY <1>1, <1>2 DEF Record
<1>4. Aside(r) /\ req[r].at = "idle"
  BY NewAside DEF UpdateSiteContent
<1>5. MkdirAll(r, q, << >>)
  BY DEF UpdateSiteContent, w
<1> HIDE DEF q
<1>6. IsPrefix(<< >>, q.path)
  <2>1. p \in Seq(STRING) /\ << >> \in Seq(STRING) /\ Len(<< >>) = 0 /\ Len(p) \in Nat
    BY <1>1, ParentPath, EmptySeq
  <2>2. SubSeq(p, 1, 0) = << >>
    BY SubSeqEmpty
  <2>3. IsPrefix(<< >>, p) <=> Len(<< >>) <= Len(p) /\ << >> = SubSeq(p, 1, Len(<< >>))
    BY <2>1, PrefixIsTake
  <2> QED BY <1>3, <2>1, <2>2, <2>3
<1> QED BY <1>1, <1>3, <1>4, <1>5, <1>6, MkdirAllCorrect DEF Writers

\* An upload looks whether its target is a directory.
LEMMA UploadSiteFileCorrect ==
  ASSUME FilesInv, NEW r \in Requests, NEW p \in Below, NEW c \in Contents,
         UploadSiteFile(r, p, c)
  PROVE  Correct(r)
<1> DEFINE w == Working("upload", p, "ensure")
           q == [w EXCEPT !.data = c]
<1>1. p \in Paths /\ c \in Seq(STRING)
  BY ContentsAssumption DEF Below
<1>2. w \in Record /\ w.op = "upload" /\ w.at = "ensure"
  BY <1>1, WorkingRecord
<1> HIDE DEF w
<1>3. q \in Record /\ q.op = "upload" /\ q.at = "ensure"
  BY <1>1, <1>2 DEF Record
<1>4. Aside(r) /\ req[r].at = "idle"
  BY NewAside DEF UploadSiteFile
<1>5. Proceed(r, Answer("error")) \/ Proceed(r, q)
  BY DEF UploadSiteFile, w
<1> HIDE DEF q
<1>6. Sound(q, fs, Len(zips))
  BY <1>3 DEF Sound
<1> QED BY <1>3, <1>4, <1>5, <1>6, ProceedCorrect, FailCorrect

\* Then it creates the directories its target is in.
LEMMA EnsureParentCorrect ==
  ASSUME FilesInv, NEW r \in Requests, EnsureParent(r)
  PROVE  Correct(r)
<1>1. req[r] \in Record /\ req[r].path \in Paths /\ req[r].op = "upload" /\ req[r].at = "ensure"
  BY FileFacts DEF EnsureParent, Sound
<1>2. Aside(r)
  BY <1>1, StepAside DEF EnsureParent
<1>3. Front(req[r].path) \in Paths /\ IsPrefix(Front(req[r].path), req[r].path)
  <2> DEFINE p == req[r].path
  <2>1. /\ Len(p) \in Nat /\ p \in Seq(STRING) /\ Front(p) \in Paths
        /\ p # << >> => Len(p) > 0 /\ Front(p) = SubSeq(p, 1, Len(p) - 1)
    BY <1>1, ParentPath
  <2> HIDE DEF p
  <2>2. CASE p # << >>
    <3>1. Len(p) - 1 \in 0 .. Len(p)
      BY <2>1, <2>2
    <3>2. p \in Paths
      BY <1>1 DEF p
    <3> QED BY <2>1, <2>2, <3>1, <3>2, PathTake DEF p
  <2>3. CASE p = << >>
    <3>1. Front(p) = << >>
      BY <2>3, SubSeqEmpty DEF Front
    <3>2. IsPrefix(p, p)
      BY <1>1, PrefixReflexive DEF p
    <3> QED BY <2>1, <2>3, <3>1, <3>2 DEF p
  <2> QED BY <2>2, <2>3
<1> QED BY <1>1, <1>2, <1>3, MkdirAllCorrect DEF EnsureParent, Writers

\* A deletion of a file has seen a file there.
LEMMA DeleteSiteFileCorrect ==
  ASSUME FilesInv, NEW r \in Requests, NEW p \in Below, DeleteSiteFile(r, p)
  PROVE  Correct(r)
<1> DEFINE q == Working("delete", p, "remove")
<1>1. p \in Paths
  BY DEF Below
<1>2. q \in Record /\ q.op = "delete" /\ q.at = "remove" /\ q.path = p
  BY <1>1, WorkingRecord
<1>3. Aside(r) /\ req[r].at = "idle"
  BY NewAside DEF DeleteSiteFile
<1>4. Proceed(r, Answer("error")) \/ (IsFile(p) /\ Proceed(r, q))
  BY DEF DeleteSiteFile
<1> HIDE DEF q
<1>5. IsFile(p) => Sound(q, fs, Len(zips))
  BY <1>2 DEF Sound, IsFile
<1> QED BY <1>2, <1>3, <1>4, <1>5, ProceedCorrect, FailCorrect

\* A new directory is created with its parents.
LEMMA CreateSiteDirectoryCorrect ==
  ASSUME FilesInv, NEW r \in Requests, NEW p \in Below, CreateSiteDirectory(r, p)
  PROVE  Correct(r)
<1> DEFINE q == Working("mkdir", p, "mkdir")
<1>1. p \in Paths
  BY DEF Below
<1>2. q \in Record /\ q.op = "mkdir" /\ q.path = p
  BY <1>1, WorkingRecord
<1>3. Aside(r) /\ req[r].at = "idle"
  BY NewAside DEF CreateSiteDirectory
<1>4. MkdirAll(r, q, p)
  BY DEF CreateSiteDirectory
<1> HIDE DEF q
<1>5. IsPrefix(p, q.path)
  BY <1>1, <1>2, PrefixReflexive
<1> QED BY <1>1, <1>2, <1>3, <1>4, <1>5, MkdirAllCorrect

\* A deletion of a directory has seen a directory there.
LEMMA DeleteSiteDirectoryCorrect ==
  ASSUME FilesInv, NEW r \in Requests, NEW p \in Below, NEW recursive \in BOOLEAN,
         DeleteSiteDirectory(r, p, recursive)
  PROVE  Correct(r)
<1> DEFINE q == Working("rmdir", p, "remove")
           w == Working("rmtree", p, "rmtree")
           s == <<<<"visit", p>>>>
           v == [w EXCEPT !.todo = s]
<1>1. p \in Paths
  BY DEF Below
<1>2. q \in Record /\ q.op = "rmdir" /\ q.at = "remove" /\ q.path = p
  BY <1>1, WorkingRecord
<1>3. w \in Record /\ w.op = "rmtree" /\ w.at = "rmtree" /\ w.path = p
  BY <1>1, WorkingRecord
<1>4. Aside(r) /\ req[r].at = "idle"
  BY NewAside DEF DeleteSiteDirectory
<1>5. Proceed(r, Answer("error")) \/ (fs[p] = Dir /\ (Proceed(r, q) \/ Proceed(r, v)))
  BY DEF DeleteSiteDirectory
<1>6. s \in Seq(Acts) /\ Len(s) = 1 /\ s[1][2] = p /\ s # << >>
  <2>1. <<"visit", p>> \in Acts
    BY <1>1 DEF Acts
  <2>2. s \in Seq(Acts)
    BY <2>1
  <2>3. Len(s) = 1 /\ s[1] = <<"visit", p>>
    OBVIOUS
  <2>4. s # << >>
    BY <2>3
  <2> QED BY <2>2, <2>3, <2>4
<1> HIDE DEF q, w, s
<1>7. v \in Record /\ v.op = "rmtree" /\ v.at = "rmtree" /\ v.path = p /\ v.todo = s
  BY <1>3, <1>6 DEF Record
<1> HIDE DEF v
<1>8. fs[p] = Dir => Sound(q, fs, Len(zips))
  BY <1>2 DEF Sound
<1>9. Sound(v, fs, Len(zips))
  <2>1. IsPrefix(p, p)
    BY <1>1, PrefixReflexive
  <2>2. \A i \in 1 .. Len(s) : IsPrefix(p, s[i][2])
    BY <1>6, <2>1
  <2> QED BY <1>6, <1>7, <2>2 DEF Sound
<1> QED BY <1>2, <1>4, <1>5, <1>7, <1>8, <1>9, ProceedCorrect, FailCorrect
-----------------------------------------------------------------------------
(* System calls that change the tree.                                        *)

\* A call that changes one path.
LEMMA OnePathChanged ==
  ASSUME FilesInv, NEW r \in Requests, NEW d \in Paths, NEW e \in Entry, NEW next,
         Change(r, [fs EXCEPT ![d] = e], next)
  PROVE  /\ Moves(r, [fs EXCEPT ![d] = e], next) /\ req'[r] = next
         /\ fs'[d] = e /\ \A p \in Paths : fs'[p] # fs[p] => p = d
<1>1. fs \in FileTree /\ TypeOK
  BY DEF FilesInv, TypeOK
<1>2. Moves(r, [fs EXCEPT ![d] = e], next)
  BY DEF Moves
<1>3. fs' = [fs EXCEPT ![d] = e] /\ req'[r] = next
  BY <1>1, <1>2, MoveEffect
<1> QED BY <1>1, <1>2, <1>3 DEF FileTree

\* The end of a list of names to create.
LEMMA TailOfTodo ==
  ASSUME NEW S, NEW s \in Seq(S), s # << >>
  PROVE  /\ Head(s) \in S /\ Head(s) = s[1] /\ Tail(s) \in Seq(S) /\ Len(s) \in Nat \ {0}
         /\ \A i \in 1 .. Len(Tail(s)) : Tail(s)[i] = s[i + 1] /\ i + 1 \in 1 .. Len(s)
         /\ Tail(s) = << >> => Len(s) = 1
         /\ Tail(s) # << >> => Tail(s)[Len(Tail(s))] = s[Len(s)]
<1>1. /\ Head(s) \in S /\ Tail(s) \in Seq(S) /\ Len(Tail(s)) = Len(s) - 1
      /\ \A i \in 1 .. Len(Tail(s)) : Tail(s)[i] = s[i + 1]
  BY HeadTailProperties
<1>2. Len(s) \in Nat \ {0}
  BY EmptySeq
<1>3. Head(s) = s[1]
  OBVIOUS
<1>4. Tail(s) = << >> => Len(s) = 1
  BY <1>1, <1>2
<1>5. ASSUME Tail(s) # << >> PROVE Tail(s)[Len(Tail(s))] = s[Len(s)]
  <2>1. Len(Tail(s)) \in Nat \ {0}
    BY <1>1, <1>5, EmptySeq
  <2>2. Len(Tail(s)) \in 1 .. Len(Tail(s)) /\ Len(Tail(s)) + 1 = Len(s)
    BY <1>1, <1>2, <2>1
  <2> QED BY <1>1, <2>2
<1>6. \A i \in 1 .. Len(Tail(s)) : i + 1 \in 1 .. Len(s)
  BY <1>1, <1>2
<1> QED BY <1>1, <1>2, <1>3, <1>4, <1>5, <1>6

\* mkdir(2) of a missing name on the way to the target.
LEMMA MkdirStepCorrect ==
  ASSUME FilesInv, NEW r \in Requests, MkdirStep(r)
  PROVE  Correct(r)
<1> DEFINE q == req[r]
           d == Head(q.todo)
           e == [q EXCEPT !.todo = Tail(q.todo)]
           next == Ensured(e)
<1>1. /\ fs \in FileTree /\ Rooted(fs) /\ q \in Record /\ q.path \in Paths
      /\ \A p \in Paths : fs[p] \in Entry
  BY FileFacts
<1>2. /\ q.at = "mkdir" /\ q.op \in Writers \cup {"mkdir"}
      /\ q.todo \in Seq(Paths) /\ q.todo # << >>
      /\ \A i \in 1 .. Len(q.todo) : IsPrefix(q.todo[i], q.path)
      /\ q.op = "mkdir" => q.todo[Len(q.todo)] = q.path
  BY FileFacts DEF MkdirStep, Sound
<1>3. /\ d \in Paths /\ d = q.todo[1] /\ Tail(q.todo) \in Seq(Paths) /\ Len(q.todo) \in Nat \ {0}
      /\ \A i \in 1 .. Len(Tail(q.todo)) : Tail(q.todo)[i] = q.todo[i + 1] /\ i + 1 \in 1 .. Len(q.todo)
      /\ Tail(q.todo) = << >> => Len(q.todo) = 1
      /\ Tail(q.todo) # << >> => Tail(q.todo)[Len(Tail(q.todo))] = q.todo[Len(q.todo)]
  BY <1>2, TailOfTodo
<1>4. Aside(r)
  BY <1>2, StepAside DEF MkdirStep
<1>5. \/ Proceed(r, Answer("error"))
      \/ fs[d] = Dir /\ Proceed(r, next)
      \/ /\ fs[d] # Dir /\ ~IsFile(d) /\ (d = << >> \/ fs[Front(d)] = Dir)
         /\ Change(r, [fs EXCEPT ![d] = Dir], next)
  BY DEF MkdirStep
<1> HIDE DEF q, d
<1>6. e \in Record /\ e.op = q.op /\ e.path = q.path /\ e.todo = Tail(q.todo)
  BY <1>1, <1>3 DEF Record
<1> HIDE DEF e
<1>7. /\ next \in Record /\ \A t : Sound(next, t, Len(zips))
      /\ next.at \in {"idle", "mkdir", "open"}
      /\ q.op # "mkdir" => next.at # "idle"
  BY <1>2, <1>3, <1>6, EnsuredSound
<1>8. next.at = "idle" => d = q.path
  <2>1. e.todo # << >> => next.at = "mkdir"
    <3>1. e.todo # << >> => next = [e EXCEPT !.at = "mkdir"]
      BY DEF Ensured
    <3> QED BY <1>6, <3>1 DEF Record
  <2> QED BY <1>2, <1>3, <1>6, <1>7, <2>1
<1> HIDE DEF next
<1>9. ASSUME fs'[d] = Dir, req'[r] = next PROVE Done(r)
  <2>1. /\ ~Answered(r, "upload") /\ ~Answered(r, "content") /\ ~Answered(r, "delete")
        /\ ~Answered(r, "rmdir") /\ ~Answered(r, "rmtree")
    BY <1>2, <1>7, <1>9 DEF Answered, Writers, q
  <2>2. Answered(r, "mkdir") => fs'[q.path] = Dir
    BY <1>8, <1>9 DEF Answered
  <2> QED BY <2>1, <2>2 DEF Done, q
<1>10. CASE Proceed(r, Answer("error"))
  BY <1>4, <1>10, FailCorrect
<1>11. CASE fs[d] = Dir /\ Proceed(r, next)
  <2>1. fs' = fs /\ req'[r] = next
    BY <1>11 DEF Proceed, FilesInv, TypeOK
  <2>2. Tidy(r)
    BY <1>1, <1>7, <1>11 DEF Tidy, Moves
  <2>3. Asked(r)
    BY <2>1 DEF Asked
  <2> QED BY <1>4, <1>9, <1>11, <2>1, <2>2, <2>3 DEF Correct
<1>12. CASE /\ fs[d] # Dir /\ ~IsFile(d) /\ (d = << >> \/ fs[Front(d)] = Dir)
            /\ Change(r, [fs EXCEPT ![d] = Dir], next)
  <2> DEFINE u == [fs EXCEPT ![d] = Dir]
  <2>1. fs[d] = None
    BY <1>1, <1>3, <1>12, EntryKinds DEF IsFile
  <2>2. u \in FileTree /\ Rooted(u)
    BY <1>1, <1>3, <1>12, EntryKinds, RootedPut
  <2>3. /\ Moves(r, u, next) /\ req'[r] = next
        /\ fs'[d] = Dir /\ \A p \in Paths : fs'[p] # fs[p] => p = d
    BY <1>3, <1>12, EntryKinds, OnePathChanged
  <2> HIDE DEF u
  <2>4. Tidy(r)
    BY <1>7, <2>2, <2>3 DEF Tidy
  <2>5. Asked(r)
    <3>1. IsPrefix(d, q.path) /\ q.op \in {"content", "upload", "mkdir"} /\ q.at # "idle"
      BY <1>2, <1>3 DEF Writers
    <3>2. q.at # "idle" /\ Explains(r, d)
      BY <2>1, <2>3, <3>1 DEF Explains, q
    <3> QED BY <2>3, <3>2 DEF Asked, q
  <2> QED BY <1>4, <1>9, <2>3, <2>4, <2>5 DEF Correct
<1> QED BY <1>5, <1>10, <1>11, <1>12
\* open(2) of the target, which empties it.
LEMMA OpenFileCorrect ==
  ASSUME FilesInv, NEW r \in Requests, OpenFile(r)
  PROVE  Correct(r)
<1> DEFINE q == req[r]
           p == q.path
           next == [q EXCEPT !.at = "write", !.linked = TRUE]
           u == [fs EXCEPT ![p] = File(<< >>)]
<1>1. /\ fs \in FileTree /\ Rooted(fs) /\ q \in Record /\ p \in Paths
      /\ \A x \in Paths : fs[x] \in Entry
  BY FileFacts
<1>2. q.at = "open" /\ q.op \in Writers
  BY FileFacts DEF OpenFile, Sound
<1>3. Aside(r)
  BY <1>2, StepAside DEF OpenFile
<1>4. \/ Proceed(r, Answer("error"))
      \/ fs[Front(p)] = Dir /\ fs[p] # Dir /\ Change(r, u, next)
  BY DEF OpenFile
<1>5. CASE Proceed(r, Answer("error"))
  BY <1>3, <1>5, FailCorrect
<1>6. CASE fs[Front(p)] = Dir /\ fs[p] # Dir /\ Change(r, u, next)
  <2>1. File(<< >>) \in Entry /\ File(<< >>).kind = "file" /\ File(<< >>) # None
    BY EmptySeq, EntryKinds
  <2>2. u \in FileTree /\ Rooted(u)
    BY <1>1, <1>6, <2>1, RootedPut
  <2>3. /\ Moves(r, u, next) /\ req'[r] = next
        /\ fs'[p] = File(<< >>) /\ \A x \in Paths : fs'[x] # fs[x] => x = p
    BY <1>1, <1>6, <2>1, OnePathChanged
  <2>4. /\ next \in Record /\ next.at = "write" /\ next.op = q.op /\ next.path = p /\ next.linked
    BY <1>1 DEF Record
  <2>5. u[p] = File(<< >>)
    BY <1>1 DEF FileTree
  <2>6. Explains(r, p)
    BY <1>2, <1>6, <2>1, <2>3 DEF Explains, Writers
  <2> HIDE DEF u, next
  <2>7. Sound(next, u, Len(zips))
    BY <1>2, <2>1, <2>4, <2>5 DEF Sound
  <2>8. Tidy(r)
    BY <2>2, <2>3, <2>4, <2>7 DEF Tidy
  <2>9. Asked(r)
    BY <1>2, <2>3, <2>6 DEF Asked
  <2>10. Done(r)
    BY <2>3, <2>4 DEF Done, Answered
  <2> QED BY <1>3, <2>8, <2>9, <2>10 DEF Correct
<1> QED BY <1>4, <1>5, <1>6

\* Writing the first n blocks of the data into a file that holds old.
LEMMA OverwriteContent ==
  ASSUME NEW data \in Seq(STRING), NEW n \in 0 .. Len(data), NEW old \in Seq(STRING)
  PROVE  /\ Overwrite(SubSeq(data, 1, n), old) \in Seq(STRING)
         /\ old = << >> /\ n = Len(data) => Overwrite(SubSeq(data, 1, n), old) = data
<1> DEFINE d == SubSeq(data, 1, n)
           x == SubSeq(old, Len(d) + 1, Len(old))
<1>1. d \in Seq(STRING) /\ Len(d) = n /\ Len(data) \in Nat /\ Len(old) \in Nat
  BY TakeProperties, LenProperties
<1> HIDE DEF d
<1>2. x \in Seq(STRING)
  <2>1. Len(d) + 1 \in Int /\ Len(old) \in Int /\ \A i \in Len(d) + 1 .. Len(old) : old[i] \in STRING
    BY <1>1, ElementOfSeq
  <2> QED BY <2>1, SubSeqProperties
<1>3. Overwrite(d, old) \in Seq(STRING)
  BY <1>1, <1>2, ConcatProperties DEF Overwrite
<1>4. ASSUME old = << >>, n = Len(data) PROVE Overwrite(d, old) = data
  <2>1. d = data
    BY <1>4, SubSeqFull DEF d
  <2>2. Len(d) + 1 \in Int /\ Len(old) \in Int /\ Len(old) < Len(d) + 1
    BY <1>1, <1>4
  <2>3. x = << >>
    BY <2>2, SubSeqEmpty
  <2> HIDE DEF x
  <2>4. d \o x = d
    BY <1>1, <2>3, ConcatEmptySeq
  <2> QED BY <2>1, <2>4 DEF Overwrite, x
<1> QED BY <1>3, <1>4 DEF d

\* write(2) of all or of some blocks, into the file of that name or into one that
\* has lost it.
LEMMA PutCorrect ==
  ASSUME FilesInv, NEW r \in Requests, req[r].at = "write", Aside(r),
         NEW n \in 0 .. Len(req[r].data), NEW reply \in {"ok", "error"}, Put(r, n, reply),
         reply = "ok" => n = Len(req[r].data)
  PROVE  Correct(r)
<1> DEFINE q == req[r]
           p == q.path
           next == Answer(reply)
           c == Overwrite(SubSeq(q.data, 1, n), fs[p].data)
           u == [fs EXCEPT ![p] = File(c)]
<1>1. /\ fs \in FileTree /\ Rooted(fs) /\ q \in Record /\ p \in Paths
      /\ q.data \in Seq(STRING) /\ q.touched \in SUBSET Paths
      /\ \A x \in Paths : fs[x] \in Entry
  BY FileFacts
<1>2. /\ q.op \in Writers
      /\ q.linked => fs[p].kind = "file"
      /\ p \notin q.touched => q.linked /\ fs[p] = File(<< >>)
  BY FileFacts DEF Sound
<1>3. next \in Record /\ (\A t : Sound(next, t, Len(zips))) /\ next.at = "idle"
  BY AnswerSound
<1>4. CASE q.linked
  <2>1. Change(r, u, next)
    BY <1>4 DEF Put
  <2>2. fs[p].data \in Seq(STRING) /\ fs[p] # Dir /\ fs[p] # None
    BY <1>1, <1>2, <1>4, EntryKinds
  <2>3. c \in Seq(STRING) /\ (fs[p].data = << >> /\ n = Len(q.data) => c = q.data)
    BY <1>1, <2>2, OverwriteContent
  <2> HIDE DEF c, next
  <2>4. File(c) \in Entry /\ File(c).kind = "file" /\ File(c) # None
    BY <2>3, EntryKinds
  <2>5. p = << >> \/ fs[Front(p)] = Dir
    <3>1. CASE p # << >>
      <4>1. Len(p) \in Nat /\ Len(p) > 0 /\ Front(p) = SubSeq(p, 1, Len(p) - 1)
        BY <1>1, <3>1, ParentPath
      <4>2. Len(p) - 1 \in 0 .. Len(p) - 1
        BY <4>1
      <4> QED BY <1>1, <2>2, <4>1, <4>2 DEF Rooted
    <3> QED BY <3>1
  <2>6. u \in FileTree /\ Rooted(u)
    BY <1>1, <2>2, <2>4, <2>5, RootedPut
  <2>7. /\ Moves(r, u, next) /\ req'[r] = next
        /\ fs'[p] = File(c) /\ \A x \in Paths : fs'[x] # fs[x] => x = p
    BY <1>1, <2>1, <2>4, OnePathChanged
  <2>8. Explains(r, p)
    BY <1>2, <2>2, <2>4, <2>7 DEF Explains, Writers
  <2> HIDE DEF u
  <2>9. Tidy(r)
    BY <1>3, <2>6, <2>7 DEF Tidy
  <2>10. Asked(r)
    BY <2>7, <2>8 DEF Asked
  <2>11. ASSUME next.reply = "ok", p \notin q.touched PROVE fs'[p] = File(q.data)
    <3>1. reply = "ok"
      BY <2>11 DEF next, Answer, Idle
    <3>2. fs[p].data = << >>
      BY <1>2, <2>11, EmptySeq, EntryKinds
    <3> QED BY <2>3, <2>7, <3>1, <3>2
  <2>12. Done(r)
    BY <1>2, <2>7, <2>11 DEF Done, Answered, Writers
  <2> QED BY <2>9, <2>10, <2>12 DEF Correct
<1>5. CASE ~q.linked
  <2>1. Proceed(r, next)
    BY <1>5 DEF Put
  <2> HIDE DEF next
  <2>2. fs' = fs /\ req'[r] = next
    BY <2>1 DEF Proceed, FilesInv, TypeOK
  <2>3. Tidy(r)
    BY <1>1, <1>3, <2>1 DEF Tidy, Moves
  <2>4. Asked(r)
    BY <2>2 DEF Asked
  <2>5. Done(r)
    BY <1>2, <1>5 DEF Done, Answered, Writers
  <2> QED BY <2>3, <2>4, <2>5 DEF Correct
<1> QED BY <1>4, <1>5

\* The two ways a write ends.
LEMMA WriteCorrect ==
  ASSUME FilesInv, NEW r \in Requests, WriteFile(r) \/ WriteFails(r)
  PROVE  Correct(r)
<1>1. req[r].at = "write" /\ Len(req[r].data) \in Nat
  BY FileFacts, LenProperties DEF WriteFile, WriteFails
<1>2. Aside(r)
  BY <1>1, StepAside DEF WriteFile, WriteFails
<1>3. CASE WriteFile(r)
  <2>1. Put(r, Len(req[r].data), "ok") /\ Len(req[r].data) \in 0 .. Len(req[r].data)
    BY <1>1, <1>3 DEF WriteFile
  <2> QED BY <1>1, <1>2, <2>1, PutCorrect
<1>4. CASE WriteFails(r)
  <2>1. PICK n \in 0 .. Len(req[r].data) - 1 : Put(r, n, "error")
    BY <1>4 DEF WriteFails
  <2>2. n \in 0 .. Len(req[r].data)
    BY <1>1
  <2> QED BY <1>1, <1>2, <2>1, <2>2, PutCorrect
<1> QED BY <1>3, <1>4
\* os.Remove of the target of the request.
LEMMA RemoveStepCorrect ==
  ASSUME FilesInv, NEW r \in Requests, RemoveStep(r)
  PROVE  Correct(r)
<1> DEFINE q == req[r]
           p == q.path
           next == Answer("ok")
           u == [fs EXCEPT ![p] = None]
<1>1. /\ fs \in FileTree /\ Rooted(fs) /\ q \in Record /\ p \in Paths
      /\ \A x \in Paths : fs[x] \in Entry
  BY FileFacts
<1>2. /\ q.at = "remove" /\ q.op \in {"delete", "rmdir"}
      /\ q.op = "delete" => fs[p].kind = "file" \/ p \in q.touched
      /\ q.op = "rmdir" => fs[p] = Dir \/ p \in q.touched
  BY FileFacts DEF RemoveStep, Sound
<1>3. Aside(r)
  BY <1>2, StepAside DEF RemoveStep
<1>4. \/ Proceed(r, Answer("error"))
      \/ Children(p) = {} /\ Change(r, u, next)
  BY DEF RemoveStep
<1>5. CASE Proceed(r, Answer("error"))
  BY <1>3, <1>5, FailCorrect
<1>6. CASE Children(p) = {} /\ Change(r, u, next)
  <2>1. u \in FileTree /\ Rooted(u)
    BY <1>1, <1>6, RootedRemove
  <2>2. /\ Moves(r, u, next) /\ req'[r] = next
        /\ fs'[p] = None /\ \A x \in Paths : fs'[x] # fs[x] => x = p
    BY <1>1, <1>6, EntryKinds, OnePathChanged
  <2>3. next \in Record /\ (\A t : Sound(next, t, Len(zips))) /\ next.at = "idle"
    BY AnswerSound
  <2>4. Explains(r, p)
    BY <1>2, <2>2 DEF Explains, IsFile
  <2> HIDE DEF u, next
  <2>5. Tidy(r)
    BY <2>1, <2>2, <2>3 DEF Tidy
  <2>6. Asked(r)
    BY <1>2, <2>2, <2>4 DEF Asked
  <2>7. Done(r)
    BY <1>2, <2>2 DEF Done, Answered
  <2> QED BY <1>3, <2>5, <2>6, <2>7 DEF Correct
<1> QED BY <1>4, <1>5, <1>6

\* The names of a directory in some order: each of its entries, and nothing else.
LEMMA ChildrenInOrder ==
  ASSUME NEW p \in Paths
  PROVE  LET order == SetToSeq(Children(p)) IN
         /\ order \in Seq(Children(p)) /\ order \in Seq(Paths)
         /\ \A x \in Children(p) : \E i \in 1 .. Len(order) : order[i] = x
<1> DEFINE S == Children(p)
           n == Cardinality(S)
           order == SetToSeq(S)
<1>1. S \subseteq Paths /\ IsFiniteSet(S)
  <2>1. S \in SUBSET Paths
    BY DEF Children
  <2> QED BY <2>1, PathsAssumption, FS_Subset
<1> HIDE DEF S
<1>2. n \in Nat /\ ExistsBijection(1 .. n, S)
  BY <1>1, FS_CardinalityType
<1>3. PICK f \in [1 .. n -> S] : IsInjective(f)
  BY <1>2 DEF ExistsBijection, Bijection, Injection, IsInjective
<1>4. order \in [1 .. n -> S] /\ IsInjective(order)
  BY <1>3 DEF SetToSeq
<1> HIDE DEF order, n
<1>5. order \in Injection(1 .. n, S)
  BY <1>4 DEF Injection, IsInjective
<1>6. IsFiniteSet(1 .. n) /\ Cardinality(1 .. n) = n
  BY <1>2, FS_Interval
<1>7. order \in Surjection(1 .. n, S)
  BY <1>1, <1>5, <1>6, FS_Injection DEF n
<1>8. order \in Seq(S) /\ Len(order) = n
  BY <1>2, <1>4
<1>9. order \in Seq(Paths)
  BY <1>1, <1>8, SeqMonotonic
<1>10. \A x \in S : \E i \in 1 .. n : order[i] = x
  BY <1>7 DEF Surjection
<1> QED BY <1>8, <1>9, <1>10 DEF S, order

\* What follows a call of os.RemoveAll.
After(q, rest, reply) == IF rest = << >> THEN Answer(reply) ELSE [q EXCEPT !.todo = rest]

\* It is sound, and the last call is the one for the target itself.
LEMMA AfterSound ==
  ASSUME NEW q \in Record, NEW t, NEW k, q.at = "rmtree", Sound(q, t, k),
         NEW reply \in {"ok", "error"}
  PROVE  LET rest == Tail(q.todo)
             next == After(q, rest, reply)
         IN  /\ next \in Record /\ \A u : Sound(next, u, k)
             /\ next.at \in {"idle", "rmtree"}
             /\ next.at = "idle" => Head(q.todo)[2] = q.path /\ next.reply = reply
<1> DEFINE rest == Tail(q.todo)
           next == After(q, rest, reply)
<1>1. /\ q.op = "rmtree" /\ q.todo \in Seq(Acts) /\ q.todo # << >>
      /\ \A i \in 1 .. Len(q.todo) : IsPrefix(q.path, q.todo[i][2])
      /\ q.todo[Len(q.todo)][2] = q.path
  BY DEF Sound
<1>2. /\ Head(q.todo) = q.todo[1] /\ rest \in Seq(Acts)
      /\ \A i \in 1 .. Len(rest) : rest[i] = q.todo[i + 1] /\ i + 1 \in 1 .. Len(q.todo)
      /\ rest = << >> => Len(q.todo) = 1
      /\ rest # << >> => rest[Len(rest)] = q.todo[Len(q.todo)]
  BY <1>1, TailOfTodo
<1> HIDE DEF rest
<1>3. CASE rest = << >>
  <2>1. next = Answer(reply)
    BY <1>3 DEF After
  <2>2. Answer(reply).reply = reply
    BY DEF Answer, Idle
  <2>3. Answer(reply) \in Record /\ (\A u : Sound(Answer(reply), u, k)) /\ Answer(reply).at = "idle"
    BY AnswerSound
  <2> QED BY <1>1, <1>2, <1>3, <2>1, <2>2, <2>3 DEF rest
<1>4. CASE rest # << >>
  <2>1. next = [q EXCEPT !.todo = rest]
    BY <1>4 DEF After
  <2>2. /\ next \in Record /\ next.at = "rmtree" /\ next.op = "rmtree" /\ next.path = q.path
        /\ next.todo = rest
    BY <1>1, <1>2, <2>1 DEF Record
  <2> HIDE DEF next
  <2>3. \A i \in 1 .. Len(rest) : IsPrefix(q.path, rest[i][2])
    BY <1>1, <1>2
  <2>4. rest[Len(rest)][2] = q.path
    BY <1>1, <1>2, <1>4
  <2>5. \A u : Sound(next, u, k)
    BY <1>2, <1>4, <2>2, <2>3, <2>4 DEF Sound
  <2> QED BY <2>2, <2>5 DEF next, rest
<1> QED BY <1>3, <1>4

\* Reading a directory puts its names before the directory itself.
LEMMA VisitSound ==
  ASSUME FilesInv, NEW r \in Requests, req[r].at = "rmtree"
  PROVE  LET q == req[r]
             p == Head(q.todo)[2]
             order == SetToSeq(Children(p))
             names == [i \in DOMAIN order |-> <<"visit", order[i]>>]
             next == [q EXCEPT !.todo = names \o <<<<"rmdir", p>>>> \o Tail(q.todo)]
         IN  next \in Record /\ Sound(next, fs, Len(zips)) /\ next.at = "rmtree"
<1> DEFINE q == req[r]
           h == Head(q.todo)
           p == h[2]
           order == SetToSeq(Children(p))
           names == [i \in DOMAIN order |-> <<"visit", order[i]>>]
           self == <<<<"rmdir", p>>>>
           rest == Tail(q.todo)
           first == names \o self
           todo == first \o rest
           next == [q EXCEPT !.todo = todo]
<1>1. /\ q \in Record /\ q.path \in Paths /\ q.op = "rmtree"
      /\ q.todo \in Seq(Acts) /\ q.todo # << >>
      /\ \A i \in 1 .. Len(q.todo) : IsPrefix(q.path, q.todo[i][2])
      /\ q.todo[Len(q.todo)][2] = q.path
  BY FileFacts DEF Sound
<1>2. /\ h \in Acts /\ h = q.todo[1] /\ rest \in Seq(Acts) /\ Len(q.todo) \in Nat \ {0}
      /\ \A i \in 1 .. Len(rest) : rest[i] = q.todo[i + 1] /\ i + 1 \in 1 .. Len(q.todo)
      /\ rest = << >> => Len(q.todo) = 1
      /\ rest # << >> => rest[Len(rest)] = q.todo[Len(q.todo)]
  BY <1>1, TailOfTodo
<1>3. p \in Paths /\ IsPrefix(q.path, p)
  <2>1. 1 \in 1 .. Len(q.todo)
    BY <1>2
  <2> QED BY <1>1, <1>2, <2>1 DEF Acts
<1>4. order \in Seq(Children(p)) /\ order \in Seq(Paths)
  BY <1>3, ChildrenInOrder
<1>5. \A x \in Children(p) : x \in Paths /\ x # << >> /\ IsPrefix(q.path, x)
  BY <1>1, <1>3, ChildBelow DEF Children
<1> HIDE DEF rest, q, h, p, order
<1>6. /\ names \in Seq(Acts) /\ Len(names) = Len(order)
      /\ \A i \in 1 .. Len(names) : IsPrefix(q.path, names[i][2])
  <2>1. DOMAIN order = 1 .. Len(order) /\ Len(order) \in Nat
    BY <1>4, LenProperties
  <2>2. ASSUME NEW i \in 1 .. Len(order)
        PROVE  order[i] \in Paths /\ IsPrefix(q.path, order[i]) /\ <<"visit", order[i]>> \in Acts
    <3>1. order[i] \in Children(p)
      BY <1>4, ElementOfSeq
    <3> QED BY <1>5, <3>1 DEF Acts
  <2>3. names \in [1 .. Len(order) -> Acts]
    BY <2>1, <2>2
  <2>4. names \in Seq(Acts) /\ Len(names) = Len(order)
    BY <2>1, <2>3
  <2>5. \A i \in 1 .. Len(order) : names[i] = <<"visit", order[i]>>
    BY <2>1
  <2>6. \A i \in 1 .. Len(order) : names[i][2] = order[i]
    BY <2>5
  <2> HIDE DEF names
  <2> QED BY <2>2, <2>4, <2>6
<1>7. self \in Seq(Acts) /\ Len(self) = 1 /\ self[1][2] = p
  <2>1. <<"rmdir", p>> \in Acts
    BY <1>3 DEF Acts
  <2>2. self \in Seq(Acts)
    BY <2>1
  <2>3. Len(self) = 1 /\ self[1] = <<"rmdir", p>>
    OBVIOUS
  <2> QED BY <2>2, <2>3
<1> HIDE DEF names, self
<1>8. /\ first \in Seq(Acts) /\ Len(first) = Len(names) + 1 /\ Len(names) \in Nat
      /\ \A i \in 1 .. Len(first) : IsPrefix(q.path, first[i][2])
      /\ first[Len(first)][2] = p
  <2>1. /\ first \in Seq(Acts) /\ Len(first) = Len(names) + 1 /\ Len(names) \in Nat
        /\ \A i \in 1 .. Len(names) + 1 :
              first[i] = IF i <= Len(names) THEN names[i] ELSE self[i - Len(names)]
    <3>1. /\ first \in Seq(Acts) /\ Len(first) = Len(names) + Len(self)
          /\ \A i \in 1 .. Len(names) + Len(self) :
                first[i] = IF i <= Len(names) THEN names[i] ELSE self[i - Len(names)]
      BY <1>6, <1>7, ConcatProperties
    <3>2. Len(names) \in Nat
      BY <1>6, LenProperties
    <3> HIDE DEF first
    <3> QED BY <1>7, <3>1, <3>2
  <2> HIDE DEF first
  <2>2. ASSUME NEW i \in 1 .. Len(first) PROVE IsPrefix(q.path, first[i][2])
    <3>1. CASE i <= Len(names)
      BY <1>6, <2>1, <3>1
    <3>2. CASE ~(i <= Len(names))
      <4>1. i - Len(names) = 1
        BY <2>1, <3>2
      <4> QED BY <1>3, <1>7, <2>1, <3>2, <4>1
    <3> QED BY <3>1, <3>2
  <2>3. first[Len(first)][2] = p
    <3>1. Len(first) \in 1 .. Len(names) + 1 /\ ~(Len(first) <= Len(names)) /\ Len(first) - Len(names) = 1
      BY <2>1
    <3> QED BY <1>7, <2>1, <3>1
  <2> QED BY <2>1, <2>2, <2>3
<1> HIDE DEF first
<1>9. /\ todo \in Seq(Acts) /\ todo # << >>
      /\ \A i \in 1 .. Len(todo) : IsPrefix(q.path, todo[i][2])
      /\ todo[Len(todo)][2] = q.path
  <2>1. /\ todo \in Seq(Acts) /\ Len(todo) = Len(first) + Len(rest) /\ Len(rest) \in Nat
        /\ \A i \in 1 .. Len(first) + Len(rest) :
              todo[i] = IF i <= Len(first) THEN first[i] ELSE rest[i - Len(first)]
    BY <1>2, <1>8, ConcatProperties, LenProperties
  <2> HIDE DEF todo
  <2>2. Len(first) \in Nat \ {0}
    BY <1>8
  <2>3. todo # << >>
    BY <2>1, <2>2
  <2>4. ASSUME NEW i \in 1 .. Len(todo) PROVE IsPrefix(q.path, todo[i][2])
    <3>1. CASE i <= Len(first)
      BY <1>8, <2>1, <2>2, <3>1
    <3>2. CASE ~(i <= Len(first))
      <4>1. i - Len(first) \in 1 .. Len(rest)
        BY <2>1, <2>2, <3>2
      <4>2. rest[i - Len(first)] = q.todo[i - Len(first) + 1] /\ i - Len(first) + 1 \in 1 .. Len(q.todo)
        BY <1>2, <4>1
      <4> QED BY <1>1, <2>1, <3>2, <4>2
    <3> QED BY <3>1, <3>2
  <2>5. todo[Len(todo)][2] = q.path
    <3>1. CASE rest = << >>
      <4>1. Len(todo) = Len(first) /\ Len(first) \in 1 .. Len(first) + Len(rest)
        BY <2>1, <2>2, <3>1
      <4>2. todo[Len(todo)][2] = p
        BY <1>8, <2>1, <4>1
      <4>3. q.todo[1][2] = q.path
        BY <1>1, <1>2, <3>1
      <4> QED BY <1>2, <4>2, <4>3 DEF p
    <3>2. CASE rest # << >>
      <4>1. Len(rest) \in Nat \ {0}
        BY <1>2, <3>2, EmptySeq
      <4>2. /\ Len(todo) \in 1 .. Len(first) + Len(rest) /\ ~(Len(todo) <= Len(first))
            /\ Len(todo) - Len(first) = Len(rest)
        BY <2>1, <2>2, <4>1
      <4>3. todo[Len(todo)] = rest[Len(rest)]
        BY <2>1, <4>2
      <4> QED BY <1>1, <1>2, <3>2, <4>3
    <3> QED BY <3>1, <3>2
  <2> QED BY <2>1, <2>3, <2>4, <2>5
<1> HIDE DEF todo
<1>10. /\ next \in Record /\ next.at = "rmtree" /\ next.op = "rmtree" /\ next.path = q.path
       /\ next.todo = todo
  <2>1. q.at = "rmtree"
    BY DEF q
  <2> QED BY <1>1, <1>9, <2>1 DEF Record
<1> HIDE DEF next
<1>11. Sound(next, fs, Len(zips))
  BY <1>9, <1>10 DEF Sound
<1> QED BY <1>10, <1>11 DEF next, todo, first, self, names, order, p, h, q, rest
\* One call of os.RemoveAll.
LEMMA RemoveAllStepCorrect ==
  ASSUME FilesInv, NEW r \in Requests, RemoveAllStep(r)
  PROVE  Correct(r)
<1> DEFINE q == req[r]
           act == Head(q.todo)[1]
           p == Head(q.todo)[2]
           rest == Tail(q.todo)
           next(reply) == After(q, rest, reply)
           order == SetToSeq(Children(p))
           names == [i \in DOMAIN order |-> <<"visit", order[i]>>]
           seen == [q EXCEPT !.todo = names \o <<<<"rmdir", p>>>> \o rest]
           u == [fs EXCEPT ![p] = None]
<1>1. /\ fs \in FileTree /\ Rooted(fs) /\ q \in Record /\ Sound(q, fs, Len(zips))
      /\ q.path \in Paths /\ \A x \in Paths : fs[x] \in Entry
  BY FileFacts
<1>2. q.at = "rmtree"
  BY DEF RemoveAllStep
<1>3. /\ q.op = "rmtree" /\ q.todo \in Seq(Acts) /\ q.todo # << >>
      /\ \A i \in 1 .. Len(q.todo) : IsPrefix(q.path, q.todo[i][2])
  BY <1>1, <1>2 DEF Sound
<1>4. p \in Paths /\ IsPrefix(q.path, p)
  <2>1. Head(q.todo) \in Acts /\ Head(q.todo) = q.todo[1] /\ Len(q.todo) \in Nat \ {0}
    BY <1>3, TailOfTodo
  <2>2. 1 \in 1 .. Len(q.todo)
    BY <2>1
  <2> QED BY <1>3, <2>1, <2>2 DEF Acts
<1>5. Aside(r)
  BY <1>2, StepAside DEF RemoveAllStep
<1>6. \/ fs[p] = None /\ Proceed(r, next("ok"))
      \/ Proceed(r, seen)
      \/ (IsFile(p) \/ Children(p) = {}) /\ Change(r, u, next("ok"))
      \/ Proceed(r, next("error"))
  BY DEF RemoveAllStep, After
<1>7. \A reply \in {"ok", "error"} :
        /\ next(reply) \in Record /\ \A t : Sound(next(reply), t, Len(zips))
        /\ next(reply).at \in {"idle", "rmtree"}
        /\ next(reply).at = "idle" => p = q.path /\ next(reply).reply = reply
  BY <1>1, <1>2, AfterSound
<1>8. seen \in Record /\ Sound(seen, fs, Len(zips)) /\ seen.at = "rmtree"
  BY <1>2, VisitSound
<1> HIDE DEF next, seen
<1>9. ASSUME NEW t \in FileTree, Rooted(t), t[p] = None, fs' = t, req'[r] = next("ok")
      PROVE  Done(r)
  <2>1. /\ ~Answered(r, "upload") /\ ~Answered(r, "content") /\ ~Answered(r, "mkdir")
        /\ ~Answered(r, "delete") /\ ~Answered(r, "rmdir")
    BY <1>3 DEF Answered
  <2>2. ASSUME Answered(r, "rmtree"), NEW x \in Paths, IsPrefix(q.path, x) PROVE fs'[x] = None
    <3>1. p = q.path
      BY <1>7, <1>9, <2>2 DEF Answered
    <3> QED BY <1>1, <1>9, <2>2, <3>1, GoneBelow
  <2> QED BY <2>1, <2>2 DEF Done
<1>10. CASE fs[p] = None /\ Proceed(r, next("ok"))
  <2>1. fs' = fs /\ req'[r] = next("ok")
    BY <1>10 DEF Proceed, FilesInv, TypeOK
  <2>2. Tidy(r)
    BY <1>1, <1>7, <1>10 DEF Tidy, Moves
  <2>3. Asked(r)
    BY <2>1 DEF Asked
  <2>4. Done(r)
    BY <1>1, <1>9, <1>10, <2>1
  <2> QED BY <1>5, <2>2, <2>3, <2>4 DEF Correct
<1>11. CASE Proceed(r, seen)
  BY <1>5, <1>8, <1>11, ProceedCorrect
<1>12. CASE (IsFile(p) \/ Children(p) = {}) /\ Change(r, u, next("ok"))
  <2>1. u \in FileTree /\ Rooted(u)
    <3>1. fs[p] # Dir \/ Children(p) = {}
      BY <1>1, <1>4, <1>12, EntryKinds DEF IsFile
    <3> QED BY <1>1, <1>4, <3>1, RootedRemove
  <2>2. /\ Moves(r, u, next("ok")) /\ req'[r] = next("ok")
        /\ fs'[p] = None /\ \A x \in Paths : fs'[x] # fs[x] => x = p
    BY <1>4, <1>12, EntryKinds, OnePathChanged
  <2>3. fs' = u
    BY <1>12 DEF Change
  <2>4. Explains(r, p)
    BY <1>3, <1>4, <2>2 DEF Explains
  <2> HIDE DEF u
  <2>5. Tidy(r)
    BY <1>7, <2>1, <2>2 DEF Tidy
  <2>6. Asked(r)
    BY <1>2, <2>2, <2>4 DEF Asked
  <2>7. Done(r)
    BY <1>9, <2>1, <2>2, <2>3
  <2> QED BY <1>5, <2>5, <2>6, <2>7 DEF Correct
<1>13. CASE Proceed(r, next("error"))
  BY <1>1, <1>5, <1>7, <1>13, ProceedCorrect
<1> QED BY <1>6, <1>10, <1>11, <1>12, <1>13

\* A call that fails outside a backup.
LEMMA CallFailsCorrect ==
  ASSUME FilesInv, NEW r \in Requests, CallFails(r), req[r].op # "backup"
  PROVE  Correct(r)
<1> DEFINE q == req[r]
<1>1. q \in Record /\ Sound(q, fs, Len(zips))
  BY FileFacts
<1>2. q.at \notin {"zip", "walk"}
  BY <1>1 DEF Sound
<1>3. Aside(r)
  BY <1>2, StepAside DEF CallFails
<1>4. \/ Proceed(r, Answer("error"))
      \/ q.at = "rmtree" /\ Len(q.todo) > 1 /\ Proceed(r, [q EXCEPT !.todo = Tail(q.todo)])
  BY DEF CallFails
<1>5. CASE Proceed(r, Answer("error"))
  BY <1>3, <1>5, FailCorrect
<1>6. CASE q.at = "rmtree" /\ Len(q.todo) > 1 /\ Proceed(r, [q EXCEPT !.todo = Tail(q.todo)])
  <2> DEFINE next == After(q, Tail(q.todo), "error")
  <2>1. q.todo \in Seq(Acts) /\ q.todo # << >>
    BY <1>1, <1>6 DEF Sound
  <2>2. Tail(q.todo) # << >>
    <3>1. Len(Tail(q.todo)) = Len(q.todo) - 1 /\ Len(q.todo) \in Nat
      BY <2>1, HeadTailProperties, LenProperties
    <3> QED BY <1>6, <3>1
  <2>3. Proceed(r, next)
    BY <1>6, <2>2 DEF After
  <2>4. /\ next \in Record /\ Sound(next, fs, Len(zips)) /\ next.at \in {"idle", "rmtree"}
        /\ next.at = "idle" => next.reply = "error"
    BY <1>1, <1>6, AfterSound
  <2> HIDE DEF next
  <2> QED BY <1>3, <2>3, <2>4, ProceedCorrect
<1> QED BY <1>4, <1>5, <1>6

-----------------------------------------------------------------------------
\* A step of the file manager that is no step of a backup.
FileStep(r) ==
  \/ HandleUpdateSiteContent(r) \/ HandleUploadSiteFile(r) \/ HandleDeleteSiteFile(r)
  \/ HandleCreateSiteDir(r) \/ HandleDeleteSiteDir(r)
  \/ EnsureParent(r) \/ MkdirStep(r) \/ OpenFile(r) \/ WriteFile(r) \/ WriteFails(r)
  \/ RemoveStep(r) \/ RemoveAllStep(r) \/ (req[r].op # "backup" /\ CallFails(r))

\* All of them do what is asked, say the truth and keep the tree rooted.
LEMMA FileStepCorrect ==
  ASSUME FilesInv, NEW r \in Requests, FileStep(r)
  PROVE  Correct(r)
<1>1. CASE \/ HandleUpdateSiteContent(r) \/ HandleUploadSiteFile(r) \/ HandleDeleteSiteFile(r)
           \/ HandleCreateSiteDir(r) \/ HandleDeleteSiteDir(r)
  BY <1>1, UpdateSiteContentCorrect, UploadSiteFileCorrect, DeleteSiteFileCorrect,
     CreateSiteDirectoryCorrect, DeleteSiteDirectoryCorrect
     DEF HandleUpdateSiteContent, HandleUploadSiteFile, HandleDeleteSiteFile,
         HandleCreateSiteDir, HandleDeleteSiteDir
<1>2. CASE \/ EnsureParent(r) \/ MkdirStep(r) \/ OpenFile(r) \/ WriteFile(r) \/ WriteFails(r)
           \/ RemoveStep(r) \/ RemoveAllStep(r) \/ (req[r].op # "backup" /\ CallFails(r))
  BY <1>2, EnsureParentCorrect, MkdirStepCorrect, OpenFileCorrect, WriteCorrect,
     RemoveStepCorrect, RemoveAllStepCorrect, CallFailsCorrect
<1> QED BY <1>1, <1>2 DEF FileStep
-----------------------------------------------------------------------------
(* Content backups.                                                          *)

\* What SavedIsFinal and BackupComplete say of a step of r.
Final == \A s \in 1 .. MaxOps : saved[s] # 0 /\ begun[s] = 1 =>
  saved'[s] = saved[s] /\ zips'[saved[s]] = zips[saved[s]]
Complete(r) == Answered(r, "backup") =>
  LET s == req[r].second IN begun[s] = 1 =>
  /\ saved'[s] # 0
  /\ \A p \in Below : p \notin req[r].touched => zips'[saved'[s]][p] = fs[p]
Safe(r) == BackupInv' /\ Final /\ Complete(r)

\* Steps on the document root only show in what the walks have seen change.
LEMMA FileStepSafe ==
  ASSUME BackupInv, NEW r \in Requests, FileStep(r)
  PROVE  Safe(r)
<1>1. FilesInv /\ OwnersApart /\ SecondsSound /\ WalkSound
  BY DEF BackupInv
<1>2. Aside(r) /\ Tidy(r)
  BY <1>1, FileStepCorrect DEF Correct
<1>3. PICK u \in FileTree, next \in Record :
        Moves(r, u, next) /\ Rooted(u) /\ Sound(next, u, Len(zips)) /\ next.at \notin {"zip", "walk"}
  BY <1>2 DEF Tidy
<1>4. FilesInv' /\ UNCHANGED <<zips, tmp, saved, begun>> /\ req[r].at \notin {"zip", "walk"}
  BY <1>1, <1>2, <1>3, FileMoveKeeps DEF Aside, archiveVars, clockVars
<1>5. /\ fs' = u /\ req'[r] = next
      /\ \A q \in Requests \ {r} : req'[q] = Seen(req[q], fs, u) \/ (u = fs /\ req'[q] = req[q])
  BY <1>1, <1>3, MoveEffect DEF FilesInv
<1>6. fs \in FileTree /\ Len(zips) \in Nat /\ \A q \in Requests : req[q] \in Record /\ Sound(req[q], fs, Len(zips))
  BY <1>1, LenProperties DEF FilesInv, TypeOK
<1>7. ASSUME NEW q \in Requests, req'[q].at \in {"zip", "walk"}
      PROVE  /\ req'[q].at = req[q].at /\ req'[q].second = req[q].second
             /\ req'[q].zip = req[q].zip /\ req'[q].todo = req[q].todo
             /\ \A p \in Paths : p \notin req'[q].touched => u[p] = fs[p] /\ p \notin req[q].touched
  <2>1. q # r
    BY <1>3, <1>5, <1>7
  <2>2. CASE u = fs /\ req'[q] = req[q]
    BY <2>2
  <2>3. CASE req'[q] = Seen(req[q], fs, u)
    <3>1. /\ req'[q].at = req[q].at /\ req'[q].second = req[q].second
          /\ req'[q].zip = req[q].zip /\ req'[q].todo = req[q].todo
          /\ req[q].at # "idle" => req'[q].touched = req[q].touched \cup {p \in Paths : u[p] # fs[p]}
      BY <1>6, <2>3, SeenSound
    <3>2. req[q].at # "idle"
      BY <1>7, <3>1
    <3> QED BY <3>1, <3>2
  <2> QED BY <1>5, <2>1, <2>2, <2>3
<1>8. \A q \in Requests, s \in 1 .. MaxOps : Backing(q, s)' => Backing(q, s)
  BY <1>7 DEF Backing
<1>9. OwnersApart'
  <2>1. \A i \in 1 .. Len(zips), s \in 1 .. MaxOps : Owns(i, s)' => Owns(i, s)
    BY <1>4, <1>7 DEF Owns
  <2> QED BY <1>1, <1>4, <2>1 DEF OwnersApart
<1>10. SecondsSound'
  BY <1>1, <1>4, <1>8 DEF SecondsSound
<1>11. WalkSound'
  <2> SUFFICES ASSUME NEW q \in Requests, req'[q].at = "walk", begun'[req'[q].second] = 1
               PROVE  /\ tmp'[req'[q].second] = req'[q].zip
                      /\ Archived(zips'[req'[q].zip], req'[q], fs')
    BY DEF WalkSound, Archived
  <2>1. /\ req[q].at = "walk" /\ req'[q].second = req[q].second
        /\ req'[q].zip = req[q].zip /\ req'[q].todo = req[q].todo
        /\ \A p \in Paths : p \notin req'[q].touched => u[p] = fs[p] /\ p \notin req[q].touched
    BY <1>7
  <2>2. tmp[req[q].second] = req[q].zip /\ Archived(zips[req[q].zip], req[q], fs)
    BY <1>1, <1>4, <2>1 DEF WalkSound
  <2>3. \A p \in Below : p \in Paths
    BY DEF Below
  <2> QED BY <1>4, <1>5, <2>1, <2>2, <2>3 DEF Archived
<1>12. ~Answered(r, "backup")
  <2>1. ASSUME req[r].op = "backup" PROVE req[r].at = "idle"
    BY <1>4, <1>6, <2>1 DEF Sound, Record, Writers
  <2> QED BY <2>1 DEF Answered
<1> QED BY <1>4, <1>9, <1>10, <1>11, <1>12 DEF Safe, BackupInv, Final, Complete

\* What is known of a request that backs up.
LEMMA BackingFacts ==
  ASSUME BackupInv, NEW r \in Requests, req[r].at \in {"zip", "walk"}
  PROVE  /\ req[r] \in Record /\ req[r].op = "backup" /\ req[r].second \in 1 .. MaxOps
         /\ req[r].path \in Paths /\ req[r].touched \in SUBSET Paths
         /\ Backing(r, req[r].second) /\ begun[req[r].second] \in Nat \ {0}
         /\ req[r].at = "walk" => /\ req[r].todo \in Seq(Paths) /\ req[r].zip \in 1 .. Len(zips)
                                  /\ Owns(req[r].zip, req[r].second)
         /\ zips \in Seq(FileTree) /\ Len(zips) \in Nat
         /\ tmp \in [1 .. MaxOps -> Nat] /\ saved \in [1 .. MaxOps -> Nat]
<1>1. /\ req[r] \in Record /\ Sound(req[r], fs, Len(zips)) /\ zips \in Seq(FileTree)
      /\ tmp \in [1 .. MaxOps -> Nat] /\ saved \in [1 .. MaxOps -> Nat]
      /\ begun \in [1 .. MaxOps -> Nat]
  BY DEF BackupInv, FilesInv, TypeOK, CountersOK
<1>2. /\ req[r].op = "backup" /\ req[r].second \in 1 .. MaxOps
      /\ req[r].at = "walk" => req[r].todo \in Seq(Paths) /\ req[r].zip \in 1 .. Len(zips)
  BY <1>1 DEF Sound
<1>3. Backing(r, req[r].second)
  BY DEF Backing
<1>4. begun[req[r].second] # 0
  BY <1>2, <1>3 DEF BackupInv, SecondsSound
<1>5. Len(zips) \in Nat
  BY <1>1, LenProperties
<1>6. req[r].at = "walk" => Owns(req[r].zip, req[r].second)
  BY DEF Owns
<1>7. req[r].path \in Paths /\ req[r].touched \in SUBSET Paths
  BY <1>1 DEF Record
<1> QED BY <1>1, <1>2, <1>3, <1>4, <1>5, <1>6, <1>7

\* Where a single backup began in a second, no other request is at its files.
LEMMA OthersElsewhere ==
  ASSUME BackupInv, NEW r \in Requests, req[r].at \in {"zip", "walk"},
         NEW q \in Requests \ {r}, req[q].at = "walk", begun[req[q].second] = 1
  PROVE  /\ req[q].second # req[r].second /\ req[q].second \in 1 .. MaxOps
         /\ req[q].zip # tmp[req[r].second]
         /\ req[r].at = "walk" => req[q].zip # req[r].zip
         /\ req[q].zip \in 1 .. Len(zips)
<1>1. /\ Backing(q, req[q].second) /\ req[q].second \in 1 .. MaxOps
      /\ Owns(req[q].zip, req[q].second) /\ req[q].zip \in 1 .. Len(zips)
  BY BackingFacts
<1>2. Backing(r, req[r].second) /\ req[r].second \in 1 .. MaxOps
      /\ (req[r].at = "walk" => Owns(req[r].zip, req[r].second))
  BY BackingFacts
<1>3. req[q].second # req[r].second
  BY <1>1, <1>2 DEF BackupInv, SecondsSound
<1>4. req[q].zip # tmp[req[r].second]
  <2>1. Owns(tmp[req[r].second], req[r].second)
    BY DEF Owns
  <2> QED BY <1>1, <1>2, <1>3, <2>1 DEF BackupInv, OwnersApart
<1>5. req[r].at = "walk" => req[q].zip # req[r].zip
  BY <1>1, <1>2, <1>3 DEF BackupInv, OwnersApart
<1> QED BY <1>1, <1>3, <1>4, <1>5

\* Nor is it at an archive that has its final name.
LEMMA SavedElsewhere ==
  ASSUME BackupInv, NEW r \in Requests, req[r].at \in {"zip", "walk"},
         NEW s \in 1 .. MaxOps, saved[s] # 0, begun[s] = 1
  PROVE  /\ s # req[r].second /\ saved[s] \in 1 .. Len(zips)
         /\ saved[s] # tmp[req[r].second]
         /\ req[r].at = "walk" => saved[s] # req[r].zip
<1>1. /\ Backing(r, req[r].second) /\ req[r].second \in 1 .. MaxOps
      /\ (req[r].at = "walk" => Owns(req[r].zip, req[r].second))
      /\ Len(zips) \in Nat /\ saved[s] \in Nat
  BY BackingFacts
<1>2. s # req[r].second
  BY <1>1 DEF BackupInv, SecondsSound
<1>3. saved[s] \in 1 .. Len(zips)
  BY <1>1 DEF BackupInv, OwnersApart
<1>4. Owns(saved[s], s) /\ Owns(tmp[req[r].second], req[r].second)
  BY DEF Owns
<1> QED BY <1>1, <1>2, <1>3, <1>4 DEF BackupInv, OwnersApart

\* A step that leaves the files alone changes one record.
LEMMA ProceedEffect ==
  ASSUME BackupInv, NEW r \in Requests, NEW next, Proceed(r, next)
  PROVE  /\ fs' = fs /\ fs \in FileTree /\ Rooted(fs) /\ Moves(r, fs, next)
         /\ req'[r] = next /\ \A q \in Requests \ {r} : req'[q] = req[q]
BY DEF BackupInv, FilesInv, TypeOK, Proceed, Moves

\* A backup begins.
LEMMA BackupBegins ==
  ASSUME BackupInv, NEW r \in Requests, BackupSiteContent(r)
  PROVE  Safe(r) /\ fs' = fs
<1>1. /\ FilesInv /\ CountersOK /\ OwnersApart /\ SecondsSound /\ WalkSound
      /\ MaxOps \in Nat /\ << >> \in Paths
  BY PathsAssumption, BoundsAssumption DEF BackupInv, FilesInv, TypeOK
<1>2. /\ req[r].at = "idle" /\ ops < MaxOps /\ ops' = ops + 1
      /\ UNCHANGED <<zips, tmp, saved, faults>>
  BY DEF BackupSiteContent, New, archiveVars
<1> DEFINE w == Working("backup", << >>, "zip")
<1>3. PICK s \in {now + 1} \cup ({now} \ {0}) :
        /\ now' = s /\ begun' = [begun EXCEPT ![s] = @ + 1]
        /\ Proceed(r, [w EXCEPT !.second = s])
  BY DEF BackupSiteContent
<1> DEFINE next == [w EXCEPT !.second = s]
<1>4. s \in 1 .. MaxOps /\ s \in Nat /\ s <= ops'
  BY <1>1, <1>2 DEF CountersOK
<1>5. CountersOK'
  BY <1>1, <1>2, <1>3, <1>4 DEF CountersOK
<1>6. w \in Record /\ w.op = "backup" /\ w.at = "zip"
  BY <1>1, WorkingRecord
<1> HIDE DEF w
<1>7. next \in Record /\ next.op = "backup" /\ next.at = "zip" /\ next.second = s
  BY <1>4, <1>6 DEF Record
<1> HIDE DEF next
<1>8. Sound(next, fs, Len(zips))
  BY <1>4, <1>7 DEF Sound
<1>9. /\ fs' = fs /\ fs \in FileTree /\ Rooted(fs) /\ Moves(r, fs, next)
      /\ req'[r] = next /\ \A q \in Requests \ {r} : req'[q] = req[q]
  BY <1>3, ProceedEffect DEF next
<1>10. FilesInv'
  BY <1>1, <1>2, <1>5, <1>7, <1>8, <1>9, FileMoveKeeps DEF archiveVars
<1>11. begun'[s] = begun[s] + 1 /\ begun[s] \in Nat /\ \A t \in 1 .. MaxOps \ {s} : begun'[t] = begun[t]
  BY <1>1, <1>3, <1>4 DEF CountersOK
<1>12. OwnersApart'
  <2>1. \A i \in 1 .. Len(zips), t \in 1 .. MaxOps : Owns(i, t)' => Owns(i, t)
    BY <1>2, <1>7, <1>9 DEF Owns
  <2> QED BY <1>1, <1>2, <2>1 DEF OwnersApart
<1>13. \A q \in Requests, t \in 1 .. MaxOps : Backing(q, t)' => Backing(q, t) \/ (q = r /\ t = s)
  BY <1>7, <1>9 DEF Backing
<1>14. SecondsSound'
  <2>1. ASSUME NEW t \in 1 .. MaxOps, begun'[t] = 0
        PROVE  tmp'[t] = 0 /\ saved'[t] = 0 /\ \A q \in Requests : ~Backing(q, t)'
    <3>1. t # s /\ begun[t] = 0
      BY <1>11, <2>1
    <3> QED BY <1>1, <1>2, <1>13, <3>1 DEF SecondsSound
  <2>2. ASSUME NEW t \in 1 .. MaxOps, begun'[t] = 1
        PROVE  /\ \A p, q \in Requests : Backing(p, t)' /\ Backing(q, t)' => p = q
               /\ saved'[t] # 0 => \A q \in Requests : ~Backing(q, t)'
    <3>1. CASE t = s
      <4>1. begun[t] = 0
        BY <1>11, <2>2, <3>1
      <4>2. saved[t] = 0 /\ \A q \in Requests : ~Backing(q, t)
        BY <1>1, <4>1 DEF SecondsSound
      <4> QED BY <1>2, <1>13, <4>2
    <3>2. CASE t # s
      <4>1. begun[t] = 1
        BY <1>11, <2>2, <3>2
      <4> QED BY <1>1, <1>2, <1>13, <3>2, <4>1 DEF SecondsSound
    <3> QED BY <3>1, <3>2
  <2> QED BY <2>1, <2>2 DEF SecondsSound
<1>15. WalkSound'
  <2> SUFFICES ASSUME NEW q \in Requests, req'[q].at = "walk", begun'[req'[q].second] = 1
               PROVE  /\ tmp'[req'[q].second] = req'[q].zip
                      /\ Archived(zips'[req'[q].zip], req'[q], fs')
    BY DEF WalkSound, Archived
  <2>1. q # r /\ req'[q] = req[q]
    BY <1>7, <1>9
  <2>2. /\ req[q].second \in 1 .. MaxOps /\ Backing(q, req[q].second)
        /\ begun[req[q].second] \in Nat \ {0}
    BY <2>1, BackingFacts
  <2>3. begun[req[q].second] = 1
    BY <1>11, <2>1, <2>2
  <2> QED BY <1>1, <1>2, <1>9, <2>1, <2>3 DEF WalkSound
<1>16. Final /\ ~Answered(r, "backup")
  BY <1>2 DEF Final, Answered
<1> QED BY <1>9, <1>10, <1>12, <1>14, <1>15, <1>16 DEF Safe, BackupInv, Complete

\* A backup fails and removes its temporary file, or whatever has that name.
LEMMA BackupFailsSafe ==
  ASSUME BackupInv, NEW r \in Requests, req[r].at \in {"zip", "walk"}, BackupFails(r), CountersOK',
         begun' = begun
  PROVE  Safe(r) /\ fs' = fs
<1> DEFINE s == req[r].second
           next == Answer("error")
<1>1. FilesInv /\ OwnersApart /\ SecondsSound /\ WalkSound
  BY DEF BackupInv
<1>2. /\ s \in 1 .. MaxOps /\ Backing(r, s) /\ zips \in Seq(FileTree) /\ Len(zips) \in Nat
      /\ tmp \in [1 .. MaxOps -> Nat] /\ saved \in [1 .. MaxOps -> Nat]
  BY BackingFacts
<1>3. tmp' = [tmp EXCEPT ![s] = 0] /\ zips' = zips /\ saved' = saved
  BY DEF BackupFails
<1>4. /\ tmp' \in [1 .. MaxOps -> Nat] /\ tmp'[s] = 0
      /\ \A t \in 1 .. MaxOps \ {s} : tmp'[t] = tmp[t]
  BY <1>2, <1>3
<1>5. /\ next \in Record /\ next.at = "idle" /\ Sound(next, fs, Len(zips))
      /\ next.reply = "error"
  BY AnswerSound DEF Answer, Idle
<1>6. /\ fs' = fs /\ fs \in FileTree /\ Rooted(fs) /\ Moves(r, fs, next)
      /\ req'[r] = next /\ \A q \in Requests \ {r} : req'[q] = req[q]
  BY ProceedEffect DEF BackupFails
<1> HIDE DEF next
<1>7. FilesInv'
  BY <1>1, <1>2, <1>3, <1>4, <1>5, <1>6, MoveKeeps
<1>8. \A q \in Requests, t \in 1 .. MaxOps : Backing(q, t)' => Backing(q, t)
  BY <1>5, <1>6 DEF Backing
<1> HIDE DEF s
<1>9. OwnersApart'
  <2>1. \A i \in 1 .. Len(zips), t \in 1 .. MaxOps : Owns(i, t)' => Owns(i, t)
    BY <1>3, <1>4, <1>5, <1>6 DEF Owns
  <2>2. \A t \in 1 .. MaxOps : tmp'[t] <= Len(zips)
    BY <1>1, <1>2, <1>4 DEF OwnersApart
  <2> QED BY <1>1, <1>3, <2>1, <2>2 DEF OwnersApart
<1>10. SecondsSound'
  <2>1. \A t \in 1 .. MaxOps : tmp[t] = 0 => tmp'[t] = 0
    BY <1>4
  <2> QED BY <1>1, <1>3, <1>8, <2>1 DEF SecondsSound
<1>11. WalkSound'
  <2> SUFFICES ASSUME NEW q \in Requests, req'[q].at = "walk", begun'[req'[q].second] = 1
               PROVE  /\ tmp'[req'[q].second] = req'[q].zip
                      /\ Archived(zips'[req'[q].zip], req'[q], fs')
    BY DEF WalkSound, Archived
  <2>1. q # r /\ req'[q] = req[q]
    BY <1>5, <1>6
  <2>2. req[q].second # s /\ req[q].second \in 1 .. MaxOps
    BY <2>1, OthersElsewhere DEF s
  <2> QED BY <1>1, <1>3, <1>4, <1>6, <2>1, <2>2 DEF WalkSound
<1>12. Final /\ ~Answered(r, "backup")
  BY <1>3, <1>5, <1>6 DEF Final, Answered
<1> QED BY <1>6, <1>7, <1>9, <1>10, <1>11, <1>12 DEF Safe, BackupInv, Complete

\* The finished archive gets its final name.
LEMMA RenameZipSafe ==
  ASSUME BackupInv, NEW r \in Requests, RenameZip(r)
  PROVE  Safe(r) /\ fs' = fs
<1> DEFINE s == req[r].second
           next == Answer("ok")
<1>1. FilesInv /\ OwnersApart /\ SecondsSound /\ WalkSound
  BY DEF BackupInv
<1>2. req[r].at = "walk" /\ req[r].todo = << >> /\ begun' = begun
  BY DEF RenameZip, clockVars
<1>3. /\ s \in 1 .. MaxOps /\ Backing(r, s) /\ zips \in Seq(FileTree) /\ Len(zips) \in Nat
      /\ tmp \in [1 .. MaxOps -> Nat] /\ saved \in [1 .. MaxOps -> Nat]
      /\ begun[s] \in Nat \ {0}
  BY <1>2, BackingFacts
<1>4. CountersOK'
  BY <1>1, CountersKept DEF RenameZip
<1>5. CASE BackupFails(r)
  BY <1>2, <1>4, <1>5, BackupFailsSafe
<1>6. CASE /\ tmp[s] # 0 /\ saved' = [saved EXCEPT ![s] = tmp[s]] /\ tmp' = [tmp EXCEPT ![s] = 0]
           /\ Proceed(r, next) /\ zips' = zips
  <2>1. /\ tmp' \in [1 .. MaxOps -> Nat] /\ tmp'[s] = 0
        /\ \A t \in 1 .. MaxOps \ {s} : tmp'[t] = tmp[t]
    BY <1>3, <1>6
  <2>2. /\ saved' \in [1 .. MaxOps -> Nat] /\ saved'[s] = tmp[s]
        /\ \A t \in 1 .. MaxOps \ {s} : saved'[t] = saved[t]
    BY <1>3, <1>6
  <2>3. /\ next \in Record /\ next.at = "idle" /\ Sound(next, fs, Len(zips))
    BY AnswerSound
  <2>4. /\ fs' = fs /\ fs \in FileTree /\ Rooted(fs) /\ Moves(r, fs, next)
        /\ req'[r] = next /\ \A q \in Requests \ {r} : req'[q] = req[q]
    BY <1>6, ProceedEffect
  <2> HIDE DEF next
  <2>5. FilesInv'
    BY <1>1, <1>3, <1>4, <1>6, <2>1, <2>2, <2>3, <2>4, MoveKeeps
  <2>6. \A q \in Requests, t \in 1 .. MaxOps : Backing(q, t)' => q # r /\ Backing(q, t)
    BY <2>3, <2>4 DEF Backing
  <2>7. Final
    <3> SUFFICES ASSUME NEW t \in 1 .. MaxOps, saved[t] # 0, begun[t] = 1
                 PROVE  saved'[t] = saved[t] /\ zips'[saved[t]] = zips[saved[t]]
      BY DEF Final
    <3>1. t # s
      BY <1>2, SavedElsewhere
    <3> QED BY <1>6, <2>2, <3>1
  <2>8. Complete(r)
    <3> SUFFICES ASSUME begun[s] = 1
                 PROVE  /\ saved'[s] # 0
                        /\ \A p \in Below : p \notin req[r].touched => zips'[saved'[s]][p] = fs[p]
      BY DEF Complete
    <3>1. tmp[s] = req[r].zip /\ Archived(zips[req[r].zip], req[r], fs)
      BY <1>1, <1>2 DEF WalkSound
    <3>2. \A p \in Below : p \notin req[r].touched => zips[req[r].zip][p] = fs[p]
      <4>1. Len(req[r].todo) = 0
        BY <1>2
      <4> QED BY <3>1, <4>1 DEF Archived
    <3> QED BY <1>6, <2>2, <3>1, <3>2
  <2> HIDE DEF s
  <2>9. OwnersApart'
    <3>1. \A i \in 1 .. Len(zips), t \in 1 .. MaxOps : Owns(i, t)' => Owns(i, t)
      BY <1>3, <2>1, <2>2, <2>3, <2>4 DEF Owns
    <3>2. \A t \in 1 .. MaxOps : tmp'[t] <= Len(zips) /\ saved'[t] <= Len(zips)
      BY <1>1, <1>3, <2>1, <2>2 DEF OwnersApart
    <3> QED BY <1>1, <1>6, <3>1, <3>2 DEF OwnersApart
  <2>10. SecondsSound'
    <3>1. ASSUME NEW t \in 1 .. MaxOps, begun'[t] = 0
          PROVE  tmp'[t] = 0 /\ saved'[t] = 0 /\ \A q \in Requests : ~Backing(q, t)'
      <4>1. t # s /\ begun[t] = 0
        BY <1>2, <1>3, <3>1
      <4> QED BY <1>1, <2>1, <2>2, <2>6, <4>1 DEF SecondsSound
    <3>2. ASSUME NEW t \in 1 .. MaxOps, begun'[t] = 1
          PROVE  /\ \A p, q \in Requests : Backing(p, t)' /\ Backing(q, t)' => p = q
                 /\ saved'[t] # 0 => \A q \in Requests : ~Backing(q, t)'
      <4>1. begun[t] = 1
        BY <1>2, <3>2
      <4>2. \A p, q \in Requests : Backing(p, t) /\ Backing(q, t) => p = q
        BY <1>1, <4>1 DEF SecondsSound
      <4>3. CASE t = s
        BY <1>3, <2>6, <4>2, <4>3
      <4>4. CASE t # s
        BY <1>1, <2>2, <2>6, <4>1, <4>2, <4>4 DEF SecondsSound
      <4> QED BY <4>3, <4>4
    <3> QED BY <3>1, <3>2 DEF SecondsSound
  <2>11. WalkSound'
    <3> SUFFICES ASSUME NEW q \in Requests, req'[q].at = "walk", begun'[req'[q].second] = 1
                 PROVE  /\ tmp'[req'[q].second] = req'[q].zip
                        /\ Archived(zips'[req'[q].zip], req'[q], fs')
      BY DEF WalkSound, Archived
    <3>1. q # r /\ req'[q] = req[q]
      BY <2>3, <2>4
    <3>2. req[q].second # s /\ req[q].second \in 1 .. MaxOps
      BY <1>2, <3>1, OthersElsewhere DEF s
    <3> QED BY <1>1, <1>2, <1>6, <2>1, <2>4, <3>1, <3>2 DEF WalkSound
  <2> QED BY <2>4, <2>5, <2>7, <2>8, <2>9, <2>10, <2>11 DEF Safe, BackupInv
<1> QED BY <1>5, <1>6 DEF RenameZip
\* Opening the archive empties one file and leaves the others.
LEMMA OpenedEffect ==
  ASSUME zips \in Seq(FileTree), NEW inode \in 1 .. Len(zips) + 1
  PROVE  /\ Opened(inode) \in Seq(FileTree) /\ Len(zips) \in Nat
         /\ Len(Opened(inode)) \in {Len(zips), Len(zips) + 1} /\ inode <= Len(Opened(inode))
         /\ Len(Opened(inode)) = Len(zips) + 1 => inode = Len(zips) + 1
         /\ Opened(inode)[inode] = NoEntries
         /\ \A i \in 1 .. Len(zips) : i # inode => Opened(inode)[i] = zips[i]
<1>1. NoEntries \in FileTree /\ Len(zips) \in Nat
  BY EntryKinds, LenProperties DEF NoEntries, FileTree
<1> HIDE DEF FileTree, NoEntries
<1>2. CASE inode = Len(zips) + 1
  <2>1. Opened(inode) = Append(zips, NoEntries)
    BY <1>2 DEF Opened
  <2> QED BY <1>1, <1>2, <2>1, AppendProperties
<1>3. CASE inode # Len(zips) + 1
  <2>1. Opened(inode) = [zips EXCEPT ![inode] = NoEntries] /\ inode \in 1 .. Len(zips)
    BY <1>1, <1>3 DEF Opened
  <2>2. /\ Opened(inode) \in Seq(FileTree) /\ Len(Opened(inode)) = Len(zips)
        /\ \A j \in 1 .. Len(zips) : Opened(inode)[j] = IF j = inode THEN NoEntries ELSE zips[j]
    BY <1>1, <2>1, ExceptSeq
  <2> DEFINE z == Opened(inode)
  <2>3. z \in Seq(FileTree) /\ Len(z) = Len(zips)
    BY <2>2
  <2>4. \A j \in 1 .. Len(zips) : z[j] = IF j = inode THEN NoEntries ELSE zips[j]
    BY <2>2
  <2>5. inode \in 1 .. Len(zips)
    BY <2>1
  <2> HIDE DEF z
  <2>6. z[inode] = NoEntries /\ \A i \in 1 .. Len(zips) : i # inode => z[i] = zips[i]
    BY <2>4, <2>5
  <2>7. Len(z) \in {Len(zips), Len(zips) + 1} /\ inode <= Len(z) /\ Len(z) # Len(zips) + 1
    BY <1>1, <2>3, <2>5
  <2> QED BY <1>1, <2>3, <2>6, <2>7 DEF z
<1> QED BY <1>2, <1>3

\* A backup opens its temporary file: a new one, or one it finds under that name.
LEMMA ZipOpenSafe ==
  ASSUME BackupInv, NEW r \in Requests, ZipOpen(r)
  PROVE  Safe(r) /\ fs' = fs
<1> DEFINE s == req[r].second
           inode == IF tmp[s] # 0 THEN tmp[s] ELSE Len(zips) + 1
           next == [req[r] EXCEPT !.at = "walk", !.zip = inode, !.todo = <<<< >>>>]
<1>1. FilesInv /\ OwnersApart /\ SecondsSound /\ WalkSound
  BY DEF BackupInv
<1>2. req[r].at = "zip" /\ begun' = begun
  BY DEF ZipOpen, clockVars
<1>3. /\ s \in 1 .. MaxOps /\ Backing(r, s) /\ zips \in Seq(FileTree) /\ Len(zips) \in Nat
      /\ tmp \in [1 .. MaxOps -> Nat] /\ saved \in [1 .. MaxOps -> Nat]
      /\ begun[s] \in Nat \ {0} /\ req[r] \in Record /\ req[r].op = "backup"
  BY <1>2, BackingFacts
<1>4. CountersOK'
  BY <1>1, CountersKept DEF ZipOpen
<1>5. CASE BackupFails(r)
  BY <1>2, <1>4, <1>5, BackupFailsSafe
<1>6. CASE /\ tmp' = [tmp EXCEPT ![s] = inode] /\ zips' = Opened(inode)
           /\ Proceed(r, next) /\ saved' = saved
  <2>1. /\ inode \in 1 .. Len(zips) + 1
        /\ inode = tmp[s] \/ inode = Len(zips) + 1
    BY <1>1, <1>3 DEF OwnersApart
  <2>2. /\ zips' \in Seq(FileTree) /\ Len(zips') \in {Len(zips), Len(zips) + 1}
        /\ inode <= Len(zips') /\ (Len(zips') = Len(zips) + 1 => inode = Len(zips) + 1)
        /\ zips'[inode] = NoEntries
        /\ \A i \in 1 .. Len(zips) : i # inode => zips'[i] = zips[i]
    BY <1>3, <1>6, <2>1, OpenedEffect
  <2>3. Proceed(r, next) /\ tmp' = [tmp EXCEPT ![s] = inode]
    BY <1>6
  <2> HIDE DEF inode
  <2>4. /\ tmp' \in [1 .. MaxOps -> Nat] /\ tmp'[s] = inode /\ inode \in Nat
        /\ \A t \in 1 .. MaxOps \ {s} : tmp'[t] = tmp[t]
    BY <1>3, <2>1, <2>3
  <2>5. <<<< >>>> \in Seq(Paths) /\ Len(<<<< >>>>) = 1 /\ <<<< >>>>[1] = << >>
    BY PathsAssumption
  <2> DEFINE root == <<<< >>>>
  <2>6. next = [req[r] EXCEPT !.at = "walk", !.zip = inode, !.todo = root]
    OBVIOUS
  <2> HIDE DEF root
  <2>7. /\ next \in Record /\ next.at = "walk" /\ next.op = "backup" /\ next.second = s
        /\ next.zip = inode /\ next.todo = root /\ next.touched = req[r].touched
    BY <1>3, <2>4, <2>5, <2>6 DEF Record, root
  <2>8. /\ fs' = fs /\ fs \in FileTree /\ Rooted(fs) /\ Moves(r, fs, next)
        /\ req'[r] = next /\ \A q \in Requests \ {r} : req'[q] = req[q]
    BY <2>3, ProceedEffect
  <2> HIDE DEF next
  <2>9. Sound(next, fs, Len(zips'))
    <3>1. inode \in 1 .. Len(zips')
      BY <1>3, <2>1, <2>2
    <3> QED BY <1>3, <2>5, <2>7, <3>1 DEF Sound, root
  <2>10. FilesInv'
    <3>1. Len(zips) <= Len(zips') /\ saved' \in [1 .. MaxOps -> Nat]
      BY <1>3, <1>6, <2>2
    <3> QED BY <1>1, <1>4, <2>2, <2>4, <2>7, <2>8, <2>9, <3>1, MoveKeeps
  <2>11. Final
    <3> SUFFICES ASSUME NEW t \in 1 .. MaxOps, saved[t] # 0, begun[t] = 1
                 PROVE  saved'[t] = saved[t] /\ zips'[saved[t]] = zips[saved[t]]
      BY DEF Final
    <3>1. saved[t] \in 1 .. Len(zips) /\ saved[t] # tmp[s]
      BY <1>2, SavedElsewhere
    <3>2. saved[t] # inode
      BY <1>3, <2>1, <3>1
    <3> QED BY <1>6, <2>2, <3>1, <3>2
  <2>12. WalkSound'
    <3> SUFFICES ASSUME NEW q \in Requests, req'[q].at = "walk", begun'[req'[q].second] = 1
                 PROVE  /\ tmp'[req'[q].second] = req'[q].zip
                        /\ Archived(zips'[req'[q].zip], req'[q], fs')
      BY DEF WalkSound, Archived
    <3>1. CASE q = r
      <4>1. \A p \in Below : zips'[inode][p] = None /\ IsPrefix(<< >>, p)
        <5> SUFFICES ASSUME NEW p \in Below PROVE zips'[inode][p] = None /\ IsPrefix(<< >>, p)
          OBVIOUS
        <5>1. p \in Paths
          BY DEF Below
        <5>2. zips'[inode][p] = None
          BY <2>2, <5>1 DEF NoEntries
        <5>3. IsPrefix(<< >>, p)
          <6>1. 0 \in 0 .. Len(p) /\ SubSeq(p, 1, 0) = << >>
            BY <5>1, ParentPath, SubSeqEmpty
          <6> QED BY <5>1, <6>1, PathTake
        <5> QED BY <5>2, <5>3
      <4>2. Len(root) = 1 /\ root[1] = << >> /\ 1 \in 1 .. Len(root)
        BY <2>5 DEF root
      <4>3. Archived(zips'[inode], next, fs)
        BY <2>7, <4>1, <4>2 DEF Archived
      <4> QED BY <2>4, <2>7, <2>8, <3>1, <4>3
    <3>2. CASE q # r
      <4>1. req'[q] = req[q]
        BY <2>8, <3>2
      <4>2. /\ req[q].second # s /\ req[q].second \in 1 .. MaxOps
            /\ req[q].zip # tmp[s] /\ req[q].zip \in 1 .. Len(zips)
        BY <1>2, <3>2, <4>1, OthersElsewhere
      <4>3. req[q].zip # inode
        BY <1>3, <2>1, <4>2
      <4>4. tmp[req[q].second] = req[q].zip /\ Archived(zips[req[q].zip], req[q], fs)
        BY <1>1, <1>2, <4>1 DEF WalkSound
      <4> QED BY <2>2, <2>4, <2>8, <4>1, <4>2, <4>3, <4>4
    <3> QED BY <3>1, <3>2
  <2>13. \A q \in Requests, t \in 1 .. MaxOps : Backing(q, t)' => Backing(q, t)
    BY <1>3, <2>7, <2>8 DEF Backing
  <2>14. SecondsSound'
    <3>1. \A t \in 1 .. MaxOps : begun[t] = 0 => t # s
      BY <1>3
    <3> HIDE DEF s
    <3> QED BY <1>1, <1>2, <1>6, <2>4, <2>13, <3>1 DEF SecondsSound
  <2>15. ~Answered(r, "backup")
    BY <2>7, <2>8 DEF Answered
  <2> HIDE DEF s
  <2>16. OwnersApart'
    <3>1. \A i \in 1 .. Len(zips'), t \in 1 .. MaxOps :
            Owns(i, t)' => Owns(i, t) \/ (i = inode /\ t = s)
      BY <1>6, <2>4, <2>7, <2>8 DEF Owns
    <3>2. ASSUME NEW t \in 1 .. MaxOps, Owns(inode, t) PROVE t = s
      <4>1. CASE inode = tmp[s]
        <5>1. Owns(inode, s)
          BY <4>1 DEF Owns
        <5>2. CASE inode \in 1 .. Len(zips)
          BY <1>1, <1>3, <3>2, <5>1, <5>2 DEF OwnersApart
        <5>3. CASE inode \notin 1 .. Len(zips)
          BY <1>1, <1>3, <2>1, <4>1, <5>3 DEF OwnersApart
        <5> QED BY <5>2, <5>3
      <4>2. CASE inode = Len(zips) + 1
        <5>1. tmp[t] <= Len(zips) /\ saved[t] <= Len(zips) /\ tmp[t] \in Nat /\ saved[t] \in Nat
          BY <1>1, <1>3 DEF OwnersApart
        <5>2. PICK q \in Requests : req[q].at = "walk" /\ req[q].zip = inode
          BY <1>3, <3>2, <4>2, <5>1 DEF Owns
        <5>3. req[q].zip \in 1 .. Len(zips)
          BY <5>2, BackingFacts
        <5> QED BY <1>3, <4>2, <5>2, <5>3
      <4> QED BY <2>1, <4>1, <4>2
    <3>3. \A t \in 1 .. MaxOps : tmp'[t] <= Len(zips') /\ saved'[t] <= Len(zips')
      BY <1>1, <1>3, <1>6, <2>2, <2>4 DEF OwnersApart
    <3>4. ASSUME NEW i \in 1 .. Len(zips'), NEW t \in 1 .. MaxOps, NEW v \in 1 .. MaxOps,
                 Owns(i, t)', Owns(i, v)'
          PROVE  t = v
      <4>1. CASE i = inode
        BY <3>1, <3>2, <3>4, <4>1
      <4>2. CASE i # inode
        <5>1. i \in 1 .. Len(zips)
          BY <1>3, <2>2, <4>2
        <5> QED BY <1>1, <3>1, <3>4, <4>2, <5>1 DEF OwnersApart
      <4> QED BY <4>1, <4>2
    <3> QED BY <3>3, <3>4 DEF OwnersApart
  <2> QED BY <2>8, <2>10, <2>11, <2>12, <2>14, <2>15, <2>16 DEF Safe, BackupInv, Complete
<1> QED BY <1>5, <1>6 DEF ZipOpen
\* What the walk still has to visit after p: what is in p, and what was behind it.
LEMMA WalkNext ==
  ASSUME NEW todo \in Seq(Paths), todo # << >>
  PROVE  LET p == Head(todo)
             next == SetToSeq(Children(p)) \o Tail(todo)
         IN  /\ p \in Paths /\ p = todo[1] /\ next \in Seq(Paths) /\ Len(todo) \in Nat \ {0}
             /\ \A x \in Children(p) : \E i \in 1 .. Len(next) : next[i] = x
             /\ \A j \in 2 .. Len(todo) : \E i \in 1 .. Len(next) : next[i] = todo[j]
<1> DEFINE p == Head(todo)
           order == SetToSeq(Children(p))
           rest == Tail(todo)
           next == order \o rest
<1>1. /\ p \in Paths /\ p = todo[1] /\ rest \in Seq(Paths) /\ Len(todo) \in Nat \ {0}
      /\ \A i \in 1 .. Len(rest) : rest[i] = todo[i + 1]
  BY TailOfTodo
<1>2. Len(rest) = Len(todo) - 1
  BY HeadTailProperties
<1> HIDE DEF p, rest
<1>3. order \in Seq(Paths) /\ \A x \in Children(p) : \E i \in 1 .. Len(order) : order[i] = x
  BY <1>1, ChildrenInOrder
<1> HIDE DEF order
<1>4. /\ next \in Seq(Paths) /\ Len(next) = Len(order) + Len(rest)
      /\ \A i \in 1 .. Len(order) + Len(rest) :
            next[i] = IF i <= Len(order) THEN order[i] ELSE rest[i - Len(order)]
  BY <1>1, <1>3, ConcatProperties
<1>5. Len(order) \in Nat /\ Len(rest) \in Nat
  BY <1>1, <1>3, LenProperties
<1> HIDE DEF next
<1>6. ASSUME NEW x \in Children(p) PROVE \E i \in 1 .. Len(next) : next[i] = x
  <2>1. PICK i \in 1 .. Len(order) : order[i] = x
    BY <1>3
  <2>2. i \in 1 .. Len(next) /\ i \in 1 .. Len(order) + Len(rest) /\ i <= Len(order)
    BY <1>4, <1>5
  <2>3. next[i] = x
    BY <1>4, <2>1, <2>2
  <2> QED BY <2>2, <2>3
<1>7. ASSUME NEW j \in 2 .. Len(todo) PROVE \E i \in 1 .. Len(next) : next[i] = todo[j]
  <2> DEFINE i == Len(order) + (j - 1)
  <2>1. j - 1 \in 1 .. Len(rest) /\ (j - 1) + 1 = j
    BY <1>1, <1>2
  <2>2. /\ i \in 1 .. Len(order) + Len(rest) /\ ~(i <= Len(order)) /\ i - Len(order) = j - 1
    BY <1>5, <2>1
  <2>3. rest[j - 1] = todo[j]
    BY <1>1, <2>1
  <2>4. next[i] = todo[j]
    BY <1>4, <2>2, <2>3
  <2>5. i \in 1 .. Len(next)
    BY <1>4, <2>2
  <2> QED BY <2>4, <2>5
<1> QED BY <1>1, <1>4, <1>6, <1>7 DEF next, order, p, rest

\* Writing the entry of p moves the walk on: what was to be found below p is now in
\* the archive, not there at all, or below a name in p.
LEMMA WalkArchives ==
  ASSUME BackupInv, NEW q \in Record, q.todo \in Seq(Paths), q.todo # << >>, NEW n \in Record,
         n.touched = q.touched, n.todo = SetToSeq(Children(Head(q.todo))) \o Tail(q.todo),
         fs[Head(q.todo)] # None,
         NEW z \in FileTree, Archived(z, q, fs), NEW y \in FileTree,
         \A x \in Below : y[x] = IF x = Head(q.todo) THEN fs[x] ELSE z[x]
  PROVE  Archived(y, n, fs)
<1> DEFINE p == Head(q.todo)
<1>1. /\ p \in Paths /\ p = q.todo[1] /\ n.todo \in Seq(Paths) /\ Len(q.todo) \in Nat \ {0}
      /\ \A x \in Children(p) : \E i \in 1 .. Len(n.todo) : n.todo[i] = x
      /\ \A j \in 2 .. Len(q.todo) : \E i \in 1 .. Len(n.todo) : n.todo[i] = q.todo[j]
  <2> DEFINE todo == q.todo
             next == SetToSeq(Children(Head(todo))) \o Tail(todo)
  <2>1. todo \in Seq(Paths) /\ todo # << >> /\ n.todo = next /\ p = Head(todo)
    OBVIOUS
  <2> HIDE DEF todo, p
  <2>2. /\ Head(todo) \in Paths /\ Head(todo) = todo[1] /\ next \in Seq(Paths)
        /\ Len(todo) \in Nat \ {0}
        /\ \A x \in Children(Head(todo)) : \E i \in 1 .. Len(next) : next[i] = x
        /\ \A j \in 2 .. Len(todo) : \E i \in 1 .. Len(next) : next[i] = todo[j]
    BY <2>1, WalkNext
  <2> HIDE DEF next
  <2> QED BY <2>1, <2>2 DEF todo
<1>2. Rooted(fs) /\ fs \in FileTree
  BY DEF BackupInv, FilesInv, TypeOK
<1>3. \A x \in Below : y[x] = IF x = p THEN fs[x] ELSE z[x]
  OBVIOUS
<1> HIDE DEF p
<1> SUFFICES ASSUME NEW x \in Below, x \notin q.touched, y[x] # fs[x]
             PROVE  y[x] = None /\ \E i \in 1 .. Len(n.todo) : IsPrefix(n.todo[i], x)
  BY DEF Archived
<1>4. x \in Paths /\ x # p /\ y[x] = z[x]
  BY <1>3 DEF Below
<1>5. z[x] = None /\ \E j \in 1 .. Len(q.todo) : IsPrefix(q.todo[j], x)
  BY <1>4 DEF Archived
<1>6. PICK j \in 1 .. Len(q.todo) : IsPrefix(q.todo[j], x)
  BY <1>5
<1>7. CASE j = 1
  <2> DEFINE c == SubSeq(x, 1, Len(p) + 1)
  <2>1. IsPrefix(p, x)
    BY <1>1, <1>6, <1>7
  <2>2. /\ Len(p) \in Nat /\ Len(x) \in Nat /\ Len(p) < Len(x)
        /\ c \in Paths /\ c # << >> /\ Front(c) = p /\ IsPrefix(c, x)
    BY <1>1, <1>4, <2>1, WayDown
  <2>3. fs[x] # None
    BY <1>4, <1>5
  <2>4. fs[c] # None
    <3>1. CASE Len(p) + 1 = Len(x)
      <4>1. c = x
        BY <1>4, <3>1, ParentPath, SubSeqFull
      <4> QED BY <2>3, <4>1
    <3>2. CASE Len(p) + 1 # Len(x)
      <4>1. Len(p) + 1 \in 0 .. Len(x) - 1
        BY <2>2, <3>2
      <4>2. fs[c] = Dir
        BY <1>2, <1>4, <2>3, <4>1 DEF Rooted
      <4> QED BY <4>2, EntryKinds
    <3> QED BY <3>1, <3>2
  <2> HIDE DEF c
  <2>5. c \in Children(p)
    BY <2>2, <2>4 DEF Children
  <2>6. PICK i \in 1 .. Len(n.todo) : n.todo[i] = c
    BY <1>1, <2>5
  <2> QED BY <1>4, <1>5, <2>2, <2>6
<1>8. CASE j # 1
  <2>1. j \in 2 .. Len(q.todo)
    BY <1>1, <1>8
  <2>2. PICK i \in 1 .. Len(n.todo) : n.todo[i] = q.todo[j]
    BY <1>1, <2>1
  <2> QED BY <1>4, <1>5, <1>6, <2>2
<1> QED BY <1>7, <1>8

\* The walk adds an entry to the archive.
LEMMA WalkSafe ==
  ASSUME BackupInv, NEW r \in Requests, Walk(r)
  PROVE  Safe(r) /\ fs' = fs
<1> DEFINE s == req[r].second
           k == req[r].zip
           p == Head(req[r].todo)
           todo == SetToSeq(Children(p)) \o Tail(req[r].todo)
           next == [req[r] EXCEPT !.todo = todo]
           z == zips[k]
           y == [z EXCEPT ![p] = IF p = << >> THEN z[p] ELSE fs[p]]
<1>1. FilesInv /\ OwnersApart /\ SecondsSound /\ WalkSound /\ fs \in FileTree
  BY DEF BackupInv, FilesInv, TypeOK
<1>2. req[r].at = "walk" /\ req[r].todo # << >> /\ begun' = begun
  BY DEF Walk, clockVars
<1>3. /\ s \in 1 .. MaxOps /\ Backing(r, s) /\ zips \in Seq(FileTree) /\ Len(zips) \in Nat
      /\ tmp \in [1 .. MaxOps -> Nat] /\ saved \in [1 .. MaxOps -> Nat]
      /\ req[r] \in Record /\ req[r].op = "backup"
      /\ req[r].todo \in Seq(Paths) /\ k \in 1 .. Len(zips)
  BY <1>2, BackingFacts
<1>4. CountersOK'
  BY <1>1, CountersKept DEF Walk
<1>5. CASE BackupFails(r)
  BY <1>2, <1>4, <1>5, BackupFailsSafe
<1>6. CASE /\ fs[p] # None /\ zips' = [zips EXCEPT ![k][p] = IF p = << >> THEN @ ELSE fs[p]]
           /\ Proceed(r, next) /\ UNCHANGED <<tmp, saved>>
  <2>1. p \in Paths /\ todo \in Seq(Paths)
    BY <1>2, <1>3, WalkNext
  <2>2. z \in FileTree
    BY <1>3, ElementOfSeq
  <2>3. y \in FileTree /\ \A x \in Below : y[x] = IF x = p THEN fs[x] ELSE z[x]
    BY <1>1, <2>1, <2>2 DEF FileTree, Below
  <2>4. zips' = [zips EXCEPT ![k] = y]
    BY <1>6
  <2>5. Proceed(r, next) /\ tmp' = tmp /\ saved' = saved
    BY <1>6
  <2> HIDE DEF y, FileTree
  <2>6. /\ zips' \in Seq(FileTree) /\ Len(zips') = Len(zips) /\ zips'[k] = y
        /\ \A i \in 1 .. Len(zips) : i # k => zips'[i] = zips[i]
    <3>1. /\ zips' \in Seq(FileTree) /\ Len(zips') = Len(zips)
          /\ \A i \in 1 .. Len(zips) : zips'[i] = IF i = k THEN y ELSE zips[i]
      BY <1>3, <2>3, <2>4, ExceptSeq
    <3> QED BY <1>3, <3>1
  <2>7. next.todo = todo
    BY <1>3 DEF Record
  <2> HIDE DEF todo
  <2>8. /\ next \in Record /\ next.at = "walk" /\ next.op = "backup" /\ next.second = s
        /\ next.zip = k /\ next.touched = req[r].touched
    BY <1>2, <1>3, <2>1 DEF Record
  <2>9. /\ fs' = fs /\ Rooted(fs) /\ Moves(r, fs, next)
        /\ req'[r] = next /\ \A q \in Requests \ {r} : req'[q] = req[q]
    BY <2>5, ProceedEffect
  <2> HIDE DEF next
  <2>10. Sound(next, fs, Len(zips'))
    BY <1>3, <2>1, <2>6, <2>7, <2>8 DEF Sound
  <2>11. FilesInv'
    <3>1. /\ Len(zips) <= Len(zips')
          /\ tmp' \in [1 .. MaxOps -> Nat] /\ saved' \in [1 .. MaxOps -> Nat]
      BY <1>3, <2>5, <2>6
    <3> QED BY <1>1, <1>4, <2>6, <2>8, <2>9, <2>10, <3>1, MoveKeeps
  <2>12. Final
    <3> SUFFICES ASSUME NEW t \in 1 .. MaxOps, saved[t] # 0, begun[t] = 1
                 PROVE  saved'[t] = saved[t] /\ zips'[saved[t]] = zips[saved[t]]
      BY DEF Final
    <3>1. saved[t] \in 1 .. Len(zips) /\ saved[t] # k
      BY <1>2, SavedElsewhere
    <3> QED BY <2>5, <2>6, <3>1
  <2>13. WalkSound'
    <3> SUFFICES ASSUME NEW q \in Requests, req'[q].at = "walk", begun'[req'[q].second] = 1
                 PROVE  /\ tmp'[req'[q].second] = req'[q].zip
                        /\ Archived(zips'[req'[q].zip], req'[q], fs')
      BY DEF WalkSound, Archived
    <3>1. CASE q = r
      <4>1. begun[s] = 1
        BY <1>2, <2>8, <2>9, <3>1
      <4>2. tmp[s] = k /\ Archived(z, req[r], fs)
        BY <1>1, <1>2, <4>1 DEF WalkSound
      <4>3. next.todo = SetToSeq(Children(p)) \o Tail(req[r].todo)
        BY <2>7 DEF todo
      <4>4. Archived(y, next, fs)
        BY <1>2, <1>3, <1>6, <2>2, <2>3, <2>8, <4>2, <4>3, WalkArchives
      <4> QED BY <2>5, <2>6, <2>8, <2>9, <3>1, <4>2, <4>4
    <3>2. CASE q # r
      <4>1. req'[q] = req[q]
        BY <2>9, <3>2
      <4>2. req[q].zip \in 1 .. Len(zips) /\ req[q].zip # k
        BY <1>2, <3>2, <4>1, OthersElsewhere
      <4>3. tmp[req[q].second] = req[q].zip /\ Archived(zips[req[q].zip], req[q], fs)
        BY <1>1, <1>2, <4>1 DEF WalkSound
      <4> QED BY <2>5, <2>6, <2>9, <4>1, <4>2, <4>3
    <3> QED BY <3>1, <3>2
  <2>14. \A q \in Requests, t \in 1 .. MaxOps : Backing(q, t)' => Backing(q, t)
    BY <1>3, <2>8, <2>9 DEF Backing
  <2>15. ~Answered(r, "backup")
    BY <2>8, <2>9 DEF Answered
  <2>16. OwnersApart'
    <3>1. \A i \in 1 .. Len(zips), t \in 1 .. MaxOps : Owns(i, t)' => Owns(i, t)
      BY <1>2, <2>5, <2>8, <2>9 DEF Owns
    <3> QED BY <1>1, <2>5, <2>6, <3>1 DEF OwnersApart
  <2>17. SecondsSound'
    BY <1>1, <1>2, <2>5, <2>14 DEF SecondsSound
  <2> QED BY <2>9, <2>11, <2>12, <2>13, <2>15, <2>16, <2>17 DEF Safe, BackupInv, Complete
<1> QED BY <1>5, <1>6 DEF Walk
\* A step of a content backup.
BackupStep(r) ==
  \/ HandleBackupSiteContent(r) \/ ZipOpen(r) \/ Walk(r) \/ RenameZip(r)
  \/ (req[r].op = "backup" /\ CallFails(r))

\* A backup that fails at one of its system calls.
LEMMA BackupCallFailsSafe ==
  ASSUME BackupInv, NEW r \in Requests, req[r].op = "backup", CallFails(r)
  PROVE  req[r].at \in {"zip", "walk"} /\ Safe(r) /\ fs' = fs
<1>1. FilesInv /\ req[r] \in Record /\ Sound(req[r], fs, Len(zips))
  BY FileFacts DEF BackupInv
<1>2. req[r].at \in {"zip", "walk"}
  BY <1>1 DEF CallFails, Sound, Record, Writers
<1>3. CountersOK' /\ begun' = begun
  BY <1>1, CountersKept DEF CallFails, clockVars
<1>4. BackupFails(r)
  BY DEF CallFails
<1> QED BY <1>2, <1>3, <1>4, BackupFailsSafe

\* All of them keep the invariant, leave the document root and the other requests
\* alone, and are answered for nothing but a backup.
LEMMA BackupStepSafe ==
  ASSUME BackupInv, NEW r \in Requests, BackupStep(r)
  PROVE  /\ Safe(r) /\ fs' = fs
         /\ req[r].at = "idle" \/ req[r].op = "backup"
         /\ \A q \in Requests \ {r} : req'[q] = req[q]
<1>1. req \in [Requests -> Record]
  BY DEF BackupInv, FilesInv, TypeOK
<1>2. Safe(r) /\ fs' = fs
  BY BackupBegins, ZipOpenSafe, WalkSafe, RenameZipSafe, BackupCallFailsSafe
     DEF BackupStep, HandleBackupSiteContent
<1>3. req[r].at = "idle" \/ req[r].op = "backup"
  <2>1. CASE HandleBackupSiteContent(r)
    BY <2>1 DEF HandleBackupSiteContent, BackupSiteContent, New
  <2>2. CASE ZipOpen(r) \/ Walk(r) \/ RenameZip(r)
    <3>1. req[r].at \in {"zip", "walk"}
      BY <2>2 DEF ZipOpen, Walk, RenameZip
    <3> QED BY <3>1, BackingFacts
  <2> QED BY <2>1, <2>2 DEF BackupStep
<1>4. \E next : Proceed(r, next)
  BY DEF BackupStep, HandleBackupSiteContent, BackupSiteContent, ZipOpen, Walk, RenameZip,
         CallFails, BackupFails
<1> QED BY <1>1, <1>2, <1>3, <1>4 DEF Proceed

-----------------------------------------------------------------------------
(* Theorems.                                                                 *)

\* The initial states.
LEMMA InitBackupInv == Init => BackupInv
<1> SUFFICES ASSUME Init PROVE BackupInv
  OBVIOUS
<1>1. /\ fs \in Trees /\ req = [r \in Requests |-> Idle] /\ zips = << >>
      /\ tmp = [s \in 1 .. MaxOps |-> 0] /\ saved = [s \in 1 .. MaxOps |-> 0]
      /\ now = 0 /\ begun = [s \in 1 .. MaxOps |-> 0] /\ ops = 0 /\ faults = MaxFaults
  BY DEF Init
<1>2. fs \in FileTree
  <2>1. {None, Dir} \cup {File(c) : c \in Contents} \subseteq Entry
    BY EntryKinds, ContentsAssumption
  <2> QED BY <1>1, <2>1 DEF Trees, FileTree
<1>3. Rooted(fs)
  <2> SUFFICES ASSUME NEW p \in Paths, fs[p] # None, NEW n \in 0 .. Len(p) - 1
               PROVE  fs[SubSeq(p, 1, n)] = Dir
    BY DEF Rooted
  <2>1. p # << >>
    <3>1. Len(p) \in Nat
      BY ParentPath
    <3>2. Len(p) # 0
      BY <3>1
    <3> QED BY <3>2
  <2> QED BY <1>1, <2>1 DEF Trees, Below
<1>4. Idle \in Record /\ Sound(Idle, fs, 0) /\ Idle.at = "idle"
  <2>1. << >> \in Paths /\ << >> \in Seq(Paths)
    BY PathsAssumption
  <2>2. Idle \in Record /\ Idle.at = "idle"
    BY <2>1 DEF Idle, Record
  <2> HIDE DEF Idle
  <2> QED BY <2>2 DEF Sound
<1> HIDE DEF Idle
<1>5. zips \in Seq(FileTree) /\ Len(zips) = 0
  BY <1>1
<1>6. CountersOK
  BY <1>1, BoundsAssumption DEF CountersOK
<1>7. FilesInv
  BY <1>1, <1>2, <1>3, <1>4, <1>5, <1>6 DEF FilesInv, TypeOK
<1>8. \A r \in Requests : req[r].at = "idle"
  BY <1>1, <1>4
<1>9. OwnersApart
  BY <1>1, <1>5 DEF OwnersApart
<1>10. SecondsSound
  BY <1>1, <1>8 DEF SecondsSound, Backing
<1>11. WalkSound
  BY <1>8 DEF WalkSound
<1> QED BY <1>7, <1>9, <1>10, <1>11 DEF BackupInv

\* Every step is one of the file manager's or one of a backup's.
LEMMA StepKinds ==
  ASSUME Next
  PROVE  \E r \in Requests : FileStep(r) \/ BackupStep(r)
BY DEF Next, Handler, Step, FileStep, BackupStep

\* The other requests stay where they are when r takes a step of the file manager.
LEMMA FileStepAlone ==
  ASSUME FilesInv, NEW r \in Requests, FileStep(r), NEW q \in Requests \ {r}
  PROVE  req'[q].at = req[q].at
<1>1. PICK u \in FileTree, next \in Record : Moves(r, u, next)
  BY FileStepCorrect DEF Correct, Tidy
<1>2. TypeOK /\ fs \in FileTree /\ Len(zips) \in Nat
  BY LenProperties DEF FilesInv, TypeOK
<1>3. req[q] \in Record /\ Sound(req[q], fs, Len(zips))
  BY FileFacts
<1>4. req'[q] = Seen(req[q], fs, u) \/ req'[q] = req[q]
  BY <1>1, <1>2, MoveEffect
<1> QED BY <1>2, <1>3, <1>4, SeenSound

\* A step that changes nothing keeps the invariant.
LEMMA StutterKeeps ==
  ASSUME BackupInv, UNCHANGED vars
  PROVE  BackupInv'
BY DEF vars, BackupInv, FilesInv, TypeOK, CountersOK, OwnersApart, Owns, SecondsSound, Backing,
       WalkSound, Archived, Rooted, Sound

\* What one step never does, in the four properties' own words.
LEMMA StepKeeps ==
  ASSUME BackupInv, Next
  PROVE  /\ BackupInv' /\ Final
         /\ \A r \in Requests : Done(r) /\ Complete(r)
         /\ \A p \in Paths : fs'[p] # fs[p] =>
              \E r \in Requests : req[r].at # "idle" /\ Explains(r, p)
<1>1. PICK r \in Requests : FileStep(r) \/ BackupStep(r)
  BY StepKinds
<1>2. FilesInv
  BY DEF BackupInv
<1>3. Safe(r)
  BY <1>1, FileStepSafe, BackupStepSafe
<1>4. \A q \in Requests \ {r} : req'[q].at = req[q].at
  BY <1>1, <1>2, FileStepAlone, BackupStepSafe
<1>5. ASSUME NEW q \in Requests \ {r} PROVE Done(q) /\ Complete(q)
  BY <1>4 DEF Done, Complete, Answered
<1>6. CASE FileStep(r)
  <2>1. Asked(r) /\ Done(r)
    BY <1>2, <1>6, FileStepCorrect DEF Correct
  <2> QED BY <1>3, <1>5, <2>1 DEF Safe, Asked
<1>7. CASE BackupStep(r)
  <2>1. fs' = fs /\ (req[r].at = "idle" \/ req[r].op = "backup")
    BY <1>7, BackupStepSafe
  <2>2. Done(r)
    BY <2>1 DEF Done, Answered
  <2> QED BY <1>3, <1>5, <2>1, <2>2 DEF Safe
<1> QED BY <1>1, <1>6, <1>7

\* The document root stays a tree of directories, every request relies at each of its
\* system calls on what is really there, no archive file belongs to two seconds, and a
\* walk holds of the unchanged files what it has passed.
THEOREM BackupInvariant == Spec => []BackupInv
<1>1. Init => BackupInv
  BY InitBackupInv
<1>2. BackupInv /\ [Next]_vars => BackupInv'
  BY StepKeeps, StutterKeeps
<1> QED BY <1>1, <1>2, PTL DEF Spec

\* An answer "ok" of an upload, an edit, a creation or a deletion is true.
THEOREM OkIsTrue == Spec => OkMeansDone
<1> DEFINE A == \A r \in Requests : LET p == req[r].path IN
     /\ (Answered(r, "upload") \/ Answered(r, "content")) /\ p \notin req[r].touched
          => fs'[p] = File(req[r].data)
     /\ Answered(r, "mkdir") /\ p \notin req[r].touched => fs'[p] = Dir
     /\ (Answered(r, "delete") \/ Answered(r, "rmdir")) /\ p \notin req[r].touched => fs'[p] = None
     /\ Answered(r, "rmtree") => \A q \in Paths : IsPrefix(p, q) => fs'[q] = None
<1>1. BackupInv /\ [Next]_vars => [A]_vars
  BY StepKeeps DEF Done
<1> QED BY <1>1, BackupInvariant, PTL DEF Spec, OkMeansDone

\* Nothing in the document root changes but through a request that asks for it: the
\* handlers run concurrently and without a lock.
THEOREM NothingUnasked == Spec => ChangesOnlyAsked
<1> DEFINE A == \A p \in Paths : fs'[p] # fs[p] =>
     \E r \in Requests : req[r].at # "idle" /\ Explains(r, p)
<1>1. BackupInv /\ [Next]_vars => [A]_vars
  BY StepKeeps
<1> QED BY <1>1, BackupInvariant, PTL DEF Spec, ChangesOnlyAsked

\* A backup that is alone in its second holds everything nobody changed while it ran.
THEOREM BackupIsComplete == Spec => BackupComplete
<1> DEFINE A == \A r \in Requests : Answered(r, "backup") =>
     LET s == req[r].second IN begun[s] = 1 =>
     /\ saved'[s] # 0
     /\ \A p \in Below : p \notin req[r].touched => zips'[saved'[s]][p] = fs[p]
<1>1. BackupInv /\ [Next]_vars => [A]_vars
  BY StepKeeps DEF Complete
<1> QED BY <1>1, BackupInvariant, PTL DEF Spec, BackupComplete

\* A finished archive does not change, unless a second backup began in its second.
THEOREM ArchiveIsFinal == Spec => SavedIsFinal
<1> DEFINE A == \A s \in 1 .. MaxOps : saved[s] # 0 /\ begun[s] = 1 =>
     saved'[s] = saved[s] /\ zips'[saved[s]] = zips[saved[s]]
<1>1. BackupInv /\ [Next]_vars => [A]_vars
  BY StepKeeps DEF Final
<1> QED BY <1>1, BackupInvariant, PTL DEF Spec, SavedIsFinal
=============================================================================
