-------------------------- MODULE StateFileProofs --------------------------
(***************************************************************************)
(* The file protocol of the state file, proved for any number of requests, *)
(* snapshots of any length and any number of failures, restarts and copies:*)
(* as long as no two writers have one temporary file open at a time, the   *)
(* state file is a whole snapshot (StateFileDecodes), the one acknowledged *)
(* last (AckedDurable), and the protocol implements AtomicStore.           *)
(*                                                                         *)
(* The inductive invariant says what each inode in use holds: a temporary  *)
(* file a prefix of what its one writer writes, a source that is being     *)
(* copied a whole snapshot that no writer can reach, the state file and    *)
(* the backup a whole snapshot.                                            *)
(***************************************************************************)
EXTENDS StateFile, FiniteSetTheorems, SequenceTheorems, TLAPS

Pc == {"idle", "lock", "saveOpen", "saveWrite", "saveRename", "copy", "copyRename"}
Proc == [pc : Pc, op : {"mutate", "resave", "backup", "restore"}, ver : 0 .. MaxSnapshots,
         src : Inodes \cup {NoInode}, dst : Inodes \cup {NoInode}, pos : Nat]

\* The snapshots made so far.
Snapshots == {v \in 0 .. MaxSnapshots : v < next}
Block == Int \X Int

\* The first n blocks of snapshot v.
Part(v, n) == [i \in 1 .. n |-> <<v, i>>]

TypeOK ==
  /\ dir \in [Names -> Inodes \cup {NoInode}]
  /\ data \in [Inodes -> Seq(Block)]
  /\ next \in 1 .. MaxSnapshots + 1
  /\ mem \in Snapshots
  /\ proc \in [Procs -> Proc]
  /\ past.kept \subseteq Snapshots

\* No inode has two names.
NamesApart == \A m, n \in Names : m # n /\ dir[m] = dir[n] => dir[m] = NoInode

\* The state file is there, whole, and what was acknowledged last.
StateHolds(v) == data[dir["state"]] = Blocks(v) /\ (acked >= 0 => v = acked)
StateSound == dir["state"] # NoInode /\ \E v \in Snapshots : StateHolds(v)

\* So is the backup, once there is one.
BackupSound == dir["backup"] # NoInode => \E v \in past.kept : data[dir["backup"]] = Blocks(v)

\* A temporary file has one writer.
OneWriter ==
  \A name \in {"state", "backup"} : \A p, q \in Writers(name) : p = q

Saving == {"saveOpen", "saveWrite", "saveRename"}
Copying == {"copy", "copyRename"}

\* Who saves has the mutex, and saves what is in memory.
LockSound == \A p \in Procs : proc[p].pc \in Saving => lock = {p} /\ proc[p].ver = mem

\* A temporary file holds the first n blocks of snapshot v.
Holds(tmp, v, n) == dir[tmp] # NoInode /\ data[dir[tmp]] = Part(v, n)

\* The temporary file of a save.
SaveSound(p) ==
  LET q == proc[p] IN
  /\ q.pc = "saveWrite" => /\ q.dst = dir["state.tmp"] /\ q.pos \in 1 .. Sizes[q.ver]
                           /\ Holds("state.tmp", q.ver, q.pos - 1)
  /\ q.pc = "saveRename" => Holds("state.tmp", q.ver, Sizes[q.ver])

\* The source of a copy is snapshot v, its temporary file a part of it.
Carries(p, v) ==
  LET q == proc[p]
      tmp == TmpOf(Target(q.op)) IN
  /\ data[q.src] = Blocks(v)
  /\ q.op = "restore" => v \in past.kept
  /\ q.pc = "copy" => /\ q.dst = dir[tmp] /\ q.pos \in 1 .. Sizes[v] + 1
                      /\ Holds(tmp, v, q.pos - 1)
  /\ q.pc = "copyRename" => Holds(tmp, v, Sizes[v])

\* No writer reaches the source of a copy: it has no name or one that is not
\* temporary.
CopySound(p) ==
  proc[p].pc \in Copying =>
    /\ proc[p].op \in {"backup", "restore"}
    /\ proc[p].src # NoInode
    /\ proc[p].src \notin {dir["state.tmp"], dir["backup.tmp"]}
    /\ \E v \in Snapshots : Carries(p, v)

FilesSound ==
  /\ TypeOK /\ NamesApart /\ StateSound /\ BackupSound /\ OneWriter /\ LockSound
  /\ \A p \in Procs : SaveSound(p) /\ CopySound(p)

\* The inductive invariant: all this, until two writers meet.
StateFileInv ==
  /\ past = [raced |-> past.raced, kept |-> past.kept] /\ past.raced \in BOOLEAN
  /\ past.raced \/ FilesSound
-----------------------------------------------------------------------------
(* What a file holds.                                                        *)

\* A part of a snapshot is a file with as many blocks.
LEMMA PartType ==
  ASSUME NEW v \in Int, NEW n \in Nat
  PROVE  Part(v, n) \in Seq(Block) /\ Len(Part(v, n)) = n
<1>1. Part(v, n) \in [1 .. n -> Block]
  BY DEF Part, Block
<1>2. Part(v, n) \in Seq(Block)
  BY <1>1, SeqDef
<1>3. DOMAIN Part(v, n) = 1 .. n /\ DOMAIN Part(v, n) = 1 .. Len(Part(v, n))
  BY <1>1, <1>2, LenProperties
<1>4. Len(Part(v, n)) \in Nat
  BY <1>2, LenProperties
<1> QED BY <1>2, <1>3, <1>4

\* A truncated file is the part without blocks.
LEMMA PartEmpty ==
  ASSUME NEW v \in Int
  PROVE  << >> = Part(v, 0)
<1>1. Part(v, 0) \in Seq(Block) /\ Len(Part(v, 0)) = 0
  BY PartType
<1> QED BY <1>1, EmptySeq

\* Writing the next block extends the part by one.
LEMMA PartGrows ==
  ASSUME NEW v \in Int, NEW n \in Nat
  PROVE  Overwrite(Part(v, n), n + 1, <<v, n + 1>>) = Part(v, n + 1)
<1>1. Len(Part(v, n)) = n
  BY PartType
<1>2. \A i \in 1 .. n : Part(v, n)[i] = <<v, i>>
  BY DEF Part
<1> DEFINE s == Part(v, n)
<1> HIDE DEF s
<1>3. Overwrite(s, n + 1, <<v, n + 1>>) = [i \in 1 .. n + 1 |-> IF i = n + 1 THEN <<v, n + 1>> ELSE
                                             IF i <= n THEN s[i] ELSE Hole]
  BY <1>1 DEF Overwrite, s
<1>4. \A i \in 1 .. n + 1 : (IF i = n + 1 THEN <<v, n + 1>> ELSE
                               IF i <= n THEN s[i] ELSE Hole) = <<v, i>>
  BY <1>2 DEF s
<1>5. Overwrite(s, n + 1, <<v, n + 1>>) = [i \in 1 .. n + 1 |-> <<v, i>>]
  BY <1>3, <1>4
<1> QED BY <1>5 DEF s, Part

\* A snapshot is its own last part, and its blocks are numbered.
LEMMA BlocksArePart ==
  ASSUME NEW v \in 0 .. MaxSnapshots
  PROVE  /\ Blocks(v) = Part(v, Sizes[v]) /\ Sizes[v] \in Nat \ {0}
         /\ Len(Blocks(v)) = Sizes[v]
         /\ \A i \in 1 .. Sizes[v] : Blocks(v)[i] = <<v, i>>
<1>1. Sizes[v] \in Nat \ {0} /\ v \in Int
  BY SnapshotAssumption
<1>2. Blocks(v) = Part(v, Sizes[v])
  BY DEF Blocks, Part
<1>3. Len(Part(v, Sizes[v])) = Sizes[v]
  BY <1>1, PartType
<1>4. \A i \in 1 .. Sizes[v] : Part(v, Sizes[v])[i] = <<v, i>>
  BY DEF Part
<1> QED BY <1>1, <1>2, <1>3, <1>4

\* Snapshots differ in their first block.
LEMMA BlocksDiffer ==
  ASSUME NEW v \in 0 .. MaxSnapshots, NEW w \in 0 .. MaxSnapshots, Blocks(v) = Blocks(w)
  PROVE  v = w
<1>1. Blocks(v)[1] = <<v, 1>> /\ Blocks(w)[1] = <<w, 1>>
  BY BlocksArePart
<1>2. <<v, 1>> = <<w, 1>>
  BY <1>1
<1> QED BY <1>2

\* The numbers below that of the next snapshot.
LEMMA Below ==
  ASSUME NEW n \in 1 .. MaxSnapshots + 1
  PROVE  0 .. n - 1 = {v \in 0 .. MaxSnapshots : v < n}
BY SnapshotAssumption

\* A whole snapshot that was made decodes, as that snapshot.
LEMMA Decoded ==
  ASSUME next \in 1 .. MaxSnapshots + 1, NEW v \in Snapshots
  PROVE  Decodes(Blocks(v)) /\ SnapshotOf(Blocks(v)) = v
<1>1. 0 .. next - 1 = Snapshots
  BY Below DEF Snapshots
<1>2. \A w \in Snapshots : Blocks(v) = Blocks(w) => w = v
  BY BlocksDiffer DEF Snapshots
<1> QED BY <1>1, <1>2 DEF Decodes, SnapshotOf
-----------------------------------------------------------------------------
(* Free inodes.                                                              *)

\* A set that is the image of a finite one has no more elements.
LEMMA ImageBound ==
  ASSUME NEW S, IsFiniteSet(S), NEW f, f = [x \in S |-> f[x]]
  PROVE  /\ IsFiniteSet({f[x] : x \in S}) /\ Cardinality({f[x] : x \in S}) \in Nat
         /\ Cardinality({f[x] : x \in S}) <= Cardinality(S)
<1> DEFINE T == {f[x] : x \in S}
<1>1. f \in Surjection(S, T)
  BY DEF Surjection
<1> HIDE DEF T
<1>2. IsFiniteSet(T) /\ Cardinality(T) <= Cardinality(S)
  BY <1>1, FS_Surjection
<1>3. Cardinality(T) \in Nat
  BY <1>2, FS_CardinalityType
<1> QED BY <1>2, <1>3 DEF T

\* Two sets together have at most as many elements as both.
LEMMA UnionBound ==
  ASSUME NEW S, NEW T, IsFiniteSet(S), IsFiniteSet(T), NEW m \in Nat, NEW n \in Nat,
         Cardinality(S) <= m, Cardinality(T) <= n
  PROVE  IsFiniteSet(S \cup T) /\ Cardinality(S \cup T) <= m + n
<1>1. /\ IsFiniteSet(S \cup T)
      /\ Cardinality(S \cup T) = Cardinality(S) + Cardinality(T) - Cardinality(S \cap T)
  BY FS_Union
<1>2. IsFiniteSet(S \cap T)
  BY FS_Intersection
<1>3. {Cardinality(S), Cardinality(T), Cardinality(S \cap T)} \subseteq Nat
  BY <1>2, FS_CardinalityType
<1> QED BY <1>1, <1>3

\* When a name is free there is an inode that nobody uses: the names take three
\* at most, and each request two.
LEMMA InodeFree ==
  ASSUME dir \in [Names -> Inodes \cup {NoInode}], proc \in [Procs -> Proc],
         NEW name \in Names, dir[name] = NoInode
  PROVE  FreshInode \in Inodes /\ FreshInode \notin InUse
<1> DEFINE other == Names \ {name}
           c == Cardinality(Procs)
           named == {dir[n] : n \in other}
           srcOf == [p \in Procs |-> proc[p].src]
           dstOf == [p \in Procs |-> proc[p].dst]
           srcs == {srcOf[p] : p \in Procs}
           dsts == {dstOf[p] : p \in Procs}
<1>1. IsFiniteSet(Procs) /\ c \in Nat
  BY SnapshotAssumption, FS_CardinalityType
<1>2. IsFiniteSet(Names) /\ Cardinality(Names) = 4
  <2>1. IsFiniteSet({}) /\ Cardinality({}) = 0
    BY FS_EmptySet
  <2>2. IsFiniteSet({"state"}) /\ Cardinality({"state"}) = 1
    BY FS_Singleton
  <2> DEFINE two == {"state"} \cup {"state.tmp"}
             three == two \cup {"backup"}
  <2>3. IsFiniteSet(two) /\ Cardinality(two) = 2
    BY <2>2, FS_AddElement
  <2>4. "backup" \notin two /\ "backup.tmp" \notin three
    OBVIOUS
  <2>5. Names = three \cup {"backup.tmp"}
    BY DEF Names
  <2> HIDE DEF two, three
  <2>6. IsFiniteSet(three) /\ Cardinality(three) = 3
    BY <2>3, <2>4, FS_AddElement DEF three
  <2>7. IsFiniteSet(three \cup {"backup.tmp"}) /\ Cardinality(three \cup {"backup.tmp"}) = 4
    BY <2>4, <2>6, FS_AddElement
  <2> QED BY <2>5, <2>7
<1>3. IsFiniteSet(other) /\ Cardinality(other) = 3
  BY <1>2, FS_RemoveElement
<1>4. IsFiniteSet(named) /\ Cardinality(named) <= 3
  <2> DEFINE f == [n \in other |-> dir[n]]
  <2>1. f = [n \in other |-> f[n]] /\ named = {f[n] : n \in other}
    OBVIOUS
  <2> HIDE DEF f, other, named
  <2>2. IsFiniteSet({f[n] : n \in other}) /\ Cardinality({f[n] : n \in other}) <= Cardinality(other)
    BY <1>3, <2>1, ImageBound
  <2> QED BY <1>3, <2>1, <2>2
<1>5. IsFiniteSet(srcs) /\ Cardinality(srcs) <= c
  <2>1. srcOf = [p \in Procs |-> srcOf[p]]
    OBVIOUS
  <2> HIDE DEF srcOf
  <2> QED BY <1>1, <2>1, ImageBound
<1>6. IsFiniteSet(dsts) /\ Cardinality(dsts) <= c
  <2>1. dstOf = [p \in Procs |-> dstOf[p]]
    OBVIOUS
  <2> HIDE DEF dstOf
  <2> QED BY <1>1, <2>1, ImageBound
<1>7. IsFiniteSet(named \cup srcs \cup dsts) /\ Cardinality(named \cup srcs \cup dsts) <= 3 + c + c
  <2> HIDE DEF named, srcs, dsts, c
  <2>1. IsFiniteSet(named \cup srcs) /\ Cardinality(named \cup srcs) <= 3 + c
    BY <1>1, <1>4, <1>5, UnionBound
  <2> DEFINE d == 3 + c
  <2>2. d \in Nat /\ Cardinality(named \cup srcs) <= d
    BY <1>1, <2>1
  <2> HIDE DEF d
  <2>3. IsFiniteSet(named \cup srcs \cup dsts) /\ Cardinality(named \cup srcs \cup dsts) <= d + c
    BY <1>1, <1>6, <2>1, <2>2, UnionBound
  <2> QED BY <2>3 DEF d
<1>8. InUse \ {NoInode} \subseteq named \cup srcs \cup dsts
  BY DEF InUse
<1>9. Cardinality(Inodes) = 4 + 2 * c
  <2> HIDE DEF c
  <2>1. Inodes = 1 .. 4 + 2 * c
    BY DEF Inodes, c
  <2> QED BY <1>1, <2>1, FS_Interval
<1>10. ~(Inodes \subseteq InUse)
  <2> HIDE DEF named, srcs, dsts, c
  <2> SUFFICES ASSUME Inodes \subseteq InUse
               PROVE  FALSE
    OBVIOUS
  <2>1. Inodes \in SUBSET (named \cup srcs \cup dsts)
    BY <1>8 DEF Inodes, NoInode
  <2>2. Cardinality(Inodes) <= Cardinality(named \cup srcs \cup dsts)
    BY <1>7, <2>1, FS_Subset
  <2>3. Cardinality(named \cup srcs \cup dsts) \in Nat
    BY <1>7, FS_CardinalityType
  <2> QED BY <1>1, <1>7, <1>9, <2>2, <2>3
<1> QED BY <1>10 DEF FreshInode
-----------------------------------------------------------------------------
(* The three kinds of step on the files.                                     *)

\* Only the temporary file of name is created, truncated or written.
Touches(name) ==
  LET tmp == TmpOf(name) IN
  /\ dir' \in [Names -> Inodes \cup {NoInode}] /\ data' \in [Inodes -> Seq(Block)]
  /\ dir'[tmp] \in Inodes
  /\ \A n \in Names \ {tmp} : dir'[n] = dir[n] /\ dir'[n] # dir'[tmp]
  /\ \A q \in Procs : proc[q].src # dir'[tmp] \/ proc[q].pc \notin Copying
  /\ \A i \in Inodes : i # dir'[tmp] => data'[i] = data[i]

\* The temporary file of name is renamed into place.
Renames(name) ==
  /\ dir[TmpOf(name)] # NoInode
  /\ dir' = [dir EXCEPT ![name] = dir[TmpOf(name)], ![TmpOf(name)] = NoInode]
  /\ data' = data

\* One request moves; snapshots are made and backups taken, none is lost.
Moved(p) ==
  /\ proc' \in [Procs -> Proc] /\ \A q \in Procs \ {p} : proc'[q] = proc[q]
  /\ next' \in 1 .. MaxSnapshots + 1 /\ next <= next'
  /\ past.kept \subseteq past'.kept /\ past'.kept \subseteq Snapshots'

Stored == {"state", "backup"}

\* Opening a temporary file touches it only.
LEMMA OpenTouches ==
  ASSUME FilesSound, NEW name \in Stored, OpenTrunc(TmpOf(name))
  PROVE  /\ Touches(name) /\ dir'[TmpOf(name)] = OpenInode(TmpOf(name))
         /\ data'[dir'[TmpOf(name)]] = << >>
<1> DEFINE tmp == TmpOf(name)
           i == OpenInode(tmp)
<1>1. tmp \in Names /\ tmp \in {"state.tmp", "backup.tmp"}
  BY DEF TmpOf, Names
<1>2. /\ i \in Inodes /\ \A n \in Names \ {tmp} : dir[n] # i
      /\ \A q \in Procs : proc[q].src # i \/ proc[q].pc \notin Copying
  <2> HIDE DEF tmp
  <2>1. CASE dir[tmp] = NoInode
    <3>1. i = FreshInode /\ FreshInode \in Inodes /\ FreshInode \notin InUse
      BY <1>1, <2>1, InodeFree DEF FilesSound, TypeOK, OpenInode
    <3> QED BY <3>1 DEF InUse
  <2>2. CASE dir[tmp] # NoInode
    <3>1. i = dir[tmp] /\ i \in Inodes
      BY <1>1, <2>2 DEF FilesSound, TypeOK, OpenInode
    <3>2. \A n \in Names \ {tmp} : dir[n] # i
      BY <1>1, <2>2, <3>1 DEF FilesSound, NamesApart
    <3>3. \A q \in Procs : proc[q].src # i \/ proc[q].pc \notin Copying
      BY <1>1, <3>1 DEF FilesSound, CopySound
    <3> QED BY <3>1, <3>2, <3>3
  <2> QED BY <2>1, <2>2
<1>3. dir' = [dir EXCEPT ![tmp] = i] /\ data' = [data EXCEPT ![i] = << >>]
  BY DEF OpenTrunc
<1>4. /\ dir \in [Names -> Inodes \cup {NoInode}] /\ data \in [Inodes -> Seq(Block)]
      /\ << >> \in Seq(Block)
  BY EmptySeq DEF FilesSound, TypeOK
<1> HIDE DEF i
<1> QED BY <1>1, <1>2, <1>3, <1>4 DEF Touches, i

\* So does writing to it.
LEMMA WriteTouches ==
  ASSUME FilesSound, NEW name \in Stored, dir[TmpOf(name)] # NoInode, NEW s \in Seq(Block),
         dir' = dir, data' = [data EXCEPT ![dir[TmpOf(name)]] = s]
  PROVE  Touches(name) /\ data'[dir'[TmpOf(name)]] = s
<1> DEFINE tmp == TmpOf(name)
<1>1. tmp \in Names /\ tmp \in {"state.tmp", "backup.tmp"}
  BY DEF TmpOf, Names
<1> HIDE DEF tmp
<1>2. /\ dir \in [Names -> Inodes \cup {NoInode}] /\ data \in [Inodes -> Seq(Block)]
      /\ dir[tmp] \in Inodes
  BY <1>1 DEF FilesSound, TypeOK, tmp
<1>3. \A n \in Names \ {tmp} : dir[n] # dir[tmp]
  BY <1>1, <1>2 DEF FilesSound, NamesApart, tmp
<1>4. \A q \in Procs : proc[q].src # dir[tmp] \/ proc[q].pc \notin Copying
  BY <1>1 DEF FilesSound, CopySound
<1> QED BY <1>1, <1>2, <1>3, <1>4 DEF Touches, tmp

\* What has a name that is not temporary, or is being copied, keeps its blocks.
LEMMA TouchKeepsNames ==
  ASSUME FilesSound, NEW name \in Stored, Touches(name)
  PROVE  /\ NamesApart'
         /\ \A n \in Names \ {TmpOf(name)} :
              dir'[n] = dir[n] /\ (dir[n] # NoInode => data'[dir[n]] = data[dir[n]])
         /\ \A q \in Procs : proc[q].pc \in Copying => data'[proc[q].src] = data[proc[q].src]
<1>1. NamesApart'
  BY DEF FilesSound, NamesApart, Touches
<1>2. \A n \in Names \ {TmpOf(name)} :
              dir'[n] = dir[n] /\ (dir[n] # NoInode => data'[dir[n]] = data[dir[n]])
  BY DEF FilesSound, TypeOK, Touches
<1>3. ASSUME NEW q \in Procs, proc[q].pc \in Copying
      PROVE  data'[proc[q].src] = data[proc[q].src]
  <2>1. proc[q].src \in Inodes
    BY <1>3 DEF FilesSound, TypeOK, CopySound, Proc
  <2> QED BY <1>3, <2>1 DEF Touches
<1> QED BY <1>1, <1>2, <1>3
\* Snapshots that were made stay made.
LEMMA SnapshotsKept ==
  ASSUME NEW p \in Procs, Moved(p), next \in 1 .. MaxSnapshots + 1
  PROVE  Snapshots \subseteq Snapshots' /\ Snapshots \subseteq 0 .. MaxSnapshots
BY SnapshotAssumption DEF Moved, Snapshots

\* The state file and the backup stay as they are while only temporary files
\* are touched.
LEMMA FilesKept ==
  ASSUME FilesSound, NEW p \in Procs, Moved(p), acked' = acked,
         (dir' = dir /\ data' = data) \/ \E name \in Stored : Touches(name)
  PROVE  NamesApart' /\ StateSound' /\ BackupSound'
<1>1. \A n \in Stored : dir'[n] = dir[n] /\ (dir[n] # NoInode => data'[dir[n]] = data[dir[n]])
  <2>1. ASSUME NEW name \in Stored, Touches(name)
        PROVE  \A n \in Stored : dir'[n] = dir[n]
                                 /\ (dir[n] # NoInode => data'[dir[n]] = data[dir[n]])
    <3>1. \A n \in Stored : n \in Names \ {TmpOf(name)}
      BY DEF Stored, Names, TmpOf
    <3> QED BY <2>1, <3>1, TouchKeepsNames
  <2> QED BY <2>1
<1>2. NamesApart'
  BY TouchKeepsNames DEF FilesSound, NamesApart
<1>3. next \in 1 .. MaxSnapshots + 1 /\ Snapshots \subseteq Snapshots'
  BY SnapshotsKept DEF FilesSound, TypeOK
<1>4. StateSound'
  BY <1>1, <1>3 DEF FilesSound, StateSound, StateHolds, Stored, Blocks
<1>5. BackupSound'
  BY <1>1 DEF FilesSound, BackupSound, Stored, Moved, Blocks
<1> QED BY <1>2, <1>4, <1>5

\* The name whose temporary file a request writes.
WriterOf(q) == IF q.pc \in {"saveWrite", "saveRename"} THEN "state" ELSE Target(q.op)

\* A request whose temporary file and source keep their blocks stays sound.
LEMMA RequestKept ==
  ASSUME FilesSound, NEW p \in Procs, Moved(p), NEW q \in Procs \ {p},
         NEW tmp, tmp = TmpOf(WriterOf(proc[q])),
         proc[q].pc \in {"saveWrite", "saveRename"} \cup Copying =>
           dir'[tmp] = dir[tmp] /\ (dir[tmp] # NoInode => data'[dir[tmp]] = data[dir[tmp]]),
         proc[q].pc \in Copying =>
           /\ proc[q].src \notin {dir'["state.tmp"], dir'["backup.tmp"]}
           /\ data'[proc[q].src] = data[proc[q].src]
  PROVE  SaveSound(q)' /\ CopySound(q)'
<1>1. proc'[q] = proc[q] /\ proc'[q] \in Proc
  BY DEF Moved
<1>2. SaveSound(q) /\ CopySound(q)
  BY DEF FilesSound
<1>3. SaveSound(q)'
  <2> SUFFICES ASSUME proc[q].pc \in {"saveWrite", "saveRename"}
               PROVE  SaveSound(q)'
    BY <1>1 DEF SaveSound
  <2>1. tmp = "state.tmp"
    BY DEF WriterOf, TmpOf
  <2> QED BY <1>1, <1>2, <2>1 DEF SaveSound, Holds
<1>4. CopySound(q)'
  <2> SUFFICES ASSUME proc[q].pc \in Copying
               PROVE  CopySound(q)'
    BY <1>1 DEF CopySound
  <2>1. tmp = TmpOf(Target(proc[q].op))
    BY DEF WriterOf, Copying
  <2>2. PICK v \in Snapshots : Carries(q, v)
    BY <1>2 DEF CopySound
  <2>3. v \in Snapshots'
    BY SnapshotsKept DEF FilesSound, TypeOK
  <2>4. Carries(q, v)'
    BY <1>1, <2>1, <2>2 DEF Carries, Holds, Moved, Blocks
  <2> QED BY <1>1, <1>2, <2>3, <2>4 DEF CopySound
<1> QED BY <1>3, <1>4

\* That is so for a request that does not write the temporary file that is
\* touched or renamed.
LEMMA OthersKept ==
  ASSUME FilesSound, NEW p \in Procs, Moved(p), NEW q \in Procs \ {p},
         \/ dir' = dir /\ data' = data
         \/ \E name \in Stored : q \notin Writers(name) /\ (Touches(name) \/ Renames(name))
  PROVE  SaveSound(q)' /\ CopySound(q)'
<1> DEFINE tmp == TmpOf(WriterOf(proc[q]))
<1>1. CopySound(q) /\ dir \in [Names -> Inodes \cup {NoInode}]
  BY DEF FilesSound, TypeOK
<1>2. CASE dir' = dir /\ data' = data
  BY <1>1, <1>2, RequestKept DEF CopySound
<1>3. ASSUME NEW name \in Stored, q \notin Writers(name), Touches(name) \/ Renames(name)
      PROVE  SaveSound(q)' /\ CopySound(q)'
  <2>1. proc[q].pc \in {"saveWrite", "saveRename"} \cup Copying
          => tmp \in Names \ Stored /\ tmp # TmpOf(name)
    <3> SUFFICES ASSUME proc[q].pc \in {"saveWrite", "saveRename"} \cup Copying
                 PROVE  WriterOf(proc[q]) # name
      BY DEF WriterOf, Target, TmpOf, Names, Stored
    <3> QED BY <1>3 DEF Writers, WriterOf, Copying
  <2>2. CASE Touches(name)
    <3>1. proc[q].pc \in {"saveWrite", "saveRename"} \cup Copying =>
           dir'[tmp] = dir[tmp] /\ (dir[tmp] # NoInode => data'[dir[tmp]] = data[dir[tmp]])
      BY <2>1, <2>2, TouchKeepsNames
    <3>2. proc[q].pc \in Copying =>
           /\ proc[q].src \notin {dir'["state.tmp"], dir'["backup.tmp"]}
           /\ data'[proc[q].src] = data[proc[q].src]
      <4> SUFFICES ASSUME proc[q].pc \in Copying
                   PROVE  /\ proc[q].src \notin {dir'["state.tmp"], dir'["backup.tmp"]}
                          /\ data'[proc[q].src] = data[proc[q].src]
        OBVIOUS
      <4>1. data'[proc[q].src] = data[proc[q].src]
        BY <2>2, TouchKeepsNames
      <4>2. \A n \in {"state.tmp", "backup.tmp"} : n # TmpOf(name) => dir'[n] = dir[n]
        BY <2>2 DEF Touches, Names
      <4>3. proc[q].src # dir'[TmpOf(name)]
        BY <2>2 DEF Touches
      <4>4. \A n \in {"state.tmp", "backup.tmp"} : proc[q].src # dir[n]
        BY <1>1 DEF CopySound
      <4> QED BY <4>1, <4>2, <4>3, <4>4
    <3> HIDE DEF tmp
    <3> QED BY <3>1, <3>2, RequestKept DEF tmp
  <2>3. CASE Renames(name)
    <3>1. \A n \in {"state.tmp", "backup.tmp"} :
             dir'[n] = IF n = TmpOf(name) THEN NoInode ELSE dir[n]
      BY <1>1, <1>3, <2>3 DEF Renames, TmpOf, Names, Stored
    <3>2. proc[q].pc \in {"saveWrite", "saveRename"} \cup Copying =>
           dir'[tmp] = dir[tmp] /\ (dir[tmp] # NoInode => data'[dir[tmp]] = data[dir[tmp]])
      BY <2>1, <2>3, <3>1 DEF Renames, Names, Stored
    <3>3. proc[q].pc \in Copying =>
           /\ proc[q].src \notin {dir'["state.tmp"], dir'["backup.tmp"]}
           /\ data'[proc[q].src] = data[proc[q].src]
      BY <1>1, <2>3, <3>1 DEF Renames, CopySound
    <3> HIDE DEF tmp
    <3> QED BY <3>2, <3>3, RequestKept DEF tmp
  <2> QED BY <1>3, <2>2, <2>3
<1> QED BY <1>2, <1>3
\* A request that takes a step.
LEMMA StepMoves ==
  ASSUME FilesSound, NEW p \in Procs, NEW rec \in Proc, Step(p, rec),
         next' = next \/ (next' = next + 1 /\ next <= MaxSnapshots),
         past.kept \subseteq past'.kept, past'.kept \subseteq Snapshots'
  PROVE  Moved(p) /\ proc'[p] = rec
<1>1. next' \in 1 .. MaxSnapshots + 1 /\ next <= next'
  BY SnapshotAssumption DEF FilesSound, TypeOK
<1> QED BY <1>1 DEF Moved, Step, FilesSound, TypeOK

\* A writer joins a temporary file that has none, or stays.
LEMMA WritersKept ==
  ASSUME FilesSound, NEW p \in Procs, Moved(p),
         \A name \in Stored : p \in Writers(name)' => p \in Writers(name) \/ Writers(name) = {}
  PROVE  OneWriter'
<1>1. \A name \in Stored : \A q \in Procs \ {p} : q \in Writers(name)' => q \in Writers(name)
  BY DEF Moved, Writers
<1>2. \A name \in Stored : \A q \in Writers(name)' : q \in Procs
  BY DEF Writers
<1>3. \A name \in Stored : \A q, r \in Writers(name) : q = r
  BY DEF FilesSound, OneWriter, Stored
<1>4. \A name \in Stored : \A q, r \in Writers(name)' : q = r
  BY <1>1, <1>2, <1>3
<1> QED BY <1>4 DEF OneWriter, Stored

\* Steps that leave the mutex and memory alone.
LEMMA LockQuiet ==
  ASSUME FilesSound, NEW p \in Procs, Moved(p), lock' = lock, mem' = mem,
         proc'[p].pc \in Saving => proc[p].pc \in Saving /\ proc'[p].ver = proc[p].ver
  PROVE  LockSound'
BY DEF FilesSound, LockSound, Moved

\* The state file holds what it held.
SameFile == data'[dir'["state"]] = data[dir["state"]]

\* What a step has to keep when it does not rename: the rest follows.
LEMMA MoveKeeps ==
  ASSUME FilesSound, NEW p \in Procs, Moved(p), acked' = acked, mem' \in Snapshots',
         \/ dir' = dir /\ data' = data
         \/ \E name \in Stored : Touches(name) /\ \A q \in Procs \ {p} : q \notin Writers(name),
         \A name \in Stored : p \in Writers(name)' => p \in Writers(name) \/ Writers(name) = {},
         LockSound', SaveSound(p)', CopySound(p)'
  PROVE  FilesSound' /\ SameFile
<1>1. TypeOK'
  BY DEF FilesSound, TypeOK, Moved, Touches
<1>2. NamesApart' /\ StateSound' /\ BackupSound'
  BY FilesKept
<1>3. OneWriter'
  BY WritersKept
<1>4. \A q \in Procs : SaveSound(q)' /\ CopySound(q)'
  BY OthersKept
<1>5. SameFile
  <2>1. ASSUME NEW name \in Stored, Touches(name)
        PROVE  SameFile
    <3>1. "state" \in Names \ {TmpOf(name)}
      BY DEF Names, TmpOf
    <3> QED BY <2>1, <3>1, TouchKeepsNames DEF SameFile, FilesSound, StateSound
  <2> QED BY <2>1 DEF SameFile
<1> QED BY <1>1, <1>2, <1>3, <1>4, <1>5 DEF FilesSound
-----------------------------------------------------------------------------
(* Every step keeps the files sound, until two writers meet.                 *)

\* An idle request is one.
LEMMA IdleType == IdleProc \in Proc /\ IdleProc.pc = "idle"
<1>1. 0 \in 0 .. MaxSnapshots
  BY SnapshotAssumption
<1> QED BY <1>1 DEF IdleProc, Proc, Pc

\* A save begins.
LEMMA BeginSaveKeeps ==
  ASSUME FilesSound, NEW p \in Procs, NEW op \in {"mutate", "resave"}, BeginSave(p, op)
  PROVE  FilesSound' /\ SameFile
<1> DEFINE rec == [IdleProc EXCEPT !.pc = "lock", !.op = op]
<1>1. rec \in Proc /\ rec.pc = "lock"
  BY IdleType DEF Proc, Pc
<1>2. /\ Step(p, rec) /\ dir' = dir /\ data' = data /\ mem' = mem /\ next' = next
      /\ lock' = lock /\ acked' = acked /\ past' = past
  BY DEF BeginSave
<1> HIDE DEF rec
<1>3. Snapshots' = Snapshots /\ mem \in Snapshots /\ past.kept \subseteq Snapshots
  BY <1>2 DEF FilesSound, TypeOK, Snapshots
<1>4. Moved(p) /\ proc'[p].pc = "lock"
  BY <1>1, <1>2, <1>3, StepMoves
<1>5. LockSound'
  BY <1>2, <1>4, LockQuiet DEF Saving
<1>6. SaveSound(p)' /\ CopySound(p)'
  BY <1>4 DEF SaveSound, CopySound, Copying
<1>7. \A name \in Stored : p \notin Writers(name)'
  BY <1>4 DEF Writers
<1> QED BY <1>2, <1>3, <1>4, <1>5, <1>6, <1>7, MoveKeeps

\* A repository method has the mutex: memory changes, no file does.
LEMMA LockAndMutateKeeps ==
  ASSUME FilesSound, NEW p \in Procs, LockAndMutate(p)
  PROVE  FilesSound' /\ SameFile
<1> DEFINE rec == [proc[p] EXCEPT !.pc = "saveOpen", !.ver = mem']
<1>1. /\ Step(p, rec) /\ dir' = dir /\ data' = data /\ acked' = acked /\ past' = past
      /\ lock = {} /\ lock' = {p}
  BY DEF LockAndMutate
<1>2. /\ next' = next \/ (next' = next + 1 /\ next <= MaxSnapshots)
      /\ mem' \in Snapshots' /\ Snapshots \subseteq Snapshots'
  BY SnapshotAssumption DEF LockAndMutate, FilesSound, TypeOK, Snapshots
<1>3. rec \in Proc /\ rec.pc = "saveOpen" /\ rec.ver = mem'
  BY <1>2 DEF FilesSound, TypeOK, Proc, Pc, Snapshots
<1>4. past.kept \subseteq Snapshots'
  BY <1>2 DEF FilesSound, TypeOK
<1> HIDE DEF rec
<1>5. Moved(p) /\ proc'[p].pc = "saveOpen" /\ proc'[p].ver = mem'
  BY <1>1, <1>2, <1>3, <1>4, StepMoves
<1>6. LockSound'
  BY <1>1, <1>5 DEF FilesSound, LockSound, Moved
<1>7. SaveSound(p)' /\ CopySound(p)'
  BY <1>5 DEF SaveSound, CopySound, Copying
<1>8. \A name \in Stored : p \notin Writers(name)'
  BY <1>5 DEF Writers
<1> QED BY <1>1, <1>2, <1>5, <1>6, <1>7, <1>8, MoveKeeps
\* A writer that does not meet another one: nobody has the temporary file open.
LEMMA Unmet ==
  ASSUME StateFileInv, NEW name, Meets(name), past'.raced = FALSE
  PROVE  Writers(name) = {} /\ past'.kept = past.kept
BY DEF StateFileInv, Meets

\* A save creates or truncates its temporary file.
LEMMA SaveOpenKeeps ==
  ASSUME FilesSound, NEW p \in Procs, SaveOpen(p), Writers("state") = {}, past'.kept = past.kept
  PROVE  FilesSound' /\ SameFile
<1> DEFINE rec == [proc[p] EXCEPT !.pc = "saveWrite", !.dst = OpenInode("state.tmp"), !.pos = 1]
<1>1. /\ proc[p].pc = "saveOpen" /\ Step(p, rec) /\ OpenTrunc("state.tmp")
      /\ mem' = mem /\ next' = next /\ lock' = lock /\ acked' = acked
  BY DEF SaveOpen
<1>2. TmpOf("state") = "state.tmp" /\ "state" \in Stored
  BY DEF TmpOf, Stored
<1>3. /\ Touches("state") /\ dir'["state.tmp"] = OpenInode("state.tmp")
      /\ data'[dir'["state.tmp"]] = << >>
  BY <1>1, <1>2, OpenTouches
<1>4. dir'["state.tmp"] \in Inodes
  BY <1>2, <1>3 DEF Touches
<1>5. /\ rec \in Proc /\ rec.pc = "saveWrite" /\ rec.dst = OpenInode("state.tmp") /\ rec.pos = 1
      /\ rec.ver = proc[p].ver
  BY <1>3, <1>4 DEF FilesSound, TypeOK, Proc, Pc
<1>6. Snapshots' = Snapshots /\ mem \in Snapshots /\ past.kept \subseteq Snapshots
  BY <1>1 DEF FilesSound, TypeOK, Snapshots
<1> HIDE DEF rec
<1>7. Moved(p) /\ proc'[p] = rec
  BY <1>1, <1>5, <1>6, StepMoves
<1>8. LockSound'
  BY <1>1, <1>5, <1>7, LockQuiet DEF Saving
<1>9. SaveSound(p)'
  <2>1. proc[p].ver \in 0 .. MaxSnapshots
    BY DEF FilesSound, TypeOK, Proc
  <2>2. Sizes[proc[p].ver] \in Nat \ {0} /\ data'[dir'["state.tmp"]] = Part(proc[p].ver, 0)
    BY <1>3, <2>1, BlocksArePart, PartEmpty
  <2> QED BY <1>3, <1>4, <1>5, <1>7, <2>2 DEF SaveSound, Holds, Inodes, NoInode
<1>10. CopySound(p)'
  BY <1>5, <1>7 DEF CopySound, Copying
<1>11. /\ p \notin Writers("backup")' /\ \A q \in Procs : q \notin Writers("state")
  BY <1>5, <1>7 DEF Writers
<1> QED BY <1>1, <1>2, <1>3, <1>6, <1>7, <1>8, <1>9, <1>10, <1>11, MoveKeeps DEF Stored

\* A save writes its next block; after the last one its temporary file is whole.
LEMMA SaveWriteKeeps ==
  ASSUME FilesSound, NEW p \in Procs, SaveWrite(p)
  PROVE  FilesSound' /\ SameFile
<1> DEFINE q == proc[p]
           last == q.pos = Sizes[q.ver]
           rec == IF last THEN [q EXCEPT !.pc = "saveRename", !.dst = NoInode]
                  ELSE [q EXCEPT !.pos = q.pos + 1]
           s == Overwrite(data[q.dst], q.pos, Blocks(q.ver)[q.pos])
<1>1. /\ q.pc = "saveWrite" /\ Step(p, rec) /\ data' = [data EXCEPT ![q.dst] = s] /\ dir' = dir
      /\ mem' = mem /\ next' = next /\ lock' = lock /\ acked' = acked /\ past' = past
  BY DEF SaveWrite
<1>2. q \in Proc /\ q.ver \in 0 .. MaxSnapshots /\ q.pos \in Nat
  BY DEF FilesSound, TypeOK, Proc
<1>3. /\ q.dst = dir["state.tmp"] /\ dir["state.tmp"] # NoInode /\ q.pos \in 1 .. Sizes[q.ver]
      /\ data[q.dst] = Part(q.ver, q.pos - 1)
  BY <1>1 DEF FilesSound, SaveSound, Holds
<1>4. Sizes[q.ver] \in Nat \ {0} /\ Blocks(q.ver)[q.pos] = <<q.ver, q.pos>>
  BY <1>2, <1>3, BlocksArePart
<1>5. s = Part(q.ver, q.pos)
  <2>1. q.pos - 1 \in Nat /\ q.ver \in Int /\ (q.pos - 1) + 1 = q.pos
    BY <1>2, <1>3
  <2> DEFINE n == q.pos - 1
  <2> HIDE DEF n
  <2>2. Overwrite(Part(q.ver, n), n + 1, <<q.ver, n + 1>>) = Part(q.ver, n + 1)
    BY <2>1, PartGrows DEF n
  <2>3. n + 1 = q.pos /\ data[q.dst] = Part(q.ver, n)
    BY <1>3, <2>1 DEF n
  <2> QED BY <1>4, <2>2, <2>3
<1> HIDE DEF s
<1>6. s \in Seq(Block)
  BY <1>2, <1>5, PartType
<1>7. TmpOf("state") = "state.tmp" /\ "state" \in Stored
  BY DEF TmpOf, Stored
<1>8. Touches("state") /\ data'[dir'["state.tmp"]] = s
  BY <1>1, <1>3, <1>6, <1>7, WriteTouches
<1>9. /\ rec \in Proc /\ rec.pc = IF last THEN "saveRename" ELSE "saveWrite"
      /\ rec.dst = IF last THEN NoInode ELSE q.dst
      /\ rec.pos = IF last THEN q.pos ELSE q.pos + 1
      /\ rec.ver = q.ver
  <2> HIDE DEF last, q
  <2>1. CASE last
    <3>1. rec = [q EXCEPT !.pc = "saveRename", !.dst = NoInode]
      BY <2>1
    <3> QED BY <1>2, <2>1, <3>1 DEF Proc, Pc
  <2>2. CASE ~last
    <3>1. rec = [q EXCEPT !.pos = q.pos + 1]
      BY <2>2
    <3> HIDE DEF rec
    <3> QED BY <1>1, <1>2, <2>2, <3>1 DEF Proc, Pc
  <2> QED BY <2>1, <2>2
<1>10. Snapshots' = Snapshots /\ mem \in Snapshots /\ past.kept \subseteq Snapshots
  BY <1>1 DEF FilesSound, TypeOK, Snapshots
<1> HIDE DEF rec
<1>11. Moved(p) /\ proc'[p] = rec
  BY <1>1, <1>9, <1>10, StepMoves
<1>12. LockSound'
  BY <1>1, <1>9, <1>11, LockQuiet DEF Saving
<1>13. SaveSound(p)'
  <2>1. CASE last
    BY <1>1, <1>3, <1>5, <1>8, <1>9, <1>11, <2>1 DEF SaveSound, Holds
  <2>2. CASE ~last
    <3>1. rec.pos \in 1 .. Sizes[q.ver] /\ rec.pos - 1 = q.pos
      BY <1>2, <1>3, <1>4, <1>9, <2>2
    <3> HIDE DEF last
    <3> QED BY <1>1, <1>3, <1>5, <1>8, <1>9, <1>11, <2>2, <3>1 DEF SaveSound, Holds
  <2> QED BY <2>1, <2>2
<1>14. CopySound(p)'
  BY <1>9, <1>11 DEF CopySound, Copying
<1>15. p \in Writers("state") /\ p \notin Writers("backup")'
  BY <1>1, <1>9, <1>11 DEF Writers
<1>16. \A r \in Procs \ {p} : r \notin Writers("state")
  BY <1>15 DEF FilesSound, OneWriter
<1> QED BY <1>1, <1>7, <1>8, <1>10, <1>11, <1>12, <1>13, <1>14, <1>15, <1>16, MoveKeeps DEF Stored
\* A whole temporary file is renamed by its writer, who is done with it.
LEMMA RenameKeeps ==
  ASSUME FilesSound, NEW p \in Procs, NEW name \in Stored, Moved(p), Renames(name),
         p \in Writers(name), NEW v \in Snapshots, data[dir[TmpOf(name)]] = Blocks(v),
         name = "state" => (acked' >= 0 => v = acked'),
         name = "backup" => v \in past'.kept /\ acked' = acked,
         proc'[p].pc \in {"idle", "lock"}, mem' \in Snapshots', LockSound'
  PROVE  FilesSound'
<1> DEFINE tmp == TmpOf(name)
<1>1. dir \in [Names -> Inodes \cup {NoInode}] /\ tmp \in Names /\ name \in Names /\ tmp \notin Stored
  BY DEF FilesSound, TypeOK, Names, TmpOf, Stored
<1>2. /\ dir' \in [Names -> Inodes \cup {NoInode}] /\ data' = data
      /\ dir'[name] = dir[tmp] /\ dir[tmp] # NoInode /\ dir'[tmp] = NoInode
      /\ \A n \in Names \ {name, tmp} : dir'[n] = dir[n]
  <2> HIDE DEF tmp
  <2>1. dir' = [dir EXCEPT ![name] = dir[tmp], ![tmp] = NoInode] /\ name # tmp
    BY <1>1 DEF Renames, tmp
  <2> QED BY <1>1, <2>1 DEF Renames, tmp
<1> HIDE DEF tmp
<1>3. TypeOK'
  BY <1>2 DEF FilesSound, TypeOK, Moved
<1>4. NamesApart'
  BY <1>1, <1>2 DEF FilesSound, NamesApart
<1>5. Snapshots \subseteq Snapshots'
  BY SnapshotsKept DEF FilesSound, TypeOK
<1>6. StateSound'
  <2>1. CASE name = "state"
    <3>1. dir'["state"] # NoInode /\ data'[dir'["state"]] = Blocks(v)
      BY <1>2, <2>1 DEF tmp
    <3> QED BY <1>5, <2>1, <3>1 DEF StateSound, StateHolds, Blocks
  <2>2. CASE name = "backup"
    <3>1. dir'["state"] = dir["state"] /\ acked' = acked
      BY <1>1, <1>2, <2>2 DEF Names, tmp, TmpOf
    <3> QED BY <1>2, <1>5, <3>1 DEF FilesSound, StateSound, StateHolds, Blocks
  <2> QED BY <2>1, <2>2 DEF Stored
<1>7. BackupSound'
  <2>1. CASE name = "backup"
    <3>1. dir'["backup"] # NoInode /\ data'[dir'["backup"]] = Blocks(v)
      BY <1>2, <2>1 DEF tmp
    <3> QED BY <2>1, <3>1 DEF BackupSound, Blocks
  <2>2. CASE name = "state"
    <3>1. dir'["backup"] = dir["backup"]
      BY <1>1, <1>2, <2>2 DEF Names, tmp, TmpOf
    <3> QED BY <1>2, <3>1 DEF FilesSound, BackupSound, Blocks, Moved
  <2> QED BY <2>1, <2>2 DEF Stored
<1>8. OneWriter'
  <2>1. \A n \in Stored : p \notin Writers(n)'
    BY DEF Writers
  <2> QED BY <2>1, WritersKept
<1>9. SaveSound(p)' /\ CopySound(p)'
  BY DEF SaveSound, CopySound, Copying
<1>10. \A q \in Procs \ {p} : q \notin Writers(name)
  BY DEF FilesSound, OneWriter, Stored
<1>11. \A q \in Procs \ {p} : SaveSound(q)' /\ CopySound(q)'
  BY <1>10, OthersKept
<1> QED BY <1>3, <1>4, <1>6, <1>7, <1>8, <1>9, <1>11 DEF FilesSound

\* A save takes effect: the state file is what memory was when it was encoded.
LEMMA SaveRenameKeeps ==
  ASSUME FilesSound, NEW p \in Procs, SaveRename(p)
  PROVE  FilesSound' /\ data'[dir'["state"]] = Blocks(mem)
<1>1. /\ proc[p].pc = "saveRename" /\ Step(p, IdleProc) /\ acked' = proc[p].ver /\ lock' = {}
      /\ mem' = mem /\ next' = next /\ past' = past
  BY DEF SaveRename, Done
<1>2. TmpOf("state") = "state.tmp" /\ "state" \in Stored /\ {"state", "state.tmp"} \subseteq Names
  BY DEF TmpOf, Stored, Names
<1>3. Renames("state")
  BY <1>2 DEF SaveRename, Rename, Renames
<1>4. /\ proc[p].ver = mem /\ lock = {p} /\ mem \in Snapshots /\ mem \in 0 .. MaxSnapshots
      /\ data[dir["state.tmp"]] = Part(mem, Sizes[mem])
  BY <1>1 DEF FilesSound, LockSound, Saving, SaveSound, Holds, TypeOK, Snapshots
<1>5. data[dir["state.tmp"]] = Blocks(mem)
  BY <1>4, BlocksArePart
<1>6. Snapshots' = Snapshots /\ past.kept \subseteq Snapshots
  BY <1>1 DEF FilesSound, TypeOK, Snapshots
<1>7. Moved(p) /\ proc'[p].pc = "idle"
  BY <1>1, <1>6, IdleType, StepMoves
<1>8. LockSound'
  BY <1>4, <1>7 DEF FilesSound, LockSound, Moved, Saving
<1>9. p \in Writers("state")
  BY <1>1 DEF Writers
<1>10. FilesSound'
  BY <1>1, <1>2, <1>3, <1>4, <1>5, <1>6, <1>7, <1>8, <1>9, RenameKeeps
<1>11. data'[dir'["state"]] = data[dir["state.tmp"]]
  BY <1>2, <1>3 DEF Renames, FilesSound, TypeOK
<1> QED BY <1>5, <1>10, <1>11

\* A save or a copy that fails leaves the files as they are.
LEMMA FailureKeeps ==
  ASSUME FilesSound, NEW p \in Procs, SaveFails(p) \/ CopyFails(p)
  PROVE  FilesSound' /\ SameFile
<1>1. /\ Step(p, IdleProc) /\ dir' = dir /\ data' = data /\ mem' = mem /\ next' = next
      /\ acked' = acked /\ past' = past
      /\ lock' = lock \/ proc[p].pc \in Saving
  BY DEF SaveFails, CopyFails, Done, Saving
<1>2. Snapshots' = Snapshots /\ mem \in Snapshots /\ past.kept \subseteq Snapshots
  BY <1>1 DEF FilesSound, TypeOK, Snapshots
<1>3. Moved(p) /\ proc'[p].pc = "idle"
  BY <1>1, <1>2, IdleType, StepMoves
<1>4. LockSound'
  BY <1>1, <1>3 DEF FilesSound, LockSound, Moved, Saving
<1>5. SaveSound(p)' /\ CopySound(p)'
  BY <1>3 DEF SaveSound, CopySound, Copying
<1>6. \A name \in Stored : p \notin Writers(name)'
  BY <1>3 DEF Writers
<1> QED BY <1>1, <1>2, <1>3, <1>4, <1>5, <1>6, MoveKeeps
\* The names of the two copies.
LEMMA CopyNames ==
  ASSUME NEW op \in {"backup", "restore"}
  PROVE  /\ Target(op) \in Stored /\ Source(op) \in Stored /\ Source(op) \in Names
         /\ TmpOf(Target(op)) \in {"state.tmp", "backup.tmp"} /\ TmpOf(Target(op)) \in Names
         /\ op = "backup" => Source(op) = "state" /\ Target(op) = "backup"
         /\ op = "restore" => Source(op) = "backup" /\ Target(op) = "state"
BY DEF Target, Source, TmpOf, Stored, Names

\* A copy opens its source and creates or truncates its temporary file.
LEMMA CopyOpenKeeps ==
  ASSUME FilesSound, NEW p \in Procs, NEW op \in {"backup", "restore"}, CopyOpen(p, op),
         Writers(Target(op)) = {}, past'.kept = past.kept
  PROVE  FilesSound' /\ SameFile
<1> DEFINE tmp == TmpOf(Target(op))
           src == dir[Source(op)]
           rec == [pc |-> "copy", op |-> op, ver |-> 0, src |-> src, dst |-> OpenInode(tmp), pos |-> 1]
<1>1. /\ src # NoInode /\ Step(p, rec) /\ OpenTrunc(tmp)
      /\ mem' = mem /\ next' = next /\ lock' = lock /\ acked' = acked
  BY DEF CopyOpen
<1>2. /\ Target(op) \in Stored /\ Source(op) \in Stored /\ Source(op) \in Names
      /\ tmp \in {"state.tmp", "backup.tmp"}
  BY CopyNames
<1>3. Touches(Target(op)) /\ dir'[tmp] = OpenInode(tmp) /\ data'[dir'[tmp]] = << >>
  BY <1>1, <1>2, OpenTouches
<1>4. dir'[tmp] \in Inodes /\ src \in Inodes
  BY <1>1, <1>2, <1>3 DEF Touches, FilesSound, TypeOK
<1>5. rec \in Proc
  <2>1. 0 \in 0 .. MaxSnapshots
    BY SnapshotAssumption
  <2> HIDE DEF tmp, src
  <2> QED BY <1>3, <1>4, <2>1 DEF Proc, Pc
<1>6. Snapshots' = Snapshots /\ mem \in Snapshots /\ past.kept \subseteq Snapshots
  BY <1>1 DEF FilesSound, TypeOK, Snapshots
<1>7. PICK v \in Snapshots : data[src] = Blocks(v) /\ (op = "restore" => v \in past.kept)
  <2>1. CASE op = "backup"
    BY <2>1, CopyNames DEF FilesSound, StateSound, StateHolds
  <2>2. CASE op = "restore"
    <3>1. Source(op) = "backup"
      BY <2>2, CopyNames
    <3>2. PICK v \in past.kept : data[src] = Blocks(v)
      BY <1>1, <3>1 DEF FilesSound, BackupSound
    <3> QED BY <1>6, <3>2
  <2> QED BY <2>1, <2>2
<1>8. src \notin {dir'["state.tmp"], dir'["backup.tmp"]} /\ data'[src] = Blocks(v)
  <2>1. {"state.tmp", "backup.tmp"} \subseteq Names \ Stored
    BY DEF Names, Stored
  <2>2. dir'[Source(op)] = src /\ data'[src] = data[src]
    BY <1>1, <1>2, <1>3, <2>1, TouchKeepsNames
  <2>3. \A n \in {"state.tmp", "backup.tmp"} : dir'[n] # dir'[Source(op)]
    <3>1. NamesApart'
      BY <1>2, <1>3, TouchKeepsNames
    <3> QED BY <1>1, <1>2, <2>1, <2>2, <3>1 DEF NamesApart
  <2> QED BY <1>7, <2>2, <2>3
<1>9. Moved(p) /\ proc'[p] = rec
  BY <1>1, <1>5, <1>6, StepMoves
<1>10. /\ proc'[p].pc = "copy" /\ proc'[p].op = op /\ proc'[p].src = src
       /\ proc'[p].dst = OpenInode(tmp) /\ proc'[p].pos = 1
  BY <1>9
<1> HIDE DEF rec, src, tmp
<1>11. LockSound'
  BY <1>1, <1>9, <1>10, LockQuiet DEF Saving
<1>12. SaveSound(p)'
  BY <1>10 DEF SaveSound
<1>13. CopySound(p)'
  <2>1. Sizes[v] \in Nat \ {0} /\ data'[dir'[tmp]] = Part(v, 0)
    <3>1. v \in 0 .. MaxSnapshots
      BY DEF Snapshots
    <3> QED BY <1>3, <3>1, BlocksArePart, PartEmpty
  <2>2. Holds(tmp, v, 0)'
    BY <1>4, <2>1 DEF Holds, Inodes, NoInode
  <2>3. Carries(p, v)'
    BY <1>3, <1>7, <1>8, <1>10, <2>1, <2>2 DEF Carries, tmp, Blocks
  <2> QED BY <1>1, <1>6, <1>8, <1>10, <2>3 DEF CopySound
<1>14. /\ \A name \in Stored : p \in Writers(name)' => name = Target(op)
       /\ \A q \in Procs : q \notin Writers(Target(op))
  BY <1>10 DEF Writers
<1> QED BY <1>1, <1>2, <1>3, <1>6, <1>9, <1>11, <1>12, <1>13, <1>14, MoveKeeps

\* A copy moves a block, or has moved the last one.
LEMMA CopyWriteKeeps ==
  ASSUME FilesSound, NEW p \in Procs, CopyWrite(p)
  PROVE  FilesSound' /\ SameFile
<1> DEFINE q == proc[p]
           name == Target(q.op)
           tmp == TmpOf(name)
<1>1. /\ q.pc = "copy" /\ dir' = dir /\ mem' = mem /\ next' = next /\ lock' = lock
      /\ acked' = acked /\ past' = past
  BY DEF CopyWrite
<1>2. q \in Proc /\ q.pos \in Nat
  BY DEF FilesSound, TypeOK, Proc
<1>3. /\ q.op \in {"backup", "restore"} /\ q.src # NoInode /\ q.src \in Inodes
      /\ q.src \notin {dir["state.tmp"], dir["backup.tmp"]}
  BY <1>1, <1>2 DEF FilesSound, CopySound, Copying, Proc
<1>4. PICK v \in Snapshots : Carries(p, v)
  BY <1>1 DEF FilesSound, CopySound, Copying
<1>5. /\ data[q.src] = Blocks(v) /\ (q.op = "restore" => v \in past.kept)
      /\ q.dst = dir[tmp] /\ q.pos \in 1 .. Sizes[v] + 1
      /\ dir[tmp] # NoInode /\ data[dir[tmp]] = Part(v, q.pos - 1)
  BY <1>1, <1>4 DEF Carries, Holds
<1>6. name \in Stored /\ tmp \in {"state.tmp", "backup.tmp"}
  BY <1>3, CopyNames
<1>7. /\ v \in 0 .. MaxSnapshots /\ Sizes[v] \in Nat \ {0} /\ Len(data[q.src]) = Sizes[v]
      /\ Blocks(v) = Part(v, Sizes[v])
  BY <1>5, BlocksArePart DEF Snapshots
<1>8. Snapshots' = Snapshots /\ mem \in Snapshots /\ past.kept \subseteq Snapshots
  BY <1>1 DEF FilesSound, TypeOK, Snapshots
<1>9. p \in Writers(name) /\ \A r \in Procs \ {p} : r \notin Writers(name)
  <2>1. p \in Writers(name)
    BY <1>1 DEF Writers
  <2> QED BY <1>6, <2>1 DEF FilesSound, OneWriter, Stored
<1>10. CASE q.pos <= Len(data[q.src])
  <2> DEFINE s == Overwrite(data[q.dst], q.pos, data[q.src][q.pos])
             rec == [q EXCEPT !.pos = q.pos + 1]
  <2>1. data' = [data EXCEPT ![dir[tmp]] = s] /\ Step(p, rec)
    BY <1>5, <1>10 DEF CopyWrite
  <2>2. s = Part(v, q.pos)
    <3>1. q.pos - 1 \in Nat /\ v \in Int /\ (q.pos - 1) + 1 = q.pos /\ q.pos \in 1 .. Sizes[v]
      BY <1>2, <1>5, <1>7, <1>10
    <3>2. data[q.src][q.pos] = <<v, q.pos>>
      BY <1>5, <1>7, <3>1, BlocksArePart
    <3> DEFINE n == q.pos - 1
    <3> HIDE DEF n
    <3>3. Overwrite(Part(v, n), n + 1, <<v, n + 1>>) = Part(v, n + 1)
      BY <3>1, PartGrows DEF n
    <3>4. n + 1 = q.pos /\ data[q.dst] = Part(v, n)
      BY <1>5, <3>1 DEF n
    <3> QED BY <3>2, <3>3, <3>4
  <2> HIDE DEF s
  <2>3. s \in Seq(Block)
    BY <1>2, <1>7, <2>2, PartType
  <2>4. Touches(name) /\ data'[dir'[tmp]] = s
    BY <1>1, <1>5, <1>6, <2>1, <2>3, WriteTouches
  <2>5. /\ rec \in Proc /\ rec.pc = "copy" /\ rec.op = q.op /\ rec.src = q.src
        /\ rec.dst = q.dst /\ rec.pos = q.pos + 1
    BY <1>1, <1>2 DEF Proc
  <2> HIDE DEF rec
  <2>6. Moved(p) /\ proc'[p] = rec
    BY <1>1, <1>8, <2>1, <2>5, StepMoves
  <2>7. LockSound' /\ SaveSound(p)'
    BY <1>1, <2>5, <2>6, LockQuiet DEF Saving, SaveSound
  <2>8. CopySound(p)'
    <3>1. data'[q.src] = data[q.src]
      BY <1>1, <1>6, <2>4, TouchKeepsNames DEF Copying
    <3>2. rec.pos \in 1 .. Sizes[v] + 1 /\ rec.pos - 1 = q.pos
      BY <1>2, <1>5, <1>7, <1>10, <2>5
    <3>3. dir'[tmp] # NoInode /\ data'[dir'[tmp]] = Part(v, q.pos)
      BY <1>1, <1>5, <2>2, <2>4
    <3>4. Carries(p, v)'
      BY <1>1, <1>5, <2>5, <2>6, <3>1, <3>2, <3>3 DEF Carries, Holds, Blocks
    <3> QED BY <1>1, <1>3, <1>8, <2>5, <2>6, <3>4 DEF CopySound
  <2>9. \A n \in Stored : p \in Writers(n)' => n = name
    BY <2>5, <2>6 DEF Writers
  <2> QED BY <1>1, <1>6, <1>8, <1>9, <2>4, <2>6, <2>7, <2>8, <2>9, MoveKeeps
<1>11. CASE ~(q.pos <= Len(data[q.src]))
  <2> DEFINE rec == [q EXCEPT !.pc = "copyRename", !.dst = NoInode]
  <2>1. data' = data /\ Step(p, rec)
    BY <1>11 DEF CopyWrite
  <2>2. q.pos - 1 = Sizes[v]
    BY <1>2, <1>5, <1>7, <1>11
  <2>3. rec \in Proc /\ rec.pc = "copyRename" /\ rec.op = q.op /\ rec.src = q.src
    BY <1>1, <1>2 DEF Proc, Pc
  <2> HIDE DEF rec
  <2>4. Moved(p) /\ proc'[p] = rec
    BY <1>1, <1>8, <2>1, <2>3, StepMoves
  <2>5. LockSound' /\ SaveSound(p)'
    <3>1. LockSound'
      BY <1>1, <2>3, <2>4, LockQuiet DEF Saving
    <3> QED BY <2>3, <2>4, <3>1 DEF SaveSound
  <2>6. CopySound(p)'
    <3>1. dir'[tmp] # NoInode /\ data'[dir'[tmp]] = Part(v, Sizes[v])
      BY <1>1, <1>5, <2>1, <2>2
    <3>2. Carries(p, v)'
      BY <1>1, <1>5, <2>1, <2>3, <2>4, <3>1 DEF Carries, Holds, Blocks
    <3> QED BY <1>1, <1>3, <1>8, <2>3, <2>4, <3>2 DEF CopySound
  <2>7. \A n \in Stored : p \in Writers(n)' => n = name
    BY <2>3, <2>4 DEF Writers
  <2> QED BY <1>1, <1>8, <1>9, <2>1, <2>4, <2>5, <2>6, <2>7, MoveKeeps
<1> QED BY <1>10, <1>11
\* A backup or a restore takes effect: the target is the snapshot of the source.
LEMMA CopyRenameKeeps ==
  ASSUME StateFileInv, FilesSound, NEW p \in Procs, CopyRename(p)
  PROVE  /\ FilesSound' /\ mem' = mem /\ next' = next
         /\ \E v \in Snapshots :
              \/ v \in past.kept /\ past' = past /\ data'[dir'["state"]] = Blocks(v)
              \/ past'.kept = past.kept \cup {v} /\ past'.raced = past.raced /\ SameFile
<1> DEFINE q == proc[p]
           name == Target(q.op)
           tmp == TmpOf(name)
           rec == [q EXCEPT !.pc = "lock", !.src = NoInode]
<1>1. /\ q.pc = "copyRename" /\ Step(p, rec) /\ Rename(tmp, name)
      /\ mem' = mem /\ next' = next /\ lock' = lock
  BY DEF CopyRename, RecordAudit
<1>2. q \in Proc /\ q.op \in {"backup", "restore"}
  BY <1>1 DEF FilesSound, TypeOK, CopySound, Copying
<1>3. PICK v \in Snapshots : Carries(p, v)
  BY <1>1 DEF FilesSound, CopySound, Copying
<1>4. /\ q.op = "restore" => v \in past.kept
      /\ dir[tmp] # NoInode /\ data[dir[tmp]] = Part(v, Sizes[v])
  BY <1>1, <1>3 DEF Carries, Holds
<1>5. data[dir[tmp]] = Blocks(v)
  BY <1>4, BlocksArePart DEF Snapshots
<1>6. name \in Stored /\ Renames(name) /\ tmp \in Names /\ name \in Names
  BY <1>1, <1>2, CopyNames DEF Rename, Renames, Names, Stored
<1>7. rec \in Proc /\ rec.pc = "lock"
  BY <1>2 DEF Proc, Pc
<1>8. /\ Snapshots' = Snapshots /\ past.kept \subseteq Snapshots /\ mem \in Snapshots
      /\ 0 .. next - 1 = Snapshots
  BY <1>1, Below DEF FilesSound, TypeOK, Snapshots
<1>9. p \in Writers(name)
  BY <1>1 DEF Writers
<1>10. dir'[name] = dir[tmp] /\ data' = data /\ \A n \in Stored \ {name} : dir'[n] = dir[n]
  BY <1>6 DEF Renames, FilesSound, TypeOK, Names, Stored, TmpOf
<1> HIDE DEF rec
<1>11. CASE q.op = "restore"
  <2>1. past' = past /\ acked' = -1 /\ name = "state" /\ v \in past.kept
    BY <1>4, <1>11, CopyNames DEF CopyRename
  <2>2. Moved(p) /\ proc'[p] = rec
    BY <1>1, <1>7, <1>8, <2>1, StepMoves
  <2>3. LockSound'
    BY <1>1, <1>7, <2>2, LockQuiet DEF Saving
  <2> HIDE DEF q, name
  <2>4. FilesSound'
    BY <1>1, <1>5, <1>6, <1>7, <1>8, <1>9, <2>1, <2>2, <2>3, RenameKeeps DEF tmp
  <2> QED BY <1>1, <1>5, <1>10, <2>1, <2>4
<1>12. CASE q.op = "backup"
  <2>1. /\ past' = [past EXCEPT !.kept = @ \cup {w \in 0 .. next - 1 : data[dir["backup.tmp"]] = Blocks(w)}]
        /\ acked' = acked /\ name = "backup" /\ tmp = "backup.tmp"
    BY <1>12, CopyNames DEF CopyRename, FileAt, TmpOf
  <2>2. {w \in 0 .. next - 1 : data[dir["backup.tmp"]] = Blocks(w)} = {v}
    BY <1>5, <1>8, <2>1, BlocksDiffer DEF Snapshots
  <2>3. past'.kept = past.kept \cup {v} /\ past'.raced = past.raced
    BY <2>1, <2>2 DEF StateFileInv
  <2>4. Moved(p) /\ proc'[p] = rec
    BY <1>1, <1>7, <1>8, <2>3, StepMoves
  <2>5. LockSound'
    BY <1>1, <1>7, <2>4, LockQuiet DEF Saving
  <2> HIDE DEF q, name
  <2>6. FilesSound'
    BY <1>1, <1>5, <1>6, <1>7, <1>8, <1>9, <2>1, <2>3, <2>4, <2>5, RenameKeeps DEF tmp
  <2>7. SameFile
    BY <1>10, <2>1 DEF SameFile, Stored
  <2> QED BY <1>1, <2>3, <2>6, <2>7
<1> QED BY <1>2, <1>11, <1>12

\* The process starts again from the state file.
LEMMA RestartKeeps ==
  ASSUME FilesSound, Restart
  PROVE  FilesSound' /\ SameFile /\ data[dir["state"]] = Blocks(mem') /\ mem' \in Snapshots
<1>1. /\ dir' = dir /\ data' = data /\ next' = next /\ acked' = acked /\ past' = past
      /\ proc' = [p \in Procs |-> IdleProc]
  BY DEF Restart
<1>2. PICK v \in Snapshots : StateHolds(v)
  BY DEF FilesSound, StateSound
<1>3. mem' = v
  BY <1>2, Decoded DEF Restart, StateHolds, FileAt, FilesSound, TypeOK
<1>4. \A p \in Procs : proc'[p] \in Proc /\ proc'[p].pc = "idle"
  BY <1>1, IdleType
<1>5. TypeOK'
  BY <1>1, <1>3, <1>4 DEF FilesSound, TypeOK, Snapshots
<1>6. NamesApart' /\ StateSound' /\ BackupSound'
  BY <1>1 DEF FilesSound, NamesApart, StateSound, StateHolds, BackupSound, Snapshots, Blocks
<1>7. OneWriter' /\ LockSound'
  BY <1>4 DEF OneWriter, Writers, LockSound, Saving
<1>8. \A p \in Procs : SaveSound(p)' /\ CopySound(p)'
  BY <1>4 DEF SaveSound, CopySound, Copying
<1> QED BY <1>1, <1>2, <1>3, <1>5, <1>6, <1>7, <1>8 DEF FilesSound, SameFile, StateHolds
-----------------------------------------------------------------------------
(* The invariant and what follows from it.                                   *)

\* The state file that the installation writes is snapshot 0.
LEMMA InitSound ==
  ASSUME Init
  PROVE  StateFileInv /\ FilesSound /\ data[dir["state"]] = Blocks(0)
<1> USE DEF Init
<1>1. MaxSnapshots \in Nat \ {0} /\ Cardinality(Procs) \in Nat
  BY SnapshotAssumption, FS_CardinalityType
<1>2. 1 \in Inodes
  <2> DEFINE c == Cardinality(Procs)
  <2> HIDE DEF c
  <2>1. c \in Nat
    BY <1>1 DEF c
  <2>2. 1 \in 1 .. 4 + 2 * c
    BY <2>1
  <2> QED BY <2>2 DEF Inodes, c
<1>3. 0 \in 0 .. MaxSnapshots /\ 0 \in Snapshots
  BY <1>1 DEF Snapshots
<1>4. dir["state"] = 1 /\ data[1] = Blocks(0)
  BY <1>2 DEF Names, Blocks
<1>5. Blocks(0) \in Seq(Block) /\ << >> \in Seq(Block)
  <2>1. Blocks(0) = Part(0, Sizes[0]) /\ Sizes[0] \in Nat
    BY <1>3, BlocksArePart
  <2>2. Part(0, Sizes[0]) \in Seq(Block)
    BY <2>1, PartType
  <2> QED BY <2>1, <2>2, EmptySeq
<1>6. \A p \in Procs : proc[p] \in Proc /\ proc[p].pc = "idle"
  BY IdleType
<1>7. TypeOK
  <2>1. data = [i \in Inodes |-> IF i = 1 THEN Blocks(0) ELSE << >>]
    BY DEF Blocks
  <2>2. data \in [Inodes -> Seq(Block)]
    BY <1>5, <2>1
  <2>3. dir \in [Names -> Inodes \cup {NoInode}]
    BY <1>2
  <2> QED BY <1>1, <1>3, <1>6, <2>2, <2>3 DEF TypeOK
<1>8. NamesApart /\ StateSound /\ BackupSound
  BY <1>3, <1>4 DEF NamesApart, StateSound, StateHolds, BackupSound, Names, NoInode
<1>9. OneWriter /\ LockSound /\ \A p \in Procs : SaveSound(p) /\ CopySound(p)
  BY <1>6 DEF OneWriter, Writers, LockSound, Saving, SaveSound, CopySound, Copying
<1> QED BY <1>4, <1>7, <1>8, <1>9 DEF StateFileInv, FilesSound

\* That two writers met is never forgotten.
LEMMA RacedKept ==
  ASSUME StateFileInv, [Next]_vars
  PROVE  /\ past' = [raced |-> past'.raced, kept |-> past'.kept] /\ past'.raced \in BOOLEAN
         /\ past.raced => past'.raced
<1>1. CASE past' = past
  BY <1>1 DEF StateFileInv
<1>2. ASSUME NEW name, Meets(name)
      PROVE  /\ past' = [raced |-> past'.raced, kept |-> past'.kept] /\ past'.raced \in BOOLEAN
             /\ past.raced => past'.raced
  BY <1>2 DEF StateFileInv, Meets
<1>3. ASSUME NEW p \in Procs, CopyRename(p)
      PROVE  /\ past' = [raced |-> past'.raced, kept |-> past'.kept] /\ past'.raced \in BOOLEAN
             /\ past.raced => past'.raced
  <2>1. past' = past \/ \E k : past' = [past EXCEPT !.kept = k]
    BY <1>3 DEF CopyRename
  <2> QED BY <2>1 DEF StateFileInv
<1>4. \/ past' = past \/ (\E p \in Procs : CopyRename(p))
      \/ \E p \in Procs : SaveOpen(p) \/ \E op \in {"backup", "restore"} : CopyOpen(p, op)
  BY DEF Next, vars, BeginSave, LockAndMutate, SaveWrite, SaveRename, SaveFails, CopyWrite,
         CopyFails, Restart
<1>5. ASSUME NEW p \in Procs, SaveOpen(p) \/ \E op \in {"backup", "restore"} : CopyOpen(p, op)
      PROVE  \E name : Meets(name)
  BY <1>5 DEF SaveOpen, CopyOpen
<1> QED BY <1>1, <1>2, <1>3, <1>4, <1>5

\* What a step may do to the state file, to memory and to the backups while no
\* two writers have met: nothing, or what AtomicStore says.
Effect ==
  \/ SameFile /\ mem' = mem /\ next' = next /\ past'.kept = past.kept
  \/ SameFile /\ mem' = next /\ next' = next + 1 /\ past'.kept = past.kept
  \/ data'[dir'["state"]] = Blocks(mem) /\ mem' = mem /\ next' = next /\ past'.kept = past.kept
  \/ /\ SameFile /\ mem' = mem /\ next' = next
     /\ \E v \in Snapshots : past'.kept = past.kept \cup {v}
  \/ /\ mem' = mem /\ next' = next /\ past'.kept = past.kept
     /\ \E v \in past.kept : data'[dir'["state"]] = Blocks(v)
  \/ /\ SameFile /\ next' = next /\ past'.kept = past.kept
     /\ data[dir["state"]] = Blocks(mem') /\ mem' \in Snapshots

\* Every step keeps the files sound and has one of these effects.
LEMMA StepSound ==
  ASSUME StateFileInv, FilesSound, past'.raced = FALSE, [Next]_vars
  PROVE  FilesSound' /\ Effect
<1>1. ASSUME NEW p \in Procs, NEW op \in {"mutate", "resave"}, BeginSave(p, op)
      PROVE  FilesSound' /\ Effect
  BY <1>1, BeginSaveKeeps DEF Effect, BeginSave
<1>2. ASSUME NEW p \in Procs, LockAndMutate(p)
      PROVE  FilesSound' /\ Effect
  BY <1>2, LockAndMutateKeeps DEF Effect, LockAndMutate
<1>3. ASSUME NEW p \in Procs, SaveOpen(p)
      PROVE  FilesSound' /\ Effect
  <2>1. Writers("state") = {} /\ past'.kept = past.kept
    BY <1>3, Unmet DEF SaveOpen
  <2> QED BY <1>3, <2>1, SaveOpenKeeps DEF Effect, SaveOpen
<1>4. ASSUME NEW p \in Procs, SaveWrite(p)
      PROVE  FilesSound' /\ Effect
  BY <1>4, SaveWriteKeeps DEF Effect, SaveWrite
<1>5. ASSUME NEW p \in Procs, SaveRename(p)
      PROVE  FilesSound' /\ Effect
  BY <1>5, SaveRenameKeeps DEF Effect, SaveRename
<1>6. ASSUME NEW p \in Procs, SaveFails(p) \/ CopyFails(p)
      PROVE  FilesSound' /\ Effect
  BY <1>6, FailureKeeps DEF Effect, SaveFails, CopyFails
<1>7. ASSUME NEW p \in Procs, NEW op \in {"backup", "restore"}, CopyOpen(p, op)
      PROVE  FilesSound' /\ Effect
  <2>1. Writers(Target(op)) = {} /\ past'.kept = past.kept
    BY <1>7, Unmet DEF CopyOpen
  <2> QED BY <1>7, <2>1, CopyOpenKeeps DEF Effect, CopyOpen
<1>8. ASSUME NEW p \in Procs, CopyWrite(p)
      PROVE  FilesSound' /\ Effect
  BY <1>8, CopyWriteKeeps DEF Effect, CopyWrite
<1>9. ASSUME NEW p \in Procs, CopyRename(p)
      PROVE  FilesSound' /\ Effect
  BY <1>9, CopyRenameKeeps DEF Effect
<1>10. ASSUME Restart
       PROVE  FilesSound' /\ Effect
  BY <1>10, RestartKeeps DEF Effect, Restart
<1>11. ASSUME UNCHANGED vars
       PROVE  FilesSound' /\ Effect
  <2>1. Snapshots' = Snapshots /\ \A name \in {"state", "backup"} : Writers(name)' = Writers(name)
    BY <1>11 DEF vars, Snapshots, Writers
  <2>2. TypeOK' /\ NamesApart'
    BY <1>11, <2>1 DEF vars, FilesSound, TypeOK, NamesApart
  <2>4. StateSound' /\ BackupSound'
    BY <1>11, <2>1 DEF vars, FilesSound, StateSound, StateHolds, BackupSound, Blocks
  <2>5. OneWriter' /\ LockSound'
    BY <1>11, <2>1 DEF vars, FilesSound, OneWriter, LockSound
  <2>3. \A p \in Procs : SaveSound(p)' /\ CopySound(p)'
    BY <1>11, <2>1 DEF vars, FilesSound, SaveSound, CopySound, Carries, Holds, Blocks
  <2> QED BY <1>11, <2>2, <2>3, <2>4, <2>5 DEF FilesSound, Effect, SameFile, vars
<1> QED BY <1>1, <1>2, <1>3, <1>4, <1>5, <1>6, <1>7, <1>8, <1>9, <1>10, <1>11 DEF Next

\* Every step keeps the invariant.
LEMMA StateFileStep ==
  ASSUME StateFileInv, [Next]_vars
  PROVE  StateFileInv'
<1>1. /\ past' = [raced |-> past'.raced, kept |-> past'.kept] /\ past'.raced \in BOOLEAN
      /\ past.raced => past'.raced
  BY RacedKept
<1>2. past'.raced \/ FilesSound'
  <2> SUFFICES ASSUME ~past'.raced
               PROVE  FilesSound'
    OBVIOUS
  <2>1. past'.raced = FALSE /\ FilesSound
    BY <1>1 DEF StateFileInv
  <2> QED BY <2>1, StepSound
<1> QED BY <1>1, <1>2 DEF StateFileInv

\* The protocol keeps every file in use as described, whoever saves, copies,
\* fails or dies when, until two writers have one temporary file open.
THEOREM FileInvariant == Spec => []StateFileInv
<1>1. Init => StateFileInv
  BY InitSound
<1>2. StateFileInv /\ [Next]_vars => StateFileInv'
  BY StateFileStep
<1> QED BY <1>1, <1>2, PTL DEF Spec

\* What the state file holds.
LEMMA FileValue ==
  ASSUME FilesSound
  PROVE  \E v \in Snapshots : /\ FileAt("state") = Blocks(v) /\ Decodes(FileAt("state"))
                              /\ SnapshotOf(FileAt("state")) = v
                              /\ acked >= 0 => v = acked
<1>1. PICK v \in Snapshots : StateHolds(v)
  BY DEF FilesSound, StateSound
<1>2. next \in 1 .. MaxSnapshots + 1
  BY DEF FilesSound, TypeOK
<1> QED BY <1>1, <1>2, Decoded DEF StateHolds, FileAt

\* The state file always decodes, so the daemon can start again.
THEOREM FileDecodes == Spec => []StateFileDecodes
<1>1. StateFileInv => StateFileDecodes
  BY FileValue DEF StateFileInv, StateFileDecodes
<1> QED BY <1>1, FileInvariant, PTL

\* A save that reported success is what the state file holds, or an older
\* snapshot than it, until a restore replaces it.
THEOREM AckedSaveStands == Spec => []AckedDurable
<1>1. StateFileInv => AckedDurable
  BY FileValue DEF StateFileInv, AckedDurable, Snapshots
<1> QED BY <1>1, FileInvariant, PTL
-----------------------------------------------------------------------------
(* The protocol implements AtomicStore.                                      *)

\* A whole snapshot decodes as itself, whatever the number of the next one.
LEMMA DecodedAt ==
  ASSUME NEW n \in 1 .. MaxSnapshots + 1, NEW v \in 0 .. MaxSnapshots, v < n
  PROVE  (CHOOSE w \in 0 .. n - 1 : Blocks(v) = Blocks(w)) = v
<1>1. 0 .. n - 1 = {w \in 0 .. MaxSnapshots : w < n}
  BY Below
<1>2. \A w \in {x \in 0 .. MaxSnapshots : x < n} : Blocks(v) = Blocks(w) => w = v
  BY BlocksDiffer
<1> QED BY <1>1, <1>2

\* The snapshot the state file holds after a step.
LEMMA NextFileValue ==
  ASSUME FilesSound', NEW v \in Snapshots', data'[dir'["state"]] = Blocks(v)
  PROVE  SnapshotOf(FileAt("state"))' = v
<1>1. next' \in 1 .. MaxSnapshots + 1 /\ v \in 0 .. MaxSnapshots /\ v < next'
  BY DEF FilesSound, TypeOK, Snapshots
<1>2. (CHOOSE w \in 0 .. next' - 1 : Blocks(v) = Blocks(w)) = v
  BY <1>1, DecodedAt
<1> QED BY <1>2 DEF SnapshotOf, FileAt, Blocks

\* Every step is one of AtomicStore, or leaves what it speaks of alone.
LEMMA StoreStep ==
  ASSUME StateFileInv, StateFileInv', [Next]_vars
  PROVE  [A!Next]_(<<mem, IF past.raced THEN -1 ELSE SnapshotOf(FileAt("state")),
                     past.kept, next, past.raced>>)
<1> DEFINE file == IF past.raced THEN -1 ELSE SnapshotOf(FileAt("state"))
<1>1. CASE past'.raced
  <2>1. past'.raced = TRUE
    BY <1>1 DEF StateFileInv
  <2> QED BY <2>1 DEF A!Next
<1>2. CASE ~past'.raced
  <2>1. past.raced = FALSE /\ past'.raced = FALSE /\ FilesSound /\ FilesSound'
    BY <1>2, RacedKept DEF StateFileInv
  <2>2. PICK v \in Snapshots : FileAt("state") = Blocks(v) /\ SnapshotOf(FileAt("state")) = v
    BY <2>1, FileValue
  <2>3. file = v /\ data[dir["state"]] = Blocks(v)
    BY <2>1, <2>2 DEF FileAt
  <2>4. file' = SnapshotOf(FileAt("state"))'
    BY <2>1
  <2>5. Effect
    BY <2>1, StepSound
  <2>6. \A w \in Snapshots' : data'[dir'["state"]] = Blocks(w) => file' = w
    BY <2>1, <2>4, NextFileValue
  <2>7. /\ v \in 0 .. MaxSnapshots /\ v < next /\ mem \in Snapshots /\ past.kept \subseteq Snapshots
        /\ next \in 1 .. MaxSnapshots + 1 /\ 0 .. next - 1 = Snapshots
    BY <2>1, Below DEF FilesSound, TypeOK, Snapshots
  <2>8. next' = next => Snapshots' = Snapshots
    BY DEF Snapshots
  <2>9. SameFile /\ (next' = next \/ next' = next + 1) => file' = file
    <3>1. next' = next \/ next' = next + 1 => v \in Snapshots'
      BY <2>7, SnapshotAssumption DEF Snapshots
    <3> QED BY <2>3, <2>6, <3>1 DEF SameFile
  <2> HIDE DEF file
  <2>10. \/ mem' = mem /\ file' = file /\ past'.kept = past.kept /\ next' = next
         \/ mem' = next /\ next' = next + 1 /\ file' = file /\ past'.kept = past.kept
         \/ file' = mem /\ mem' = mem /\ past'.kept = past.kept /\ next' = next
         \/ /\ \E w \in 0 .. next - 1 : past'.kept = past.kept \cup {w}
            /\ mem' = mem /\ file' = file /\ next' = next
         \/ file' \in past.kept /\ mem' = mem /\ past'.kept = past.kept /\ next' = next
         \/ mem' = file /\ file' = file /\ past'.kept = past.kept /\ next' = next
    <3>1. CASE SameFile /\ mem' = mem /\ next' = next /\ past'.kept = past.kept
      BY <2>9, <3>1
    <3>2. CASE SameFile /\ mem' = next /\ next' = next + 1 /\ past'.kept = past.kept
      BY <2>9, <3>2
    <3>3. CASE data'[dir'["state"]] = Blocks(mem) /\ mem' = mem /\ next' = next /\ past'.kept = past.kept
      BY <2>6, <2>7, <2>8, <3>3
    <3>4. CASE /\ SameFile /\ mem' = mem /\ next' = next
               /\ \E w \in Snapshots : past'.kept = past.kept \cup {w}
      BY <2>7, <2>9, <3>4
    <3>5. CASE /\ mem' = mem /\ next' = next /\ past'.kept = past.kept
               /\ \E w \in past.kept : data'[dir'["state"]] = Blocks(w)
      BY <2>6, <2>7, <2>8, <3>5
    <3>6. CASE /\ SameFile /\ next' = next /\ past'.kept = past.kept
               /\ data[dir["state"]] = Blocks(mem') /\ mem' \in Snapshots
      <4>1. mem' = v
        BY <2>3, <2>7, <3>6, BlocksDiffer DEF Snapshots
      <4> QED BY <2>3, <2>9, <3>6, <4>1
    <3> QED BY <2>5, <3>1, <3>2, <3>3, <3>4, <3>5, <3>6 DEF Effect
  <2> QED BY <2>1, <2>10 DEF A!Next, A!Mutate, A!Commit, A!TakeBackup, A!Restore, A!Reload, file
<1> QED BY <1>1, <1>2

\* The write-and-rename protocol implements the atomic store: a save, a restore
\* and a backup take effect in one step, whole, and a restart reloads what was
\* stored - until two writers meet.
THEOREM Refinement == Spec => ImplementsAtomicStore
<1>1. Init => A!Init
  <2> SUFFICES ASSUME Init
               PROVE  A!Init
    OBVIOUS
  <2>1. FilesSound /\ data[dir["state"]] = Blocks(0) /\ past.raced = FALSE
    BY InitSound DEF Init
  <2>2. PICK v \in Snapshots : FileAt("state") = Blocks(v) /\ SnapshotOf(FileAt("state")) = v
    BY <2>1, FileValue
  <2>3. v = 0
    BY <2>1, <2>2, BlocksDiffer, SnapshotAssumption DEF FileAt, Snapshots
  <2> QED BY <2>1, <2>2, <2>3 DEF Init, A!Init
<1>2. StateFileInv /\ StateFileInv' /\ [Next]_vars
        => [A!Next]_(<<mem, IF past.raced THEN -1 ELSE SnapshotOf(FileAt("state")),
                       past.kept, next, past.raced>>)
  BY StoreStep
<1> QED BY <1>1, <1>2, FileInvariant, PTL DEF Spec, ImplementsAtomicStore, A!Spec
=============================================================================
