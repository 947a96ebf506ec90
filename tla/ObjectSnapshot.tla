--------------------------- MODULE ObjectSnapshot ---------------------------
(***************************************************************************)
(* GitCommitReader takes a private copy of a repository's object store     *)
(* (commit_review.py, _validate_repository_layout, _snapshot_repository,   *)
(* _copy_snapshot_file) while the repository stays in use: git adds loose  *)
(* objects, packs them, prunes what is packed and drops old packs, and     *)
(* something that is not git rewrites a file in place.                     *)
(*                                                                         *)
(* An object is loose, in a directory named by its first two digits, or in *)
(* a pack, which is two files.  git never changes a file it has written:   *)
(* it renames a finished one into place and unlinks.  A directory is read  *)
(* in one step.  Links and names that are none of git's are left out.      *)
(***************************************************************************)
EXTENDS Naturals, FiniteSets, Sequences, Functions

CONSTANTS
  Objects,      \* the objects there may be
  Dir,          \* the loose-object directory of each
  Dirs,         \* those directories in the order of their names
  PackOrder,    \* the names packs may have, in their order
  InitialPacks, \* what the packs hold at first; the other objects are loose
  Absent,       \* objects that are not there at first
  MaxBytes,     \* max_object_store_bytes
  MaxEntries,   \* MAX_OBJECT_STORE_ENTRIES
  Nobody,       \* no file is being copied
  MaxSize,      \* bound: the units of a file
  MaxChanges    \* bound: changes of the store while it is copied

Packs == Range(PackOrder)
Suffixes == {".pack", ".idx"}
PackFiles == Packs \X Suffixes
Files == Objects \cup PackFiles
Gone == [ino |-> 0, ver |-> 0, size |-> 0]   \* no such file

DirAssumption ==
  Dirs \in Seq(Range(Dirs)) /\ Dir \in [Objects -> Range(Dirs)]
BudgetAssumption == MaxBytes \in Nat \ {0} /\ MaxEntries \in Nat
BoundAssumption == MaxSize \in Nat \ {0} /\ MaxChanges \in Nat
\* A store is finite, and its loose objects and packs have different names.
StoreAssumption ==
  /\ IsFiniteSet(Objects) /\ IsFiniteSet(Packs) /\ PackOrder \in Seq(Packs)
  /\ Objects \cap PackFiles = {} /\ Nobody \notin Files
InitialAssumption ==
  InitialPacks \in [Packs -> SUBSET Objects] /\ Absent \subseteq Objects

VARIABLES
  \* the repository
  file,     \* what stands at each path: inode, its times and size
  holds,    \* the objects in each pack
  changes,  \* changes so far
  always,   \* objects the store has had ever since the reader was made
  \* the reader
  pc, dirs, queue, source, before, copied, entries, bytes,
  snapshot  \* files of the copy: the version of each unit

repository == <<file, holds, changes, always>>
copying == <<source, before, copied>>
vars == <<repository, pc, dirs, queue, copying, entries, bytes, snapshot>>

Loose(f)  == {o \in Objects : f[o] # Gone}
Complete(f) == {p \in Packs : \A x \in Suffixes : f[<<p, x>>] # Gone}
Stored(f, h) == Loose(f) \cup UNION {h[p] : p \in Complete(f)}

\* An empty copy.
NoCopy == [x \in {} |-> <<>>]

Init ==
  /\ holds = InitialPacks
  /\ file = [f \in Files |->
       IF \/ f \in Objects \ (Absent \cup UNION Range(InitialPacks))
          \/ f \in PackFiles /\ InitialPacks[f[1]] # {}
       THEN [ino |-> 1, ver |-> 1, size |-> 1] ELSE Gone]
  /\ changes = 0
  /\ always = Stored(file, holds)
  /\ pc = "validate"
  /\ dirs = <<>> /\ queue = <<>>
  /\ source = Nobody /\ before = Gone /\ copied = <<>>
  /\ entries = 0 /\ bytes = 0
  /\ snapshot = NoCopy

-----------------------------------------------------------------------------
(* The repository *)

Change(f, h) ==
  /\ changes < MaxChanges
  /\ changes' = changes + 1
  /\ file' = f /\ holds' = h
  /\ always' = always \cap Stored(f, h)
  /\ UNCHANGED <<pc, dirs, queue, copying, entries, bytes, snapshot>>

\* A finished file is renamed into place; another inode than any before it.
New(size) == [ino |-> changes + 2, ver |-> 1, size |-> size]

AddLoose(o) ==
  /\ o \notin Stored(file, holds)
  /\ \E n \in 1 .. MaxSize : Change([file EXCEPT ![o] = New(n)], holds)

\* git repack: everything goes into one new pack, its index last.
WritePack(p) ==
  /\ holds[p] = {}
  /\ Change([file EXCEPT ![<<p, ".pack">>] = New(1)],
            [holds EXCEPT ![p] = Stored(file, holds)])
WriteIndex(p) ==
  /\ file[<<p, ".pack">>] # Gone /\ file[<<p, ".idx">>] = Gone
  /\ Change([file EXCEPT ![<<p, ".idx">>] = New(1)], holds)

\* git prune-packed.
Prune(o) ==
  /\ o \in Loose(file)
  /\ \E p \in Complete(file) : o \in holds[p]
  /\ Change([file EXCEPT ![o] = Gone], holds)

\* A pack whose objects another one has is dropped, index first.
DropPack(p) ==
  /\ \E q \in Complete(file) \ {p} : holds[p] \subseteq holds[q]
  /\ \/ p \in Complete(file) /\ Change([file EXCEPT ![<<p, ".idx">>] = Gone], holds)
     \/ /\ file[<<p, ".pack">>] # Gone /\ file[<<p, ".idx">>] = Gone
        /\ Change([file EXCEPT ![<<p, ".pack">>] = Gone], holds)

\* Not git: a file is overwritten or appended to where it stands.
Rewrite(f) ==
  /\ file[f] # Gone
  /\ \E n \in file[f].size .. MaxSize :
       Change([file EXCEPT ![f] = [ino |-> @.ino, ver |-> @.ver + 1, size |-> n]], holds)

-----------------------------------------------------------------------------
(* The reader *)

\* An exception anywhere in the constructor closes the reader, which removes
\* the copy.
Raise ==
  /\ pc' = "failed"
  /\ snapshot' = NoCopy
  /\ source' = Nobody /\ before' = Gone /\ copied' = <<>>
  /\ dirs' = <<>> /\ queue' = <<>>
  /\ UNCHANGED <<repository, entries, bytes>>

Go(to) == pc' = to /\ UNCHANGED repository

\* Fault: packs are copied before the loose objects are.
Phases_PacksFirst == <<"packs", "loose", "config">>

\* The order of the copy.
Phases == <<"loose", "packs", "config">>

Following(phase) ==
  Phases[(CHOOSE i \in DOMAIN Phases : Phases[i] = phase) + 1]

TooMany(n) == n > MaxEntries

\* The layout, and the walk over the store before anything is copied.
Validate ==
  /\ pc = "validate"
  /\ IF TooMany(Cardinality({f \in Files : file[f] # Gone})) THEN Raise
     ELSE /\ Go("format")
          /\ UNCHANGED <<dirs, queue, copying, entries, bytes, snapshot>>

\* The repository's config is refused, or names the format; then the object
\* directories are listed.
ReadFormat ==
  /\ pc = "format"
  /\ \/ Raise
     \/ /\ Go(Phases[1])
        /\ dirs' = Dirs
        /\ UNCHANGED <<queue, copying, entries, bytes, snapshot>>

\* git removes a directory it has emptied; reading it then raises.
DirectoryGone ==
  /\ pc = "loose"
  /\ queue = <<>> /\ source = Nobody
  /\ dirs # <<>>
  /\ {o \in Loose(file) : Dir[o] = Head(dirs)} = {}
  /\ Raise

ListDirectory ==
  /\ pc = "loose"
  /\ queue = <<>> /\ source = Nobody
  /\ dirs # <<>>
  /\ \E order \in [1 .. Cardinality({o \in Loose(file) : Dir[o] = Head(dirs)}) ->
                     {o \in Loose(file) : Dir[o] = Head(dirs)}] :
       /\ IsInjective(order)
       /\ queue' = order
  /\ dirs' = Tail(dirs)
  /\ UNCHANGED <<repository, pc, copying, entries, bytes, snapshot>>

PhaseDone ==
  /\ pc = "loose"
  /\ queue = <<>> /\ source = Nobody /\ dirs = <<>>
  /\ Go(Following("loose"))
  /\ UNCHANGED <<dirs, queue, copying, entries, bytes, snapshot>>

\* Packs of which one file is there.
Halves ==
  {p \in Packs : Cardinality({x \in Suffixes : file[<<p, x>>] # Gone}) = 1}

Place(p) == CHOOSE i \in DOMAIN PackOrder : PackOrder[i] = p
Sorted(order) ==
  \A i, j \in DOMAIN order : i < j => Place(order[i]) < Place(order[j])

\* Both files of one pack after those of another.
PairsOf(order) ==
  [i \in 1 .. 2 * Len(order) |->
     <<order[(i + 1) \div 2], IF i % 2 = 1 THEN ".pack" ELSE ".idx">>]

\* The pack directory is read once; both files of a pack, or none at all.
ListPacks ==
  /\ pc = "packs"
  /\ queue = <<>> /\ source = Nobody
  /\ IF Halves # {} THEN Raise
     ELSE /\ \E order \in [1 .. Cardinality(Complete(file)) -> Complete(file)] :
               Sorted(order) /\ queue' = PairsOf(order)
          /\ Go("copy packs")
          /\ UNCHANGED <<dirs, copying, entries, bytes, snapshot>>

PacksDone ==
  /\ pc = "copy packs"
  /\ queue = <<>> /\ source = Nobody
  /\ Go(Following("packs"))
  /\ UNCHANGED <<dirs, queue, copying, entries, bytes, snapshot>>

\* copy_object and the first lstat of _copy_snapshot_file.
Stat ==
  /\ queue # <<>> /\ source = Nobody
  /\ LET f == Head(queue)
     IN  IF TooMany(entries + 1) \/ file[f] = Gone
            \/ file[f].size > MaxBytes - bytes
         THEN Raise
         ELSE /\ source' = f /\ before' = file[f] /\ copied' = <<>>
              /\ queue' = Tail(queue)
              /\ entries' = entries + 1
              /\ pc' = IF pc = "loose" THEN "open loose" ELSE "open packs"
              /\ UNCHANGED <<repository, dirs, bytes, snapshot>>

\* _same_file_state: device and inode, size and modification time.
SameState(left, right) == right # Gone /\ left = right

\* os.open and fstat.  From here on the descriptor's inode is read, whatever
\* is done to its path.
Open ==
  /\ pc \in {"open loose", "open packs"}
  /\ IF ~SameState(before, file[source]) THEN Raise
     ELSE /\ pc' = IF pc = "open loose" THEN "read loose" ELSE "read packs"
          /\ UNCHANGED <<repository, dirs, queue, copying, entries, bytes, snapshot>>

\* What the descriptor's inode holds now: nobody writes to it once its path is
\* gone.
Opened == IF file[source].ino = before.ino THEN file[source] ELSE before

OverBudget(n) == n > MaxBytes - bytes

\* The loop reads a unit at a time, until the inode has no more.
ReadUnit ==
  /\ pc \in {"read loose", "read packs"}
  /\ Len(copied) < Opened.size
  /\ IF OverBudget(Len(copied) + 1) THEN Raise
     ELSE /\ copied' = Append(copied, Opened.ver)
          /\ UNCHANGED <<repository, pc, dirs, queue, source, before, entries,
                         bytes, snapshot>>

\* The second lstat.
Finish ==
  /\ pc \in {"read loose", "read packs"}
  /\ Len(copied) = Opened.size
  /\ IF Len(copied) # before.size \/ ~SameState(before, file[source]) THEN Raise
     ELSE /\ snapshot' = [f \in DOMAIN snapshot \cup {source} |->
                            IF f = source THEN copied ELSE snapshot[f]]
          /\ bytes' = bytes + Len(copied)
          /\ pc' = IF pc = "read loose" THEN "loose" ELSE "copy packs"
          /\ source' = Nobody /\ before' = Gone /\ copied' = <<>>
          /\ UNCHANGED <<repository, dirs, queue, entries>>

\* Its own config and HEAD complete the copy.
Configure ==
  /\ pc = "config"
  /\ Go("ready")
  /\ UNCHANGED <<dirs, queue, copying, entries, bytes, snapshot>>

Close ==
  /\ pc = "ready"
  /\ Go("closed")
  /\ snapshot' = NoCopy
  /\ UNCHANGED <<dirs, queue, copying, entries, bytes>>

Repository ==
  \/ \E o \in Objects : AddLoose(o) \/ Prune(o)
  \/ \E p \in Packs : WritePack(p) \/ WriteIndex(p) \/ DropPack(p)
  \/ \E f \in Files : Rewrite(f)

Reader ==
  \/ Validate \/ ReadFormat \/ DirectoryGone \/ ListDirectory \/ PhaseDone \/ ListPacks \/ PacksDone
  \/ Stat \/ Open \/ ReadUnit \/ Finish \/ Configure \/ Close

Next == Repository \/ Reader

Spec == Init /\ [][Next]_vars

-----------------------------------------------------------------------------
(* Properties *)

TypeOK ==
  /\ file \in [Files -> [ino : Nat, ver : Nat, size : 0 .. MaxSize]]
  /\ holds \in [Packs -> SUBSET Objects]
  /\ always \subseteq Stored(file, holds)
  /\ source \in Files \cup {Nobody}
  /\ pc \in {"validate", "format", "loose", "packs", "copy packs", "open loose", "open packs",
             "read loose", "read packs", "config", "ready", "failed", "closed"}
  /\ DOMAIN snapshot \subseteq Files
  /\ \A f \in DOMAIN snapshot : snapshot[f] # <<>>
  /\ entries \in 0 .. MaxEntries

OnDisk == bytes + Len(copied)

\* The copy never takes more room than it may, also while a file grows under
\* the reader.
WithinBudget == OnDisk <= MaxBytes

\* A file of a finished copy is what the store's file was at one moment.
NoTornFile ==
  pc = "ready" =>
    \A f \in DOMAIN snapshot : Cardinality(Range(snapshot[f])) = 1

\* An object the store has had throughout is in a finished copy, however it
\* was moved from loose file to pack and from pack to pack meanwhile.
NothingMissed ==
  pc = "ready" =>
    always \subseteq
      (DOMAIN snapshot \cap Objects)
        \cup UNION {holds[p] : p \in {q \in Packs : \A x \in Suffixes :
                                        <<q, x>> \in DOMAIN snapshot}}

\* A finished copy has no torn file, misses nothing, and fits its budget.
CopyIsFaithful == TypeOK /\ WithinBudget /\ NoTornFile /\ NothingMissed
=============================================================================
