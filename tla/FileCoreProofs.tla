--------------------------- MODULE FileCoreProofs ---------------------------
(***************************************************************************)
(* Proofs about FileCore.  Nothing is assumed of the fragments but that    *)
(* they do not overlap: where the published disc has its directories and   *)
(* how the guest lays out what it writes is left open.                     *)
(***************************************************************************)
EXTENDS FileCore, FiniteSetTheorems, SequenceTheorems, TLAPS

-----------------------------------------------------------------------------
(***************************************************************************)
(* The inductive invariant.                                                *)
(***************************************************************************)
Cell == [text : Texts \cup {Magic}, name : ObjNames \cup {""},
         parent : Addr \cup {<<>>}, ents : Seq(Entries)]
Path == Seq(ObjNames)

At(p) == disc[Pos(tree[p].ind)]
HasLive == Live \in DOMAIN tree

\* The guest's tree: objects have places of their own, and those of the hooks
\* are files or directories as they should be.
TreeInv ==
  /\ DOMAIN tree \subseteq Path
  /\ \A p \in DOMAIN tree : tree[p] \in Entries
  /\ \A p, q \in DOMAIN tree : tree[p].ind = tree[q].ind => p = q
  /\ {Root, Boot, Apps, Hook, Template} \subseteq DOMAIN tree
  /\ \A p \in {Root, Boot, Apps, Hook, Choices} \cap DOMAIN tree : tree[p].isdir
  /\ \A p \in {Template, Live} \cap DOMAIN tree : ~tree[p].isdir
  /\ tree[Root].name = "$" /\ tree[Boot].name = "!Boot"
  /\ tree[Apps].name = "Apps" /\ tree[Hook].name = "RO530Hook"
  /\ Choices \in DOMAIN tree => tree[Choices].name = "Choices"

\* A directory of the tree has a block, whose entries are its children.
BlockInv ==
  /\ disc \in [Sectors -> Cell]
  /\ \A p \in DOMAIN tree : tree[p].isdir =>
       /\ At(p).text = Magic /\ At(p).name = tree[p].name
       /\ \A k \in 1 .. Len(At(p).ents) :
            /\ Append(p, At(p).ents[k].name) \in DOMAIN tree
            /\ tree[Append(p, At(p).ents[k].name)] = At(p).ents[k]

\* Old blocks included: the root is the only one of its name, and no block of
\* Choices has a TimeSetup that Choices has not.
StaleInv ==
  \A i \in Sectors : disc[i].text = Magic =>
    /\ disc[i].name = "$" => i = Pos(tree[Root].ind) /\ disc[i].parent = tree[Root].ind
    /\ disc[i].name = "Choices" /\ "TimeSetup" \in Names(i) => HasLive

\* The hooks' own state.
HookInv ==
  /\ phase \in {"prepare", "boot", "finalize", "done", "failed"}
  /\ step \in 1 .. 4
  /\ orig \in Texts
  /\ open \in BOOLEAN
  /\ phase = "prepare" => step <= 3
  /\ phase = "boot" => step = 1
  /\ open => InHook

\* What the scripts' texts and the hooks' progress say of each other.
TextInv ==
  /\ TextOf(Template) \in {"stock", "bootstrap"}
  /\ HasLive => TextOf(Live) \in {"stock", "bootstrap"}
  /\ phase = "prepare" =>
       /\ Paired /\ ~HasLive
       /\ TextOf(Template) = IF step <= 2 THEN "stock" ELSE "bootstrap"
  /\ phase \in {"boot", "finalize", "done"} \/ (phase = "prepare" /\ step >= 2) =>
       orig = "stock"
  /\ phase = "boot" \/ (phase = "finalize" /\ step = 1) =>
       TextOf(Template) = "bootstrap" /\ (HasLive => TextOf(Live) = "bootstrap")
  /\ phase = "finalize" /\ step = 2 /\ Paired /\ HasLive => TextOf(Live) = "bootstrap"
  /\ phase = "done" \/ (phase = "finalize" /\ step >= 3) => HasLive
  /\ phase = "done" \/ (phase = "finalize" /\ step >= 4) =>
       \A i \in Sectors : disc[i].text # "bootstrap"

Dirs == [blk : Sectors, addr : Addr, path : Path \ {<<>>}, k : Nat \ {0}]

\* A directory on its way through the walk.
Listed(e) ==
  /\ e \in Dirs /\ e.blk \in Blocks
  /\ disc[e.blk].name = e.path[Len(e.path)]
  /\ Paired => /\ e.blk = Pos(e.addr)
               /\ e.path \in DOMAIN tree /\ tree[e.path].isdir /\ tree[e.path].ind = e.addr

\* What the walk knows is so, where no old block is left to mislead it.
WalkInv ==
  /\ ~open => cur = Closed /\ stack = <<>> /\ base = <<>> /\ paths = <<>>
  /\ cur = Closed \/ Listed(cur)
  /\ stack \in Seq(Dirs) /\ \A n \in 1 .. Len(stack) : Listed(stack[n])
  /\ seen \subseteq Addr
  /\ DOMAIN base \subseteq Frags
  /\ \A f \in DOMAIN base : base[f] \in Int /\ (Paired => base[f] = Base[f])
  /\ \A p \in DOMAIN paths :
       /\ paths[p] \in Entries
       /\ p = Live => HasLive
       /\ Paired => p \in DOMAIN tree /\ paths[p] = tree[p]

IInv == TreeInv /\ BlockInv /\ StaleInv /\ HookInv /\ TextInv /\ WalkInv

-----------------------------------------------------------------------------
(***************************************************************************)
(* Places, paths and sequences.                                            *)
(***************************************************************************)
\* An address has a sector, and no two have the same.
LEMMA PosType ==
  /\ \A a \in Addr : Pos(a) \in Sectors /\ Pos(a) \in Int
  /\ \A i \in Sectors : i \in Int
  /\ \A a, b \in Addr : Pos(a) = Pos(b) => a = b
<1>1. \A a \in Addr : a[1] \in Frags /\ a[2] \in 0 .. FragSize - 1
  BY DEF Addr
<1>2. \A a \in Addr : Pos(a) \in Int
  BY <1>1, BaseAssumption, FragsAssumption DEF Pos
<1> QED
  BY <1>2, DisjointAssumption DEF Sectors

\* The disc has finitely many sectors.
LEMMA SectorsFinite == IsFiniteSet(Sectors)
<1> DEFINE f == [a \in Addr |-> Pos(a)]
<1>1. IsFiniteSet(0 .. FragSize - 1)
  BY FS_Interval, FragsAssumption
<1>2. IsFiniteSet(Addr)
  BY <1>1, FS_Product, FragsAssumption DEF Addr
<1>3. f \in Surjection(Addr, Sectors)
  BY DEF Surjection, Sectors
<1> HIDE DEF f
<1> QED
  BY <1>2, <1>3, FS_Surjection DEF ExistsSurjection

\* A child's path ends with its name.
LEMMA ChildPath ==
  ASSUME NEW p \in Path, NEW m \in ObjNames
  PROVE  /\ Append(p, m) \in Path /\ Append(p, m) # <<>>
         /\ Len(Append(p, m)) = Len(p) + 1 /\ Append(p, m)[Len(p) + 1] = m
<1>1. p \in Seq(ObjNames)
  BY DEF Path
<1> QED
  BY <1>1, AppendProperties, Zenon DEF Path

\* A child's path names its directory.
LEMMA ChildOfOne ==
  ASSUME NEW p \in Path, NEW q \in Path, NEW m \in ObjNames, NEW n \in ObjNames,
         Append(p, m) = Append(q, n)
  PROVE  p = q /\ m = n
<1>1. p \in Seq(ObjNames) /\ q \in Seq(ObjNames)
  BY DEF Path
<1>2. Append(p, m) = Append(q, n) <=> p = q /\ m = n
  BY <1>1, AppendInjective
<1> QED
  BY <1>2

\* The paths the hooks and the guest know are paths, none of them another.
LEMMA PathsDiffer ==
  /\ {Root, Boot, Apps, Hook, Choices, Template, Live, Launcher, Copy} \subseteq Path
  /\ Root # Boot /\ Root # Apps /\ Root # Hook /\ Root # Choices /\ Root # Template
  /\ Boot # Apps /\ Boot # Hook /\ Boot # Choices /\ Boot # Template
  /\ Apps # Hook /\ Apps # Choices /\ Apps # Template
  /\ Hook # Choices /\ Hook # Template /\ Choices # Template
  /\ Copy \notin {Root, Boot, Apps, Hook, Choices, Template, Live}
  /\ Live \notin {Root, Boot, Apps, Hook, Choices, Template}
  /\ Launcher \notin {Root, Boot, Apps, Hook, Choices, Template, Live}
<1>0. "TimeSetup" \in ObjNames /\ "AnyVM" \in ObjNames
  BY DEF ObjNames
<1>1. {Root, Boot, Apps, Hook, Choices} \subseteq Path
  BY DEF Path, ObjNames, Root, Boot, Apps, Hook, Choices
<1>2. {Template, Live, Launcher, Copy} \subseteq Path
  BY <1>0, <1>1, AppendProperties DEF Path, Template, Live, Launcher, Copy
<1>3. Len(Root) = 1 /\ Len(Boot) = 2 /\ Len(Apps) = 2 /\ Len(Hook) = 3 /\ Len(Choices) = 3
  BY DEF Root, Boot, Apps, Hook, Choices
<1>4. Len(Template) = 4 /\ Len(Live) = 4 /\ Len(Launcher) = 4 /\ Len(Copy) = 3
  <2>1. \A p \in Path : \A m \in ObjNames : Len(Append(p, m)) = Len(p) + 1
    BY ChildPath
  <2>2. Len(Template) = Len(Hook) + 1 /\ Len(Copy) = Len(Apps) + 1
    BY <1>0, <1>1, <2>1, Zenon DEF Template, Copy
  <2>3. Len(Live) = Len(Choices) + 1 /\ Len(Launcher) = Len(Choices) + 1
    BY <1>0, <1>1, <2>1, Zenon DEF Live, Launcher
  <2> QED
    BY <1>3, <2>2, <2>3
<1>5. Boot[2] = "!Boot" /\ Apps[2] = "Apps" /\ Hook[3] = "RO530Hook" /\ Choices[3] = "Choices"
  BY DEF Boot, Apps, Hook, Choices
<1>6. Copy[3] = "TimeSetup"
  <2>1. Append(Apps, "TimeSetup")[Len(Apps) + 1] = "TimeSetup"
    BY <1>0, <1>1, ChildPath
  <2> QED
    BY <1>3, <2>1 DEF Copy
<1>7. Hook # Choices
  BY <1>5
<1>8. Template # Live /\ Template # Launcher /\ Live # Launcher
  BY <1>0, <1>1, <1>7, AppendInjective DEF Path, Template, Live, Launcher
<1>9. Copy # Hook /\ Copy # Choices /\ Boot # Apps
  BY <1>5, <1>6
<1> QED
  BY <1>1, <1>2, <1>3, <1>4, <1>7, <1>8, <1>9

\* What a new entry does to the entries of a directory.
LEMMA AppendEntry ==
  ASSUME NEW S, NEW s \in Seq(S), NEW e \in S
  PROVE  /\ Append(s, e) \in Seq(S)
         /\ \A k \in 1 .. Len(Append(s, e)) :
              (k \in 1 .. Len(s) /\ Append(s, e)[k] = s[k]) \/ Append(s, e)[k] = e
<1>1. /\ Append(s, e) \in Seq(S) /\ Len(Append(s, e)) = Len(s) + 1
      /\ \A k \in 1 .. Len(s) : Append(s, e)[k] = s[k]
      /\ Append(s, e)[Len(s) + 1] = e
  BY AppendProperties
<1>2. Len(s) \in Nat
  BY LenProperties
<1>3. \A k \in 1 .. Len(Append(s, e)) : k \in 1 .. Len(s) \/ k = Len(s) + 1
  BY <1>1, <1>2
<1> QED
  BY <1>1, <1>3

\* Put: the function, with one more value.
LEMMA PutValue ==
  ASSUME NEW f, NEW x, NEW v
  PROVE  /\ DOMAIN Put(f, x, v) = DOMAIN f \cup {x}
         /\ Put(f, x, v)[x] = v
         /\ \A y \in DOMAIN f : y # x => Put(f, x, v)[y] = f[y]
BY DEF Put

\* The empty sequence is the empty function.
LEMMA EmptyDomain == DOMAIN <<>> = {} /\ Len(<<>>) = 0
OBVIOUS

-----------------------------------------------------------------------------
(***************************************************************************)
(* The tool's walk changes neither the disc nor the hook.                  *)
(***************************************************************************)
\* The disc and the hook are as they were, and so is what is said of them.
LEMMA WalkFrame ==
  ASSUME IInv, UNCHANGED <<disc, tree, hook>>, open' => InHook, open' \in BOOLEAN
  PROVE  /\ TreeInv' /\ BlockInv' /\ StaleInv' /\ HookInv' /\ TextInv'
         /\ Paired' <=> Paired
         /\ Blocks' = Blocks
<1>1. disc' = disc /\ tree' = tree /\ phase' = phase /\ step' = step /\ orig' = orig
  BY DEF hook
<1>2. TreeInv'
  BY <1>1 DEF IInv, TreeInv
<1>3. BlockInv'
  BY <1>1 DEF IInv, BlockInv, At
<1>4. StaleInv'
  BY <1>1 DEF IInv, StaleInv, Names, HasLive
<1>5. HookInv'
  BY <1>1 DEF IInv, HookInv, InHook
<1>6. Paired' <=> Paired
  BY <1>1 DEF Paired, RootCandidates, Blocks, Names, Kids
<1>7. TextInv'
  BY <1>1, <1>6 DEF IInv, TextInv, TextOf, HasLive
<1>8. Blocks' = Blocks
  BY <1>1 DEF Blocks
<1> QED
  BY <1>2, <1>3, <1>4, <1>5, <1>6, <1>7, <1>8

\* A Volume that is closed knows nothing.
LEMMA ClosedWalk ==
  ASSUME ~open', cur' = Closed, stack' = <<>>, seen' \subseteq Addr,
         base' = <<>>, paths' = <<>>
  PROVE  WalkInv'
BY EmptyDomain DEF WalkInv

\* What an entry of a listed block is.
LEMMA ListedEntry ==
  ASSUME IInv, Listing
  PROVE  /\ Listed(cur) /\ cur \in Dirs /\ cur.k \in 1 .. Len(disc[cur.blk].ents)
         /\ Current \in Entries /\ CurrentPath \in Path \ {<<>>}
         /\ CurrentPath[Len(CurrentPath)] = Current.name
         /\ CurrentPath = Live => HasLive
         /\ Paired => CurrentPath \in DOMAIN tree /\ tree[CurrentPath] = Current
<1>1. /\ Listed(cur) /\ cur \in Dirs /\ cur.blk \in Blocks /\ cur.blk \in Sectors
      /\ cur.path \in Path /\ cur.addr \in Addr /\ cur.k \in Nat \ {0}
  BY DEF IInv, WalkInv, Listing, Listed, Dirs
<1>2. disc[cur.blk] \in Cell /\ disc[cur.blk].ents \in Seq(Entries)
  BY <1>1 DEF IInv, BlockInv, Cell
<1>3. cur.k \in 1 .. Len(disc[cur.blk].ents)
  BY <1>1, <1>2, LenProperties DEF Listing
<1>4. Current \in Entries /\ Current.name \in ObjNames
  <2>1. Current \in Entries
    BY <1>2, <1>3, ElementOfSeq DEF Current
  <2> QED
    BY <2>1 DEF Entries
<1>5. /\ CurrentPath \in Path \ {<<>>}
      /\ CurrentPath[Len(CurrentPath)] = Current.name
  <2>1. /\ CurrentPath \in Path /\ CurrentPath # <<>>
        /\ Len(CurrentPath) = Len(cur.path) + 1 /\ CurrentPath[Len(cur.path) + 1] = Current.name
    BY <1>1, <1>4, ChildPath DEF CurrentPath
  <2> QED
    BY <2>1
<1>6. CurrentPath = Live => HasLive
  <2> SUFFICES ASSUME CurrentPath = Live PROVE HasLive
    OBVIOUS
  <2>1. cur.path = Choices /\ Current.name = "TimeSetup"
    <3>1. Choices \in Path /\ "TimeSetup" \in ObjNames
      BY PathsDiffer DEF ObjNames
    <3> QED
      BY <1>1, <1>4, <3>1, ChildOfOne DEF CurrentPath, Live
  <2>2. disc[cur.blk].name = "Choices"
    <3>1. Len(Choices) = 3 /\ Choices[3] = "Choices"
      BY DEF Choices
    <3> QED
      BY <1>1, <2>1, <3>1 DEF Listed
  <2>3. "TimeSetup" \in Names(cur.blk)
    BY <1>3, <2>1 DEF Names, Current
  <2> QED
    BY <1>1, <2>2, <2>3 DEF IInv, StaleInv, Blocks
<1>7. Paired => CurrentPath \in DOMAIN tree /\ tree[CurrentPath] = Current
  <2> SUFFICES ASSUME Paired
               PROVE  CurrentPath \in DOMAIN tree /\ tree[CurrentPath] = Current
    OBVIOUS
  <2>1. /\ cur.path \in DOMAIN tree /\ tree[cur.path].isdir
        /\ disc[cur.blk] = At(cur.path)
    BY <1>1 DEF Listed, At
  <2> QED
    BY <1>3, <2>1 DEF IInv, BlockInv, CurrentPath, Current
<1> QED
  BY <1>1, <1>3, <1>4, <1>5, <1>6, <1>7

\* A note of an address and its sector is a note of its fragment's place.
LEMMA NoteTrue ==
  ASSUME NEW b, NEW ind \in Addr, NEW off \in Sectors,
         DOMAIN b \subseteq Frags,
         \A f \in DOMAIN b : b[f] \in Int /\ (Paired => b[f] = Base[f]),
         Paired => off = Pos(ind)
  PROVE  /\ DOMAIN Note(b, ind, off) \subseteq Frags
         /\ \A f \in DOMAIN Note(b, ind, off) :
              Note(b, ind, off)[f] \in Int /\ (Paired => Note(b, ind, off)[f] = Base[f])
<1>1. ind[1] \in Frags /\ ind[2] \in Int /\ Base[ind[1]] \in Int
  BY BaseAssumption, FragsAssumption DEF Addr
<1>2. off \in Int
  BY PosType
<1>3. off - ind[2] \in Int /\ (Paired => off - ind[2] = Base[ind[1]])
  BY <1>1, <1>2 DEF Pos
<1>4. CASE ind[1] \in DOMAIN b
  BY <1>4 DEF Note
<1>5. CASE ind[1] \notin DOMAIN b
  <2>1. Note(b, ind, off) = Put(b, ind[1], off - ind[2])
    BY <1>5 DEF Note
  <2>2. /\ DOMAIN Note(b, ind, off) = DOMAIN b \cup {ind[1]}
        /\ Note(b, ind, off)[ind[1]] = off - ind[2]
        /\ \A f \in DOMAIN b : f # ind[1] => Note(b, ind, off)[f] = b[f]
    BY <2>1 DEF Put
  <2> QED
    BY <1>1, <1>3, <2>2
<1> QED
  BY <1>4, <1>5

\* A Volume starts with the root, which no old block can be taken for.
LEMMA OpenVolumeKeeps ==
  ASSUME IInv, Open
  PROVE  IInv'
<1>1. UNCHANGED <<disc, tree, hook>> /\ open' = TRUE /\ InHook /\ OpenVolume
  BY DEF Open, OpenVolume, hook
<1>2. /\ TreeInv' /\ BlockInv' /\ StaleInv' /\ HookInv' /\ TextInv'
      /\ Paired' <=> Paired
      /\ Blocks' = Blocks
  BY <1>1, WalkFrame DEF InHook, hook
<1>3. PICK r \in RootCandidates :
        /\ base' = Note(<<>>, disc[r].parent, r)
        /\ stack' = << [blk |-> r, addr |-> disc[r].parent, path |-> Root, k |-> 1] >>
  BY <1>1 DEF OpenVolume
<1> DEFINE d == [blk |-> r, addr |-> disc[r].parent, path |-> Root, k |-> 1]
<1>4. /\ r \in Sectors /\ r \in Blocks /\ disc[r].name = "$"
      /\ Root \in DOMAIN tree /\ tree[Root].isdir /\ tree[Root].ind \in Addr
      /\ r = Pos(tree[Root].ind) /\ disc[r].parent = tree[Root].ind
  <2>1. r \in Sectors /\ r \in Blocks /\ disc[r].name = "$" /\ disc[r].text = Magic
    BY DEF RootCandidates, Blocks
  <2> QED
    BY <2>1 DEF IInv, StaleInv, TreeInv, Entries
<1>5. Root \in Path \ {<<>>} /\ Root[Len(Root)] = "$"
  BY PathsDiffer DEF Root
<1>6. Listed(d) /\ d \in Dirs
  <2>1. d \in Dirs
    BY <1>4, <1>5 DEF Dirs
  <2> QED
    BY <1>4, <1>5, <2>1 DEF Listed
<1>7. stack' \in Seq(Dirs) /\ \A n \in 1 .. Len(stack') : stack'[n] = d
  <2>1. stack' = <<d>>
    BY <1>3
  <2> HIDE DEF d
  <2> QED
    BY <1>6, <2>1
<1>8. /\ DOMAIN base' \subseteq Frags
      /\ \A f \in DOMAIN base' : base'[f] \in Int /\ (Paired => base'[f] = Base[f])
  <2>1. DOMAIN <<>> \subseteq Frags /\ \A f \in DOMAIN <<>> : FALSE
    BY EmptyDomain
  <2> DEFINE b == <<>>
             ind == tree[Root].ind
  <2>2. base' = Note(b, ind, r) /\ ind \in Addr /\ r = Pos(ind) /\ r \in Sectors
    BY <1>3, <1>4
  <2>3. DOMAIN b \subseteq Frags /\ \A f \in DOMAIN b : b[f] \in Int /\ (Paired => b[f] = Base[f])
    BY <2>1
  <2> HIDE DEF b, ind
  <2> QED
    BY <2>2, <2>3, NoteTrue
<1>9. WalkInv'
  <2>1. open' /\ cur' = Closed /\ seen' = {} /\ paths' = <<>>
    BY <1>1 DEF OpenVolume
  <2> HIDE DEF d
  <2>2. \A n \in 1 .. Len(stack') : Listed(stack[n])'
    BY <1>1, <1>2, <1>6, <1>7 DEF Listed
  <2>3. cur' = Closed /\ seen' \subseteq Addr /\ \A p : p \notin DOMAIN paths'
    BY <2>1, EmptyDomain
  <2>4. \A f \in DOMAIN base' : base'[f] \in Int /\ (Paired' => base'[f] = Base[f])
    BY <1>2, <1>8
  <2> QED
    BY <1>7, <1>8, <2>1, <2>2, <2>3, <2>4 DEF WalkInv
<1> QED
  BY <1>2, <1>9 DEF IInv

\* What is left of a stack without its top.
LEMMA PopRest ==
  ASSUME NEW S, NEW s \in Seq(S), s # <<>>
  PROVE  LET t == SubSeq(s, 1, Len(s) - 1)
         IN  /\ t \in Seq(S) /\ Len(t) = Len(s) - 1
             /\ \A n \in 1 .. Len(s) - 1 : t[n] = s[n]
<1> DEFINE n == Len(s) - 1
<1>1. Len(s) \in Nat \ {0} /\ n \in Nat /\ 1 \in Int
  BY EmptySeq, LenProperties
<1>2. \A i \in 1 .. n : s[i] \in S
  BY <1>1, ElementOfSeq
<1> HIDE DEF n
<1>3. /\ SubSeq(s, 1, n) \in Seq(S)
      /\ Len(SubSeq(s, 1, n)) = IF 1 <= n THEN n - 1 + 1 ELSE 0
      /\ \A i \in 1 .. n - 1 + 1 : SubSeq(s, 1, n)[i] = s[1 + i - 1]
  BY <1>1, <1>2, SubSeqProperties
<1>4. Len(SubSeq(s, 1, n)) = n /\ \A i \in 1 .. n : SubSeq(s, 1, n)[i] = s[i]
  BY <1>1, <1>3
<1> QED
  BY <1>3, <1>4 DEF n

\* A directory is taken from the stack.
LEMMA PopKeeps ==
  ASSUME IInv, Pop
  PROVE  IInv'
<1>1. UNCHANGED <<disc, tree, hook>> /\ open' = open /\ base' = base /\ paths' = paths
  BY DEF Pop, hook
<1>2. /\ TreeInv' /\ BlockInv' /\ StaleInv' /\ HookInv' /\ TextInv'
      /\ Paired' <=> Paired
      /\ Blocks' = Blocks
  BY <1>1, WalkFrame DEF IInv, HookInv
<1>3. /\ stack \in Seq(Dirs) /\ stack # <<>> /\ Len(stack) \in Nat \ {0}
      /\ \A n \in 1 .. Len(stack) : Listed(stack[n])
  BY EmptySeq, LenProperties DEF IInv, WalkInv, Pop
<1>4. Listed(Top) /\ Top.addr \in Addr
  <2>1. Listed(Top)
    BY <1>3 DEF Top
  <2> QED
    BY <2>1 DEF Listed, Dirs
<1>5. /\ stack' \in Seq(Dirs)
      /\ \A n \in 1 .. Len(stack') : n \in 1 .. Len(stack) /\ stack'[n] = stack[n]
  <2>1. /\ Rest \in Seq(Dirs) /\ Len(Rest) = Len(stack) - 1
        /\ \A n \in 1 .. Len(stack) - 1 : Rest[n] = stack[n]
    BY <1>3, PopRest DEF Rest
  <2>2. stack' = Rest
    BY DEF Pop
  <2> QED
    BY <1>3, <2>1, <2>2
<1>6. /\ seen' \subseteq Addr
      /\ cur' = Closed \/ cur' = Top
      /\ open
  BY <1>4 DEF Pop, IInv, WalkInv
<1>7. WalkInv'
  <2>1. cur' = Closed \/ Listed(cur)'
    BY <1>1, <1>2, <1>4, <1>6 DEF Listed
  <2>2. \A n \in 1 .. Len(stack') : Listed(stack[n])'
    BY <1>1, <1>2, <1>3, <1>5 DEF Listed
  <2>3. DOMAIN base' \subseteq Frags
    BY <1>1 DEF IInv, WalkInv
  <2>4. \A f \in DOMAIN base' : base'[f] \in Int /\ (Paired => base'[f] = Base[f])
    BY <1>1 DEF IInv, WalkInv
  <2>5. \A p \in DOMAIN paths' :
          /\ paths'[p] \in Entries
          /\ p = Live => HasLive'
          /\ Paired => p \in DOMAIN tree' /\ paths'[p] = tree'[p]
    BY <1>1 DEF IInv, WalkInv, HasLive
  <2> QED
    BY <1>1, <1>2, <1>5, <1>6, <2>1, <2>2, <2>3, <2>4, <2>5 DEF WalkInv
<1> QED
  BY <1>2, <1>7 DEF IInv

\* The next entry of the same block is listed as this one.
LEMMA NextEntry ==
  ASSUME NEW e, Listed(e)
  PROVE  Listed([e EXCEPT !.k = @ + 1])
BY DEF Listed, Dirs

\* An entry noted under its path.
LEMMA PathNoted ==
  ASSUME IInv, Listing, UNCHANGED tree, paths' = Put(paths, CurrentPath, Current)
  PROVE  \A p \in DOMAIN paths' :
           /\ paths'[p] \in Entries
           /\ p = Live => HasLive'
           /\ Paired => p \in DOMAIN tree' /\ paths'[p] = tree'[p]
<1>1. /\ Current \in Entries
      /\ CurrentPath = Live => HasLive
      /\ Paired => CurrentPath \in DOMAIN tree /\ tree[CurrentPath] = Current
  BY ListedEntry
<1>2. /\ DOMAIN paths' = DOMAIN paths \cup {CurrentPath}
      /\ paths'[CurrentPath] = Current
      /\ \A p \in DOMAIN paths : p # CurrentPath => paths'[p] = paths[p]
  BY DEF Put
<1> QED
  BY <1>1, <1>2 DEF IInv, WalkInv, HasLive

\* A file is noted; a directory without a block is passed over.
LEMMA ListEntryKeeps ==
  ASSUME IInv, ListFile \/ ListMissing
  PROVE  IInv'
<1>1. /\ UNCHANGED <<disc, tree, hook>> /\ open' = open /\ base' = base
      /\ stack' = stack /\ seen' = seen /\ Listing /\ open
      /\ cur' = [cur EXCEPT !.k = @ + 1]
      /\ paths' = paths \/ paths' = Put(paths, CurrentPath, Current)
  BY DEF ListFile, ListMissing, hook
<1>2. /\ TreeInv' /\ BlockInv' /\ StaleInv' /\ HookInv' /\ TextInv'
      /\ Paired' <=> Paired
      /\ Blocks' = Blocks
  BY <1>1, WalkFrame DEF IInv, HookInv
<1>3. Listed(cur)'
  <2>1. Listed([cur EXCEPT !.k = @ + 1])
    BY <1>1, ListedEntry, NextEntry
  <2> QED
    BY <1>1, <1>2, <2>1 DEF Listed
<1>4. /\ stack' \in Seq(Dirs) /\ seen' \subseteq Addr
      /\ \A n \in 1 .. Len(stack') : Listed(stack[n])'
  BY <1>1, <1>2 DEF IInv, WalkInv, Listed
<1>5. DOMAIN base' \subseteq Frags
  BY <1>1 DEF IInv, WalkInv
<1>6. \A f \in DOMAIN base' : base'[f] \in Int /\ (Paired => base'[f] = Base[f])
  BY <1>1 DEF IInv, WalkInv
<1>7. \A p \in DOMAIN paths' :
        /\ paths'[p] \in Entries
        /\ p = Live => HasLive'
        /\ Paired => p \in DOMAIN tree' /\ paths'[p] = tree'[p]
  <2>1. CASE paths' = paths
    BY <1>1, <2>1 DEF IInv, WalkInv, HasLive
  <2>2. CASE paths' = Put(paths, CurrentPath, Current)
    BY <1>1, <2>2, PathNoted
  <2> QED
    BY <1>1, <2>1, <2>2
<1>8. WalkInv'
  BY <1>1, <1>2, <1>3, <1>4, <1>5, <1>6, <1>7 DEF WalkInv
<1> QED
  BY <1>2, <1>8 DEF IInv

\* A directory is noted, and what it tells of its fragment.
LEMMA ListDirKeeps ==
  ASSUME IInv, ListDir
  PROVE  IInv'
<1>1. /\ UNCHANGED <<disc, tree, hook>> /\ open' = open /\ seen' = seen /\ Listing /\ open
      /\ cur' = [cur EXCEPT !.k = @ + 1]
      /\ paths' = Put(paths, CurrentPath, Current)
      /\ Current.isdir
  BY DEF ListDir, hook
<1>2. /\ TreeInv' /\ BlockInv' /\ StaleInv' /\ HookInv' /\ TextInv'
      /\ Paired' <=> Paired
      /\ Blocks' = Blocks
  BY <1>1, WalkFrame DEF IInv, HookInv
<1>3. Listed(cur)'
  <2>1. Listed([cur EXCEPT !.k = @ + 1])
    BY <1>1, ListedEntry, NextEntry
  <2> QED
    BY <1>1, <1>2, <2>1 DEF Listed
<1>4. PICK c \in Kids(cur.addr, Current.name) :
        /\ base' = Note(base, Current.ind, c)
        /\ stack' = Append(stack, [blk |-> c, addr |-> Current.ind,
                                   path |-> CurrentPath, k |-> 1])
  BY DEF ListDir
<1> DEFINE d == [blk |-> c, addr |-> Current.ind, path |-> CurrentPath, k |-> 1]
<1>5. /\ c \in Blocks /\ c \in Sectors /\ disc[c].name = Current.name
      /\ Current.ind \in Addr
  BY <1>1, ListedEntry DEF Kids, Blocks, Entries
<1>6. Paired => c = Pos(Current.ind)
  <2> SUFFICES ASSUME Paired PROVE c = Pos(Current.ind)
    OBVIOUS
  <2>1. /\ cur.addr \in Addr /\ cur.blk \in Blocks /\ cur.blk = Pos(cur.addr)
        /\ cur.k \in 1 .. Len(disc[cur.blk].ents)
    BY <1>1, ListedEntry DEF Listed, Dirs
  <2> QED
    BY <1>1, <2>1 DEF Paired, Current
<1>7. d \in Dirs /\ Listed(d)
  <2>1. d \in Dirs
    BY <1>1, <1>5, ListedEntry DEF Dirs
  <2>2. /\ disc[c].name = CurrentPath[Len(CurrentPath)]
        /\ Paired => CurrentPath \in DOMAIN tree /\ tree[CurrentPath] = Current
    BY <1>1, <1>5, ListedEntry
  <2> QED
    BY <1>1, <1>5, <1>6, <2>1, <2>2 DEF Listed
<1>8. /\ stack' \in Seq(Dirs)
      /\ \A n \in 1 .. Len(stack') : Listed(stack[n])'
  <2>1. stack \in Seq(Dirs) /\ \A n \in 1 .. Len(stack) : Listed(stack[n])
    BY DEF IInv, WalkInv
  <2>2. stack' = Append(stack, d)
    BY <1>4
  <2> HIDE DEF d
  <2>3. /\ stack' \in Seq(Dirs)
        /\ \A n \in 1 .. Len(stack') :
             (n \in 1 .. Len(stack) /\ stack'[n] = stack[n]) \/ stack'[n] = d
    BY <1>7, <2>1, <2>2, AppendEntry
  <2> QED
    BY <1>1, <1>2, <1>7, <2>1, <2>3 DEF Listed
<1>9. /\ DOMAIN base' \subseteq Frags
      /\ \A f \in DOMAIN base' : base'[f] \in Int /\ (Paired => base'[f] = Base[f])
  <2>1. /\ DOMAIN base \subseteq Frags
        /\ \A f \in DOMAIN base : base[f] \in Int /\ (Paired => base[f] = Base[f])
    BY DEF IInv, WalkInv
  <2> QED
    BY <1>4, <1>5, <1>6, <2>1, NoteTrue
<1>10. \A p \in DOMAIN paths' :
         /\ paths'[p] \in Entries
         /\ p = Live => HasLive'
         /\ Paired => p \in DOMAIN tree' /\ paths'[p] = tree'[p]
  BY <1>1, PathNoted
<1>11. WalkInv'
  <2>1. seen' \subseteq Addr
    BY <1>1 DEF IInv, WalkInv
  <2> QED
    BY <1>1, <1>2, <1>3, <1>8, <1>9, <1>10, <2>1 DEF WalkInv
<1> QED
  BY <1>2, <1>11 DEF IInv

-----------------------------------------------------------------------------
(***************************************************************************)
(* The commands.                                                           *)
(***************************************************************************)
\* The tool closes after every command.
LEMMA EndsClosed ==
  ASSUME NEW next, Ends(next)
  PROVE  WalkInv' /\ open' = FALSE /\ phase' = next /\ tree' = tree
BY ClosedWalk DEF Ends

\* locate() under a Volume that is not misled: the file's own place, or a
\* sector with its text that no other has.
LEMMA LocateTrue ==
  ASSUME IInv, Paired, NEW path, NEW prefix, NEW off \in Locate(path, prefix)
  PROVE  /\ path \in DOMAIN tree /\ path \in DOMAIN paths
         /\ disc[Pos(tree[path].ind)].text = prefix => off = Pos(tree[path].ind)
<1>1. /\ path \in DOMAIN paths /\ path \in DOMAIN tree /\ paths[path] = tree[path]
      /\ tree[path].ind \in Addr
  BY DEF Locate, IInv, WalkInv, TreeInv, Entries
<1>2. CASE tree[path].ind[1] \in DOMAIN base
  <2>1. off = base[tree[path].ind[1]] + tree[path].ind[2]
    BY <1>1, <1>2 DEF Locate
  <2>2. base[tree[path].ind[1]] = Base[tree[path].ind[1]]
    BY <1>2 DEF IInv, WalkInv
  <2> QED
    BY <1>1, <2>1, <2>2 DEF Pos
<1>3. CASE tree[path].ind[1] \notin DOMAIN base
  <2> DEFINE hits == {i \in Sectors : disc[i].text = prefix}
  <2>1. Cardinality(hits) = 1 /\ off \in hits
    BY <1>1, <1>3 DEF Locate
  <2>2. hits \in SUBSET Sectors /\ Pos(tree[path].ind) \in Sectors
    BY <1>1, PosType
  <2>3. disc[Pos(tree[path].ind)].text = prefix => Pos(tree[path].ind) \in hits
    BY <2>2
  <2> HIDE DEF hits
  <2>4. IsFiniteSet(hits)
    BY <2>2, SectorsFinite, FS_Subset
  <2>5. \E x : hits = {x}
    BY <2>1, <2>4, FS_Singleton
  <2> QED
    BY <1>1, <2>1, <2>3, <2>5
<1> QED
  BY <1>2, <1>3

\* The hooks' commands, each in its place.
LEMMA Commands ==
  ASSUME IInv, InHook
  PROVE  /\ phase = "prepare" =>
              /\ Len(Script) = 3 /\ step \in {1, 2, 3}
              /\ step = 1 => Cmd.op = "cat" /\ Cmd.path = Template /\ Cmd.prefix = "stock"
              /\ step = 2 => Cmd.op = "patch" /\ Cmd.path = Template /\ Cmd.prefix = "stock"
              /\ step = 3 => Cmd.op = "cat"
         /\ phase # "prepare" =>
              /\ phase = "finalize" /\ Len(Script) = 4 /\ step \in {1, 2, 3, 4}
              /\ step = 1 => Cmd.op = "patch" /\ Cmd.path = Template /\ Cmd.prefix = "bootstrap"
              /\ step = 2 => Cmd.op = "patch" /\ Cmd.path = Live /\ Cmd.prefix = "bootstrap"
              /\ step = 3 => Cmd.op = "grep"
              /\ step = 4 => Cmd.op = "cat" /\ Cmd.path = Launcher /\ Cmd.prefix = "launcher"
<1>1. step \in {1, 2, 3, 4} /\ (phase = "prepare" => step \in {1, 2, 3})
  BY DEF IInv, HookInv
<1>2. CASE phase = "prepare"
  <2>1. Script = Prepare
    BY <1>2 DEF Script
  <2>2. Len(Prepare) = 3
    BY DEF Prepare
  <2>3. Cmd = Prepare[step]
    BY <2>1 DEF Cmd
  <2>4. /\ Prepare[1] = Command("cat", Template, "stock")
        /\ Prepare[2] = Command("patch", Template, "stock")
        /\ Prepare[3] = Command("cat", Template, "bootstrap")
    BY DEF Prepare
  <2> QED
    BY <1>1, <1>2, <2>1, <2>2, <2>3, <2>4 DEF Command
<1>3. CASE phase # "prepare"
  <2>1. Script = Finalize
    BY <1>3 DEF Script
  <2>2. Len(Finalize) = 4
    BY DEF Finalize
  <2>3. Cmd = Finalize[step]
    BY <2>1 DEF Cmd
  <2>4. /\ Finalize[1] = Command("patch", Template, "bootstrap")
        /\ Finalize[2] = Command("patch", Live, "bootstrap")
        /\ Finalize[3] = Command("grep", <<>>, "bootstrap")
        /\ Finalize[4] = Command("cat", Launcher, "launcher")
    BY DEF Finalize
  <2> QED
    BY <1>1, <1>3, <2>1, <2>2, <2>3, <2>4 DEF Command, InHook
<1> QED
  BY <1>2, <1>3

\* A text put in the place of another is no news to the directories.
LEMMA TextFrame ==
  ASSUME IInv, NEW off \in Sectors, NEW t \in Texts, disc[off].text \in Texts,
         disc' = [disc EXCEPT ![off] = Data(t)], tree' = tree
  PROVE  /\ TreeInv' /\ BlockInv' /\ StaleInv'
         /\ Paired' <=> Paired
         /\ disc'[off].text = t
         /\ \A i \in Sectors : i # off => disc'[i] = disc[i]
<1>1. disc \in [Sectors -> Cell]
  BY DEF IInv, BlockInv
<1>2. Magic \notin Texts
  BY DEF Magic, Texts
<1>3. Data(t) \in Cell /\ Data(t).text = t
  <2>1. <<>> \in Seq(Entries)
    OBVIOUS
  <2> QED
    BY <2>1 DEF Cell, Data
<1>4. /\ disc' \in [Sectors -> Cell] /\ disc'[off].text = t
      /\ \A i \in Sectors : i # off => disc'[i] = disc[i]
  BY <1>1, <1>3
<1>5. \A i \in Sectors : disc[i].text = Magic \/ disc'[i].text = Magic =>
        i # off /\ disc'[i] = disc[i]
  BY <1>2, <1>4
<1>6. Blocks' = Blocks /\ \A i \in Blocks : i \in Sectors /\ disc'[i] = disc[i]
  BY <1>5 DEF Blocks
<1>7. TreeInv'
  BY DEF IInv, TreeInv
<1>8. BlockInv'
  <2> SUFFICES ASSUME NEW p \in DOMAIN tree, tree[p].isdir
               PROVE  /\ At(p)'.text = Magic /\ At(p)'.name = tree[p].name
                      /\ \A k \in 1 .. Len(At(p)'.ents) :
                           /\ Append(p, At(p)'.ents[k].name) \in DOMAIN tree
                           /\ tree[Append(p, At(p)'.ents[k].name)] = At(p)'.ents[k]
    BY <1>4 DEF BlockInv
  <2>1. At(p).text = Magic /\ Pos(tree[p].ind) \in Sectors
    BY PosType DEF IInv, BlockInv, TreeInv, Entries
  <2>2. At(p)' = At(p)
    BY <1>5, <2>1 DEF At
  <2> QED
    BY <2>2 DEF IInv, BlockInv
<1>9. StaleInv'
  <2> SUFFICES ASSUME NEW i \in Sectors, disc'[i].text = Magic
               PROVE  /\ disc'[i].name = "$" => i = Pos(tree[Root].ind) /\ disc'[i].parent = tree[Root].ind
                      /\ disc'[i].name = "Choices" /\ "TimeSetup" \in Names(i)' => HasLive'
    BY DEF StaleInv
  <2>1. disc'[i] = disc[i] /\ disc[i].text = Magic /\ Names(i)' = Names(i) /\ HasLive' = HasLive
    BY <1>5 DEF Names, HasLive
  <2> QED
    BY <2>1 DEF IInv, StaleInv
<1>10. Paired' <=> Paired
  <2>1. RootCandidates' = RootCandidates /\ RootCandidates \subseteq Blocks
    BY <1>6 DEF RootCandidates, Names
  <2>2. \A a, n : Kids(a, n)' = Kids(a, n)
    BY <1>6 DEF Kids
  <2> QED
    BY <1>6, <2>1, <2>2 DEF Paired
<1> QED
  BY <1>4, <1>7, <1>8, <1>9, <1>10

\* A command that ends well goes on to the next, or to the next phase.
LEMMA SucceedsHook ==
  ASSUME IInv, InHook, Succeeds
  PROVE  /\ WalkInv' /\ open' = FALSE /\ tree' = tree
         /\ phase = "prepare" /\ step < 3 => phase' = "prepare" /\ step' = step + 1
         /\ phase = "prepare" /\ step = 3 => phase' = "boot" /\ step' = 1
         /\ phase = "finalize" /\ step < 4 => phase' = "finalize" /\ step' = step + 1
         /\ phase = "finalize" /\ step = 4 => phase' = "done" /\ step' = 1
<1>1. PICK next : Ends(next)
  BY DEF Succeeds
<1>2. WalkInv' /\ open' = FALSE /\ tree' = tree
  BY <1>1, EndsClosed
<1>3. /\ phase = "prepare" => Len(Script) = 3 /\ step \in {1, 2, 3}
      /\ phase = "finalize" => Len(Script) = 4 /\ step \in {1, 2, 3, 4}
  BY Commands
<1>4. /\ step < Len(Script) => phase' = phase /\ step' = step + 1
      /\ ~(step < Len(Script)) =>
           step' = 1 /\ phase' = IF phase = "prepare" THEN "boot" ELSE "done"
  BY DEF Succeeds, Ends
<1>5. /\ phase = "prepare" /\ step < 3 => phase' = "prepare" /\ step' = step + 1
      /\ phase = "prepare" /\ step = 3 => phase' = "boot" /\ step' = 1
  <2> SUFFICES ASSUME phase = "prepare"
               PROVE  /\ step < 3 => phase' = phase /\ step' = step + 1
                      /\ step = 3 => phase' = "boot" /\ step' = 1
    OBVIOUS
  <2>1. Len(Script) = 3 /\ step \in {1, 2, 3}
    BY <1>3
  <2>2. /\ step < 3 => phase' = phase /\ step' = step + 1
        /\ ~(step < 3) => step' = 1 /\ phase' = "boot"
    BY <1>4, <2>1
  <2>3. step = 3 => ~(step < 3)
    OBVIOUS
  <2> QED
    BY <2>2, <2>3
<1>6. /\ phase = "finalize" /\ step < 4 => phase' = "finalize" /\ step' = step + 1
      /\ phase = "finalize" /\ step = 4 => phase' = "done" /\ step' = 1
  <2> SUFFICES ASSUME phase = "finalize"
               PROVE  /\ step < 4 => phase' = phase /\ step' = step + 1
                      /\ step = 4 => phase' = "done" /\ step' = 1
    OBVIOUS
  <2>1. Len(Script) = 4 /\ phase # "prepare" /\ step \in {1, 2, 3, 4}
    BY <1>3
  <2> QED
    BY <1>4, <2>1
<1> QED
  BY <1>2, <1>5, <1>6

\* What a cat prints is used once, as the stock script.
LEMMA CatKeeps ==
  ASSUME IInv, Cat
  PROVE  IInv'
<1>1. InHook /\ Succeeds /\ disc' = disc /\ Cmd.op = "cat"
  BY DEF Cat
<1>2. PICK off \in Locate(Cmd.path, Cmd.prefix) :
        orig' = IF phase = "prepare" /\ step = 1 THEN Reads(off) ELSE orig
  BY DEF Cat
<1>3. WalkInv' /\ open' = FALSE /\ tree' = tree
  BY <1>1, SucceedsHook
<1>4. TreeInv' /\ BlockInv' /\ StaleInv' /\ (Paired' <=> Paired)
  <2>1. TreeInv'
    BY <1>3 DEF IInv, TreeInv
  <2>2. BlockInv'
    BY <1>1, <1>3 DEF IInv, BlockInv, At
  <2>3. StaleInv'
    BY <1>1, <1>3 DEF IInv, StaleInv, Names, HasLive
  <2>4. Paired' <=> Paired
    BY <1>1 DEF Paired, RootCandidates, Blocks, Names, Kids
  <2> QED
    BY <2>1, <2>2, <2>3, <2>4
<1>5. TextOf(Template)' = TextOf(Template) /\ TextOf(Live)' = TextOf(Live) /\ HasLive' = HasLive
  BY <1>1, <1>3 DEF TextOf, HasLive
<1>6. CASE phase = "prepare"
  <2>1. /\ step = 1 \/ step = 3
        /\ step = 1 => Cmd.path = Template /\ Cmd.prefix = "stock"
    BY <1>1, <1>6, Commands
  <2>2. Paired /\ ~HasLive /\ TextOf(Template) = IF step <= 2 THEN "stock" ELSE "bootstrap"
    BY <1>6 DEF IInv, TextInv
  <2>3. orig' = "stock"
    <3>1. CASE step = 1
      <4>1. disc[Pos(tree[Template].ind)].text = "stock"
        BY <2>2, <3>1 DEF TextOf
      <4>2. off = Pos(tree[Template].ind) /\ tree[Template].ind \in Addr
        BY <1>2, <2>1, <2>2, <3>1, <4>1, LocateTrue DEF IInv, TreeInv, Entries
      <4> QED
        BY <1>2, <1>6, <3>1, <4>1, <4>2, PosType DEF Reads
    <3>2. CASE step = 3
      BY <1>2, <1>6, <3>2 DEF IInv, TextInv
    <3> QED
      BY <2>1, <3>1, <3>2
  <2>4. /\ step = 1 => phase' = "prepare" /\ step' = 2
        /\ step = 3 => phase' = "boot" /\ step' = 1
    BY <1>1, <1>6, SucceedsHook
  <2>5. HookInv'
    <3>1. open' \in BOOLEAN /\ ~open' /\ orig' \in Texts
      BY <1>3, <2>3 DEF Texts
    <3> QED
      BY <2>1, <2>4, <3>1 DEF HookInv
  <2>6. TextInv'
    <3>1. CASE step = 1
      BY <1>4, <1>5, <2>2, <2>3, <2>4, <3>1 DEF TextInv
    <3>2. CASE step = 3
      BY <1>5, <2>2, <2>3, <2>4, <3>2 DEF TextInv
    <3> QED
      BY <2>1, <3>1, <3>2
  <2> QED
    BY <1>3, <1>4, <2>5, <2>6 DEF IInv
<1>7. CASE phase # "prepare"
  <2>1. phase = "finalize" /\ step = 4
    BY <1>1, <1>7, Commands
  <2>2. phase' = "done" /\ step' = 1
    BY <1>1, <2>1, SucceedsHook
  <2>3. orig' = orig
    BY <1>2, <2>1
  <2>4. HookInv'
    <3>1. open' \in BOOLEAN /\ ~open'
      BY <1>3
    <3> QED
      BY <2>2, <2>3, <3>1 DEF IInv, HookInv
  <2>5. TextInv'
    BY <1>1, <1>5, <2>1, <2>2, <2>3 DEF IInv, TextInv
  <2> QED
    BY <1>3, <1>4, <2>4, <2>5 DEF IInv
<1> QED
  BY <1>6, <1>7

\* A refused command ends the build.
LEMMA RefusalKeeps ==
  ASSUME IInv, Refuses
  PROVE  IInv'
<1>1. /\ WalkInv' /\ open' = FALSE /\ phase' = "failed" /\ tree' = tree
      /\ disc' = disc /\ step' = step /\ orig' = orig
  BY EndsClosed DEF Refuses
<1>2. TreeInv'
  BY <1>1 DEF IInv, TreeInv
<1>3. BlockInv'
  BY <1>1 DEF IInv, BlockInv, At
<1>4. StaleInv'
  BY <1>1 DEF IInv, StaleInv, Names, HasLive
<1>5. HookInv'
  BY <1>1 DEF IInv, HookInv, InHook
<1>6. TextInv'
  BY <1>1 DEF IInv, TextInv, TextOf, HasLive
<1> QED
  BY <1>1, <1>2, <1>3, <1>4, <1>5, <1>6 DEF IInv

\* The scan passes only a disc without the bootstrap.
LEMMA ScanKeeps ==
  ASSUME IInv, Scan
  PROVE  IInv'
<1>1. CASE Refuses
  BY <1>1, RefusalKeeps
<1>2. CASE Succeeds /\ UNCHANGED <<disc, orig>> /\ \A i \in Sectors : disc[i].text # "bootstrap"
  <2>1. phase = "finalize" /\ step = 3 /\ InHook
    BY Commands DEF Scan
  <2>2. /\ WalkInv' /\ open' = FALSE /\ tree' = tree /\ disc' = disc /\ orig' = orig
        /\ phase' = "finalize" /\ step' = 4
    BY <1>2, <2>1, SucceedsHook
  <2>3. TreeInv'
    BY <2>2 DEF IInv, TreeInv
  <2>4. BlockInv'
    BY <2>2 DEF IInv, BlockInv, At
  <2>5. StaleInv'
    BY <2>2 DEF IInv, StaleInv, Names, HasLive
  <2>6. HookInv'
    <3>1. open' \in BOOLEAN /\ ~open'
      BY <2>2
    <3> QED
      BY <2>2, <3>1 DEF IInv, HookInv
  <2>7. TextInv'
    BY <1>2, <2>1, <2>2 DEF IInv, TextInv, TextOf, HasLive
  <2> QED
    BY <2>2, <2>3, <2>4, <2>5, <2>6, <2>7 DEF IInv
<1> QED
  BY <1>1, <1>2 DEF Scan

\* What a patch overwrites.
LEMMA PatchTarget ==
  ASSUME IInv, Patch
  PROVE  \E off \in Sectors :
           /\ disc[off].text = Cmd.prefix
           /\ disc' = [disc EXCEPT ![off] =
                         Data(IF phase = "prepare" THEN "bootstrap" ELSE orig)]
           /\ Cmd.path \in DOMAIN paths
           /\ Paired => off = Pos(tree[Cmd.path].ind)
<1>1. PICK off \in Locate(Cmd.path, Cmd.prefix) \cap Sectors :
        /\ disc[off].text = Cmd.prefix
        /\ disc' = [disc EXCEPT ![off] =
                      Data(IF phase = "prepare" THEN "bootstrap" ELSE orig)]
  BY DEF Patch
<1>2. Cmd.path \in DOMAIN paths
  BY <1>1 DEF Locate
<1>3. Paired => off = Pos(tree[Cmd.path].ind)
  <2> SUFFICES ASSUME Paired PROVE off = Pos(tree[Cmd.path].ind)
    OBVIOUS
  <2>1. InHook /\ Cmd.op = "patch"
    BY DEF Patch
  <2>2. \/ phase = "prepare" /\ step = 2 /\ Cmd.path = Template /\ Cmd.prefix = "stock"
        \/ phase = "finalize" /\ step = 1 /\ Cmd.path = Template /\ Cmd.prefix = "bootstrap"
        \/ phase = "finalize" /\ step = 2 /\ Cmd.path = Live /\ Cmd.prefix = "bootstrap"
    BY <2>1, Commands
  <2>3. TextOf(Cmd.path) = Cmd.prefix
    <3>1. Cmd.path = Live => HasLive
      BY <1>2 DEF IInv, WalkInv
    <3> QED
      BY <2>2, <3>1 DEF IInv, TextInv
  <2> QED
    BY <1>1, <2>3, LocateTrue DEF TextOf
<1> QED
  BY <1>1, <1>2, <1>3

\* A patch puts one script in the place of the other.
LEMMA PatchKeeps ==
  ASSUME IInv, Patch
  PROVE  IInv'
<1>1. InHook /\ Succeeds /\ orig' = orig /\ Cmd.op = "patch"
  BY DEF Patch
<1>2. PICK off \in Sectors :
        /\ disc[off].text = Cmd.prefix
        /\ disc' = [disc EXCEPT ![off] =
                      Data(IF phase = "prepare" THEN "bootstrap" ELSE orig)]
        /\ Cmd.path \in DOMAIN paths
        /\ Paired => off = Pos(tree[Cmd.path].ind)
  BY PatchTarget
<1>3. WalkInv' /\ open' = FALSE /\ tree' = tree
  BY <1>1, SucceedsHook
<1>4. /\ Template \in DOMAIN tree /\ tree[Template].ind \in Addr
      /\ HasLive => tree[Live].ind \in Addr /\ Pos(tree[Live].ind) # Pos(tree[Template].ind)
  <2>1. Live # Template
    BY PathsDiffer
  <2>2. /\ Template \in DOMAIN tree /\ tree[Template].ind \in Addr
        /\ HasLive => tree[Live].ind \in Addr /\ tree[Live].ind # tree[Template].ind
    BY <2>1 DEF IInv, TreeInv, Entries, HasLive
  <2> QED
    BY <2>2, PosType
<1>5. /\ TextOf(Template)' = disc'[Pos(tree[Template].ind)].text
      /\ TextOf(Live)' = disc'[Pos(tree[Live].ind)].text
      /\ HasLive' = HasLive
      /\ Pos(tree[Template].ind) \in Sectors
      /\ HasLive => Pos(tree[Live].ind) \in Sectors
  BY <1>3, <1>4, PosType DEF TextOf, HasLive
<1>6. open' \in BOOLEAN /\ ~open'
  BY <1>3
<1>7. CASE phase = "prepare"
  <2>1. step = 2 /\ Cmd.path = Template /\ Cmd.prefix = "stock"
    BY <1>1, <1>7, Commands
  <2>2. phase' = "prepare" /\ step' = 3
    BY <1>1, <1>7, <2>1, SucceedsHook
  <2>3. /\ TreeInv' /\ BlockInv' /\ StaleInv' /\ (Paired' <=> Paired)
        /\ disc'[off].text = "bootstrap"
    <3>1. disc' = [disc EXCEPT ![off] = Data("bootstrap")] /\ disc[off].text \in Texts
          /\ "bootstrap" \in Texts
      BY <1>2, <1>7, <2>1 DEF Texts
    <3> QED
      BY <1>3, <3>1, TextFrame
  <2>4. Paired /\ ~HasLive /\ orig = "stock"
    BY <1>7, <2>1 DEF IInv, TextInv
  <2>5. TextOf(Template)' = "bootstrap"
    BY <1>2, <1>5, <2>1, <2>3, <2>4
  <2>6. HookInv'
    BY <1>1, <1>6, <2>2 DEF IInv, HookInv
  <2>7. TextInv'
    BY <1>1, <1>5, <2>2, <2>3, <2>4, <2>5 DEF TextInv
  <2> QED
    BY <1>3, <2>3, <2>6, <2>7 DEF IInv
<1>8. CASE phase # "prepare"
  <2>1. /\ phase = "finalize" /\ Cmd.prefix = "bootstrap"
        /\ (step = 1 /\ Cmd.path = Template) \/ (step = 2 /\ Cmd.path = Live)
    BY <1>1, <1>8, Commands
  <2>2. phase' = "finalize" /\ step' = step + 1 /\ step \in {1, 2}
    BY <1>1, <2>1, SucceedsHook
  <2>3. orig = "stock"
    BY <2>1 DEF IInv, TextInv
  <2>4. /\ TreeInv' /\ BlockInv' /\ StaleInv' /\ (Paired' <=> Paired)
        /\ disc'[off].text = "stock"
        /\ \A i \in Sectors : i # off => disc'[i] = disc[i]
    <3>1. disc' = [disc EXCEPT ![off] = Data("stock")] /\ disc[off].text \in Texts
          /\ "stock" \in Texts
      BY <1>2, <1>8, <2>1, <2>3 DEF Texts
    <3> QED
      BY <1>3, <3>1, TextFrame
  <2>5. /\ TextOf(Template) \in {"stock", "bootstrap"}
        /\ HasLive => TextOf(Live) \in {"stock", "bootstrap"}
    BY DEF IInv, TextInv
  <2>6. /\ TextOf(Template)' \in {"stock", "bootstrap"}
        /\ HasLive => TextOf(Live)' \in {"stock", "bootstrap"}
    BY <1>5, <2>4, <2>5 DEF TextOf
  <2>7. HookInv'
    BY <1>1, <1>6, <2>2 DEF IInv, HookInv
  <2>8. CASE step = 1
    <3>1. HasLive => TextOf(Live) = "bootstrap"
      BY <2>1, <2>8 DEF IInv, TextInv
    <3>2. Paired /\ HasLive => TextOf(Live)' = "bootstrap"
      <4> SUFFICES ASSUME Paired, HasLive PROVE TextOf(Live)' = "bootstrap"
        OBVIOUS
      <4>1. off = Pos(tree[Template].ind)
        BY <1>2, <2>1, <2>8
      <4> QED
        BY <1>4, <1>5, <2>4, <3>1, <4>1 DEF TextOf
    <3>3. TextInv'
      BY <1>1, <1>5, <2>2, <2>3, <2>4, <2>6, <2>8, <3>2 DEF TextInv
    <3> QED
      BY <1>3, <2>4, <2>7, <3>3 DEF IInv
  <2>9. CASE step = 2
    <3>1. HasLive
      BY <1>2, <2>1, <2>9 DEF IInv, WalkInv
    <3>2. TextInv'
      BY <1>1, <1>5, <2>2, <2>3, <2>6, <2>9, <3>1 DEF TextInv
    <3> QED
      BY <1>3, <2>4, <2>7, <3>2 DEF IInv
  <2> QED
    BY <2>1, <2>8, <2>9
<1> QED
  BY <1>7, <1>8

\* The tool's steps keep the invariant.
LEMMA ToolKeeps ==
  ASSUME IInv, Tool
  PROVE  IInv'
<1>1. ASSUME Refusal PROVE IInv'
  BY <1>1, RefusalKeeps DEF Refusal
<1> QED
  BY <1>1, OpenVolumeKeeps, PopKeeps, ListEntryKeeps, ListDirKeeps, CatKeeps, PatchKeeps,
     ScanKeeps DEF Tool

-----------------------------------------------------------------------------
(***************************************************************************)
(* The guest.                                                              *)
(***************************************************************************)
\* Objects of the tree have sectors of their own.
LEMMA OwnSectors ==
  ASSUME IInv
  PROVE  /\ \A p \in DOMAIN tree :
              tree[p] \in Entries /\ tree[p].ind \in Addr /\ Pos(tree[p].ind) \in Sectors
         /\ \A p, q \in DOMAIN tree : Pos(tree[p].ind) = Pos(tree[q].ind) => p = q
         /\ \A p \in DOMAIN tree : tree[p].isdir => At(p) = disc[Pos(tree[p].ind)]
<1>1. \A p \in DOMAIN tree : tree[p] \in Entries /\ tree[p].ind \in Addr
  BY DEF IInv, TreeInv, Entries
<1>2. \A p, q \in DOMAIN tree : tree[p].ind = tree[q].ind => p = q
  BY DEF IInv, TreeInv
<1> QED
  BY <1>1, <1>2, PosType DEF At

\* The hook waits while the guest runs, and has no Volume open.
LEMMA GuestFrame ==
  ASSUME IInv, phase = "boot", UNCHANGED <<step, orig, volume>>, phase' \in {"boot", "finalize"}
  PROVE  /\ WalkInv' /\ HookInv'
         /\ ~open /\ step = 1 /\ orig = "stock"
<1>1. ~open /\ step = 1 /\ orig = "stock"
  BY DEF IInv, HookInv, TextInv, InHook
<1>2. /\ ~open' /\ open' = open /\ cur' = Closed /\ stack' = <<>> /\ seen' \subseteq Addr
      /\ base' = <<>> /\ paths' = <<>>
  BY <1>1 DEF IInv, WalkInv, volume
<1>3. WalkInv'
  BY <1>2, ClosedWalk
<1>4. HookInv'
  BY <1>1, <1>2 DEF IInv, HookInv
<1> QED
  BY <1>1, <1>3, <1>4

\* What a new object e of a directory changes: its own sector, n, and one entry
\* more in the directory's, d.
Created(new, e, d, n, dir, cell) ==
  /\ phase = "boot" /\ UNCHANGED <<hook, volume>>
  /\ dir \in DOMAIN tree /\ tree[dir].isdir /\ dir \in Path
  /\ tree[dir].name = IF dir = Boot THEN "!Boot" ELSE IF dir = Apps THEN "Apps" ELSE "Choices"
  /\ d = Pos(tree[dir].ind) /\ d \in Sectors /\ n \in Sectors /\ d # n
  /\ \A q \in DOMAIN tree : Pos(tree[q].ind) # n
  /\ new \in Path /\ e \in Entries
  /\ disc[d].ents \in Seq(Entries) /\ disc' \in [Sectors -> Cell]
  /\ disc'[n] = cell
  /\ disc'[d].ents = Append(disc[d].ents, e) /\ disc'[d].text = disc[d].text
  /\ disc'[d].name = disc[d].name /\ disc'[d].parent = disc[d].parent
  /\ \A i \in Sectors : i # n /\ i # d => disc'[i] = disc[i]
  /\ DOMAIN tree' = DOMAIN tree \cup {new} /\ tree'[new] = e
  /\ \A p \in DOMAIN tree : p # new /\ tree'[p] = tree[p]

\* An object made in a directory of the tree.
LEMMA CreateDoes ==
  ASSUME IInv, NEW dir \in {Boot, Choices, Apps}, NEW name \in ObjNames,
         NEW isdir \in BOOLEAN, NEW a \in Addr, NEW cell \in Cell,
         Create(dir, name, isdir, a, cell)
  PROVE  Created(Append(dir, name), Entry(name, isdir, a), Pos(tree[dir].ind), Pos(a), dir, cell)
<1> DEFINE new == Append(dir, name)
           e == Entry(name, isdir, a)
           d == Pos(tree[dir].ind)
           n == Pos(a)
<1>1. /\ phase = "boot" /\ dir \in DOMAIN tree /\ new \notin DOMAIN tree
      /\ tree' = Put(tree, new, e)
      /\ disc' = [disc EXCEPT ![d].ents = Append(@, e), ![n] = cell]
      /\ UNCHANGED <<hook, volume>>
      /\ \A q \in DOMAIN tree : Pos(tree[q].ind) # n
  BY DEF Create, Free
<1>3. /\ tree[dir].isdir /\ tree[dir] \in Entries /\ d \in Sectors /\ n \in Sectors
      /\ d # n /\ dir \in Path
      /\ tree[dir].name = IF dir = Boot THEN "!Boot" ELSE IF dir = Apps THEN "Apps" ELSE "Choices"
  BY <1>1, OwnSectors, PosType, PathsDiffer DEF IInv, TreeInv
<1>4. new \in Path /\ e \in Entries /\ e.name = name /\ e.isdir = isdir /\ e.ind = a
  <2>1. new \in Path
    BY <1>3, ChildPath
  <2> QED
    BY <2>1 DEF Entry, Entries
<1>5. disc \in [Sectors -> Cell] /\ disc[d].ents \in Seq(Entries) /\ disc[d] \in Cell
  BY <1>3 DEF IInv, BlockInv, Cell
<1> HIDE DEF new, e, d, n
<1>6. /\ disc'[n] = cell
      /\ disc'[d] = [disc[d] EXCEPT !.ents = Append(disc[d].ents, e)]
      /\ \A i \in Sectors : i # n /\ i # d => disc'[i] = disc[i]
  BY <1>1, <1>3, <1>5
<1>7. Append(disc[d].ents, e) \in Seq(Entries)
  BY <1>4, <1>5, AppendProperties
<1>8. /\ disc'[d] \in Cell /\ disc'[d].ents = Append(disc[d].ents, e)
      /\ disc'[d].text = disc[d].text /\ disc'[d].name = disc[d].name
      /\ disc'[d].parent = disc[d].parent
  BY <1>5, <1>6, <1>7 DEF Cell
<1>9. disc' \in [Sectors -> Cell]
  <2>1. disc' = [i \in Sectors |-> disc'[i]]
    BY <1>1, <1>5
  <2>2. \A i \in Sectors : disc'[i] \in Cell
    BY <1>5, <1>6, <1>8
  <2> QED
    BY <2>1, <2>2
<1>10. /\ DOMAIN tree' = DOMAIN tree \cup {new} /\ tree'[new] = e
       /\ \A p \in DOMAIN tree : p # new /\ tree'[p] = tree[p]
  BY <1>1 DEF Put
<1> QED
  <2>1. d = Pos(tree[dir].ind)
    BY DEF d
  <2>2. Created(new, e, d, n, dir, cell)
    BY <1>1, <1>3, <1>4, <1>5, <1>6, <1>8, <1>9, <1>10, <2>1 DEF Created
  <2> QED
    BY <2>2 DEF new, e, d, n

\* A new file or empty directory.
LEMMA CreateKeeps ==
  ASSUME IInv, NEW dir \in {Boot, Choices, Apps}, NEW name \in ObjNames,
         NEW isdir \in BOOLEAN, NEW a \in Addr, NEW cell \in Cell,
         Create(dir, name, isdir, a, cell),
         isdir => Append(dir, name) = Choices /\ name = "Choices" /\ cell.text = Magic
                  /\ cell.name = name /\ cell.ents = <<>>,
         ~isdir => Append(dir, name) # Choices /\ cell.text \in Texts,
         Append(dir, name) = Live => ~isdir /\ cell.text = "bootstrap"
  PROVE  IInv'
<1> DEFINE new == Append(dir, name)
           e == Entry(name, isdir, a)
           d == Pos(tree[dir].ind)
           n == Pos(a)
<1>0. Created(new, e, d, n, dir, cell)
  BY CreateDoes
<1>9. e.name = name /\ e.isdir = isdir /\ e.ind = a /\ d = Pos(tree[dir].ind)
  BY DEF Entry
<1> HIDE DEF new, e, d, n
<1>1. /\ phase = "boot" /\ dir \in DOMAIN tree /\ UNCHANGED <<hook, volume>>
      /\ \A q \in DOMAIN tree : Pos(tree[q].ind) # n
  BY <1>0 DEF Created
<1>2. /\ phase' = "boot" /\ WalkInv' /\ HookInv' /\ step' = 1 /\ orig' = "stock"
  <2>1. phase' = phase /\ step' = step /\ orig' = orig
    BY <1>1 DEF hook
  <2> QED
    BY <1>1, <2>1, GuestFrame
<1>3. /\ tree[dir].isdir /\ d \in Sectors /\ n \in Sectors
      /\ d # n /\ dir \in Path
      /\ tree[dir].name = IF dir = Boot THEN "!Boot" ELSE IF dir = Apps THEN "Apps" ELSE "Choices"
  BY <1>0 DEF Created
<1>4. /\ new \in Path /\ e \in Entries /\ e.name = name /\ e.isdir = isdir /\ e.ind = a
      /\ disc[d].ents \in Seq(Entries)
  BY <1>0, <1>9 DEF Created
<1>6. disc'[n] = cell /\ \A i \in Sectors : i # n /\ i # d => disc'[i] = disc[i]
  BY <1>0 DEF Created
<1>8. /\ disc'[d].ents = Append(disc[d].ents, e)
      /\ disc'[d].text = disc[d].text /\ disc'[d].name = disc[d].name
      /\ disc'[d].parent = disc[d].parent /\ disc' \in [Sectors -> Cell]
  BY <1>0 DEF Created
<1>10. /\ DOMAIN tree' = DOMAIN tree \cup {new} /\ tree'[new] = e
       /\ \A p \in DOMAIN tree : p # new /\ tree'[p] = tree[p]
  BY <1>0 DEF Created
<1>7. \A k \in 1 .. Len(Append(disc[d].ents, e)) :
        \/ k \in 1 .. Len(disc[d].ents) /\ Append(disc[d].ents, e)[k] = disc[d].ents[k]
        \/ Append(disc[d].ents, e)[k] = e
  BY <1>4, AppendEntry
<1>11. TreeInv'
  <2>1. DOMAIN tree' \subseteq Path /\ \A p \in DOMAIN tree' : tree'[p] \in Entries
    BY <1>4, <1>10 DEF IInv, TreeInv
  <2>2. \A p, q \in DOMAIN tree' : tree'[p].ind = tree'[q].ind => p = q
    BY <1>1, <1>4, <1>10 DEF IInv, TreeInv, n
  <2>3. /\ {Root, Boot, Apps, Hook, Template} \subseteq DOMAIN tree
        /\ \A p \in {Root, Boot, Apps, Hook, Template} : p \in DOMAIN tree'
        /\ \A p \in {Root, Boot, Apps, Hook, Template} : tree'[p] = tree[p]
    BY <1>10 DEF IInv, TreeInv
  <2>4. Choices \in DOMAIN tree' => tree'[Choices].isdir /\ tree'[Choices].name = "Choices"
    BY <1>4, <1>10 DEF IInv, TreeInv, new
  <2>5. Live \in DOMAIN tree' => ~tree'[Live].isdir
    BY <1>4, <1>10 DEF IInv, TreeInv, new
  <2> QED
    BY <2>1, <2>2, <2>3, <2>4, <2>5 DEF IInv, TreeInv
<1>12. BlockInv'
  <2> SUFFICES ASSUME NEW p \in DOMAIN tree', tree'[p].isdir
               PROVE  /\ At(p)'.text = Magic /\ At(p)'.name = tree'[p].name
                      /\ \A k \in 1 .. Len(At(p)'.ents) :
                           /\ Append(p, At(p)'.ents[k].name) \in DOMAIN tree'
                           /\ tree'[Append(p, At(p)'.ents[k].name)] = At(p)'.ents[k]
    BY <1>8 DEF BlockInv
  <2>1. CASE p = new
    <3>1. At(p)' = cell
      BY <1>4, <1>6, <1>10, <2>1 DEF At, n
    <3> QED
      BY <1>4, <1>10, <2>1, <3>1, EmptyDomain
  <2>2. CASE p = dir
    <3>1. At(p)' = disc'[d] /\ At(p) = disc[d] /\ tree'[p] = tree[p]
      BY <1>1, <1>10, <2>2 DEF At, d
    <3>2. /\ disc[d].text = Magic /\ disc[d].name = tree[p].name
          /\ \A k \in 1 .. Len(disc[d].ents) :
               /\ Append(p, disc[d].ents[k].name) \in DOMAIN tree
               /\ tree[Append(p, disc[d].ents[k].name)] = disc[d].ents[k]
      BY <1>1, <1>3, <2>2, <3>1 DEF IInv, BlockInv
    <3>3. Append(p, e.name) = new
      BY <1>4, <2>2 DEF new
    <3>4. ASSUME NEW k \in 1 .. Len(disc'[d].ents)
          PROVE  /\ Append(p, disc'[d].ents[k].name) \in DOMAIN tree'
                 /\ tree'[Append(p, disc'[d].ents[k].name)] = disc'[d].ents[k]
      <4>1. CASE k \in 1 .. Len(disc[d].ents) /\ disc'[d].ents[k] = disc[d].ents[k]
        BY <1>10, <3>2, <4>1
      <4>2. CASE disc'[d].ents[k] = e
        BY <1>10, <3>3, <4>2
      <4> QED
        BY <1>7, <1>8, <4>1, <4>2
    <3> QED
      BY <1>8, <3>1, <3>2, <3>4
  <2>3. CASE p # new /\ p # dir
    <3>1. p \in DOMAIN tree /\ tree'[p] = tree[p]
      BY <1>10, <2>3
    <3>2. Pos(tree[p].ind) \in Sectors /\ Pos(tree[p].ind) # d /\ Pos(tree[p].ind) # n
      BY <1>1, <2>3, <3>1, OwnSectors DEF d
    <3>3. At(p)' = At(p)
      BY <1>6, <3>1, <3>2 DEF At
    <3>4. /\ At(p).text = Magic /\ At(p).name = tree[p].name
          /\ \A k \in 1 .. Len(At(p).ents) :
               /\ Append(p, At(p).ents[k].name) \in DOMAIN tree
               /\ tree[Append(p, At(p).ents[k].name)] = At(p).ents[k]
      BY <3>1 DEF IInv, BlockInv
    <3> QED
      BY <1>10, <3>1, <3>3, <3>4
  <2> QED
    BY <2>1, <2>2, <2>3
<1>13. HasLive => HasLive'
  BY <1>10 DEF HasLive
<1>14. StaleInv'
  <2> SUFFICES ASSUME NEW i \in Sectors, disc'[i].text = Magic
               PROVE  /\ disc'[i].name = "$" => i = Pos(tree'[Root].ind) /\ disc'[i].parent = tree'[Root].ind
                      /\ disc'[i].name = "Choices" /\ "TimeSetup" \in Names(i)' => HasLive'
    BY DEF StaleInv
  <2>1. tree'[Root] = tree[Root]
    BY <1>10 DEF IInv, TreeInv
  <2>2. CASE i = n
    <3>1. disc'[i] = cell /\ isdir
      <4>1. Magic \notin Texts
        BY DEF Magic, Texts
      <4> QED
        BY <1>6, <2>2, <4>1
    <3> QED
      BY <3>1, EmptyDomain DEF Names
  <2>3. CASE i = d
    <3>1. disc[d].name = tree[dir].name /\ disc[d].text = Magic
      BY <1>1, <1>3 DEF IInv, BlockInv, At, d
    <3>2. disc'[i].name # "$"
      BY <1>3, <1>8, <2>3, <3>1
    <3>3. ASSUME disc'[i].name = "Choices", "TimeSetup" \in Names(i)'
          PROVE  HasLive'
      <4>1. dir = Choices
        BY <1>3, <1>8, <2>3, <3>1, <3>3
      <4>2. PICK k \in 1 .. Len(disc'[d].ents) : disc'[d].ents[k].name = "TimeSetup"
        BY <2>3, <3>3 DEF Names
      <4>3. CASE k \in 1 .. Len(disc[d].ents) /\ disc'[d].ents[k] = disc[d].ents[k]
        <5>1. "TimeSetup" \in Names(d)
          BY <4>2, <4>3 DEF Names
        <5> QED
          BY <1>3, <1>8, <1>13, <2>3, <3>1, <3>3, <5>1 DEF IInv, StaleInv
      <4>4. CASE disc'[d].ents[k] = e
        BY <1>4, <1>10, <4>1, <4>2, <4>4 DEF HasLive, Live, new
      <4> QED
        BY <1>7, <1>8, <4>2, <4>3, <4>4
    <3> QED
      BY <3>2, <3>3
  <2>4. CASE i # n /\ i # d
    <3>1. disc'[i] = disc[i] /\ Names(i)' = Names(i)
      BY <1>6, <2>4 DEF Names
    <3> QED
      BY <1>13, <2>1, <3>1 DEF IInv, StaleInv
  <2> QED
    BY <2>2, <2>3, <2>4
<1>15. TextInv'
  <2>1. /\ TextOf(Template) = "bootstrap" /\ Template \in DOMAIN tree
        /\ HasLive => TextOf(Live) = "bootstrap"
    BY <1>1 DEF IInv, TextInv, TreeInv
  <2>2. \A p \in DOMAIN tree : TextOf(p)' = TextOf(p)
    <3> SUFFICES ASSUME NEW p \in DOMAIN tree
                 PROVE  disc'[Pos(tree[p].ind)].text = disc[Pos(tree[p].ind)].text
      BY <1>10 DEF TextOf
    <3>1. Pos(tree[p].ind) \in Sectors /\ Pos(tree[p].ind) # n
      BY <1>1, OwnSectors
    <3> QED
      BY <1>6, <1>8, <3>1
  <2>3. TextOf(Template)' = "bootstrap"
    BY <2>1, <2>2
  <2>4. HasLive' => TextOf(Live)' = "bootstrap"
    <3>1. CASE HasLive
      BY <2>1, <2>2, <3>1 DEF HasLive
    <3>2. CASE ~HasLive /\ HasLive'
      BY <1>4, <1>6, <1>10, <3>2 DEF HasLive, TextOf, new, n
    <3> QED
      BY <3>1, <3>2
  <2> QED
    BY <1>2, <2>3, <2>4 DEF TextInv
<1> QED
  BY <1>2, <1>11, <1>12, <1>14, <1>15 DEF IInv

\* A child of !Boot.
LEMMA BootChild ==
  ASSUME NEW m \in ObjNames
  PROVE  Append(Boot, m) = <<"$", "!Boot", m>>
<1> DEFINE new == Append(Boot, m)
           child == <<"$", "!Boot", m>>
<1>1. Boot \in Seq(ObjNames) /\ child \in Seq(ObjNames)
  <2>1. "$" \in ObjNames /\ "!Boot" \in ObjNames
    BY DEF ObjNames
  <2> QED
    BY <2>1 DEF Boot
<1>2. /\ Len(Boot) = 2 /\ Boot[1] = "$" /\ Boot[2] = "!Boot" /\ Len(child) = 3
      /\ child[1] = "$" /\ child[2] = "!Boot" /\ child[3] = m
  BY DEF Boot
<1>3. /\ new \in Seq(ObjNames) /\ Len(new) = Len(Boot) + 1
      /\ \A i \in 1 .. Len(Boot) : new[i] = Boot[i]
      /\ new[Len(Boot) + 1] = m
  BY <1>1, AppendProperties
<1> HIDE DEF new, child
<1>4. \A i \in 1 .. Len(new) : new[i] = child[i]
  <2>1. \A i \in 1 .. 3 : i = 1 \/ i = 2 \/ i = 3
    OBVIOUS
  <2> QED
    BY <1>2, <1>3, <2>1
<1>5. new = child
  BY <1>1, <1>2, <1>3, <1>4, SeqEqual
<1> QED
  BY <1>5 DEF new, child

\* Choices and RO530Hook are children of !Boot.
LEMMA ChoicesPath == Append(Boot, "Choices") = Choices /\ Append(Boot, "RO530Hook") = Hook
<1>1. "Choices" \in ObjNames /\ "RO530Hook" \in ObjNames
  BY DEF ObjNames
<1> QED
  BY <1>1, BootChild DEF Choices, Hook

\* What the guest creates.
LEMMA GuestCreates ==
  ASSUME IInv, NEW a \in Addr,
         \/ GuestMakesChoices(a) \/ GuestCopiesTemplate(a)
         \/ GuestWritesLauncher(a) \/ GuestKeepsCopy(a)
  PROVE  IInv'
<1>1. /\ "Choices" \in ObjNames /\ "TimeSetup" \in ObjNames /\ "AnyVM" \in ObjNames
      /\ Append(Choices, "TimeSetup") = Live /\ Append(Choices, "AnyVM") = Launcher
      /\ Append(Apps, "TimeSetup") = Copy /\ Append(Boot, "Choices") = Choices
  BY ChoicesPath DEF ObjNames, Live, Launcher, Copy
<1>2. /\ tree[Boot].ind \in Addr /\ phase = "boot"
      /\ TextOf(Template) = "bootstrap"
  <2>1. phase = "boot"
    BY DEF GuestMakesChoices, GuestCopiesTemplate, GuestWritesLauncher, GuestKeepsCopy, Create
  <2> QED
    BY <2>1 DEF IInv, TextInv, TreeInv, Entries
<1>3. <<>> \in Seq(Entries)
  OBVIOUS
<1>4. /\ Block("Choices", tree[Boot].ind, <<>>) \in Cell
      /\ Block("Choices", tree[Boot].ind, <<>>).text = Magic
      /\ Block("Choices", tree[Boot].ind, <<>>).name = "Choices"
      /\ Block("Choices", tree[Boot].ind, <<>>).ents = <<>>
  BY <1>1, <1>2, <1>3 DEF Block, Cell
<1>5. /\ Data("bootstrap") \in Cell /\ Data("bootstrap").text = "bootstrap"
      /\ Data("launcher") \in Cell /\ Data("launcher").text = "launcher"
      /\ "bootstrap" \in Texts /\ "launcher" \in Texts
  BY <1>3 DEF Data, Cell, Texts
<1>6. CASE GuestMakesChoices(a)
  <2>1. Choices # Live
    BY PathsDiffer
  <2> QED
    BY <1>1, <1>4, <1>6, <2>1, CreateKeeps DEF GuestMakesChoices
<1>7. CASE GuestCopiesTemplate(a)
  <2>1. Live # Choices /\ Create(Choices, "TimeSetup", FALSE, a, Data("bootstrap"))
    BY <1>2, <1>7, PathsDiffer DEF GuestCopiesTemplate
  <2> QED
    BY <1>1, <1>5, <2>1, CreateKeeps
<1>8. CASE GuestWritesLauncher(a)
  <2>1. Launcher # Choices /\ Launcher # Live
    BY PathsDiffer
  <2> QED
    BY <1>1, <1>5, <1>8, <2>1, CreateKeeps DEF GuestWritesLauncher
<1>9. CASE GuestKeepsCopy(a)
  <2>1. /\ Copy # Choices /\ Copy # Live
        /\ Create(Apps, "TimeSetup", FALSE, a, Data("bootstrap"))
    BY <1>2, <1>9, PathsDiffer DEF GuestKeepsCopy
  <2> QED
    BY <1>1, <1>5, <2>1, CreateKeeps
<1> QED
  BY <1>6, <1>7, <1>8, <1>9

\* What is left of the guest's other copy: its sector, without an entry in the
\* directory's, d.
Dropped(d) ==
  /\ phase = "boot" /\ UNCHANGED <<hook, volume>>
  /\ d = Pos(tree[Apps].ind) /\ d \in Sectors
  /\ disc' \in [Sectors -> Cell]
  /\ disc'[d].ents = <<>> /\ disc'[d].text = disc[d].text
  /\ disc'[d].name = disc[d].name /\ disc'[d].parent = disc[d].parent
  /\ \A i \in Sectors : i # d => disc'[i] = disc[i]
  /\ DOMAIN tree' = DOMAIN tree \ {Copy} /\ \A p \in DOMAIN tree' : tree'[p] = tree[p]

\* The copy of the template goes.
LEMMA DropDoes ==
  ASSUME IInv, GuestDropsCopy
  PROVE  Dropped(Pos(tree[Apps].ind))
<1> DEFINE d == Pos(tree[Apps].ind)
<1>1. /\ phase = "boot" /\ Copy \in DOMAIN tree
      /\ tree' = [p \in DOMAIN tree \ {Copy} |-> tree[p]]
      /\ disc' = [disc EXCEPT ![d].ents = <<>>]
      /\ UNCHANGED <<hook, volume>>
  BY DEF GuestDropsCopy
<1>3. /\ Apps \in DOMAIN tree /\ tree[Apps].isdir /\ d \in Sectors
      /\ Copy \notin {Root, Boot, Apps, Hook, Choices, Template, Live}
  BY OwnSectors, PathsDiffer DEF IInv, TreeInv
<1>4. disc \in [Sectors -> Cell] /\ disc[d] \in Cell
  BY <1>3 DEF IInv, BlockInv
<1> HIDE DEF d
<1>5. /\ disc'[d] \in Cell /\ disc'[d].ents = <<>> /\ disc'[d].text = disc[d].text
      /\ disc'[d].name = disc[d].name /\ disc'[d].parent = disc[d].parent
      /\ \A i \in Sectors : i # d => disc'[i] = disc[i]
  <2>1. <<>> \in Seq(Entries)
    OBVIOUS
  <2>2. disc'[d] = [disc[d] EXCEPT !.ents = <<>>]
    BY <1>1, <1>3, <1>4
  <2>3. [disc[d] EXCEPT !.ents = <<>>] \in Cell
    BY <1>4, <2>1 DEF Cell
  <2> QED
    BY <1>1, <1>3, <1>4, <2>2, <2>3 DEF Cell
<1>6. disc' \in [Sectors -> Cell]
  <2>1. disc' = [i \in Sectors |-> disc'[i]]
    BY <1>1, <1>4
  <2>2. \A i \in Sectors : disc'[i] \in Cell
    BY <1>4, <1>5
  <2> QED
    BY <2>1, <2>2
<1>7. DOMAIN tree' = DOMAIN tree \ {Copy} /\ \A p \in DOMAIN tree' : tree'[p] = tree[p]
  BY <1>1
<1>8. d = Pos(tree[Apps].ind)
  BY DEF d
<1>9. Dropped(d)
  BY <1>1, <1>3, <1>5, <1>6, <1>7, <1>8 DEF Dropped
<1> QED
  BY <1>9 DEF d

\* The guest's other copy goes from the tree, its sector stays.
LEMMA GuestDropsCopyKeeps ==
  ASSUME IInv, GuestDropsCopy
  PROVE  IInv'
<1> DEFINE d == Pos(tree[Apps].ind)
<1>0. Dropped(d)
  BY DropDoes
<1> HIDE DEF d
<1>1. phase = "boot" /\ UNCHANGED <<hook, volume>> /\ d \in Sectors /\ d = Pos(tree[Apps].ind)
  BY <1>0 DEF Dropped
<1>2. /\ phase' = "boot" /\ WalkInv' /\ HookInv' /\ step' = 1 /\ orig' = "stock"
  <2>1. phase' = phase /\ step' = step /\ orig' = orig
    BY <1>1 DEF hook
  <2> QED
    BY <1>1, <2>1, GuestFrame
<1>3. /\ Apps \in DOMAIN tree /\ tree[Apps].isdir /\ d \in Sectors
      /\ Copy \notin {Root, Boot, Apps, Hook, Choices, Template, Live}
  BY <1>1, OwnSectors, PathsDiffer DEF IInv, TreeInv
<1>5. /\ disc'[d].ents = <<>> /\ disc'[d].text = disc[d].text
      /\ disc'[d].name = disc[d].name /\ disc'[d].parent = disc[d].parent
      /\ \A i \in Sectors : i # d => disc'[i] = disc[i]
  BY <1>0 DEF Dropped
<1>6. disc' \in [Sectors -> Cell]
  BY <1>0 DEF Dropped
<1>7. DOMAIN tree' = DOMAIN tree \ {Copy} /\ \A p \in DOMAIN tree' : tree'[p] = tree[p]
  BY <1>0 DEF Dropped
<1>8. TreeInv'
  BY <1>3, <1>7 DEF IInv, TreeInv
<1>9. BlockInv'
  <2> SUFFICES ASSUME NEW p \in DOMAIN tree', tree'[p].isdir
               PROVE  /\ At(p)'.text = Magic /\ At(p)'.name = tree'[p].name
                      /\ \A k \in 1 .. Len(At(p)'.ents) :
                           /\ Append(p, At(p)'.ents[k].name) \in DOMAIN tree'
                           /\ tree'[Append(p, At(p)'.ents[k].name)] = At(p)'.ents[k]
    BY <1>6 DEF BlockInv
  <2>1. p \in DOMAIN tree /\ tree'[p] = tree[p] /\ p # Copy
    BY <1>7
  <2>2. /\ At(p).text = Magic /\ At(p).name = tree[p].name
        /\ \A k \in 1 .. Len(At(p).ents) :
             /\ Append(p, At(p).ents[k].name) \in DOMAIN tree
             /\ tree[Append(p, At(p).ents[k].name)] = At(p).ents[k]
    BY <2>1 DEF IInv, BlockInv
  <2>3. CASE p = Apps
    <3>1. At(p)' = disc'[d] /\ At(p) = disc[d]
      BY <2>1, <2>3 DEF At, d
    <3> QED
      BY <1>5, <2>1, <2>2, <3>1, EmptyDomain
  <2>4. CASE p # Apps
    <3>1. Pos(tree[p].ind) \in Sectors /\ Pos(tree[p].ind) # d
      BY <1>3, <2>1, <2>4, OwnSectors DEF d
    <3>2. At(p)' = At(p)
      BY <1>5, <2>1, <3>1 DEF At
    <3>3. ASSUME NEW k \in 1 .. Len(At(p).ents)
          PROVE  Append(p, At(p).ents[k].name) # Copy
      <4>1. At(p).ents[k].name \in ObjNames
        <5>1. At(p).ents[k] \in Entries
          BY <2>2 DEF IInv, TreeInv
        <5> QED
          BY <5>1 DEF Entries
      <4>2. p \in Path /\ Apps \in Path /\ "TimeSetup" \in ObjNames
        BY <2>1, PathsDiffer DEF IInv, TreeInv, ObjNames
      <4> QED
        BY <2>4, <4>1, <4>2, ChildOfOne DEF Copy
    <3> QED
      BY <1>7, <2>1, <2>2, <3>2, <3>3
  <2> QED
    BY <2>3, <2>4
<1>10. StaleInv'
  <2> SUFFICES ASSUME NEW i \in Sectors, disc'[i].text = Magic
               PROVE  /\ disc'[i].name = "$" => i = Pos(tree'[Root].ind) /\ disc'[i].parent = tree'[Root].ind
                      /\ disc'[i].name = "Choices" /\ "TimeSetup" \in Names(i)' => HasLive'
    BY DEF StaleInv
  <2>1. tree'[Root] = tree[Root] /\ HasLive' = HasLive
    BY <1>3, <1>7 DEF IInv, TreeInv, HasLive
  <2>2. /\ disc'[i].text = disc[i].text /\ disc'[i].name = disc[i].name
        /\ disc'[i].parent = disc[i].parent
    BY <1>5
  <2>3. Names(i)' \subseteq Names(i)
    <3>1. CASE i = d
      BY <1>5, <3>1, EmptyDomain DEF Names
    <3>2. CASE i # d
      BY <1>5, <3>2 DEF Names
    <3> QED
      BY <3>1, <3>2
  <2> QED
    BY <2>1, <2>2, <2>3 DEF IInv, StaleInv
<1>11. TextInv'
  <2>1. /\ TextOf(Template) = "bootstrap" /\ Template \in DOMAIN tree'
        /\ HasLive => TextOf(Live) = "bootstrap"
    BY <1>1, <1>3, <1>7 DEF IInv, TextInv, TreeInv
  <2>2. \A p \in DOMAIN tree' : TextOf(p)' = TextOf(p)
    <3> SUFFICES ASSUME NEW p \in DOMAIN tree, p \in DOMAIN tree'
                 PROVE  disc'[Pos(tree[p].ind)].text = disc[Pos(tree[p].ind)].text
      BY <1>7 DEF TextOf
    <3>1. Pos(tree[p].ind) \in Sectors
      BY OwnSectors
    <3> QED
      BY <1>5, <3>1
  <2>3. HasLive' = HasLive
    BY <1>3, <1>7 DEF HasLive
  <2> QED
    BY <1>2, <2>1, <2>2, <2>3 DEF TextInv, HasLive
<1> QED
  BY <1>2, <1>8, <1>9, <1>10, <1>11 DEF IInv

\* The machine is off, and the next hook starts.
LEMMA PowerOffKeeps ==
  ASSUME IInv, PowerOff
  PROVE  IInv'
<1>1. /\ phase = "boot" /\ phase' = "finalize"
      /\ UNCHANGED <<disc, tree, step, orig, volume>>
  BY DEF PowerOff
<1>2. /\ WalkInv' /\ HookInv' /\ step = 1 /\ orig = "stock"
  BY <1>1, GuestFrame
<1>3. TreeInv'
  BY <1>1 DEF IInv, TreeInv
<1>4. BlockInv'
  BY <1>1 DEF IInv, BlockInv, At
<1>5. StaleInv'
  BY <1>1 DEF IInv, StaleInv, Names, HasLive
<1>6. TextInv'
  BY <1>1, <1>2 DEF IInv, TextInv, TextOf, HasLive
<1> QED
  BY <1>2, <1>3, <1>4, <1>5, <1>6 DEF IInv

\* What a move changes: the entry in !Boot's block, up, and the sector n, which
\* is now as the old one is.
Moved(p, a, up, old, n) ==
  /\ phase = "boot" /\ UNCHANGED <<hook, volume>>
  /\ p \in DOMAIN tree /\ \A q \in DOMAIN tree : Pos(tree[q].ind) # n
  /\ Boot \in DOMAIN tree /\ tree[Boot].isdir /\ tree[Boot].name = "!Boot"
  /\ tree[p] \in Entries /\ tree[p].isdir /\ tree[p].name \in {"Choices", "RO530Hook"}
  /\ p \notin {Root, Boot, Apps, Template, Live} /\ p \in Path
  /\ up \in Sectors /\ old \in Sectors /\ n \in Sectors
  /\ up # n /\ old # n /\ up # old
  /\ disc' \in [Sectors -> Cell] /\ disc'[n] = disc[old]
  /\ Len(disc'[up].ents) = Len(disc[up].ents)
  /\ \A k \in 1 .. Len(disc[up].ents) :
       /\ disc[up].ents[k] \in Entries
       /\ disc'[up].ents[k] = IF disc[up].ents[k].ind = tree[p].ind
                                THEN [disc[up].ents[k] EXCEPT !.ind = a] ELSE disc[up].ents[k]
  /\ disc'[up].text = disc[up].text /\ disc'[up].name = disc[up].name
  /\ disc'[up].parent = disc[up].parent
  /\ \A i \in Sectors : i # n /\ i # up => disc'[i] = disc[i]
  /\ DOMAIN tree' = DOMAIN tree
  /\ \A q \in DOMAIN tree : q # p => tree'[q] = tree[q]
  /\ tree'[p] = [tree[p] EXCEPT !.ind = a] /\ tree'[p] \in Entries
  /\ tree'[p].ind = a /\ tree'[p].name = tree[p].name /\ tree'[p].isdir = tree[p].isdir

\* A directory moves to another address.
LEMMA MoveDoes ==
  ASSUME IInv, NEW p \in {Choices, Hook}, NEW a \in Addr, GuestMovesDir(p, a)
  PROVE  Moved(p, a, Pos(tree[Boot].ind), Pos(tree[p].ind), Pos(a))
<1> DEFINE up == Pos(tree[Boot].ind)
           old == Pos(tree[p].ind)
           n == Pos(a)
           ents == [k \in 1 .. Len(disc[up].ents) |->
                      IF disc[up].ents[k].ind = tree[p].ind
                        THEN [disc[up].ents[k] EXCEPT !.ind = a] ELSE disc[up].ents[k]]
<1>1. /\ phase = "boot" /\ p \in DOMAIN tree
      /\ tree' = [tree EXCEPT ![p].ind = a]
      /\ disc' = [disc EXCEPT ![up].ents = ents, ![n] = disc[old]]
      /\ UNCHANGED <<hook, volume>>
      /\ \A q \in DOMAIN tree : Pos(tree[q].ind) # n
  BY DEF GuestMovesDir, Free
<1>3. /\ Boot \in DOMAIN tree /\ tree[Boot].isdir /\ tree[Boot].name = "!Boot"
      /\ tree[p] \in Entries /\ tree[p].isdir /\ tree[p].name \in {"Choices", "RO530Hook"}
      /\ p \notin {Root, Boot, Apps, Template, Live} /\ p \in Path
  <2>1. p \notin {Root, Boot, Apps, Template, Live} /\ p \in Path
    BY PathsDiffer
  <2> QED
    BY <1>1, <2>1 DEF IInv, TreeInv
<1>4. /\ up \in Sectors /\ old \in Sectors /\ n \in Sectors
      /\ up # n /\ old # n /\ up # old
  BY <1>1, <1>3, OwnSectors, PosType
<1>5. disc \in [Sectors -> Cell] /\ disc[up] \in Cell /\ disc[up].ents \in Seq(Entries)
  BY <1>4 DEF IInv, BlockInv, Cell
<1> HIDE DEF up, old, n
<1>6. /\ ents \in Seq(Entries) /\ Len(ents) = Len(disc[up].ents)
      /\ \A k \in 1 .. Len(disc[up].ents) :
           /\ disc[up].ents[k] \in Entries
           /\ ents[k] = IF disc[up].ents[k].ind = tree[p].ind
                          THEN [disc[up].ents[k] EXCEPT !.ind = a] ELSE disc[up].ents[k]
  <2>1. Len(disc[up].ents) \in Nat
    BY <1>5, LenProperties
  <2>2. \A k \in 1 .. Len(disc[up].ents) : disc[up].ents[k] \in Entries
    BY <1>5, ElementOfSeq
  <2>3. \A k \in 1 .. Len(disc[up].ents) : ents[k] \in Entries
    BY <2>2 DEF Entries
  <2>4. ents \in [1 .. Len(disc[up].ents) -> Entries]
    BY <2>3
  <2>5. /\ DOMAIN ents = 1 .. Len(disc[up].ents)
        /\ \A k \in 1 .. Len(disc[up].ents) :
             ents[k] = IF disc[up].ents[k].ind = tree[p].ind
                         THEN [disc[up].ents[k] EXCEPT !.ind = a] ELSE disc[up].ents[k]
    OBVIOUS
  <2> HIDE DEF ents
  <2>6. ents \in Seq(Entries) /\ Len(ents) = Len(disc[up].ents)
    BY <2>1, <2>4
  <2> QED
    BY <2>2, <2>5, <2>6
<1> HIDE DEF ents
<1>7. /\ disc'[n] = disc[old]
      /\ disc'[up] = [disc[up] EXCEPT !.ents = ents]
      /\ \A i \in Sectors : i # n /\ i # up => disc'[i] = disc[i]
  BY <1>1, <1>4, <1>5
<1>8. /\ disc'[up] \in Cell /\ disc'[up].ents = ents
      /\ disc'[up].text = disc[up].text /\ disc'[up].name = disc[up].name
      /\ disc'[up].parent = disc[up].parent
  BY <1>5, <1>6, <1>7 DEF Cell
<1>9. disc' \in [Sectors -> Cell]
  <2>1. disc' = [i \in Sectors |-> disc'[i]]
    BY <1>1, <1>5
  <2>2. \A i \in Sectors : disc'[i] \in Cell
    BY <1>4, <1>5, <1>7, <1>8
  <2> QED
    BY <2>1, <2>2
<1>10. /\ DOMAIN tree' = DOMAIN tree
       /\ \A q \in DOMAIN tree : q # p => tree'[q] = tree[q]
       /\ tree'[p] = [tree[p] EXCEPT !.ind = a] /\ tree'[p] \in Entries
       /\ tree'[p].ind = a /\ tree'[p].name = tree[p].name /\ tree'[p].isdir = tree[p].isdir
  <2>1. /\ DOMAIN tree' = DOMAIN tree
        /\ \A q \in DOMAIN tree : q # p => tree'[q] = tree[q]
        /\ tree'[p] = [tree[p] EXCEPT !.ind = a]
    BY <1>1
  <2> QED
    BY <1>3, <2>1 DEF Entries
<1>11. /\ Len(disc'[up].ents) = Len(disc[up].ents)
       /\ \A k \in 1 .. Len(disc[up].ents) :
            /\ disc[up].ents[k] \in Entries
            /\ disc'[up].ents[k] = IF disc[up].ents[k].ind = tree[p].ind
                                     THEN [disc[up].ents[k] EXCEPT !.ind = a]
                                     ELSE disc[up].ents[k]
  BY <1>6, <1>8, Zenon
<1>12. Moved(p, a, up, old, n)
  BY <1>1, <1>3, <1>4, <1>7, <1>8, <1>9, <1>10, <1>11, Zenon DEF Moved
<1> QED
  BY <1>12 DEF up, old, n

\* A directory moves, and its old block stays.
LEMMA GuestMovesDirKeeps ==
  ASSUME IInv, NEW p \in {Choices, Hook}, NEW a \in Addr, GuestMovesDir(p, a)
  PROVE  IInv'
<1> DEFINE up == Pos(tree[Boot].ind)
           old == Pos(tree[p].ind)
           n == Pos(a)
           ents == disc'[up].ents
<1>0. Moved(p, a, up, old, n)
  BY MoveDoes
<1> HIDE DEF up, old, n, ents
<1>1. /\ phase = "boot" /\ p \in DOMAIN tree /\ UNCHANGED <<hook, volume>>
      /\ \A q \in DOMAIN tree : Pos(tree[q].ind) # n
  BY <1>0 DEF Moved
<1>2. /\ phase' = "boot" /\ WalkInv' /\ HookInv' /\ step' = 1 /\ orig' = "stock"
  <2>1. phase' = phase /\ step' = step /\ orig' = orig
    BY <1>1 DEF hook
  <2> QED
    BY <1>1, <2>1, GuestFrame
<1>3. /\ Boot \in DOMAIN tree /\ tree[Boot].isdir /\ tree[Boot].name = "!Boot"
      /\ tree[p] \in Entries /\ tree[p].isdir /\ tree[p].name \in {"Choices", "RO530Hook"}
      /\ p \notin {Root, Boot, Apps, Template, Live} /\ p \in Path
  BY <1>0 DEF Moved
<1>4. /\ up \in Sectors /\ old \in Sectors /\ n \in Sectors
      /\ up # n /\ old # n /\ up # old
  BY <1>0 DEF Moved
<1>6. /\ Len(ents) = Len(disc[up].ents)
      /\ \A k \in 1 .. Len(disc[up].ents) :
           /\ disc[up].ents[k] \in Entries
           /\ ents[k] = IF disc[up].ents[k].ind = tree[p].ind
                          THEN [disc[up].ents[k] EXCEPT !.ind = a] ELSE disc[up].ents[k]
  BY <1>0 DEF Moved, ents
<1>7. disc'[n] = disc[old] /\ \A i \in Sectors : i # n /\ i # up => disc'[i] = disc[i]
  BY <1>0 DEF Moved
<1>8. /\ disc'[up].ents = ents
      /\ disc'[up].text = disc[up].text /\ disc'[up].name = disc[up].name
      /\ disc'[up].parent = disc[up].parent
  BY <1>0 DEF Moved, ents
<1>9. disc' \in [Sectors -> Cell]
  BY <1>0 DEF Moved
<1>10. /\ DOMAIN tree' = DOMAIN tree
       /\ \A q \in DOMAIN tree : q # p => tree'[q] = tree[q]
       /\ tree'[p] = [tree[p] EXCEPT !.ind = a] /\ tree'[p] \in Entries
       /\ tree'[p].ind = a /\ tree'[p].name = tree[p].name /\ tree'[p].isdir = tree[p].isdir
  BY <1>0 DEF Moved
<1>11. TreeInv'
  <2>1. DOMAIN tree' \subseteq Path /\ \A q \in DOMAIN tree' : tree'[q] \in Entries
    BY <1>10 DEF IInv, TreeInv
  <2>2. \A q, r \in DOMAIN tree' : tree'[q].ind = tree'[r].ind => q = r
    <3>1. \A q \in DOMAIN tree : tree[q].ind # a
      BY <1>1 DEF n
    <3>2. \A q, r \in DOMAIN tree : tree[q].ind = tree[r].ind => q = r
      BY DEF IInv, TreeInv
    <3> QED
      BY <1>1, <1>10, <3>1, <3>2
  <2>3. \A q \in DOMAIN tree : tree'[q].isdir = tree[q].isdir /\ tree'[q].name = tree[q].name
    BY <1>10
  <2> QED
    BY <1>10, <2>1, <2>2, <2>3 DEF IInv, TreeInv
<1>12. BlockInv'
  <2> SUFFICES ASSUME NEW q \in DOMAIN tree, tree[q].isdir
               PROVE  /\ At(q)'.text = Magic /\ At(q)'.name = tree[q].name
                      /\ \A k \in 1 .. Len(At(q)'.ents) :
                           /\ Append(q, At(q)'.ents[k].name) \in DOMAIN tree
                           /\ tree'[Append(q, At(q)'.ents[k].name)] = At(q)'.ents[k]
    <3>1. \A q \in DOMAIN tree' :
            q \in DOMAIN tree /\ tree'[q].isdir = tree[q].isdir /\ tree'[q].name = tree[q].name
      BY <1>10
    <3> QED
      BY <1>9, <1>10, <3>1 DEF BlockInv
  <2>1. /\ At(q).text = Magic /\ At(q).name = tree[q].name
        /\ \A k \in 1 .. Len(At(q).ents) :
             /\ Append(q, At(q).ents[k].name) \in DOMAIN tree
             /\ tree[Append(q, At(q).ents[k].name)] = At(q).ents[k]
    BY DEF IInv, BlockInv
  <2>2. q \in Path /\ \A k \in 1 .. Len(At(q).ents) : At(q).ents[k].name \in ObjNames
    <3>1. \A r \in DOMAIN tree : tree[r].name \in ObjNames
      BY DEF IInv, TreeInv, Entries
    <3> QED
      BY <2>1, <3>1 DEF IInv, TreeInv
  <2>3. CASE q = p
    <3>1. At(q)' = At(q)
      BY <1>7, <1>10, <2>3 DEF At, n, old
    <3>2. \A k \in 1 .. Len(At(q).ents) : Append(q, At(q).ents[k].name) # p
      <4>1. \A k \in 1 .. Len(At(q).ents) : Len(Append(q, At(q).ents[k].name)) = Len(q) + 1
        BY <2>2, ChildPath
      <4>2. Len(q) \in Nat
        BY <2>2, LenProperties DEF Path
      <4> QED
        BY <2>3, <4>1, <4>2
    <3>4. ASSUME NEW k \in 1 .. Len(At(q).ents)
          PROVE  /\ Append(q, At(q).ents[k].name) \in DOMAIN tree
                 /\ tree'[Append(q, At(q).ents[k].name)] = At(q).ents[k]
      <4>1. /\ Append(q, At(q).ents[k].name) \in DOMAIN tree
            /\ tree[Append(q, At(q).ents[k].name)] = At(q).ents[k]
            /\ Append(q, At(q).ents[k].name) # p
        BY <2>1, <3>2
      <4> QED
        BY <1>10, <4>1
    <3> QED
      BY <2>1, <3>1, <3>4
  <2>4. CASE q = Boot
    <3>1. At(q)' = disc'[up] /\ At(q) = disc[up]
      BY <1>3, <1>10, <2>4 DEF At, up
    <3>2. ASSUME NEW k \in 1 .. Len(disc[up].ents)
          PROVE  /\ Append(q, ents[k].name) \in DOMAIN tree
                 /\ tree'[Append(q, ents[k].name)] = ents[k]
      <4> DEFINE e == disc[up].ents[k]
      <4>1. Append(q, e.name) \in DOMAIN tree /\ tree[Append(q, e.name)] = e /\ e \in Entries
        BY <1>6, <2>1, <3>1
      <4> HIDE DEF e
      <4>2. CASE e.ind = tree[p].ind
        <5>1. Append(q, e.name) = p
          BY <1>1, <4>1, <4>2 DEF IInv, TreeInv
        <5>2. ents[k] = [e EXCEPT !.ind = a] /\ ents[k].name = e.name
          BY <1>6, <4>1, <4>2 DEF e, Entries
        <5> QED
          BY <1>10, <4>1, <5>1, <5>2
      <4>3. CASE e.ind # tree[p].ind
        <5>1. Append(q, e.name) # p
          BY <4>1, <4>3
        <5>2. ents[k] = e
          BY <1>6, <4>3 DEF e
        <5> QED
          BY <1>10, <4>1, <5>1, <5>2
      <4> QED
        BY <4>2, <4>3
    <3> QED
      BY <1>6, <1>8, <2>1, <3>1, <3>2
  <2>5. CASE q # p /\ q # Boot
    <3>1. Pos(tree[q].ind) \in Sectors /\ Pos(tree[q].ind) # up /\ Pos(tree[q].ind) # n
      BY <1>1, <1>3, <2>5, OwnSectors DEF up
    <3>2. At(q)' = At(q)
      BY <1>7, <1>10, <2>5, <3>1 DEF At
    <3>3. \A k \in 1 .. Len(At(q).ents) : Append(q, At(q).ents[k].name) # p
      <4>1. PICK m \in ObjNames : p = Append(Boot, m)
        BY ChoicesPath DEF ObjNames
      <4>2. Boot \in Path
        BY PathsDiffer
      <4> QED
        BY <2>2, <2>5, <4>1, <4>2, ChildOfOne
    <3>4. ASSUME NEW k \in 1 .. Len(At(q).ents)
          PROVE  /\ Append(q, At(q).ents[k].name) \in DOMAIN tree
                 /\ tree'[Append(q, At(q).ents[k].name)] = At(q).ents[k]
      <4>1. /\ Append(q, At(q).ents[k].name) \in DOMAIN tree
            /\ tree[Append(q, At(q).ents[k].name)] = At(q).ents[k]
            /\ Append(q, At(q).ents[k].name) # p
        BY <2>1, <3>3
      <4> QED
        BY <1>10, <4>1
    <3> QED
      BY <2>1, <3>2, <3>4
  <2> QED
    BY <2>3, <2>4, <2>5
<1>13. StaleInv'
  <2> SUFFICES ASSUME NEW i \in Sectors, disc'[i].text = Magic
               PROVE  /\ disc'[i].name = "$" => i = Pos(tree'[Root].ind) /\ disc'[i].parent = tree'[Root].ind
                      /\ disc'[i].name = "Choices" /\ "TimeSetup" \in Names(i)' => HasLive'
    BY DEF StaleInv
  <2>1. tree'[Root] = tree[Root] /\ HasLive' = HasLive
    BY <1>3, <1>10 DEF IInv, TreeInv, HasLive
  <2>2. CASE i = n
    <3>1. disc'[i] = disc[old] /\ disc[old].text = Magic /\ disc[old].name = tree[p].name
      BY <1>1, <1>3, <1>7, <2>2 DEF IInv, BlockInv, At, old
    <3>2. Names(i)' = Names(old)
      BY <3>1 DEF Names
    <3> QED
      BY <1>3, <1>4, <2>1, <3>1, <3>2 DEF IInv, StaleInv
  <2>3. CASE i = up
    <3>1. disc[up].name = "!Boot"
      BY <1>3 DEF IInv, BlockInv, At, up
    <3> QED
      BY <1>8, <2>3, <3>1
  <2>4. CASE i # n /\ i # up
    <3>1. disc'[i] = disc[i] /\ Names(i)' = Names(i)
      BY <1>7, <2>4 DEF Names
    <3> QED
      BY <2>1, <3>1 DEF IInv, StaleInv
  <2> QED
    BY <2>2, <2>3, <2>4
<1>14. TextInv'
  <2>1. /\ TextOf(Template) = "bootstrap" /\ Template \in DOMAIN tree
        /\ HasLive => TextOf(Live) = "bootstrap"
    BY <1>1 DEF IInv, TextInv, TreeInv
  <2>2. \A q \in DOMAIN tree : q # p => TextOf(q)' = TextOf(q)
    <3> SUFFICES ASSUME NEW q \in DOMAIN tree, q # p
                 PROVE  disc'[Pos(tree[q].ind)].text = disc[Pos(tree[q].ind)].text
      BY <1>10 DEF TextOf
    <3>1. Pos(tree[q].ind) \in Sectors /\ Pos(tree[q].ind) # n
      BY <1>1, OwnSectors
    <3> QED
      BY <1>7, <1>8, <3>1
  <2>3. HasLive' = HasLive
    BY <1>10 DEF HasLive
  <2> QED
    BY <1>2, <1>3, <2>1, <2>2, <2>3 DEF TextInv, HasLive
<1> QED
  BY <1>2, <1>11, <1>12, <1>13, <1>14 DEF IInv

\* The guest's steps keep the invariant.
LEMMA GuestKeeps ==
  ASSUME IInv, Guest
  PROVE  IInv'
<1>1. ASSUME NEW a \in Addr, GuestMovesDir(Choices, a) \/ GuestMovesDir(Hook, a)
      PROVE  IInv'
  BY <1>1, GuestMovesDirKeeps
<1> QED
  BY <1>1, GuestCreates, GuestDropsCopyKeeps, PowerOffKeeps DEF Guest

-----------------------------------------------------------------------------
(***************************************************************************)
(* The published disc.                                                     *)
(***************************************************************************)
\* A child of the root.
LEMMA RootChild ==
  ASSUME NEW m \in ObjNames
  PROVE  Append(Root, m) = <<"$", m>>
<1> DEFINE new == Append(Root, m)
           child == <<"$", m>>
<1>1. Root \in Seq(ObjNames) /\ child \in Seq(ObjNames)
  <2>1. "$" \in ObjNames
    BY DEF ObjNames
  <2> QED
    BY <2>1 DEF Root
<1>2. Len(Root) = 1 /\ Root[1] = "$" /\ Len(child) = 2 /\ child[1] = "$" /\ child[2] = m
  BY DEF Root
<1>3. /\ new \in Seq(ObjNames) /\ Len(new) = Len(Root) + 1
      /\ \A i \in 1 .. Len(Root) : new[i] = Root[i]
      /\ new[Len(Root) + 1] = m
  BY <1>1, AppendProperties
<1> HIDE DEF new, child
<1>4. \A i \in 1 .. Len(new) : new[i] = child[i]
  <2>1. \A i \in 1 .. 2 : i = 1 \/ i = 2
    OBVIOUS
  <2> QED
    BY <1>2, <1>3, <2>1
<1>5. new = child
  BY <1>1, <1>2, <1>3, <1>4, SeqEqual
<1> QED
  BY <1>5 DEF new, child

\* The objects of the published disc.
LEMMA StockEntries ==
  ASSUME NEW hk \in Addr, NEW tm \in Addr, NEW cp \in Addr, tree = StockTree(hk, tm, cp)
  PROVE  /\ DOMAIN tree = {Root, Boot, Apps, Hook, Template, Copy}
         /\ tree[Root] = Entry("$", TRUE, <<RootFrag, 0>>)
         /\ tree[Boot] = Entry("!Boot", TRUE, <<RootFrag, 1>>)
         /\ tree[Apps] = Entry("Apps", TRUE, <<RootFrag, 2>>)
         /\ tree[Hook] = Entry("RO530Hook", TRUE, hk)
         /\ tree[Template] = Entry("TimeSetup", FALSE, tm)
         /\ tree[Copy] = Entry("TimeSetup", FALSE, cp)
         /\ \A p \in DOMAIN tree : tree[p] \in Entries
<1>1. /\ <<RootFrag, 0>> \in Addr /\ <<RootFrag, 1>> \in Addr /\ <<RootFrag, 2>> \in Addr
  BY FragsAssumption DEF Addr
<1>2. DOMAIN tree = {Root, Boot, Apps, Hook, Template, Copy}
  BY DEF StockTree
<1>3. \A p \in DOMAIN tree :
        tree[p] = CASE p = Root -> Entry("$", TRUE, <<RootFrag, 0>>)
                 [] p = Boot -> Entry("!Boot", TRUE, <<RootFrag, 1>>)
                 [] p = Apps -> Entry("Apps", TRUE, <<RootFrag, 2>>)
                 [] p = Hook -> Entry("RO530Hook", TRUE, hk)
                 [] p = Template -> Entry("TimeSetup", FALSE, tm)
                 [] p = Copy -> Entry("TimeSetup", FALSE, cp)
  BY DEF StockTree
<1>4. tree[Root] = Entry("$", TRUE, <<RootFrag, 0>>)
  BY <1>2, <1>3, PathsDiffer
<1>5. tree[Boot] = Entry("!Boot", TRUE, <<RootFrag, 1>>)
  BY <1>2, <1>3, PathsDiffer
<1>6. tree[Apps] = Entry("Apps", TRUE, <<RootFrag, 2>>)
  BY <1>2, <1>3, PathsDiffer
<1>7. tree[Hook] = Entry("RO530Hook", TRUE, hk)
  BY <1>2, <1>3, PathsDiffer
<1>8. tree[Template] = Entry("TimeSetup", FALSE, tm)
  BY <1>2, <1>3, PathsDiffer
<1>9. tree[Copy] = Entry("TimeSetup", FALSE, cp)
  BY <1>2, <1>3, PathsDiffer
<1>10. \A p \in DOMAIN tree : tree[p] \in Entries
  <2>1. /\ "$" \in ObjNames /\ "!Boot" \in ObjNames /\ "Apps" \in ObjNames
        /\ "RO530Hook" \in ObjNames /\ "TimeSetup" \in ObjNames
    BY DEF ObjNames
  <2>2. \A m \in ObjNames : \A b \in BOOLEAN : \A a \in Addr : Entry(m, b, a) \in Entries
    BY DEF Entry, Entries
  <2> QED
    BY <1>1, <1>2, <1>4, <1>5, <1>6, <1>7, <1>8, <1>9, <2>1, <2>2
<1> QED
  BY <1>2, <1>4, <1>5, <1>6, <1>7, <1>8, <1>9, <1>10

\* The sectors of the published disc.
LEMMA StockCells ==
  ASSUME NEW t, {Root, Boot, Apps, Hook, Template, Copy} = DOMAIN t,
         \A p \in DOMAIN t : t[p] \in Entries,
         \A p, q \in DOMAIN t : p # q => Pos(t[p].ind) # Pos(t[q].ind),
         NEW dd, dd = StockDisc(t)
  PROVE  /\ dd \in [Sectors -> Cell]
         /\ dd[Pos(t[Root].ind)] = Block("$", t[Root].ind, <<t[Boot], t[Apps]>>)
         /\ dd[Pos(t[Boot].ind)] = Block("!Boot", t[Root].ind, <<t[Hook]>>)
         /\ dd[Pos(t[Apps].ind)] = Block("Apps", t[Root].ind, <<t[Copy]>>)
         /\ dd[Pos(t[Hook].ind)] = Block("RO530Hook", t[Boot].ind, <<t[Template]>>)
         /\ dd[Pos(t[Template].ind)] = Data("stock")
         /\ \A i \in Sectors :
              \/ dd[i].text \in {"", "stock"}
              \/ \E p \in {Root, Boot, Apps, Hook} : i = Pos(t[p].ind)
<1> DEFINE cell(p) ==
             CASE p = Root -> Block("$", t[Root].ind, <<t[Boot], t[Apps]>>)
               [] p = Boot -> Block("!Boot", t[Root].ind, <<t[Hook]>>)
               [] p = Apps -> Block("Apps", t[Root].ind, <<t[Copy]>>)
               [] p = Hook -> Block("RO530Hook", t[Boot].ind, <<t[Template]>>)
               [] OTHER -> Data("stock")
           at(i) == CHOOSE p \in DOMAIN t : Pos(t[p].ind) = i
<1>1. dd = [i \in Sectors |-> IF \E p \in DOMAIN t : Pos(t[p].ind) = i
                                THEN cell(at(i)) ELSE Data("")]
  BY DEF StockDisc
<1>2. /\ cell(Root) = Block("$", t[Root].ind, <<t[Boot], t[Apps]>>)
      /\ cell(Boot) = Block("!Boot", t[Root].ind, <<t[Hook]>>)
  BY PathsDiffer
<1>3. cell(Apps) = Block("Apps", t[Root].ind, <<t[Copy]>>)
  BY PathsDiffer
<1>4. cell(Hook) = Block("RO530Hook", t[Boot].ind, <<t[Template]>>)
  BY PathsDiffer
<1>5. cell(Template) = Data("stock") /\ cell(Copy) = Data("stock")
  BY PathsDiffer
<1>6. /\ \A p \in DOMAIN t : t[p].ind \in Addr /\ Pos(t[p].ind) \in Sectors
  BY PosType DEF Entries
<1>7. Data("") \in Cell /\ Data("stock") \in Cell
  <2>1. <<>> \in Seq(Entries) /\ "" \in Texts /\ "stock" \in Texts
    BY DEF Texts
  <2> QED
    BY <2>1 DEF Data, Cell
<1>8. /\ \A m \in ObjNames : \A a \in Addr : \A s \in Seq(Entries) : Block(m, a, s) \in Cell
  BY DEF Block, Cell
<1>9. /\ "$" \in ObjNames /\ "!Boot" \in ObjNames /\ "Apps" \in ObjNames /\ "RO530Hook" \in ObjNames
  BY DEF ObjNames
<1>10. /\ <<t[Boot], t[Apps]>> \in Seq(Entries) /\ <<t[Hook]>> \in Seq(Entries)
       /\ <<t[Copy]>> \in Seq(Entries) /\ <<t[Template]>> \in Seq(Entries)
  <2>1. /\ t[Boot] \in Entries /\ t[Apps] \in Entries /\ t[Hook] \in Entries
        /\ t[Copy] \in Entries /\ t[Template] \in Entries
    OBVIOUS
  <2> QED
    BY <2>1
<1>11. \A p \in DOMAIN t : cell(p) \in Cell
  <2> HIDE DEF cell
  <2> QED
    BY <1>2, <1>3, <1>4, <1>5, <1>6, <1>7, <1>8, <1>9, <1>10
<1>12. \A i \in Sectors : (\E p \in DOMAIN t : Pos(t[p].ind) = i) =>
         at(i) \in DOMAIN t /\ Pos(t[at(i)].ind) = i
  OBVIOUS
<1>13. \A p \in DOMAIN t : at(Pos(t[p].ind)) = p
  BY <1>6, <1>12
<1> HIDE DEF cell, at
<1>14. \A p \in DOMAIN t : dd[Pos(t[p].ind)] = cell(p)
  BY <1>1, <1>6, <1>13
<1>15. dd \in [Sectors -> Cell]
  <2>1. \A i \in Sectors : dd[i] \in Cell
    <3> SUFFICES ASSUME NEW i \in Sectors PROVE dd[i] \in Cell
      OBVIOUS
    <3>1. CASE \E p \in DOMAIN t : Pos(t[p].ind) = i
      <4>1. dd[i] = cell(at(i))
        BY <1>1, <3>1
      <4>2. at(i) \in DOMAIN t
        BY <1>12, <3>1
      <4> QED
        BY <1>11, <4>1, <4>2
    <3>2. CASE ~\E p \in DOMAIN t : Pos(t[p].ind) = i
      BY <1>1, <1>7, <3>2
    <3> QED
      BY <3>1, <3>2
  <2> QED
    BY <1>1, <2>1
<1>16. \A i \in Sectors :
         \/ dd[i].text \in {"", "stock"}
         \/ \E p \in {Root, Boot, Apps, Hook} : i = Pos(t[p].ind)
  <2> SUFFICES ASSUME NEW i \in Sectors, dd[i].text \notin {"", "stock"}
               PROVE  \E p \in {Root, Boot, Apps, Hook} : i = Pos(t[p].ind)
    OBVIOUS
  <2>1. Data("").text = "" /\ Data("stock").text = "stock"
    BY DEF Data
  <2>2. PICK p \in DOMAIN t : Pos(t[p].ind) = i
    BY <1>1, <2>1
  <2>3. dd[i] = cell(p)
    BY <1>14, <2>2
  <2>4. p # Template /\ p # Copy
    BY <1>5, <2>1, <2>3
  <2> QED
    BY <2>2, <2>4
<1> QED
  BY <1>2, <1>3, <1>4, <1>5, <1>14, <1>15, <1>16

\* What the published disc is, wherever its hook, template and copy are.
LEMMA Published ==
  ASSUME Init
  PROVE  /\ DOMAIN tree = {Root, Boot, Apps, Hook, Template, Copy}
         /\ \A p \in DOMAIN tree : tree[p] \in Entries
         /\ \A p, q \in DOMAIN tree : p # q => Pos(tree[p].ind) # Pos(tree[q].ind)
         /\ \A p \in {Root, Boot, Apps, Hook} : tree[p].isdir
         /\ ~tree[Template].isdir /\ ~tree[Copy].isdir
         /\ tree[Root].name = "$" /\ tree[Boot].name = "!Boot"
         /\ tree[Apps].name = "Apps" /\ tree[Hook].name = "RO530Hook"
         /\ tree[Template].name = "TimeSetup" /\ tree[Copy].name = "TimeSetup"
         /\ disc \in [Sectors -> Cell]
         /\ disc[Pos(tree[Root].ind)] = Block("$", tree[Root].ind, <<tree[Boot], tree[Apps]>>)
         /\ disc[Pos(tree[Boot].ind)] = Block("!Boot", tree[Root].ind, <<tree[Hook]>>)
         /\ disc[Pos(tree[Apps].ind)] = Block("Apps", tree[Root].ind, <<tree[Copy]>>)
         /\ disc[Pos(tree[Hook].ind)] = Block("RO530Hook", tree[Boot].ind, <<tree[Template]>>)
         /\ disc[Pos(tree[Template].ind)] = Data("stock")
         /\ \A i \in Sectors :
              \/ disc[i].text \in {"", "stock"}
              \/ \E p \in {Root, Boot, Apps, Hook} : i = Pos(tree[p].ind)
<1>1. PICK place \in Placings :
        /\ tree = StockTree(place[1], place[2], place[3])
        /\ disc = StockDisc(tree)
        /\ \A p, q \in DOMAIN tree : p # q => Pos(tree[p].ind) # Pos(tree[q].ind)
  BY DEF Init
<1>2. place[1] \in Addr /\ place[2] \in Addr /\ place[3] \in Addr
  BY PlacingsAssumption
<1>3. /\ DOMAIN tree = {Root, Boot, Apps, Hook, Template, Copy}
      /\ tree[Root] = Entry("$", TRUE, <<RootFrag, 0>>)
      /\ tree[Boot] = Entry("!Boot", TRUE, <<RootFrag, 1>>)
      /\ tree[Apps] = Entry("Apps", TRUE, <<RootFrag, 2>>)
      /\ tree[Hook] = Entry("RO530Hook", TRUE, place[1])
      /\ tree[Template] = Entry("TimeSetup", FALSE, place[2])
      /\ tree[Copy] = Entry("TimeSetup", FALSE, place[3])
      /\ \A p \in DOMAIN tree : tree[p] \in Entries
  <2> DEFINE hk == place[1]
             tm == place[2]
             cp == place[3]
  <2>1. hk \in Addr /\ tm \in Addr /\ cp \in Addr /\ tree = StockTree(hk, tm, cp)
    BY <1>1, <1>2
  <2> HIDE DEF hk, tm, cp
  <2>2. /\ DOMAIN tree = {Root, Boot, Apps, Hook, Template, Copy}
        /\ tree[Root] = Entry("$", TRUE, <<RootFrag, 0>>)
        /\ tree[Boot] = Entry("!Boot", TRUE, <<RootFrag, 1>>)
        /\ tree[Apps] = Entry("Apps", TRUE, <<RootFrag, 2>>)
        /\ tree[Hook] = Entry("RO530Hook", TRUE, hk)
        /\ tree[Template] = Entry("TimeSetup", FALSE, tm)
        /\ tree[Copy] = Entry("TimeSetup", FALSE, cp)
        /\ \A p \in DOMAIN tree : tree[p] \in Entries
    BY <2>1, StockEntries
  <2> QED
    BY <2>2 DEF hk, tm, cp
<1>4. /\ disc \in [Sectors -> Cell]
      /\ disc[Pos(tree[Root].ind)] = Block("$", tree[Root].ind, <<tree[Boot], tree[Apps]>>)
      /\ disc[Pos(tree[Boot].ind)] = Block("!Boot", tree[Root].ind, <<tree[Hook]>>)
      /\ disc[Pos(tree[Apps].ind)] = Block("Apps", tree[Root].ind, <<tree[Copy]>>)
      /\ disc[Pos(tree[Hook].ind)] = Block("RO530Hook", tree[Boot].ind, <<tree[Template]>>)
      /\ disc[Pos(tree[Template].ind)] = Data("stock")
      /\ \A i \in Sectors :
           \/ disc[i].text \in {"", "stock"}
           \/ \E p \in {Root, Boot, Apps, Hook} : i = Pos(tree[p].ind)
  <2>1. {Root, Boot, Apps, Hook, Template, Copy} = DOMAIN tree
    BY <1>3
  <2>2. \A p \in DOMAIN tree : tree[p] \in Entries
    BY <1>3
  <2> QED
    BY <1>1, <2>1, <2>2, StockCells
<1>5. /\ \A p \in {Root, Boot, Apps, Hook} : tree[p].isdir
      /\ ~tree[Template].isdir /\ ~tree[Copy].isdir
      /\ tree[Root].name = "$" /\ tree[Boot].name = "!Boot"
      /\ tree[Apps].name = "Apps" /\ tree[Hook].name = "RO530Hook"
      /\ tree[Template].name = "TimeSetup" /\ tree[Copy].name = "TimeSetup"
  BY <1>3 DEF Entry
<1> QED
  BY <1>1, <1>3, <1>4, <1>5

\* The published disc is one the invariant allows.
LEMMA InitInv == Init => IInv
<1> SUFFICES ASSUME Init PROVE IInv
  OBVIOUS
<1>3. /\ DOMAIN tree = {Root, Boot, Apps, Hook, Template, Copy}
      /\ \A p \in DOMAIN tree : tree[p] \in Entries
      /\ \A p, q \in DOMAIN tree : p # q => Pos(tree[p].ind) # Pos(tree[q].ind)
  BY Published
<1>4. /\ disc \in [Sectors -> Cell]
      /\ disc[Pos(tree[Root].ind)] = Block("$", tree[Root].ind, <<tree[Boot], tree[Apps]>>)
      /\ disc[Pos(tree[Boot].ind)] = Block("!Boot", tree[Root].ind, <<tree[Hook]>>)
      /\ disc[Pos(tree[Apps].ind)] = Block("Apps", tree[Root].ind, <<tree[Copy]>>)
      /\ disc[Pos(tree[Hook].ind)] = Block("RO530Hook", tree[Boot].ind, <<tree[Template]>>)
      /\ disc[Pos(tree[Template].ind)] = Data("stock")
      /\ \A i \in Sectors :
           \/ disc[i].text \in {"", "stock"}
           \/ \E p \in {Root, Boot, Apps, Hook} : i = Pos(tree[p].ind)
  BY Published
<1>5. /\ \A p \in {Root, Boot, Apps, Hook} : tree[p].isdir
      /\ ~tree[Template].isdir /\ ~tree[Copy].isdir
      /\ tree[Root].name = "$" /\ tree[Boot].name = "!Boot"
      /\ tree[Apps].name = "Apps" /\ tree[Hook].name = "RO530Hook"
      /\ tree[Template].name = "TimeSetup" /\ tree[Copy].name = "TimeSetup"
  BY Published
<1>6. Live \notin DOMAIN tree /\ Choices \notin DOMAIN tree
  BY <1>3, PathsDiffer
<1>7. TreeInv
  <2>1. DOMAIN tree \subseteq Path
    BY <1>3, PathsDiffer
  <2>2. \A p, q \in DOMAIN tree : tree[p].ind = tree[q].ind => p = q
    BY <1>3
  <2> QED
    BY <1>3, <1>5, <1>6, <2>1, <2>2 DEF TreeInv
<1>8. /\ Append(Root, "!Boot") = Boot /\ Append(Root, "Apps") = Apps
      /\ Append(Boot, "RO530Hook") = Hook
      /\ Append(Apps, "TimeSetup") = Copy /\ Append(Hook, "TimeSetup") = Template
  <2>1. "!Boot" \in ObjNames /\ "Apps" \in ObjNames
    BY DEF ObjNames
  <2>2. Append(Root, "!Boot") = Boot /\ Append(Root, "Apps") = Apps
    BY <2>1, RootChild DEF Boot, Apps
  <2> QED
    BY <2>2, ChoicesPath DEF Copy, Template
<1>17. /\ Append(Root, tree[Boot].name) = Boot /\ Append(Root, tree[Apps].name) = Apps
       /\ Append(Boot, tree[Hook].name) = Hook
       /\ Append(Apps, tree[Copy].name) = Copy /\ Append(Hook, tree[Template].name) = Template
  BY <1>5, <1>8
<1>18. {Root, Boot, Apps, Hook, Template, Copy} \subseteq DOMAIN tree
  BY <1>3
<1>9. BlockInv
  <2>1. /\ At(Root) = Block("$", tree[Root].ind, <<tree[Boot], tree[Apps]>>)
        /\ At(Boot) = Block("!Boot", tree[Root].ind, <<tree[Hook]>>)
        /\ At(Apps) = Block("Apps", tree[Root].ind, <<tree[Copy]>>)
        /\ At(Hook) = Block("RO530Hook", tree[Boot].ind, <<tree[Template]>>)
    BY <1>4 DEF At
  <2> SUFFICES ASSUME NEW p \in {Root, Boot, Apps, Hook}
               PROVE  /\ At(p).text = Magic /\ At(p).name = tree[p].name
                      /\ \A k \in 1 .. Len(At(p).ents) :
                           /\ Append(p, At(p).ents[k].name) \in DOMAIN tree
                           /\ tree[Append(p, At(p).ents[k].name)] = At(p).ents[k]
    <3>1. \A p \in DOMAIN tree : tree[p].isdir => p \in {Root, Boot, Apps, Hook}
      BY <1>3, <1>5
    <3> QED
      BY <1>4, <3>1 DEF BlockInv
  <2>2. CASE p = Root
    <3>1. /\ At(p).text = Magic /\ At(p).name = "$"
          /\ At(p).ents = <<tree[Boot], tree[Apps]>>
      BY <2>1, <2>2 DEF Block
    <3>2. /\ Len(At(p).ents) = 2
          /\ At(p).ents[1] = tree[Boot] /\ At(p).ents[2] = tree[Apps]
      BY <3>1
    <3>3. \A k \in 1 .. Len(At(p).ents) :
            At(p).ents[k] = tree[Boot] \/ At(p).ents[k] = tree[Apps]
      BY <3>2
    <3>4. ASSUME NEW k \in 1 .. Len(At(p).ents)
          PROVE  /\ Append(p, At(p).ents[k].name) \in DOMAIN tree
                 /\ tree[Append(p, At(p).ents[k].name)] = At(p).ents[k]
      <4>1. CASE At(p).ents[k] = tree[Boot]
        BY <1>17, <1>18, <2>2, <4>1, Zenon
      <4>2. CASE At(p).ents[k] = tree[Apps]
        BY <1>17, <1>18, <2>2, <4>2, Zenon
      <4> QED
        BY <3>3, <4>1, <4>2
    <3> QED
      BY <1>5, <2>2, <3>1, <3>4
  <2>3. CASE p = Boot
    <3>1. At(p).text = Magic /\ At(p).name = "!Boot" /\ At(p).ents = <<tree[Hook]>>
      BY <2>1, <2>3 DEF Block
    <3>2. \A k \in 1 .. Len(At(p).ents) : At(p).ents[k] = tree[Hook]
      BY <3>1
    <3> QED
      BY <1>5, <1>17, <1>18, <2>3, <3>1, <3>2
  <2>4. CASE p = Apps
    <3>1. At(p).text = Magic /\ At(p).name = "Apps" /\ At(p).ents = <<tree[Copy]>>
      BY <2>1, <2>4 DEF Block
    <3>2. \A k \in 1 .. Len(At(p).ents) : At(p).ents[k] = tree[Copy]
      BY <3>1
    <3> QED
      BY <1>5, <1>17, <1>18, <2>4, <3>1, <3>2
  <2>5. CASE p = Hook
    <3>1. At(p).text = Magic /\ At(p).name = "RO530Hook" /\ At(p).ents = <<tree[Template]>>
      BY <2>1, <2>5 DEF Block
    <3>2. \A k \in 1 .. Len(At(p).ents) : At(p).ents[k] = tree[Template]
      BY <3>1
    <3> QED
      BY <1>5, <1>17, <1>18, <2>5, <3>1, <3>2
  <2> QED
    BY <2>2, <2>3, <2>4, <2>5
<1>10. \A i \in Sectors : disc[i].text = Magic =>
         \E p \in {Root, Boot, Apps, Hook} : i = Pos(tree[p].ind) /\ disc[i].name = tree[p].name
  <2>1. \A p \in {Root, Boot, Apps, Hook} : disc[Pos(tree[p].ind)].name = tree[p].name
    BY <1>5, <1>9, <1>18 DEF BlockInv, At
  <2> QED
    BY <1>4, <2>1 DEF Magic
<1>11. StaleInv
  <2>1. disc[Pos(tree[Root].ind)].parent = tree[Root].ind
    <3>1. Block("$", tree[Root].ind, <<tree[Boot], tree[Apps]>>).parent = tree[Root].ind
      BY DEF Block
    <3> QED
      BY <1>4, <3>1, Zenon
  <2> QED
    BY <1>5, <1>10, <2>1 DEF StaleInv
<1>12. Paired
  <2>1. \A r \in RootCandidates : disc[r].parent \in Addr /\ Pos(disc[r].parent) = r
    <3>1. tree[Root].ind \in Addr
      BY <1>3 DEF Entries
    <3> QED
      BY <1>11, <3>1 DEF StaleInv, RootCandidates, Blocks
  <2>2. ASSUME NEW a \in Addr, Pos(a) \in Blocks,
               NEW k \in 1 .. Len(disc[Pos(a)].ents), disc[Pos(a)].ents[k].isdir,
               NEW c \in Kids(a, disc[Pos(a)].ents[k].name)
        PROVE  c = Pos(disc[Pos(a)].ents[k].ind)
    <3> DEFINE e == disc[Pos(a)].ents[k]
    <3>1. PICK p \in {Root, Boot, Apps, Hook} : Pos(a) = Pos(tree[p].ind)
      BY <1>10, <2>2 DEF Blocks
    <3>2. PICK q \in DOMAIN tree : tree[q] = e
      <4>1. p \in DOMAIN tree /\ tree[p].isdir /\ At(p) = disc[Pos(a)]
        BY <1>5, <1>18, <3>1 DEF At
      <4>2. /\ Append(p, At(p).ents[k].name) \in DOMAIN tree
            /\ tree[Append(p, At(p).ents[k].name)] = At(p).ents[k]
        BY <1>9, <4>1 DEF BlockInv
      <4> QED
        BY <4>1, <4>2
    <3>3. q \in {Root, Boot, Apps, Hook}
      BY <1>3, <1>5, <2>2, <3>2
    <3>4. c \in Sectors /\ disc[c].text = Magic /\ disc[c].name = e.name
      BY DEF Kids, Blocks
    <3>5. PICK r \in {Root, Boot, Apps, Hook} : c = Pos(tree[r].ind) /\ disc[c].name = tree[r].name
      BY <1>10, <3>4
    <3>6. r = q
      BY <1>5, <3>2, <3>3, <3>4, <3>5
    <3> QED
      BY <3>2, <3>5, <3>6
  <2> QED
    BY <2>1, <2>2 DEF Paired
<1>13. /\ phase = "prepare" /\ step = 1 /\ orig = "" /\ open = FALSE
       /\ cur = Closed /\ stack = <<>> /\ seen = {} /\ base = <<>> /\ paths = <<>>
  BY DEF Init
<1>14. HookInv
  <2>1. open \in BOOLEAN /\ ~open /\ orig \in Texts
    BY <1>13 DEF Texts
  <2>2. phase = "prepare" /\ step = 1
    BY <1>13
  <2> QED
    BY <2>1, <2>2 DEF HookInv
<1>15. TextInv
  <2>1. TextOf(Template) = "stock"
    <3>1. Data("stock").text = "stock"
      BY DEF Data
    <3> QED
      BY <1>4, <3>1 DEF TextOf
  <2>2. phase = "prepare" /\ step = 1 /\ ~HasLive
    BY <1>6, <1>13 DEF HasLive
  <2> QED
    BY <1>12, <2>1, <2>2 DEF TextInv
<1>16. WalkInv
  <2>1. /\ cur = Closed /\ stack = <<>> /\ seen \subseteq Addr /\ base = <<>> /\ paths = <<>>
    BY <1>13
  <2>2. stack \in Seq(Dirs) /\ Len(stack) = 0
    BY <2>1
  <2>3. DOMAIN base = {} /\ DOMAIN paths = {}
    BY <2>1, EmptyDomain
  <2> QED
    BY <2>1, <2>2, <2>3 DEF WalkInv
<1> QED
  BY <1>7, <1>9, <1>11, <1>14, <1>15, <1>16 DEF IInv

-----------------------------------------------------------------------------
(***************************************************************************)
(* The theorems.                                                           *)
(***************************************************************************)
\* Every step keeps the invariant.
LEMMA StepInv ==
  ASSUME IInv, [Next]_vars
  PROVE  IInv'
<1>1. CASE Tool
  BY <1>1, ToolKeeps
<1>2. CASE Guest
  BY <1>2, GuestKeeps
<1>3. CASE UNCHANGED vars
  <2>1. UNCHANGED <<disc, tree, hook>> /\ open' = open
    BY <1>3 DEF vars, hook
  <2>2. TreeInv' /\ BlockInv' /\ StaleInv' /\ HookInv' /\ TextInv' /\ (Paired' <=> Paired)
        /\ Blocks' = Blocks
    BY <2>1, WalkFrame DEF IInv, HookInv
  <2>3. /\ cur' = cur /\ stack' = stack /\ seen' = seen /\ base' = base /\ paths' = paths
        /\ disc' = disc /\ tree' = tree
    BY <1>3 DEF vars
  <2>4. WalkInv'
    BY <2>1, <2>2, <2>3 DEF IInv, WalkInv, Listed, HasLive
  <2> QED
    BY <2>2, <2>4 DEF IInv
<1> QED
  BY <1>1, <1>2, <1>3 DEF Next

\* The invariant holds of every behaviour.
THEOREM Inductive == Spec => []IInv
BY InitInv, StepInv, PTL DEF Spec

\* The invariant has the types.
LEMMA InvTypeOK == IInv => TypeOK
<1> SUFFICES ASSUME IInv PROVE TypeOK
  OBVIOUS
<1>1. ASSUME NEW i \in Sectors
      PROVE  /\ disc[i].text \in Texts \cup {Magic}
             /\ disc[i].parent \in Addr \cup {<<>>}
             /\ \A k \in 1 .. Len(disc[i].ents) : disc[i].ents[k] \in Entries
  <2>1. disc[i] \in Cell
    BY DEF IInv, BlockInv
  <2>2. disc[i].ents \in Seq(Entries)
    BY <2>1 DEF Cell
  <2> QED
    BY <2>1, <2>2, ElementOfSeq DEF Cell
<1>2. /\ \A p \in DOMAIN tree : tree[p] \in Entries
      /\ \A p \in DOMAIN paths : paths[p] \in Entries
      /\ seen \subseteq Addr /\ DOMAIN base \subseteq Frags
      /\ \A f \in DOMAIN base : base[f] \in Int
  BY DEF IInv, TreeInv, WalkInv
<1>3. cur = Closed \/ (cur.blk \in Blocks /\ cur.addr \in Addr)
  BY DEF IInv, WalkInv, Listed, Dirs
<1>4. open \in BOOLEAN
  BY DEF IInv, HookInv
<1> QED
  BY <1>1, <1>2, <1>3, <1>4 DEF IInv, HookInv, TypeOK

\* Every sector, path and address is of its kind, on every disc and in every
\* order of what the guest writes (rofilecore.py).
THEOREM TypeCorrect == Spec => []TypeOK
BY Inductive, InvTypeOK, PTL

\* Calibration: the walk (_walk, _note) is right about the place of every
\* fragment it knows, unless an old block could be taken for a directory.
THEOREM Calibrated == Spec => []OffsetsTrue
<1>1. IInv => OffsetsTrue
  BY DEF IInv, WalkInv, OffsetsTrue
<1> QED
  BY <1>1, Inductive, PTL

\* Where no old block misleads the walk, a hook changes no sector but that of
\* the file it names (locate, patch_in_place), by its place or by its text.
THEOREM NamedOnly == Spec => PatchHitsNamed
<1>1. ASSUME IInv, [Next]_vars
      PROVE  [InHook /\ Paired => \A i \in Sectors :
                disc'[i] # disc[i] => i = Pos(tree[Cmd.path].ind)]_vars
  <2> SUFFICES ASSUME Next, InHook, Paired, NEW i \in Sectors, disc'[i] # disc[i]
               PROVE  i = Pos(tree[Cmd.path].ind)
    BY <1>1
  <2>1. Patch
    <3>1. Tool
      BY DEF Next, Guest, InHook, GuestMakesChoices, GuestCopiesTemplate, GuestWritesLauncher,
             GuestKeepsCopy, GuestMovesDir, GuestDropsCopy, PowerOff, Create
    <3> QED
      BY <3>1 DEF Tool, Open, OpenVolume, Pop, ListFile, ListMissing, ListDir, Cat, Refusal,
                  Scan, Refuses
  <2>2. PICK off \in Sectors :
          /\ disc' = [disc EXCEPT ![off] =
                        Data(IF phase = "prepare" THEN "bootstrap" ELSE orig)]
          /\ Paired => off = Pos(tree[Cmd.path].ind)
    BY <1>1, <2>1, PatchTarget
  <2>3. disc \in [Sectors -> Cell]
    BY <1>1 DEF IInv, BlockInv
  <2> QED
    BY <2>2, <2>3
<1> QED
  BY <1>1, Inductive, PTL DEF Spec, PatchHitsNamed

\* Whatever blocks and copies the guest has left, a finalize hook that ends
\* well has put the stock script back into the template and its live copy, and
\* has left the bootstrap in no sector of the disc (host_finalizeImage.sh).
THEOREM Sealed == Spec => []SealedWhenDone
<1>1. IInv => SealedWhenDone
  <2> SUFFICES ASSUME IInv, phase = "done"
               PROVE  /\ TextOf(Template) = "stock" /\ TextOf(Live) = "stock"
                      /\ \A i \in Sectors : disc[i].text # "bootstrap"
    BY DEF SealedWhenDone
  <2>1. /\ HasLive /\ \A i \in Sectors : disc[i].text # "bootstrap"
        /\ TextOf(Template) \in {"stock", "bootstrap"}
        /\ TextOf(Live) \in {"stock", "bootstrap"}
    BY DEF IInv, TextInv
  <2>2. Pos(tree[Template].ind) \in Sectors /\ Pos(tree[Live].ind) \in Sectors
    BY <2>1, OwnSectors DEF IInv, TreeInv, HasLive
  <2> QED
    BY <2>1, <2>2 DEF TextOf
<1> QED
  BY <1>1, Inductive, PTL

-----------------------------------------------------------------------------
(***************************************************************************)
(* A finished walk has everything.  The guest's tree is shallow, what it   *)
(* holds is in its directories' blocks, and a block names its parent.      *)
(***************************************************************************)
Known == {Root, Boot, Apps, Hook, Choices, Template, Live, Launcher, Copy}

Holds(d, p) == \E k \in 1 .. Len(At(d).ents) : p = Append(d, At(d).ents[k].name)

\* The other direction of BlockInv: a block's parent is its directory's, and
\* an object has an entry.
ShapeInv ==
  /\ DOMAIN tree \subseteq Known
  /\ \A p \in {Template, Live, Launcher, Copy} \cap DOMAIN tree : ~tree[p].isdir
  /\ At(Boot).parent = tree[Root].ind /\ At(Apps).parent = tree[Root].ind
  /\ \A p \in {Hook, Choices} \cap DOMAIN tree : At(p).parent = tree[Boot].ind
  /\ \A p \in DOMAIN tree \ {Root} : \E d \in DOMAIN tree : tree[d].isdir /\ Holds(d, p)

\* The launcher's text is in the launcher, and nowhere else.
LauncherInv ==
  /\ \A i \in Sectors : disc[i].text = "launcher" =>
       Launcher \in DOMAIN tree /\ i = Pos(tree[Launcher].ind)
  /\ Launcher \in DOMAIN tree => TextOf(Launcher) = "launcher"

\* What the finalize hook has put right, a walk that is not misled given.
OrderInv ==
  phase = "finalize" /\ Paired =>
    /\ step >= 2 => TextOf(Template) = "stock"
    /\ step >= 3 => TextOf(Live) = "stock"

\* How deep the known paths are.
LEMMA Depths ==
  /\ Len(Root) = 1 /\ Len(Boot) = 2 /\ Len(Apps) = 2 /\ Len(Hook) = 3 /\ Len(Choices) = 3
  /\ Len(Template) = 4 /\ Len(Live) = 4 /\ Len(Launcher) = 4 /\ Len(Copy) = 3
<1>0. "TimeSetup" \in ObjNames /\ "AnyVM" \in ObjNames
  BY DEF ObjNames
<1>1. Len(Root) = 1 /\ Len(Boot) = 2 /\ Len(Apps) = 2 /\ Len(Hook) = 3 /\ Len(Choices) = 3
  BY DEF Root, Boot, Apps, Hook, Choices
<1>2. Len(Template) = 4 /\ Len(Live) = 4 /\ Len(Launcher) = 4 /\ Len(Copy) = 3
  <2>1. Hook \in Path /\ Choices \in Path /\ Apps \in Path
    BY PathsDiffer
  <2>2. Len(Template) = Len(Hook) + 1 /\ Len(Copy) = Len(Apps) + 1
    BY <1>0, <2>1, ChildPath DEF Template, Copy
  <2>3. Len(Live) = Len(Choices) + 1 /\ Len(Launcher) = Len(Choices) + 1
    BY <1>0, <2>1, ChildPath DEF Live, Launcher
  <2> QED
    BY <1>1, <2>2, <2>3
<1> QED
  BY <1>1, <1>2

\* No path is longer than four names, and the root's is the only one of one.
LEMMA KnownPaths ==
  \A p \in Known : p \in Path /\ Len(p) \in 1 .. 4 /\ (Len(p) = 1 => p = Root)
BY Depths, PathsDiffer DEF Known

\* A directory's block names the address of the directory it is in.
LEMMA ParentBlock ==
  ASSUME IInv, ShapeInv, NEW d \in DOMAIN tree, NEW m \in ObjNames,
         Append(d, m) \in DOMAIN tree, tree[Append(d, m)].isdir
  PROVE  At(Append(d, m)).parent = tree[d].ind
<1> DEFINE q == Append(d, m)
<1> HIDE DEF q
<1>1. d \in Path /\ Len(d) \in Nat \ {0} /\ Len(q) = Len(d) + 1
  <2>1. d \in Path /\ Len(d) \in 1 .. 4
    BY KnownPaths DEF ShapeInv
  <2>2. Len(q) = Len(d) + 1
    BY <2>1, ChildPath DEF q
  <2>3. \A n \in 1 .. 4 : n \in Nat \ {0}
    OBVIOUS
  <2> QED
    BY <2>1, <2>2, <2>3
<1>2. q \in {Boot, Apps, Hook, Choices}
  <2>1. q # Root
    <3>1. Len(Root) = 1
      BY DEF Root
    <3>2. \A n \in Nat \ {0} : n + 1 # 1
      OBVIOUS
    <3> QED
      BY <1>1, <3>1, <3>2
  <2> QED
    BY <2>1 DEF ShapeInv, Known, q
<1>3. /\ "!Boot" \in ObjNames /\ "Apps" \in ObjNames /\ "RO530Hook" \in ObjNames
      /\ "Choices" \in ObjNames /\ Root \in Path /\ Boot \in Path
  BY PathsDiffer DEF ObjNames
<1>4. /\ Boot = Append(Root, "!Boot") /\ Apps = Append(Root, "Apps")
      /\ Hook = Append(Boot, "RO530Hook") /\ Choices = Append(Boot, "Choices")
  BY <1>3, RootChild, ChoicesPath DEF Boot, Apps
<1>5. CASE q \in {Boot, Apps}
  <2>1. d = Root
    BY <1>1, <1>3, <1>4, <1>5, ChildOfOne DEF q
  <2> QED
    BY <1>5, <2>1 DEF ShapeInv, q
<1>6. CASE q \in {Hook, Choices}
  <2>1. PICK n \in {"RO530Hook", "Choices"} : Append(d, m) = Append(Boot, n)
    BY <1>4, <1>6 DEF q
  <2>2. n \in ObjNames
    BY <1>3
  <2>3. d = Boot
    BY <1>1, <1>3, <2>1, <2>2, ChildOfOne
  <2> QED
    BY <1>6, <2>3 DEF ShapeInv, q
<1> QED
  BY <1>2, <1>5, <1>6 DEF q

\* A directory whose block is as it was has the children it had.
LEMMA HoldsSame ==
  ASSUME NEW d, NEW p, At(d)' = At(d), Holds(d, p)
  PROVE  Holds(d, p)'
BY DEF Holds

\* A step that leaves the tree and the directories' blocks alone.
LEMMA ShapeSame ==
  ASSUME IInv, ShapeInv, tree' = tree, \A p \in DOMAIN tree : tree[p].isdir => At(p)' = At(p)
  PROVE  ShapeInv'
<1>1. /\ {Root, Boot, Apps} \subseteq DOMAIN tree /\ tree[Boot].isdir /\ tree[Apps].isdir
      /\ \A p \in {Hook, Choices} \cap DOMAIN tree : tree[p].isdir
  BY DEF IInv, TreeInv
<1>2. At(Boot)' = At(Boot) /\ At(Apps)' = At(Apps)
      /\ \A p \in {Hook, Choices} \cap DOMAIN tree : At(p)' = At(p)
  BY <1>1
<1>3. \A p \in DOMAIN tree \ {Root} : \E d \in DOMAIN tree : tree[d].isdir /\ Holds(d, p)'
  BY HoldsSame DEF ShapeInv
<1> QED
  BY <1>2, <1>3 DEF ShapeInv

\* A patch overwrites a script with the other.
LEMMA PatchTexts ==
  ASSUME IInv, Patch
  PROVE  \E off \in Sectors : \E t \in {"stock", "bootstrap"} :
           /\ disc[off].text \in {"stock", "bootstrap"}
           /\ disc' = [disc EXCEPT ![off] = Data(t)]
<1>1. PICK off \in Sectors :
        /\ disc[off].text = Cmd.prefix
        /\ disc' = [disc EXCEPT ![off] =
                      Data(IF phase = "prepare" THEN "bootstrap" ELSE orig)]
  BY PatchTarget
<1>2. InHook /\ Cmd.op = "patch"
  BY DEF Patch
<1>3. CASE phase = "prepare"
  <2>1. Cmd.prefix = "stock"
    BY <1>2, <1>3, Commands
  <2> QED
    BY <1>1, <1>3, <2>1
<1>4. CASE phase # "prepare"
  <2>1. phase = "finalize" /\ Cmd.prefix = "bootstrap"
    BY <1>2, <1>4, Commands
  <2>2. orig = "stock"
    BY <2>1 DEF IInv, TextInv
  <2> QED
    BY <1>1, <1>4, <2>1, <2>2
<1> QED
  BY <1>3, <1>4

\* A patch leaves the tree and the launcher alone.
LEMMA ShapePatch ==
  ASSUME IInv, ShapeInv, LauncherInv, Patch
  PROVE  ShapeInv' /\ LauncherInv'
<1>1. tree' = tree
  BY SucceedsHook DEF Patch
<1>2. PICK off \in Sectors : \E t \in {"stock", "bootstrap"} :
        /\ disc[off].text \in {"stock", "bootstrap"}
        /\ disc' = [disc EXCEPT ![off] = Data(t)]
  BY PatchTexts
<1>3. disc \in [Sectors -> Cell]
  BY DEF IInv, BlockInv
<1>4. /\ disc'[off].text \in {"stock", "bootstrap"}
      /\ \A i \in Sectors : i # off => disc'[i] = disc[i]
  <2>1. PICK t \in {"stock", "bootstrap"} : disc' = [disc EXCEPT ![off] = Data(t)]
    BY <1>2
  <2>2. disc'[off] = Data(t) /\ \A i \in Sectors : i # off => disc'[i] = disc[i]
    BY <1>3, <2>1
  <2>3. Data(t).text = t
    BY DEF Data
  <2> QED
    BY <2>2, <2>3
<1>5. \A p \in DOMAIN tree : tree[p].isdir => At(p)' = At(p)
  <2> SUFFICES ASSUME NEW p \in DOMAIN tree, tree[p].isdir
               PROVE  At(p)' = At(p)
    OBVIOUS
  <2>1. Pos(tree[p].ind) \in Sectors /\ disc[Pos(tree[p].ind)].text = Magic
    BY OwnSectors DEF IInv, BlockInv, At
  <2>2. Pos(tree[p].ind) # off
    BY <1>2, <2>1 DEF Magic
  <2> QED
    BY <1>1, <1>4, <2>1, <2>2 DEF At
<1>6. ShapeInv'
  BY <1>1, <1>5, ShapeSame
<1>7. LauncherInv'
  <2>1. \A i \in Sectors : disc'[i].text = "launcher" => i # off /\ disc[i].text = "launcher"
    BY <1>4
  <2>2. Launcher \in DOMAIN tree =>
          Pos(tree[Launcher].ind) \in Sectors /\ Pos(tree[Launcher].ind) # off
    BY <1>2, OwnSectors DEF LauncherInv, TextOf
  <2> QED
    BY <1>1, <1>4, <2>1, <2>2 DEF LauncherInv, TextOf
<1> QED
  BY <1>6, <1>7

\* A new object has an entry in its directory, whose address it names.
LEMMA ShapeCreate ==
  ASSUME IInv, ShapeInv, LauncherInv,
         NEW dir \in {Boot, Choices, Apps}, NEW name \in ObjNames,
         NEW isdir \in BOOLEAN, NEW a \in Addr, NEW cell \in Cell,
         Create(dir, name, isdir, a, cell),
         isdir => Append(dir, name) = Choices /\ cell.parent = tree[Boot].ind /\ cell.text = Magic,
         ~isdir => Append(dir, name) \in {Live, Launcher, Copy},
         cell.text = "launcher" <=> Append(dir, name) = Launcher
  PROVE  ShapeInv' /\ LauncherInv'
<1> DEFINE new == Append(dir, name)
           e == Entry(name, isdir, a)
           d == Pos(tree[dir].ind)
           n == Pos(a)
<1>1. Created(new, e, d, n, dir, cell)
  BY CreateDoes
<1>2. e.name = name /\ e.isdir = isdir /\ e.ind = a
  BY DEF Entry
<1>3. /\ isdir => new = Choices /\ cell.parent = tree[Boot].ind /\ cell.text = Magic
      /\ ~isdir => new \in {Live, Launcher, Copy}
      /\ cell.text = "launcher" <=> new = Launcher
      /\ n = Pos(a)
      /\ new = Append(dir, name)
  OBVIOUS
<1> HIDE DEF new, e, d, n
<1>4. /\ dir \in DOMAIN tree /\ tree[dir].isdir /\ d = Pos(tree[dir].ind)
      /\ \A q \in DOMAIN tree : Pos(tree[q].ind) # n
      /\ d \in Sectors /\ n \in Sectors /\ e \in Entries
      /\ disc[d].ents \in Seq(Entries)
  BY <1>1 DEF Created
<1>5. /\ disc'[n] = cell
      /\ disc'[d].ents = Append(disc[d].ents, e) /\ disc'[d].text = disc[d].text
      /\ disc'[d].parent = disc[d].parent
      /\ \A i \in Sectors : i # n /\ i # d => disc'[i] = disc[i]
  BY <1>1 DEF Created
<1>6. /\ DOMAIN tree' = DOMAIN tree \cup {new} /\ tree'[new] = e
      /\ \A p \in DOMAIN tree : p # new /\ tree'[p] = tree[p]
  BY <1>1 DEF Created
<1>7. \A p \in DOMAIN tree : Pos(tree[p].ind) \in Sectors /\ Pos(tree[p].ind) # n
  BY <1>4, OwnSectors
<1>8. \A p \in DOMAIN tree : At(p)'.parent = At(p).parent /\ At(p)'.text = At(p).text
  <2> SUFFICES ASSUME NEW p \in DOMAIN tree
               PROVE  /\ disc'[Pos(tree[p].ind)].parent = disc[Pos(tree[p].ind)].parent
                      /\ disc'[Pos(tree[p].ind)].text = disc[Pos(tree[p].ind)].text
    BY <1>6 DEF At
  <2> QED
    BY <1>5, <1>7
<1>9. {Root, Boot, Apps} \subseteq DOMAIN tree
  BY DEF IInv, TreeInv
<1>10. DOMAIN tree' \subseteq Known
  BY <1>3, <1>6 DEF ShapeInv, Known
<1>11. \A p \in {Template, Live, Launcher, Copy} \cap DOMAIN tree' : ~tree'[p].isdir
  <2>1. Choices \notin {Template, Live, Launcher, Copy}
    BY PathsDiffer
  <2> QED
    BY <1>2, <1>3, <1>6, <2>1 DEF ShapeInv
<1>12. At(Boot)'.parent = tree'[Root].ind /\ At(Apps)'.parent = tree'[Root].ind
  BY <1>6, <1>8, <1>9 DEF ShapeInv
<1>13. \A p \in {Hook, Choices} \cap DOMAIN tree' : At(p)'.parent = tree'[Boot].ind
  <2>1. At(new)' = cell
    BY <1>2, <1>3, <1>5, <1>6 DEF At
  <2>2. ASSUME NEW p \in {Hook, Choices} \cap DOMAIN tree', p = new PROVE isdir
    <3>1. {Hook, Choices} \cap {Live, Launcher, Copy} = {}
      BY PathsDiffer
    <3> QED
      BY <1>3, <2>2, <3>1
  <2> QED
    BY <1>3, <1>6, <1>8, <1>9, <2>1, <2>2 DEF ShapeInv
<1>14. \A p \in DOMAIN tree' \ {Root} : \E q \in DOMAIN tree' : tree'[q].isdir /\ Holds(q, p)'
  <2>1. /\ At(dir)'.ents = Append(At(dir).ents, e) /\ At(dir).ents \in Seq(Entries)
    BY <1>4, <1>5, <1>6 DEF At
  <2>2. /\ Len(At(dir)'.ents) = Len(At(dir).ents) + 1 /\ Len(At(dir).ents) \in Nat
        /\ \A k \in 1 .. Len(At(dir).ents) : At(dir)'.ents[k] = At(dir).ents[k]
        /\ At(dir)'.ents[Len(At(dir).ents) + 1] = e
    BY <1>4, <2>1, AppendProperties, LenProperties
  <2>3. Holds(dir, new)'
    <3>1. Len(At(dir).ents) + 1 \in 1 .. Len(At(dir)'.ents)
      BY <2>2
    <3>2. new = Append(dir, At(dir)'.ents[Len(At(dir).ents) + 1].name)
      BY <1>2, <1>3, <2>2
    <3> QED
      BY <3>1, <3>2 DEF Holds
  <2>4. ASSUME NEW p \in DOMAIN tree, p # Root
        PROVE  \E q \in DOMAIN tree : tree[q].isdir /\ Holds(q, p)'
    <3>1. PICK q \in DOMAIN tree : tree[q].isdir /\ Holds(q, p)
      BY <2>4 DEF ShapeInv
    <3>2. CASE q = dir
      <4>1. PICK k \in 1 .. Len(At(dir).ents) : p = Append(dir, At(dir).ents[k].name)
        BY <3>1, <3>2 DEF Holds
      <4>2. k \in 1 .. Len(At(dir)'.ents) /\ p = Append(dir, At(dir)'.ents[k].name)
        BY <2>2, <4>1
      <4> QED
        BY <3>1, <3>2, <4>2 DEF Holds
    <3>3. CASE q # dir
      <4>1. Pos(tree[q].ind) # d
        BY <1>4, <3>3, OwnSectors
      <4>2. At(q)' = At(q)
        BY <1>5, <1>6, <1>7, <4>1 DEF At
      <4> QED
        BY <3>1, <4>2, HoldsSame
    <3> QED
      BY <3>2, <3>3
  <2> QED
    BY <1>4, <1>6, <2>3, <2>4
<1>15. ShapeInv'
  BY <1>10, <1>11, <1>12, <1>13, <1>14 DEF ShapeInv
<1>16. LauncherInv'
  <2>1. ASSUME NEW i \in Sectors, disc'[i].text = "launcher"
        PROVE  Launcher \in DOMAIN tree' /\ i = Pos(tree'[Launcher].ind)
    <3>1. CASE i = n
      BY <1>2, <1>3, <1>5, <1>6, <2>1, <3>1
    <3>2. CASE i # n
      <4>1. disc[i].text = "launcher"
        BY <1>5, <2>1, <3>2
      <4> QED
        BY <1>6, <4>1 DEF LauncherInv
    <3> QED
      BY <3>1, <3>2
  <2>2. ASSUME Launcher \in DOMAIN tree' PROVE disc'[Pos(tree'[Launcher].ind)].text = "launcher"
    <3>1. CASE Launcher = new
      BY <1>2, <1>3, <1>5, <1>6, <3>1
    <3>2. CASE Launcher \in DOMAIN tree
      BY <1>6, <1>8, <3>2 DEF LauncherInv, TextOf, At
    <3> QED
      BY <1>6, <2>2, <3>1, <3>2
  <2> QED
    BY <2>1, <2>2 DEF LauncherInv, TextOf
<1> QED
  BY <1>15, <1>16

\* A child's path begins with its directory's.
LEMMA ChildBegins ==
  ASSUME NEW p \in Path, NEW m \in ObjNames
  PROVE  \A i \in 1 .. Len(p) : Append(p, m)[i] = p[i]
<1>1. p \in Seq(ObjNames)
  BY DEF Path
<1> QED
  BY <1>1, AppendProperties

\* Of the known paths, only the copy is in Apps.
LEMMA AppsChild ==
  ASSUME NEW m \in ObjNames, Append(Apps, m) \in Known
  PROVE  Append(Apps, m) = Copy
<1> DEFINE p == Append(Apps, m)
<1>1. Apps \in Seq(ObjNames) /\ Len(Apps) = 2 /\ Apps[2] = "Apps"
  BY PathsDiffer DEF Path, Apps
<1>2. Len(p) = Len(Apps) + 1 /\ \A i \in 1 .. Len(Apps) : p[i] = Apps[i]
  BY <1>1, ChildPath, ChildBegins DEF Path
<1> HIDE DEF p
<1>7. Len(p) = 3 /\ p[2] = "Apps"
  <2>1. 2 \in 1 .. Len(Apps)
    BY <1>1
  <2> QED
    BY <1>1, <1>2, <2>1
<1>3. Len(Root) = 1 /\ Len(Boot) = 2 /\ Len(Apps) = 2 /\ Hook[2] = "!Boot" /\ Choices[2] = "!Boot"
  BY DEF Root, Boot, Apps, Hook, Choices
<1>4. Len(Template) = 4 /\ Len(Live) = 4 /\ Len(Launcher) = 4
  BY Depths
<1>5. p \in Known
  BY DEF p
<1>6. p = Copy
  <2>1. p \notin {Root, Boot, Apps, Template, Live, Launcher}
    BY <1>3, <1>4, <1>7
  <2>2. "Apps" # "!Boot"
    OBVIOUS
  <2>3. p \notin {Hook, Choices}
    BY <1>3, <1>7, <2>2
  <2> QED
    BY <1>5, <2>1, <2>3 DEF Known
<1> QED
  BY <1>6 DEF p

\* What is dropped has no entry any more, and what is left has one.
LEMMA ShapeDrop ==
  ASSUME IInv, ShapeInv, LauncherInv, GuestDropsCopy
  PROVE  ShapeInv' /\ LauncherInv'
<1> DEFINE d == Pos(tree[Apps].ind)
<1>1. Dropped(d)
  BY DropDoes
<1> HIDE DEF d
<1>2. /\ d = Pos(tree[Apps].ind) /\ d \in Sectors
      /\ disc'[d].ents = <<>> /\ disc'[d].text = disc[d].text
      /\ disc'[d].parent = disc[d].parent
      /\ \A i \in Sectors : i # d => disc'[i] = disc[i]
      /\ DOMAIN tree' = DOMAIN tree \ {Copy} /\ \A p \in DOMAIN tree' : tree'[p] = tree[p]
  BY <1>1 DEF Dropped
<1>3. /\ {Root, Boot, Apps} \subseteq DOMAIN tree'
      /\ Copy \notin {Root, Boot, Apps, Hook, Choices, Launcher}
  BY <1>2, PathsDiffer DEF IInv, TreeInv, Copy, Launcher
<1>4. \A p \in DOMAIN tree' : At(p)'.parent = At(p).parent /\ At(p)'.text = At(p).text
  <2> SUFFICES ASSUME NEW p \in DOMAIN tree'
               PROVE  /\ disc'[Pos(tree[p].ind)].parent = disc[Pos(tree[p].ind)].parent
                      /\ disc'[Pos(tree[p].ind)].text = disc[Pos(tree[p].ind)].text
    BY <1>2 DEF At
  <2>1. Pos(tree[p].ind) \in Sectors
    BY <1>2, OwnSectors
  <2> QED
    BY <1>2, <2>1
<1>5. \A p \in DOMAIN tree' \ {Root} : \E q \in DOMAIN tree' : tree'[q].isdir /\ Holds(q, p)'
  <2> SUFFICES ASSUME NEW p \in DOMAIN tree', p # Root
               PROVE  \E q \in DOMAIN tree' : tree'[q].isdir /\ Holds(q, p)'
    OBVIOUS
  <2>1. p \in DOMAIN tree /\ p # Copy
    BY <1>2
  <2>2. PICK q \in DOMAIN tree : tree[q].isdir /\ Holds(q, p)
    BY <2>1 DEF ShapeInv
  <2>3. q # Copy
    BY <2>2 DEF ShapeInv
  <2>4. q # Apps
    <3> SUFFICES ASSUME q = Apps PROVE FALSE
      OBVIOUS
    <3>1. PICK k \in 1 .. Len(At(Apps).ents) : p = Append(Apps, At(Apps).ents[k].name)
      BY <2>2 DEF Holds
    <3>2. At(Apps).ents[k].name \in ObjNames
      <4>1. At(Apps).ents \in Seq(Entries)
        BY <1>2 DEF IInv, BlockInv, Cell, At
      <4>2. At(Apps).ents[k] \in Entries
        BY <4>1, ElementOfSeq
      <4> QED
        BY <4>2 DEF Entries
    <3>3. p \in Known /\ Apps \in Path /\ "TimeSetup" \in ObjNames
      BY <2>1, PathsDiffer DEF ShapeInv, ObjNames
    <3> QED
      BY <2>1, <3>1, <3>2, <3>3, AppsChild
  <2>5. At(q)' = At(q)
    <3>1. Apps \in DOMAIN tree /\ q \in DOMAIN tree'
      BY <1>2, <1>3, <2>2, <2>3
    <3>2. Pos(tree[q].ind) \in Sectors /\ Pos(tree[q].ind) # d
      BY <1>2, <2>2, <2>4, <3>1, OwnSectors
    <3> QED
      BY <1>2, <3>1, <3>2 DEF At
  <2> QED
    BY <1>2, <2>2, <2>3, <2>5, HoldsSame
<1>6. ShapeInv'
  BY <1>2, <1>3, <1>4, <1>5 DEF ShapeInv
<1>7. LauncherInv'
  <2>1. \A i \in Sectors : disc'[i].text = disc[i].text
    BY <1>2
  <2>2. Launcher \in DOMAIN tree' <=> Launcher \in DOMAIN tree
    BY <1>2, <1>3
  <2> QED
    BY <1>2, <1>4, <2>1, <2>2 DEF LauncherInv, TextOf, At
<1> QED
  BY <1>6, <1>7

\* A moved directory keeps its name, its entries and its parent.
LEMMA ShapeMove ==
  ASSUME IInv, ShapeInv, LauncherInv, NEW p \in {Choices, Hook}, NEW a \in Addr,
         GuestMovesDir(p, a)
  PROVE  ShapeInv' /\ LauncherInv'
<1> DEFINE up == Pos(tree[Boot].ind)
           old == Pos(tree[p].ind)
           n == Pos(a)
<1>1. Moved(p, a, up, old, n)
  BY MoveDoes
<1>2. up = Pos(tree[Boot].ind) /\ old = Pos(tree[p].ind) /\ n = Pos(a)
  OBVIOUS
<1> HIDE DEF up, old, n
<1>3. /\ p \in DOMAIN tree /\ \A q \in DOMAIN tree : Pos(tree[q].ind) # n
      /\ Boot \in DOMAIN tree /\ tree[Boot].isdir /\ tree[p].isdir
      /\ p \notin {Root, Boot, Apps, Template, Live}
      /\ up \in Sectors /\ old \in Sectors /\ n \in Sectors /\ up # n /\ up # old
  BY <1>1 DEF Moved
<1>4. /\ disc'[n] = disc[old] /\ Len(disc'[up].ents) = Len(disc[up].ents)
      /\ \A k \in 1 .. Len(disc[up].ents) :
           /\ disc[up].ents[k] \in Entries
           /\ disc'[up].ents[k] = IF disc[up].ents[k].ind = tree[p].ind
                                    THEN [disc[up].ents[k] EXCEPT !.ind = a] ELSE disc[up].ents[k]
      /\ disc'[up].text = disc[up].text
      /\ disc'[up].parent = disc[up].parent
      /\ \A i \in Sectors : i # n /\ i # up => disc'[i] = disc[i]
  BY <1>1 DEF Moved
<1>5. /\ DOMAIN tree' = DOMAIN tree
      /\ \A q \in DOMAIN tree : q # p => tree'[q] = tree[q]
      /\ tree'[p].ind = a /\ tree'[p].isdir = tree[p].isdir
  BY <1>1 DEF Moved
<1>6. /\ {Root, Boot, Apps} \subseteq DOMAIN tree
      /\ \A q \in DOMAIN tree : tree'[q].isdir = tree[q].isdir
  BY <1>5 DEF IInv, TreeInv
<1>7. \A q \in DOMAIN tree : At(q)'.parent = At(q).parent /\ At(q)'.text = At(q).text
  <2> SUFFICES ASSUME NEW q \in DOMAIN tree
               PROVE  At(q)'.parent = At(q).parent /\ At(q)'.text = At(q).text
    OBVIOUS
  <2>1. CASE q = p
    BY <1>2, <1>4, <1>5, <2>1 DEF At
  <2>2. CASE q # p
    <3>1. Pos(tree[q].ind) \in Sectors /\ Pos(tree[q].ind) # n
      BY <1>3, OwnSectors
    <3> QED
      BY <1>4, <1>5, <2>2, <3>1 DEF At
  <2> QED
    BY <2>1, <2>2
<1>8. \A q \in DOMAIN tree :
        /\ Len(At(q)'.ents) = Len(At(q).ents)
        /\ \A k \in 1 .. Len(At(q).ents) : At(q)'.ents[k].name = At(q).ents[k].name
  <2> SUFFICES ASSUME NEW q \in DOMAIN tree
               PROVE  /\ Len(At(q)'.ents) = Len(At(q).ents)
                      /\ \A k \in 1 .. Len(At(q).ents) : At(q)'.ents[k].name = At(q).ents[k].name
    OBVIOUS
  <2>1. CASE q = p
    <3>1. At(q)' = At(q)
      BY <1>2, <1>4, <1>5, <2>1 DEF At
    <3> QED
      BY <3>1
  <2>2. CASE q = Boot
    <3>1. At(q)' = disc'[up] /\ At(q) = disc[up]
      BY <1>2, <1>3, <1>5, <2>2 DEF At
    <3>2. \A k \in 1 .. Len(disc[up].ents) : disc'[up].ents[k].name = disc[up].ents[k].name
      BY <1>4 DEF Entries
    <3> QED
      BY <1>4, <3>1, <3>2
  <2>3. CASE q # p /\ q # Boot
    <3>1. Pos(tree[q].ind) \in Sectors /\ Pos(tree[q].ind) # n /\ Pos(tree[q].ind) # up
      BY <1>2, <1>3, <2>3, OwnSectors
    <3>2. At(q)' = At(q)
      BY <1>4, <1>5, <2>3, <3>1 DEF At
    <3> QED
      BY <3>2
  <2> QED
    BY <2>1, <2>2, <2>3
<1>9. \A q, r : q \in DOMAIN tree /\ Holds(q, r) => Holds(q, r)'
  BY <1>8 DEF Holds
<1>10. ShapeInv'
  <2>1. \A q \in DOMAIN tree' \ {Root} : \E d \in DOMAIN tree' : tree'[d].isdir /\ Holds(d, q)'
    BY <1>5, <1>6, <1>9 DEF ShapeInv
  <2>2. \A q \in {Template, Live, Launcher, Copy} \cap DOMAIN tree' : ~tree'[q].isdir
    BY <1>5, <1>6 DEF ShapeInv
  <2>3. tree'[Root] = tree[Root] /\ tree'[Boot] = tree[Boot]
    BY <1>3, <1>5, <1>6
  <2> QED
    BY <1>5, <1>6, <1>7, <2>1, <2>2, <2>3 DEF ShapeInv
<1>11. LauncherInv'
  <2>1. disc[old].text = Magic
    BY <1>2, <1>3 DEF IInv, BlockInv, At
  <2>2. Magic # "launcher"
    BY DEF Magic
  <2>3. \A i \in Sectors : disc'[i].text = "launcher" => disc[i].text = "launcher"
    BY <1>4, <2>1, <2>2
  <2>4. Launcher # p
    BY <1>3, PathsDiffer
  <2> QED
    BY <1>5, <1>7, <2>3, <2>4 DEF LauncherInv, TextOf, At
<1> QED
  BY <1>10, <1>11

\* The tool's other steps and a halted machine change neither disc nor tree.
LEMMA ShapeFrame ==
  ASSUME IInv, ShapeInv, LauncherInv, UNCHANGED <<disc, tree>>
  PROVE  ShapeInv' /\ LauncherInv'
<1>1. \A p : At(p)' = At(p)
  BY DEF At
<1>2. ShapeInv'
  BY <1>1, ShapeSame
<1> QED
  BY <1>2 DEF LauncherInv, TextOf

\* Every step keeps the shape.
LEMMA ShapeStep ==
  ASSUME IInv, ShapeInv, LauncherInv, [Next]_vars
  PROVE  ShapeInv' /\ LauncherInv'
<1>1. CASE UNCHANGED vars
  BY <1>1, ShapeFrame DEF vars
<1>2. CASE Tool
  <2>1. CASE Patch
    BY <2>1, ShapePatch
  <2>2. CASE Cat \/ Scan
    BY <2>2, ShapeFrame DEF Cat, Scan, Succeeds, Refuses, Ends
  <2>3. CASE Open \/ Pop \/ ListFile \/ ListMissing \/ ListDir \/ Refusal
    BY <2>3, ShapeFrame DEF Open, OpenVolume, Pop, ListFile, ListMissing, ListDir, Refusal,
                            Refuses, Ends
  <2> QED
    BY <1>2, <2>1, <2>2, <2>3 DEF Tool
<1>3. ASSUME NEW a \in Addr,
             \/ GuestMakesChoices(a) \/ GuestCopiesTemplate(a)
             \/ GuestWritesLauncher(a) \/ GuestKeepsCopy(a)
      PROVE  ShapeInv' /\ LauncherInv'
  <2>1. /\ "Choices" \in ObjNames /\ "TimeSetup" \in ObjNames /\ "AnyVM" \in ObjNames
        /\ Append(Choices, "TimeSetup") = Live /\ Append(Choices, "AnyVM") = Launcher
        /\ Append(Apps, "TimeSetup") = Copy /\ Append(Boot, "Choices") = Choices
    BY ChoicesPath DEF ObjNames, Live, Launcher, Copy
  <2>2. Launcher \notin {Choices, Live, Copy}
    BY PathsDiffer, Depths
  <2>3. <<>> \in Seq(Entries)
    OBVIOUS
  <2>4. CASE GuestMakesChoices(a)
    <3> DEFINE cell == Block("Choices", tree[Boot].ind, <<>>)
    <3>1. cell \in Cell /\ cell.text = Magic /\ cell.parent = tree[Boot].ind
      <4>1. tree[Boot].ind \in Addr
        BY DEF IInv, TreeInv, Entries
      <4> QED
        BY <2>1, <2>3, <4>1 DEF Block, Cell
    <3>2. Magic # "launcher" /\ Create(Boot, "Choices", TRUE, a, cell)
      BY <2>4 DEF Magic, GuestMakesChoices
    <3> HIDE DEF cell
    <3> QED
      BY <2>1, <2>2, <3>1, <3>2, ShapeCreate
  <2>5. phase = "boot" /\ TextOf(Template) = "bootstrap"
    <3>1. phase = "boot"
      BY <1>3 DEF GuestMakesChoices, GuestCopiesTemplate, GuestWritesLauncher, GuestKeepsCopy,
                  Create
    <3> QED
      BY <3>1 DEF IInv, TextInv
  <2>6. /\ Data("bootstrap") \in Cell /\ Data("bootstrap").text = "bootstrap"
        /\ Data("launcher") \in Cell /\ Data("launcher").text = "launcher"
    BY <2>3 DEF Data, Cell, Texts
  <2>7. CASE GuestCopiesTemplate(a)
    <3>1. Create(Choices, "TimeSetup", FALSE, a, Data("bootstrap"))
      BY <2>5, <2>7 DEF GuestCopiesTemplate
    <3> QED
      BY <2>1, <2>2, <2>6, <3>1, ShapeCreate
  <2>8. CASE GuestWritesLauncher(a)
    <3>1. Create(Choices, "AnyVM", FALSE, a, Data("launcher"))
      BY <2>8 DEF GuestWritesLauncher
    <3> QED
      BY <2>1, <2>6, <3>1, ShapeCreate
  <2>9. CASE GuestKeepsCopy(a)
    <3>1. Create(Apps, "TimeSetup", FALSE, a, Data("bootstrap"))
      BY <2>5, <2>9 DEF GuestKeepsCopy
    <3> QED
      BY <2>1, <2>2, <2>6, <3>1, ShapeCreate
  <2> QED
    BY <1>3, <2>4, <2>7, <2>8, <2>9
<1>4. ASSUME NEW a \in Addr, GuestMovesDir(Choices, a) \/ GuestMovesDir(Hook, a)
      PROVE  ShapeInv' /\ LauncherInv'
  BY <1>4, ShapeMove
<1>5. CASE GuestDropsCopy
  BY <1>5, ShapeDrop
<1>6. CASE PowerOff
  BY <1>6, ShapeFrame DEF PowerOff
<1> QED
  BY <1>1, <1>2, <1>3, <1>4, <1>5, <1>6 DEF Next, Guest

\* The published disc has the shape.
LEMMA ShapeInit == Init => ShapeInv /\ LauncherInv /\ OrderInv
<1> SUFFICES ASSUME Init PROVE ShapeInv /\ LauncherInv /\ OrderInv
  OBVIOUS
<1>1. /\ DOMAIN tree = {Root, Boot, Apps, Hook, Template, Copy}
      /\ \A p \in {Root, Boot, Apps, Hook} : tree[p].isdir
      /\ ~tree[Template].isdir /\ ~tree[Copy].isdir
      /\ tree[Boot].name = "!Boot" /\ tree[Apps].name = "Apps" /\ tree[Hook].name = "RO530Hook"
      /\ tree[Template].name = "TimeSetup" /\ tree[Copy].name = "TimeSetup"
  BY Published
<1>2. /\ At(Root) = Block("$", tree[Root].ind, <<tree[Boot], tree[Apps]>>)
      /\ At(Boot) = Block("!Boot", tree[Root].ind, <<tree[Hook]>>)
      /\ At(Apps) = Block("Apps", tree[Root].ind, <<tree[Copy]>>)
      /\ At(Hook) = Block("RO530Hook", tree[Boot].ind, <<tree[Template]>>)
  BY Published DEF At
<1>3. \A n, a, s : Block(n, a, s).parent = a /\ Block(n, a, s).ents = s /\ Block(n, a, s).text = Magic
  BY DEF Block
<1>4. /\ At(Boot).parent = tree[Root].ind /\ At(Apps).parent = tree[Root].ind
      /\ At(Hook).parent = tree[Boot].ind
      /\ At(Root).ents = <<tree[Boot], tree[Apps]>> /\ At(Boot).ents = <<tree[Hook]>>
      /\ At(Apps).ents = <<tree[Copy]>> /\ At(Hook).ents = <<tree[Template]>>
  <2>1. At(Boot).parent = tree[Root].ind /\ At(Boot).ents = <<tree[Hook]>>
    BY <1>2, <1>3
  <2>2. At(Apps).parent = tree[Root].ind /\ At(Apps).ents = <<tree[Copy]>>
    BY <1>2, <1>3
  <2>3. At(Hook).parent = tree[Boot].ind /\ At(Hook).ents = <<tree[Template]>>
    BY <1>2, <1>3
  <2>4. At(Root).ents = <<tree[Boot], tree[Apps]>>
    BY <1>2, <1>3
  <2> QED
    BY <2>1, <2>2, <2>3, <2>4
<1>5. Live \notin DOMAIN tree /\ Launcher \notin DOMAIN tree /\ Choices \notin DOMAIN tree
  BY <1>1, PathsDiffer, Depths
<1>6. /\ Append(Root, "!Boot") = Boot /\ Append(Root, "Apps") = Apps
      /\ Append(Boot, "RO530Hook") = Hook
      /\ Append(Apps, "TimeSetup") = Copy /\ Append(Hook, "TimeSetup") = Template
  <2>1. "!Boot" \in ObjNames /\ "Apps" \in ObjNames
    BY DEF ObjNames
  <2>2. Append(Root, "!Boot") = Boot /\ Append(Root, "Apps") = Apps
    BY <2>1, RootChild DEF Boot, Apps
  <2> QED
    BY <2>2, ChoicesPath DEF Copy, Template
<1>7. Holds(Root, Boot) /\ Holds(Root, Apps)
  <2>1. /\ Len(At(Root).ents) = 2
        /\ At(Root).ents[1] = tree[Boot] /\ At(Root).ents[2] = tree[Apps]
    BY <1>4
  <2>2. 1 \in 1 .. Len(At(Root).ents) /\ 2 \in 1 .. Len(At(Root).ents)
    BY <2>1
  <2>3. Boot = Append(Root, At(Root).ents[1].name) /\ Apps = Append(Root, At(Root).ents[2].name)
    BY <1>1, <1>6, <2>1
  <2> QED
    BY <2>2, <2>3 DEF Holds
<1>8. Holds(Boot, Hook) /\ Holds(Apps, Copy) /\ Holds(Hook, Template)
  <2>1. /\ Len(At(Boot).ents) = 1 /\ At(Boot).ents[1] = tree[Hook]
        /\ Len(At(Apps).ents) = 1 /\ At(Apps).ents[1] = tree[Copy]
        /\ Len(At(Hook).ents) = 1 /\ At(Hook).ents[1] = tree[Template]
    BY <1>4
  <2>2. /\ 1 \in 1 .. Len(At(Boot).ents) /\ 1 \in 1 .. Len(At(Apps).ents)
        /\ 1 \in 1 .. Len(At(Hook).ents)
    BY <2>1
  <2>3. /\ Hook = Append(Boot, At(Boot).ents[1].name)
        /\ Copy = Append(Apps, At(Apps).ents[1].name)
        /\ Template = Append(Hook, At(Hook).ents[1].name)
    BY <1>1, <1>6, <2>1
  <2> QED
    BY <2>2, <2>3 DEF Holds
<1>9. ShapeInv
  <2>1. DOMAIN tree \subseteq Known
    BY <1>1 DEF Known
  <2>2. \A p \in DOMAIN tree \ {Root} : \E d \in DOMAIN tree : tree[d].isdir /\ Holds(d, p)
    BY <1>1, <1>7, <1>8
  <2> QED
    BY <1>1, <1>4, <1>5, <2>1, <2>2 DEF ShapeInv
<1>10. LauncherInv
  <2>1. \A i \in Sectors :
          \/ disc[i].text \in {"", "stock"}
          \/ \E p \in {Root, Boot, Apps, Hook} : disc[i] = At(p)
    BY Published DEF At
  <2>2. \A i \in Sectors : disc[i].text # "launcher"
    <3>1. \A p \in {Root, Boot, Apps, Hook} : At(p).text = Magic
      BY <1>2, <1>3
    <3> QED
      BY <2>1, <3>1 DEF Magic
  <2> QED
    BY <1>5, <2>2 DEF LauncherInv
<1>11. OrderInv
  BY DEF Init, OrderInv
<1> QED
  BY <1>9, <1>10, <1>11

\* A step of the finalize hook leaves right what it has put right.
LEMMA OrderStep ==
  ASSUME IInv, OrderInv, [Next]_vars
  PROVE  OrderInv'
<1>1. CASE Patch
  <2>1. PICK off \in Sectors :
          /\ disc[off].text = Cmd.prefix
          /\ disc' = [disc EXCEPT ![off] =
                        Data(IF phase = "prepare" THEN "bootstrap" ELSE orig)]
          /\ Cmd.path \in DOMAIN paths
          /\ Paired => off = Pos(tree[Cmd.path].ind)
    BY <1>1, PatchTarget
  <2>2. InHook /\ Succeeds /\ Cmd.op = "patch"
    BY <1>1 DEF Patch
  <2>3. CASE phase = "prepare"
    <3>1. phase' = "prepare"
      BY <2>2, <2>3, Commands, SucceedsHook
    <3> QED
      BY <3>1 DEF OrderInv
  <2>4. CASE phase # "prepare"
    <3>1. /\ phase = "finalize" /\ Cmd.prefix = "bootstrap"
          /\ (step = 1 /\ Cmd.path = Template) \/ (step = 2 /\ Cmd.path = Live)
      BY <2>2, <2>4, Commands
    <3>2. tree' = tree /\ step' = step + 1
      BY <2>2, <3>1, SucceedsHook
    <3>3. orig = "stock"
      BY <3>1 DEF IInv, TextInv
    <3>4. /\ (Paired' <=> Paired) /\ disc'[off].text = "stock"
          /\ \A i \in Sectors : i # off => disc'[i] = disc[i]
      <4>1. disc' = [disc EXCEPT ![off] = Data("stock")] /\ disc[off].text \in Texts
            /\ "stock" \in Texts
        BY <2>1, <2>4, <3>1, <3>3 DEF Texts
      <4> QED
        BY <3>2, <4>1, TextFrame
    <3>5. SUFFICES ASSUME Paired
                   PROVE  /\ TextOf(Template)' = "stock"
                          /\ step' >= 3 => TextOf(Live)' = "stock"
      BY <3>4 DEF OrderInv
    <3>6. Template \in DOMAIN tree /\ Pos(tree[Template].ind) \in Sectors
      BY OwnSectors DEF IInv, TreeInv
    <3>7. CASE step = 1
      BY <2>1, <3>1, <3>2, <3>4, <3>5, <3>7 DEF TextOf
    <3>8. CASE step = 2
      <4>1. HasLive
        BY <2>1, <3>1, <3>8 DEF IInv, WalkInv
      <4>2. Live # Template
        BY PathsDiffer
      <4>3. Pos(tree[Template].ind) # Pos(tree[Live].ind)
        BY <3>6, <4>1, <4>2, OwnSectors DEF HasLive
      <4>4. TextOf(Template) = "stock"
        BY <3>1, <3>5, <3>8 DEF OrderInv
      <4>5. off = Pos(tree[Live].ind)
        BY <2>1, <3>1, <3>5, <3>8
      <4>6. TextOf(Template)' = "stock"
        BY <3>2, <3>4, <3>6, <4>3, <4>4, <4>5 DEF TextOf
      <4>7. TextOf(Live)' = "stock"
        BY <3>2, <3>4, <4>5 DEF TextOf
      <4> QED
        BY <4>6, <4>7
    <3> QED
      BY <3>1, <3>7, <3>8
  <2> QED
    BY <2>3, <2>4
<1>2. CASE Scan
  <2>1. CASE Refuses
    BY <2>1, Zenon DEF Refuses, Ends, OrderInv
  <2>2. CASE Succeeds /\ UNCHANGED <<disc, orig>>
    <3>1. InHook /\ Cmd.op = "grep"
      BY <1>2 DEF Scan
    <3>2. phase = "finalize" /\ step = 3
      BY <3>1, Commands
    <3>3. tree' = tree /\ disc' = disc
      BY <2>2, <3>1, SucceedsHook
    <3>4. Paired' <=> Paired
      BY <3>3 DEF Paired, RootCandidates, Blocks, Names, Kids
    <3> QED
      BY <3>2, <3>3, <3>4 DEF OrderInv, TextOf
  <2> QED
    BY <1>2, <2>1, <2>2 DEF Scan
<1>3. CASE Cat
  <2>1. InHook /\ Cmd.op = "cat" /\ Succeeds
    BY <1>3 DEF Cat
  <2>2. phase = "prepare" \/ (phase = "finalize" /\ step = 4)
    BY <2>1, Commands
  <2>3. phase = "prepare" => step \in {1, 2, 3}
    BY <2>1, Commands
  <2>4. phase' # "finalize"
    BY <2>1, <2>2, <2>3, SucceedsHook
  <2> QED
    BY <2>4 DEF OrderInv
<1>4. CASE Refusal
  BY <1>4 DEF Refusal, Refuses, Ends, OrderInv
<1>5. CASE PowerOff
  <2>1. step' = 1
    BY <1>5 DEF PowerOff, IInv, HookInv
  <2> QED
    BY <2>1 DEF OrderInv
<1>6. CASE Open \/ Pop \/ ListFile \/ ListMissing \/ ListDir \/ UNCHANGED vars
  <2>1. disc' = disc /\ tree' = tree /\ phase' = phase /\ step' = step
    BY <1>6 DEF Open, OpenVolume, Pop, ListFile, ListMissing, ListDir, vars, hook
  <2>2. Paired' <=> Paired
    BY <2>1 DEF Paired, RootCandidates, Blocks, Names, Kids
  <2> QED
    BY <2>1, <2>2 DEF OrderInv, TextOf
<1>7. CASE phase' = "boot"
  BY <1>7 DEF OrderInv
<1>8. ASSUME Guest, ~PowerOff PROVE phase' = "boot"
  BY <1>8 DEF Guest, GuestMakesChoices, GuestCopiesTemplate, GuestWritesLauncher,
              GuestKeepsCopy, GuestMovesDir, GuestDropsCopy, Create, hook
<1> QED
  BY <1>1, <1>2, <1>3, <1>4, <1>5, <1>6, <1>7, <1>8 DEF Next, Tool

-----------------------------------------------------------------------------
(***************************************************************************)
(* The walk's progress.                                                    *)
(***************************************************************************)
\* The directories the walk has met, and the entries it is through with.
Found == {Root} \cup {p \in DOMAIN paths : tree[p].isdir}
Handled(d, k) ==
  LET q == Append(d, At(d).ents[k].name) IN Empty(q) \/ q \in DOMAIN paths
WalkDone(d) == \A k \in 1 .. Len(At(d).ents) : Handled(d, k)

\* A directory met is listed, or is being listed, or waits on the stack.
ProgressInv ==
  open /\ Paired =>
    /\ \A p \in DOMAIN paths : p # Root /\ ~Empty(p)
    /\ \A n \in 1 .. Len(stack) : stack[n].k = 1
    /\ \A k \in 1 .. cur.k - 1 : Handled(cur.path, k)
    /\ \A d \in Found :
         /\ WalkDone(d) \/ cur.path = d \/ \E n \in 1 .. Len(stack) : stack[n].path = d
         /\ tree[d].ind[1] \in DOMAIN base
    /\ \A d \in DOMAIN tree :
         tree[d].isdir /\ tree[d].ind \in seen => cur.path = d \/ WalkDone(d)

\* The directories met are the guest's.
LEMMA FoundDirs ==
  ASSUME IInv, Paired
  PROVE  Found \subseteq DOMAIN tree /\ \A d \in Found : tree[d].isdir
<1>1. Root \in DOMAIN tree /\ tree[Root].isdir
  BY DEF IInv, TreeInv
<1>2. \A p \in DOMAIN paths : p \in DOMAIN tree
  BY DEF IInv, WalkInv
<1> QED
  BY <1>1, <1>2 DEF Found

\* The block being listed is that of the directory.
LEMMA ListedAt ==
  ASSUME NEW e, Listed(e), Paired
  PROVE  /\ disc[e.blk] = At(e.path) /\ e.path \in DOMAIN tree
         /\ tree[e.path].isdir /\ tree[e.path].ind = e.addr
BY DEF Listed, At

\* A directory whose listing has ended is done.
LEMMA ListedOut ==
  ASSUME IInv, ShapeInv, ProgressInv, open, Paired, ~Listing,
         NEW d \in DOMAIN tree, cur.path = d
  PROVE  WalkDone(d)
<1>1. d \in Path /\ Len(d) \in 1 .. 4
  BY KnownPaths DEF ShapeInv
<1>2. cur # Closed
  <2>1. Closed.path = <<>> /\ Len(<<>>) = 0
    BY DEF Closed
  <2>2. \A n \in 1 .. 4 : n # 0
    OBVIOUS
  <2> QED
    BY <1>1, <2>1, <2>2
<1>3. Listed(cur) /\ cur.k \in Nat \ {0} /\ cur.blk \in Sectors
  BY <1>2 DEF IInv, WalkInv, Listed, Dirs
<1>4. disc[cur.blk] = At(d)
  BY <1>3, ListedAt
<1>5. Len(At(d).ents) \in Nat
  <2>1. At(d).ents \in Seq(Entries)
    BY <1>3, <1>4 DEF IInv, BlockInv, Cell
  <2> QED
    BY <2>1, LenProperties
<1>6. ~(cur.k <= Len(At(d).ents))
  BY <1>2, <1>4 DEF Listing
<1>7. \A k \in 1 .. Len(At(d).ents) : k \in 1 .. cur.k - 1
  BY <1>3, <1>5, <1>6
<1> QED
  BY <1>7 DEF ProgressInv, WalkDone

\* What a step of the walk does not undo.
LEMMA HandledStays ==
  ASSUME UNCHANGED <<disc, tree>>, DOMAIN paths \subseteq DOMAIN paths'
  PROVE  /\ \A p : At(p)' = At(p) /\ (Empty(p)' <=> Empty(p))
         /\ \A d, k : Handled(d, k) => Handled(d, k)'
         /\ \A d : WalkDone(d) => WalkDone(d)'
<1>1. \A p : At(p)' = At(p) /\ (Empty(p)' <=> Empty(p))
  BY DEF At, Empty
<1>2. \A d, k : Handled(d, k) => Handled(d, k)'
  BY <1>1 DEF Handled
<1>3. \A d : WalkDone(d) => WalkDone(d)'
  BY <1>1, <1>2 DEF WalkDone
<1> QED
  BY <1>1, <1>2, <1>3

\* The root is noted when the Volume opens.
LEMMA ProgressOpen ==
  ASSUME IInv, Open
  PROVE  ProgressInv'
<1>1. PICK r \in RootCandidates :
        /\ base' = Note(<<>>, disc[r].parent, r)
        /\ stack' = << [blk |-> r, addr |-> disc[r].parent, path |-> Root, k |-> 1] >>
  BY DEF Open, OpenVolume
<1>2. /\ cur' = Closed /\ seen' = {} /\ paths' = <<>> /\ tree' = tree
  BY DEF Open, OpenVolume
<1>3. disc[r].parent = tree[Root].ind
  <2>1. r \in Sectors /\ disc[r].name = "$" /\ disc[r].text = Magic
    BY DEF RootCandidates, Blocks
  <2> QED
    BY <2>1 DEF IInv, StaleInv
<1>4. DOMAIN base' = {tree[Root].ind[1]}
  <2>1. tree[Root].ind[1] \notin DOMAIN <<>>
    BY EmptyDomain
  <2>2. base' = Put(<<>>, tree[Root].ind[1], r - tree[Root].ind[2])
    BY <1>1, <1>3, <2>1 DEF Note
  <2> QED
    BY <2>2, EmptyDomain DEF Put
<1>5. DOMAIN paths' = {} /\ Found' = {Root}
  BY <1>2, EmptyDomain DEF Found
<1>6. Len(stack') = 1 /\ stack'[1].path = Root /\ stack'[1].k = 1
  BY <1>1
<1>7. \A n \in 1 .. Len(stack') : n = 1
  BY <1>6
<1>8. 1 \in 1 .. Len(stack') /\ cur'.k = 1
  BY <1>2, <1>6 DEF Closed
<1>9. \A k \in 1 .. cur'.k - 1 : FALSE
  BY <1>8
<1> QED
  BY <1>2, <1>4, <1>5, <1>6, <1>7, <1>8, <1>9 DEF ProgressInv

\* The directory taken from the stack is listed next, unless it has been.
LEMMA ProgressPop ==
  ASSUME IInv, ShapeInv, ProgressInv, Pop
  PROVE  ProgressInv'
<1>1. /\ UNCHANGED <<disc, tree, hook>> /\ open /\ ~Listing /\ base' = base /\ paths' = paths
      /\ stack # <<>> /\ stack' = Rest /\ seen' = seen \cup {Top.addr}
      /\ cur' = IF Top.addr \in seen THEN Closed ELSE Top
  BY DEF Pop, hook
<1>2. Paired' <=> Paired
  BY <1>1 DEF Paired, RootCandidates, Blocks, Names, Kids
<1> SUFFICES ASSUME Paired PROVE ProgressInv'
  BY <1>2 DEF ProgressInv
<1>3. /\ stack \in Seq(Dirs) /\ Len(stack) \in Nat \ {0}
      /\ \A n \in 1 .. Len(stack) : Listed(stack[n])
  BY <1>1, EmptySeq, LenProperties DEF IInv, WalkInv
<1>4. /\ Len(stack') = Len(stack) - 1
      /\ \A n \in 1 .. Len(stack) - 1 : stack'[n] = stack[n]
  BY <1>1, <1>3, PopRest DEF Rest
<1>5. Listed(Top) /\ Top.k = 1
  <2>1. Len(stack) \in 1 .. Len(stack)
    BY <1>3
  <2> QED
    BY <1>1, <1>3, <2>1 DEF Top, ProgressInv
<1>6. /\ Top.path \in DOMAIN tree /\ tree[Top.path].isdir /\ tree[Top.path].ind = Top.addr
  BY <1>5, ListedAt
<1>7. \A d \in DOMAIN tree : cur.path = d => WalkDone(d)
  BY <1>1, ListedOut
<1>8. \A d : WalkDone(d) => WalkDone(d)'
  BY <1>1, HandledStays
<1>9. Found' = Found
  BY <1>1 DEF Found
<1>10. \A p : Empty(p)' <=> Empty(p)
  BY <1>1, HandledStays
<1>11. \A n \in 1 .. Len(stack') : n \in 1 .. Len(stack) /\ stack'[n] = stack[n]
  BY <1>3, <1>4
<1>12. \A k \in 1 .. cur'.k - 1 : FALSE
  <2>1. cur'.k = 1
    BY <1>1, <1>5 DEF Closed
  <2> QED
    BY <2>1
<1>13. \A d \in DOMAIN tree : tree[d].isdir /\ tree[d].ind \in seen => WalkDone(d)
  BY <1>1, <1>7 DEF ProgressInv
<1>14. ASSUME NEW d \in Found
       PROVE  WalkDone(d)' \/ cur'.path = d \/ \E n \in 1 .. Len(stack') : stack'[n].path = d
  <2>1. d \in DOMAIN tree /\ tree[d].isdir
    BY FoundDirs
  <2>2. CASE WalkDone(d) \/ cur.path = d
    BY <1>7, <1>8, <2>1, <2>2
  <2>3. ASSUME NEW n \in 1 .. Len(stack), stack[n].path = d, n # Len(stack)
        PROVE  \E m \in 1 .. Len(stack') : stack'[m].path = d
    <3>1. n \in 1 .. Len(stack')
      BY <1>3, <1>4, <2>3
    <3> QED
      BY <1>11, <2>3, <3>1
  <2>4. ASSUME Top.path = d PROVE WalkDone(d)' \/ cur'.path = d
    <3>1. CASE Top.addr \in seen
      BY <1>6, <1>8, <1>13, <2>4, <3>1
    <3>2. CASE Top.addr \notin seen
      BY <1>1, <2>4, <3>2
    <3> QED
      BY <3>1, <3>2
  <2> QED
    BY <1>1, <2>2, <2>3, <2>4 DEF ProgressInv, Top
<1>15. ASSUME NEW d \in DOMAIN tree, tree[d].isdir, tree[d].ind \in seen'
       PROVE  cur'.path = d \/ WalkDone(d)'
  <2>1. CASE tree[d].ind \in seen
    BY <1>8, <1>13, <1>15, <2>1
  <2>2. CASE tree[d].ind \notin seen
    <3>1. tree[d].ind = Top.addr
      BY <1>1, <1>15, <2>2
    <3>2. d = Top.path
      BY <1>6, <3>1 DEF IInv, TreeInv
    <3> QED
      BY <1>1, <2>2, <3>1, <3>2
  <2> QED
    BY <2>1, <2>2
<1>16. \A p \in DOMAIN paths' : p # Root /\ ~Empty(p)'
  BY <1>1, <1>10 DEF ProgressInv
<1>17. \A n \in 1 .. Len(stack') : stack'[n].k = 1
  BY <1>1, <1>11 DEF ProgressInv
<1>18. \A d \in Found : tree[d].ind[1] \in DOMAIN base
  BY <1>1 DEF ProgressInv
<1> QED
  BY <1>1, <1>9, <1>12, <1>14, <1>15, <1>16, <1>17, <1>18 DEF ProgressInv

\* Where no old block misleads the walk, it passes over a directory for being
\* empty, and follows one to a block with entries.
LEMMA KidsOrEmpty ==
  ASSUME IInv, ShapeInv, Paired, Listing, Current.isdir
  PROVE  /\ Kids(cur.addr, Current.name) = {} => Empty(CurrentPath)
         /\ Kids(cur.addr, Current.name) # {} => ~Empty(CurrentPath)
<1>1. /\ Listed(cur) /\ Current \in Entries
      /\ CurrentPath \in DOMAIN tree /\ tree[CurrentPath] = Current
      /\ cur.k \in 1 .. Len(disc[cur.blk].ents) /\ cur \in Dirs
  BY ListedEntry
<1>2. /\ disc[cur.blk] = At(cur.path) /\ cur.path \in DOMAIN tree
      /\ tree[cur.path].ind = cur.addr
  BY <1>1, ListedAt
<1>3. At(CurrentPath) = disc[Pos(Current.ind)] /\ Pos(Current.ind) \in Sectors
  BY <1>1, OwnSectors DEF At
<1>4. At(CurrentPath).text = Magic /\ At(CurrentPath).name = Current.name
  BY <1>1 DEF IInv, BlockInv
<1>5. At(CurrentPath).parent = cur.addr
  <2>1. Current.name \in ObjNames
    BY <1>1 DEF Entries
  <2> QED
    BY <1>1, <1>2, <2>1, ParentBlock DEF CurrentPath
<1>6. At(CurrentPath).ents \in Seq(Entries)
  BY <1>3 DEF IInv, BlockInv, Cell
<1>7. CASE Kids(cur.addr, Current.name) = {}
  <2>1. ~(Len(At(CurrentPath).ents) > 0)
    BY <1>3, <1>4, <1>5, <1>7 DEF Kids, Blocks
  <2>2. Len(At(CurrentPath).ents) = 0
    BY <1>6, <2>1, LenProperties
  <2>3. At(CurrentPath).ents = <<>>
    BY <1>6, <2>2, EmptySeq
  <2> QED
    BY <1>1, <1>7, <2>3 DEF Empty, At
<1>8. CASE Kids(cur.addr, Current.name) # {}
  <2>1. PICK c \in Kids(cur.addr, Current.name) : TRUE
    BY <1>8
  <2>2. c = Pos(Current.ind)
    <3>1. cur.addr \in Addr /\ cur.blk \in Blocks /\ cur.blk = Pos(cur.addr)
      BY <1>1 DEF Listed, Dirs
    <3> QED
      BY <1>1, <3>1 DEF Paired, Current
  <2>3. Len(At(CurrentPath).ents) > 0
    BY <1>3, <2>1, <2>2 DEF Kids, Blocks
  <2>4. At(CurrentPath).ents # <<>>
    BY <2>3, EmptyDomain
  <2> QED
    BY <1>8, <2>4 DEF Empty, At
<1> QED
  BY <1>7, <1>8

\* An entry is noted, or it is an empty directory.
LEMMA ProgressList ==
  ASSUME IInv, ShapeInv, ProgressInv, ListFile \/ ListMissing \/ ListDir
  PROVE  ProgressInv'
<1>1. /\ UNCHANGED <<disc, tree, hook>> /\ open /\ Listing /\ seen' = seen
      /\ cur' = [cur EXCEPT !.k = @ + 1]
      /\ \/ paths' = Put(paths, CurrentPath, Current)
         \/ paths' = paths /\ Current.isdir /\ Kids(cur.addr, Current.name) = {}
  BY DEF ListFile, ListMissing, ListDir, hook
<1>2. Paired' <=> Paired
  BY <1>1 DEF Paired, RootCandidates, Blocks, Names, Kids
<1> SUFFICES ASSUME Paired PROVE ProgressInv'
  BY <1>2 DEF ProgressInv
<1>3. /\ Listed(cur) /\ cur \in Dirs /\ cur.k \in 1 .. Len(disc[cur.blk].ents)
      /\ CurrentPath \in DOMAIN tree /\ tree[CurrentPath] = Current
      /\ Current \in Entries
  BY <1>1, ListedEntry
<1>4. disc[cur.blk] = At(cur.path) /\ cur.path \in DOMAIN tree
  BY <1>3, ListedAt
<1>5. cur'.path = cur.path /\ cur'.k = cur.k + 1 /\ cur.k \in Nat
  BY <1>1, <1>3 DEF Dirs
<1>6. /\ DOMAIN paths \subseteq DOMAIN paths'
      /\ \A p \in DOMAIN paths' : p \in DOMAIN paths \/ p = CurrentPath
  <2>1. CASE paths' = paths
    BY <2>1
  <2>2. CASE paths' = Put(paths, CurrentPath, Current)
    BY <2>2 DEF Put
  <2> QED
    BY <1>1, <2>1, <2>2
<1>7. /\ \A p : Empty(p)' <=> Empty(p)
      /\ \A d, k : Handled(d, k) => Handled(d, k)'
      /\ \A d : WalkDone(d) => WalkDone(d)'
      /\ At(cur.path)' = At(cur.path)
  BY <1>1, <1>6, HandledStays
<1>8. CurrentPath # Root
  <2>1. Len(cur.path) \in 1 .. 4 /\ cur.path \in Path /\ Current.name \in ObjNames
    BY <1>3, <1>4, KnownPaths DEF ShapeInv, Entries
  <2>2. Len(CurrentPath) = Len(cur.path) + 1
    BY <2>1, ChildPath DEF CurrentPath
  <2>3. Len(Root) = 1 /\ \A n \in 1 .. 4 : n + 1 # 1
    BY Depths
  <2> QED
    BY <2>1, <2>2, <2>3
<1>9. CurrentPath \in DOMAIN paths' \/ Empty(CurrentPath)
  <2>1. CASE paths' = paths /\ Current.isdir /\ Kids(cur.addr, Current.name) = {}
    BY <1>1, <2>1, KidsOrEmpty
  <2>2. CASE paths' = Put(paths, CurrentPath, Current)
    BY <2>2 DEF Put
  <2> QED
    BY <1>1, <2>1, <2>2
<1>10. ~(CurrentPath \in DOMAIN paths' /\ CurrentPath \notin DOMAIN paths /\ Empty(CurrentPath))
  <2>1. CASE ListFile
    BY <1>3, <2>1 DEF ListFile, Empty
  <2>2. CASE ListMissing
    BY <2>2 DEF ListMissing
  <2>3. CASE ListDir
    <3>1. Current.isdir /\ Kids(cur.addr, Current.name) # {}
      BY <2>3 DEF ListDir
    <3> QED
      BY <1>1, <3>1, KidsOrEmpty
  <2> QED
    BY <2>1, <2>2, <2>3
<1>11. \A p \in DOMAIN paths' : p # Root /\ ~Empty(p)'
  BY <1>1, <1>6, <1>7, <1>8, <1>10 DEF ProgressInv
<1>12. \A k \in 1 .. cur'.k - 1 : Handled(cur.path, k)'
  <2> SUFFICES ASSUME NEW k \in 1 .. cur'.k - 1 PROVE Handled(cur.path, k)'
    OBVIOUS
  <2>1. PICK d : d = cur.path /\ d = cur'.path
    BY <1>5
  <2>2. k \in 1 .. cur.k - 1 \/ k = cur.k
    BY <1>5
  <2>3. CASE k \in 1 .. cur.k - 1
    <3>1. Handled(cur.path, k)
      BY <1>1, <2>3 DEF ProgressInv
    <3>2. Handled(d, k)
      BY <2>1, <3>1
    <3>3. Handled(d, k)'
      BY <1>7, <3>2
    <3> QED
      BY <2>1, <3>3 DEF Handled, At, Empty
  <2>4. CASE k = cur.k
    <3>1. CurrentPath = Append(cur.path, At(cur.path).ents[k].name)
      BY <1>4, <2>4 DEF CurrentPath, Current
    <3>2. Handled(d, k)'
      <4>1. CurrentPath = Append(d, At(d).ents[k].name) /\ At(d)' = At(d)
        BY <1>1, <2>1, <3>1 DEF At
      <4> QED
        BY <1>1, <1>9, <4>1 DEF Handled, Empty
    <3> QED
      BY <2>1, <3>2 DEF Handled, At, Empty
  <2> QED
    BY <2>2, <2>3, <2>4
<1>13. \A d \in DOMAIN tree' : tree'[d].isdir /\ tree'[d].ind \in seen' =>
         cur'.path = d \/ WalkDone(d)'
  BY <1>1, <1>5, <1>7 DEF ProgressInv
<1>14. \A d \in Found :
         /\ WalkDone(d) \/ cur.path = d \/ \E n \in 1 .. Len(stack) : stack[n].path = d
         /\ tree[d].ind[1] \in DOMAIN base
  BY <1>1 DEF ProgressInv
<1>15. CASE ListFile \/ ListMissing
  <2>1. stack' = stack /\ base' = base
    BY <1>15 DEF ListFile, ListMissing
  <2>2. Found' \subseteq Found
    <3>1. CASE ListFile
      BY <1>1, <1>3, <1>6, <3>1 DEF Found, ListFile
    <3>2. CASE ListMissing
      BY <1>1, <3>2 DEF Found, ListMissing
    <3> QED
      BY <1>15, <3>1, <3>2
  <2>3. \A n \in 1 .. Len(stack') : stack'[n].k = 1
    BY <1>1, <2>1 DEF ProgressInv
  <2>4. \A d \in Found' :
          /\ WalkDone(d)' \/ cur'.path = d \/ \E n \in 1 .. Len(stack') : stack'[n].path = d
          /\ tree'[d].ind[1] \in DOMAIN base'
    BY <1>1, <1>5, <1>7, <1>14, <2>1, <2>2
  <2> QED
    BY <1>11, <1>12, <1>13, <2>3, <2>4 DEF ProgressInv
<1>16. CASE ListDir
  <2>1. PICK c \in Kids(cur.addr, Current.name) :
          /\ base' = Note(base, Current.ind, c)
          /\ stack' = Append(stack, [blk |-> c, addr |-> Current.ind,
                                     path |-> CurrentPath, k |-> 1])
    BY <1>16 DEF ListDir
  <2> DEFINE e == [blk |-> c, addr |-> Current.ind, path |-> CurrentPath, k |-> 1]
  <2>2. e \in Dirs /\ e.path = CurrentPath /\ e.k = 1
    BY <1>1, <1>3, ListedEntry DEF Dirs, Kids, Blocks, Entries
  <2>3. stack \in Seq(Dirs) /\ stack' = Append(stack, e)
    BY <2>1 DEF IInv, WalkInv
  <2> HIDE DEF e
  <2>4. /\ Len(stack') = Len(stack) + 1 /\ Len(stack) \in Nat
        /\ \A n \in 1 .. Len(stack) : stack'[n] = stack[n]
        /\ stack'[Len(stack) + 1] = e
    BY <2>2, <2>3, AppendProperties, LenProperties
  <2>5. /\ \A n \in 1 .. Len(stack) : n \in 1 .. Len(stack')
        /\ Len(stack) + 1 \in 1 .. Len(stack')
        /\ \A n \in 1 .. Len(stack') : n \in 1 .. Len(stack) \/ n = Len(stack) + 1
    BY <2>4
  <2>6. \A n \in 1 .. Len(stack') : stack'[n].k = 1
    BY <1>1, <2>2, <2>4, <2>5 DEF ProgressInv
  <2>7. DOMAIN base' = DOMAIN base \cup {Current.ind[1]}
    BY <2>1 DEF Note, Put
  <2>8. Found' \subseteq Found \cup {CurrentPath}
    BY <1>1, <1>6 DEF Found
  <2>9. \A d \in Found' :
          /\ WalkDone(d)' \/ cur'.path = d \/ \E n \in 1 .. Len(stack') : stack'[n].path = d
          /\ tree'[d].ind[1] \in DOMAIN base'
    <3> SUFFICES ASSUME NEW d \in Found'
                 PROVE  /\ \/ WalkDone(d)' \/ cur'.path = d
                           \/ \E n \in 1 .. Len(stack') : stack'[n].path = d
                        /\ tree[d].ind[1] \in DOMAIN base'
      BY <1>1
    <3>1. CASE d = CurrentPath
      BY <1>3, <2>2, <2>4, <2>5, <2>7, <3>1
    <3>2. CASE d \in Found
      <4>1. ASSUME NEW n \in 1 .. Len(stack), stack[n].path = d
            PROVE  \E m \in 1 .. Len(stack') : stack'[m].path = d
        BY <2>4, <2>5, <4>1
      <4> QED
        BY <1>5, <1>7, <1>14, <2>7, <3>2, <4>1
    <3> QED
      BY <2>8, <3>1, <3>2
  <2> QED
    BY <1>11, <1>12, <1>13, <2>6, <2>9 DEF ProgressInv
<1> QED
  BY <1>15, <1>16

\* Every step of the walk keeps account of what is left to list.
LEMMA ProgressStep ==
  ASSUME IInv, ShapeInv, ProgressInv, [Next]_vars
  PROVE  ProgressInv'
<1>1. CASE UNCHANGED vars
  <2>1. /\ UNCHANGED <<disc, tree>> /\ open' = open /\ cur' = cur /\ stack' = stack
        /\ seen' = seen /\ base' = base /\ paths' = paths
    BY <1>1 DEF vars
  <2>2. Paired' <=> Paired
    BY <2>1 DEF Paired, RootCandidates, Blocks, Names, Kids
  <2>3. /\ \A p : Empty(p)' <=> Empty(p)
        /\ \A d, k : Handled(d, k) => Handled(d, k)'
        /\ \A d : WalkDone(d) => WalkDone(d)'
    BY <2>1, HandledStays
  <2>4. Found' = Found
    BY <2>1 DEF Found
  <2> QED
    BY <2>1, <2>2, <2>3, <2>4 DEF ProgressInv
<1>2. CASE Cat \/ Patch \/ Refusal \/ Scan
  <2>1. ~open'
    BY <1>2 DEF Cat, Patch, Refusal, Scan, Succeeds, Refuses, Ends
  <2> QED
    BY <2>1 DEF ProgressInv
<1>3. CASE Guest
  <2>1. phase = "boot" /\ open' = open
    BY <1>3 DEF Guest, GuestMakesChoices, GuestCopiesTemplate, GuestWritesLauncher,
                GuestKeepsCopy, GuestMovesDir, GuestDropsCopy, PowerOff, Create, volume
  <2>2. open = FALSE
    BY <2>1 DEF IInv, HookInv, InHook
  <2> QED
    BY <2>1, <2>2 DEF ProgressInv
<1>4. CASE Open
  BY <1>4, ProgressOpen
<1>5. CASE Pop
  BY <1>5, ProgressPop
<1>6. CASE ListFile \/ ListMissing \/ ListDir
  BY <1>6, ProgressList
<1> QED
  BY <1>1, <1>2, <1>3, <1>4, <1>5, <1>6 DEF Next, Tool

\* A Volume is open only for a command that reads one.
VolumeInv == InHook /\ open => Cmd.op # "grep"

\* The scan is the only command that opens no Volume.
LEMMA VolumeStep ==
  ASSUME IInv, VolumeInv, [Next]_vars
  PROVE  VolumeInv'
<1>1. CASE Cat \/ Patch \/ Refusal \/ Scan
  <2>1. ~open'
    BY <1>1 DEF Cat, Patch, Refusal, Scan, Succeeds, Refuses, Ends
  <2> QED
    BY <2>1 DEF VolumeInv
<1>2. CASE Guest
  <2>1. phase = "boot" /\ open' = open
    BY <1>2 DEF Guest, GuestMakesChoices, GuestCopiesTemplate, GuestWritesLauncher,
                GuestKeepsCopy, GuestMovesDir, GuestDropsCopy, PowerOff, Create, volume
  <2>2. open = FALSE
    BY <2>1 DEF IInv, HookInv, InHook
  <2> QED
    BY <2>1, <2>2 DEF VolumeInv
<1>3. CASE Open \/ Pop \/ ListFile \/ ListMissing \/ ListDir \/ UNCHANGED vars
  <2>1. phase' = phase /\ step' = step
    BY <1>3 DEF Open, OpenVolume, Pop, ListFile, ListMissing, ListDir, vars, hook
  <2>2. Cmd' = Cmd /\ (InHook' <=> InHook)
    BY <2>1 DEF Cmd, Script, InHook
  <2>3. Open \/ open' = open
    BY <1>3 DEF Pop, ListFile, ListMissing, ListDir, vars
  <2> QED
    BY <2>2, <2>3 DEF VolumeInv, Open
<1> QED
  BY <1>1, <1>2, <1>3 DEF Next, Tool

\* The invariants together.
WInv == IInv /\ ShapeInv /\ LauncherInv /\ OrderInv /\ ProgressInv /\ VolumeInv

\* Nothing is open at first.
LEMMA ProgressInit == Init => ProgressInv /\ VolumeInv
<1> SUFFICES ASSUME Init PROVE ~open
  BY DEF ProgressInv, VolumeInv
<1>1. open = FALSE
  BY DEF Init
<1> QED
  BY <1>1

\* The invariants of the walk hold of every behaviour.
THEOREM WalkInductive == Spec => []WInv
<1>1. Init => WInv
  BY InitInv, ShapeInit, ProgressInit DEF WInv
<1>2. WInv /\ [Next]_vars => WInv'
  BY StepInv, ShapeStep, OrderStep, ProgressStep, VolumeStep DEF WInv
<1> QED
  BY <1>1, <1>2, PTL DEF Spec

-----------------------------------------------------------------------------
(***************************************************************************)
(* A walk that has ended: level by level down the tree, every directory    *)
(* is listed, so every entry is met.                                       *)
(***************************************************************************)
\* A walk that has ended has been everywhere.
LEMMA AllListed ==
  ASSUME WInv, Walked, Paired
  PROVE  \A d \in Found : WalkDone(d)
<1>1. open /\ ~Listing /\ Len(stack) = 0
  BY EmptyDomain DEF Walked
<1>2. \A n \in 1 .. Len(stack) : FALSE
  BY <1>1
<1>3. \A d \in Found : d \in DOMAIN tree
  BY FoundDirs DEF WInv
<1>4. \A d \in Found : WalkDone(d) \/ cur.path = d
  BY <1>1, <1>2 DEF WInv, ProgressInv
<1> QED
  BY <1>1, <1>3, <1>4, ListedOut DEF WInv

\* Level by level, the walk has what is in the directories it has.
LEMMA LevelFound ==
  ASSUME WInv, Walked, Paired, NEW n \in Nat,
         \A p \in DOMAIN tree : p # Root /\ ~Empty(p) /\ Len(p) <= n => p \in DOMAIN paths
  PROVE  \A p \in DOMAIN tree : p # Root /\ ~Empty(p) /\ Len(p) <= n + 1 => p \in DOMAIN paths
<1> SUFFICES ASSUME NEW p \in DOMAIN tree, p # Root, ~Empty(p), Len(p) <= n + 1
             PROVE  p \in DOMAIN paths
  OBVIOUS
<1>1. PICK d \in DOMAIN tree : tree[d].isdir /\ Holds(d, p)
  BY DEF WInv, ShapeInv
<1>2. PICK k \in 1 .. Len(At(d).ents) : p = Append(d, At(d).ents[k].name)
  BY <1>1 DEF Holds
<1>3. At(d).ents \in Seq(Entries) /\ d \in Path /\ Len(d) \in 1 .. 4
  <2>1. d \in Path /\ Len(d) \in 1 .. 4
    BY KnownPaths DEF WInv, ShapeInv
  <2>2. Pos(tree[d].ind) \in Sectors
    BY OwnSectors DEF WInv
  <2> QED
    BY <2>1, <2>2 DEF WInv, IInv, BlockInv, Cell, At
<1>4. Len(p) = Len(d) + 1
  <2>1. At(d).ents[k] \in Entries
    BY <1>3, ElementOfSeq
  <2>2. At(d).ents[k].name \in ObjNames
    BY <2>1 DEF Entries
  <2> QED
    BY <1>2, <1>3, <2>2, ChildPath
<1>5. ~Empty(d)
  <2>1. Len(At(d).ents) # 0
    BY <1>2
  <2> QED
    BY <2>1, EmptyDomain DEF Empty, At
<1>6. Len(d) <= n
  <2>1. Len(d) \in Int
    BY <1>3
  <2> QED
    BY <1>4, <2>1
<1>7. d \in Found
  BY <1>1, <1>5, <1>6 DEF Found
<1>8. Handled(d, k)
  BY <1>7, AllListed DEF WalkDone
<1> QED
  BY <1>2, <1>8 DEF Handled

\* What a finished walk has, where no old block misleads it.
LEMMA WalkHas ==
  ASSUME WInv, Walked, Paired
  PROVE  /\ DOMAIN paths = {p \in DOMAIN tree : p # Root /\ ~Empty(p)}
         /\ \A p \in DOMAIN paths : paths[p] = tree[p]
<1> DEFINE L(n) ==
      \A p \in DOMAIN tree : p # Root /\ ~Empty(p) /\ Len(p) <= n => p \in DOMAIN paths
<1>1. \A p \in DOMAIN tree : Len(p) \in 1 .. 4 /\ (Len(p) = 1 => p = Root)
  BY KnownPaths DEF WInv, ShapeInv
<1>2. L(1)
  <2>1. \A p \in DOMAIN tree : Len(p) <= 1 => p = Root
    <3>1. \A n \in 1 .. 4 : n <= 1 => n = 1
      OBVIOUS
    <3> QED
      BY <1>1, <3>1
  <2> QED
    BY <2>1
<1>3. L(1 + 1)
  BY <1>2, LevelFound
<1>4. L(1 + 1 + 1)
  BY <1>3, LevelFound
<1>5. L(1 + 1 + 1 + 1)
  BY <1>4, LevelFound
<1>6. \A p \in DOMAIN tree : Len(p) <= 1 + 1 + 1 + 1
  <2>1. \A n \in 1 .. 4 : n <= 1 + 1 + 1 + 1
    OBVIOUS
  <2> QED
    BY <1>1, <2>1
<1>7. \A p \in DOMAIN paths : p \in DOMAIN tree /\ paths[p] = tree[p]
  BY DEF WInv, IInv, WalkInv
<1>8. \A p \in DOMAIN paths : p # Root /\ ~Empty(p)
  BY DEF WInv, ProgressInv, Walked
<1> QED
  BY <1>5, <1>6, <1>7, <1>8

\* Completeness: where no old block misleads it, a walk that has ended has
\* every object of the guest's tree but the empty directories, each at the
\* guest's address for it (_walk).
THEOREM WalkComplete == Spec => []WalkFindsAll
<1>1. WInv => WalkFindsAll
  BY WalkHas DEF WalkFindsAll
<1> QED
  BY <1>1, WalkInductive, PTL

-----------------------------------------------------------------------------
(***************************************************************************)
(* A regular disc is not refused.                                          *)
(***************************************************************************)
\* locate() on a finished walk: the named file's sector, if a directory tells
\* of its fragment, or if no other sector has the text.
LEMMA LocateFinds ==
  ASSUME WInv, Walked, Paired, NEW path \in {Template, Live, Launcher}, path \in DOMAIN tree,
         NEW prefix,
         \/ tree[path].ind[1] \in DOMAIN base
         \/ \A i \in Sectors : disc[i].text = prefix <=> i = Pos(tree[path].ind)
  PROVE  Locate(path, prefix) = {Pos(tree[path].ind)}
<1>1. ~tree[path].isdir /\ path # Root /\ tree[path].ind \in Addr
      /\ Pos(tree[path].ind) \in Sectors
  <2>1. path # Root
    BY PathsDiffer, Depths
  <2> QED
    BY <2>1, OwnSectors DEF WInv, ShapeInv
<1>2. path \in DOMAIN paths /\ paths[path] = tree[path]
  BY <1>1, WalkHas DEF Empty
<1>3. CASE tree[path].ind[1] \in DOMAIN base
  <2>1. base[tree[path].ind[1]] = Base[tree[path].ind[1]]
    BY <1>3 DEF WInv, IInv, WalkInv
  <2> QED
    BY <1>1, <1>2, <1>3, <2>1 DEF Locate, Pos
<1>4. CASE /\ tree[path].ind[1] \notin DOMAIN base
           /\ \A i \in Sectors : disc[i].text = prefix <=> i = Pos(tree[path].ind)
  <2> DEFINE hits == {i \in Sectors : disc[i].text = prefix}
  <2>1. hits = {Pos(tree[path].ind)}
    BY <1>1, <1>4
  <2>2. Locate(path, prefix) = IF Cardinality(hits) = 1 THEN hits ELSE {}
    BY <1>1, <1>2, <1>4 DEF Locate
  <2> HIDE DEF hits
  <2>3. Cardinality(hits) = 1
    BY <2>1, FS_Singleton
  <2> QED
    BY <2>1, <2>2, <2>3
<1> QED
  BY <1>3, <1>4

\* No command of the finalize hook is refused on a regular disc.
LEMMA NoRefusal ==
  ASSUME WInv, phase = "finalize", Regular
  PROVE  ~Refusal /\ ~(Scan /\ Refuses)
<1>1. /\ Paired /\ {Live, Launcher} \subseteq DOMAIN tree /\ HasLive
      /\ \A i \in Sectors : disc[i].text = "bootstrap" =>
           i \in {Pos(tree[Template].ind), Pos(tree[Live].ind)}
  BY DEF Regular, HasLive
<1>2. /\ Template \in DOMAIN tree /\ Pos(tree[Template].ind) \in Sectors
      /\ Pos(tree[Live].ind) \in Sectors /\ Pos(tree[Launcher].ind) \in Sectors
  BY <1>1, OwnSectors DEF WInv, IInv, TreeInv
<1>3. /\ step \in {1, 2, 3, 4}
      /\ step = 1 => Cmd.op = "patch" /\ Cmd.path = Template /\ Cmd.prefix = "bootstrap"
      /\ step = 2 => Cmd.op = "patch" /\ Cmd.path = Live /\ Cmd.prefix = "bootstrap"
      /\ step = 3 => Cmd.op = "grep"
      /\ step = 4 => Cmd.op = "cat" /\ Cmd.path = Launcher /\ Cmd.prefix = "launcher"
  BY Commands DEF WInv, InHook
<1>4. /\ step >= 2 => TextOf(Template) = "stock"
      /\ step >= 3 => TextOf(Live) = "stock"
  BY <1>1 DEF WInv, OrderInv
<1>5. ~(Scan /\ Refuses)
  <2> SUFFICES ASSUME Scan, Refuses PROVE FALSE
    OBVIOUS
  <2>1. step = 3
    BY <1>3 DEF Scan
  <2>2. PICK i \in Sectors : disc[i].text = "bootstrap"
    <3>1. ~Succeeds
      <4>1. phase' = "failed"
        BY DEF Refuses, Ends
      <4>2. Succeeds => phase' # "failed"
        BY DEF Succeeds, Ends
      <4> QED
        BY <4>1, <4>2
    <3> QED
      BY <3>1 DEF Scan
  <2>3. TextOf(Template) = "stock" /\ TextOf(Live) = "stock"
    BY <1>4, <2>1
  <2> QED
    BY <1>1, <2>2, <2>3 DEF TextOf
<1>6. ~Refusal
  <2> SUFFICES ASSUME Refusal PROVE FALSE
    OBVIOUS
  <2>1. /\ Walked /\ open /\ step # 3
        /\ \/ Locate(Cmd.path, Cmd.prefix) = {}
           \/ /\ Cmd.op = "patch"
              /\ \E off \in Locate(Cmd.path, Cmd.prefix) : Reads(off) # Cmd.prefix
    <3>1. InHook
      BY DEF InHook
    <3> QED
      BY <1>3, <3>1 DEF Refusal, Walked, WInv, VolumeInv
  <2>2. CASE step = 1
    <3>1. PICK p \in DOMAIN tree :
            tree[p].isdir /\ ~Empty(p) /\ tree[p].ind[1] = tree[Template].ind[1]
      BY DEF Regular
    <3>2. p \in Found
      BY <1>1, <2>1, <3>1, WalkHas DEF Found
    <3>3. tree[Template].ind[1] \in DOMAIN base
      BY <1>1, <2>1, <3>1, <3>2 DEF WInv, ProgressInv
    <3>4. Locate(Template, "bootstrap") = {Pos(tree[Template].ind)}
      BY <1>1, <1>2, <2>1, <3>3, LocateFinds
    <3>5. TextOf(Template) = "bootstrap"
      BY <2>2 DEF WInv, IInv, TextInv
    <3> QED
      BY <1>2, <1>3, <2>1, <2>2, <3>4, <3>5 DEF Reads, TextOf
  <2>3. CASE step = 2
    <3>1. TextOf(Live) = "bootstrap" /\ TextOf(Template) = "stock"
      BY <1>1, <1>4, <2>3 DEF WInv, IInv, TextInv
    <3>2. \A i \in Sectors : disc[i].text = "bootstrap" <=> i = Pos(tree[Live].ind)
      BY <1>1, <3>1 DEF TextOf
    <3>3. Locate(Live, "bootstrap") = {Pos(tree[Live].ind)}
      BY <1>1, <2>1, <3>2, LocateFinds
    <3> QED
      BY <1>2, <1>3, <2>1, <2>3, <3>1, <3>3 DEF Reads, TextOf
  <2>4. CASE step = 4
    <3>1. \A i \in Sectors : disc[i].text = "launcher" <=> i = Pos(tree[Launcher].ind)
      BY <1>1 DEF WInv, LauncherInv, TextOf
    <3>2. Locate(Launcher, "launcher") = {Pos(tree[Launcher].ind)}
      BY <1>1, <2>1, <3>1, LocateFinds
    <3> QED
      BY <1>3, <2>1, <2>4, <3>2
  <2> QED
    BY <1>3, <2>1, <2>2, <2>3, <2>4
<1> QED
  BY <1>5, <1>6

\* On a disc as the build expects it the finalize hook refuses nothing: the
\* template is found by its place, and is stock again when the live copy is
\* looked for by its text (host_finalizeImage.sh's order).
THEOREM Accepted == Spec => RegularDiscAccepted
<1>1. ASSUME WInv, [Next]_vars
      PROVE  [phase = "finalize" /\ Regular => phase' # "failed"]_vars
  <2> SUFFICES ASSUME Next, phase = "finalize", Regular
               PROVE  phase' # "failed"
    BY <1>1
  <2>1. Tool
    BY DEF Next, Guest, GuestMakesChoices, GuestCopiesTemplate, GuestWritesLauncher,
           GuestKeepsCopy, GuestMovesDir, GuestDropsCopy, PowerOff, Create
  <2>2. ~Refusal /\ ~(Scan /\ Refuses)
    BY <1>1, NoRefusal
  <2>3. CASE Open \/ Pop \/ ListFile \/ ListMissing \/ ListDir
    BY <2>3 DEF Open, OpenVolume, Pop, ListFile, ListMissing, ListDir, hook
  <2>4. CASE Cat \/ Patch \/ Scan
    BY <2>2, <2>4 DEF Cat, Patch, Scan, Succeeds, Ends
  <2> QED
    BY <2>1, <2>2, <2>3, <2>4 DEF Tool
<1> QED
  BY <1>1, WalkInductive, PTL DEF Spec, RegularDiscAccepted

=============================================================================
