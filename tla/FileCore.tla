------------------------------ MODULE FileCore ------------------------------
(***************************************************************************)
(* files/rofilecore.py and the two hooks that patch the disc with it:      *)
(* host_prepareImage.sh puts the bootstrap into the TimeSetup template,    *)
(* the guest's first boot copies the template into Choices, and            *)
(* host_finalizeImage.sh puts the stock script back into both.             *)
(*                                                                         *)
(* The tool reads no allocation map: a file's address names a fragment,    *)
(* and where a fragment is has to be learnt from the directories in it.    *)
(* The guest's FileCore is external; it leaves the sectors of what it      *)
(* deletes or moves as they are, a moved directory's block included.       *)
(* A file or directory takes one sector here, and of its bytes only the    *)
(* text they begin with is kept; the hooks' texts fit their files.          *)
(***************************************************************************)
EXTENDS Integers, Sequences, FiniteSets

CONSTANTS
  Frags,      \* fragment ids
  FragSize,   \* bound: sectors in a fragment
  Base,       \* where each fragment is, which only the guest's map tells
  RootFrag,   \* the fragment of the root, !Boot and Apps
  Placings    \* where the published disc has RO530Hook, the template, a copy

ASSUME FragsAssumption ==
  /\ IsFiniteSet(Frags) /\ RootFrag \in Frags
  /\ FragSize \in Nat /\ FragSize >= 3
ASSUME BaseAssumption == Base \in [Frags -> Nat]

VARIABLES
  disc,     \* the sectors
  tree,     \* the guest's own idea of what is where: path to entry
  phase,    \* prepare, boot, finalize, done, failed
  step,     \* the hook's next command
  orig,     \* TimeSetup.orig
  open,     \* has the command a Volume open?
  cur,      \* _walk: the directory being listed, and the next entry
  stack,    \* _walk: directories to list
  seen,     \* _walk: addresses listed
  base,     \* Volume.frag_base
  paths     \* Volume.paths

volume == <<open, cur, stack, seen, base, paths>>
hook == <<phase, step, orig>>
vars == <<disc, tree, phase, step, orig, open, cur, stack, seen, base, paths>>

-----------------------------------------------------------------------------
(***************************************************************************)
(* The disc.                                                               *)
(***************************************************************************)
Addr == Frags \X (0 .. FragSize - 1)      \* indDiscAdd: fragment and sector
Pos(a) == Base[a[1]] + a[2]
Sectors == {Pos(a) : a \in Addr}

ASSUME PlacingsAssumption == Placings \subseteq Addr \X Addr \X Addr

\* No two fragments share a sector.
ASSUME DisjointAssumption == \A a, b \in Addr : Pos(a) = Pos(b) => a = b

Entry(name, isdir, ind) == [name |-> name, isdir |-> isdir, ind |-> ind]

\* A directory block carries its magic, its name and its parent's address.
Magic == "SBPr"
Block(name, parent, ents) ==
  [text |-> Magic, name |-> name, parent |-> parent, ents |-> ents]
Data(text) == [text |-> text, name |-> "", parent |-> <<>>, ents |-> <<>>]

Root == <<"$">>
Boot == <<"$", "!Boot">>
Apps == <<"$", "Apps">>
Hook == <<"$", "!Boot", "RO530Hook">>     \* its Boot.Tasks, in one directory
Choices == <<"$", "!Boot", "Choices">>
Template == Append(Hook, "TimeSetup")
Live == Append(Choices, "TimeSetup")
Launcher == Append(Choices, "AnyVM")
Copy == Append(Apps, "TimeSetup")         \* another file with the same text

\* The published disc: the directories in their places, the template and a
\* stock copy of it anywhere.
StockTree(hk, tm, cp) ==
  [p \in {Root, Boot, Apps, Hook, Template, Copy} |->
     CASE p = Root -> Entry("$", TRUE, <<RootFrag, 0>>)
       [] p = Boot -> Entry("!Boot", TRUE, <<RootFrag, 1>>)
       [] p = Apps -> Entry("Apps", TRUE, <<RootFrag, 2>>)
       [] p = Hook -> Entry("RO530Hook", TRUE, hk)
       [] p = Template -> Entry("TimeSetup", FALSE, tm)
       [] p = Copy -> Entry("TimeSetup", FALSE, cp)]

StockDisc(t) ==
  LET cell(p) ==
        CASE p = Root -> Block("$", t[Root].ind, <<t[Boot], t[Apps]>>)
          [] p = Boot -> Block("!Boot", t[Root].ind, <<t[Hook]>>)
          [] p = Apps -> Block("Apps", t[Root].ind, <<t[Copy]>>)
          [] p = Hook -> Block("RO530Hook", t[Boot].ind, <<t[Template]>>)
          [] OTHER -> Data("stock")
  IN [i \in Sectors |->
       IF \E p \in DOMAIN t : Pos(t[p].ind) = i
         THEN cell(CHOOSE p \in DOMAIN t : Pos(t[p].ind) = i)
         ELSE Data("")]

Closed == [blk |-> 0, addr |-> <<>>, path |-> <<>>, k |-> 1]

Init ==
  /\ \E place \in Placings :
       LET t == StockTree(place[1], place[2], place[3])
       IN /\ \A p, q \in DOMAIN t : p # q => Pos(t[p].ind) # Pos(t[q].ind)
          /\ tree = t
          /\ disc = StockDisc(t)
  /\ phase = "prepare" /\ step = 1 /\ orig = ""
  /\ open = FALSE
  /\ cur = Closed
  /\ stack = <<>> /\ seen = {} /\ base = <<>> /\ paths = <<>>

-----------------------------------------------------------------------------
(***************************************************************************)
(* Volume: the directory blocks of the disc, the root among them, and the  *)
(* walk that pairs addresses with sectors.                                 *)
(***************************************************************************)
First(i, S) == i \in S /\ \A j \in S : i <= j
Put(f, x, v) == [y \in DOMAIN f \cup {x} |-> IF y = x THEN v ELSE f[y]]

\* _parse_at: the magic at a sector's start, and at least one entry.
Blocks == {i \in Sectors : disc[i].text = Magic /\ Len(disc[i].ents) > 0}

\* kids: the first block on the disc that has this parent and this name.
Kids(addr, name) == {c \in Blocks : disc[c].parent = addr /\ disc[c].name = name}

Names(i) == {disc[i].ents[k].name : k \in 1 .. Len(disc[i].ents)}
RootCandidates == {i \in Blocks : disc[i].name = "$" /\ {"!Boot", "Apps"} \subseteq Names(i)}

\* _find_root: the one with the most entries, the first of them.
IsRoot(r) ==
  First(r, {i \in RootCandidates :
              \A j \in RootCandidates : Len(disc[j].ents) <= Len(disc[i].ents)})

\* Mutant: the sector within the fragment is forgotten.
NoteForgetsSector(b, ind, off) == IF ind[1] \in DOMAIN b THEN b ELSE Put(b, ind[1], off)

\* _note: setdefault.
Note(b, ind, off) == IF ind[1] \in DOMAIN b THEN b ELSE Put(b, ind[1], off - ind[2])

Listing == cur # Closed /\ cur.k <= Len(disc[cur.blk].ents)
Current == disc[cur.blk].ents[cur.k]
CurrentPath == Append(cur.path, Current.name)

\* Volume(path): the root is noted and pushed.
OpenVolume ==
  /\ ~open
  /\ \E r \in RootCandidates :
       /\ IsRoot(r)
       /\ base' = Note(<<>>, disc[r].parent, r)
       /\ stack' = << [blk |-> r, addr |-> disc[r].parent, path |-> Root, k |-> 1] >>
  /\ open' = TRUE
  /\ cur' = Closed
  /\ seen' = {} /\ paths' = <<>>
  /\ UNCHANGED <<disc, tree, phase, step, orig>>

Top == stack[Len(stack)]
Rest == SubSeq(stack, 1, Len(stack) - 1)

\* An address is listed once, whatever the blocks say.
Pop ==
  /\ open /\ ~Listing /\ stack # <<>>
  /\ stack' = Rest
  /\ seen' = seen \cup {Top.addr}
  /\ cur' = IF Top.addr \in seen THEN Closed ELSE Top
  /\ UNCHANGED <<disc, tree, hook, open, base, paths>>

ListFile ==
  /\ open /\ Listing
  /\ ~Current.isdir
  /\ paths' = Put(paths, CurrentPath, Current)
  /\ cur' = [cur EXCEPT !.k = @ + 1]
  /\ UNCHANGED <<disc, tree, hook, open, stack, seen, base>>

\* A directory without a block of its own, an empty one for instance.
ListMissing ==
  /\ open /\ Listing
  /\ Current.isdir /\ Kids(cur.addr, Current.name) = {}
  /\ cur' = [cur EXCEPT !.k = @ + 1]
  /\ UNCHANGED <<disc, tree, hook, open, stack, seen, base, paths>>

\* Mutant: a child is listed under the address of its parent.
KidUnderParent ==
  /\ open /\ Listing
  /\ Current.isdir
  /\ \E c \in Kids(cur.addr, Current.name) :
       /\ First(c, Kids(cur.addr, Current.name))
       /\ base' = Note(base, Current.ind, c)
       /\ stack' = Append(stack, [blk |-> c, addr |-> cur.addr,
                                  path |-> CurrentPath, k |-> 1])
  /\ paths' = Put(paths, CurrentPath, Current)
  /\ cur' = [cur EXCEPT !.k = @ + 1]
  /\ UNCHANGED <<disc, tree, hook, open, seen>>

ListDir ==
  /\ open /\ Listing
  /\ Current.isdir
  /\ \E c \in Kids(cur.addr, Current.name) :
       /\ First(c, Kids(cur.addr, Current.name))
       /\ base' = Note(base, Current.ind, c)
       /\ stack' = Append(stack, [blk |-> c, addr |-> Current.ind,
                                  path |-> CurrentPath, k |-> 1])
  /\ paths' = Put(paths, CurrentPath, Current)
  /\ cur' = [cur EXCEPT !.k = @ + 1]
  /\ UNCHANGED <<disc, tree, hook, open, seen>>

Walked == open /\ ~Listing /\ stack = <<>>

-----------------------------------------------------------------------------
(***************************************************************************)
(* The commands, in the order the hooks give them.  A hook runs under      *)
(* set -e: the first refusal fails the build.                              *)
(***************************************************************************)
Command(op, path, prefix) == [op |-> op, path |-> path, prefix |-> prefix]

Prepare ==
  << Command("cat", Template, "stock"),
     Command("patch", Template, "stock"),
     Command("cat", Template, "bootstrap") >>

\* Mutant: the live copy first.
FinalizeLiveFirst ==
  << Command("patch", Live, "bootstrap"),
     Command("patch", Template, "bootstrap"),
     Command("grep", <<>>, "bootstrap"),
     Command("cat", Launcher, "launcher") >>

Finalize ==
  << Command("patch", Template, "bootstrap"),
     Command("patch", Live, "bootstrap"),
     Command("grep", <<>>, "bootstrap"),
     Command("cat", Launcher, "launcher") >>

Script == IF phase = "prepare" THEN Prepare ELSE Finalize
InHook == phase \in {"prepare", "finalize"}
Cmd == Script[step]

Reads(i) == IF i \in Sectors THEN disc[i].text ELSE ""

\* Mutant: the first hit is as good as any.
LocateFirst(path, prefix) ==
  IF path \notin DOMAIN paths \/ paths[path].isdir THEN {}
  ELSE IF paths[path].ind[1] \in DOMAIN base
    THEN {base[paths[path].ind[1]] + paths[path].ind[2]}
    ELSE LET hits == {i \in Sectors : disc[i].text = prefix}
         IN {i \in hits : First(i, hits)}

\* locate(): the calibrated place, else the only sector with this prefix;
\* the empty set is a refusal.
Locate(path, prefix) ==
  IF path \notin DOMAIN paths \/ paths[path].isdir THEN {}
  ELSE IF paths[path].ind[1] \in DOMAIN base
    THEN {base[paths[path].ind[1]] + paths[path].ind[2]}
    ELSE LET hits == {i \in Sectors : disc[i].text = prefix}
         IN IF Cardinality(hits) = 1 THEN hits ELSE {}

Ends(next) ==
  /\ open' = FALSE
  /\ cur' = Closed
  /\ stack' = <<>> /\ seen' = {} /\ base' = <<>> /\ paths' = <<>>
  /\ phase' = next
  /\ UNCHANGED tree

\* Mutant: the next hook goes on where this one ended.
SucceedsWithoutReset ==
  IF step < Len(Script)
    THEN Ends(phase) /\ step' = step + 1
    ELSE Ends(IF phase = "prepare" THEN "boot" ELSE "done") /\ step' = step + 1

Succeeds ==
  IF step < Len(Script)
    THEN Ends(phase) /\ step' = step + 1
    ELSE Ends(IF phase = "prepare" THEN "boot" ELSE "done") /\ step' = 1

Refuses == Ends("failed") /\ UNCHANGED <<disc, step, orig>>

\* cat: what was located is printed, whatever it begins with.
Cat ==
  /\ InHook /\ Walked /\ Cmd.op = "cat"
  /\ \E off \in Locate(Cmd.path, Cmd.prefix) :
       orig' = IF phase = "prepare" /\ step = 1 THEN Reads(off) ELSE orig
  /\ Succeeds
  /\ UNCHANGED disc

\* patch: the text there must begin with the prefix; the new one is padded
\* to the length of the old one.
Patch ==
  /\ InHook /\ Walked /\ Cmd.op = "patch"
  /\ \E off \in Locate(Cmd.path, Cmd.prefix) \cap Sectors :
       /\ disc[off].text = Cmd.prefix
       /\ disc' = [disc EXCEPT ![off] = Data(IF phase = "prepare" THEN "bootstrap" ELSE orig)]
  /\ Succeeds
  /\ UNCHANGED orig

\* No object, a directory, no or several hits, or another text.  That
\* there is no root directory does not happen here.
Refusal ==
  /\ InHook
  /\ \/ /\ Walked /\ Locate(Cmd.path, Cmd.prefix) = {}
     \/ /\ Walked /\ Cmd.op = "patch"
        /\ \E off \in Locate(Cmd.path, Cmd.prefix) : Reads(off) # Cmd.prefix
  /\ Refuses

\* Mutant: the scan is forgotten.
NoScan ==
  /\ InHook /\ ~open /\ Cmd.op = "grep"
  /\ Succeeds
  /\ UNCHANGED <<disc, orig>>

\* The scan of the whole device for the bootstrap.
Scan ==
  /\ InHook /\ ~open /\ Cmd.op = "grep"
  /\ IF \E i \in Sectors : disc[i].text = "bootstrap"
       THEN Refuses
       ELSE Succeeds /\ UNCHANGED <<disc, orig>>

Open == InHook /\ Cmd.op # "grep" /\ OpenVolume

Tool ==
  \/ Open \/ Pop \/ ListFile \/ ListMissing \/ ListDir
  \/ Cat \/ Patch \/ Refusal \/ Scan

-----------------------------------------------------------------------------
(***************************************************************************)
(* The guest, between the two hooks.                                       *)
(***************************************************************************)
Free(a) == \A q \in DOMAIN tree : Pos(tree[q].ind) # Pos(a)

\* A new object of a directory, in any free sector.
Create(dir, name, isdir, a, cell) ==
  /\ phase = "boot"
  /\ dir \in DOMAIN tree /\ Append(dir, name) \notin DOMAIN tree
  /\ Free(a)
  /\ tree' = Put(tree, Append(dir, name), Entry(name, isdir, a))
  /\ disc' = [disc EXCEPT ![Pos(tree[dir].ind)].ents = Append(@, Entry(name, isdir, a)),
                          ![Pos(a)] = cell]
  /\ UNCHANGED <<hook, volume>>

TextOf(p) == disc[Pos(tree[p].ind)].text

\* The first boot copies RO530Hook into Choices.
GuestMakesChoices(a) ==
  Create(Boot, "Choices", TRUE, a, Block("Choices", tree[Boot].ind, <<>>))
GuestCopiesTemplate(a) == Create(Choices, "TimeSetup", FALSE, a, Data(TextOf(Template)))
GuestWritesLauncher(a) == Create(Choices, "AnyVM", FALSE, a, Data("launcher"))

\* Something in the guest keeps a copy of the script, or drops it.
GuestKeepsCopy(a) == Create(Apps, "TimeSetup", FALSE, a, Data(TextOf(Template)))

GuestDropsCopy ==
  /\ phase = "boot"
  /\ Copy \in DOMAIN tree
  /\ tree' = [p \in DOMAIN tree \ {Copy} |-> tree[p]]
  /\ disc' = [disc EXCEPT ![Pos(tree[Apps].ind)].ents = <<>>]
  /\ UNCHANGED <<hook, volume>>

\* A directory that outgrows its block is written elsewhere.  Bound: not again
\* while the old block is there.
GuestMovesDir(p, a) ==
  /\ phase = "boot"
  /\ p \in DOMAIN tree /\ Cardinality(Kids(tree[Boot].ind, tree[p].name)) = 1
  /\ Free(a)
  /\ tree' = [tree EXCEPT ![p].ind = a]
  /\ LET up == Pos(tree[Boot].ind)
         ents == [k \in 1 .. Len(disc[up].ents) |->
                    IF disc[up].ents[k].ind = tree[p].ind
                      THEN [disc[up].ents[k] EXCEPT !.ind = a] ELSE disc[up].ents[k]]
     IN disc' = [disc EXCEPT ![up].ents = ents, ![Pos(a)] = disc[Pos(tree[p].ind)]]
  /\ UNCHANGED <<hook, volume>>

PowerOff ==
  /\ phase = "boot"
  /\ phase' = "finalize"
  /\ UNCHANGED <<disc, tree, step, orig, volume>>

Guest ==
  \/ \E a \in Addr :
       \/ GuestMakesChoices(a) \/ GuestCopiesTemplate(a)
       \/ GuestWritesLauncher(a) \/ GuestKeepsCopy(a)
       \/ GuestMovesDir(Choices, a) \/ GuestMovesDir(Hook, a)
  \/ GuestDropsCopy
  \/ PowerOff

Next == Tool \/ Guest

Spec == Init /\ [][Next]_vars

-----------------------------------------------------------------------------
(***************************************************************************)
(* Properties.                                                             *)
(***************************************************************************)
Texts == {"", "stock", "bootstrap", "launcher"}
ObjNames == {"$", "!Boot", "Apps", "RO530Hook", "Choices", "TimeSetup", "AnyVM"}
Entries == [name : ObjNames, isdir : BOOLEAN, ind : Addr]

\* Types: an address, a sector or a path is one wherever it is kept.
TypeOK ==
  /\ \A i \in Sectors :
       /\ disc[i].text \in Texts \cup {Magic}
       /\ disc[i].parent \in Addr \cup {<<>>}
       /\ \A k \in 1 .. Len(disc[i].ents) : disc[i].ents[k] \in Entries
  /\ \A p \in DOMAIN tree : tree[p] \in Entries
  /\ phase \in {"prepare", "boot", "finalize", "done", "failed"}
  /\ step \in 1 .. 4
  /\ orig \in Texts
  /\ open \in BOOLEAN
  /\ cur = Closed \/ (cur.blk \in Blocks /\ cur.addr \in Addr)
  /\ seen \subseteq Addr
  /\ DOMAIN base \subseteq Frags
  /\ \A f \in DOMAIN base : base[f] \in Int
  /\ \A p \in DOMAIN paths : paths[p] \in Entries

\* No block is left on the disc that a directory's entry could be taken for:
\* one with the entry's name and the directory's address, elsewhere.
Paired ==
  /\ \A r \in RootCandidates : disc[r].parent \in Addr /\ Pos(disc[r].parent) = r
  /\ \A a \in Addr : Pos(a) \in Blocks =>
       \A k \in 1 .. Len(disc[Pos(a)].ents) :
         LET e == disc[Pos(a)].ents[k]
         IN e.isdir => \A c \in Kids(a, e.name) : c = Pos(e.ind)

\* Calibration (_walk, _note): what the tool takes for a fragment's place is
\* its place, unless a moved directory's old block is still there.
OffsetsTrue == Paired => \A f \in DOMAIN base : base[f] = Base[f]

Empty(p) == tree[p].isdir /\ disc[Pos(tree[p].ind)].ents = <<>>

\* Completeness (_walk): a finished walk has every object of the live tree but
\* the empty directories, at the address the guest has it, and no other.
WalkFindsAll ==
  Walked /\ Paired =>
    /\ DOMAIN paths = {p \in DOMAIN tree : p # Root /\ ~Empty(p)}
    /\ \A p \in DOMAIN paths : paths[p] = tree[p]

\* locate(), patch_in_place(): a patch changes the file it names and no other
\* sector, however many copies of its text there are.
PatchHitsNamed ==
  [][InHook /\ Paired => \A i \in Sectors :
       disc'[i] # disc[i] => i = Pos(tree[Cmd.path].ind)]_vars

\* The hooks together: once the last one ends well, the template and its live
\* copy are the stock script and no sector of the disc has the bootstrap, be
\* it a freed one, whatever blocks and copies the guest has left.
SealedWhenDone ==
  phase = "done" =>
    /\ TextOf(Template) = "stock" /\ TextOf(Live) = "stock"
    /\ \A i \in Sectors : disc[i].text # "bootstrap"

\* A disc as the build expects it: the agent is installed, the template's
\* fragment has a directory, and only the two scripts hold the bootstrap.
Regular ==
  /\ Paired
  /\ {Live, Launcher} \subseteq DOMAIN tree
  /\ \E p \in DOMAIN tree :
       tree[p].isdir /\ ~Empty(p) /\ tree[p].ind[1] = tree[Template].ind[1]
  /\ \A i \in Sectors : disc[i].text = "bootstrap" =>
       i \in {Pos(tree[Template].ind), Pos(tree[Live].ind)}

\* host_finalizeImage.sh's order: the template by its place first, so that
\* the live copy is the only one left to find by content.  On a regular disc
\* nothing is refused.
RegularDiscAccepted == [][phase = "finalize" /\ Regular => phase' # "failed"]_vars

=============================================================================
