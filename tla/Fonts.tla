------------------------------- MODULE Fonts -------------------------------
(***************************************************************************)
(* The font index: loaded from a clone of the font repository, directory   *)
(* by directory and family by family, while a pull changes the clone, and  *)
(* swapped in at once. Clients search the index and fetch files it lists.  *)
(***************************************************************************)
EXTENDS Integers, FiniteSets

CONSTANTS
  Families,     \* slugs
  Files,
  Dirs,         \* FONTS_LICENSE_DIRS are 1 .. Dirs, in their order
  Clients,
  MaxPulls,     \* bound of the model: changes of the clone
  MaxPanics     \* bound of the model: loads that panic

FontsAssumption == Dirs \in Nat \ {0} /\ MaxPulls \in Nat /\ MaxPanics \in Nat

VARIABLES
  tree,      \* of each family its directory, 0 for none, and files
  pulls, panics,
  touched,   \* history: the pull that changed a family last
  index,     \* the families of the index
  from,      \* history: the pulls before the load of the index began
  load,      \* the load under way: its directory, the entries left, what it found
  pc,        \* of each client: "idle", "lookup", "read"
  want,      \* the family and file it fetches, and of which index it has them
  status     \* the last answer: 200, 404, 0

vars == <<tree, pulls, panics, touched, index, from, load, pc, want, status>>
clone == <<tree, pulls, touched>>
clients == <<pc, want, status>>

Entry(f) == [slug |-> f, dir |-> tree[f].dir, files |-> tree[f].files]
Indexed == {Entry(f) : f \in {g \in Families : tree[g].dir # 0}}
Places == {[dir |-> 0, files |-> {}]} \cup [dir : 1 .. Dirs, files : (SUBSET Files) \ {{}}]
NoWant == [slug |-> "", dir |-> 0, file |-> "", at |-> 0]
NoLoad == [dir |-> 0, todo |-> {}, found |-> {}, from |-> 0]

\* main loads the index before it serves.
Init ==
  /\ tree \in [Families -> Places] /\ pulls = 0 /\ panics = 0
  /\ touched = [f \in Families |-> 0]
  /\ index = Indexed /\ from = 0 /\ load = NoLoad
  /\ pc = [c \in Clients |-> "idle"] /\ want = [c \in Clients |-> NoWant]
  /\ status = [c \in Clients |-> 0]

-----------------------------------------------------------------------------

\* A pull adds, moves, changes or removes a family.
Pull(f) ==
  /\ pulls < MaxPulls /\ pulls' = pulls + 1
  /\ \E p \in Places \ {tree[f]} : tree' = [tree EXCEPT ![f] = p]
  /\ touched' = [touched EXCEPT ![f] = pulls + 1]
  /\ UNCHANGED <<panics, index, from, load, clients>>

\* The interval is over.
LoadStart ==
  /\ load.dir = 0
  /\ load' = [dir |-> 1, todo |-> {f \in Families : tree[f].dir = 1}, found |-> {},
              from |-> pulls]
  /\ UNCHANGED <<clone, panics, index, from, clients>>

\* The rest of the directory is given up.
Skipped(f) == load' = [load EXCEPT !.todo = {}]

\* A family that is gone since the directory was listed is left out.
LeftOut(f) == load' = [load EXCEPT !.todo = @ \ {f}]

LoadFamily(f) ==
  /\ f \in load.todo
  /\ IF tree[f].dir = load.dir
     THEN load' = [load EXCEPT !.todo = @ \ {f}, !.found = @ \cup {Entry(f)}]
     ELSE LeftOut(f)
  /\ UNCHANGED <<clone, panics, index, from, clients>>

NextDir ==
  /\ load.dir \in 1 .. Dirs - 1 /\ load.todo = {}
  /\ load' = [load EXCEPT !.dir = @ + 1, !.todo = {f \in Families : tree[f].dir = load.dir + 1}]
  /\ UNCHANGED <<clone, panics, index, from, clients>>

Swap ==
  /\ load.dir = Dirs /\ load.todo = {}
  /\ index' = load.found /\ from' = load.from /\ load' = NoLoad
  /\ UNCHANGED <<clone, panics, clients>>

\* Err of spawn_blocking: the old index stays.
Panic ==
  /\ load.dir # 0 /\ panics < MaxPanics /\ panics' = panics + 1
  /\ load' = NoLoad
  /\ UNCHANGED <<clone, index, from, clients>>

\* fonts_search, font_family: the paths of a family's files.
Search(c) ==
  /\ pc[c] = "idle"
  /\ \E e \in index : \E x \in e.files :
       want' = [want EXCEPT ![c] = [slug |-> e.slug, dir |-> 0, file |-> x, at |-> from]]
  /\ pc' = [pc EXCEPT ![c] = "lookup"] /\ status' = [status EXCEPT ![c] = 0]
  /\ UNCHANGED <<clone, panics, index, from, load>>

\* The positions are those before the families were sorted.
FoundUnsorted(f) == {e \in index : Cardinality(index) = 1 \/ e.slug # f}

\* by_slug: of two entries with one slug the one whose name sorts last.
Found(f) == {e \in index : e.slug = f}

Done(c, answer) ==
  /\ pc' = [pc EXCEPT ![c] = "idle"] /\ want' = [want EXCEPT ![c] = NoWant]
  /\ status' = [status EXCEPT ![c] = answer]

\* font_file: only files that the index of now lists.
Lookup(c) ==
  LET entries == Found(want[c].slug) IN
  /\ pc[c] = "lookup"
  /\ \/ \E e \in entries :
          /\ want[c].file \in e.files /\ want' = [want EXCEPT ![c].dir = e.dir]
          /\ pc' = [pc EXCEPT ![c] = "read"] /\ UNCHANGED status
     \/ /\ entries = {} \/ \E e \in entries : want[c].file \notin e.files
        /\ Done(c, 404)
  /\ UNCHANGED <<clone, panics, index, from, load>>

Read(c) ==
  LET place == tree[want[c].slug] IN
  /\ pc[c] = "read"
  /\ Done(c, IF place.dir = want[c].dir /\ want[c].file \in place.files THEN 200 ELSE 404)
  /\ UNCHANGED <<clone, panics, index, from, load>>

Loads == LoadStart \/ NextDir \/ Swap \/ Panic \/ \E f \in Families : LoadFamily(f)

Next ==
  \/ \E f \in Families : Pull(f)
  \/ Loads
  \/ \E c \in Clients : Search(c) \/ Lookup(c) \/ Read(c)

Spec == Init /\ [][Next]_vars

\* The refresh worker sleeps, loads and sleeps again.
FairSpec == Spec /\ WF_vars(Loads)

-----------------------------------------------------------------------------

TypeOK ==
  /\ tree \in [Families -> Places] /\ load.dir \in 0 .. Dirs
  /\ \A e \in index \cup load.found : e.slug \in Families /\ e.dir \in 1 .. Dirs
  /\ status \in [Clients -> {0, 200, 404}]

(***************************************************************************)
(* A family that the pulls since the load of the index left alone is in    *)
(* the index, once and as it is, whatever happened to others while the     *)
(* clone was read (FontIndex::load).                                       *)
(***************************************************************************)
UntouchedIsListed ==
  \A f \in Families :
    touched[f] <= from => {e \in index : e.slug = f} = {e \in Indexed : e.slug = f}

(***************************************************************************)
(* A path that a search returned is served, unless a pull changed its      *)
(* family after the load that listed it began (fonts_search, font_file).   *)
(***************************************************************************)
ListedIsServed ==
  \A c \in Clients : pc[c] # "idle" /\ status'[c] = 404 /\ status[c] # 404 =>
    touched[want[c].slug] > want[c].at

(***************************************************************************)
(* When the clone stays as it is, the index comes to be what it holds,     *)
(* though loads panic and mixed old and new before (fonts_refresh_worker). *)
(***************************************************************************)
CatchesUp == <>[](index = Indexed)
=============================================================================
