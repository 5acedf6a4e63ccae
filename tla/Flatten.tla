------------------------------- MODULE Flatten -------------------------------
(***************************************************************************)
(* flatten.rs: the layers of an image, applied in order to one tree, and   *)
(* what the tree should be by the layer rules.                             *)
(*                                                                         *)
(* A path is a sequence of names.  A tree maps the paths it has to nodes:  *)
(* directories, files with the layer that wrote them, and links that lead  *)
(* to a directory outside the tree.  An entry of a layer has a path, a     *)
(* kind, a size and, for a hard link, the path it is to.  The path of a    *)
(* whiteout is the one it removes, that of an opaque marker the directory  *)
(* it is in.  Entries that sanitize rejects (absolute, or with ..) have    *)
(* the kind "unsafe"; device nodes and the like are "other".               *)
(***************************************************************************)
EXTENDS Naturals, Sequences, FiniteSetsExt

Dir == [kind |-> "dir", by |-> 0]
Node(kind, by) == [kind |-> kind, by |-> by]

EmptyTree == [p \in {<<>>} |-> Dir]

\* The paths on the way to p, p included; the directory p is in.
PathsTo(p) == {SubSeq(p, 1, n) : n \in 0..Len(p)}
Parent(p) == SubSeq(p, 1, Len(p) - 1)

Below(p, q) == q \in PathsTo(p) /\ p # q
Ancestors(p) == PathsTo(p) \ {p}

Without(t, gone) == Restrict(t, DOMAIN t \ gone)

\* (A wrong clear_dir, that removes the directory as well.)
ClearAll(t, p) == Without(t, {q \in DOMAIN t : q # <<>> /\ p \in PathsTo(q)})

\* remove_any and clear_dir.
RemoveAny(t, p) == Without(t, {q \in DOMAIN t : q = p \/ Below(q, p)})
ClearDir(t, p) == Without(t, {q \in DOMAIN t : Below(q, p)})

\* create_dir_all: the directories on the way to p, and p; what is a directory,
\* or a link to one, stays.  It fails on a file.
MakeDirs(t, p) == [q \in DOMAIN t \cup PathsTo(p) |-> IF q \in DOMAIN t THEN t[q] ELSE Dir]
DirsFit(t, p) == \A q \in PathsTo(p) \cap DOMAIN t : t[q].kind # "file"

\* within_root: no directory on the way to p is a link out of the tree.
WithinRoot(t, p) == \A q \in Ancestors(p) \cap DOMAIN t : t[q].kind # "link"

\* The parent's directories are made and what was at p removed; then p is node.
Cleared(t, p) == RemoveAny(MakeDirs(t, Parent(p)), p)
Put(t, p, node) == [q \in DOMAIN t \cup {p} |-> IF q = p THEN node ELSE t[q]]

\* The state of a flatten: the tree, the bytes written, and whether it failed.
Start == [tree |-> EmptyTree, written |-> 0, failed |-> FALSE]
Failed(s) == [s EXCEPT !.failed = TRUE]

\* extract of entry e of layer "by": max bounds the bytes of all files.
Extract(s, e, by, max) ==
  LET t == Cleared(s.tree, e.path)
  IN CASE e.kind = "other" \/ (e.kind = "hard" /\ ~WithinRoot(s.tree, e.to)) -> s
       [] ~DirsFit(s.tree, IF e.kind = "dir" THEN e.path ELSE Parent(e.path)) -> Failed(s)
       [] e.kind = "dir" -> [s EXCEPT !.tree = MakeDirs(@, e.path)]
       [] e.kind = "file" -> IF e.size > max - s.written THEN Failed(s)
                             ELSE [s EXCEPT !.tree = Put(t, e.path, Node("file", by)), !.written = @ + e.size]
       [] e.kind = "link" -> [s EXCEPT !.tree = Put(t, e.path, Node("link", by))]
       [] e.kind = "hard" -> [s EXCEPT !.tree = IF e.to \in DOMAIN t /\ t[e.to].kind # "dir"
                                                THEN Put(t, e.path, t[e.to]) ELSE t]

\* One entry of flatten_limited.  An opaque marker in a file's place fails.
Apply(s, e, by, max) ==
  CASE s.failed \/ e.kind = "unsafe" -> s
    [] ~WithinRoot(s.tree, IF e.kind = "opq" THEN Append(e.path, "_") ELSE e.path) -> s
    [] e.kind = "opq" -> IF e.path \in DOMAIN s.tree /\ s.tree[e.path].kind = "file" THEN Failed(s)
                         ELSE [s EXCEPT !.tree = ClearDir(@, e.path)]
    [] e.kind = "wh" -> [s EXCEPT !.tree = RemoveAny(@, e.path)]
    [] OTHER -> Extract(s, e, by, max)

\* The entries of one layer, the first of them first.  (The choice of one makes TLC evaluate acc once.)
FlattenLayer(s, entries, by, max) ==
  MapThenFoldSet(LAMBDA e, acc : CHOOSE r \in {Apply(a, e, by, max) : a \in {acc}} : TRUE, s,
                 LAMBDA i : entries[i], Max, DOMAIN entries)

-----------------------------------------------------------------------------
(***************************************************************************)
(* What the layers mean.  A layer adds the paths of its entries and the    *)
(* directories above them; a path is there when some layer adds it and no  *)
(* later one hides it, by a whiteout of it or of a directory above it, an  *)
(* opaque marker above it, or something else than a directory above it;    *)
(* and it is what the last such layer made of it.  A hard link is what the *)
(* layers up to its own make of the path it is to.                         *)
(***************************************************************************)
Leaves == {"file", "link", "hard"}

Added(layer) == {e \in Range(layer) : e.kind \in Leaves \cup {"dir"}}

Adds(layer, p) == \E e \in Added(layer) : p \in PathsTo(e.path)

Hides(layer, p) ==
  \E e \in Range(layer) :
    \/ e.kind = "wh" /\ e.path \in PathsTo(p)
    \/ e.kind \in Leaves \cup {"opq"} /\ Below(p, e.path)

\* The layers that add p for good; the last of them; and what it has at p.
Top(layers, p) ==
  {i \in DOMAIN layers : Adds(layers[i], p) /\ \A j \in i + 1..Len(layers) : ~Hides(layers[j], p)}
Topmost(layers, p) == CHOOSE i \in Top(layers, p) : \A j \in Top(layers, p) : j <= i
Own(layers, p) == {e \in Added(layers[Topmost(layers, p)]) : e.path = p /\ e.kind # "dir"}

\* The node at p, where p is no hard link; and where it may be one.
Made(layers, p) ==
  IF p = <<>> \/ Own(layers, p) = {} THEN Dir
  ELSE Node((CHOOSE e \in Own(layers, p) : TRUE).kind, Topmost(layers, p))
Resolved(layers, p) ==
  LET hard == IF p = <<>> THEN {} ELSE {e \in Own(layers, p) : e.kind = "hard"}
  IN IF hard = {} THEN Made(layers, p)
     ELSE Made(SubSeq(layers, 1, Topmost(layers, p)), (CHOOSE e \in hard : TRUE).to)

Overlay(layers) ==
  LET named == UNION {PathsTo(e.path) : e \in UNION {Added(layers[i]) : i \in DOMAIN layers}}
  IN [p \in {q \in named : Top(layers, q) # {}} \cup {<<>>} |-> Resolved(layers, p)]

\* An entry goes through a link out of the tree, or makes a directory of one.
Escapes(layers) ==
  \E i, j \in DOMAIN layers : i <= j /\ \E e \in Range(layers[i]), f \in Range(layers[j]) :
    /\ e.kind = "link"
    /\ \/ Below(f.path, e.path)
       \/ f.path = e.path /\ f.kind \in {"dir", "opq"}
       \/ f.kind = "hard" /\ Below(f.to, e.path)
=============================================================================
