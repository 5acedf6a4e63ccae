---------------------------- MODULE MCImageCache ----------------------------
(***************************************************************************)
(* Instances of ImageCache.  Tag tt moves from image A to image B, which   *)
(* share a layer; tu is a multi-platform index with A in it, tv one        *)
(* without an image for the guest, tx an image without layers; the tar has *)
(* an image of its own.  Tag tw is an image whose two layers are every     *)
(* combination of a few entries.                                           *)
(***************************************************************************)
EXTENDS ImageCache

CONSTANTS p1, p2, tt, tu, tv, tw, tx, tar, A, B, C, D, E, l1, l2, l3, l4, l5

MCServes ==
  LET arm(id) == <<[arch |-> "arm64", id |-> id]>>
      amd(id) == <<[arch |-> "amd64", id |-> id]>>
  IN [r \in {tt, tu, tv, tw, tx, tar} |->
        CASE r = tt -> <<arm(A), arm(B)>> [] r = tu -> <<amd(B) \o arm(A)>>
          [] r = tv -> <<amd(A)>> [] r = tw -> <<arm(D)>> [] r = tx -> <<arm(E)>> [] r = tar -> <<arm(C)>>]

MCLayersOf ==
  [id \in {A, B, C, D, E} |->
     CASE id = A -> <<l1>> [] id = B -> <<l1, l2>> [] id = C -> <<l3>> [] id = D -> <<l4, l5>>
       [] id = E -> <<>>]

Entry(kind, path, to) == [kind |-> kind, path |-> path, size |-> 1, to |-> to]
ab == <<"a", "b">>
a1 == <<"a">>
b1 == <<"b">>
Pool ==
  {Entry(k, ab, <<>>) : k \in {"dir", "file", "wh", "opq"}} \cup
  {Entry(k, a1, <<>>) : k \in {"dir", "file", "link", "wh", "opq"}} \cup
  {Entry("file", b1, <<>>), Entry("hard", b1, ab)}

\* The entries of a layer are of different paths, its markers first.
Fits(e, g) ==
  /\ g.kind \in {"wh", "opq"} => e.kind \in {"wh", "opq"}
  /\ e.path # g.path
  /\ e.kind \in {"file", "hard"} => ~Below(g.path, e.path)
  /\ g.kind \in Leaves => ~Below(e.path, g.path)
Short == {<<e>> : e \in Pool} \cup {<<e, g>> : e \in Pool, g \in Pool}
WellFormed(s) == Len(s) = 2 => Fits(s[1], s[2])

\* A hard link is to a file the image has.
LinksMet(lower, upper) ==
  \A s \in {lower, upper} : \A i \in DOMAIN s : s[i].kind = "hard" =>
    \E j \in DOMAIN lower : /\ lower[j].kind = "file" /\ lower[j].path = ab
                            /\ IF s = upper THEN Len(s) = 1 ELSE j < i

LowerLayers ==
  {s \in Short : WellFormed(s) /\ \A e \in Range(s) : e.kind \notin {"wh", "opq"}}
UpperLayers == {s \in Short : WellFormed(s)}

Plain ==
  [l \in {l1, l2, l3, l4, l5} |->
     CASE l = l1 -> <<Entry("dir", a1, <<>>), Entry("file", ab, <<>>)>>
       [] l = l2 -> <<Entry("unsafe", b1, <<>>), Entry("opq", a1, <<>>), Entry("other", ab, <<>>)>>
       [] OTHER -> <<Entry("file", b1, <<>>)>>]

Job(r, fresh) == [ref |-> r, refresh |-> fresh]
Ask(jp, jq, n) == [jobs |-> [x \in {p1, p2} |-> IF x = p1 THEN jp ELSE jq], entries |-> Plain, faults |-> n]

\* Two builds of the tag, one of them a pull; a tag and an index of one image;
\* a tag and a tar; two builds of an image without layers.
Meetings ==
  {Ask(Job(tt, FALSE), Job(tt, TRUE), 1), Ask(Job(tt, TRUE), Job(tu, FALSE), 0),
   Ask(Job(tu, FALSE), Job(tar, FALSE), 1), Ask(Job(tv, FALSE), Job(tar, FALSE), 1), Ask(Job(tar, TRUE), Job(tar, FALSE), 2),
   Ask(Job(tx, FALSE), Job(tx, TRUE), 1)}

\* One build of every two-layer image.
Contents ==
  {[jobs |-> [c \in {p1} |-> Job(tw, FALSE)], entries |-> [Plain EXCEPT ![l4] = x[1], ![l5] = x[2]], faults |-> 0] :
     x \in {y \in LowerLayers \X UpperLayers : LinksMet(y[1], y[2])}}

MCScenarios == Meetings \cup Contents
=============================================================================
