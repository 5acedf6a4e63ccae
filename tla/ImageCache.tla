----------------------------- MODULE ImageCache -----------------------------
(***************************************************************************)
(* The image cache (amber-image): processes that each turn a reference     *)
(* into a packed base, through a directory they share, and that can be     *)
(* killed at any point.  A registry reference is a tag that may move from  *)
(* one image to another; a local one names a `docker save` tar.            *)
(*                                                                         *)
(* Files are shared by name and by open handle: a layer has inodes, whose  *)
(* content is the set of its chunks that are there, and up to two names,   *)
(* the partial download and the cached blob.  What is written to files of  *)
(* one process only (its rootfs, its temporaries) is part of the step that *)
(* makes the result visible.                                               *)
(***************************************************************************)
EXTENDS Naturals, Sequences, Flatten

CONSTANTS
  Procs,        \* processes: amber run, amber pull, the daemon's workers
  Tags, Tars,   \* references: of a registry, and of local files
  Ids,          \* images, by config digest
  Serves,       \* Serves[r]: the indexes a reference names, one after the other
  LayersOf,     \* LayersOf[id]: the layers of an image, in order
  Scenarios,    \* what each process is asked and what the layers hold
  Chunks,       \* chunks of a layer
  MaxBytes,     \* MAX_TOTAL_BYTES
  None

Refs == Tags \cup Tars
Layers == UNION {Range(LayersOf[id]) : id \in Ids}
Inodes == 0..3
Kinds == {"dir", "file", "link", "hard", "wh", "opq", "unsafe", "other"}

ASSUME CacheAssumption ==
  /\ Chunks \in Nat \ {0} /\ MaxBytes \in Nat
  /\ \A r \in Refs : Len(Serves[r]) \in Nat \ {0} /\ DOMAIN Serves[r] = 1..Len(Serves[r])
  /\ \A r \in Tars : Len(Serves[r]) = 1
  /\ \A id \in Ids : LayersOf[id] \in Seq(Layers)
  /\ \A s \in Scenarios : /\ s.faults \in Nat
                          /\ DOMAIN s.jobs \subseteq Procs
                          /\ \A p \in DOMAIN s.jobs : s.jobs[p] \in [ref : Refs, refresh : BOOLEAN]
                          /\ \A l \in Layers : \A e \in Range(s.entries[l]) : e.kind \in Kinds

VARIABLES
  world,     \* the scenario
  moved,     \* moved[r]: which index of Serves[r] the reference names now
  refs,      \* refs.json
  data,      \* data[l][n]: the chunks of inode n of layer l
  partial,   \* partial[l]: the inode called <hex>.partial, or 0
  blob,      \* blob[l]: the inode called <hex>, or 0
  base,      \* base[id]: the tree in <id>.sqfs, if there is one: a set
  cfg,       \* cfg[id]: <id>.json is absent, cut short or whole
  proc,      \* the processes
  faults,    \* faults that may still happen
  met        \* history: two builds have worked on one layer at the same time

vars == <<world, moved, refs, data, partial, blob, base, cfg, proc, faults, met>>
blobs == <<data, partial, blob>>
built == <<base, cfg>>
outside == <<world, moved, faults, met>>

\* No answer yet.
Nothing == [base |-> {}, config |-> "absent"]

\* A call of build that has not begun, at the index its reference then named.
Called(at) ==
  [pc |-> "begin", since |-> at, id |-> None, snap |-> None, k |-> 1, fd |-> 0, off |-> 0,
   work |-> Start, got |-> Nothing]

Init ==
  /\ world \in Scenarios
  /\ moved = [r \in Refs |-> 1]
  /\ refs = [r \in Refs |-> None]
  /\ data = [l \in Layers |-> [n \in Inodes |-> {}]]
  /\ partial = [l \in Layers |-> 0] /\ blob = [l \in Layers |-> 0]
  /\ base = [id \in Ids |-> {}] /\ cfg = [id \in Ids |-> "absent"]
  /\ proc = [p \in DOMAIN world.jobs |-> Called(1)]
  /\ faults = world.faults /\ met = FALSE

Callers == DOMAIN world.jobs
Ref(p) == world.jobs[p].ref
Refresh(p) == world.jobs[p].refresh
Local(p) == Ref(p) \in Tars
Layer(p) == LayersOf[proc[p].id][proc[p].k]
At(p, pc) == p \in Callers /\ proc[p].pc = pc

Goes(p, pc) == proc' = [proc EXCEPT ![p].pc = pc]

\* pick_arm64: the first image of an index for the guest's platform.  A plain
\* manifest is an index of one.
PickArm64(index) ==
  LET fit == SelectSeq(index, LAMBDA m : m.arch = "arm64")
  IN IF fit = <<>> THEN None ELSE Head(fit).id
Named(r, i) == PickArm64(Serves[r][i])

\* read_save_manifest: the image in a tar.
TarImage(r) == Named(r, 1)

\* An index names images or has none for the guest; a tar without one is refused.
ASSUME NamedAssumption ==
  /\ \A r \in Refs : \A i \in DOMAIN Serves[r] : Named(r, i) \in Ids \cup {None}
  /\ \A r \in Tars : TarImage(r) \in Ids
  /\ None \notin Ids

\* load_built: the base is there, and the config is there and parses.
Loads(id) == id # None /\ base[id] # {} /\ cfg[id] = "whole"
Built(id) == [base |-> base[id], config |-> cfg[id]]

\* Build fails for good, or returns.
Fails(p) == Goes(p, "failed")
Returns(p, id) == proc' = [proc EXCEPT ![p].pc = "done", ![p].id = id, ![p].got = Built(id)]

-----------------------------------------------------------------------------
(***************************************************************************)
(* What the reference names.                                               *)
(***************************************************************************)

\* (A wrong fast path, taken by a pull too.)
OfflineAlways(p) == Loads(refs[Ref(p)])

\* The way without the registry: a known id, and not asked to refresh.
Offline(p) == ~Refresh(p) /\ Loads(refs[Ref(p)])

Begin(p) ==
  /\ At(p, "begin") /\ ~Local(p)
  /\ IF Offline(p) THEN Returns(p, refs[Ref(p)]) ELSE Goes(p, "resolve")
  /\ UNCHANGED <<outside, refs, blobs, built>>

\* fetch_manifest.
Resolve(p) ==
  /\ At(p, "resolve")
  /\ LET id == Named(Ref(p), moved[Ref(p)])
     IN IF id = None THEN Fails(p)
        ELSE proc' = [proc EXCEPT ![p].pc = "refread", ![p].id = id]
  /\ UNCHANGED <<outside, refs, blobs, built>>

\* build_local: the image is the one in the tar.
BeginLocal(p) ==
  /\ At(p, "begin") /\ Local(p)
  /\ LET id == TarImage(Ref(p))
     IN IF Loads(id) THEN proc' = [proc EXCEPT ![p].pc = "refread", ![p].id = id, ![p].got = Built(id)]
        ELSE proc' = [proc EXCEPT ![p].pc = "miss", ![p].id = id]
  /\ UNCHANGED <<outside, refs, blobs, built>>

\* ref_store: the whole map is read, and then replaced.
RefRead(p) ==
  /\ At(p, "refread")
  /\ proc' = [proc EXCEPT ![p].pc = "refwrite", ![p].snap = refs]
  /\ UNCHANGED <<outside, refs, blobs, built>>

RefWrite(p) ==
  /\ At(p, "refwrite")
  /\ refs' = [proc[p].snap EXCEPT ![Ref(p)] = proc[p].id]
  /\ proc' = [proc EXCEPT ![p].pc = IF Local(p) THEN "done" ELSE "load", ![p].snap = None]
  /\ UNCHANGED <<outside, blobs, built>>

Load(p) ==
  /\ At(p, "load")
  /\ IF Loads(proc[p].id) THEN Returns(p, proc[p].id) ELSE Goes(p, "miss")
  /\ UNCHANGED <<outside, refs, blobs, built>>

-----------------------------------------------------------------------------
(***************************************************************************)
(* The layers.                                                             *)
(***************************************************************************)
Building(p) == proc[p].pc \in {"fetch", "write", "flatten"}

\* The config is fetched and its digest checked, before the layers.  Nothing
\* keeps builds that share a layer apart; met records that they have met.  An
\* image may have no layers.
Miss(p) ==
  /\ At(p, "miss")
  /\ Goes(p, IF LayersOf[proc[p].id] = <<>> THEN "pack" ELSE "fetch")
  /\ met' = (met \/ \E q \in Callers : Building(q) /\ Range(LayersOf[proc[q].id]) \cap Range(LayersOf[proc[p].id]) # {})
  /\ UNCHANGED <<world, moved, faults, refs, blobs, built>>

\* The next layer, or the first of what comes after the last.
NextLayer(p) ==
  proc' = [proc EXCEPT ![p].fd = 0, ![p].off = 0,
             ![p].k = IF @ < Len(LayersOf[proc[p].id]) THEN @ + 1 ELSE 1,
             ![p].pc = IF proc[p].k < Len(LayersOf[proc[p].id]) THEN "fetch" ELSE "flatten"]

\* An inode of layer l without a name that no process has open.
Fresh(l) ==
  CHOOSE n \in Inodes \ {0} :
    n \notin {partial[l], blob[l]} \cup {proc[q].fd : q \in {r \in Callers : Building(r) /\ Layer(r) = l}}

\* File::create: the file of that name cut to nothing, or a new one.
Create(p, name) ==
  LET l == Layer(p)
      n == IF name[l] # 0 THEN name[l] ELSE Fresh(l)
  IN /\ data' = [data EXCEPT ![l][n] = {}]
     /\ proc' = [proc EXCEPT ![p].pc = "write", ![p].fd = n]

Rebind(name, l, n) == [name EXCEPT ![l] = n]

\* fetch_blob: a cached blob is taken as it is.
FetchHit(p) ==
  /\ At(p, "fetch") /\ ~Local(p) /\ blob[Layer(p)] # 0
  /\ NextLayer(p)
  /\ UNCHANGED <<outside, refs, blobs, built>>

\* (A wrong fetch, with File::create_new: what a killed one left is in the way.)
FetchBlobNew(p) ==
  /\ At(p, "fetch") /\ ~Local(p) /\ blob[Layer(p)] = 0 /\ partial[Layer(p)] = 0
  /\ Create(p, partial)
  /\ partial' = Rebind(partial, Layer(p), proc'[p].fd)
  /\ UNCHANGED <<outside, refs, blob, built>>

FetchBlob(p) ==
  /\ At(p, "fetch") /\ ~Local(p) /\ blob[Layer(p)] = 0
  /\ Create(p, partial)
  /\ partial' = Rebind(partial, Layer(p), proc'[p].fd)
  /\ UNCHANGED <<outside, refs, blob, built>>

\* extract_members writes the blob in place.
ExtractMember(p) ==
  /\ At(p, "fetch") /\ Local(p)
  /\ Create(p, blob)
  /\ blob' = Rebind(blob, Layer(p), proc'[p].fd)
  /\ UNCHANGED <<outside, refs, partial, built>>

WriteChunk(p) ==
  /\ At(p, "write") /\ proc[p].off < Chunks
  /\ data' = [data EXCEPT ![Layer(p)][proc[p].fd] = @ \cup {proc[p].off + 1}]
  /\ proc' = [proc EXCEPT ![p].off = @ + 1]
  /\ UNCHANGED <<outside, refs, partial, blob, built>>

\* (A wrong end of the body: a short read.)
AtEndShort(p) == proc[p].off >= Chunks - 1

\* The body has been read to its end.
AtEnd(p) == proc[p].off = Chunks

ExtractedMember(p) ==
  /\ At(p, "write") /\ Local(p) /\ AtEnd(p)
  /\ NextLayer(p)
  /\ UNCHANGED <<outside, refs, blobs, built>>

\* The digest is that of the bytes received; the rename takes the file that
\* then has the temporary name.
Publish(p) ==
  /\ At(p, "write") /\ ~Local(p) /\ AtEnd(p)
  /\ LET l == Layer(p)
     IN IF partial[l] = 0 THEN proc' = [proc EXCEPT ![p] = Called(moved[Ref(p)])] /\ UNCHANGED <<partial, blob>>
        ELSE NextLayer(p) /\ blob' = Rebind(blob, l, partial[l]) /\ partial' = Rebind(partial, l, 0)
  /\ UNCHANGED <<outside, refs, data, built>>

-----------------------------------------------------------------------------
(***************************************************************************)
(* The base.                                                               *)
(***************************************************************************)

\* What the reader makes of a layer's file.  With its first chunk gone it has
\* no gzip header, and reads as a tar without entries; cut short it fails.
Readable(l) == 1 \in data[l][blob[l]] => data[l][blob[l]] = 1..Chunks
Content(l) == IF data[l][blob[l]] = 1..Chunks THEN world.entries[l] ELSE <<>>

FlattenOne(p) ==
  /\ At(p, "flatten")
  /\ LET b == proc[p]
         last == b.k = Len(LayersOf[b.id])
     IN IF ~Readable(Layer(p)) THEN Fails(p)
        ELSE \E s \in {FlattenLayer(b.work, Content(Layer(p)), b.k, MaxBytes)} :
               proc' = [proc EXCEPT ![p].work = s, ![p].k = IF last THEN 1 ELSE @ + 1,
                          ![p].pc = CASE s.failed -> "failed" [] last -> "pack" [] OTHER -> "flatten"]
  /\ UNCHANGED <<outside, refs, blobs, built>>

\* pack_squashfs to a temporary of this process, renamed into place.
Pack(p) ==
  /\ At(p, "pack")
  /\ base' = [base EXCEPT ![proc[p].id] = {proc[p].work.tree}]
  /\ proc' = [proc EXCEPT ![p].pc = "config", ![p].work = Start]
  /\ UNCHANGED <<outside, refs, blobs, cfg>>

\* fs::write of the config, in place: cut to nothing, then written.
ConfigOpen(p) ==
  /\ At(p, "config")
  /\ cfg' = [cfg EXCEPT ![proc[p].id] = "cut"]
  /\ Goes(p, "cfgwrite")
  /\ UNCHANGED <<outside, refs, blobs, base>>

ConfigWrite(p) ==
  /\ At(p, "cfgwrite")
  /\ LET id == proc[p].id
     IN /\ cfg' = [cfg EXCEPT ![id] = "whole"]
        /\ proc' = [proc EXCEPT ![p].pc = IF Local(p) THEN "refread" ELSE "done",
                      ![p].got = [base |-> base[id], config |-> "whole"]]
  /\ UNCHANGED <<outside, refs, blobs, base>>

-----------------------------------------------------------------------------
(***************************************************************************)
(* What happens to a build.                                                *)
(***************************************************************************)

\* The process is killed, or loses the registry; files stay as they are, and
\* the caller asks again.
Fault(p) ==
  /\ faults > 0 /\ p \in Callers /\ proc[p].pc \notin {"begin", "done", "failed"}
  /\ faults' = faults - 1
  /\ proc' = [proc EXCEPT ![p] = Called(moved[Ref(p)])]
  /\ UNCHANGED <<world, moved, met, refs, blobs, built>>

\* The blob is too large or not what its digest says: the temporary name goes.
BadBlob(p) ==
  /\ faults > 0 /\ At(p, "write") /\ ~Local(p)
  /\ faults' = faults - 1
  /\ partial' = Rebind(partial, Layer(p), 0)
  /\ proc' = [proc EXCEPT ![p] = Called(moved[Ref(p)])]
  /\ UNCHANGED <<world, moved, met, refs, data, blob, built>>

MoveTag(r) ==
  /\ moved[r] < Len(Serves[r])
  /\ moved' = [moved EXCEPT ![r] = @ + 1]
  /\ UNCHANGED <<world, faults, met, refs, blobs, built, proc>>

Step(p) ==
  \/ Begin(p) \/ Resolve(p) \/ BeginLocal(p) \/ RefRead(p) \/ RefWrite(p) \/ Load(p)
  \/ Miss(p) \/ FetchHit(p) \/ FetchBlob(p) \/ ExtractMember(p) \/ WriteChunk(p)
  \/ ExtractedMember(p) \/ Publish(p)
  \/ FlattenOne(p) \/ Pack(p) \/ ConfigOpen(p) \/ ConfigWrite(p)

Next == (\E p \in Procs : Step(p) \/ Fault(p) \/ BadBlob(p)) \/ \E r \in Refs : MoveTag(r)

\* A process that is not killed goes on.
Spec == Init /\ [][Next]_vars /\ \A p \in Procs : WF_vars(Step(p))

-----------------------------------------------------------------------------
(***************************************************************************)
(* Properties.                                                             *)
(***************************************************************************)
Done(p) == proc[p].pc = "done"
ImageLayers(id) == [k \in DOMAIN LayersOf[id] |-> world.entries[LayersOf[id][k]]]

\* The types of the state; and a layer's two names are never of one file: the
\* rename of fetch_blob takes the temporary name away.
TypeOK ==
  /\ faults \in 0..world.faults
  /\ \A r \in Refs : moved[r] \in DOMAIN Serves[r] /\ refs[r] \in Ids \cup {None}
  /\ data \in [Layers -> [Inodes -> SUBSET (1..Chunks)]]
  /\ partial \in [Layers -> Inodes] /\ blob \in [Layers -> Inodes]
  /\ \A l \in Layers : partial[l] = blob[l] => blob[l] = 0
  /\ \A id \in Ids : cfg[id] \in {"absent", "cut", "whole"}
  /\ \A p \in Callers : proc[p].off \in 0..Chunks /\ proc[p].id \in Ids \cup {None}

\* A base in the cache is the image its name says: what the layer rules make of
\* its layers.  Images that write below a link out of the tree are set aside: the
\* code skips those entries.
AlwaysIntact ==
  \A id \in Ids : \A t \in base[id] : Escapes(ImageLayers(id)) \/ t = Overlay(ImageLayers(id))

\* No base has anything below a link or a file, whatever the layers hold.
BasesContained ==
  \A id \in Ids : \A t \in base[id] : \A q \in DOMAIN t : \A a \in Ancestors(q) : t[a] = Dir

\* The state has its types; within_root keeps every entry, whiteout and hard link
\* in the tree; and a base is the image its name says, whatever builds of other
\* layers ran beside its own and wherever builds were killed (flatten, the rename
\* of the packed file).  When builds meet on a layer the last does not hold.
BasesIntact == TypeOK /\ BasesContained /\ (met \/ AlwaysIntact)

\* A blob under its digest's name is whole: fetch_blob takes it without reading
\* it.  Layers of registry images only; a tar's are written again each time.
\* When builds meet on a layer it does not hold.
HitsComplete ==
  met \/ \A r \in Tags : \A i \in DOMAIN Serves[r] : Named(r, i) # None =>
    \A l \in Range(LayersOf[Named(r, i)]) : blob[l] # 0 => data[l][blob[l]] = 1..Chunks

\* Build answers with an image its reference has named; asked to refresh, with
\* one it has named since the call ("always re-resolves", lib.rs).  And what it
\* answers with is usable: the base was there and the config whole, although they
\* are published one after the other and the config is written in place.
AnswersRight ==
  \A p \in Callers : Done(p) =>
    /\ \E i \in (IF Refresh(p) /\ ~Local(p) THEN proc[p].since ELSE 1)..moved[Ref(p)] :
         proc[p].id = Named(Ref(p), i)
    /\ proc[p].got.base # {} /\ proc[p].got.config = "whole"

\* Every build ends, in spite of what killed ones left behind; and it fails only
\* when its reference has no image for the guest, the layers do not fit together
\* or builds have met on a layer.
Hopeless(p) ==
  \/ \E i \in 1..moved[Ref(p)] : Named(Ref(p), i) = None
  \/ proc[p].work.failed
  \/ met
BuildsEnd == \A p \in Procs : <>(p \notin Callers \/ Done(p) \/ (proc[p].pc = "failed" /\ Hopeless(p)))
=============================================================================
