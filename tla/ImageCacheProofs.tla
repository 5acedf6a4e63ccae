-------------------------- MODULE ImageCacheProofs --------------------------
(***************************************************************************)
(* Proofs about module ImageCache, for every set of processes, references, *)
(* images and layers, every scenario and any number of faults.             *)
(***************************************************************************)
EXTENDS ImageCache, TLAPS

\* Leaves are for Zenon; those for the SMT solver say so.
USE ZenonT(60)

\* What a process remembers, and a table of references that has in it only
\* images which the references have named.
Fields == {"pc", "since", "id", "snap", "k", "fd", "off", "work", "got"}
Known(table) ==
  /\ DOMAIN table = Refs
  /\ \A r \in Refs : table[r] = None \/ \E i \in 1..moved[r] : table[r] = Named(r, i)

\* The state that processes share has the right shape.
Shared ==
  /\ world \in Scenarios
  /\ moved \in [Refs -> Nat] /\ \A r \in Refs : moved[r] \in DOMAIN Serves[r]
  /\ Known(refs)
  /\ DOMAIN base = Ids /\ DOMAIN cfg = Ids
  /\ DOMAIN proc = Callers

\* Process p has an image of its reference, named since the call if it is a pull.
First(p) == IF Refresh(p) /\ ~Local(p) THEN proc[p].since ELSE 1
HasImage(p) == proc[p].id \in Ids /\ \E i \in First(p)..moved[Ref(p)] : proc[p].id = Named(Ref(p), i)

Usable(b) == b.got.base # {} /\ b.got.config = "whole"

\* A process between the pack and its answer has a base; one that has an answer
\* has a usable one.
ProcInv(p) ==
  /\ DOMAIN proc[p] = Fields
  /\ proc[p].since \in 1..moved[Ref(p)]
  /\ proc[p].pc \notin {"begin", "resolve", "failed"} => HasImage(p)
  /\ proc[p].pc = "resolve" => ~Local(p)
  /\ proc[p].pc = "refwrite" => Known(proc[p].snap)
  /\ proc[p].pc \in {"config", "cfgwrite"} => base[proc[p].id] # {}
  /\ proc[p].pc = "done" \/ (Local(p) /\ proc[p].pc \in {"refread", "refwrite"}) => Usable(proc[p])

AnswerInv == Shared /\ \A p \in Callers : ProcInv(p)

\* The jobs of a scenario are for references that exist.
LEMMA Jobs ==
  ASSUME Shared, NEW p \in Callers
  PROVE  Ref(p) \in Refs /\ moved[Ref(p)] \in Nat \ {0} /\ (Local(p) => Ref(p) \in Tars /\ moved[Ref(p)] = 1)
  <1>1. Ref(p) \in Refs
    BY CacheAssumption DEF Shared, Callers, Ref
  <1> QED
    BY <1>1, CacheAssumption, SMTT(60) DEF Shared, Local

\* What the steps of a process leave alone: those before its cache miss.
LEMMA NamesFrame ==
  ASSUME NEW p, Begin(p) \/ Resolve(p) \/ BeginLocal(p) \/ RefRead(p) \/ RefWrite(p) \/ Load(p)
  PROVE  /\ p \in Callers /\ proc[p].pc \in {"begin", "resolve", "refread", "refwrite", "load"}
         /\ UNCHANGED <<world, moved, met, data, partial, blob, base, cfg>>
  <1>1. CASE Begin(p)
    BY <1>1 DEF Begin, At, outside, blobs, built
  <1>2. CASE Resolve(p)
    BY <1>2 DEF Resolve, At, outside, blobs, built
  <1>3. CASE BeginLocal(p)
    BY <1>3 DEF BeginLocal, At, outside, blobs, built
  <1>4. CASE RefRead(p)
    BY <1>4 DEF RefRead, At, outside, blobs, built
  <1>5. CASE RefWrite(p)
    BY <1>5 DEF RefWrite, At, outside, blobs, built
  <1>6. CASE Load(p)
    BY <1>6 DEF Load, At, outside, blobs, built
  <1> QED
    BY <1>1, <1>2, <1>3, <1>4, <1>5, <1>6

\* Those at its layers, and what ends a build there.
LEMMA LayersFrame ==
  ASSUME NEW p,
         \/ Miss(p) \/ FetchHit(p) \/ FetchBlob(p) \/ ExtractMember(p) \/ WriteChunk(p)
         \/ ExtractedMember(p) \/ Publish(p) \/ FlattenOne(p) \/ BadBlob(p) \/ Fault(p)
  PROVE  p \in Callers /\ UNCHANGED <<world, moved, refs, base, cfg>>
  <1>1. CASE Miss(p)
    BY <1>1 DEF Miss, At, built
  <1>2. CASE FetchHit(p)
    BY <1>2 DEF FetchHit, At, outside, built
  <1>3. CASE FetchBlob(p)
    BY <1>3 DEF FetchBlob, At, outside, built
  <1>4. CASE ExtractMember(p)
    BY <1>4 DEF ExtractMember, At, outside, built
  <1>5. CASE WriteChunk(p)
    BY <1>5 DEF WriteChunk, At, outside, built
  <1>6. CASE ExtractedMember(p)
    BY <1>6 DEF ExtractedMember, At, outside, built
  <1>7. CASE Publish(p)
    BY <1>7 DEF Publish, At, outside, built
  <1>8. CASE FlattenOne(p)
    BY <1>8 DEF FlattenOne, At, outside, built
  <1>9. CASE BadBlob(p)
    BY <1>9 DEF BadBlob, At, built
  <1>10. CASE Fault(p)
    BY <1>10 DEF Fault, built
  <1> QED
    BY <1>1, <1>2, <1>3, <1>4, <1>5, <1>6, <1>7, <1>8, <1>9, <1>10

\* Those that leave the base and its config.
LEMMA BasesFrame ==
  ASSUME NEW p, Pack(p) \/ ConfigOpen(p) \/ ConfigWrite(p)
  PROVE  /\ p \in Callers /\ proc[p].pc \in {"pack", "config", "cfgwrite"}
         /\ UNCHANGED <<world, moved, met, refs, data, partial, blob>>
  <1>1. CASE Pack(p)
    BY <1>1 DEF Pack, At, outside, blobs
  <1>2. CASE ConfigOpen(p)
    BY <1>2 DEF ConfigOpen, At, outside, blobs
  <1>3. CASE ConfigWrite(p)
    BY <1>3 DEF ConfigWrite, At, outside, blobs
  <1> QED
    BY <1>1, <1>2, <1>3

\* A table of named images stays one: a reference only moves on.
LEMMA KnownStays ==
  ASSUME NEW table, Known(table), moved \in [Refs -> Nat], moved' \in [Refs -> Nat],
         \A r \in Refs : moved[r] <= moved'[r]
  PROVE  /\ DOMAIN table = Refs
         /\ \A r \in Refs : table[r] = None \/ \E i \in 1..moved'[r] : table[r] = Named(r, i)
  <1>1. \A r \in Refs : 1..moved[r] \subseteq 1..moved'[r]
    BY SMTT(60)
  <1> QED
    BY <1>1 DEF Known

\* What process q knows holds on while others move references and pack bases.
LEMMA OthersStay ==
  ASSUME Shared, NEW q \in Callers, ProcInv(q), proc'[q] = proc[q], world' = world,
         moved' \in [Refs -> Nat], \A r \in Refs : moved[r] <= moved'[r],
         \A id \in Ids : base[id] # {} => base'[id] # {}
  PROVE  ProcInv(q)'
  <1>1. /\ Ref(q)' = Ref(q) /\ Local(q)' = Local(q) /\ Refresh(q)' = Refresh(q) /\ First(q)' = First(q)
    BY DEF Ref, Local, Refresh, First
  <1>2. Ref(q) \in Refs /\ moved[Ref(q)] \in Nat /\ moved'[Ref(q)] \in Nat
        /\ moved[Ref(q)] <= moved'[Ref(q)]
    BY Jobs DEF Shared
  <1>3. proc[q].since \in Nat /\ First(q) \in Nat
    BY <1>2, SMTT(60) DEF ProcInv, First
  <1>4. HasImage(q) => HasImage(q)'
    BY <1>1, <1>2, <1>3, SMTT(60) DEF HasImage
  <1>5. Known(proc[q].snap) => Known(proc[q].snap)'
    BY KnownStays, SMTT(60) DEF Shared, Known
  <1>6. (proc[q].since \in 1..moved[Ref(q)])'
    BY <1>1, <1>2, SMTT(60) DEF ProcInv
  <1> QED
    BY <1>1, <1>4, <1>5, <1>6 DEF ProcInv, HasImage, Usable

\* A step is of one process, or of the registry; it keeps the scenario, and only
\* a packed base replaces a base.
StepOf(p) ==
  /\ p \in Callers /\ world' = world /\ moved' = moved
  /\ DOMAIN proc' = Callers /\ \A q \in Callers \ {p} : proc'[q] = proc[q]
  /\ DOMAIN base' = Ids /\ DOMAIN cfg' = Ids
  /\ \A id \in Ids : base[id] # {} => base'[id] # {}

\* So it is enough to look at the process that takes it, and at the table.
LEMMA OneProcess ==
  ASSUME AnswerInv, NEW p, StepOf(p), Known(refs)', ProcInv(p)'
  PROVE  AnswerInv'
  <1>1. Shared /\ \A q \in Callers : ProcInv(q)
    BY DEF AnswerInv
  <1>2. Callers' = Callers
    BY DEF StepOf, Callers
  <1>3. moved' \in [Refs -> Nat] /\ \A r \in Refs : moved[r] <= moved'[r]
    BY <1>1, SMTT(60) DEF StepOf, Shared
  <1>4. ASSUME NEW q \in Callers \ {p} PROVE ProcInv(q)'
    BY <1>1, <1>3, <1>4, OthersStay DEF StepOf
  <1>5. Shared'
    BY <1>1, <1>2 DEF StepOf, Shared
  <1> QED
    BY <1>2, <1>4, <1>5 DEF AnswerInv

\* Process p goes on with the image it has.
Onward(p) ==
  /\ DOMAIN proc'[p] = Fields
  /\ proc'[p].since = proc[p].since /\ proc'[p].id = proc[p].id
  /\ proc'[p].got = proc[p].got

\* The image it has is still one its reference has named.
LEMMA ImageStays ==
  ASSUME NEW p, HasImage(p), world' = world, moved' = moved,
         proc'[p].id = proc[p].id, proc'[p].since = proc[p].since
  PROVE  HasImage(p)'
  BY DEF HasImage, First, Refresh, Local, Ref

\* What a build does between its cache miss and the packing of its base.
LEMMA BuildOnward ==
  ASSUME AnswerInv, NEW p, StepOf(p), Onward(p), UNCHANGED refs,
         proc[p].pc \in {"load", "miss", "fetch", "write", "flatten"},
         proc'[p].pc \in {"miss", "fetch", "write", "flatten", "pack", "failed"}
  PROVE  AnswerInv'
  <1>1. ProcInv(p) /\ Shared
    BY DEF AnswerInv, StepOf
  <1>2. HasImage(p)'
    BY <1>1, ImageStays DEF ProcInv, StepOf, Onward
  <1>3. Ref(p)' = Ref(p)
    BY DEF StepOf, Ref
  <1>4. Known(refs)'
    BY <1>1 DEF Shared, Known, StepOf
  <1>5. ProcInv(p)'
    BY <1>1, <1>2, <1>3 DEF ProcInv, StepOf, Onward
  <1> QED
    BY <1>4, <1>5, OneProcess

\* A killed build, and one whose file has lost its name, are called again.
LEMMA CalledAgain ==
  ASSUME AnswerInv, NEW p, StepOf(p), UNCHANGED refs, proc'[p] = Called(moved[Ref(p)])
  PROVE  AnswerInv'
  <1>1. ProcInv(p) /\ Shared
    BY DEF AnswerInv, StepOf
  <1>2. Ref(p)' = Ref(p) /\ moved[Ref(p)] \in Nat \ {0}
    BY <1>1, Jobs DEF StepOf, Ref
  <1>3. Known(refs)'
    BY <1>1 DEF Shared, Known, StepOf
  <1>4. /\ DOMAIN proc'[p] = Fields /\ proc'[p].pc = "begin"
        /\ proc'[p].since = moved[Ref(p)]
    BY SMTT(60) DEF Called, Fields
  <1>5. ProcInv(p)'
    BY <1>2, <1>4, SMTT(60) DEF ProcInv, StepOf
  <1> QED
    BY <1>3, <1>5, OneProcess

\* A step that changes neither the tables nor the bases, and process p alone.
LEMMA PlainStep ==
  ASSUME Shared, NEW p \in Callers, UNCHANGED <<world, moved, base, cfg>>,
         NEW b, proc' = [proc EXCEPT ![p] = b]
  PROVE  StepOf(p) /\ proc'[p] = b
  BY DEF Shared, StepOf

\* The cache miss, the layers and the flattening.
LEMMA LayerSteps ==
  ASSUME AnswerInv, NEW p,
         \/ Miss(p) \/ FetchHit(p) \/ FetchBlob(p) \/ ExtractMember(p) \/ WriteChunk(p)
         \/ ExtractedMember(p) \/ Publish(p) \/ FlattenOne(p) \/ BadBlob(p) \/ Fault(p)
  PROVE  AnswerInv'
  <1>1. Shared /\ \A q \in Callers : ProcInv(q)
    BY DEF AnswerInv
  <1>2. p \in Callers
    BY LayersFrame
  <1>3. UNCHANGED <<world, moved, base, cfg, refs>>
    BY LayersFrame
  <1>4. DOMAIN proc = Callers /\ DOMAIN proc[p] = Fields
    BY <1>1, <1>2 DEF Shared, ProcInv
  <1> DEFINE Goal == StepOf(p) /\ Onward(p) /\ proc'[p].pc \in {"fetch", "write", "flatten", "pack", "failed"}
                     /\ proc[p].pc \in {"miss", "fetch", "write", "flatten"}
  <1> USE DEF Fields
  <1>5. CASE Miss(p)
    <2>1. Goal
      BY <1>1, <1>2, <1>3, <1>4, <1>5 DEF Miss, Goes, At, StepOf, Onward, Shared
    <2> QED
      BY <1>3, <2>1, BuildOnward
  <1>6. ASSUME NextLayer(p), proc[p].pc \in {"fetch", "write"} PROVE AnswerInv'
    <2>1. Goal
      BY <1>1, <1>2, <1>3, <1>4, <1>6 DEF NextLayer, StepOf, Onward, Shared
    <2> QED
      BY <1>3, <2>1, BuildOnward
  <1>7. ASSUME NEW name, Create(p, name), proc[p].pc = "fetch" PROVE AnswerInv'
    <2>1. Goal
      BY <1>1, <1>2, <1>3, <1>4, <1>7 DEF Create, StepOf, Onward, Shared
    <2> QED
      BY <1>3, <2>1, BuildOnward
  <1>8. CASE WriteChunk(p)
    <2>1. Goal
      BY <1>1, <1>2, <1>3, <1>4, <1>8 DEF WriteChunk, At, StepOf, Onward, Shared
    <2> QED
      BY <1>3, <2>1, BuildOnward
  <1>9. CASE FlattenOne(p)
    <2>1. Goal
      BY <1>1, <1>2, <1>3, <1>4, <1>9, SMTT(60) DEF FlattenOne, Fails, Goes, At, StepOf, Onward, Shared
    <2> QED
      BY <1>3, <2>1, BuildOnward
  <1>10. ASSUME proc' = [proc EXCEPT ![p] = Called(moved[Ref(p)])] PROVE AnswerInv'
    <2>1. StepOf(p) /\ proc'[p] = Called(moved[Ref(p)])
      BY <1>1, <1>2, <1>3, <1>10, PlainStep
    <2> QED
      BY <1>3, <2>1, CalledAgain
  <1> QED
    BY <1>5, <1>6, <1>7, <1>8, <1>9, <1>10
       DEF FetchHit, FetchBlob, ExtractMember, ExtractedMember, Publish, BadBlob, Fault, At

\* What the reference names: the fast path, the registry, the tar and the table.
LEMMA NameSteps ==
  ASSUME AnswerInv, NEW p,
         Begin(p) \/ Resolve(p) \/ BeginLocal(p) \/ RefRead(p) \/ RefWrite(p) \/ Load(p)
  PROVE  AnswerInv'
  <1>1. Shared /\ \A q \in Callers : ProcInv(q)
    BY DEF AnswerInv
  <1>2. p \in Callers
    BY NamesFrame
  <1>3. UNCHANGED <<world, moved, base, cfg>>
    BY NamesFrame
  <1>4. DOMAIN proc = Callers /\ DOMAIN proc[p] = Fields
    BY <1>1, <1>2 DEF Shared, ProcInv
  <1>5. ProcInv(p) /\ Ref(p) \in Refs /\ moved[Ref(p)] \in Nat \ {0}
        /\ (Local(p) => Ref(p) \in Tars /\ moved[Ref(p)] = 1)
    BY <1>1, <1>2, Jobs
  <1>6. /\ Ref(p)' = Ref(p) /\ Refresh(p)' = Refresh(p) /\ Local(p)' = Local(p)
        /\ proc[p].since \in 1..moved[Ref(p)]
    BY <1>3, <1>5 DEF Ref, Refresh, Local, ProcInv
  <1>7. UNCHANGED refs => Known(refs)'
    BY <1>1, <1>3 DEF Shared, Known
  <1> DEFINE Kept == StepOf(p) /\ DOMAIN proc'[p] = Fields /\ proc'[p].since = proc[p].since
  <1> USE DEF Fields
  <1>8. CASE Begin(p) /\ Offline(p)
    <2>1. /\ Kept /\ proc'[p].pc = "done" /\ proc'[p].id = refs[Ref(p)]
          /\ proc'[p].got = Built(refs[Ref(p)]) /\ UNCHANGED refs
      BY <1>1, <1>2, <1>3, <1>4, <1>8, SMTT(60) DEF Begin, Returns, StepOf, Shared
    <2>2. refs[Ref(p)] # None /\ base[refs[Ref(p)]] # {} /\ cfg[refs[Ref(p)]] = "whole" /\ ~Refresh(p)
      BY <1>8 DEF Offline, Loads
    <2>3. PICK i \in 1..moved[Ref(p)] : refs[Ref(p)] = Named(Ref(p), i)
      BY <1>1, <1>5, <2>2 DEF Shared, Known
    <2>4. Usable(proc[p])'
      BY <2>1, <2>2, SMTT(60) DEF Usable, Built
    <2>5. refs[Ref(p)] \in Ids
      BY <1>1, <1>5, <2>2, <2>3, NamedAssumption, CacheAssumption, SMTT(60) DEF Shared
    <2>6. HasImage(p)'
      BY <1>3, <1>6, <2>1, <2>2, <2>3, <2>5 DEF HasImage, First
    <2>7. ProcInv(p)'
      BY <1>3, <1>6, <2>1, <2>4, <2>6 DEF ProcInv
    <2> QED
      BY <1>7, <2>1, <2>7, OneProcess
  <1>9. CASE Begin(p) /\ ~Offline(p)
    <2>1. Kept /\ proc'[p].pc = "resolve" /\ UNCHANGED refs /\ ~Local(p)
      BY <1>1, <1>2, <1>3, <1>4, <1>9 DEF Begin, Goes, StepOf, Shared
    <2>2. ProcInv(p)'
      BY <1>3, <1>6, <2>1 DEF ProcInv
    <2> QED
      BY <1>7, <2>1, <2>2, OneProcess
  <1>10. CASE Resolve(p)
    <2> DEFINE id == Named(Ref(p), moved[Ref(p)])
    <2>1. /\ Kept /\ UNCHANGED refs
          /\ proc'[p].pc = "failed" \/ (id # None /\ proc'[p].pc = "refread" /\ proc'[p].id = id)
      BY <1>1, <1>2, <1>3, <1>4, <1>10, SMTT(60) DEF Resolve, Fails, Goes, StepOf, Shared
    <2>2. ~Local(p)
      BY <1>5, <1>10 DEF Resolve, At, ProcInv
    <2>3. id # None => id \in Ids
      BY <1>1, <1>5, NamedAssumption DEF Shared
    <2>4. proc'[p].pc = "refread" => HasImage(p)'
      BY <1>3, <1>5, <1>6, <2>1, <2>3, SMTT(60) DEF HasImage, First
    <2>5. ProcInv(p)'
      BY <1>3, <1>6, <2>1, <2>2, <2>4 DEF ProcInv
    <2> QED
      BY <1>7, <2>1, <2>5, OneProcess
  <1>11. CASE BeginLocal(p)
    <2> DEFINE id == TarImage(Ref(p))
    <2>1. /\ Kept /\ UNCHANGED refs /\ proc'[p].id = id /\ Local(p)
          /\ \/ Loads(id) /\ proc'[p].pc = "refread" /\ proc'[p].got = Built(id)
             \/ proc'[p].pc = "miss"
      BY <1>1, <1>2, <1>3, <1>4, <1>11, SMTT(60) DEF BeginLocal, StepOf, Shared
    <2>2. proc'[p].pc = "refread" => Usable(proc[p])'
      BY <2>1, SMTT(60) DEF Usable, Built, Loads
    <2>3. id \in Ids
      BY <1>5, <2>1, NamedAssumption
    <2>4. HasImage(p)'
      BY <1>3, <1>5, <1>6, <2>1, <2>3, SMTT(60) DEF HasImage, First, TarImage
    <2>5. ProcInv(p)'
      BY <1>3, <1>6, <2>1, <2>2, <2>4 DEF ProcInv
    <2> QED
      BY <1>7, <2>1, <2>5, OneProcess
  <1>12. CASE RefRead(p)
    <2>1. Kept /\ Onward(p) /\ proc'[p].pc = "refwrite" /\ proc'[p].snap = refs /\ UNCHANGED refs
      BY <1>1, <1>2, <1>3, <1>4, <1>12 DEF RefRead, StepOf, Onward, Shared
    <2>2. proc[p].pc = "refread"
      BY <1>12 DEF RefRead, At
    <2>3. HasImage(p)'
      BY <1>3, <1>5, <2>1, <2>2, ImageStays DEF ProcInv, Onward
    <2>4. Known(proc[p].snap)'
      BY <1>7, <2>1 DEF Known
    <2>5. Local(p) => Usable(proc[p])'
      BY <1>5, <2>1, <2>2 DEF ProcInv, Usable, Onward
    <2>6. ProcInv(p)'
      BY <1>3, <1>6, <2>1, <2>3, <2>4, <2>5 DEF ProcInv
    <2> QED
      BY <1>7, <2>1, <2>6, OneProcess
  <1>13. CASE RefWrite(p)
    <2>1. /\ Kept /\ Onward(p) /\ proc'[p].pc = (IF Local(p) THEN "done" ELSE "load")
          /\ refs' = [proc[p].snap EXCEPT ![Ref(p)] = proc[p].id]
      BY <1>1, <1>2, <1>3, <1>4, <1>13 DEF RefWrite, StepOf, Onward, Shared
    <2>2. proc[p].pc = "refwrite" /\ HasImage(p) /\ Known(proc[p].snap)
      BY <1>5, <1>13 DEF RefWrite, At, ProcInv
    <2>3. HasImage(p)'
      BY <1>3, <2>1, <2>2, ImageStays DEF Onward
    <2>4. \E i \in 1..moved[Ref(p)] : proc[p].id = Named(Ref(p), i)
      BY <1>5, <1>6, <2>2, SMTT(60) DEF HasImage, First
    <2>5. Known(refs)'
      BY <1>3, <1>5, <2>1, <2>2, <2>4 DEF Known
    <2>6. Local(p) => Usable(proc[p])'
      BY <1>5, <2>1, <2>2 DEF ProcInv, Usable, Onward
    <2>7. ProcInv(p)'
      BY <1>3, <1>6, <2>1, <2>3, <2>6 DEF ProcInv
    <2> QED
      BY <2>1, <2>5, <2>7, OneProcess
  <1>14. CASE Load(p) /\ Loads(proc[p].id)
    <2>1. /\ Kept /\ proc'[p].pc = "done" /\ proc'[p].id = proc[p].id
          /\ proc'[p].got = Built(proc[p].id) /\ UNCHANGED refs
      BY <1>1, <1>2, <1>3, <1>4, <1>14, SMTT(60) DEF Load, Returns, StepOf, Shared
    <2>2. HasImage(p)
      BY <1>5, <1>14 DEF Load, At, ProcInv
    <2>3. HasImage(p)'
      BY <1>3, <2>1, <2>2, ImageStays
    <2>4. Usable(proc[p])'
      BY <1>14, <2>1, SMTT(60) DEF Usable, Built, Loads
    <2>5. ProcInv(p)'
      BY <1>3, <1>6, <2>1, <2>3, <2>4 DEF ProcInv
    <2> QED
      BY <1>7, <2>1, <2>5, OneProcess
  <1>15. CASE Load(p) /\ ~Loads(proc[p].id)
    <2>1. Kept /\ Onward(p) /\ proc[p].pc = "load" /\ proc'[p].pc = "miss" /\ UNCHANGED refs
      BY <1>1, <1>2, <1>3, <1>4, <1>15, SMTT(60) DEF Load, Goes, At, StepOf, Onward, Shared
    <2> QED
      BY <2>1, BuildOnward
  <1> QED
    BY <1>8, <1>9, <1>10, <1>11, <1>12, <1>13, <1>14, <1>15

\* The base is published before its config, and neither goes away.
LEMMA BaseSteps ==
  ASSUME AnswerInv, NEW p, Pack(p) \/ ConfigOpen(p) \/ ConfigWrite(p)
  PROVE  AnswerInv'
  <1>1. Shared /\ \A q \in Callers : ProcInv(q)
    BY DEF AnswerInv
  <1>2. p \in Callers /\ proc[p].pc \in {"pack", "config", "cfgwrite"}
    BY BasesFrame
  <1>3. UNCHANGED <<world, moved, refs>>
    BY BasesFrame
  <1>4. DOMAIN proc = Callers /\ DOMAIN proc[p] = Fields /\ HasImage(p)
    BY <1>1, <1>2 DEF Shared, ProcInv
  <1>5. proc[p].id \in Ids /\ DOMAIN base = Ids /\ DOMAIN cfg = Ids
    BY <1>1, <1>4 DEF Shared, HasImage
  <1>6. Known(refs)'
    BY <1>1, <1>3 DEF Shared, Known
  <1>7. Ref(p)' = Ref(p) /\ Local(p)' = Local(p) /\ proc[p].since \in 1..moved[Ref(p)]
    BY <1>1, <1>2, <1>3 DEF Ref, Local, ProcInv
  <1> DEFINE Kept == /\ StepOf(p) /\ DOMAIN proc'[p] = Fields
                     /\ proc'[p].since = proc[p].since /\ proc'[p].id = proc[p].id
  <1> USE DEF Fields
  <1>8. CASE Pack(p)
    <2>1. base' = [base EXCEPT ![proc[p].id] = {proc[p].work.tree}] /\ cfg' = cfg
      BY <1>8 DEF Pack
    <2>2. /\ DOMAIN base' = Ids /\ base'[proc[p].id] # {}
          /\ \A id \in Ids : base[id] # {} => base'[id] # {}
      BY <1>5, <2>1
    <2>3. Kept /\ proc'[p].pc = "config"
      BY <1>2, <1>3, <1>4, <1>5, <1>8, <2>1, <2>2 DEF Pack, StepOf
    <2>4. HasImage(p)'
      BY <1>3, <1>4, <2>3, ImageStays
    <2>5. ProcInv(p)'
      BY <1>3, <1>7, <2>2, <2>3, <2>4 DEF ProcInv
    <2> QED
      BY <1>6, <2>3, <2>5, OneProcess
  <1>9. CASE ConfigOpen(p)
    <2>1. Kept /\ proc'[p].pc = "cfgwrite" /\ base' = base /\ proc[p].pc = "config"
      BY <1>2, <1>3, <1>4, <1>5, <1>9 DEF ConfigOpen, Goes, At, StepOf
    <2>2. HasImage(p)'
      BY <1>3, <1>4, <2>1, ImageStays
    <2>3. ProcInv(p)'
      BY <1>1, <1>2, <1>3, <1>7, <2>1, <2>2 DEF ProcInv
    <2> QED
      BY <1>6, <2>1, <2>3, OneProcess
  <1>10. CASE ConfigWrite(p)
    <2>1. /\ Kept /\ proc'[p].pc = (IF Local(p) THEN "refread" ELSE "done")
          /\ proc'[p].got = [base |-> base[proc[p].id], config |-> "whole"] /\ proc[p].pc = "cfgwrite"
      BY <1>2, <1>3, <1>4, <1>5, <1>10 DEF ConfigWrite, At, StepOf
    <2>2. HasImage(p)'
      BY <1>3, <1>4, <2>1, ImageStays
    <2>3. Usable(proc[p])'
      BY <1>1, <1>2, <2>1, SMTT(60) DEF ProcInv, Usable
    <2>4. ProcInv(p)'
      BY <1>3, <1>7, <2>1, <2>2, <2>3 DEF ProcInv
    <2> QED
      BY <1>6, <2>1, <2>4, OneProcess
  <1> QED
    BY <1>8, <1>9, <1>10

\* A tag moves on.
LEMMA MoveTagKeeps ==
  ASSUME AnswerInv, NEW r \in Refs, MoveTag(r)
  PROVE  AnswerInv'
  <1>1. Shared /\ \A q \in Callers : ProcInv(q)
    BY DEF AnswerInv
  <1>2. UNCHANGED <<world, refs, base, cfg, proc>> /\ Callers' = Callers
    BY DEF MoveTag, blobs, built, Callers
  <1>3. /\ moved' \in [Refs -> Nat] /\ \A s \in Refs : moved[s] <= moved'[s]
        /\ \A s \in Refs : moved'[s] \in DOMAIN Serves[s]
    BY <1>1, CacheAssumption, SMTT(60) DEF MoveTag, Shared
  <1>4. Known(refs)'
    BY <1>1, <1>2, <1>3, KnownStays, SMTT(60) DEF Shared, Known
  <1>5. \A q \in Callers : ProcInv(q)'
    BY <1>1, <1>2, <1>3, OthersStay
  <1>6. Shared'
    BY <1>1, <1>2, <1>3, <1>4 DEF Shared
  <1> QED
    BY <1>2, <1>5, <1>6 DEF AnswerInv

\* The first calls of build, with nothing in the cache.
LEMMA InitAnswers == Init => AnswerInv
  <1> SUFFICES ASSUME Init PROVE AnswerInv
    OBVIOUS
  <1>1. Shared
    BY CacheAssumption, SMTT(60) DEF Init, Shared, Known, Callers
  <1>2. ASSUME NEW p \in Callers PROVE ProcInv(p)
    <2>1. proc[p] = Called(1)
      BY DEF Init, Callers
    <2>2. moved[Ref(p)] = 1
      BY <1>1, Jobs DEF Init
    <2>3. DOMAIN proc[p] = Fields /\ proc[p].pc = "begin" /\ proc[p].since = 1
      BY <2>1, SMTT(60) DEF Called, Fields
    <2> QED
      BY <2>2, <2>3, SMTT(60) DEF ProcInv
  <1> QED
    BY <1>1, <1>2 DEF AnswerInv

\* Every step of a build, of a fault and of the registry keeps the invariant.
LEMMA NextAnswers == AnswerInv /\ [Next]_vars => AnswerInv'
  <1> SUFFICES ASSUME AnswerInv, [Next]_vars PROVE AnswerInv'
    OBVIOUS
  <1>1. CASE UNCHANGED vars
    <2>1. UNCHANGED <<world, moved, refs, base, cfg, proc>> /\ Callers' = Callers
      BY <1>1 DEF vars, Callers
    <2>2. Shared /\ \A p \in Callers : ProcInv(p)
      BY DEF AnswerInv
    <2>3. Shared'
      BY <2>1, <2>2 DEF Shared, Known
    <2>4. moved \in [Refs -> Nat] /\ \A r \in Refs : moved[r] <= moved[r]
      BY <2>2, SMTT(60) DEF Shared
    <2>5. \A p \in Callers : ProcInv(p)'
      BY <2>1, <2>2, <2>4, OthersStay
    <2> QED
      BY <2>1, <2>3, <2>5 DEF AnswerInv
  <1>2. ASSUME NEW p \in Procs, Step(p) \/ Fault(p) \/ BadBlob(p) PROVE AnswerInv'
    BY <1>2, NameSteps, LayerSteps, BaseSteps DEF Step
  <1> QED
    BY <1>1, <1>2, MoveTagKeeps DEF Next

\* The invariant of the caches' names and answers holds in every behaviour.
LEMMA AnswersInvariant == Spec => []AnswerInv
  BY InitAnswers, NextAnswers, PTL DEF Spec

\* build answers with an image that its reference has named, since the call when it
\* is a pull; and the base was there and the config whole when it answered.  For any
\* number of processes on one cache directory, however their builds, crashes and
\* lost updates of refs.json interleave with the tags' moves.
THEOREM AnswersAreRight == Spec => []AnswersRight
  <1>1. AnswerInv => AnswersRight
    BY DEF AnswerInv, ProcInv, HasImage, First, Usable, AnswersRight, Done
  <1> QED
    BY <1>1, AnswersInvariant, PTL

-----------------------------------------------------------------------------
(***************************************************************************)
(* The blobs.  As long as no two builds meet on a layer, a download has    *)
(* the temporary name of its layer to itself until the rename.             *)
(***************************************************************************)

\* Layers of registry images.
OfTag(l) == \E r \in Tags : \E i \in DOMAIN Serves[r] : Named(r, i) # None /\ l \in Range(LayersOf[Named(r, i)])

\* No tar has a layer of a registry image.
TarsApart == \A r \in Tars : \A l \in Range(LayersOf[TarImage(r)]) : ~OfTag(l)

\* Where a process is in its layers.
PlaceInv(p) ==
  /\ Building(p) => proc[p].k \in DOMAIN LayersOf[proc[p].id]
  /\ ~Building(p) /\ proc[p].pc # "failed" => proc[p].k = 1
  /\ proc[p].pc # "write" => proc[p].fd = 0 /\ proc[p].off = 0
  /\ proc[p].pc = "write" => proc[p].off \in 0..Chunks

Files ==
  /\ DOMAIN data = Layers /\ \A l \in Layers : DOMAIN data[l] = Inodes
  /\ DOMAIN partial = Layers /\ DOMAIN blob = Layers

LayersMeet(p, q) == Range(LayersOf[proc[p].id]) \cap Range(LayersOf[proc[q].id]) # {}

Apart == \A p, q \in Callers : p # q /\ Building(p) /\ Building(q) => ~LayersMeet(p, q)
NamesFit == \A l \in Layers : partial[l] \in Inodes
BlobsWhole == \A l \in Layers : OfTag(l) /\ blob[l] # 0 => data[l][blob[l]] = 1..Chunks

\* A download under way is in the file with the temporary name.
Download(p) ==
  proc[p].pc = "write" /\ ~Local(p) =>
    /\ blob[Layer(p)] = 0
    /\ proc[p].fd = partial[Layer(p)] /\ proc[p].fd \in Inodes \ {0}
    /\ data[Layer(p)][proc[p].fd] = 1..proc[p].off

HitInv ==
  /\ Files /\ \A p \in Callers : PlaceInv(p)
  /\ met \/ (Apart /\ NamesFit /\ BlobsWhole /\ \A p \in Callers : Download(p))

\* The layers of an image are a sequence.
LEMMA LayerSeqs ==
  ASSUME NEW id \in Ids
  PROVE  /\ Len(LayersOf[id]) \in Nat /\ DOMAIN LayersOf[id] = 1..Len(LayersOf[id])
         /\ LayersOf[id] # <<>> => 1 \in DOMAIN LayersOf[id]
  <1>1. LayersOf[id] \in Seq(Layers)
    BY CacheAssumption
  <1>2. ASSUME NEW S, NEW s \in Seq(S)
        PROVE  Len(s) \in Nat /\ DOMAIN s = 1..Len(s) /\ (s # <<>> => 1 \in DOMAIN s)
    BY SMTT(60)
  <1> QED
    BY <1>1, <1>2

\* The layer a build is at is one of its image's: of a registry's for a tag.
LEMMA LayerOfImage ==
  ASSUME AnswerInv, HitInv, NEW p \in Callers, Building(p)
  PROVE  /\ proc[p].id \in Ids /\ proc[p].k \in DOMAIN LayersOf[proc[p].id]
         /\ Layer(p) \in Layers /\ Layer(p) \in Range(LayersOf[proc[p].id])
         /\ ~Local(p) => OfTag(Layer(p))
         /\ TarsApart /\ Local(p) => ~OfTag(Layer(p))
  <1>1. Shared /\ ProcInv(p) /\ PlaceInv(p)
    BY DEF AnswerInv, HitInv
  <1>2. HasImage(p) /\ proc[p].k \in DOMAIN LayersOf[proc[p].id]
    BY <1>1 DEF ProcInv, PlaceInv, Building
  <1>3. proc[p].id \in Ids
    BY <1>2 DEF HasImage
  <1>4. Layer(p) \in Range(LayersOf[proc[p].id])
    BY <1>2 DEF Layer, Range
  <1>5. Layer(p) \in Layers
    BY <1>3, <1>4 DEF Layers
  <1>6. Ref(p) \in Refs /\ moved[Ref(p)] \in Nat /\ proc[p].since \in Nat \ {0}
        /\ moved[Ref(p)] \in DOMAIN Serves[Ref(p)] /\ (Local(p) => moved[Ref(p)] = 1)
    BY <1>1, Jobs, SMTT(60) DEF Shared, ProcInv
  <1>7. PICK i \in 1..moved[Ref(p)] : proc[p].id = Named(Ref(p), i)
    BY <1>2, <1>6, SMTT(60) DEF HasImage, First
  <1>8. i \in DOMAIN Serves[Ref(p)]
    BY <1>6, CacheAssumption, SMTT(60)
  <1>9. ~Local(p) => OfTag(Layer(p))
    <2>1. Named(Ref(p), i) # None
      BY <1>3, <1>7, NamedAssumption
    <2>2. ~Local(p) => Ref(p) \in Tags
      BY <1>6 DEF Local, Refs
    <2> QED
      BY <1>4, <1>7, <1>8, <2>1, <2>2 DEF OfTag
  <1>10. TarsApart /\ Local(p) => ~OfTag(Layer(p))
    <2>1. Local(p) => Ref(p) \in Tars /\ proc[p].id = TarImage(Ref(p))
      BY <1>6, <1>7, SMTT(60) DEF Local, TarImage
    <2> QED
      BY <1>4, <2>1 DEF TarsApart
  <1> QED
    BY <1>2, <1>3, <1>4, <1>5, <1>9, <1>10

\* Builds that have not met are at different layers.
LEMMA LayersDiffer ==
  ASSUME AnswerInv, HitInv, ~met, NEW p \in Callers, NEW q \in Callers, p # q, Building(p), Building(q)
  PROVE  Layer(p) # Layer(q)
  <1>1. ~LayersMeet(p, q)
    BY DEF HitInv, Apart
  <1>2. Layer(p) \in Range(LayersOf[proc[p].id]) /\ Layer(q) \in Range(LayersOf[proc[q].id])
    BY LayerOfImage
  <1> QED
    BY <1>1, <1>2 DEF LayersMeet

\* A step leaves the files alone, or those of all layers but the one p is at.
FilesKept == UNCHANGED <<data, partial, blob>>
OwnLayer(p) ==
  /\ Building(p) /\ Files' /\ (met \/ partial'[Layer(p)] \in Inodes)
  /\ \A l \in Layers \ {Layer(p)} : data'[l] = data[l] /\ partial'[l] = partial[l] /\ blob'[l] = blob[l]

\* Then it is enough to look at the process that takes it, and at its layer.
LEMMA OneLayer ==
  ASSUME TarsApart, AnswerInv, HitInv, NEW p, StepOf(p), met' = met, FilesKept \/ OwnLayer(p),
         Building(p)' => Building(p) /\ proc'[p].id = proc[p].id,
         PlaceInv(p)',
         ~met => Download(p)',
         ~met /\ Building(p) /\ ~Local(p) /\ blob'[Layer(p)] # 0 => data'[Layer(p)][blob'[Layer(p)]] = 1..Chunks
  PROVE  HitInv'
  <1>1. p \in Callers /\ Callers' = Callers /\ world' = world /\ \A q \in Callers \ {p} : proc'[q] = proc[q]
    BY DEF StepOf, Callers
  <1>2. Files'
    BY DEF HitInv, Files, FilesKept, OwnLayer
  <1>3. \A q \in Callers : PlaceInv(q)'
    BY <1>1, SMTT(60) DEF HitInv, PlaceInv, Building
  <1>4. ASSUME ~met PROVE Apart'
    <2>1. \A q \in Callers : Building(q)' => Building(q) /\ proc'[q].id = proc[q].id
      BY <1>1 DEF Building
    <2> QED
      BY <1>1, <1>4, <2>1 DEF HitInv, Apart, LayersMeet
  <1>5. ASSUME ~met PROVE NamesFit'
    BY <1>5 DEF HitInv, NamesFit, FilesKept, OwnLayer
  <1>6. ASSUME ~met PROVE BlobsWhole'
    <2> SUFFICES ASSUME NEW l \in Layers, OfTag(l), blob'[l] # 0 PROVE data'[l][blob'[l]] = 1..Chunks
      BY DEF BlobsWhole
    <2>1. CASE FilesKept
      BY <1>6, <2>1 DEF HitInv, BlobsWhole, FilesKept
    <2>2. CASE OwnLayer(p) /\ l # Layer(p)
      BY <1>6, <2>2 DEF HitInv, BlobsWhole, OwnLayer
    <2>3. CASE OwnLayer(p) /\ l = Layer(p)
      BY <1>1, <1>6, <2>3, LayerOfImage DEF OwnLayer
    <2> QED
      BY <2>1, <2>2, <2>3
  <1>7. ASSUME ~met, NEW q \in Callers \ {p} PROVE Download(q)'
    <2>1. Download(q) /\ proc'[q] = proc[q] /\ Layer(q)' = Layer(q) /\ Local(q)' = Local(q)
      BY <1>1, <1>7 DEF HitInv, Layer, Local, Ref
    <2> SUFFICES ASSUME proc[q].pc = "write" /\ ~Local(q)
                 PROVE  /\ data'[Layer(q)] = data[Layer(q)] /\ partial'[Layer(q)] = partial[Layer(q)]
                        /\ blob'[Layer(q)] = blob[Layer(q)]
      BY <2>1 DEF Download
    <2>2. Building(q) /\ Layer(q) \in Layers
      BY LayerOfImage DEF Building
    <2>3. OwnLayer(p) => Layer(q) # Layer(p)
      BY <1>1, <1>7, <2>2, LayersDiffer DEF OwnLayer
    <2> QED
      BY <2>2, <2>3 DEF OwnLayer, FilesKept
  <1> QED
    BY <1>1, <1>2, <1>3, <1>4, <1>6, <1>7, <1>5 DEF HitInv

\* A step that leaves the files alone and does not end in a download.
LEMMA QuietStep ==
  ASSUME TarsApart, AnswerInv, HitInv, NEW p, StepOf(p), met' = met, FilesKept,
         Building(p)' => Building(p) /\ proc'[p].id = proc[p].id,
         PlaceInv(p)', proc'[p].pc # "write"
  PROVE  HitInv'
  <1>1. Download(p)'
    BY DEF Download
  <1>2. ASSUME ~met, Building(p), ~Local(p), blob'[Layer(p)] # 0
        PROVE  data'[Layer(p)][blob'[Layer(p)]] = 1..Chunks
    <2>1. Layer(p) \in Layers /\ OfTag(Layer(p))
      BY <1>2, LayerOfImage DEF StepOf
    <2> QED
      BY <1>2, <2>1 DEF HitInv, BlobsWhole, FilesKept
  <1> QED
    BY <1>1, <1>2, OneLayer

\* Before the layers and after them a process has no file of a layer.
LEMMA IdleStep ==
  ASSUME TarsApart, AnswerInv, HitInv, NEW p, StepOf(p), met' = met, FilesKept,
         ~Building(p), proc[p].pc # "failed", ~Building(p)',
         proc'[p].k = proc[p].k, proc'[p].fd = proc[p].fd, proc'[p].off = proc[p].off
  PROVE  HitInv'
  <1>1. PlaceInv(p)
    BY DEF HitInv, StepOf
  <1>2. proc'[p].pc # "write" /\ proc[p].pc # "write"
    BY DEF Building
  <1>3. PlaceInv(p)'
    BY <1>1, <1>2 DEF PlaceInv
  <1> QED
    BY <1>2, <1>3, QuietStep

\* The steps that have nothing to do with layers.
LEMMA IdleSteps ==
  ASSUME TarsApart, AnswerInv, HitInv, NEW p,
         \/ Begin(p) \/ Resolve(p) \/ BeginLocal(p) \/ RefRead(p) \/ RefWrite(p) \/ Load(p)
         \/ Pack(p) \/ ConfigOpen(p) \/ ConfigWrite(p)
  PROVE  HitInv'
  <1>1. /\ p \in Callers
        /\ proc[p].pc \in {"begin", "resolve", "refread", "refwrite", "load", "pack", "config", "cfgwrite"}
    BY NamesFrame, BasesFrame
  <1>2. UNCHANGED <<world, moved, met>> /\ FilesKept
    BY NamesFrame, BasesFrame DEF FilesKept
  <1>3. DOMAIN proc = Callers /\ DOMAIN proc[p] = Fields /\ DOMAIN base = Ids /\ DOMAIN cfg = Ids
    BY <1>1 DEF AnswerInv, Shared, ProcInv
  <1>4. /\ DOMAIN base' = Ids /\ DOMAIN cfg' = Ids
        /\ \A id \in Ids : base[id] # {} => base'[id] # {}
    <2>1. CASE Pack(p)
      BY <1>3, <2>1 DEF Pack
    <2>2. CASE ConfigOpen(p)
      BY <1>3, <2>2 DEF ConfigOpen
    <2>3. CASE ConfigWrite(p)
      BY <1>3, <2>3 DEF ConfigWrite
    <2> QED
      BY <1>3, <2>1, <2>2, <2>3, NamesFrame
  <1> USE DEF Fields
  <1> DEFINE Idles ==
        /\ DOMAIN proc' = Callers /\ \A q \in Callers \ {p} : proc'[q] = proc[q]
        /\ proc'[p].pc \in {"resolve", "refread", "refwrite", "load", "miss", "config", "cfgwrite",
                           "done", "failed"}
        /\ proc'[p].k = proc[p].k /\ proc'[p].fd = proc[p].fd /\ proc'[p].off = proc[p].off
  <1>5. ASSUME Begin(p) PROVE Idles
    BY <1>1, <1>3, <1>5, SMTT(60) DEF Begin, Returns, Goes
  <1>6. ASSUME Resolve(p) PROVE Idles
    BY <1>1, <1>3, <1>6, SMTT(60) DEF Resolve, Fails, Goes
  <1>7. ASSUME BeginLocal(p) PROVE Idles
    BY <1>1, <1>3, <1>7, SMTT(60) DEF BeginLocal
  <1>8. ASSUME RefRead(p) PROVE Idles
    BY <1>1, <1>3, <1>8 DEF RefRead
  <1>9. ASSUME RefWrite(p) PROVE Idles
    BY <1>1, <1>3, <1>9 DEF RefWrite
  <1>10. ASSUME Load(p) PROVE Idles
    BY <1>1, <1>3, <1>10, SMTT(60) DEF Load, Returns, Goes
  <1>11. ASSUME Pack(p) PROVE Idles
    BY <1>1, <1>3, <1>11 DEF Pack
  <1>12. ASSUME ConfigOpen(p) PROVE Idles
    BY <1>1, <1>3, <1>12 DEF ConfigOpen, Goes
  <1>13. ASSUME ConfigWrite(p) PROVE Idles
    BY <1>1, <1>3, <1>13 DEF ConfigWrite
  <1>14. Idles
    BY <1>5, <1>6, <1>7, <1>8, <1>9, <1>10, <1>11, <1>12, <1>13
  <1>15. StepOf(p)
    BY <1>1, <1>2, <1>4, <1>14 DEF StepOf
  <1>16. ~Building(p) /\ ~Building(p)' /\ proc[p].pc # "failed"
    BY <1>1, <1>14 DEF Building
  <1> QED
    BY <1>2, <1>14, <1>15, <1>16, IdleStep

\* A build called again has no file of a layer.
LEMMA AgainHits ==
  ASSUME TarsApart, AnswerInv, HitInv, NEW p, StepOf(p), met' = met, NEW at, proc'[p] = Called(at),
         FilesKept \/ (OwnLayer(p) /\ UNCHANGED <<data, blob>>)
  PROVE  HitInv'
  <1>1. proc'[p].pc = "begin" /\ proc'[p].k = 1 /\ proc'[p].fd = 0 /\ proc'[p].off = 0
    BY SMTT(60) DEF Called
  <1>2. ~Building(p)' /\ PlaceInv(p)' /\ Download(p)'
    BY <1>1 DEF Building, PlaceInv, Download
  <1>3. ASSUME ~met, Building(p), ~Local(p), blob'[Layer(p)] # 0
        PROVE  data'[Layer(p)][blob'[Layer(p)]] = 1..Chunks
    <2>1. Layer(p) \in Layers /\ OfTag(Layer(p))
      BY <1>3, LayerOfImage DEF StepOf
    <2> QED
      BY <1>3, <2>1 DEF HitInv, BlobsWhole, FilesKept
  <1> QED
    BY <1>2, <1>3, OneLayer

\* Faults: the temporary name of a bad download goes, nothing else does.
LEMMA FaultHits ==
  ASSUME TarsApart, AnswerInv, HitInv, NEW p, Fault(p) \/ BadBlob(p)
  PROVE  HitInv'
  <1>1. Shared /\ p \in Callers
    BY DEF AnswerInv, Fault, BadBlob, At
  <1>2. UNCHANGED <<world, moved, met, base, cfg, data, blob>>
    BY DEF Fault, BadBlob, blobs, built
  <1>3. StepOf(p) /\ proc'[p] = Called(moved[Ref(p)])
    BY <1>1, <1>2, PlainStep DEF Fault, BadBlob
  <1>4. CASE Fault(p)
    BY <1>2, <1>3, <1>4, AgainHits DEF Fault, blobs, FilesKept
  <1>5. CASE BadBlob(p)
    <2>1. Building(p) /\ partial' = [partial EXCEPT ![Layer(p)] = 0]
      BY <1>5 DEF BadBlob, Rebind, Building, At
    <2>2. Files
      BY DEF HitInv
    <2>3. OwnLayer(p)
      <3>1. partial'[Layer(p)] \in Inodes
        BY <1>1, <2>1, <2>2, LayerOfImage, SMTT(60) DEF Files, Inodes
      <3> QED
        BY <1>2, <2>1, <2>2, <3>1 DEF OwnLayer, Files
    <2> QED
      BY <1>2, <1>3, <2>3, AgainHits
  <1> QED
    BY <1>4, <1>5

\* A cache miss begins the layers, and records builds that it meets.
LEMMA MissHits ==
  ASSUME TarsApart, AnswerInv, HitInv, NEW p, Miss(p)
  PROVE  HitInv'
  <1>1. Shared /\ ProcInv(p) /\ PlaceInv(p) /\ p \in Callers /\ proc[p].pc = "miss"
    BY DEF AnswerInv, HitInv, Miss, At
  <1>2. FilesKept /\ world' = world /\ Callers' = Callers
    BY DEF Miss, blobs, FilesKept, Callers
  <1>3. DOMAIN proc = Callers /\ DOMAIN proc[p] = Fields /\ HasImage(p)
    BY <1>1 DEF Shared, ProcInv
  <1>4. /\ \A q \in Callers \ {p} : proc'[q] = proc[q]
        /\ proc'[p].pc = (IF LayersOf[proc[p].id] = <<>> THEN "pack" ELSE "fetch")
        /\ proc'[p].id = proc[p].id
        /\ proc'[p].k = proc[p].k /\ proc'[p].fd = proc[p].fd /\ proc'[p].off = proc[p].off
    BY <1>1, <1>3 DEF Miss, Goes, Fields
  <1>5. PlaceInv(p)'
    <2>1. proc[p].k = 1 /\ proc[p].fd = 0 /\ proc[p].off = 0 /\ proc[p].id \in Ids
      BY <1>1, <1>3 DEF PlaceInv, Building, HasImage
    <2>2. LayersOf[proc[p].id] # <<>> => 1 \in DOMAIN LayersOf[proc[p].id]
      BY <2>1, LayerSeqs
    <2> QED
      BY <1>4, <2>1, <2>2 DEF PlaceInv, Building
  <1>6. \A q \in Callers : PlaceInv(q)'
    BY <1>4, <1>5, SMTT(60) DEF HitInv, PlaceInv, Building
  <1>7. Files'
    BY <1>2 DEF HitInv, Files, FilesKept
  <1>8. ASSUME ~met' PROVE Apart' /\ NamesFit' /\ BlobsWhole' /\ \A q \in Callers : Download(q)'
    <2>1. ~met /\ \A q \in Callers : Building(q) => ~LayersMeet(q, p)
      BY <1>8 DEF Miss, LayersMeet
    <2>2. Apart
      BY <2>1 DEF HitInv
    <2>3. \A q \in Callers : proc'[q].id = proc[q].id /\ (q # p => (Building(q)' <=> Building(q)))
      BY <1>4 DEF Building
    <2>4. \A q \in Callers : LayersMeet(q, p) <=> LayersMeet(p, q)
      BY DEF LayersMeet
    <2>5. Apart'
      BY <1>2, <2>1, <2>2, <2>3, <2>4, SMTT(60) DEF Apart, LayersMeet
    <2>6. BlobsWhole'
      BY <1>2, <2>1 DEF HitInv, BlobsWhole, FilesKept
    <2>7. NamesFit'
      BY <1>2, <2>1 DEF HitInv, NamesFit, FilesKept
    <2>8. \A q \in Callers : Download(q)'
      BY <1>2, <1>4, <2>1 DEF HitInv, Download, FilesKept, Layer, Local, Ref
    <2> QED
      BY <2>5, <2>6, <2>8, <2>7
  <1> QED
    BY <1>2, <1>6, <1>7, <1>8 DEF HitInv

\* A blob is there: the next layer, or the flattening.
LEMMA NextLayerPlace ==
  ASSUME AnswerInv, HitInv, NEW p \in Callers, Building(p), NextLayer(p)
  PROVE  /\ DOMAIN proc' = Callers /\ \A q \in Callers \ {p} : proc'[q] = proc[q]
         /\ proc'[p].id = proc[p].id /\ proc'[p].pc \in {"fetch", "flatten"}
         /\ PlaceInv(p)'
  <1>1. DOMAIN proc = Callers /\ DOMAIN proc[p] = Fields
    BY DEF AnswerInv, Shared, ProcInv
  <1>2. proc[p].k \in 1..Len(LayersOf[proc[p].id]) /\ Len(LayersOf[proc[p].id]) \in Nat
        /\ DOMAIN LayersOf[proc[p].id] = 1..Len(LayersOf[proc[p].id])
    <2>1. proc[p].id \in Ids /\ proc[p].k \in DOMAIN LayersOf[proc[p].id]
      BY LayerOfImage
    <2> QED
      BY <2>1, LayerSeqs
  <1>3. /\ DOMAIN proc' = Callers /\ \A q \in Callers \ {p} : proc'[q] = proc[q]
        /\ proc'[p].id = proc[p].id /\ proc'[p].fd = 0 /\ proc'[p].off = 0
        /\ proc'[p].k = (IF proc[p].k < Len(LayersOf[proc[p].id]) THEN proc[p].k + 1 ELSE 1)
        /\ proc'[p].pc = (IF proc[p].k < Len(LayersOf[proc[p].id]) THEN "fetch" ELSE "flatten")
    BY <1>1 DEF NextLayer, Fields
  <1>4. proc'[p].k \in DOMAIN LayersOf[proc[p].id]
    BY <1>2, <1>3, SMTT(60)
  <1>5. proc'[p].pc \in {"fetch", "flatten"}
    BY <1>3
  <1> QED
    BY <1>3, <1>4, <1>5 DEF PlaceInv, Building

\* A hit and a member of a tar change no file; the rename publishes a download
\* that is whole.
LEMMA LayerDone ==
  ASSUME TarsApart, AnswerInv, HitInv, NEW p, FetchHit(p) \/ ExtractedMember(p) \/ Publish(p)
  PROVE  HitInv'
  <1>1. Shared /\ p \in Callers /\ Building(p)
    BY DEF AnswerInv, FetchHit, ExtractedMember, Publish, At, Building
  <1>2. UNCHANGED <<world, moved, met, base, cfg, data>>
    BY DEF FetchHit, ExtractedMember, Publish, outside, blobs, built
  <1>3. ASSUME NextLayer(p)
        PROVE  StepOf(p) /\ PlaceInv(p)' /\ proc'[p].id = proc[p].id /\ proc'[p].pc # "write" /\ Building(p)
    BY <1>1, <1>2, <1>3, NextLayerPlace DEF StepOf, Shared
  <1>4. CASE NextLayer(p) /\ FilesKept
    BY <1>2, <1>3, <1>4, QuietStep
  <1>5. CASE Publish(p) /\ partial[Layer(p)] # 0
    <2> DEFINE l == Layer(p)
    <2>1. /\ NextLayer(p) /\ ~Local(p) /\ proc[p].pc = "write" /\ proc[p].off = Chunks
          /\ blob' = [blob EXCEPT ![l] = partial[l]] /\ partial' = [partial EXCEPT ![l] = 0]
      BY <1>5 DEF Publish, At, AtEnd, Rebind
    <2>2. l \in Layers /\ Files
      BY <1>1, LayerOfImage DEF HitInv
    <2>3. OwnLayer(p)
      <3>1. partial'[l] \in Inodes
        BY <2>1, <2>2, SMTT(60) DEF Files, Inodes
      <3> QED
        BY <1>1, <1>2, <2>1, <2>2, <3>1 DEF OwnLayer, Files
    <2>4. Download(p)'
      BY <1>3, <2>1 DEF Download
    <2>5. ~met => data'[l][blob'[l]] = 1..Chunks
      <3>1. blob'[l] = partial[l]
        BY <2>1, <2>2 DEF Files
      <3>2. ~met => data[l][partial[l]] = 1..proc[p].off
        BY <1>1, <2>1 DEF HitInv, Download
      <3> QED
        BY <1>2, <2>1, <3>1, <3>2
    <2> QED
      BY <1>2, <1>3, <2>1, <2>3, <2>4, <2>5, OneLayer
  <1>6. CASE Publish(p) /\ partial[Layer(p)] = 0
    <2>1. FilesKept /\ proc' = [proc EXCEPT ![p] = Called(moved[Ref(p)])]
      BY <1>6 DEF Publish, FilesKept
    <2>2. StepOf(p) /\ proc'[p] = Called(moved[Ref(p)])
      BY <1>1, <1>2, <2>1, PlainStep
    <2> QED
      BY <1>2, <2>1, <2>2, AgainHits
  <1> QED
    BY <1>4, <1>5, <1>6 DEF FetchHit, ExtractedMember, blobs, FilesKept

\* File::create for a download: an empty file with the temporary name, which no
\* other build has open.
LEMMA FreshInode ==
  ASSUME AnswerInv, HitInv, ~met, NEW p \in Callers, proc[p].pc = "fetch",
         blob[Layer(p)] = 0, partial[Layer(p)] = 0
  PROVE  Fresh(Layer(p)) \in Inodes \ {0}
  <1> DEFINE Open == {proc[q].fd : q \in {r \in Callers : Building(r) /\ Layer(r) = Layer(p)}}
  <1>1. Building(p)
    BY DEF Building
  <1>2. \A q \in Callers : Building(q) /\ Layer(q) = Layer(p) => q = p
    BY <1>1, LayersDiffer
  <1>3. proc[p].fd = 0
    BY DEF HitInv, PlaceInv
  <1>4. 1 \notin {partial[Layer(p)], blob[Layer(p)]} \cup Open
    BY <1>2, <1>3, SMTT(60)
  <1>5. 1 \in Inodes \ {0}
    BY SMTT(60) DEF Inodes
  <1>6. \E n \in Inodes \ {0} : n \notin {partial[Layer(p)], blob[Layer(p)]} \cup Open
    BY <1>4, <1>5
  <1> QED
    BY <1>6 DEF Fresh

\* The file that File::create opens.
Opened(p, name) == IF name[Layer(p)] # 0 THEN name[Layer(p)] ELSE Fresh(Layer(p))

\* What File::create does, whatever the file is called.
LEMMA CreateParts ==
  ASSUME AnswerInv, HitInv, NEW p \in Callers, proc[p].pc = "fetch", NEW name, Create(p, name)
  PROVE  /\ DOMAIN proc' = Callers /\ \A q \in Callers \ {p} : proc'[q] = proc[q]
         /\ proc'[p].id = proc[p].id /\ proc'[p].k = proc[p].k /\ proc'[p].off = 0
         /\ proc'[p].pc = "write" /\ proc'[p].fd = Opened(p, name)
         /\ data' = [data EXCEPT ![Layer(p)][Opened(p, name)] = {}]
         /\ PlaceInv(p)'
  <1>1. DOMAIN proc = Callers /\ DOMAIN proc[p] = Fields
    BY DEF AnswerInv, Shared, ProcInv
  <1> DEFINE n == Opened(p, name)
  <1>2. proc' = [proc EXCEPT ![p].pc = "write", ![p].fd = n] /\ data' = [data EXCEPT ![Layer(p)][n] = {}]
    BY DEF Create, Opened
  <1> HIDE DEF n
  <1>3. /\ DOMAIN proc' = Callers /\ \A q \in Callers \ {p} : proc'[q] = proc[q]
        /\ proc'[p].id = proc[p].id /\ proc'[p].k = proc[p].k /\ proc'[p].off = proc[p].off
        /\ proc'[p].pc = "write" /\ proc'[p].fd = n
    BY <1>1, <1>2 DEF Fields
  <1>4. proc[p].off = 0 /\ proc[p].k \in DOMAIN LayersOf[proc[p].id]
    BY DEF HitInv, PlaceInv, Building
  <1>5. 0 \in 0..Chunks
    BY CacheAssumption, SMTT(60)
  <1>6. PlaceInv(p)'
    <2>1. (proc[p].pc = "write")' /\ (proc[p].off \in 0..Chunks)' /\ (proc[p].k \in DOMAIN LayersOf[proc[p].id])'
      BY <1>3, <1>4, <1>5
    <2>2. Building(p)'
      BY <2>1 DEF Building
    <2> QED
      BY <2>1, <2>2 DEF PlaceInv
  <1> QED
    BY <1>2, <1>3, <1>4, <1>6 DEF n

\* The download of a layer, and a member of a tar, which is no registry's layer.
LEMMA CreateHits ==
  ASSUME TarsApart, AnswerInv, HitInv, NEW p, FetchBlob(p) \/ ExtractMember(p)
  PROVE  HitInv'
  <1> DEFINE l == Layer(p)
             Fd(name) == Opened(p, name)
  <1>1. Shared /\ Files /\ p \in Callers /\ Building(p) /\ proc[p].pc = "fetch"
    BY DEF AnswerInv, HitInv, FetchBlob, ExtractMember, At, Building
  <1>2. l \in Layers
    BY <1>1, LayerOfImage
  <1>3. UNCHANGED <<world, moved, met, base, cfg>>
    BY DEF FetchBlob, ExtractMember, outside, built
  <1>4. ASSUME NEW name, Create(p, name)
        PROVE  /\ StepOf(p) /\ PlaceInv(p)' /\ proc'[p].id = proc[p].id /\ proc'[p].pc = "write"
               /\ proc'[p].k = proc[p].k /\ proc'[p].off = 0 /\ proc'[p].fd = Fd(name)
               /\ data' = [data EXCEPT ![l][Fd(name)] = {}]
    <2>1. /\ DOMAIN proc' = Callers /\ \A q \in Callers \ {p} : proc'[q] = proc[q]
          /\ proc'[p].id = proc[p].id /\ proc'[p].k = proc[p].k /\ proc'[p].off = 0
          /\ proc'[p].pc = "write" /\ proc'[p].fd = Fd(name)
          /\ data' = [data EXCEPT ![l][Fd(name)] = {}]
          /\ PlaceInv(p)'
      BY <1>1, <1>4, CreateParts
    <2>2. StepOf(p)
      BY <1>1, <1>3, <2>1 DEF StepOf, Shared
    <2> QED
      BY <2>1, <2>2
  <1>5. proc'[p].id = proc[p].id /\ proc'[p].k = proc[p].k => Layer(p)' = l
    BY DEF Layer
  <1>6. Local(p)' = Local(p)
    BY <1>3 DEF Local, Ref
  <1> HIDE DEF l, Fd
  <1>7. ASSUME NEW m, data' = [data EXCEPT ![l][m] = {}]
        PROVE  /\ DOMAIN data' = Layers /\ \A x \in Layers : DOMAIN data'[x] = Inodes
               /\ \A x \in Layers \ {l} : data'[x] = data[x]
               /\ m \in Inodes => data'[l][m] = {}
    BY <1>1, <1>2, <1>7 DEF Files
  <1>8. CASE FetchBlob(p)
    <2>1. Create(p, partial) /\ ~Local(p) /\ blob[l] = 0 /\ blob' = blob
          /\ partial' = [partial EXCEPT ![l] = proc'[p].fd]
      BY <1>8 DEF FetchBlob, Rebind, l
    <2>2. ~met => Fd(partial) \in Inodes \ {0}
      <3>1. ~met /\ partial[l] = 0 => Fresh(l) \in Inodes \ {0}
        BY <1>1, <2>1, FreshInode DEF l
      <3>2. ~met => partial[l] \in Inodes
        BY <1>2 DEF HitInv, NamesFit
      <3> QED
        BY <3>1, <3>2 DEF Fd, Opened, l
    <2>3. partial'[l] = Fd(partial) /\ DOMAIN partial' = Layers /\ \A x \in Layers \ {l} : partial'[x] = partial[x]
      BY <1>1, <1>2, <1>4, <2>1 DEF Files
    <2>4. OwnLayer(p)
      BY <1>1, <1>4, <1>7, <2>1, <2>2, <2>3 DEF OwnLayer, Files, l
    <2>5. ~met => Download(p)'
      <3>1. ~met => data'[l][Fd(partial)] = {}
        BY <1>4, <1>7, <2>1, <2>2
      <3>2. 1..0 = {}
        BY SMTT(60)
      <3> QED
        BY <1>4, <1>5, <2>1, <2>2, <2>3, <3>1, <3>2 DEF Download
    <2>6. blob'[Layer(p)] = 0
      BY <2>1 DEF l
    <2> QED
      BY <1>1, <1>3, <1>4, <2>1, <2>4, <2>5, <2>6, OneLayer
  <1>9. CASE ExtractMember(p)
    <2>1. Create(p, blob) /\ Local(p) /\ partial' = partial /\ blob' = [blob EXCEPT ![l] = proc'[p].fd]
      BY <1>9 DEF ExtractMember, Rebind, l
    <2>2. DOMAIN blob' = Layers /\ \A x \in Layers \ {l} : blob'[x] = blob[x]
      BY <1>1, <2>1 DEF Files
    <2>3. met \/ partial'[l] \in Inodes
      BY <1>2, <2>1 DEF HitInv, NamesFit
    <2>4. OwnLayer(p)
      BY <1>1, <1>4, <1>7, <2>1, <2>2, <2>3 DEF OwnLayer, Files, l
    <2>5. Download(p)'
      BY <1>6, <2>1 DEF Download
    <2> QED
      BY <1>1, <1>3, <1>4, <2>1, <2>4, <2>5, OneLayer
  <1> QED
    BY <1>8, <1>9

\* A chunk goes to the file that the build has open.
LEMMA ChunkHits ==
  ASSUME TarsApart, AnswerInv, HitInv, NEW p, WriteChunk(p)
  PROVE  HitInv'
  <1> DEFINE l == Layer(p)
             fd == proc[p].fd
             off == proc[p].off
  <1>1. Shared /\ Files /\ p \in Callers /\ Building(p) /\ proc[p].pc = "write" /\ PlaceInv(p)
    BY DEF AnswerInv, HitInv, WriteChunk, At, Building
  <1>2. l \in Layers
    BY <1>1, LayerOfImage
  <1>3. UNCHANGED <<world, moved, met, base, cfg, partial, blob>>
    BY DEF WriteChunk, outside, built
  <1>4. DOMAIN proc = Callers /\ DOMAIN proc[p] = Fields
    BY <1>1 DEF AnswerInv, Shared, ProcInv
  <1>5. off \in Nat /\ off < Chunks /\ Chunks \in Nat /\ proc[p].k \in DOMAIN LayersOf[proc[p].id]
    BY <1>1, CacheAssumption, SMTT(60) DEF WriteChunk, PlaceInv
  <1>6. /\ DOMAIN proc' = Callers /\ \A q \in Callers \ {p} : proc'[q] = proc[q]
        /\ proc'[p].pc = "write" /\ proc'[p].id = proc[p].id /\ proc'[p].k = proc[p].k
        /\ proc'[p].fd = fd /\ proc'[p].off = off + 1
    BY <1>1, <1>4 DEF WriteChunk, Fields
  <1>7. StepOf(p)
    BY <1>1, <1>3, <1>6 DEF StepOf, Shared
  <1>8. PlaceInv(p)'
    BY <1>5, <1>6, SMTT(60) DEF PlaceInv, Building
  <1>9. Layer(p)' = l /\ Local(p)' = Local(p)
    BY <1>3, <1>6 DEF Layer, Local, Ref
  <1>10. data' = [data EXCEPT ![l][fd] = @ \cup {off + 1}]
    BY DEF WriteChunk
  <1>11. ~met => partial[l] \in Inodes
    BY <1>2 DEF HitInv, NamesFit
  <1> HIDE DEF l, fd, off
  <1>12. /\ DOMAIN data' = Layers /\ \A x \in Layers : DOMAIN data'[x] = Inodes
         /\ \A x \in Layers \ {l} : data'[x] = data[x]
         /\ fd \in Inodes => data'[l][fd] = data[l][fd] \cup {off + 1}
    BY <1>1, <1>2, <1>10 DEF Files
  <1>13. OwnLayer(p)
    BY <1>1, <1>3, <1>11, <1>12 DEF OwnLayer, Files, l
  <1>14. ASSUME ~met, ~Local(p)
         PROVE  blob[l] = 0 /\ fd = partial[l] /\ fd \in Inodes \ {0} /\ data[l][fd] = 1..off
    BY <1>1, <1>14 DEF HitInv, Download, l, fd, off
  <1>15. 1..off \cup {off + 1} = 1..off + 1
    BY <1>5, SMTT(60)
  <1>16. ~met => Download(p)'
    BY <1>3, <1>6, <1>9, <1>12, <1>14, <1>15 DEF Download
  <1>17. ~met /\ ~Local(p) => blob'[Layer(p)] = 0
    BY <1>3, <1>14 DEF l
  <1> QED
    BY <1>1, <1>3, <1>6, <1>7, <1>8, <1>13, <1>16, <1>17, OneLayer

\* The flattening reads the files only.
LEMMA FlattenHits ==
  ASSUME TarsApart, AnswerInv, HitInv, NEW p, FlattenOne(p)
  PROVE  HitInv'
  <1>1. Shared /\ p \in Callers /\ Building(p) /\ proc[p].pc = "flatten" /\ PlaceInv(p)
    BY DEF AnswerInv, HitInv, FlattenOne, At, Building
  <1>2. UNCHANGED <<world, moved, met, base, cfg>> /\ FilesKept
    BY DEF FlattenOne, outside, blobs, built, FilesKept
  <1>3. DOMAIN proc = Callers /\ DOMAIN proc[p] = Fields
    BY <1>1 DEF AnswerInv, Shared, ProcInv
  <1>4. proc[p].k \in 1..Len(LayersOf[proc[p].id]) /\ Len(LayersOf[proc[p].id]) \in Nat
        /\ DOMAIN LayersOf[proc[p].id] = 1..Len(LayersOf[proc[p].id])
    <2>1. proc[p].id \in Ids /\ proc[p].k \in DOMAIN LayersOf[proc[p].id]
      BY <1>1, LayerOfImage
    <2> QED
      BY <2>1, LayerSeqs
  <1> DEFINE last == proc[p].k = Len(LayersOf[proc[p].id])
  <1>5. /\ DOMAIN proc' = Callers /\ \A q \in Callers \ {p} : proc'[q] = proc[q]
        /\ proc'[p].id = proc[p].id /\ proc'[p].fd = proc[p].fd /\ proc'[p].off = proc[p].off
        /\ \/ proc'[p].pc = "failed"
           \/ last /\ proc'[p].pc = "pack" /\ proc'[p].k = 1
           \/ ~last /\ proc'[p].pc = "flatten" /\ proc'[p].k = proc[p].k + 1
    BY <1>1, <1>3, SMTT(60) DEF FlattenOne, Fails, Goes, Fields
  <1>6. StepOf(p)
    BY <1>1, <1>2, <1>5 DEF StepOf, Shared
  <1>7. proc[p].fd = 0 /\ proc[p].off = 0
    BY <1>1 DEF PlaceInv
  <1>8. PlaceInv(p)'
    BY <1>4, <1>5, <1>7, SMTT(60) DEF PlaceInv, Building
  <1>9. proc'[p].pc # "write"
    BY <1>5
  <1> QED
    BY <1>1, <1>2, <1>5, <1>6, <1>8, <1>9, QuietStep

\* An empty cache, and builds that have not begun.
LEMMA InitHits == Init => HitInv
  <1> SUFFICES ASSUME Init PROVE HitInv
    OBVIOUS
  <1>1. Files /\ NamesFit /\ BlobsWhole
    BY SMTT(60) DEF Init, Files, NamesFit, BlobsWhole, Inodes
  <1>2. \A p \in Callers : proc[p].pc = "begin" /\ proc[p].k = 1 /\ proc[p].fd = 0 /\ proc[p].off = 0
    BY DEF Init, Callers, Called
  <1>3. \A p \in Callers : PlaceInv(p) /\ Download(p) /\ ~Building(p)
    BY <1>2 DEF PlaceInv, Download, Building
  <1> QED
    BY <1>1, <1>3 DEF HitInv, Apart

\* Every step keeps the invariant, when no tar has a layer of a registry image.
LEMMA NextHits ==
  ASSUME TarsApart
  PROVE  AnswerInv /\ HitInv /\ [Next]_vars => HitInv'
  <1> SUFFICES ASSUME AnswerInv, HitInv, [Next]_vars PROVE HitInv'
    OBVIOUS
  <1>1. ASSUME UNCHANGED <<world, proc, data, partial, blob, met>> PROVE HitInv'
    <2>1. Callers' = Callers
      BY <1>1 DEF Callers
    <2>2. Files' /\ (NamesFit' <=> NamesFit) /\ (BlobsWhole' <=> BlobsWhole)
      BY <1>1 DEF HitInv, Files, NamesFit, BlobsWhole
    <2>3. \A p \in Callers : PlaceInv(p)' /\ (Download(p)' <=> Download(p))
      BY <1>1 DEF HitInv, PlaceInv, Building, Download, Layer, Local, Ref
    <2>4. Apart' <=> Apart
      BY <1>1, <2>1, SMTT(60) DEF Apart, Building, LayersMeet
    <2> QED
      BY <1>1, <2>1, <2>2, <2>3, <2>4 DEF HitInv
  <1>2. CASE UNCHANGED vars
    BY <1>1, <1>2 DEF vars
  <1>3. ASSUME NEW r \in Refs, MoveTag(r) PROVE HitInv'
    BY <1>1, <1>3 DEF MoveTag, blobs
  <1>4. ASSUME NEW p \in Procs, Step(p) PROVE HitInv'
    BY <1>4, IdleSteps, MissHits, LayerDone, CreateHits, ChunkHits, FlattenHits DEF Step
  <1> QED
    BY <1>2, <1>3, <1>4, FaultHits DEF Next

\* A blob under its digest's name is whole, so that fetch_blob may take it without
\* reading it: however builds, failed downloads and crashes interleave, until two
\* builds meet on a layer.  The hypothesis is needed: extract_members writes a tar's
\* blobs in place, and a build killed there would leave a registry image that has
\* the same layer a cut blob.
THEOREM HitsAreComplete ==
  ASSUME TarsApart
  PROVE  Spec => []HitsComplete
  <1>1. AnswerInv /\ HitInv => HitsComplete
    <2> SUFFICES ASSUME HitInv, ~met, NEW r \in Tags, NEW i \in DOMAIN Serves[r], Named(r, i) # None,
                        NEW l \in Range(LayersOf[Named(r, i)]), blob[l] # 0
                 PROVE  data[l][blob[l]] = 1..Chunks
      BY DEF HitsComplete
    <2>1. OfTag(l)
      BY DEF OfTag
    <2>2. Named(r, i) \in Ids
      BY NamedAssumption DEF Refs
    <2>3. l \in Layers
      BY <2>2 DEF Layers
    <2> QED
      BY <2>1, <2>3 DEF HitInv, BlobsWhole
  <1> QED
    BY <1>1, AnswersInvariant, InitHits, NextHits, PTL DEF Spec
=============================================================================
