--------------------------- MODULE ReleaseToolProofs ---------------------------
(***************************************************************************)
(* Theorems about ReleaseTool, for any number of targets, runs and files.    *)
(***************************************************************************)
EXTENDS ReleaseTool, TLAPS

USE ToolAssumption

LEMMA PutContents ==
  ASSUME NEW l \in Contents, NEW f \in Files, NEW b \in Bytes
  PROVE  Put(l, f, b) \in Contents
<1>1. PICK fs \in SUBSET Files : l \in [fs -> Bytes]
  BY DEF Contents
<1>2. Put(l, f, b) \in [fs \cup {f} -> Bytes] /\ fs \cup {f} \in SUBSET Files
  BY <1>1 DEF Put
<1> QED
  BY <1>2 DEF Contents

LEMMA PutLists ==
  ASSUME NEW l \in Lists, NEW f \in Files, NEW e \in [size : Sizes, hash : Bytes \cup {Absent}]
  PROVE  Put(l, f, e) \in Lists
<1>1. PICK fs \in SUBSET Files : l \in [fs -> [size : Sizes, hash : Bytes \cup {Absent}]]
  BY DEF Lists
<1>2. /\ Put(l, f, e) \in [fs \cup {f} -> [size : Sizes, hash : Bytes \cup {Absent}]]
      /\ fs \cup {f} \in SUBSET Files
  BY <1>1 DEF Put
<1> QED
  BY <1>2 DEF Lists

LEMMA ListsHoldEntries ==
  ASSUME NEW l \in Lists
  PROVE  DOMAIN l \subseteq Files /\ \A f \in DOMAIN l : l[f] \in [size : Sizes, hash : Bytes \cup {Absent}]
<1>1. PICK fs \in SUBSET Files : l \in [fs -> [size : Sizes, hash : Bytes \cup {Absent}]]
  BY DEF Lists
<1> QED
  BY <1>1

LEMMA NoListIsOne == NoList \in Lists /\ NoList \in Contents /\ DOMAIN NoList = {}
<1>1. NoList \in [{} -> Bytes] /\ NoList \in [{} -> [size : Sizes, hash : Bytes \cup {Absent}]]
  BY DEF NoList
<1> QED
  BY <1>1 DEF Lists, Contents, NoList

LEMMA ToolInit == Init => ToolInv
<1> SUFFICES ASSUME Init PROVE ToolInv
  OBVIOUS
<1>1. [Started EXCEPT !.list = NoList] \in Runs
  BY NoListIsOne DEF Started, Runs, Sizes
<1>2. \A p \in Packs : pack[p].at = "collect" /\ pack[p].list = NoList /\ pack[p] \in Runs
  BY <1>1 DEF Init, Started
<1>3. ToolTypeOK
  BY <1>1 DEF Init, ToolTypeOK
<1>4. OneOwner
  BY <1>2 DEF OneOwner, Owns
<1>5. \A p \in Packs : Pending(p) /\ ListIsRight(p)
  BY <1>2, NoListIsOne DEF Pending, ListIsRight, Exposed
<1> QED
  BY <1>3, <1>4, <1>5 DEF ToolInv, Init, DescribesAll

\* What every step of a run p of pack leaves right about the other runs, and about what was
\* described before: only the package that p created, or creates, may change.
LEMMA PackStep ==
  ASSUME ToolInv, NEW p \in Packs, NEW c \in Runs, Goes(p, c),
         UNCHANGED <<dir, merged, signature>>,
         NEW z \in Packages \cup {Absent}, zip' = [zip EXCEPT ![Mine(p)] = z],
         z = zip[Mine(p)] \/ pack[p].at = "zip" \/ zip[Mine(p)] = Absent,
         pack[p].at # "done",
         c.at \in {"zip", "describe", "done"} =>
           z # Absent /\ (Owns(p) \/ zip[Mine(p)] = Absent),
         Pending(p)', ListIsRight(p)',
         single' \in [Targets -> Manifests \cup {Absent}],
         \A t \in Targets : \A m : m = single'[t] /\ m # Absent =>
            m = single[t] \/ IsDescribedBy(m, t)'
  PROVE  ToolInv'
<1>1. /\ Mine(p) \in Targets /\ pack'[p] = c /\ zip'[Mine(p)] = z
      /\ \A q \in Packs \ {p} : pack'[q] = pack[q]
      /\ \A t \in Targets \ {Mine(p)} : zip'[t] = zip[t]
      /\ \A q \in Packs : Mine(q) \in Targets
  BY DEF ToolInv, ToolTypeOK, Goes, Mine
<1>2. ToolTypeOK'
  BY <1>1 DEF ToolInv, ToolTypeOK, Goes
<1>3. \A q \in Packs \ {p} : Owns(q) /\ Mine(q) = Mine(p) => zip' = zip
  <2>1. SUFFICES ASSUME NEW q \in Packs \ {p}, Owns(q), Mine(q) = Mine(p)
                 PROVE  zip' = zip
    OBVIOUS
  <2>2. zip[Mine(p)] # Absent /\ pack[p].at # "zip"
    BY <2>1 DEF ToolInv, OneOwner, Owns
  <2> QED
    BY <2>2 DEF ToolInv, ToolTypeOK
<1>4. \A q \in Packs \ {p} : Owns(q)' = Owns(q) /\ (Owns(q) => zip'[Mine(q)] = zip[Mine(q)])
  BY <1>1, <1>3 DEF Owns
<1>5. OneOwner'
  <2>1. \A q \in Packs : Owns(q)' => zip'[Mine(q)] # Absent
    BY <1>1, <1>4 DEF ToolInv, OneOwner, Owns
  <2>2. \A q \in Packs \ {p} : Owns(p)' /\ Owns(q)' => Mine(p) # Mine(q)
    BY <1>1, <1>4 DEF ToolInv, OneOwner, Owns
  <2>3. \A q, r \in Packs \ {p} : Owns(q)' /\ Owns(r)' /\ Mine(q) = Mine(r) => q = r
    BY <1>4 DEF ToolInv, OneOwner
  <2> QED
    BY <2>1, <2>2, <2>3 DEF OneOwner, Mine
<1>6. \A q \in Packs : Pending(q)' /\ ListIsRight(q)'
  <2>1. TAKE q \in Packs
  <2>2. CASE q = p
    BY <2>2
  <2>3. CASE q # p
    <3>1. pack'[q] = pack[q] /\ Pending(q) /\ ListIsRight(q) /\ dir' = dir
      BY <1>1, <2>3 DEF ToolInv
    <3>2. pack[q].at \in {"zip", "describe"} => zip'[Mine(q)] = zip[Mine(q)]
      BY <1>4, <2>3 DEF Owns
    <3>3. Pending(q)'
      BY <3>1, <3>2 DEF Pending, Unhashed, Mine
    <3>4. ListIsRight(q)'
      BY <3>1, <3>2 DEF ListIsRight, Exposed, AgreesOn, Unhashed, Mine
    <3> QED
      BY <3>3, <3>4
  <2> QED
    BY <2>2, <2>3
<1>7. \A t \in Targets : \A m : IsDescribedBy(m, t) => IsDescribedBy(m, t)'
  <2>1. SUFFICES ASSUME NEW t \in Targets, NEW m, IsDescribedBy(m, t)
                 PROVE  IsDescribedBy(m, t)'
    OBVIOUS
  <2>2. PICK q \in Packs : Mine(q) = t /\ pack[q].at = "done"
    BY <2>1 DEF IsDescribedBy
  <2>3. q # p /\ pack'[q] = pack[q] /\ zip'[t] = zip[t]
    BY <1>1, <1>4, <2>2 DEF Owns
  <2>4. \E r \in Packs : Mine(r) = t /\ pack'[r].at = "done"
    BY <2>2, <2>3
  <2> QED
    BY <2>1, <2>3, <2>4 DEF IsDescribedBy, Mine
<1>8. \A t \in Targets : single'[t] # Absent => \A m : m = single'[t] => IsDescribedBy(m, t)'
  BY <1>7 DEF ToolInv
<1>9. (DescribesAll(merged) /\ DescribesAll(signature))'
  BY <1>7 DEF ToolInv, DescribesAll
<1> QED
  BY <1>2, <1>5, <1>6, <1>8, <1>9 DEF ToolInv

\* A step of pack that writes nothing.
LEMMA ReadingStep ==
  ASSUME ToolInv, NEW p \in Packs, NEW c \in Runs, Goes(p, c),
         UNCHANGED <<dir, edits, Outputs>>, pack[p].at # "done",
         c.at \notin {"zip", "describe", "done"}, Pending(p)', ListIsRight(p)'
  PROVE  ToolInv'
<1>1. /\ Mine(p) \in Targets /\ zip[Mine(p)] \in Packages \cup {Absent}
      /\ zip' = [zip EXCEPT ![Mine(p)] = zip[Mine(p)]]
  BY DEF ToolInv, ToolTypeOK, Outputs, Mine
<1>2. /\ UNCHANGED <<dir, merged, signature>> /\ single' = single
      /\ single' \in [Targets -> Manifests \cup {Absent}]
  BY DEF Outputs, ToolInv, ToolTypeOK
<1> QED
  BY <1>1, <1>2, PackStep

LEMMA ToolNext == ToolInv /\ [Next]_vars => ToolInv'
<1> SUFFICES ASSUME ToolInv, [Next]_vars PROVE ToolInv'
  OBVIOUS
<1>0. \A p \in Packs : /\ pack[p] \in Runs /\ Pending(p) /\ ListIsRight(p) /\ Mine(p) \in Targets
                       /\ DOMAIN pack[p].list \subseteq Files
  BY ListsHoldEntries DEF ToolInv, ToolTypeOK, Mine, Runs
<1>1. CASE UNCHANGED vars
  <2>1. UNCHANGED <<dir, pack, zip, single, merged, signature>>
    BY <1>1 DEF vars
  <2>2. ToolTypeOK' /\ OneOwner'
    BY <2>1 DEF ToolInv, ToolTypeOK, OneOwner, Owns, Mine
  <2>3. \A p \in Packs : Pending(p)' /\ ListIsRight(p)'
    <3>1. \A p \in Packs : Pending(p)'
      BY <1>0, <2>1 DEF Pending, Unhashed, Mine
    <3>2. ASSUME NEW p \in Packs PROVE ListIsRight(p)'
      <4>1. Exposed(p)' = Exposed(p) /\ Unhashed(p)' = Unhashed(p)
        BY <2>1 DEF Exposed, Unhashed
      <4> QED
        BY <1>0, <2>1, <4>1 DEF ListIsRight, Mine
    <3> QED
      BY <3>1, <3>2
  <2>4. \A u, m : IsDescribedBy(m, u) => IsDescribedBy(m, u)'
    BY <2>1 DEF IsDescribedBy
  <2> QED
    BY <2>1, <2>2, <2>3, <2>4 DEF ToolInv, DescribesAll
<1>2. ASSUME NEW t \in Targets, NEW f \in Files, Edits(t, f)
      PROVE  ToolInv'
  <2>1. /\ UNCHANGED <<zip, single, merged, signature>>
        /\ \A p \in Packs : /\ pack'[p].at = pack[p].at /\ pack'[p].list = pack[p].list
                            /\ pack'[p].size = pack[p].size /\ pack'[p].todo = pack[p].todo
                            /\ pack[p].touched \subseteq pack'[p].touched
                            /\ Mine(p) = t /\ f \in Exposed(p) => f \in pack'[p].touched
        /\ \A u \in Targets, g \in Files : u # t \/ g # f => dir'[u][g] = dir[u][g]
        /\ \A u \in Targets \ {t} : dir'[u] = dir[u]
    BY <1>0, <1>2 DEF Edits, ToolInv, ToolTypeOK, Runs
  <2>2. ToolTypeOK'
    <3>1. dir' \in [Targets -> [Files -> Bytes \cup {Absent}]]
      BY <1>2 DEF Edits, ToolInv, ToolTypeOK
    <3>2. pack' \in [Packs -> Runs]
      <4>1. \A p \in Packs : [pack[p] EXCEPT !.touched = @ \cup {f}] \in Runs
        BY <1>0 DEF Runs
      <4> QED
        BY <1>0, <1>2, <4>1 DEF Edits
    <3> QED
      BY <2>1, <3>1, <3>2 DEF ToolInv, ToolTypeOK
  <2>3. OneOwner'
    BY <2>1 DEF ToolInv, OneOwner, Owns, Mine
  <2>4. \A p \in Packs : Pending(p)'
    BY <1>0, <2>1 DEF Pending, Unhashed, Mine
  <2>5. \A p \in Packs : ListIsRight(p)'
    <3>1. TAKE p \in Packs
    <3>2. Exposed(p)' = Exposed(p) /\ Unhashed(p)' = Unhashed(p) /\ zip' = zip
      BY <2>1 DEF Exposed, Unhashed
    <3>3. \A g \in Exposed(p) \ pack'[p].touched :
            g \in Exposed(p) \ pack[p].touched /\ dir'[Mine(p)][g] = dir[Mine(p)][g]
      <4>1. Exposed(p) \subseteq Files
        BY <1>0 DEF Exposed, Runs
      <4> QED
        BY <1>0, <2>1, <4>1
    <3>4. \A e, g : AgreesOn(pack'[p], e, g) <=> AgreesOn(pack[p], e, g)
      BY <2>1 DEF AgreesOn
    <3>5. \A g \in Exposed(p)' \ pack'[p].touched :
            IF g \in Unhashed(p)' THEN pack'[p].size = Size[dir'[Mine(p)][g]]
              ELSE AgreesOn(pack'[p], dir'[Mine(p)], g)
      BY <1>0, <2>1, <3>2, <3>3 DEF ListIsRight, AgreesOn
    <3>6. pack'[p].at \in {"zip", "describe"} =>
            \A g \in DOMAIN zip'[Mine(p)].entries \ pack'[p].touched :
              AgreesOn(pack'[p], zip'[Mine(p)].entries, g)
      BY <1>0, <2>1, <3>2, <3>4 DEF ListIsRight
    <3> QED
      BY <3>5, <3>6 DEF ListIsRight, Mine
  <2>6. \A u, m : IsDescribedBy(m, u) => IsDescribedBy(m, u)'
    BY <2>1 DEF IsDescribedBy, Mine
  <2> QED
    BY <2>1, <2>2, <2>3, <2>4, <2>5, <2>6 DEF ToolInv, DescribesAll
<1>3. ASSUME NEW p \in Packs, Collects(p)
      PROVE  ToolInv'
  <2> DEFINE c == [pack[p] EXCEPT !.at = IF Present(Mine(p)) = {} THEN "failed" ELSE "stat",
                                  !.todo = Present(Mine(p))]
  <2>1. c \in Runs
    BY <1>0 DEF Runs, Present
  <2>2. Goes(p, c) /\ UNCHANGED <<dir, edits, Outputs>> /\ pack[p].at = "collect"
    BY <1>3 DEF Collects
  <2>3. pack'[p] = c /\ c.list = NoList /\ DOMAIN c.list = {} /\ c.at \in {"stat", "failed"}
        /\ (c.at = "stat" => c.todo # {})
    BY <1>0, <2>2, NoListIsOne DEF Goes, ToolInv, ToolTypeOK, Pending, Runs
  <2>4. Pending(p)'
    BY <2>3 DEF Pending, Unhashed
  <2>5. ListIsRight(p)'
    BY <2>3 DEF ListIsRight, Exposed
  <2> QED
    BY <2>1, <2>2, <2>3, <2>4, <2>5, ReadingStep
<1>4. ASSUME NEW p \in Packs, NEW f \in Files, Stats(p, f)
      PROVE  ToolInv'
  <2> DEFINE c == [pack[p] EXCEPT !.at = "hash", !.todo = @ \ {f}, !.size = Size[dir[Mine(p)][f]],
                                  !.list = Put(@, f, [size |-> 0, hash |-> Absent])]
  <2>1. dir[Mine(p)][f] \in Bytes
    BY <1>0, <1>4 DEF Stats, ToolInv, ToolTypeOK
  <2>2. [size |-> 0, hash |-> Absent] \in [size : Sizes, hash : Bytes \cup {Absent}]
    BY DEF Sizes
  <2>3. Put(pack[p].list, f, [size |-> 0, hash |-> Absent]) \in Lists
    BY <1>0, <2>2, PutLists DEF Runs
  <2>4. c \in Runs
    BY <1>0, <2>1, <2>3 DEF Runs, Sizes
  <2>5. Goes(p, c) /\ UNCHANGED <<dir, edits, Outputs>> /\ pack[p].at = "stat"
    BY <1>4 DEF Stats
  <2>6. /\ pack'[p] = c /\ c.at = "hash" /\ c.touched = pack[p].touched /\ c.size = Size[dir[Mine(p)][f]]
        /\ DOMAIN c.list = DOMAIN pack[p].list \cup {f} /\ c.list[f].hash = Absent
        /\ \A g \in DOMAIN pack[p].list \ {f} : c.list[g] = pack[p].list[g] /\ c.list[g].hash # Absent
    <3>1. pack'[p] = c
      BY <2>5 DEF Goes, ToolInv, ToolTypeOK
    <3>2. /\ c.at = "hash" /\ c.touched = pack[p].touched /\ c.size = Size[dir[Mine(p)][f]]
          /\ c.list = Put(pack[p].list, f, [size |-> 0, hash |-> Absent])
      BY <1>0 DEF Runs
    <3>3. \A g \in DOMAIN pack[p].list : pack[p].list[g].hash # Absent
      BY <1>0, <2>5 DEF Pending, Unhashed
    <3>4. /\ DOMAIN c.list = DOMAIN pack[p].list \cup {f}
          /\ c.list[f] = [size |-> 0, hash |-> Absent]
          /\ \A g \in DOMAIN pack[p].list \ {f} : c.list[g] = pack[p].list[g]
      <4> HIDE DEF c
      <4> QED
        BY <3>2 DEF Put
    <3> HIDE DEF c
    <3> QED
      BY <3>1, <3>2, <3>3, <3>4
  <2>7. Pending(p)'
    BY <2>6 DEF Pending, Unhashed
  <2>8. ListIsRight(p)'
    <3> HIDE DEF c
    <3>1. /\ Exposed(p)' = DOMAIN c.list /\ Exposed(p) = DOMAIN pack[p].list
          /\ Unhashed(p)' = {f} /\ Unhashed(p) = {} /\ UNCHANGED <<dir, zip>>
      BY <1>0, <2>5, <2>6 DEF Exposed, Unhashed, Pending, Outputs
    <3>2. \A g \in DOMAIN pack[p].list \ pack[p].touched : AgreesOn(pack[p], dir[Mine(p)], g)
      BY <1>0, <3>1 DEF ListIsRight
    <3>3. \A g \in DOMAIN c.list \ c.touched : g # f => AgreesOn(c, dir[Mine(p)], g)
      BY <2>6, <3>2 DEF AgreesOn
    <3> QED
      BY <2>6, <3>1, <3>3 DEF ListIsRight, Mine
  <2> QED
    BY <2>4, <2>5, <2>6, <2>7, <2>8, ReadingStep
<1>5. ASSUME NEW p \in Packs, NEW f \in Files, Hashes(p, f)
      PROVE  ToolInv'
  <2> DEFINE e == [size |-> pack[p].size, hash |-> dir[Mine(p)][f]]
             c == [pack[p] EXCEPT !.at = IF pack[p].todo = {} THEN "create" ELSE "stat",
                                  !.list = Put(@, f, e)]
  <2>1. dir[Mine(p)][f] \in Bytes
    BY <1>0, <1>5 DEF Hashes, ToolInv, ToolTypeOK
  <2>2. e \in [size : Sizes, hash : Bytes \cup {Absent}]
    BY <1>0, <2>1 DEF Runs
  <2>3. Put(pack[p].list, f, e) \in Lists
    BY <1>0, <2>2, PutLists DEF Runs
  <2>4. c \in Runs
    BY <1>0, <2>3 DEF Runs
  <2>5. /\ Goes(p, c) /\ UNCHANGED <<dir, edits, Outputs>> /\ pack[p].at = "hash"
        /\ f \in DOMAIN pack[p].list /\ f \in Unhashed(p)
    BY <1>5 DEF Hashes, Unhashed
  <2>6. /\ pack'[p] = c /\ c.at \in {"create", "stat"} /\ c.touched = pack[p].touched
        /\ c.at = "stat" => c.todo # {}
        /\ DOMAIN c.list = DOMAIN pack[p].list /\ c.list[f] = e
        /\ \A g \in DOMAIN pack[p].list \ {f} : c.list[g] = pack[p].list[g] /\ c.list[g].hash # Absent
    <3>1. pack'[p] = c
      BY <2>5 DEF Goes, ToolInv, ToolTypeOK
    <3>2. /\ c.at = IF pack[p].todo = {} THEN "create" ELSE "stat"
          /\ c.touched = pack[p].touched /\ c.todo = pack[p].todo
          /\ c.list = Put(pack[p].list, f, e)
      BY <1>0 DEF Runs
    <3>3. \A g \in DOMAIN pack[p].list \ {f} : pack[p].list[g].hash # Absent
      BY <1>0, <2>5 DEF Pending, Unhashed
    <3>4. /\ DOMAIN c.list = DOMAIN pack[p].list \cup {f} /\ c.list[f] = e
          /\ \A g \in DOMAIN pack[p].list \ {f} : c.list[g] = pack[p].list[g]
      <4> HIDE DEF c
      <4> QED
        BY <3>2 DEF Put
    <3> HIDE DEF c
    <3> QED
      BY <2>5, <3>1, <3>2, <3>3, <3>4
  <2>7. Unhashed(p)' = {}
    BY <2>1, <2>6 DEF Unhashed
  <2>8. Pending(p)'
    BY <2>6, <2>7 DEF Pending
  <2>9. ListIsRight(p)'
    <3> HIDE DEF c
    <3>1. /\ Exposed(p)' = DOMAIN pack[p].list /\ Exposed(p) = DOMAIN pack[p].list
          /\ \A g \in Unhashed(p) : g = f
          /\ UNCHANGED <<dir, zip>>
      BY <1>0, <2>5, <2>6 DEF Exposed, Pending, Outputs
    <3>2. \A g \in DOMAIN pack[p].list \ pack[p].touched :
            g # f => AgreesOn(pack[p], dir[Mine(p)], g)
      BY <1>0, <3>1 DEF ListIsRight
    <3>3. f \notin pack[p].touched => pack[p].size = Size[dir[Mine(p)][f]]
      BY <1>0, <2>5, <3>1 DEF ListIsRight
    <3>4. \A g \in DOMAIN c.list \ c.touched : AgreesOn(c, dir[Mine(p)], g)
      BY <2>6, <3>2, <3>3 DEF AgreesOn
    <3> QED
      BY <2>6, <2>7, <3>1, <3>4 DEF ListIsRight, Mine
  <2> QED
    BY <2>4, <2>5, <2>6, <2>8, <2>9, ReadingStep
<1>6. ASSUME NEW p \in Packs, Creates(p)
      PROVE  ToolInv'
  <2> DEFINE z == [entries |-> NoList, whole |-> FALSE]
             c == [pack[p] EXCEPT !.at = "zip", !.todo = DOMAIN pack[p].list]
  <2>1. z \in Packages /\ c \in Runs
    BY <1>0, NoListIsOne DEF Packages, Runs
  <2>2. /\ Goes(p, c) /\ pack[p].at = "create" /\ zip[Mine(p)] = Absent
        /\ zip' = [zip EXCEPT ![Mine(p)] = z] /\ UNCHANGED <<dir, merged, signature, single>>
    BY <1>6 DEF Creates
  <2>3. /\ pack'[p] = c /\ zip'[Mine(p)] = z /\ c.at = "zip" /\ c.list = pack[p].list
        /\ c.todo = DOMAIN pack[p].list /\ c.touched = pack[p].touched
    BY <1>0, <2>2 DEF Goes, ToolInv, ToolTypeOK, Runs
  <2>4. Pending(p)'
    BY <1>0, <2>2, <2>3, NoListIsOne DEF Pending, Unhashed, Mine
  <2>5. ListIsRight(p)'
    BY <1>0, <2>2, <2>3, NoListIsOne DEF ListIsRight, Exposed, AgreesOn, Unhashed, Mine
  <2>6. single' \in [Targets -> Manifests \cup {Absent}]
    BY <2>2 DEF ToolInv, ToolTypeOK
  <2> QED
    BY <2>6, <2>1, <2>2, <2>3, <2>4, <2>5, PackStep
<1>7. ASSUME NEW p \in Packs, NEW f \in Files, Adds(p, f)
      PROVE  ToolInv'
  <2> DEFINE z == [zip[Mine(p)] EXCEPT !.entries = Put(@, f, dir[Mine(p)][f])]
             c == [pack[p] EXCEPT !.todo = @ \ {f}]
  <2>1. pack[p].at = "zip" /\ Owns(p) /\ zip[Mine(p)] \in Packages
    BY <1>0, <1>7 DEF Adds, Owns, ToolInv, OneOwner, ToolTypeOK
  <2>2. dir[Mine(p)][f] \in Bytes
    BY <1>0, <1>7 DEF Adds, ToolInv, ToolTypeOK
  <2>3. Put(zip[Mine(p)].entries, f, dir[Mine(p)][f]) \in Contents
    BY <2>1, <2>2, PutContents DEF Packages
  <2>4. z \in Packages /\ c \in Runs
    BY <1>0, <2>1, <2>3 DEF Packages, Runs
  <2>5. /\ Goes(p, c) /\ UNCHANGED <<dir, merged, signature, single>> /\ f \in pack[p].todo
        /\ zip' = [zip EXCEPT ![Mine(p)] = z]
    BY <1>7 DEF Adds, NextOf
  <2>6. /\ pack'[p] = c /\ zip'[Mine(p)] = z /\ c.at = "zip" /\ c.list = pack[p].list
        /\ c.todo = pack[p].todo \ {f} /\ c.touched = pack[p].touched /\ c.size = pack[p].size
        /\ DOMAIN z.entries = DOMAIN zip[Mine(p)].entries \cup {f}
        /\ z.entries[f] = dir[Mine(p)][f]
        /\ \A g \in DOMAIN zip[Mine(p)].entries \ {f} : z.entries[g] = zip[Mine(p)].entries[g]
    <3>1. pack'[p] = c /\ zip'[Mine(p)] = z
      BY <1>0, <2>5 DEF Goes, ToolInv, ToolTypeOK
    <3>2. /\ c.at = "zip" /\ c.list = pack[p].list /\ c.todo = pack[p].todo \ {f}
          /\ c.touched = pack[p].touched /\ c.size = pack[p].size
      BY <1>0, <2>1 DEF Runs
    <3>3. z.entries = Put(zip[Mine(p)].entries, f, dir[Mine(p)][f])
      BY <2>1 DEF Packages
    <3>4. /\ DOMAIN z.entries = DOMAIN zip[Mine(p)].entries \cup {f}
          /\ z.entries[f] = dir[Mine(p)][f]
          /\ \A g \in DOMAIN zip[Mine(p)].entries \ {f} : z.entries[g] = zip[Mine(p)].entries[g]
      <4> HIDE DEF z
      <4> QED
        BY <3>3 DEF Put
    <3> HIDE DEF c, z
    <3> QED
      BY <3>1, <3>2, <3>4
  <2>7. Pending(p)'
    <3>1. DOMAIN zip[Mine(p)].entries \cup pack[p].todo = DOMAIN pack[p].list /\ Unhashed(p) = {}
      BY <1>0, <2>1 DEF Pending
    <3>2. Unhashed(p)' = Unhashed(p)
      BY <2>6 DEF Unhashed
    <3> HIDE DEF c, z
    <3>3. DOMAIN z.entries \cup c.todo = DOMAIN c.list
      BY <2>5, <2>6, <3>1
    <3> QED
      BY <2>6, <3>1, <3>2, <3>3 DEF Pending, Mine
  <2>8. ListIsRight(p)'
    <3> HIDE DEF c, z
    <3>1. /\ Exposed(p) = pack[p].todo /\ Exposed(p)' = pack[p].todo \ {f}
          /\ Unhashed(p) = {} /\ Unhashed(p)' = {} /\ dir' = dir
      BY <1>0, <2>1, <2>5, <2>6 DEF Exposed, Unhashed, Pending
    <3>2. \A e, g : AgreesOn(c, e, g) <=> AgreesOn(pack[p], e, g)
      BY <2>6 DEF AgreesOn
    <3>3. \A g \in pack[p].todo \ pack[p].touched : AgreesOn(pack[p], dir[Mine(p)], g)
      BY <1>0, <3>1 DEF ListIsRight
    <3>4. \A g \in DOMAIN zip[Mine(p)].entries \ pack[p].touched :
            AgreesOn(pack[p], zip[Mine(p)].entries, g)
      BY <1>0, <2>1 DEF ListIsRight
    <3>5. \A g \in DOMAIN z.entries \ c.touched : AgreesOn(pack[p], z.entries, g)
      BY <2>5, <2>6, <3>3, <3>4 DEF AgreesOn
    <3> QED
      BY <2>6, <3>1, <3>2, <3>3, <3>5 DEF ListIsRight, Mine
  <2>9. single' \in [Targets -> Manifests \cup {Absent}]
    BY <2>5 DEF ToolInv, ToolTypeOK
  <2> QED
    BY <2>9, <2>1, <2>4, <2>5, <2>6, <2>7, <2>8, PackStep
<1>8. ASSUME NEW p \in Packs, Finishes(p)
      PROVE  ToolInv'
  <2> DEFINE z == [zip[Mine(p)] EXCEPT !.whole = TRUE]
             c == [pack[p] EXCEPT !.at = "describe"]
  <2>1. pack[p].at = "zip" /\ Owns(p) /\ zip[Mine(p)] \in Packages /\ pack[p].todo = {}
    BY <1>0, <1>8 DEF Finishes, Owns, ToolInv, OneOwner, ToolTypeOK
  <2>2. z \in Packages /\ c \in Runs
    <3>1. z \in Packages
      BY <2>1 DEF Packages
    <3>2. c \in Runs
      BY <1>0 DEF Runs
    <3> QED
      BY <3>1, <3>2
  <2>3. Goes(p, c) /\ UNCHANGED <<dir, merged, signature, single>> /\ zip' = [zip EXCEPT ![Mine(p)] = z]
    BY <1>8 DEF Finishes
  <2>4. /\ pack'[p] = c /\ zip'[Mine(p)] = z /\ c.at = "describe" /\ c.list = pack[p].list
        /\ c.touched = pack[p].touched /\ z.whole /\ z.entries = zip[Mine(p)].entries
    <3>1. pack'[p] = c /\ zip'[Mine(p)] = z
      BY <1>0, <2>3 DEF Goes, ToolInv, ToolTypeOK
    <3>2. c.at = "describe" /\ c.list = pack[p].list /\ c.touched = pack[p].touched
      BY <1>0 DEF Runs
    <3>3. z.whole /\ z.entries = zip[Mine(p)].entries
      BY <2>1 DEF Packages
    <3> QED
      BY <3>1, <3>2, <3>3
  <2>5. Pending(p)'
    <3>1. DOMAIN zip[Mine(p)].entries = DOMAIN pack[p].list /\ Unhashed(p) = {}
      BY <1>0, <2>1 DEF Pending
    <3>2. Unhashed(p)' = Unhashed(p)
      BY <2>4 DEF Unhashed
    <3> QED
      BY <2>4, <3>1, <3>2 DEF Pending, Mine
  <2>6. ListIsRight(p)'
    <3> HIDE DEF c, z
    <3>1. Exposed(p)' = {}
      BY <2>4 DEF Exposed
    <3>2. \A e, f : AgreesOn(c, e, f) <=> AgreesOn(pack[p], e, f)
      BY <2>4 DEF AgreesOn
    <3>3. \A f \in DOMAIN z.entries \ c.touched : AgreesOn(c, z.entries, f)
      BY <1>0, <2>1, <2>4, <3>2 DEF ListIsRight
    <3> QED
      BY <2>4, <3>1, <3>3 DEF ListIsRight, Mine
  <2>7. single' \in [Targets -> Manifests \cup {Absent}]
    BY <2>3 DEF ToolInv, ToolTypeOK
  <2> QED
    BY <2>7, <2>1, <2>2, <2>3, <2>4, <2>5, <2>6, PackStep
<1>9. ASSUME NEW p \in Packs, Describes(p)
      PROVE  ToolInv'
  <2> DEFINE t == Mine(p)
             z == zip[t]
             s == [list |-> pack[p].list, package |-> z, touched |-> pack[p].touched]
             c == [pack[p] EXCEPT !.at = "done"]
  <2>1. pack[p].at = "describe" /\ Owns(p) /\ z \in Packages /\ z # Absent
    BY <1>0, <1>9 DEF Describes, Owns, ToolInv, OneOwner, ToolTypeOK
  <2>2. c \in Runs
    BY <1>0 DEF Runs
  <2>3. /\ Goes(p, c) /\ UNCHANGED <<dir, merged, signature, zip>>
        /\ single' = [single EXCEPT ![t] = s] /\ zip' = [zip EXCEPT ![t] = z]
    BY <1>0, <1>9 DEF Describes, ToolInv, ToolTypeOK
  <2>4. pack'[p] = c /\ c.at = "done"
    BY <1>0, <2>3 DEF Goes, ToolInv, ToolTypeOK, Runs
  <2>5. Pending(p)' /\ ListIsRight(p)'
    BY <2>4 DEF Pending, ListIsRight, Exposed
  <2>6. z.whole /\ DOMAIN z.entries = DOMAIN s.list /\ Unhashed(p) = {}
    BY <1>0, <2>1 DEF Pending
  <2>7. \A f \in DOMAIN s.list \ s.touched : AgreesOn(s, z.entries, f)
    <3>1. \A e, f : AgreesOn(s, e, f) <=> AgreesOn(pack[p], e, f)
      BY DEF AgreesOn
    <3>2. \A f \in DOMAIN z.entries \ pack[p].touched : AgreesOn(pack[p], z.entries, f)
      BY <1>0, <2>1 DEF ListIsRight
    <3> QED
      BY <2>6, <3>1, <3>2
  <2>8. zip'[t] = z /\ pack'[p].at = "done"
    BY <2>3, <2>4
  <2>9. \A m, u : m = s /\ u = t => IsDescribedBy(m, u)'
    BY <2>6, <2>7, <2>8 DEF IsDescribedBy, Mine
  <2>10. \A u \in Targets : \A m : m = single'[u] /\ m # Absent => m = single[u] \/ IsDescribedBy(m, u)'
    BY <1>0, <2>3, <2>9 DEF ToolInv, ToolTypeOK
  <2>11. single' \in [Targets -> Manifests \cup {Absent}]
    <3>1. s \in Manifests
      BY <1>0, <2>1 DEF Manifests, Runs
    <3> QED
      BY <2>3, <3>1 DEF ToolInv, ToolTypeOK
  <2> QED
    BY <2>1, <2>2, <2>3, <2>4, <2>5, <2>10, <2>11, PackStep
<1>10. ASSUME NEW p \in Packs, Fails(p)
       PROVE  ToolInv'
  <2> DEFINE c == [pack[p] EXCEPT !.at = "failed"]
  <2>1. c \in Runs
    BY <1>0 DEF Runs
  <2>2. Goes(p, c) /\ UNCHANGED <<dir, edits, Outputs>> /\ pack[p].at # "done"
    BY <1>10 DEF Fails
  <2>3. pack'[p] = c /\ c.at = "failed"
    BY <1>0, <2>2 DEF Goes, ToolInv, ToolTypeOK, Runs
  <2>4. Pending(p)' /\ ListIsRight(p)'
    BY <2>3 DEF Pending, ListIsRight, Exposed
  <2> QED
    BY <2>1, <2>2, <2>3, <2>4, ReadingStep
<1>11. CASE \/ \E ts \in SUBSET Targets : Merges(ts)
            \/ \E n \in Notes : AddsNotes(n)
            \/ Signs
  <2>1. UNCHANGED <<dir, pack, zip, single>>
    BY <1>11 DEF Merges, AddsNotes, Signs
  <2>2. \A u, m : IsDescribedBy(m, u) => IsDescribedBy(m, u)'
    BY <2>1 DEF IsDescribedBy
  <2>3. /\ ToolTypeOK' /\ OneOwner'
        /\ \A p \in Packs : Pending(p)' /\ ListIsRight(p)'
        /\ \A t \in Targets : single[t] # Absent => \A m : m = single[t] => IsDescribedBy(m, t)'
    <3>1. ToolTypeOK' /\ OneOwner'
      BY <2>1 DEF ToolInv, ToolTypeOK, OneOwner, Owns, Mine
    <3>2. ASSUME NEW p \in Packs PROVE Pending(p)' /\ ListIsRight(p)'
      <4>1. Pending(p) /\ ListIsRight(p)
        BY <1>0 DEF ToolInv
      <4>2. Exposed(p)' = Exposed(p) /\ Unhashed(p)' = Unhashed(p)
        BY <2>1 DEF Exposed, Unhashed
      <4>3. Pending(p)'
        BY <2>1, <4>1, <4>2 DEF Pending, Mine
      <4>4. ListIsRight(p)'
        BY <2>1, <4>1, <4>2 DEF ListIsRight, AgreesOn, Mine
      <4> QED
        BY <4>3, <4>4
    <3> QED
      BY <2>1, <2>2, <3>1, <3>2 DEF ToolInv
  <2>4. DescribesAll(merged)' /\ DescribesAll(signature)'
    <3>1. ASSUME NEW ts \in SUBSET Targets, Merges(ts)
          PROVE  DescribesAll(merged)' /\ DescribesAll(signature)'
      BY <2>2, <3>1 DEF Merges, DescribesAll, ToolInv
    <3>2. ASSUME NEW n \in Notes, AddsNotes(n)
          PROVE  DescribesAll(merged)' /\ DescribesAll(signature)'
      <4>1. merged # Absent /\ merged' = [merged EXCEPT !.notes = n] /\ signature' = signature
        BY <3>2 DEF AddsNotes
      <4> QED
        BY <2>2, <4>1 DEF DescribesAll, ToolInv
    <3>3. CASE Signs
      BY <2>2, <3>3 DEF Signs, DescribesAll, ToolInv
    <3> QED
      BY <1>11, <3>1, <3>2, <3>3
  <2> QED
    BY <2>1, <2>3, <2>4 DEF ToolInv
<1> QED
  BY <1>1, <1>2, <1>3, <1>4, <1>5, <1>6, <1>7, <1>8, <1>9, <1>10, <1>11 DEF Next

\* The inductive invariant: only the run that created a package writes to it, a list is right
\* about every file that nobody touched, and what describes a package describes one that
\* nobody writes to any more.
THEOREM ToolInvariant == Spec => []ToolInv
  BY ToolInit, ToolNext, PTL DEF Spec

\* A signature covers a manifest that still describes the packages it was made for.
THEOREM SignaturesHold == Spec => []SignedDescribesPackages
<1>1. ToolInv => SignedDescribesPackages
  BY DEF ToolInv, DescribesAll, IsDescribedBy, SignedDescribesPackages
<1> QED
  BY <1>1, ToolInvariant, PTL

\* A signed manifest can be wrong about its package only for a file that was changed while it
\* was listed and not packed.
THEOREM OnlyTouchedDiffer == Spec => []OnlyTouchedFilesDiffer
<1>1. ToolInv => OnlyTouchedFilesDiffer
  BY DEF ToolInv, DescribesAll, IsDescribedBy, OnlyTouchedFilesDiffer
<1> QED
  BY <1>1, ToolInvariant, PTL
=============================================================================
