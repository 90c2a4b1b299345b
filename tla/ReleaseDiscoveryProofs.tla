----------------------- MODULE ReleaseDiscoveryProofs -----------------------
(***************************************************************************)
(* Theorems about ReleaseDiscovery, for lists of any length and any feed.   *)
(***************************************************************************)
EXTENDS ReleaseDiscovery, TLAPS

USE ManifestsAssumption, ListsAssumption

LEMMA DiscoveryInit == Init => DiscoveryInv
<1> SUFFICES ASSUME Init PROVE DiscoveryInv
  OBVIOUS
<1> USE DEF Init
<1>1. Len(pairs) = 0 /\ pairs = <<>>
  OBVIOUS
<1>2. at \in 1 .. Len(pairs) + 1 /\ Len(pairs) <= ListLimit
  BY <1>1
<1>5. TypeOK
  BY <1>1, <1>2, Zenon DEF TypeOK
<1>3. Found = {}
  BY DEF Found, Eligible
<1>4. LoopInv
  BY <1>1, <1>3 DEF LoopInv
<1> QED
  BY <1>4, <1>5 DEF DiscoveryInv

\* Reading location pairs[at] adds it, and nothing else, to what was read.
LEMMA ReadAdds ==
  ASSUME DiscoveryInv, NEW m \in Manifests, Reads(m)
  PROVE  /\ pairs[at] \in Locations /\ got[pairs[at]] = NotRead
         /\ got' \in [Locations -> Manifests \cup {Bad, NotRead}]
         /\ got'[pairs[at]] = m
         /\ \A l \in Locations \ {pairs[at]} : got'[l] = got[l]
         /\ Found' = IF Eligible(m) THEN Found \cup {pairs[at]} ELSE Found
<1> USE DEF DiscoveryInv, TypeOK, LoopInv, Reads, AtNext
<1>1. pairs[at] \in Locations
  OBVIOUS
<1>2. got[pairs[at]] = NotRead
  BY <1>1
<1>3. /\ got' \in [Locations -> Manifests \cup {Bad, NotRead}]
      /\ got'[pairs[at]] = m
      /\ \A l \in Locations \ {pairs[at]} : got'[l] = got[l]
  BY <1>1
<1>4. \A l \in Locations : l \in Found' <=> IF l = pairs[at] THEN Eligible(m) ELSE l \in Found
  BY <1>1, <1>3 DEF Found, Eligible
<1>5. pairs[at] \notin Found
  BY <1>1, <1>2 DEF Found
<1> QED
  BY <1>1, <1>2, <1>3, <1>4, <1>5 DEF Found

LEMMA DiscoveryNext == DiscoveryInv /\ [Next]_vars => DiscoveryInv'
<1> SUFFICES ASSUME DiscoveryInv, [Next]_vars PROVE DiscoveryInv'
  OBVIOUS
<1> USE DEF DiscoveryInv, TypeOK
<1>0. Len(pairs) \in Nat
  OBVIOUS
<1>1. CASE UNCHANGED vars
  BY <1>1 DEF vars, LoopInv, Found, Eligible
<1>2. CASE Cancels \/ Stops \/ ListFails \/ SkipRepeat \/ Finishes
  <2>1. Found' = Found
    BY <1>2 DEF Cancels, Stops, ListFails, SkipRepeat, Finishes, Found, Eligible
  <2>2. pairs' = pairs /\ at' \in 1 .. Len(pairs) + 1
    BY <1>0, <1>2 DEF Cancels, Stops, ListFails, SkipRepeat, AtNext, Finishes
  <2>3. /\ UNCHANGED <<seen, got, history, best>>
        /\ cancelled' \in BOOLEAN
        /\ result' \in {"listing", "running", "done", "error", "cancelled"}
    BY <1>2 DEF Cancels, Stops, ListFails, SkipRepeat, AtNext, Finishes
  <2>4. TypeOK'
    BY <2>2, <2>3
  <2>5. LoopInv'
    BY <1>0, <1>2, <2>1 DEF Cancels, Stops, ListFails, SkipRepeat, AtNext, Finishes, LoopInv
  <2> QED
    BY <2>4, <2>5
<1>7. ASSUME NEW list \in Lists, Obtains(list)
      PROVE  DiscoveryInv'
  <2>1. Found' = Found
    BY <1>7 DEF Obtains, Found, Eligible
  <2>2. Len(list) \in Nat
    OBVIOUS
  <2>3. pairs' = list /\ at = 1 /\ at' \in 1 .. Len(pairs') + 1
    BY <1>7, <2>2 DEF Obtains, LoopInv
  <2>4. TypeOK'
    BY <1>7, <2>3 DEF Obtains
  <2>5. UNCHANGED <<at, seen, got, history, best>> /\ result' = "running" /\ result = "listing"
    BY <1>7 DEF Obtains
  <2>6. \A l \in seen : got[l] \in Manifests
    BY <2>5 DEF LoopInv
  <2>7. LoopInv'
    BY <2>1, <2>3, <2>5, <2>6 DEF LoopInv
  <2> QED
    BY <2>4, <2>7
<1>3. CASE ReadFails
  BY <1>0, <1>3 DEF ReadFails, Reads, AtNext, LoopInv
<1>4. ASSUME NEW m \in Manifests, Ignores(m)
      PROVE  DiscoveryInv'
  <2>1. Reads(m) /\ ~Eligible(m)
    BY <1>4 DEF Ignores
  <2>2. Found' = Found
    BY <2>1, ReadAdds
  <2>3. TypeOK'
    BY <1>0, <1>4, <2>1, ReadAdds DEF Ignores, Reads, AtNext
  <2>4. \A l \in Found : l # pairs[at]
    BY <2>1, ReadAdds DEF Found
  <2>5. LoopInv'
    BY <1>0, <1>4, <2>1, <2>2, <2>4, ReadAdds DEF Ignores, Reads, AtNext, LoopInv, Found
  <2> QED
    BY <2>3, <2>5
<1>5. ASSUME NEW m \in Manifests, Refuses(m)
      PROVE  DiscoveryInv'
  BY <1>0, <1>5, ReadAdds DEF Refuses, Reads, AtNext, LoopInv
<1>6. ASSUME NEW m \in Manifests, Takes(m)
      PROVE  DiscoveryInv'
  <2>1. Reads(m) /\ Eligible(m) /\ ~Conflicts(m)
    BY <1>6 DEF Takes
  <2>2. m.version \in Newer /\ m.version \in Nat /\ m.notes \in Notes
    BY DEF Newer
  <2>3. TypeOK'
    BY <1>0, <1>6, <2>1, <2>2, ReadAdds DEF Takes, Reads, AtNext, WithNotes
  <2>4. /\ Found' = Found \cup {pairs[at]} /\ got'[pairs[at]] = m
        /\ \A l \in Found : l # pairs[at] /\ got'[l] = got[l] /\ got[l] \in Manifests
        /\ got[pairs[at]] = NotRead
    BY <2>1, ReadAdds DEF Found
  <2>5. /\ seen' = {l \in Locations : got'[l] # NotRead}
        /\ result' = "running"
        /\ \A l \in seen' : got'[l] \in Manifests
        /\ \A k \in 1 .. at' - 1 : pairs'[k] \in seen'
    BY <1>0, <1>6, <2>1, ReadAdds DEF Takes, Reads, AtNext, LoopInv
  <2>6. /\ best' # Nothing /\ best' \in Found'
        /\ \A l \in Found' : got'[l].version <= got'[best'].version
    <3>1. CASE Improves(m)
      BY <1>6, <2>1, <2>2, <2>4, <3>1, ReadAdds DEF Takes, Improves, LoopInv, Reads, AtNext
    <3>2. CASE ~Improves(m)
      BY <1>6, <2>1, <2>2, <2>4, <3>2, ReadAdds DEF Takes, Improves, LoopInv, Reads, AtNext
    <3> QED
      BY <3>1, <3>2
  <2>7. \A l \in Found' : history'[got'[l].version] = got'[l].notes
    BY <1>6, <2>1, <2>2, <2>4 DEF Takes, Conflicts, WithNotes, LoopInv, Reads, AtNext, Newer
  <2>8. \A v \in Newer : history'[v] # Nothing =>
          \E l \in Found' : got'[l].version = v /\ got'[l].notes = history'[v]
    BY <1>6, <2>1, <2>2, <2>4 DEF Takes, WithNotes, LoopInv, Reads, AtNext
  <2>9. LoopInv'
    BY <2>4, <2>5, <2>6, <2>7, <2>8 DEF LoopInv, Newer
  <2> QED
    BY <2>3, <2>9
<1> QED
  BY <1>1, <1>2, <1>3, <1>4, <1>5, <1>6, <1>7 DEF Next

THEOREM DiscoveryInvariant == Spec => []DiscoveryInv
  BY DiscoveryInit, DiscoveryNext, PTL DEF Spec

\* A completed check offers the newest eligible release of those listed.
THEOREM NewestIsOffered == Spec => []BestIsNewest
<1>1. DiscoveryInv => BestIsNewest
  BY DEF DiscoveryInv, TypeOK, LoopInv, BestIsNewest, Listed
<1> QED
  BY <1>1, DiscoveryInvariant, PTL

\* Its history has the notes of the eligible releases and no others.
THEOREM HistoryIsComplete == Spec => []HistoryIsExact
<1>1. DiscoveryInv => HistoryIsExact
  BY DEF DiscoveryInv, LoopInv, HistoryIsExact
<1> QED
  BY <1>1, DiscoveryInvariant, PTL

LEMMA OrderInit == Init => OrderInv
<1> SUFFICES ASSUME Init PROVE OrderInv
  OBVIOUS
<1> QED
  BY DEF Init, OrderInv, ErrorsAreJustified

LEMMA OrderNext == DiscoveryInv /\ OrderInv /\ [Next]_vars => OrderInv'
<1> SUFFICES ASSUME DiscoveryInv, OrderInv, [Next]_vars PROVE OrderInv'
  OBVIOUS
<1>0. Len(pairs) \in Nat /\ at \in Nat /\ at >= 1
  BY DEF DiscoveryInv, TypeOK
<1>1. CASE UNCHANGED vars
  BY <1>1 DEF vars, OrderInv, FirstSoFar, Found, Eligible, ErrorsAreJustified, Listed
<1>2. CASE Cancels \/ Stops \/ Finishes
  BY <1>2 DEF Cancels, Stops, Finishes, OrderInv, FirstSoFar, Found, Eligible, ErrorsAreJustified
<1>3. CASE ListFails
  BY <1>3 DEF ListFails, OrderInv, ErrorsAreJustified
<1>4. ASSUME NEW list \in Lists, Obtains(list)
      PROVE  OrderInv'
  BY <1>4 DEF Obtains, OrderInv, ErrorsAreJustified, DiscoveryInv, LoopInv
<1>5. CASE SkipRepeat
  <2>1. /\ pairs[at] \in seen /\ at' = at + 1 /\ result = "running"
        /\ UNCHANGED <<pairs, seen, got, history, best, result>> /\ Found' = Found
    BY <1>5 DEF SkipRepeat, AtNext, Found, Eligible
  <2>2. \A k, l : FirstSoFar(k, l) => FirstSoFar(k, l)'
    BY <1>0, <2>1 DEF FirstSoFar
  <2>3. \A l \in seen' : \E k \in 1 .. at' - 1 : FirstSoFar(k, l)'
    <3>1. TAKE l \in seen'
    <3>2. PICK k \in 1 .. at - 1 : FirstSoFar(k, l)
      BY <2>1, <3>1 DEF OrderInv
    <3> QED
      BY <1>0, <2>1, <2>2, <3>2
  <2>4. ASSUME best # Nothing
        PROVE  \E k \in 1 .. at' - 1 :
                 /\ FirstSoFar(k, best)'
                 /\ \A l \in Found : got[l].version = got[best].version =>
                      \A j \in 1 .. at' - 1 : pairs[j] = l => k <= j
    <3>1. PICK k \in 1 .. at - 1 :
                 /\ FirstSoFar(k, best)
                 /\ \A l \in Found : got[l].version = got[best].version =>
                      \A j \in 1 .. at - 1 : pairs[j] = l => k <= j
      BY <2>1, <2>4 DEF OrderInv
    <3> QED
      BY <1>0, <2>1, <2>2, <3>1
  <2> QED
    BY <2>1, <2>3, <2>4 DEF OrderInv, ErrorsAreJustified
<1>6. CASE ReadFails
  <2>1. pairs[at] \in Locations /\ got'[pairs[at]] = Bad /\ pairs' = pairs /\ at \in 1 .. Len(pairs)
    BY <1>0, <1>6 DEF ReadFails, Reads, AtNext, DiscoveryInv, TypeOK
  <2> QED
    BY <1>6, <2>1 DEF ReadFails, Reads, AtNext, OrderInv, ErrorsAreJustified, Listed
<1>7. ASSUME NEW m \in Manifests, Refuses(m)
      PROVE  OrderInv'
  <2>1. /\ Reads(m) /\ Eligible(m) /\ history[m.version] \notin {Nothing, m.notes}
        /\ result' = "error" /\ m.version \in Newer /\ result = "running"
    BY <1>7 DEF Refuses, Conflicts, Newer, Reads, AtNext
  <2>2. PICK l \in Found : got[l].version = m.version /\ got[l].notes = history[m.version]
    BY <2>1 DEF DiscoveryInv, LoopInv
  <2>3. /\ l \in Found' /\ pairs[at] \in Found' /\ got'[l] = got[l] /\ got'[pairs[at]] = m
    BY <2>1, <2>2, ReadAdds DEF Found
  <2> QED
    BY <2>1, <2>2, <2>3 DEF OrderInv, ErrorsAreJustified
<1>8. ASSUME NEW m \in Manifests, Reads(m), at' = at + 1, UNCHANGED <<pairs, result>>,
             \/ ~Eligible(m) /\ UNCHANGED best
             \/ Eligible(m) /\ best' = IF Improves(m) THEN pairs[at] ELSE best
      PROVE  OrderInv'
  <2>1. /\ result = "running" /\ seen' = seen \cup {pairs[at]} /\ pairs[at] \notin seen
        /\ at \in 1 .. Len(pairs)
    BY <1>0, <1>8 DEF Reads, AtNext
  <2>2. \A j \in 1 .. at - 1 : pairs[j] \in seen /\ pairs[j] # pairs[at]
    BY <2>1 DEF DiscoveryInv, LoopInv
  <2>3. /\ \A l \in Found : l \in seen /\ l # pairs[at] /\ got'[l] = got[l] /\ got[l] \in Manifests
        /\ got'[pairs[at]] = m
        /\ Found' = IF Eligible(m) THEN Found \cup {pairs[at]} ELSE Found
    BY <1>8, <2>1, ReadAdds DEF Found, DiscoveryInv, LoopInv
  <2>4. \A k, l : l \in seen /\ FirstSoFar(k, l) => FirstSoFar(k, l)'
    BY <1>0, <1>8, <2>1 DEF FirstSoFar
  <2>5. \A k, l : k = at /\ l = pairs[at] => FirstSoFar(k, l)'
    BY <1>0, <1>8, <2>2 DEF FirstSoFar
  <2>6. \A l \in seen' : \E k \in 1 .. at' - 1 : FirstSoFar(k, l)'
    <3>1. TAKE l \in seen'
    <3>2. CASE l = pairs[at]
      BY <1>0, <1>8, <2>5, <3>2
    <3>3. CASE l # pairs[at]
      <4>1. PICK k \in 1 .. at - 1 : FirstSoFar(k, l)
        BY <2>1, <3>1, <3>3 DEF OrderInv
      <4> QED
        BY <1>0, <1>8, <2>1, <2>4, <3>1, <3>3, <4>1
    <3> QED
      BY <3>2, <3>3
  <2>7. ASSUME best' # Nothing
        PROVE  \E k \in 1 .. at' - 1 :
                 /\ FirstSoFar(k, best)'
                 /\ \A l \in Found' : got'[l].version = got'[best'].version =>
                      \A j \in 1 .. at' - 1 : pairs'[j] = l => k <= j
    <3>1. CASE Eligible(m) /\ Improves(m)
      <4>1. best' = pairs[at]
        BY <1>8, <3>1
      <4>2. \A l \in Found : got'[l].version # m.version
        BY <2>3, <3>1, <2>1 DEF Improves, DiscoveryInv, LoopInv
      <4>3. at \in 1 .. at' - 1
        BY <1>0, <1>8
      <4>4. \A l \in Found' : got'[l].version = got'[best'].version => l = pairs[at]
        BY <2>3, <4>1, <4>2
      <4> QED
        BY <1>0, <1>8, <2>2, <2>5, <4>1, <4>3, <4>4
    <3>2. CASE ~(Eligible(m) /\ Improves(m))
      <4>1. best' = best /\ best \in Found
        BY <1>8, <2>1, <2>7, <3>2 DEF DiscoveryInv, LoopInv
      <4>2. PICK k \in 1 .. at - 1 :
                 /\ FirstSoFar(k, best)
                 /\ \A l \in Found : got[l].version = got[best].version =>
                      \A j \in 1 .. at - 1 : pairs[j] = l => k <= j
        BY <2>1, <2>7, <4>1 DEF OrderInv
      <4>3. FirstSoFar(k, best)' /\ k \in 1 .. at' - 1
        BY <1>0, <1>8, <2>3, <2>4, <4>1, <4>2
      <4>4. ASSUME NEW l \in Found', got'[l].version = got'[best'].version,
                   NEW j \in 1 .. at' - 1, pairs'[j] = l
            PROVE  k <= j
        <5>1. CASE j = at
          BY <1>0, <5>1
        <5>2. CASE j # at
          <6>1. j \in 1 .. at - 1 /\ pairs[j] = l
            BY <1>0, <1>8, <4>4, <5>2
          <6>2. l \in Found
            BY <2>2, <2>3, <4>4, <6>1
          <6> QED
            BY <2>3, <4>1, <4>2, <4>4, <6>1, <6>2
        <5> QED
          BY <5>1, <5>2
      <4> QED
        BY <4>3, <4>4
    <3> QED
      BY <3>1, <3>2
  <2> QED
    BY <1>8, <2>1, <2>6, <2>7 DEF OrderInv, ErrorsAreJustified
<1>9. ASSUME NEW m \in Manifests, Ignores(m) \/ Takes(m)
      PROVE  OrderInv'
  BY <1>8, <1>9 DEF Ignores, Takes
<1> QED
  BY <1>1, <1>2, <1>3, <1>4, <1>5, <1>6, <1>7, <1>9 DEF Next

THEOREM OrderInvariant == Spec => []OrderInv
<1>1. Init => OrderInv
  BY OrderInit
<1>2. DiscoveryInv /\ OrderInv /\ [Next]_vars => OrderInv'
  BY OrderNext
<1> QED
  BY <1>1, <1>2, DiscoveryInvariant, PTL DEF Spec

\* Among manifests of the newest version the one listed first is offered.
THEOREM FirstIsOffered == Spec => []TiesGoToTheFirst
<1>1. DiscoveryInv /\ OrderInv => TiesGoToTheFirst
  <2> SUFFICES ASSUME DiscoveryInv, OrderInv, result = "done", best # Nothing,
                      NEW l \in Found, got[l].version = got[best].version
               PROVE  First(best) <= First(l)
    BY DEF TiesGoToTheFirst
  <2>1. at - 1 = Len(pairs) /\ Len(pairs) \in Nat
    BY DEF DiscoveryInv, TypeOK, LoopInv
  <2>2. \A k, x : FirstSoFar(k, x) => First(x) \in 1 .. Len(pairs) /\ pairs[First(x)] = x /\ First(x) = k
    <3>1. SUFFICES ASSUME NEW k, NEW x, FirstSoFar(k, x)
                   PROVE  First(x) \in 1 .. Len(pairs) /\ pairs[First(x)] = x /\ First(x) = k
      OBVIOUS
    <3>2. k \in 1 .. Len(pairs) /\ pairs[k] = x /\ \A j \in 1 .. Len(pairs) : pairs[j] = x => k <= j
      BY <2>1, <3>1 DEF FirstSoFar
    <3>3. /\ First(x) \in 1 .. Len(pairs) /\ pairs[First(x)] = x
          /\ \A j \in 1 .. Len(pairs) : pairs[j] = x => First(x) <= j
      BY <3>2 DEF First
    <3> QED
      BY <2>1, <3>2, <3>3
  <2>3. PICK k \in 1 .. at - 1 :
               /\ FirstSoFar(k, best)
               /\ \A x \in Found : got[x].version = got[best].version =>
                    \A j \in 1 .. at - 1 : pairs[j] = x => k <= j
    BY DEF OrderInv
  <2>4. PICK n \in 1 .. at - 1 : FirstSoFar(n, l)
    BY DEF OrderInv, DiscoveryInv, LoopInv, Found
  <2> QED
    BY <2>1, <2>2, <2>3, <2>4
<1> QED
  BY <1>1, DiscoveryInvariant, OrderInvariant, PTL

\* A check fails only for want of a list, for a bad location or for two releases that
\* disagree.
THEOREM ErrorsHaveReasons == Spec => []ErrorsAreJustified
<1>1. OrderInv => ErrorsAreJustified
  BY DEF OrderInv
<1> QED
  BY <1>1, OrderInvariant, PTL

\* No location is read twice.
THEOREM LocationsAreReadOnce == Spec => ReadOnce
<1>1. DiscoveryInv /\ [Next]_vars =>
        [\A l \in Locations : got[l] # NotRead => got'[l] = got[l]]_vars
  BY DEF DiscoveryInv, TypeOK, LoopInv, Next, Cancels, Stops, ListFails, Obtains, SkipRepeat,
     Finishes, ReadFails, Ignores, Refuses, Takes, Reads, AtNext
<1> QED
  BY <1>1, DiscoveryInvariant, PTL DEF Spec, ReadOnce
=============================================================================
