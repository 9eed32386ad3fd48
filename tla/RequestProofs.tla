---------------------------- MODULE RequestProofs ----------------------------
(***************************************************************************)
(* Proofs about two ways through a request, which share no state: the      *)
(* cache of text completions and a request for images.  Each is proved for *)
(* its own specification.                                                  *)
(***************************************************************************)
EXTENDS ChatCompletionCache, ImageRequest, FiniteSetTheorems, TLAPS

-----------------------------------------------------------------------------
(* The cache of text completions, for any requests, keys, threads, length  *)
(* of an answer and size of the cache, with merging on or off, and however *)
(* the generators are scheduled, closed or broken.                         *)
(*                                                                         *)
(* The inductive invariant says what the map of calls in flight is for: a  *)
(* request that computes is the one the map names, so that the others join *)
(* it, and whatever a request reads of another was whole when it was put   *)
(* there.  Locks and the order of the entries do not come into it.         *)

(* What the constants are: every request has a key, and nobody is none. *)
Setting ==
  /\ KeyOf \in [Request -> Key]
  /\ Nobody \notin Request
  /\ Chunks \in Nat

Places == Over \cup {"lookup", "wait", "compute", "replay", "close", "store",
                     "drop", "publish", "publishError"}

(* The part of TypeOK that neither the locks nor the order of the entries  *)
(* have a share in.                                                        *)
CacheTypes ==
  /\ value \in [Key -> Request \cup {Nobody}]
  /\ inflight \in [Key -> Request \cup {Nobody}]
  /\ done \in [Request -> {"no", "value", "error"}]
  /\ pc \in [Request -> Places]
  /\ sent \in [Request -> 0..Chunks]
  /\ source \in [Request -> Request]

(* A request's answer is complete. *)
Whole(r) == r \in Streamed => sent[r] = Chunks

(* With merging, who computes is named as the call to join; without, none. *)
CallersAreNamed ==
  /\ Dedupe => \A r \in Request : pc[r] \in Calling => inflight[KeyOf[r]] = r
  /\ ~Dedupe => \A k \in Key : inflight[k] = Nobody

(* What is cached is not computed again. *)
CachedIsNotInflight ==
  \A k \in Key : value[k] # Nobody => inflight[k] = Nobody

(* What is kept, or published, is whole. *)
KeptIsWhole ==
  /\ \A k \in Key : value[k] # Nobody => KeyOf[value[k]] = k /\ Whole(value[k])
  /\ \A r \in Request : pc[r] \in {"store", "publish"} \/ done[r] = "value" => Whole(r)

(* A request refers to itself until it reads or joins another, and then to *)
(* one of its own key.                                                     *)
SourceMatches(r) ==
  /\ pc[r] \in Calling \cup {"lookup", "publish", "publishError"} => source[r] = r
  /\ pc[r] = "wait" => KeyOf[source[r]] = KeyOf[r]
  /\ pc[r] \in {"replay", "close", "answered"} /\ source[r] # r =>
       KeyOf[source[r]] = KeyOf[r] /\ Whole(source[r])

SourcesMatch == \A r \in Request : SourceMatches(r)

CacheInvariant ==
  /\ CacheTypes
  /\ CallersAreNamed
  /\ InflightIsOwned
  /\ CachedIsNotInflight
  /\ KeptIsWhole
  /\ SourcesMatch

-----------------------------------------------------------------------------
(* What a request does when it moves, and where a delivery takes it. *)
LEMMA Moves ==
  ASSUME NEW r, NEW to, Goto(r, to)
  PROVE  pc' = [pc EXCEPT ![r] = to]
BY DEF Goto

LEMMA Delivers ==
  ASSUME NEW r, NEW l, Deliver(r, l)
  PROVE  \E to \in {"replay", "answered"} : pc' = [pc EXCEPT ![r] = to]
BY DEF Deliver, Goto

(* The first state satisfies the invariant. *)
LEMMA CacheStarts ==
  ASSUME Setting, Init
  PROVE  CacheInvariant
BY DEF Setting, Init, CacheInvariant, CacheTypes, CallersAreNamed, InflightIsOwned,
       CachedIsNotInflight, KeptIsWhole, SourcesMatch, SourceMatches, Whole, Calling, Places, Over

(* A move of one request from a place to another, all else being equal,    *)
(* keeps the invariant if the new place claims no more than is known.      *)
LEMMA CacheMoves ==
  ASSUME CacheInvariant, UNCHANGED <<value, inflight, done, sent, source>>,
         NEW r \in Request, NEW to \in Places, to # "wait", pc' = [pc EXCEPT ![r] = to],
         pc[r] \in Calling <=> to \in Calling,
         to \in {"store", "publish"} => Whole(r),
         to \in Calling \cup {"lookup", "publish", "publishError"} => source[r] = r,
         to \in {"replay", "close", "answered"} /\ source[r] # r =>
           KeyOf[source[r]] = KeyOf[r] /\ Whole(source[r])
  PROVE  CacheInvariant'
<1> USE DEF CacheInvariant
<1>1. CacheTypes'
  BY DEF CacheTypes
<1>2. \A q \in Request : pc'[q] = IF q = r THEN to ELSE pc[q]
  BY DEF CacheTypes
<1>3. CallersAreNamed'
  BY <1>2 DEF CallersAreNamed
<1>4. InflightIsOwned'
  BY <1>2 DEF InflightIsOwned, Computing, Calling
<1>5. CachedIsNotInflight'
  BY DEF CachedIsNotInflight
<1>6. KeptIsWhole'
  BY <1>2 DEF KeptIsWhole, Whole
<1>7. SourcesMatch'
  <2>1. SourceMatches(r)'
    BY <1>2 DEF SourceMatches, Whole, Calling
  <2>2. ASSUME NEW q \in Request, q # r
        PROVE  SourceMatches(q)'
    BY <1>2, <2>2 DEF SourcesMatch, SourceMatches, Whole, Calling
  <2>3. QED
    BY <2>1, <2>2 DEF SourcesMatch
<1>8. QED
  BY <1>1, <1>3, <1>4, <1>5, <1>6, <1>7

(* Every step keeps it. *)
LEMMA CacheSteps ==
  ASSUME Setting, CacheInvariant, [Next]_vars
  PROVE  CacheInvariant'
<1> USE DEF CacheInvariant
<1>1. ASSUME UNCHANGED <<value, inflight, done, pc, sent, source>>
      PROVE  CacheInvariant'
  BY <1>1 DEF CacheTypes, CallersAreNamed, InflightIsOwned, Computing, CachedIsNotInflight,
              KeptIsWhole, Whole, SourcesMatch, SourceMatches
<1>2. ASSUME NEW r \in Request, Hit(r)
      PROVE  CacheInvariant'
  <2>1. PICK to \in {"replay", "answered"} : pc' = [pc EXCEPT ![r] = to]
    BY <1>2, Delivers DEF Hit
  <2>2. /\ pc[r] = "lookup" /\ value[KeyOf[r]] # Nobody
        /\ source' = [source EXCEPT ![r] = value[KeyOf[r]]]
        /\ UNCHANGED <<value, inflight, done, sent>>
    BY <1>2 DEF Hit, At, cacheVars
  <2>3. KeyOf[r] \in Key /\ value[KeyOf[r]] \in Request
    BY <2>2 DEF Setting, CacheTypes
  <2>4. \A q \in Request : /\ pc'[q] = IF q = r THEN to ELSE pc[q]
                           /\ source'[q] = IF q = r THEN value[KeyOf[r]] ELSE source[q]
    BY <2>1, <2>2 DEF CacheTypes
  <2>5. CacheTypes'
    BY <2>1, <2>2, <2>3, <2>4 DEF CacheTypes, Places, Over
  <2>6. CallersAreNamed'
    BY <2>1, <2>2, <2>3, <2>4 DEF CallersAreNamed, Calling
  <2>7. InflightIsOwned'
    BY <2>1, <2>2, <2>3, <2>4 DEF InflightIsOwned, Computing, Calling
  <2>8. CachedIsNotInflight'
    BY <2>1, <2>2, <2>3, <2>4 DEF CachedIsNotInflight
  <2>9. KeptIsWhole'
    BY <2>1, <2>2, <2>3, <2>4 DEF KeptIsWhole, Whole
  <2>10. SourcesMatch'
    <3>1. SourceMatches(r)'
      BY <2>1, <2>2, <2>3, <2>4 DEF SourcesMatch, SourceMatches, KeptIsWhole, Whole, Calling
    <3>2. ASSUME NEW q \in Request, q # r
          PROVE  SourceMatches(q)'
      BY <2>1, <2>2, <2>3, <2>4, <3>2 DEF SourcesMatch, SourceMatches, Whole
    <3>3. QED
      BY <3>1, <3>2 DEF SourcesMatch
  <2>11. QED
    BY <2>5, <2>6, <2>7, <2>8, <2>9, <2>10
<1>3. ASSUME NEW r \in Request, Join(r)
      PROVE  CacheInvariant'
  <2>1. /\ pc[r] = "lookup" /\ inflight[KeyOf[r]] # Nobody
        /\ source' = [source EXCEPT ![r] = inflight[KeyOf[r]]]
        /\ pc' = [pc EXCEPT ![r] = "wait"]
        /\ UNCHANGED <<value, inflight, done, sent>>
    BY <1>3, Moves DEF Join, Joins, At, cacheVars
  <2>2. /\ KeyOf[r] \in Key /\ inflight[KeyOf[r]] \in Request
        /\ KeyOf[inflight[KeyOf[r]]] = KeyOf[r]
    BY <2>1 DEF Setting, CacheTypes, InflightIsOwned, Computing
  <2>3. \A q \in Request : /\ pc'[q] = IF q = r THEN "wait" ELSE pc[q]
                           /\ source'[q] = IF q = r THEN inflight[KeyOf[r]] ELSE source[q]
    BY <2>1 DEF CacheTypes
  <2>4. CacheTypes'
    BY <2>1, <2>2, <2>3 DEF CacheTypes, Places
  <2>5. CallersAreNamed'
    BY <2>1, <2>2, <2>3 DEF CallersAreNamed, Calling
  <2>6. InflightIsOwned'
    BY <2>1, <2>2, <2>3 DEF InflightIsOwned, Computing, Calling
  <2>7. CachedIsNotInflight'
    BY <2>1, <2>2, <2>3 DEF CachedIsNotInflight
  <2>8. KeptIsWhole'
    BY <2>1, <2>2, <2>3 DEF KeptIsWhole, Whole
  <2>9. SourcesMatch'
    <3>1. SourceMatches(r)'
      BY <2>1, <2>2, <2>3 DEF SourcesMatch, SourceMatches, KeptIsWhole, Whole, Calling
    <3>2. ASSUME NEW q \in Request, q # r
          PROVE  SourceMatches(q)'
      BY <2>1, <2>2, <2>3, <3>2 DEF SourcesMatch, SourceMatches, Whole
    <3>3. QED
      BY <3>1, <3>2 DEF SourcesMatch
  <2>10. QED
    BY <2>4, <2>5, <2>6, <2>7, <2>8, <2>9
<1>4. ASSUME NEW r \in Request, Own(r)
      PROVE  CacheInvariant'
  <2>1. /\ pc[r] = "lookup" /\ value[KeyOf[r]] = Nobody /\ inflight[KeyOf[r]] = Nobody
        /\ inflight' = IF Dedupe THEN [inflight EXCEPT ![KeyOf[r]] = r] ELSE inflight
        /\ pc' = [pc EXCEPT ![r] = "compute"]
        /\ UNCHANGED <<value, done, sent, source>>
    BY <1>4, Moves DEF Own, Joins, At, Setting, CallersAreNamed
  <2>2. KeyOf \in [Request -> Key] /\ Nobody \notin Request
    BY DEF Setting
  <2>3. /\ \A q \in Request : pc'[q] = IF q = r THEN "compute" ELSE pc[q]
        /\ \A k \in Key : inflight'[k] = IF Dedupe /\ k = KeyOf[r] THEN r ELSE inflight[k]
    BY <2>1 DEF CacheTypes
  <2>4. CacheTypes'
    BY <2>1, <2>2, <2>3 DEF CacheTypes, Places
  <2>5. CallersAreNamed'
    BY <2>1, <2>2, <2>3 DEF CallersAreNamed, Calling
  <2>6. InflightIsOwned'
    BY <2>1, <2>2, <2>3 DEF InflightIsOwned, Computing, Calling
  <2>7. CachedIsNotInflight'
    BY <2>1, <2>2, <2>3 DEF CachedIsNotInflight
  <2>8. KeptIsWhole'
    BY <2>1, <2>2, <2>3 DEF KeptIsWhole, Whole
  <2>9. SourcesMatch'
    <3>1. SourceMatches(r)'
      BY <2>1, <2>2, <2>3 DEF SourcesMatch, SourceMatches, KeptIsWhole, Whole, Calling
    <3>2. ASSUME NEW q \in Request, q # r
          PROVE  SourceMatches(q)'
      BY <2>1, <2>2, <2>3, <3>2 DEF SourcesMatch, SourceMatches, Whole
    <3>3. QED
      BY <3>1, <3>2 DEF SourcesMatch
  <2>10. QED
    BY <2>4, <2>5, <2>6, <2>7, <2>8, <2>9
<1>5. ASSUME NEW r \in Request, Joined(r)
      PROVE  CacheInvariant'
  <2>1. /\ pc[r] = "wait" /\ source[r] \in Request /\ KeyOf[source[r]] = KeyOf[r]
        /\ UNCHANGED <<value, inflight, done, sent, source>>
    BY <1>5 DEF Joined, At, cacheVars, SourcesMatch, SourceMatches, CacheTypes
  <2>2. CASE done[source[r]] = "value"
    <3>1. PICK to \in {"replay", "answered"} : pc' = [pc EXCEPT ![r] = to]
      BY <1>5, <2>2, Delivers DEF Joined
    <3>2. Whole(source[r])
      BY <2>1, <2>2 DEF KeptIsWhole
    <3>3. QED
      BY <2>1, <3>1, <3>2, CacheMoves DEF Calling, Places, Over
  <2>3. CASE done[source[r]] # "value"
    <3>1. pc' = [pc EXCEPT ![r] = "failed"]
      BY <1>5, <2>3, Moves DEF Joined
    <3>2. QED
      BY <2>1, <3>1, CacheMoves DEF Calling, Places, Over
  <2>4. QED
    BY <2>2, <2>3
<1>6. ASSUME NEW r \in Request, Yield(r)
      PROVE  CacheInvariant'
  <2>1. /\ r \in Streamed /\ sent[r] < Chunks
        /\ sent' = [sent EXCEPT ![r] = @ + 1]
        /\ UNCHANGED <<value, inflight, done, pc, source>>
    BY <1>6 DEF Yield, cacheVars
  <2>2. sent[r] \in 0..Chunks /\ Chunks \in Nat
    BY DEF CacheTypes, Setting
  <2>3. sent[r] # Chunks /\ sent[r] + 1 \in 0..Chunks
    BY <2>1, <2>2
  <2>4. \A q \in Request : Whole(q) => Whole(q)'
    BY <2>1, <2>3 DEF Whole, CacheTypes
  <2>5. CacheTypes'
    BY <2>1, <2>3 DEF CacheTypes
  <2>6. CallersAreNamed' /\ InflightIsOwned' /\ CachedIsNotInflight'
    BY <2>1 DEF CallersAreNamed, InflightIsOwned, Computing, CachedIsNotInflight
  <2>7. KeptIsWhole'
    BY <2>1, <2>4 DEF KeptIsWhole, CacheTypes, Setting
  <2>8. SourcesMatch'
    BY <2>1, <2>4 DEF SourcesMatch, SourceMatches, CacheTypes
  <2>9. QED
    BY <2>5, <2>6, <2>7, <2>8
<1>7. ASSUME NEW r \in Request, Finish(r)
      PROVE  CacheInvariant'
  <2>1. /\ pc[r] = "compute" /\ Whole(r)
        /\ pc' = [pc EXCEPT ![r] = "store"]
        /\ UNCHANGED <<value, inflight, done, sent, source>>
    BY <1>7, Moves DEF Finish, At, cacheVars, Whole
  <2>2. QED
    BY <2>1, CacheMoves DEF Calling, Places, Over, SourcesMatch, SourceMatches
<1>8. ASSUME NEW r \in Request, Fail(r)
      PROVE  CacheInvariant'
  <2>1. /\ pc[r] = "compute"
        /\ pc' = [pc EXCEPT ![r] = "drop"]
        /\ UNCHANGED <<value, inflight, done, sent, source>>
    BY <1>8, Moves DEF Fail, At, cacheVars
  <2>2. QED
    BY <2>1, CacheMoves DEF Calling, Places, Over, SourcesMatch, SourceMatches
<1>9. ASSUME NEW r \in Request, Store(r)
      PROVE  CacheInvariant'
  <2>1. /\ pc[r] = "store" /\ pc' = [pc EXCEPT ![r] = "publish"]
        /\ \E kept : value' = [l \in Key |-> IF l \notin kept THEN Nobody
                                          ELSE IF l = KeyOf[r] THEN r ELSE value[l]]
        /\ inflight' = [inflight EXCEPT ![KeyOf[r]] = Nobody]
        /\ UNCHANGED <<done, sent, source>>
    BY <1>9, Moves DEF Store, At
  <2>2. KeyOf \in [Request -> Key] /\ Nobody \notin Request
    BY DEF Setting
  <2>3. /\ \A q \in Request : pc'[q] = IF q = r THEN "publish" ELSE pc[q]
        /\ \A k \in Key : inflight'[k] = IF k = KeyOf[r] THEN Nobody ELSE inflight[k]
        /\ value' \in [Key -> Request \cup {Nobody}]
        /\ \A k \in Key : \/ value'[k] \in {Nobody, value[k]}
                          \/ k = KeyOf[r] /\ value'[k] = r
    BY <2>1 DEF CacheTypes
  <2>4. CacheTypes'
    BY <2>1, <2>2, <2>3 DEF CacheTypes, Places
  <2>5. CallersAreNamed'
    BY <2>1, <2>2, <2>3 DEF CallersAreNamed, Calling
  <2>6. InflightIsOwned'
    BY <2>1, <2>2, <2>3 DEF InflightIsOwned, Computing, Calling
  <2>7. CachedIsNotInflight'
    BY <2>1, <2>2, <2>3 DEF CachedIsNotInflight
  <2>8. KeptIsWhole'
    BY <2>1, <2>2, <2>3 DEF KeptIsWhole, Whole
  <2>9. SourcesMatch'
    <3>1. SourceMatches(r)'
      BY <2>1, <2>2, <2>3 DEF SourcesMatch, SourceMatches, KeptIsWhole, Whole, Calling
    <3>2. ASSUME NEW q \in Request, q # r
          PROVE  SourceMatches(q)'
      BY <2>1, <2>2, <2>3, <3>2 DEF SourcesMatch, SourceMatches, Whole
    <3>3. QED
      BY <3>1, <3>2 DEF SourcesMatch
  <2>10. QED
    BY <2>4, <2>5, <2>6, <2>7, <2>8, <2>9
<1>10. ASSUME NEW r \in Request, Drop(r)
       PROVE  CacheInvariant'
  <2>1. /\ pc[r] = "drop" /\ pc' = [pc EXCEPT ![r] = "publishError"]
        /\ inflight' = [inflight EXCEPT ![KeyOf[r]] = Nobody]
        /\ UNCHANGED <<value, done, sent, source>>
    BY <1>10, Moves DEF Drop, At
  <2>2. KeyOf \in [Request -> Key] /\ Nobody \notin Request
    BY DEF Setting
  <2>3. /\ \A q \in Request : pc'[q] = IF q = r THEN "publishError" ELSE pc[q]
        /\ \A k \in Key : inflight'[k] = IF k = KeyOf[r] THEN Nobody ELSE inflight[k]
    BY <2>1 DEF CacheTypes
  <2>4. CacheTypes'
    BY <2>1, <2>2, <2>3 DEF CacheTypes, Places
  <2>5. CallersAreNamed'
    BY <2>1, <2>2, <2>3 DEF CallersAreNamed, Calling
  <2>6. InflightIsOwned'
    BY <2>1, <2>2, <2>3 DEF InflightIsOwned, Computing, Calling
  <2>7. CachedIsNotInflight'
    BY <2>1, <2>2, <2>3 DEF CachedIsNotInflight
  <2>8. KeptIsWhole'
    BY <2>1, <2>2, <2>3 DEF KeptIsWhole, Whole
  <2>9. SourcesMatch'
    <3>1. SourceMatches(r)'
      BY <2>1, <2>2, <2>3 DEF SourcesMatch, SourceMatches, KeptIsWhole, Whole, Calling
    <3>2. ASSUME NEW q \in Request, q # r
          PROVE  SourceMatches(q)'
      BY <2>1, <2>2, <2>3, <3>2 DEF SourcesMatch, SourceMatches, Whole
    <3>3. QED
      BY <3>1, <3>2 DEF SourcesMatch
  <2>10. QED
    BY <2>4, <2>5, <2>6, <2>7, <2>8, <2>9
<1>11. ASSUME NEW r \in Request, Publish(r)
       PROVE  CacheInvariant'
  <2>1. /\ pc[r] \in {"publish", "publishError"}
        /\ pc' = [pc EXCEPT ![r] = IF pc[r] = "publish" THEN "answered" ELSE "failed"]
        /\ done' = [done EXCEPT ![r] = IF pc[r] = "publish" THEN "value" ELSE "error"]
        /\ UNCHANGED <<value, inflight, sent, source>>
    BY <1>11, Moves DEF Publish, Published, At, cacheVars
  <2>2. \A q \in Request :
          /\ pc'[q] = IF q # r THEN pc[q] ELSE IF pc[r] = "publish" THEN "answered" ELSE "failed"
          /\ done'[q] = IF q # r THEN done[q] ELSE IF pc[r] = "publish" THEN "value" ELSE "error"
    BY <2>1 DEF CacheTypes
  <2>3. CacheTypes'
    BY <2>1, <2>2 DEF CacheTypes, Places, Over
  <2>4. CallersAreNamed'
    BY <2>1, <2>2 DEF CallersAreNamed, Calling
  <2>5. InflightIsOwned'
    BY <2>1, <2>2 DEF InflightIsOwned, Computing, Calling
  <2>6. CachedIsNotInflight'
    BY <2>1, <2>2 DEF CachedIsNotInflight
  <2>7. KeptIsWhole'
    BY <2>1, <2>2 DEF KeptIsWhole, Whole
  <2>8. SourcesMatch'
    <3>1. SourceMatches(r)'
      BY <2>1, <2>2 DEF SourcesMatch, SourceMatches, KeptIsWhole, Whole, Calling
    <3>2. ASSUME NEW q \in Request, q # r
          PROVE  SourceMatches(q)'
      BY <2>1, <2>2, <3>2 DEF SourcesMatch, SourceMatches, Whole
    <3>3. QED
      BY <3>1, <3>2 DEF SourcesMatch
  <2>9. QED
    BY <2>3, <2>4, <2>5, <2>6, <2>7, <2>8
<1>12. ASSUME NEW r \in Request, EndReplay(r)
       PROVE  CacheInvariant'
  <2>1. PICK to \in {"answered", "broken"} : pc' = [pc EXCEPT ![r] = to]
    BY <1>12, Moves DEF EndReplay
  <2>2. /\ pc[r] \in {"replay", "close"}
        /\ UNCHANGED <<value, inflight, done, sent, source>>
    BY <1>12 DEF EndReplay, cacheVars
  <2>3. QED
    BY <2>1, <2>2, CacheMoves DEF Calling, Places, Over, SourcesMatch, SourceMatches
<1>13. ASSUME NEW r \in Request, Close(r)
       PROVE  CacheInvariant'
  <2>1. /\ pc[r] \in {"compute", "replay"}
        /\ pc' = [pc EXCEPT ![r] = IF pc[r] = "replay" THEN "close" ELSE "drop"]
        /\ UNCHANGED <<value, inflight, done, sent, source>>
    BY <1>13 DEF Close, WhenClosed, cacheVars
  <2>2. QED
    BY <2>1, CacheMoves DEF Calling, Places, Over, SourcesMatch, SourceMatches
<1>14. CASE Expire
  <2>1. /\ value' = [value EXCEPT ![Head(entries)] = Nobody]
        /\ UNCHANGED <<inflight, done, pc, sent, source>>
    BY <1>14 DEF Expire
  <2>2. CacheTypes' /\ \A k \in Key : value'[k] \in {Nobody, value[k]}
    BY <2>1 DEF CacheTypes
  <2>3. QED
    BY <2>1, <2>2 DEF CallersAreNamed, InflightIsOwned, Computing, CachedIsNotInflight,
                      KeptIsWhole, Whole, SourcesMatch, SourceMatches
<1>15. ASSUME NEW r \in Request, NEW th \in Thread, Schedule(r, th)
       PROVE  CacheInvariant'
  BY <1>1, <1>15 DEF Schedule, cacheVars
<1>16. CASE UNCHANGED vars
  BY <1>1, <1>16 DEF vars
<1>17. QED
  BY <1>2, <1>3, <1>4, <1>5, <1>6, <1>7, <1>8, <1>9, <1>10, <1>11, <1>12, <1>13, <1>14,
     <1>15, <1>16 DEF Next, Run

LEMMA CacheHolds ==
  ASSUME Setting
  PROVE  Spec => []CacheInvariant
BY CacheStarts, CacheSteps, PTL DEF Spec

-----------------------------------------------------------------------------
(* Equal requests are merged, whoever fails or leaves: while an answer is  *)
(* computed nobody computes it again, once it is cached nobody does, and a *)
(* call in flight belongs to a request that is still on its way to end it  *)
(* (get_or_compute_response and get_or_compute_stream).                    *)
THEOREM CallsShared ==
  ASSUME Setting
  PROVE  Spec => []CallsAreShared
<1>1. ASSUME CacheInvariant, Dedupe, NEW k \in Key
      PROVE  Cardinality(Computing(k)) <= (IF value[k] = Nobody THEN 1 ELSE 0)
  <2>1. \A r \in Computing(k) : r = inflight[k]
    BY <1>1 DEF CacheInvariant, CallersAreNamed, Computing, Calling
  <2>2. CASE value[k] # Nobody
    <3>1. Computing(k) = {}
      BY <1>1, <2>1, <2>2 DEF CacheInvariant, CachedIsNotInflight, Computing, Setting
    <3>2. QED
      BY <2>2, <3>1, FS_EmptySet
  <2>3. CASE value[k] = Nobody
    <3>1. Computing(k) \subseteq {inflight[k]}
      BY <2>1
    <3>2. /\ IsFiniteSet({inflight[k]})
          /\ Cardinality({inflight[k]}) = 1
      BY FS_Singleton
    <3>3. Cardinality(Computing(k)) <= 1
      BY <3>1, <3>2, FS_Subset
    <3>4. QED
      BY <2>3, <3>3
  <2>4. QED
    BY <2>2, <2>3
<1>2. CacheInvariant => CallsAreShared
  BY <1>1 DEF CallsAreShared, OneCallPerKey, CacheInvariant
<1>3. QED
  BY <1>2, CacheHolds, PTL

(* What is cached, and what a request gets from another, answers its own   *)
(* question in full, even where a client left in the middle of a stream    *)
(* (GeneratorExit in get_or_compute_stream).                               *)
THEOREM WholeAnswers ==
  ASSUME Setting
  PROVE  Spec => []AnswersAreWhole
<1>1. CacheInvariant => AnswersAreWhole
  BY DEF CacheInvariant, KeptIsWhole, SourcesMatch, SourceMatches, Whole, AnswersAreWhole
<1>2. QED
  BY <1>1, CacheHolds, PTL

-----------------------------------------------------------------------------
(* A request for images, for any number of images, accounts and attempts.  *)
(* Sixteen ways lead from one point of an attempt to the next; to the      *)
(* other images, the slots and the caller they are one step, Works, and    *)
(* only six other steps are left: an account is taken, the breaker lets    *)
(* through or refuses, the attempt ends without a word, it is over, the    *)
(* request is answered.                                                    *)

RunRecord ==
  [pc : Stage, acct : Account \cup {None}, at : AttemptRecord, out : Outcome,
   tries : [tls : 0 .. MaxTls, conn : 0 .. MaxConn, poll : 0 .. MaxPoll, reply : 0 .. MaxReply]]

DocRecord == [shows : Shown, verdict : Verdict, kept : BOOLEAN, on : Account \cup {None}]

(* What holds of each image between two steps. *)
ImageOK(i) ==
  /\ run[i].pc \in Working => run[i].acct \in Account
  /\ run[i].out = "circuit" => run[i].pc = "end"

ImagesOK == \A i \in Image : ImageOK(i)

(* Some image was marked twice, and may have freed the slot of another. *)
Twice == \E i \in Image : MarkedTwice(i)

RequestInvariant ==
  /\ RequestTypeOK
  /\ ImagesOK
  /\ SlotsFollowAttempts

(* The documents are changed, and none is deleted. *)
NoneDeleted ==
  /\ doc' \in [Image -> DocRecord]
  /\ \A j \in Image : doc'[j].kept = doc[j].kept

(* A step within an attempt of image i. *)
Works(i) ==
  /\ run' \in [Image -> RunRecord]
  /\ \A j \in Image \ {i} : run'[j] = run[j]
  /\ run'[i].acct = run[i].acct
  /\ run'[i].pc \in Working
  /\ run'[i].out # "circuit"
  /\ ~(run'[i].pc = "failed" /\ run'[i].out = "no_image_generated")
  /\ NoneDeleted

-----------------------------------------------------------------------------
(* Types. *)

LEMMA NothingTyped == Nothing \in Shown
BY DEF Nothing, Shown

LEMMA NewAttemptTyped == NewAttempt \in AttemptRecord
BY NothingTyped, NumberAssumption DEF NewAttempt, AttemptRecord

LEMMA OpenedTyped ==
  ASSUME NEW a \in Account \cup {None}
  PROVE  Opened(a) \in DocRecord /\ Opened(a).kept
BY NothingTyped DEF Opened, DocRecord, Verdict

LEMMA DocsTyped == RequestTypeOK => doc \in [Image -> DocRecord]
BY DEF RequestTypeOK, DocRecord

LEMMA LeftTyped ==
  ASSUME RequestTypeOK, NEW i \in Image, Left(i)
  PROVE  NoneDeleted
<1> DEFINE d == [doc[i] EXCEPT !.shows = Nothing, !.verdict = "none"]
<1>1. d \in DocRecord /\ d.kept = doc[i].kept
  BY DocsTyped, NothingTyped DEF DocRecord, Verdict
<1>2. doc' = [doc EXCEPT ![i] = d]
  BY DocsTyped DEF Left, DocRecord
<1> HIDE DEF d
<1>3. QED
  BY <1>1, <1>2, DocsTyped DEF NoneDeleted

LEMMA ForgottenTyped ==
  ASSUME NEW at \in AttemptRecord
  PROVE  /\ Forgotten(at) \in AttemptRecord /\ Forgotten(at).cid = at.cid
         /\ \A b \in BOOLEAN : /\ [Forgotten(at) EXCEPT !.emitted = b] \in AttemptRecord
                              /\ [Forgotten(at) EXCEPT !.emitted = b].cid = at.cid
BY NewAttemptTyped DEF Forgotten, AttemptRecord

LEMMA TogetherTyped ==
  ASSUME NEW x \in Shown, NEW y \in Shown
  PROVE  Together(x, y) \in Shown
BY DEF Together, Shown

(* The effects that an attempt is made of. *)
LEMMA GoesOn ==
  ASSUME RequestTypeOK, ImagesOK, NEW i \in Image, run[i].pc \in Working,
         NEW to \in {"stream", "poll", "resolve"}, NEW at \in AttemptRecord, Goes(i, to, at)
  PROVE  Works(i)
<1>1. run \in [Image -> RunRecord] /\ run[i] \in RunRecord
  BY DEF RequestTypeOK, RunRecord
<1>2. [run[i] EXCEPT !.pc = to, !.at = at] \in RunRecord
  BY <1>1 DEF RunRecord, Stage
<1>3. /\ run' = [run EXCEPT ![i] = [run[i] EXCEPT !.pc = to, !.at = at]]
      /\ doc' = doc
  BY <1>1 DEF Goes
<1>4. run[i].out # "circuit"
  BY DEF ImagesOK, ImageOK, Working
<1>5. NoneDeleted
  BY <1>3, DocsTyped DEF NoneDeleted
<1>6. QED
  BY <1>1, <1>2, <1>3, <1>4, <1>5 DEF Works, Working, Stage, RunRecord

LEMMA RaisesOn ==
  ASSUME RequestTypeOK, NEW i \in Image, NEW kind \in Outcome \ {"circuit", "no_image_generated"},
         NEW at \in AttemptRecord, Raises(i, kind, at)
  PROVE  Works(i)
<1>1. run \in [Image -> RunRecord] /\ run[i] \in RunRecord
  BY DEF RequestTypeOK, RunRecord
<1> DEFINE r == [run[i] EXCEPT !.pc = "failed", !.at = Forgotten(at), !.out = kind]
<1>2. r \in RunRecord
  BY <1>1, ForgottenTyped DEF RunRecord, Stage
<1>3. run' = [run EXCEPT ![i] = r] /\ NoneDeleted
  BY <1>1, LeftTyped DEF Raises
<1>4. r.pc = "failed" /\ r.out = kind /\ r.acct = run[i].acct
  BY <1>1 DEF RunRecord
<1> HIDE DEF r
<1>5. QED
  BY <1>1, <1>2, <1>3, <1>4 DEF Works, Working, Stage

LEMMA ReturnsOn ==
  ASSUME RequestTypeOK, NEW i \in Image, NEW out \in Outcome \ {"circuit"},
         NEW at \in AttemptRecord, Returns(i, out, at)
  PROVE  Works(i)
<1>1. run \in [Image -> RunRecord] /\ run[i] \in RunRecord
  BY DEF RequestTypeOK, RunRecord
<1> DEFINE r == [run[i] EXCEPT !.pc = "returned", !.at = Forgotten(at), !.out = out]
<1>2. r \in RunRecord
  BY <1>1, ForgottenTyped DEF RunRecord, Stage
<1>3. run' = [run EXCEPT ![i] = r] /\ NoneDeleted
  BY <1>1, LeftTyped DEF Returns
<1>4. r.pc = "returned" /\ r.out = out /\ r.acct = run[i].acct
  BY <1>1 DEF RunRecord
<1> HIDE DEF r
<1>5. QED
  BY <1>1, <1>2, <1>3, <1>4 DEF Works, Working, Stage

LEMMA YieldsOn ==
  ASSUME RequestTypeOK, NEW i \in Image, NEW out \in Delivered,
         NEW at \in AttemptRecord, Yields(i, out, at)
  PROVE  Works(i)
<1>1. out \in Outcome \ {"circuit"} /\ [at EXCEPT !.emitted = TRUE] \in AttemptRecord
  BY DEF Delivered, Outcome, AttemptRecord
<1>2. QED
  BY <1>1, ReturnsOn DEF Yields

LEMMA SaysOn ==
  ASSUME RequestTypeOK, NEW i \in Image, NEW at \in AttemptRecord, Says(i, at)
  PROVE  Works(i)
BY RaisesOn, YieldsOn DEF Says, Outcome, Delivered

LEMMA PollsOn ==
  ASSUME RequestTypeOK, ImagesOK, NEW i \in Image, run[i].pc \in Working,
         NEW at \in AttemptRecord, NEW round \in 0 .. MaxRounds, Polls(i, at, round)
  PROVE  Works(i)
<1>1. [at EXCEPT !.polled = at.ids, !.hit = at.ids, !.round = round] \in AttemptRecord
  BY DEF AttemptRecord
<1>2. QED
  BY <1>1, GoesOn DEF Polls

LEMMA FetchesOn ==
  ASSUME RequestTypeOK, ImagesOK, NEW i \in Image, run[i].pc \in Working,
         NEW at \in AttemptRecord, Fetches(i, at)
  PROVE  Works(i)
<1>1. [at EXCEPT !.hit = Nothing] \in AttemptRecord
  BY NothingTyped DEF AttemptRecord
<1>2. QED
  BY <1>1, GoesOn DEF Fetches

LEMMA FindsTyped ==
  ASSUME NEW i \in Image, NEW at \in AttemptRecord
  PROVE  Finds(i, at) \subseteq AttemptRecord
BY DEF Finds, Listed, AttemptRecord

LEMMA NoImageOn ==
  ASSUME RequestTypeOK, ImagesOK, NEW i \in Image, run[i].pc \in Working,
         NEW at \in AttemptRecord, NoImage(i, at)
  PROVE  Works(i)
<1>1. CASE at.round = 0
  <2>1. PICK known \in Finds(i, at) :
          IF known.cid # None /\ known.text # "text" THEN Polls(i, known, 1) ELSE Says(i, known)
    BY <1>1 DEF NoImage
  <2>2. known \in AttemptRecord /\ 1 \in 0 .. MaxRounds
    BY FindsTyped, NumberAssumption
  <2>3. QED
    BY <2>1, <2>2, PollsOn, SaysOn
<1>2. CASE at.round # 0
  BY <1>2, SaysOn DEF NoImage
<1>3. QED
  BY <1>1, <1>2

LEMMA PollRaisesOn ==
  ASSUME RequestTypeOK, ImagesOK, NEW i \in Image, run[i].pc \in Working,
         NEW kind \in {"timeout", "refused", "limited", "invalid", "transient", "request"},
         PollRaises(i, kind)
  PROVE  Works(i)
<1> DEFINE at == run[i].at
           first == at.round = 0
           final == at.round = MaxRounds \/ kind \in {"timeout", "refused"}
<1>1. at \in AttemptRecord /\ at.round \in 0 .. MaxRounds /\ at.ids \in Shown
  BY DEF RequestTypeOK, AttemptRecord
<1>2. [at EXCEPT !.polled = at.ids] \in AttemptRecord
  BY <1>1 DEF AttemptRecord
<1>3. CASE at.ids # Nothing /\ (first \/ final)
  <2>1. Fetches(i, [at EXCEPT !.polled = at.ids])
    BY <1>3 DEF PollRaises
  <2>2. QED
    BY <1>2, <2>1, FetchesOn
<1>4. CASE at.ids = Nothing /\ first /\ kind = "timeout"
  <2>1. Yields(i, "timeout", at)
    BY <1>4 DEF PollRaises
  <2>2. QED
    BY <1>1, <2>1, YieldsOn DEF Delivered
<1>5. CASE at.ids = Nothing /\ first /\ kind # "timeout"
  <2>1. IF at.text = "reply" THEN NoImage(i, at) ELSE Raises(i, kind, at)
    BY <1>5 DEF PollRaises
  <2>2. kind \in Outcome \ {"circuit", "no_image_generated"}
    BY <1>5 DEF Outcome, Kinds
  <2>3. QED
    BY <1>1, <2>1, <2>2, NoImageOn, RaisesOn
<1>6. CASE at.ids = Nothing /\ ~first /\ final
  <2>1. Says(i, at)
    BY <1>6 DEF PollRaises
  <2>2. QED
    BY <1>1, <2>1, SaysOn
<1>7. CASE ~first /\ ~final
  <2>1. Polls(i, at, at.round + 1)
    BY <1>7 DEF PollRaises
  <2>2. at.round + 1 \in 0 .. MaxRounds
    BY <1>1, <1>7, NumberAssumption
  <2>3. QED
    BY <1>1, <2>1, <2>2, PollsOn
<1>8. QED
  BY <1>3, <1>4, <1>5, <1>6, <1>7

-----------------------------------------------------------------------------
(* The steps of an attempt, but its first and its last.                     *)

InAttempt(i) ==
  \/ StreamFails(i) \/ StreamEnds(i)
  \/ Read(i) \/ PollTimesOut(i) \/ PollFails(i) \/ Resolve(i) \/ DownloadFails(i)

LEMMA KindsAreOutcomes == Kinds \subseteq Outcome \ {"circuit", "no_image_generated"}
BY DEF Kinds, Outcome

LEMMA RejectsTyped ==
  ASSUME RequestTypeOK, NEW kind, Rejects(kind)
  PROVE  rejected' \in 0 .. MaxRejections
BY NumberAssumption DEF RequestTypeOK, Rejects

LEMMA StreamEndsOn ==
  ASSUME RequestTypeOK, ImagesOK, NEW i \in Image, StreamEnds(i)
  PROVE  Works(i)
<1>1. run[i].pc \in Working /\ doc[i].shows \in Shown
  BY DEF StreamEnds, Working, Stage, RequestTypeOK
<1>2. PICK seen, blocked \in BOOLEAN, cid \in {None, i}, text \in {"none", "text", "reply"},
           ids \in [files : SUBSET doc[i].shows.files, sediment : {FALSE, doc[i].shows.sediment}] :
        LET at == [NewAttempt EXCEPT !.emitted = seen, !.cid = cid, !.text = text, !.ids = ids] IN
        /\ seen \/ (at = NewAttempt /\ ~blocked)
        /\ IF blocked /\ text # "none" /\ ids = Nothing THEN Says(i, at)
           ELSE \E known \in IF text = "reply" THEN Finds(i, at) ELSE {at} :
                  IF known.cid = None \/ (ids.files # {} /\ ~ids.sediment /\ ~CheckFirst /\ ~Settle)
                  THEN Fetches(i, [known EXCEPT !.polled = ids])
                  ELSE Polls(i, known, 0)
  BY DEF StreamEnds
<1> DEFINE at == [NewAttempt EXCEPT !.emitted = seen, !.cid = cid, !.text = text, !.ids = ids]
<1>3. ids \in Shown
  BY <1>1 DEF Shown
<1>4. at \in AttemptRecord
  BY <1>3, NewAttemptTyped DEF AttemptRecord
<1>5. CASE Says(i, at)
  BY <1>4, <1>5, SaysOn
<1>6. CASE \E known \in IF text = "reply" THEN Finds(i, at) ELSE {at} :
             \/ Fetches(i, [known EXCEPT !.polled = ids])
             \/ Polls(i, known, 0)
  <2> HIDE DEF at
  <2>1. PICK known \in IF text = "reply" THEN Finds(i, at) ELSE {at} :
             \/ Fetches(i, [known EXCEPT !.polled = ids])
             \/ Polls(i, known, 0)
    BY <1>6
  <2>2. known \in AttemptRecord
    BY <1>4, FindsTyped
  <2>3. [known EXCEPT !.polled = ids] \in AttemptRecord
    BY <1>3, <2>2 DEF AttemptRecord
  <2>4. 0 \in 0 .. MaxRounds
    BY NumberAssumption
  <2>5. QED
    BY <1>1, <2>1, <2>2, <2>3, <2>4, FetchesOn, PollsOn
<1>7. Says(i, at) \/ \E known \in IF text = "reply" THEN Finds(i, at) ELSE {at} :
             \/ Fetches(i, [known EXCEPT !.polled = ids])
             \/ Polls(i, known, 0)
  BY <1>2
<1>8. QED
  BY <1>5, <1>6, <1>7

LEMMA PagesTyped ==
  ASSUME NEW i \in Image
  PROVE  Pages(i) \subseteq [shows : Shown, verdict : Verdict]
BY DEF Pages, Page

LEMMA ReadOn ==
  ASSUME RequestTypeOK, ImagesOK, NEW i \in Image, Read(i)
  PROVE  Works(i)
<1>1. PICK page \in Pages(i) :
        LET at == run[i].at
            found == Together(at.polled, page.shows)
            now == [at EXCEPT !.polled = found]
        IN
        IF found = Nothing
        THEN page.verdict # "none" /\ PollRaises(i, page.verdict)
        ELSE \/ CheckFirst /\ Settle /\ at.hit # found /\ Goes(i, "poll", [now EXCEPT !.hit = found])
             \/ ~CheckFirst /\ found.sediment /\ found # at.polled /\ Goes(i, "poll", now)
             \/ Fetches(i, now)
  BY DEF Read
<1> DEFINE at == run[i].at
           found == Together(at.polled, page.shows)
           now == [at EXCEPT !.polled = found]
<1>2. /\ run[i].pc \in Working /\ at \in AttemptRecord
      /\ at.polled \in Shown /\ page.shows \in Shown /\ page.verdict \in Verdict
  BY PagesTyped DEF Read, Working, Stage, RequestTypeOK, AttemptRecord
<1>3. found \in Shown
  BY <1>2, TogetherTyped
<1>4. now \in AttemptRecord /\ [now EXCEPT !.hit = found] \in AttemptRecord
  <2> HIDE DEF found
  <2>1. QED
    BY <1>2, <1>3 DEF AttemptRecord
<1>5. CASE found = Nothing
  BY <1>1, <1>2, <1>5, PollRaisesOn DEF Verdict
<1>6. CASE found # Nothing
  <2>1. \/ Goes(i, "poll", [now EXCEPT !.hit = found])
        \/ Goes(i, "poll", now)
        \/ Fetches(i, now)
    BY <1>1, <1>6
  <2> HIDE DEF found, now
  <2>2. QED
    BY <1>2, <1>4, <2>1, GoesOn, FetchesOn
<1>7. QED
  BY <1>5, <1>6

LEMMA ResolveOn ==
  ASSUME RequestTypeOK, ImagesOK, NEW i \in Image, Resolve(i)
  PROVE  Works(i)
<1>1. run[i].pc \in Working /\ run[i].at \in AttemptRecord
  BY DEF Resolve, Working, Stage, RequestTypeOK
<1>2. \/ NoImage(i, run[i].at)
      \/ Raises(i, "transient", run[i].at)
      \/ Yields(i, "result", run[i].at)
      \/ Returns(i, "no_image_generated", run[i].at)
  BY DEF Resolve
<1>3. /\ "transient" \in Outcome \ {"circuit", "no_image_generated"}
      /\ "no_image_generated" \in Outcome \ {"circuit"} /\ "result" \in Delivered
  BY DEF Outcome, Kinds, Delivered
<1>4. QED
  BY <1>1, <1>2, <1>3, NoImageOn, RaisesOn, YieldsOn, ReturnsOn

LEMMA AttemptWorks ==
  ASSUME RequestTypeOK, ImagesOK, NEW i \in Image, InAttempt(i)
  PROVE  /\ Works(i) /\ run[i].pc \in {"stream", "poll", "resolve"}
         /\ rejected' \in 0 .. MaxRejections
         /\ UNCHANGED <<usable, slots, response>>
<1>1. rejected \in 0 .. MaxRejections /\ run[i].at \in AttemptRecord
  BY DEF RequestTypeOK
<1>2. CASE StreamFails(i)
  <2>1. PICK kind \in Kinds, emitted \in BOOLEAN :
          Rejects(kind) /\ Raises(i, kind, [run[i].at EXCEPT !.emitted = emitted])
    BY <1>2 DEF StreamFails
  <2>2. [run[i].at EXCEPT !.emitted = emitted] \in AttemptRecord
    BY <1>1 DEF AttemptRecord
  <2>3. Works(i)
    BY <2>1, <2>2, KindsAreOutcomes, RaisesOn
  <2>4. QED
    BY <1>2, <2>1, <2>3, RejectsTyped DEF StreamFails, Working, Stage
<1>3. CASE StreamEnds(i)
  BY <1>1, <1>3, StreamEndsOn DEF StreamEnds, Working, Stage
<1>4. CASE Read(i)
  BY <1>1, <1>4, ReadOn DEF Read, Working, Stage
<1>5. CASE PollTimesOut(i)
  <2>1. run[i].pc \in Working /\ (PollRaises(i, "timeout") \/ PollRaises(i, "refused"))
    BY <1>5 DEF PollTimesOut, Working, Stage
  <2>2. QED
    BY <1>1, <1>5, <2>1, PollRaisesOn DEF PollTimesOut
<1>6. CASE PollFails(i)
  <2>1. PICK kind \in {"invalid", "transient", "request"} : Rejects(kind) /\ PollRaises(i, kind)
    BY <1>6 DEF PollFails
  <2>2. run[i].pc \in Working
    BY <1>6 DEF PollFails, Working, Stage
  <2>3. Works(i)
    BY <2>1, <2>2, PollRaisesOn
  <2>4. QED
    BY <1>6, <2>1, <2>2, <2>3, RejectsTyped DEF PollFails
<1>7. CASE Resolve(i)
  BY <1>1, <1>7, ResolveOn DEF Resolve, Working, Stage
<1>8. CASE DownloadFails(i)
  <2>1. PICK kind \in Kinds : Rejects(kind) /\ Raises(i, kind, run[i].at)
    BY <1>8 DEF DownloadFails
  <2>2. Works(i)
    BY <1>1, <2>1, KindsAreOutcomes, RaisesOn
  <2>3. QED
    BY <1>8, <2>1, <2>2, RejectsTyped DEF DownloadFails, Working, Stage
<1>9. QED
  BY <1>2, <1>3, <1>4, <1>5, <1>6, <1>7, <1>8 DEF InAttempt

-----------------------------------------------------------------------------
(* The end of an attempt.                                                   *)

Leaves(i) ==
  /\ run[i].pc \in {"returned", "failed"}
  /\ run' \in [Image -> RunRecord]
  /\ \A j \in Image \ {i} : run'[j] = run[j]
  /\ run'[i].pc \in {"account", "end"} /\ run'[i].out # "circuit"
  /\ run[i].pc = "failed" /\ run[i].out = "no_image_generated" => MarkedTwice(i)'
  /\ doc' \in [Image -> DocRecord]
  /\ ~RemoveAlways =>
       \A c \in Image : \/ doc'[c].kept = doc[c].kept
                        \/ run'[i].pc = "end" /\ run'[i].out = "result" /\ run'[i].at.cid = c
  /\ slots' = Marked(run[i].acct)
  /\ usable' \subseteq Account
  /\ UNCHANGED <<rejected, response>>

(* The attempt ends without a word: it is marked, and is to raise. *)
Raised(i) ==
  /\ run[i].pc = "returned" /\ run[i].out = "no_image_generated"
  /\ run' = [run EXCEPT ![i].pc = "failed"]
  /\ slots' = Marked(run[i].acct)
  /\ UNCHANGED <<doc, usable, rejected, response>>

LEMMA RemovedTyped ==
  ASSUME RequestTypeOK, NEW i \in Image, NEW success \in BOOLEAN, Removed(i, success)
  PROVE  /\ doc' \in [Image -> DocRecord]
         /\ \A c \in Image : \/ doc'[c].kept = doc[c].kept
                             \/ (RemoveAlways \/ success) /\ c = run[i].at.cid
<1>1. doc \in [Image -> DocRecord]
  BY DocsTyped
<1>2. CASE UNCHANGED doc
  BY <1>1, <1>2
<1>3. ASSUME run[i].at.cid \in Image, RemoveAlways \/ success,
             doc' = [doc EXCEPT ![run[i].at.cid].kept = FALSE]
      PROVE  /\ doc' \in [Image -> DocRecord]
             /\ \A c \in Image : \/ doc'[c].kept = doc[c].kept
                                 \/ (RemoveAlways \/ success) /\ c = run[i].at.cid
  <2>1. PICK k \in Image : k = run[i].at.cid
    BY <1>3
  <2>2. [doc[k] EXCEPT !.kept = FALSE] \in DocRecord
    BY <1>1 DEF DocRecord
  <2>3. doc' = [doc EXCEPT ![k] = [doc[k] EXCEPT !.kept = FALSE]]
    BY <1>1, <1>3, <2>1
  <2>4. QED
    BY <1>1, <1>3, <2>1, <2>2, <2>3
<1>4. QED
  BY <1>2, <1>3 DEF Removed

LEMMA EndTyped ==
  ASSUME RequestTypeOK, NEW i \in Image, NEW out \in Outcome, End(i, out)
  PROVE  /\ run' \in [Image -> RunRecord]
         /\ \A j \in Image \ {i} : run'[j] = run[j]
         /\ run'[i].pc = "end" /\ run'[i].out = out /\ run'[i].at.cid = run[i].at.cid
<1>1. run \in [Image -> RunRecord] /\ run[i] \in RunRecord /\ run[i].at \in AttemptRecord
  BY DEF RequestTypeOK, RunRecord
<1> DEFINE at == [Forgotten(run[i].at) EXCEPT !.emitted = FALSE]
           r == [run[i] EXCEPT !.pc = "end", !.acct = None, !.out = out, !.at = at]
<1>2. at \in AttemptRecord /\ at.cid = run[i].at.cid
  BY <1>1, ForgottenTyped
<1>3. r \in RunRecord /\ r.pc = "end" /\ r.out = out /\ r.at = at
  <2> HIDE DEF at
  <2>1. QED
    BY <1>1, <1>2 DEF RunRecord, Stage
<1>4. run' = [run EXCEPT ![i] = r]
  BY <1>1 DEF End
<1> HIDE DEF r
<1>5. QED
  BY <1>1, <1>2, <1>3, <1>4

LEMMA FinishLeaves ==
  ASSUME RequestTypeOK, ImagesOK, NEW i \in Image, FinishImage(i)
  PROVE  Leaves(i) \/ Raised(i)
<1>1. run[i].out \in Outcome /\ run[i].pc = "returned" /\ run[i].out # "circuit"
  BY DEF RequestTypeOK, FinishImage, ImagesOK, ImageOK
<1>2. CASE run[i].out = "no_image_generated"
  BY <1>2 DEF FinishImage, Raised
<1>3. CASE run[i].out # "no_image_generated"
  <2>1. End(i, run[i].out) /\ Removed(i, run[i].out = "result")
    BY <1>3 DEF FinishImage
  <2>2. /\ slots' = Marked(run[i].acct) /\ usable' \subseteq Account
        /\ UNCHANGED <<rejected, response>>
    BY DEF FinishImage, RequestTypeOK
  <2>3. /\ doc' \in [Image -> DocRecord]
        /\ \A c \in Image : \/ doc'[c].kept = doc[c].kept
                            \/ (RemoveAlways \/ run[i].out = "result") /\ c = run[i].at.cid
    <3>1. (run[i].out = "result") \in BOOLEAN
      OBVIOUS
    <3>2. QED
      BY <2>1, <3>1, RemovedTyped
  <2>4. QED
    BY <1>1, <1>3, <2>1, <2>2, <2>3, EndTyped DEF Leaves
<1>4. QED
  BY <1>2, <1>3

(* One more attempt counts against a limit, and is within it. *)
LEMMA RetryTyped ==
  ASSUME RequestTypeOK, NEW i \in Image, Retry(i)
  PROVE  /\ run' \in [Image -> RunRecord]
         /\ \A j \in Image \ {i} : run'[j] = run[j]
         /\ run'[i].pc = "account" /\ run'[i].out = run[i].out
<1>1. run \in [Image -> RunRecord] /\ run[i] \in RunRecord
  BY DEF RequestTypeOK, RunRecord
<1> DEFINE c == Counter(i)
           t == run[i].tries
           more == [t EXCEPT ![c] = @ + 1]
           r == [run[i] EXCEPT !.pc = "account", !.tries = more]
<1>2. c \in {"poll", "reply", "tls", "conn"} /\ t[c] < Limit[c]
  BY DEF Retry, Retries, Counter
<1>3. more \in [tls : 0 .. MaxTls, conn : 0 .. MaxConn, poll : 0 .. MaxPoll, reply : 0 .. MaxReply]
  <2> HIDE DEF c
  <2>1. t \in [tls : 0 .. MaxTls, conn : 0 .. MaxConn, poll : 0 .. MaxPoll, reply : 0 .. MaxReply]
    BY <1>1 DEF RunRecord
  <2> HIDE DEF t
  <2>2. CASE c = "poll"
    BY <1>2, <2>1, <2>2, NumberAssumption DEF Limit
  <2>3. CASE c = "reply"
    BY <1>2, <2>1, <2>3, NumberAssumption DEF Limit
  <2>4. CASE c = "tls"
    BY <1>2, <2>1, <2>4, NumberAssumption DEF Limit
  <2>5. CASE c = "conn"
    BY <1>2, <2>1, <2>5, NumberAssumption DEF Limit
  <2>6. QED
    BY <1>2, <2>2, <2>3, <2>4, <2>5
<1>4. r \in RunRecord /\ r.pc = "account" /\ r.out = run[i].out /\ r.at = run[i].at
  <2> HIDE DEF more
  <2>1. QED
    BY <1>1, <1>3 DEF RunRecord, Stage
<1>5. run' = [run EXCEPT ![i] = r]
  BY <1>1 DEF Retry
<1> HIDE DEF r
<1>6. QED
  BY <1>1, <1>4, <1>5

LEMMA ReplaceTyped ==
  ASSUME RequestTypeOK, NEW i \in Image, Replace(i)
  PROVE  /\ run' \in [Image -> RunRecord]
         /\ \A j \in Image \ {i} : run'[j] = run[j]
         /\ run'[i].pc = "account" /\ run'[i].out = run[i].out
<1>1. run \in [Image -> RunRecord] /\ run[i] \in RunRecord
  BY DEF RequestTypeOK, RunRecord
<1>2. [run[i] EXCEPT !.pc = "account"] \in RunRecord
  BY <1>1 DEF RunRecord, Stage
<1>3. run' = [run EXCEPT ![i] = [run[i] EXCEPT !.pc = "account"]]
  BY <1>1 DEF Replace
<1>4. QED
  BY <1>1, <1>2, <1>3 DEF RunRecord

LEMMA HandleLeaves ==
  ASSUME RequestTypeOK, ImagesOK, NEW i \in Image, Handle(i)
  PROVE  Leaves(i)
<1>1. run[i].out \in Outcome /\ run[i].pc = "failed" /\ run[i].out # "circuit"
  BY DEF RequestTypeOK, Handle, ImagesOK, ImageOK
<1>2. /\ slots' = Marked(run[i].acct) /\ UNCHANGED <<rejected, response>>
      /\ doc' \in [Image -> DocRecord]
      /\ ~RemoveAlways => \A c \in Image : doc'[c].kept = doc[c].kept
  <2>1. Removed(i, FALSE)
    BY DEF Handle
  <2>2. QED
    BY <2>1, RemovedTyped DEF Handle
<1>3. usable' \subseteq Account
  BY DEF Handle, RequestTypeOK
<1>4. CASE Retry(i)
  <2>1. run[i].out # "no_image_generated"
    BY <1>4 DEF Retry, Retries, Counter
  <2>2. QED
    BY <1>1, <1>2, <1>3, <1>4, <2>1, RetryTyped DEF Leaves
<1>5. CASE Replace(i)
  <2>1. run[i].out # "no_image_generated"
    BY <1>5 DEF Replace
  <2>2. QED
    BY <1>1, <1>2, <1>3, <1>5, <2>1, ReplaceTyped DEF Leaves
<1>6. CASE GiveUp(i)
  <2>1. PICK out \in Outcome : /\ End(i, out) /\ out # "circuit"
                               /\ run[i].out = "no_image_generated" => out = run[i].out
    <3>1. run[i].out = "no_image_generated" => Counter(i) = "none" /\ run[i].out \notin Kinds
      BY DEF Counter, Kinds
    <3>2. QED
      BY <1>1, <1>6, <3>1 DEF GiveUp, Outcome
  <2>2. run[i].out = "no_image_generated" => MarkedTwice(i)'
    BY <2>1, EndTyped DEF MarkedTwice
  <2>3. QED
    BY <1>1, <1>2, <1>3, <2>1, <2>2, EndTyped DEF Leaves
<1>7. QED
  BY <1>4, <1>5, <1>6 DEF Handle

-----------------------------------------------------------------------------
(* The invariant, step by step.                                             *)

(* A step changes the image i alone, to what is in order.                   *)
LEMMA OneChanges ==
  ASSUME ImagesOK, NEW i \in Image, \A j \in Image \ {i} : run'[j] = run[j], ImageOK(i)'
  PROVE  ImagesOK'
BY DEF ImagesOK, ImageOK

(* Who was marked twice has ended, and stays so. *)
LEMMA OneEnds ==
  ASSUME NEW i \in Image, \A j \in Image \ {i} : run'[j] = run[j], run[i].pc # "end"
  PROVE  Twice => Twice'
BY DEF Twice, MarkedTwice

LEMMA HoldersFinite ==
  ASSUME NEW a
  PROVE  IsFiniteSet(Holders(a)) /\ Cardinality(Holders(a)) \in Nat
<1>1. IsFiniteSet(Image)
  BY NumberAssumption, FS_Interval DEF Image
<1>2. Holders(a) \subseteq Image
  BY DEF Holders
<1>3. QED
  BY <1>1, <1>2, FS_Subset, FS_CardinalityType

(* The slots, before and after a step. *)
HeldBy(a) ==
  slots[a] <= Cardinality(Holders(a)) /\ (slots[a] = Cardinality(Holders(a)) \/ Twice)

LEMMA SlotsAreHeld == SlotsFollowAttempts <=> \A a \in Account : HeldBy(a)
BY DEF SlotsFollowAttempts, HeldBy, Twice

LEMMA SlotsAreHeldNext == SlotsFollowAttempts' <=> \A a \in Account : HeldBy(a)'
BY DEF SlotsFollowAttempts, HeldBy, Twice

LEMMA SlotsStand ==
  ASSUME SlotsFollowAttempts, slots' = slots, Twice => Twice',
         \A a \in Account : Holders(a)' = Holders(a)
  PROVE  SlotsFollowAttempts'
<1>1. ASSUME NEW a \in Account PROVE HeldBy(a)'
  <2>1. HeldBy(a) /\ Cardinality(Holders(a))' = Cardinality(Holders(a))
    BY SlotsAreHeld
  <2>2. QED
    BY <2>1 DEF HeldBy
<1>2. QED
  BY <1>1, SlotsAreHeldNext

(* A mark frees a slot: that of the image which is marked, or, at a second  *)
(* mark, that of another one.                                               *)
LEMMA MarkKeeps ==
  ASSUME slots \in [Account -> Nat], SlotsFollowAttempts, Twice => Twice',
         NEW i \in Image, NEW a \in Account, slots' = Marked(a),
         \A b \in Account \ {a} : Holders(b)' = Holders(b),
         \/ i \in Holders(a) /\ Holders(a)' = Holders(a) \ {i}
         \/ Twice' /\ Holders(a)' = Holders(a)
  PROVE  slots' \in [Account -> Nat] /\ SlotsFollowAttempts'
<1>1. /\ slots[a] \in Nat /\ slots' \in [Account -> Nat]
      /\ slots'[a] = IF slots[a] = 0 THEN 0 ELSE slots[a] - 1
      /\ \A b \in Account \ {a} : slots'[b] = slots[b]
  BY DEF Marked
<1>2. HeldBy(a) /\ Cardinality(Holders(a)) \in Nat
  BY SlotsAreHeld, HoldersFinite
<1>3. HeldBy(a)'
  <2>1. CASE i \in Holders(a) /\ Holders(a)' = Holders(a) \ {i}
    <3>1. /\ Cardinality(Holders(a)') = Cardinality(Holders(a)) - 1
          /\ Cardinality(Holders(a)) # 0
      BY <2>1, HoldersFinite, FS_RemoveElement, FS_EmptySet
    <3>2. /\ slots'[a] <= Cardinality(Holders(a)')
          /\ slots[a] = Cardinality(Holders(a)) => slots'[a] = Cardinality(Holders(a)')
      BY <1>1, <1>2, <3>1 DEF HeldBy
    <3>3. QED
      BY <1>2, <3>2 DEF HeldBy
  <2>2. CASE Twice' /\ Holders(a)' = Holders(a)
    <3>1. slots'[a] <= Cardinality(Holders(a)')
      BY <1>1, <1>2, <2>2 DEF HeldBy
    <3>2. QED
      BY <2>2, <3>1 DEF HeldBy
  <2>3. QED
    BY <2>1, <2>2
<1>4. ASSUME NEW b \in Account \ {a} PROVE HeldBy(b)'
  <2>1. HeldBy(b) /\ slots'[b] = slots[b] /\ Cardinality(Holders(b)') = Cardinality(Holders(b))
    BY <1>1, SlotsAreHeld
  <2>2. QED
    BY <2>1 DEF HeldBy
<1>5. QED
  BY <1>1, <1>3, <1>4, SlotsAreHeldNext

(* A working image stays with its account.                                  *)
LEMMA WorkKeeps ==
  ASSUME RequestInvariant, NEW i \in Image, InAttempt(i)
  PROVE  RequestInvariant'
<1>1. /\ Works(i) /\ run[i].pc \in {"stream", "poll", "resolve"}
      /\ rejected' \in 0 .. MaxRejections
      /\ UNCHANGED <<usable, slots, response>>
  BY AttemptWorks DEF RequestInvariant
<1>2. ImageOK(i)'
  BY <1>1 DEF RequestInvariant, ImagesOK, ImageOK, Works, Working, Stage
<1>3. ImagesOK'
  BY <1>1, <1>2, OneChanges DEF RequestInvariant, Works
<1>4. RequestTypeOK'
  BY <1>1 DEF RequestInvariant, RequestTypeOK, Works, NoneDeleted, RunRecord, DocRecord
<1>5. \A a \in Account : Holders(a)' = Holders(a)
  BY <1>1 DEF Holders, Works, Working, Stage, RequestInvariant, ImagesOK, ImageOK
<1>6. Twice => Twice'
  BY <1>1, OneEnds DEF Works
<1>7. SlotsFollowAttempts'
  BY <1>1, <1>5, <1>6, SlotsStand DEF RequestInvariant
<1>8. QED
  BY <1>3, <1>4, <1>7 DEF RequestInvariant

LEMMA AcquireKeeps ==
  ASSUME RequestInvariant, NEW i \in Image, Acquire(i)
  PROVE  RequestInvariant'
<1>1. /\ run \in [Image -> RunRecord] /\ run[i] \in RunRecord /\ run[i].pc = "account"
      /\ slots \in [Account -> Nat] /\ usable \subseteq Account
      /\ UNCHANGED <<doc, usable, rejected, response>>
  BY DEF RequestInvariant, RequestTypeOK, RunRecord, Acquire
<1>2. \A a \in Account : i \notin Holders(a)
  BY <1>1 DEF Holders, Working, RequestInvariant, ImagesOK, ImageOK
<1>3. CASE \E a \in usable :
             /\ run' = [run EXCEPT ![i].pc = "breaker", ![i].acct = a, ![i].at = NewAttempt,
                                   ![i].out = "none"]
             /\ slots' = [slots EXCEPT ![a] = @ + 1]
  <2>1. PICK a \in usable :
             /\ run' = [run EXCEPT ![i].pc = "breaker", ![i].acct = a, ![i].at = NewAttempt,
                                   ![i].out = "none"]
             /\ slots' = [slots EXCEPT ![a] = @ + 1]
    BY <1>3
  <2> DEFINE r == [run[i] EXCEPT !.pc = "breaker", !.acct = a, !.at = NewAttempt, !.out = "none"]
  <2>2. a \in Account /\ run' = [run EXCEPT ![i] = r]
    BY <1>1, <2>1
  <2>3. r \in RunRecord /\ r.pc = "breaker" /\ r.acct = a /\ r.out = "none"
    BY <1>1, <2>2, NewAttemptTyped DEF RunRecord, Stage, Outcome
  <2> HIDE DEF r
  <2>4. /\ run' \in [Image -> RunRecord] /\ run'[i] = r
        /\ \A j \in Image \ {i} : run'[j] = run[j]
    BY <1>1, <2>2, <2>3
  <2>5. ImagesOK'
    BY <2>2, <2>3, <2>4, OneChanges DEF RequestInvariant, ImageOK
  <2>6. RequestTypeOK'
    BY <1>1, <2>1, <2>4 DEF RequestInvariant, RequestTypeOK, RunRecord
  <2>7. \A b \in Account \ {a} : Holders(b)' = Holders(b)
    BY <1>2, <2>3, <2>4 DEF Holders
  <2>8. Holders(a)' = Holders(a) \cup {i}
    BY <2>3, <2>4 DEF Holders, Working, Stage
  <2>9. Cardinality(Holders(a)') = Cardinality(Holders(a)) + 1
    BY <1>2, <2>2, <2>8, HoldersFinite, FS_AddElement
  <2>10. SlotsFollowAttempts'
    <3>1. Twice => Twice'
      BY <1>1, <2>4, OneEnds
    <3>2. /\ slots[a] \in Nat /\ slots'[a] = slots[a] + 1
          /\ \A b \in Account \ {a} : slots'[b] = slots[b]
      BY <1>1, <2>1, <2>2
    <3>3. ASSUME NEW b \in Account PROVE HeldBy(b)'
      <4>1. HeldBy(b) /\ Cardinality(Holders(b)) \in Nat
        BY SlotsAreHeld, HoldersFinite DEF RequestInvariant
      <4>2. CASE b = a
        BY <2>9, <3>1, <3>2, <4>1, <4>2 DEF HeldBy
      <4>3. CASE b # a
        <5>1. Cardinality(Holders(b)') = Cardinality(Holders(b))
          BY <2>7, <4>3
        <5>2. QED
          BY <3>1, <3>2, <4>1, <4>3, <5>1 DEF HeldBy
      <4>4. QED
        BY <4>2, <4>3
    <3>4. QED
      BY <3>3, SlotsAreHeldNext
  <2>11. QED
    BY <2>5, <2>6, <2>10 DEF RequestInvariant
<1>4. CASE /\ run' = [run EXCEPT ![i].pc = "end", ![i].acct = None, ![i].out = "unavailable"]
           /\ UNCHANGED slots
  <2> DEFINE r == [run[i] EXCEPT !.pc = "end", !.acct = None, !.out = "unavailable"]
  <2>1. run' = [run EXCEPT ![i] = r]
    BY <1>1, <1>4
  <2>2. r \in RunRecord /\ r.pc = "end" /\ r.out = "unavailable"
    BY <1>1 DEF RunRecord, Stage, Outcome
  <2> HIDE DEF r
  <2>3. /\ run' \in [Image -> RunRecord] /\ run'[i] = r
        /\ \A j \in Image \ {i} : run'[j] = run[j]
    BY <1>1, <2>1, <2>2
  <2>4. ImagesOK'
    BY <2>2, <2>3, OneChanges DEF RequestInvariant, ImageOK, Working, Stage
  <2>5. RequestTypeOK'
    BY <1>1, <1>4, <2>3 DEF RequestInvariant, RequestTypeOK, RunRecord
  <2>6. \A b \in Account : Holders(b)' = Holders(b)
    BY <1>2, <2>2, <2>3 DEF Holders, Working
  <2>7. SlotsFollowAttempts'
    BY <1>1, <1>4, <2>3, <2>6, OneEnds, SlotsStand DEF RequestInvariant
  <2>8. QED
    BY <2>4, <2>5, <2>7 DEF RequestInvariant
<1>5. QED
  BY <1>3, <1>4 DEF Acquire

(* The breaker lets an image through: it opens a conversation, and no       *)
(* image's attempt is on its old one any more.                              *)
Opens(i) == Breaker(i) /\ run'[i].pc = "stream"

LEMMA Opening ==
  ASSUME RequestTypeOK, NEW i \in Image, Opens(i)
  PROVE  /\ run \in [Image -> RunRecord] /\ run' \in [Image -> RunRecord]
         /\ \A j \in Image \ {i} : run'[j].pc = run[j].pc
         /\ \A j \in Image : /\ run'[j].acct = run[j].acct /\ run'[j].out = run[j].out
                             /\ run[j].at.cid # i => run'[j].at.cid = run[j].at.cid
         /\ run[i].pc = "breaker" /\ run'[i].pc = "stream"
         /\ doc' = [doc EXCEPT ![i] = Opened(run[i].acct)]
         /\ UNCHANGED <<usable, slots, rejected, response>>
<1>1. run \in [Image -> RunRecord] /\ run[i] \in RunRecord
  BY DEF RequestTypeOK, RunRecord
<1>2. run' # [run EXCEPT ![i].pc = "end", ![i].out = "circuit"]
  <2>1. SUFFICES ASSUME run' = [run EXCEPT ![i].pc = "end", ![i].out = "circuit"]
                 PROVE  run'[i].pc = "end"
    BY DEF Opens
  <2>2. QED
    BY <1>1, <2>1 DEF RunRecord
<1>3. /\ run' = [j \in Image |-> [run[j] EXCEPT !.pc = IF j = i THEN "stream" ELSE @,
                                                !.at.cid = IF @ = i THEN Other ELSE @]]
      /\ doc' = [doc EXCEPT ![i] = Opened(run[i].acct)]
  BY <1>2 DEF Opens, Breaker
<1>4. ASSUME NEW j \in Image
      PROVE  /\ run'[j] \in RunRecord
             /\ run'[j].pc = (IF j = i THEN "stream" ELSE run[j].pc)
             /\ run'[j].acct = run[j].acct /\ run'[j].out = run[j].out
             /\ run[j].at.cid # i => run'[j].at.cid = run[j].at.cid
  <2>1. PICK cid \in Image \cup {None, Other} : cid = IF run[j].at.cid = i THEN Other ELSE run[j].at.cid
    BY <1>1 DEF RunRecord, AttemptRecord
  <2>2. PICK place \in Stage : place = IF j = i THEN "stream" ELSE run[j].pc
    BY <1>1 DEF RunRecord, Stage
  <2>3. run[j] \in RunRecord /\ run[j].at \in AttemptRecord
    BY <1>1 DEF RunRecord
  <2> DEFINE at == [run[j].at EXCEPT !.cid = cid]
  <2>4. at \in AttemptRecord /\ at.cid = cid
    BY <2>3 DEF AttemptRecord
  <2>5. run'[j] = [run[j] EXCEPT !.pc = place, !.at = at]
    BY <1>3, <2>1, <2>2, <2>3 DEF RunRecord
  <2> HIDE DEF at
  <2>6. /\ run'[j] \in RunRecord /\ run'[j].pc = place /\ run'[j].at = at
        /\ run'[j].acct = run[j].acct /\ run'[j].out = run[j].out
    BY <2>3, <2>4, <2>5 DEF RunRecord
  <2>7. QED
    BY <2>1, <2>2, <2>4, <2>6
<1>5. run' \in [Image -> RunRecord]
  <2>1. run' = [j \in Image |-> run'[j]]
    BY <1>3
  <2>2. QED
    BY <2>1, <1>4
<1>6. QED
  BY <1>1, <1>3, <1>4, <1>5 DEF Opens, Breaker

LEMMA OpeningKeeps ==
  ASSUME RequestInvariant, NEW i \in Image, Opens(i)
  PROVE  RequestInvariant'
<1>1. /\ run' \in [Image -> RunRecord]
      /\ \A j \in Image \ {i} : run'[j].pc = run[j].pc
      /\ \A j \in Image : run'[j].acct = run[j].acct /\ run'[j].out = run[j].out
      /\ run[i].pc = "breaker" /\ run'[i].pc = "stream"
      /\ doc' = [doc EXCEPT ![i] = Opened(run[i].acct)]
      /\ UNCHANGED <<usable, slots, rejected, response>>
  BY Opening DEF RequestInvariant
<1>2. \A j \in Image : ImageOK(j)
  BY DEF RequestInvariant, ImagesOK
<1>3. ImagesOK'
  BY <1>1, <1>2 DEF ImagesOK, ImageOK, Working, Stage
<1>4. doc' \in [Image -> DocRecord]
  <2>1. run[i].acct \in Account \cup {None}
    BY DEF RequestInvariant, RequestTypeOK
  <2>2. QED
    BY <1>1, <2>1, DocsTyped, OpenedTyped DEF RequestInvariant
<1>5. RequestTypeOK'
  BY <1>1, <1>4 DEF RequestInvariant, RequestTypeOK, RunRecord, DocRecord
<1>6. \A a \in Account : Holders(a)' = Holders(a)
  BY <1>1 DEF Holders, Working, Stage
<1>7. Twice => Twice'
  BY <1>1 DEF Twice, MarkedTwice
<1>8. SlotsFollowAttempts'
  BY <1>1, <1>6, <1>7, SlotsStand DEF RequestInvariant
<1>9. QED
  BY <1>3, <1>5, <1>8 DEF RequestInvariant

(* An open circuit ends the image, which keeps its slot.                    *)
Refused(i) == Breaker(i) /\ run'[i].pc # "stream"

LEMMA RefusalKeeps ==
  ASSUME RequestInvariant, NEW i \in Image, Refused(i)
  PROVE  RequestInvariant'
<1>1. /\ run \in [Image -> RunRecord] /\ run[i] \in RunRecord /\ run[i].pc = "breaker"
      /\ UNCHANGED <<usable, slots, rejected, response>>
  BY DEF RequestInvariant, RequestTypeOK, RunRecord, Refused, Breaker
<1> DEFINE r == [run[i] EXCEPT !.pc = "end", !.out = "circuit"]
<1>2. run' = [run EXCEPT ![i] = r] /\ doc' = doc
  <2>1. ASSUME run' = [j \in Image |-> [run[j] EXCEPT !.pc = IF j = i THEN "stream" ELSE @,
                                                     !.at.cid = IF @ = i THEN Other ELSE @]]
        PROVE  FALSE
    <3>1. run'[i].pc = "stream"
      BY <1>1, <2>1 DEF RunRecord
    <3>2. QED
      BY <3>1 DEF Refused
  <2>2. QED
    BY <1>1, <2>1 DEF Refused, Breaker
<1>3. r \in RunRecord /\ r.pc = "end" /\ r.out = "circuit" /\ r.acct = run[i].acct
  BY <1>1 DEF RunRecord, Stage, Outcome
<1> HIDE DEF r
<1>4. /\ run' \in [Image -> RunRecord] /\ run'[i] = r
      /\ \A j \in Image \ {i} : run'[j] = run[j]
  BY <1>1, <1>2, <1>3
<1>5. ImagesOK'
  BY <1>3, <1>4, OneChanges DEF RequestInvariant, ImageOK, Working, Stage
<1>6. RequestTypeOK'
  BY <1>1, <1>2, <1>4 DEF RequestInvariant, RequestTypeOK, RunRecord
<1>7. \A b \in Account : Holders(b)' = Holders(b)
  <2>1. run[i].out # "circuit"
    BY <1>1 DEF RequestInvariant, ImagesOK, ImageOK
  <2>2. QED
    BY <1>1, <1>3, <1>4, <2>1 DEF Holders, Working, Stage
<1>8. SlotsFollowAttempts'
  BY <1>1, <1>4, <1>7, OneEnds, SlotsStand DEF RequestInvariant
<1>9. QED
  BY <1>5, <1>6, <1>8 DEF RequestInvariant

(* The end of an attempt gives back the slot that it holds, or, after an    *)
(* end without a word, a slot that it holds no more.                        *)
LEMMA LeavingKeeps ==
  ASSUME RequestInvariant, NEW i \in Image, Leaves(i)
  PROVE  RequestInvariant'
<1>1. PICK a \in Account :
        run[i].acct = a /\ run[i].pc \in Working /\ slots \in [Account -> Nat]
  BY DEF RequestInvariant, RequestTypeOK, ImagesOK, ImageOK, Leaves, Working, Stage
<1>2. ImagesOK'
  BY OneChanges DEF RequestInvariant, ImageOK, Leaves, Working, Stage
<1>3. \A b \in Account \ {a} : Holders(b)' = Holders(b)
  BY <1>1 DEF Holders, Leaves, Working, Stage
<1>4. \/ i \in Holders(a) /\ Holders(a)' = Holders(a) \ {i}
      \/ Twice' /\ Holders(a)' = Holders(a)
  <2>1. CASE run[i].pc = "failed" /\ run[i].out = "no_image_generated"
    BY <1>1, <2>1 DEF Holders, Leaves, Working, Stage, Twice
  <2>2. CASE ~(run[i].pc = "failed" /\ run[i].out = "no_image_generated")
    BY <1>1, <2>2 DEF Holders, Leaves, Working, Stage
  <2>3. QED
    BY <2>1, <2>2
<1>5. Twice => Twice'
  BY OneEnds DEF Leaves
<1>6. SlotsFollowAttempts' /\ slots' \in [Account -> Nat]
  BY <1>1, <1>3, <1>4, <1>5, MarkKeeps DEF RequestInvariant, Leaves
<1>7. RequestTypeOK'
  BY <1>6 DEF RequestInvariant, RequestTypeOK, Leaves, RunRecord, DocRecord
<1>8. QED
  BY <1>2, <1>6, <1>7 DEF RequestInvariant

LEMMA RaisingKeeps ==
  ASSUME RequestInvariant, NEW i \in Image, Raised(i)
  PROVE  RequestInvariant'
<1>1. PICK a \in Account :
        /\ run[i].acct = a /\ run[i].pc = "returned" /\ run[i].out = "no_image_generated"
        /\ slots \in [Account -> Nat]
  BY DEF RequestInvariant, RequestTypeOK, ImagesOK, ImageOK, Raised, Working, Stage
<1> DEFINE r == [run[i] EXCEPT !.pc = "failed"]
<1>2. run \in [Image -> RunRecord] /\ run[i] \in RunRecord /\ run' = [run EXCEPT ![i] = r]
  BY DEF RequestInvariant, RequestTypeOK, RunRecord, Raised
<1>3. r \in RunRecord /\ r.pc = "failed" /\ r.acct = a /\ r.out = "no_image_generated"
  BY <1>1, <1>2 DEF RunRecord, Stage
<1> HIDE DEF r
<1>4. /\ run' \in [Image -> RunRecord] /\ run'[i] = r
      /\ \A j \in Image \ {i} : run'[j] = run[j]
  BY <1>2, <1>3
<1>5. ImagesOK'
  BY <1>3, <1>4, OneChanges DEF RequestInvariant, ImageOK
<1>6. /\ \A b \in Account \ {a} : Holders(b)' = Holders(b)
      /\ i \in Holders(a) /\ Holders(a)' = Holders(a) \ {i}
  BY <1>1, <1>3, <1>4 DEF Holders, Working, Stage
<1>7. SlotsFollowAttempts' /\ slots' \in [Account -> Nat]
  BY <1>1, <1>4, <1>6, OneEnds, MarkKeeps DEF RequestInvariant, Raised
<1>8. RequestTypeOK'
  BY <1>4, <1>7 DEF RequestInvariant, RequestTypeOK, Raised, RunRecord
<1>9. QED
  BY <1>5, <1>7, <1>8 DEF RequestInvariant

LEMMA DrawKeeps ==
  ASSUME RequestInvariant, NEW i \in Image, Draw(i)
  PROVE  RequestInvariant'
<1>1. doc \in [Image -> DocRecord] /\ doc[i] \in DocRecord /\ doc[i].shows \in Shown
  BY DEF RequestInvariant, RequestTypeOK, DocRecord
<1>2. \A dd \in DocRecord : doc' = [doc EXCEPT ![i] = dd] /\ dd.kept = doc[i].kept => RequestInvariant'
  <2> SUFFICES ASSUME NEW dd \in DocRecord, doc' = [doc EXCEPT ![i] = dd], dd.kept = doc[i].kept
               PROVE  RequestInvariant'
    OBVIOUS
  <2>1. UNCHANGED <<run, usable, slots, rejected, response>>
    BY DEF Draw
  <2>2. doc' \in [Image -> DocRecord] /\ \A j \in Image : doc'[j].kept = doc[j].kept
    BY <1>1
  <2>3. RequestTypeOK'
    BY <2>1, <2>2 DEF RequestInvariant, RequestTypeOK, DocRecord
  <2>4. ImagesOK'
    BY <2>1, <2>2 DEF RequestInvariant, ImagesOK, ImageOK
  <2>5. SlotsFollowAttempts'
    BY <2>1, SlotsStand DEF RequestInvariant, Holders, Twice, MarkedTwice
  <2>6. QED
    BY <2>3, <2>4, <2>5 DEF RequestInvariant
<1>3. CASE doc' = [doc EXCEPT ![i].shows.sediment = TRUE]
  <2>1. [doc[i].shows EXCEPT !.sediment = TRUE] \in Shown
    BY <1>1 DEF Shown
  <2>2. LET dd == [doc[i] EXCEPT !.shows = [doc[i].shows EXCEPT !.sediment = TRUE]]
        IN dd \in DocRecord /\ dd.kept = doc[i].kept /\ doc' = [doc EXCEPT ![i] = dd]
    BY <1>1, <1>3, <2>1 DEF DocRecord
  <2>3. QED
    BY <1>2, <2>2
<1>4. ASSUME NEW f \in File, doc' = [doc EXCEPT ![i].shows.files = @ \cup {f}]
      PROVE  RequestInvariant'
  <2>1. [doc[i].shows EXCEPT !.files = @ \cup {f}] \in Shown
    BY <1>1 DEF Shown
  <2>2. LET dd == [doc[i] EXCEPT !.shows = [doc[i].shows EXCEPT !.files = @ \cup {f}]]
        IN dd \in DocRecord /\ dd.kept = doc[i].kept /\ doc' = [doc EXCEPT ![i] = dd]
    BY <1>1, <1>4, <2>1 DEF DocRecord
  <2>3. QED
    BY <1>2, <2>2
<1>5. ASSUME NEW v \in {"refused", "limited"}, doc' = [doc EXCEPT ![i].verdict = v]
      PROVE  RequestInvariant'
  <2>1. LET dd == [doc[i] EXCEPT !.verdict = v]
        IN dd \in DocRecord /\ dd.kept = doc[i].kept /\ doc' = [doc EXCEPT ![i] = dd]
    BY <1>1, <1>5 DEF DocRecord, Verdict
  <2>2. QED
    BY <1>2, <2>1
<1>6. QED
  BY <1>3, <1>4, <1>5 DEF Draw

(* Every step of a request is one of nine.                                  *)
LEMMA Steps ==
  ASSUME RequestTypeOK, ImagesOK, [RequestNext]_requestVars
  PROVE  \/ \E i \in Image : \/ InAttempt(i) \/ Acquire(i) \/ Opens(i) \/ Refused(i)
                             \/ Leaves(i) \/ Raised(i) \/ Draw(i)
         \/ JoinImages
         \/ UNCHANGED requestVars
BY FinishLeaves, HandleLeaves DEF RequestNext, Step, InAttempt, Opens, Refused, Done

LEMMA RequestStarts ==
  ASSUME RequestInit
  PROVE  RequestInvariant
<1> DEFINE tries == [tls |-> 0, conn |-> 0, poll |-> 0, reply |-> 0]
           r == [pc |-> "account", acct |-> None, at |-> NewAttempt, out |-> "none", tries |-> tries]
<1>1. r \in RunRecord
  BY NewAttemptTyped, NumberAssumption DEF RunRecord, Stage, Outcome
<1>2. run \in [Image -> RunRecord] /\ \A i \in Image : run[i] = r
  BY <1>1 DEF RequestInit
<1>3. RequestTypeOK
  BY <1>2, OpenedTyped, NumberAssumption DEF RequestInit, RequestTypeOK, RunRecord, DocRecord
<1>4. ImagesOK
  BY <1>2 DEF ImagesOK, ImageOK, Working, NewAttempt
<1>5. \A a : Holders(a) = {}
  BY <1>2 DEF Holders, Working
<1>6. SlotsFollowAttempts
  BY <1>5, FS_EmptySet, SlotsAreHeld DEF RequestInit, HeldBy
<1>7. QED
  BY <1>3, <1>4, <1>6 DEF RequestInvariant

LEMMA RequestSteps ==
  ASSUME RequestInvariant, [RequestNext]_requestVars
  PROVE  RequestInvariant'
<1>1. CASE JoinImages \/ UNCHANGED requestVars
  <2>1. UNCHANGED <<run, doc, usable, slots, rejected>> /\ response' \in {"open", "ok", "error"}
    BY <1>1 DEF JoinImages, requestVars, RequestInvariant, RequestTypeOK
  <2>2. RequestTypeOK' /\ ImagesOK'
    BY <2>1 DEF RequestInvariant, RequestTypeOK, ImagesOK, ImageOK
  <2>3. SlotsFollowAttempts'
    BY <2>1, SlotsStand DEF RequestInvariant, Holders, Twice, MarkedTwice
  <2>4. QED
    BY <2>2, <2>3 DEF RequestInvariant
<1>2. QED
  BY <1>1, Steps, WorkKeeps, AcquireKeeps, OpeningKeeps, RefusalKeeps, LeavingKeeps, RaisingKeeps,
     DrawKeeps DEF RequestInvariant

LEMMA RequestHolds == RequestSpec => []RequestInvariant
<1>1. RequestInvariant /\ [RequestNext]_requestVars => RequestInvariant'
  BY RequestSteps
<1>2. QED
  BY <1>1, RequestStarts, PTL DEF RequestSpec

(* Type correctness of a request, for any images, accounts and bounds.      *)
THEOREM TypeCorrect == RequestSpec => []RequestTypeOK
<1>1. RequestInvariant => RequestTypeOK
  BY DEF RequestInvariant
<1>2. QED
  BY <1>1, RequestHolds, PTL

(* An account has no slot taken that no image works with, whatever the      *)
(* images come to, and every working image has its slot, unless an image    *)
(* ended without a word and was marked twice                                *)
(* (_generate_single_image, conversation.py:1639-1897).                     *)
THEOREM SlotsHeld == RequestSpec => []SlotsFollowAttempts
<1>1. RequestInvariant => SlotsFollowAttempts
  BY DEF RequestInvariant
<1>2. QED
  BY <1>1, RequestHolds, PTL

-----------------------------------------------------------------------------
(* What reaches the caller.                                                 *)

(* The answer of images drawn side by side stands: all of them are over,    *)
(* and an error is no image's but that of a request with nothing to show.   *)
AnswerStands ==
  /\ response # "open" => \A i \in Image : Ended(i)
  /\ response = "error" => \A i \in Image : run[i].out \notin Delivered

LEMMA AnswerKept ==
  ASSUME Parallel, RequestInvariant, AnswerStands, [RequestNext]_requestVars
  PROVE  AnswerStands'
<1>1. CASE JoinImages
  <2>1. /\ UNCHANGED run /\ \A i \in Image : Ended(i)
        /\ response' = IF \E i \in Image : Shows(i) THEN "ok" ELSE "error"
    BY <1>1 DEF JoinImages
  <2>2. QED
    BY <2>1 DEF AnswerStands, Shows, Ended
<1>2. CASE UNCHANGED requestVars \/ \E i \in Image : Draw(i)
  BY <1>2 DEF AnswerStands, Ended, requestVars, Draw
<1>3. ASSUME NEW i \in Image,
             InAttempt(i) \/ Acquire(i) \/ Opens(i) \/ Refused(i) \/ Leaves(i) \/ Raised(i)
      PROVE  AnswerStands'
  <2>1. run[i].pc # "end"
    BY <1>3, AttemptWorks DEF RequestInvariant, Acquire, Opens, Refused, Breaker, Leaves, Raised
  <2>2. response = "open" /\ response' = response
    BY <1>3, <2>1, AttemptWorks DEF RequestInvariant, RequestTypeOK, AnswerStands, Ended,
                                    Acquire, Opens, Refused, Breaker, Leaves, Raised
  <2>3. QED
    BY <2>2 DEF AnswerStands
<1>4. QED
  BY <1>1, <1>2, <1>3, Steps DEF RequestInvariant

(* An image that was drawn reaches the caller whatever the others come to,  *)
(* if they are drawn side by side (conversation.py:1926-1983).              *)
THEOREM DrawnIsDelivered ==
  ASSUME Parallel
  PROVE  RequestSpec => []ResultsAreDelivered
<1>1. RequestInit => AnswerStands
  BY DEF RequestInit, AnswerStands
<1>2. RequestInvariant /\ AnswerStands /\ [RequestNext]_requestVars => AnswerStands'
  BY AnswerKept
<1>3. AnswerStands => ResultsAreDelivered
  BY DEF AnswerStands, ResultsAreDelivered, Delivered
<1>4. QED
  BY <1>1, <1>2, <1>3, RequestHolds, PTL DEF RequestSpec

(* A conversation is deleted for an image that was delivered from it. *)
KeptOrDelivered == \A c \in Image : doc[c].kept \/ DeliveredFrom(c)

LEMMA DeletedForOne ==
  ASSUME ~RemoveAlways, RequestInvariant, KeptOrDelivered, [RequestNext]_requestVars
  PROVE  KeptOrDelivered'
<1>1. CASE JoinImages \/ UNCHANGED requestVars
  BY <1>1 DEF JoinImages, requestVars, KeptOrDelivered, DeliveredFrom, Ended
\* An image that has not ended changes, and none is deleted.
<1>2. ASSUME NEW i \in Image, ~Ended(i), \A j \in Image \ {i} : run'[j] = run[j],
             \A c \in Image : doc'[c].kept = doc[c].kept
      PROVE  KeptOrDelivered'
  BY <1>2 DEF KeptOrDelivered, DeliveredFrom, Ended
<1>3. /\ RequestTypeOK /\ ImagesOK /\ run \in [Image -> RunRecord] /\ doc \in [Image -> DocRecord]
  BY DocsTyped DEF RequestInvariant, RequestTypeOK, RunRecord
<1>4. ASSUME NEW i \in Image, Draw(i)
      PROVE  KeptOrDelivered'
  <2>1. \A c \in Image : doc'[c].kept = doc[c].kept
    BY <1>3, <1>4 DEF Draw, DocRecord
  <2>2. QED
    BY <1>2, <1>4, <2>1 DEF Draw, Ended
<1>5. ASSUME NEW i \in Image, InAttempt(i)
      PROVE  KeptOrDelivered'
  BY <1>2, <1>3, <1>5, AttemptWorks DEF Works, NoneDeleted, Ended
<1>6. ASSUME NEW i \in Image, Acquire(i) \/ Refused(i) \/ Raised(i)
      PROVE  KeptOrDelivered'
  <2>1. ~Ended(i) /\ doc' = doc
    <3>1. CASE Acquire(i) \/ Raised(i)
      BY <3>1 DEF Acquire, Raised, Ended
    <3>2. CASE Refused(i)
      <4>1. ASSUME run' = [j \in Image |-> [run[j] EXCEPT !.pc = IF j = i THEN "stream" ELSE @,
                                                         !.at.cid = IF @ = i THEN Other ELSE @]]
            PROVE  FALSE
        <5>1. run'[i].pc = "stream"
          BY <1>3, <4>1 DEF RunRecord
        <5>2. QED
          BY <3>2, <5>1 DEF Refused
      <4>2. QED
        BY <3>2, <4>1 DEF Refused, Breaker, Ended
    <3>3. QED
      BY <1>6, <3>1, <3>2
  <2>2. \A j \in Image \ {i} : run'[j] = run[j]
    <3>1. CASE Acquire(i) \/ Raised(i)
      BY <1>3, <3>1 DEF Acquire, Raised
    <3>2. CASE Refused(i)
      <4>1. \/ run' = [run EXCEPT ![i].pc = "end", ![i].out = "circuit"]
            \/ run'[i] = [run[i] EXCEPT !.pc = "stream", !.at.cid = IF @ = i THEN Other ELSE @]
        BY <3>2 DEF Refused, Breaker
      <4>2. run' = [run EXCEPT ![i].pc = "end", ![i].out = "circuit"]
        <5>1. run[i] \in RunRecord
          BY <1>3
        <5>2. QED
          BY <3>2, <4>1, <5>1 DEF Refused, RunRecord
      <4>3. QED
        BY <1>3, <4>2
    <3>3. QED
      BY <1>6, <3>1, <3>2
  <2>3. QED
    BY <1>2, <2>1, <2>2
\* The new conversation is there; who was delivered from another one still was.
<1>7. ASSUME NEW i \in Image, Opens(i)
      PROVE  KeptOrDelivered'
  <2> SUFFICES ASSUME NEW c \in Image PROVE doc'[c].kept \/ DeliveredFrom(c)'
    BY DEF KeptOrDelivered
  <2>1. /\ \A j \in Image \ {i} : run'[j].pc = run[j].pc
        /\ \A j \in Image : /\ run'[j].out = run[j].out
                            /\ run[j].at.cid # i => run'[j].at.cid = run[j].at.cid
        /\ run[i].pc = "breaker" /\ doc' = [doc EXCEPT ![i] = Opened(run[i].acct)]
    BY <1>3, <1>7, Opening
  <2>2. CASE c = i
    <3>1. run[i].acct \in Account \cup {None}
      BY DEF RequestInvariant, RequestTypeOK
    <3>2. QED
      BY <1>3, <2>1, <2>2, <3>1, OpenedTyped
  <2>3. CASE c # i
    <3>1. doc'[c] = doc[c]
      BY <1>3, <2>1, <2>3
    <3>2. DeliveredFrom(c) => DeliveredFrom(c)'
      BY <2>1, <2>3 DEF DeliveredFrom, Ended
    <3>3. QED
      BY <3>1, <3>2 DEF KeptOrDelivered
  <2>4. QED
    BY <2>2, <2>3
<1>8. ASSUME NEW i \in Image, Leaves(i)
      PROVE  KeptOrDelivered'
  <2> SUFFICES ASSUME NEW c \in Image PROVE doc'[c].kept \/ DeliveredFrom(c)'
    BY DEF KeptOrDelivered
  <2>1. ~Ended(i) /\ \A j \in Image \ {i} : run'[j] = run[j]
    BY <1>8 DEF Leaves, Ended
  <2>2. DeliveredFrom(c) => DeliveredFrom(c)'
    BY <2>1 DEF DeliveredFrom, Ended
  <2>3. \/ doc'[c].kept = doc[c].kept
        \/ run'[i].pc = "end" /\ run'[i].out = "result" /\ run'[i].at.cid = c
    BY <1>8 DEF Leaves
  <2>4. QED
    BY <2>2, <2>3 DEF KeptOrDelivered, DeliveredFrom, Ended
<1>9. QED
  BY <1>1, <1>3, <1>4, <1>5, <1>6, <1>7, <1>8, Steps

(* The conversation that the caller of an image which took too long is told *)
(* of is still there, unless all conversations are to be deleted or an      *)
(* image was delivered from it: find_conversation_by_prompt may have told   *)
(* one image the conversation of the other (conversation.py:914-936, 1639;  *)
(* openai_backend_api.py:1266-1332).                                        *)
THEOREM TimeoutCanComeBack ==
  ASSUME ~RemoveAlways
  PROVE  RequestSpec => []TimeoutKeepsConversation
<1>1. RequestInit => KeptOrDelivered
  BY OpenedTyped DEF RequestInit, KeptOrDelivered
<1>2. RequestInvariant /\ KeptOrDelivered /\ [RequestNext]_requestVars => KeptOrDelivered'
  BY DeletedForOne
<1>3. KeptOrDelivered => TimeoutKeepsConversation
  BY DEF KeptOrDelivered, TimeoutKeepsConversation
<1>4. QED
  BY <1>1, <1>2, <1>3, RequestHolds, PTL DEF RequestSpec
=============================================================================
