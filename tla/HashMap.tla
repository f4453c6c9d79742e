------------------------------- MODULE HashMap -------------------------------
(* The hash map of misc/map.c, which holds the processes, their children and  *)
(* the Unix sockets of the whole system: open addressing, a displaced entry   *)
(* is the one nearer to its home (robin hood), deletion shifts back.  An item *)
(* is a key with a value; dib is 0 for a free bucket and else one more than   *)
(* the distance from home.                                                    *)
EXTENDS Integers, FiniteSets, FiniteSetsExt

CONSTANTS HmKeys, HmVals,
          HmHash(_),  \* map->hash of a key
          HmMinCap    \* the least number of buckets, 16 in the code

VARIABLES hm,         \* struct hashmap
          hmDict      \* key and value of what was set and not deleted

hmVars == <<hm, hmDict>>

GROW_AT(n) == (n * 60) \div 100
SHRINK_AT(n) == (n * 10) \div 100

HmFree == [key |-> 0, val |-> 0, dib |-> 0]
HmItems == {hm.buckets[i] : i \in {j \in DOMAIN hm.buckets : hm.buckets[j].dib # 0}}

hashmap_new_with_allocator(cap) ==
  LET n == IF cap < HmMinCap THEN HmMinCap
           ELSE Min({p \in {HmMinCap * 2^e : e \in 0..cap} : p >= cap})
  IN  [cap |-> n, nbuckets |-> n, count |-> 0, growat |-> GROW_AT(n), shrinkat |-> SHRINK_AT(n),
       buckets |-> [i \in 0..(n - 1) |-> HmFree]]

HmInit == hm = hashmap_new_with_allocator(0) /\ hmDict = {}

HmHome(m, key) == HmHash(key) % m.nbuckets
HmNext1(m, i) == (i + 1) % m.nbuckets

(* The loop of hashmap_set_with_hash and of resize0 from bucket i on: entry e *)
(* goes into a free bucket or replaces its equal, and takes the place of one  *)
(* that is nearer to home, which goes on.                                     *)
RECURSIVE Place(_, _, _)
Place(m, i, e) ==
  LET b == m.buckets[i]
      further(x) == [x EXCEPT !.dib = @ + 1]
  IN  IF b.dib = 0 THEN [m EXCEPT !.buckets[i] = e, !.count = @ + 1]
      ELSE IF b.key = e.key THEN [m EXCEPT !.buckets[i].val = e.val]
      ELSE IF b.dib < e.dib THEN Place([m EXCEPT !.buckets[i] = e], HmNext1(m, i), further(b))
      ELSE Place(m, HmNext1(m, i), further(e))
PlaceItem(m, key, val) == Place(m, HmHome(m, key), [key |-> key, val |-> val, dib |-> 1])

(* resize0: the buckets in order are placed into a new map.                   *)
RECURSIVE Rehash(_, _, _)
Rehash(old, i, m) ==
  IF i = old.nbuckets THEN m
  ELSE LET b == old.buckets[i] IN
         Rehash(old, i + 1, IF b.dib = 0 THEN m ELSE PlaceItem(m, b.key, b.val))
resize(m, new_cap) == [Rehash(m, 0, hashmap_new_with_allocator(new_cap)) EXCEPT !.cap = m.cap]

(* hashmap_set.  oom: there is no memory for a larger map.                    *)
hashmap_set(key, val, oom) ==
  LET grows == hm.count = hm.growat IN
    \/ /\ grows /\ oom
       /\ UNCHANGED hmVars
    \/ /\ ~oom
       /\ hm' = PlaceItem(IF grows THEN resize(hm, hm.nbuckets * 2) ELSE hm, key, val)
       /\ hmDict' = {d \in hmDict : d[1] # key} \cup {<<key, val>>}

(* hashmap_get_with_hash: the bucket of the key, -1 if a free one comes first.*)
RECURSIVE Probe(_, _, _)
Probe(m, i, key) == IF m.buckets[i].dib = 0 THEN -1
                    ELSE IF m.buckets[i].key = key THEN i
                    ELSE Probe(m, HmNext1(m, i), key)
hashmap_get(m, key) == Probe(m, HmHome(m, key), key)

\* Mutant: entries at home are moved as well.
NotAtHome_all(b) == b.dib > 0
NotAtHome(b) == b.dib > 1

(* Bucket i becomes free: those after it that are not at home move up.        *)
RECURSIVE ShiftBack(_, _)
ShiftBack(m, i) ==
  LET j == HmNext1(m, i)
      b == m.buckets[j]
  IN  IF ~NotAtHome(b) THEN [m EXCEPT !.buckets[i] = HmFree]
      ELSE ShiftBack([m EXCEPT !.buckets[i] = [b EXCEPT !.dib = @ - 1]], j)

hashmap_delete(key, oom) ==
  LET i == hashmap_get(hm, key)
      m == [ShiftBack(hm, i) EXCEPT !.count = @ - 1]
      shrinks == m.nbuckets > m.cap /\ m.count <= m.shrinkat
  IN  /\ i # -1 /\ (oom => shrinks)
      /\ hm' = IF shrinks /\ ~oom THEN resize(m, m.nbuckets \div 2) ELSE m
      /\ hmDict' = {d \in hmDict : d[1] # key}

hashmap_clear(update_cap) ==
  LET n == IF update_cap THEN hm.nbuckets ELSE hm.cap IN
    /\ hm' = [cap |-> n, nbuckets |-> n, count |-> 0,
              growat |-> (n * 75) \div 100, shrinkat |-> (n * 10) \div 100,
              buckets |-> [i \in 0..(n - 1) |-> HmFree]]
    /\ hmDict' = {}

HmNext ==
  \/ \E k \in HmKeys, v \in HmVals, oom \in BOOLEAN : hashmap_set(k, v, oom)
  \/ \E k \in HmKeys, oom \in BOOLEAN : hashmap_delete(k, oom)
  \/ \E update_cap \in BOOLEAN : hashmap_clear(update_cap)

HmSpec == HmInit /\ [][HmNext]_hmVars

------------------------------------------------------------------------------
(* Every item is where its dib says, and the buckets between its home and it  *)
(* are taken by items at least as far from home: no search ends too early and *)
(* no displacement hides an item (hashmap_set, hashmap_delete, resize0).      *)
HmRobinHood ==
  \A i \in DOMAIN hm.buckets : hm.buckets[i].dib # 0 =>
    LET b == hm.buckets[i]
        prev == hm.buckets[(i - 1) % hm.nbuckets]
    IN  /\ (HmHome(hm, b.key) + b.dib - 1) % hm.nbuckets = i
        /\ b.dib > 1 => prev.dib >= b.dib - 1

(* The map holds exactly what was set and not deleted, once and with the last *)
(* value, also across growing and shrinking; its count is right, and some     *)
(* bucket is always free, without which the searches would not end.           *)
HmContents ==
  /\ {<<b.key, b.val>> : b \in HmItems} = hmDict
  /\ hm.count = Cardinality(hmDict)
  /\ Cardinality({i \in DOMAIN hm.buckets : hm.buckets[i].dib # 0}) = hm.count
  /\ hm.count < hm.nbuckets
  /\ \A k \in HmKeys : hashmap_get(hm, k) # -1 <=> \E d \in hmDict : d[1] = k

(* The hash map is a dictionary.                                              *)
HmSound == HmRobinHood /\ HmContents
==============================================================================
