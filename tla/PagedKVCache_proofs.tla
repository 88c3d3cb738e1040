---- MODULE PagedKVCache_proofs ----
(***************************************************************************)
(* The paging machinery of PagedKVCache is correct for any layers, tokens, *)
(* page size, memory limit and number of pages; it implements TieredStore; *)
(* and every step of a call brings the call nearer to its end.             *)
(***************************************************************************)
EXTENDS PagedKVCache, FiniteSetTheorems, SequenceTheorems, WellFoundedInduction, TLAPS

----------------------------------------------------------------------------
(* The order of the list.                                                  *)

\* A set of naturals has a least element: what induction comes down to.
LEMMA LeastElement ==
  ASSUME NEW T \in SUBSET Nat, T # {}
  PROVE  \E m \in T : \A k \in T : m <= k
<1> DEFINE R == OpToRel(<, Nat)
<1>1. \A k, m \in Nat : k < m => <<k, m>> \in R
  BY DEF OpToRel
<1>2. IsWellFoundedOn(R, Nat)
  BY NatLessThanWellFounded
<1> HIDE DEF R
<1>3. PICK m \in T : \A k \in T : ~ (<<k, m>> \in R)
  BY <1>2, WFMin
<1>4. \A k \in T : ~ (k < m)
  BY <1>1, <1>3
<1> QED
  BY <1>4

\* s goes from first to the n-th page along the links.
IsWalk(s, n, first, next) ==
  /\ s \in [1 .. n -> Pages]
  /\ n # 0 => s[1] = first
  /\ \A i \in 1 .. n : i # n => s[i + 1] = next[s[i]]

\* Two walks along the same links, from the same place, are one.
LEMMA WalksAgree ==
  ASSUME NEW n \in Nat, NEW first, NEW next, NEW s, NEW u,
         IsWalk(s, n, first, next), IsWalk(u, n, first, next)
  PROVE  s = u
<1> DEFINE T == {i \in 1 .. n : s[i] # u[i]}
<1>1. s \in [1 .. n -> Pages] /\ u \in [1 .. n -> Pages]
  BY DEF IsWalk
<1>2. SUFFICES ASSUME T # {} PROVE FALSE
  BY <1>1
<1>3. T \in SUBSET Nat
  OBVIOUS
<1>4. PICK m \in T : \A k \in T : m <= k
  BY <1>2, <1>3, LeastElement
<1>5. m \in 2 .. n /\ m - 1 \in 1 .. n /\ m - 1 # n /\ (m - 1) + 1 = m
  BY <1>4 DEF IsWalk
<1>6. s[m - 1] = u[m - 1]
  BY <1>4, <1>5
<1> QED
  BY <1>4, <1>5, <1>6 DEF IsWalk

\* Recency is the order the list spells: there is no other.
LEMMA RecencyIs ==
  ASSUME hot_count \in Nat, NEW s \in [1 .. hot_count -> Pages], IsLruOrder(s)
  PROVE  Recency = s
<1>1. Recency \in [1 .. hot_count -> Pages] /\ IsLruOrder(Recency)
  BY DEF Recency
<1>2. IsWalk(s, hot_count, lru_head, lru_next)
  BY DEF IsLruOrder, IsWalk
<1>3. IsWalk(Recency, hot_count, lru_head, lru_next)
  BY <1>1 DEF IsLruOrder, IsWalk
<1> QED
  BY <1>2, <1>3, WalksAgree

\* The same in the state after a step.
LEMMA NextRecencyIs ==
  ASSUME hot_count' \in Nat, NEW s \in [1 .. hot_count' -> Pages], IsLruOrder(s)'
  PROVE  Recency' = s
<1>1. Recency' \in [1 .. hot_count' -> Pages] /\ IsLruOrder(Recency)'
  BY DEF Recency
<1>2. IsWalk(s, hot_count', lru_head', lru_next')
  BY DEF IsLruOrder, IsWalk
<1>3. IsWalk(Recency', hot_count', lru_head', lru_next')
  BY <1>1 DEF IsLruOrder, IsWalk
<1> QED
  BY <1>2, <1>3, WalksAgree

\* An order of n pages with p put first, with the last one taken off, and with
\* the k-th one moved to the front.
WithFirst(p, s, n)  == [i \in 1 .. n + 1 |-> IF i = 1 THEN p ELSE s[i - 1]]
WithoutLast(s, n)   == [i \in 1 .. n - 1 |-> s[i]]
MovedFirst(k, s, n) == [i \in 1 .. n |-> IF i = 1 THEN s[k] ELSE IF i <= k THEN s[i - 1] ELSE s[i]]

----------------------------------------------------------------------------
(* The list: each way the code changes it keeps it a list.                 *)

\* A page pushed at the head: the end of alloc_hot_page and reload_cold_page.
LEMMA InsertKeepsList ==
  ASSUME TypeOK, LruListsHotPages,
         NEW p \in Pages, p \notin HotPages,
         InsertAtHead(p),
         hot_count' = hot_count + 1,
         HotPages' = HotPages \cup {p}
  PROVE  LruListsHotPages' /\ Recency' = WithFirst(p, Recency, hot_count)
<1>1. PICK s \in [1 .. hot_count -> Pages] : IsLruOrder(s) /\ s = Recency
  BY DEF LruListsHotPages, Recency
<1> DEFINE n == hot_count
<1>2. n \in Nat /\ -1 \notin Pages
  BY SizesAssumption DEF TypeOK, Pages
<1>3. /\ \A i \in 1 .. n : s[i] \in HotPages
      /\ \A q \in HotPages : \E i \in 1 .. n : q = s[i]
      /\ \A i, j \in 1 .. n : s[i] = s[j] => i = j
      /\ lru_head = IF n = 0 THEN None ELSE s[1]
      /\ lru_tail = IF n = 0 THEN None ELSE s[n]
      /\ \A i \in 1 .. n :
           /\ lru_prev[s[i]] = IF i = 1 THEN None ELSE s[i - 1]
           /\ lru_next[s[i]] = IF i = n THEN None ELSE s[i + 1]
  BY <1>1 DEF IsLruOrder
<1>4. PICK u \in [1 .. n + 1 -> Pages] :
        /\ u = WithFirst(p, s, n)
        /\ u[1] = p
        /\ \A i \in 1 .. n + 1 : i # 1 => i - 1 \in 1 .. n /\ u[i] = s[i - 1]
  <2> DEFINE v == [i \in 1 .. n + 1 |-> IF i = 1 THEN p ELSE s[i - 1]]
  <2>1. v \in [1 .. n + 1 -> Pages]
    BY <1>1, <1>2
  <2>2. /\ v[1] = p
        /\ \A i \in 1 .. n + 1 : i # 1 => i - 1 \in 1 .. n /\ v[i] = s[i - 1]
    BY <1>2
  <2> QED
    BY <2>1, <2>2 DEF WithFirst
<1>5. \A q \in HotPages' : \E i \in 1 .. n + 1 : q = u[i]
  <2>1. ASSUME NEW i \in 1 .. n PROVE s[i] = u[i + 1] /\ i + 1 \in 1 .. n + 1
    BY <1>2, <1>4
  <2> QED
    BY <1>2, <1>3, <1>4, <2>1
<1>6. HotPages' = {u[i] : i \in 1 .. n + 1}
  BY <1>3, <1>4, <1>5
<1>7. ASSUME NEW i \in 1 .. n + 1, NEW j \in 1 .. n + 1, u[i] = u[j] PROVE i = j
  <2>1. CASE i = 1 \/ j = 1
    BY <1>3, <1>4, <1>7, <2>1
  <2>2. CASE i # 1 /\ j # 1
    <3>1. i - 1 = j - 1
      BY <1>3, <1>4, <1>7, <2>2
    <3> QED
      BY <1>2, <3>1
  <2> QED
    BY <2>1, <2>2
<1>8. lru_head' = u[1] /\ lru_tail' = u[n + 1]
  BY <1>2, <1>3, <1>4 DEF InsertAtHead, None
<1>9. ASSUME NEW i \in 1 .. n + 1
       PROVE  /\ lru_prev'[u[i]] = IF i = 1 THEN None ELSE u[i - 1]
              /\ lru_next'[u[i]] = IF i = n + 1 THEN None ELSE u[i + 1]
  <2>1. CASE i = 1
    BY <1>2, <1>3, <1>4, <2>1 DEF InsertAtHead, TypeOK, None
  <2>2. CASE i = 2
    BY <1>2, <1>3, <1>4, <2>2 DEF InsertAtHead, TypeOK, None
  <2>3. CASE i > 2
    <3>1. i - 1 \in 2 .. n /\ u[i] = s[i - 1] /\ u[i - 1] = s[i - 2] /\ u[i] # p
      BY <1>2, <1>3, <1>4, <2>3
    <3>2. lru_prev'[u[i]] = lru_prev[u[i]] /\ lru_next'[u[i]] = lru_next[u[i]]
      BY <1>2, <1>3, <3>1 DEF InsertAtHead, TypeOK
    <3>3. /\ lru_prev[s[i - 1]] = s[i - 2]
          /\ lru_next[s[i - 1]] = IF i = n + 1 THEN None ELSE s[i]
      <4>1. i - 1 \in 1 .. n /\ (i - 1) - 1 = i - 2 /\ (i - 1) + 1 = i
            /\ i - 1 # 1 /\ (i - 1 = n <=> i = n + 1)
        BY <1>2, <2>3
      <4> QED
        BY <1>3, <4>1
    <3>4. i # n + 1 => u[i + 1] = s[i]
      BY <1>2, <1>4
    <3> QED
      BY <2>3, <3>1, <3>2, <3>3, <3>4
  <2> QED
    BY <1>2, <2>1, <2>2, <2>3
<1>10. \A q \in Pages \ HotPages' : lru_prev'[q] = None /\ lru_next'[q] = None
  BY <1>2, <1>3 DEF InsertAtHead, LruListsHotPages, TypeOK, None
<1>11. IsLruOrder(u)'
  BY <1>2, <1>6, <1>7, <1>8, <1>9 DEF IsLruOrder
<1>12. Recency' = u
  BY <1>2, <1>11, NextRecencyIs
<1> QED
  BY <1>1, <1>4, <1>10, <1>11, <1>12 DEF LruListsHotPages

\* What the tail is: a page in memory, unless memory is empty.
LEMMA TailIsHot ==
  ASSUME TypeOK, LruListsHotPages
  PROVE  /\ lru_tail = None <=> hot_count = 0
         /\ lru_tail # None => lru_tail \in HotPages
<1>1. PICK s \in [1 .. hot_count -> Pages] : IsLruOrder(s)
  BY DEF LruListsHotPages
<1>2. hot_count \in Nat /\ -1 \notin Pages
  BY SizesAssumption DEF TypeOK, Pages
<1> QED
  BY <1>1, <1>2 DEF IsLruOrder, None

\* The tail taken off: remove_from_lru as evict_one_page calls it.
LEMMA EvictKeepsList ==
  ASSUME TypeOK, LruListsHotPages,
         lru_tail # None,
         RemoveFromLru(lru_tail),
         hot_count' = hot_count - 1,
         HotPages' = HotPages \ {lru_tail}
  PROVE  LruListsHotPages' /\ Recency' = WithoutLast(Recency, hot_count)
<1>1. PICK s \in [1 .. hot_count -> Pages] : IsLruOrder(s) /\ s = Recency
  BY DEF LruListsHotPages, Recency
<1> DEFINE n == hot_count
<1>2. n \in Nat \ {0} /\ -1 \notin Pages
  BY SizesAssumption, TailIsHot DEF TypeOK, Pages
<1>3. /\ \A i \in 1 .. n : s[i] \in HotPages
      /\ \A q \in HotPages : \E i \in 1 .. n : q = s[i]
      /\ \A i, j \in 1 .. n : s[i] = s[j] => i = j
      /\ lru_head = s[1]
      /\ lru_tail = s[n]
      /\ \A i \in 1 .. n :
           /\ lru_prev[s[i]] = IF i = 1 THEN None ELSE s[i - 1]
           /\ lru_next[s[i]] = IF i = n THEN None ELSE s[i + 1]
  BY <1>1, <1>2 DEF IsLruOrder
<1>4. PICK u \in [1 .. n - 1 -> Pages] :
        u = WithoutLast(s, n) /\ \A i \in 1 .. n - 1 : u[i] = s[i]
  <2> DEFINE v == [i \in 1 .. n - 1 |-> s[i]]
  <2>1. v \in [1 .. n - 1 -> Pages] /\ \A i \in 1 .. n - 1 : v[i] = s[i]
    BY <1>1, <1>2
  <2> QED
    BY <2>1 DEF WithoutLast
<1>5. \A i \in 1 .. n - 1 : u[i] # lru_tail
  BY <1>2, <1>3, <1>4
<1>6. HotPages' = {u[i] : i \in 1 .. n - 1}
  BY <1>2, <1>3, <1>4, <1>5
<1>7. \A i, j \in 1 .. n - 1 : u[i] = u[j] => i = j
  BY <1>2, <1>3, <1>4
<1>8. lru_next[lru_tail] = None /\ lru_prev[lru_tail] = IF n = 1 THEN None ELSE s[n - 1]
  BY <1>2, <1>3
<1>9. /\ lru_head' = IF n - 1 = 0 THEN None ELSE u[1]
      /\ lru_tail' = IF n - 1 = 0 THEN None ELSE u[n - 1]
  <2>1. /\ lru_head' = IF lru_head = lru_tail THEN lru_next[lru_tail] ELSE lru_head
        /\ lru_tail' = lru_prev[lru_tail]
    BY DEF RemoveFromLru, TailWithout
  <2>2. lru_head = lru_tail <=> n = 1
    BY <1>2, <1>3
  <2>3. n # 1 => u[1] = s[1] /\ u[n - 1] = s[n - 1]
    BY <1>2, <1>4
  <2> QED
    BY <1>2, <1>3, <1>8, <2>1, <2>2, <2>3
<1>10. ASSUME NEW i \in 1 .. n - 1
       PROVE  /\ lru_prev'[u[i]] = IF i = 1 THEN None ELSE u[i - 1]
              /\ lru_next'[u[i]] = IF i = n - 1 THEN None ELSE u[i + 1]
  <2>1. lru_prev'[u[i]] = lru_prev[u[i]]
    BY <1>2, <1>4, <1>5, <1>8 DEF RemoveFromLru, UnlinkPrev, TypeOK, None
  <2>2. lru_next'[u[i]] = IF i = n - 1 THEN None ELSE lru_next[u[i]]
    BY <1>2, <1>3, <1>4, <1>5, <1>8 DEF RemoveFromLru, UnlinkNext, TypeOK, None
  <2>3. /\ i \in 1 .. n /\ u[i] = s[i] /\ i # n
        /\ i # 1 => u[i - 1] = s[i - 1]
        /\ i # n - 1 => u[i + 1] = s[i + 1]
    BY <1>2, <1>4
  <2>4. /\ lru_prev[s[i]] = IF i = 1 THEN None ELSE s[i - 1]
        /\ lru_next[s[i]] = s[i + 1]
    BY <1>3, <2>3
  <2> QED
    BY <2>1, <2>2, <2>3, <2>4
<1>11. \A q \in Pages \ HotPages' : lru_prev'[q] = None /\ lru_next'[q] = None
  BY <1>2, <1>3, <1>8 DEF RemoveFromLru, UnlinkPrev, UnlinkNext, LruListsHotPages, TypeOK, None
<1>12. IsLruOrder(u)'
  BY <1>2, <1>6, <1>7, <1>9, <1>10 DEF IsLruOrder
<1>13. Recency' = u
  BY <1>2, <1>12, NextRecencyIs
<1> QED
  BY <1>1, <1>4, <1>11, <1>12, <1>13 DEF LruListsHotPages

\* A page taken out of the middle or off the tail and pushed at the head:
\* touch_lru.
LEMMA MoveKeepsList ==
  ASSUME TypeOK, LruListsHotPages,
         NEW p \in HotPages, p # lru_head,
         MoveToHead(p),
         hot_count' = hot_count,
         HotPages' = HotPages
  PROVE  /\ LruListsHotPages'
         /\ \E k \in 2 .. hot_count :
              Recency[k] = p /\ Recency' = MovedFirst(k, Recency, hot_count)
<1>1. PICK s \in [1 .. hot_count -> Pages] : IsLruOrder(s) /\ s = Recency
  BY DEF LruListsHotPages, Recency
<1> DEFINE n == hot_count
<1>2. n \in Nat /\ -1 \notin Pages /\ p \in Pages
  BY SizesAssumption DEF TypeOK, Pages, HotPages
<1>3. PICK k \in 2 .. n : s[k] = p
  BY <1>1, <1>2 DEF IsLruOrder
<1>4. /\ \A i \in 1 .. n : s[i] \in HotPages
      /\ \A q \in HotPages : \E i \in 1 .. n : q = s[i]
      /\ \A i, j \in 1 .. n : s[i] = s[j] => i = j
      /\ lru_head = s[1]
      /\ lru_tail = s[n]
      /\ \A i \in 1 .. n :
           /\ lru_prev[s[i]] = IF i = 1 THEN None ELSE s[i - 1]
           /\ lru_next[s[i]] = IF i = n THEN None ELSE s[i + 1]
  BY <1>1, <1>2, <1>3 DEF IsLruOrder
<1>5. PICK u \in [1 .. n -> Pages] :
        /\ u = MovedFirst(k, s, n)
        /\ u[1] = p
        /\ \A i \in 2 .. k : i - 1 \in 1 .. n /\ u[i] = s[i - 1]
        /\ \A i \in k + 1 .. n : u[i] = s[i]
  <2> DEFINE v == [i \in 1 .. n |-> IF i = 1 THEN p ELSE IF i <= k THEN s[i - 1] ELSE s[i]]
  <2>1. v \in [1 .. n -> Pages]
    BY <1>1, <1>2, <1>3
  <2>2. /\ v[1] = p
        /\ \A i \in 2 .. k : i - 1 \in 1 .. n /\ v[i] = s[i - 1]
        /\ \A i \in k + 1 .. n : v[i] = s[i]
    BY <1>2, <1>3
  <2>3. v = MovedFirst(k, s, n)
    BY <1>3 DEF MovedFirst
  <2> QED
    BY <2>1, <2>2, <2>3
\* Where each page of s has gone to in u.
<1>6. \A j \in 1 .. n : \E i \in 1 .. n : u[i] = s[j]
  <2> SUFFICES ASSUME NEW j \in 1 .. n PROVE \E i \in 1 .. n : u[i] = s[j]
    OBVIOUS
  <2>1. CASE j < k
    <3>1. j + 1 \in 2 .. k /\ (j + 1) - 1 = j /\ j + 1 \in 1 .. n
      BY <1>2, <1>3, <2>1
    <3> QED
      BY <1>5, <3>1
  <2>2. CASE j = k
    BY <1>2, <1>3, <1>5, <2>2
  <2>3. CASE j > k
    BY <1>2, <1>3, <1>5, <2>3
  <2> QED
    BY <1>2, <1>3, <2>1, <2>2, <2>3
<1>7. \A i \in 1 .. n : \E j \in 1 .. n : /\ u[i] = s[j]
                                          /\ j = IF i = 1 THEN k ELSE IF i <= k THEN i - 1 ELSE i
  BY <1>2, <1>3, <1>5
<1>8. HotPages' = {u[i] : i \in 1 .. n}
  <2>1. \A i \in 1 .. n : u[i] \in HotPages
    BY <1>4, <1>7
  <2>2. \A q \in HotPages : \E i \in 1 .. n : q = u[i]
    BY <1>4, <1>6
  <2> QED
    BY <2>1, <2>2
<1>9. ASSUME NEW i \in 1 .. n, NEW j \in 1 .. n, u[i] = u[j] PROVE i = j
  <2>1. PICK a \in 1 .. n : u[i] = s[a] /\ a = IF i = 1 THEN k ELSE IF i <= k THEN i - 1 ELSE i
    BY <1>7
  <2>2. PICK b \in 1 .. n : u[j] = s[b] /\ b = IF j = 1 THEN k ELSE IF j <= k THEN j - 1 ELSE j
    BY <1>7
  <2>3. a = b
    <3>1. s[a] = s[b]
      BY <1>9, <2>1, <2>2
    <3>2. \A x, y \in 1 .. n : s[x] = s[y] => x = y
      BY <1>4
    <3> QED
      BY <3>1, <3>2
  <2>4. i \in Int /\ j \in Int /\ k \in Int
    BY <1>2, <1>3
  <2>5. CASE i = 1 \/ j = 1
    BY <1>3, <2>1, <2>2, <2>3, <2>4, <2>5
  <2>6. CASE i # 1 /\ j # 1
    BY <1>3, <2>1, <2>2, <2>3, <2>4, <2>6
  <2> QED
    BY <2>5, <2>6
<1>10. lru_prev[p] = s[k - 1] /\ lru_next[p] = IF k = n THEN None ELSE s[k + 1]
  <2>1. k \in 1 .. n /\ k # 1
    BY <1>2, <1>3
  <2> QED
    BY <1>3, <1>4, <2>1
<1>11. lru_head' = u[1] /\ lru_tail' = u[n]
  BY <1>2, <1>3, <1>4, <1>5, <1>10 DEF MoveToHead, TailWithout, None
\* The links after the move, place by place of the old list.
<1>12. ASSUME NEW j \in 1 .. n, j # k
       PROVE  /\ lru_prev'[s[j]] = IF j = 1 THEN p ELSE IF j = k + 1 THEN s[k - 1] ELSE s[j - 1]
              /\ lru_next'[s[j]] = IF j = k - 1 THEN lru_next[p]
                                   ELSE IF j = n THEN None ELSE s[j + 1]
  <2>1. s[j] # p /\ (s[j] = lru_head <=> j = 1) /\ (s[j] = lru_prev[p] <=> j = k - 1)
        /\ (s[j] = lru_next[p] <=> j = k + 1)
    <3>1. s[j] # p /\ (s[j] = lru_head <=> j = 1) /\ s[j] # None
      BY <1>2, <1>3, <1>4, <1>12 DEF None, HotPages
    <3>2. s[j] = lru_prev[p] <=> j = k - 1
      BY <1>2, <1>3, <1>4, <1>10
    <3>3. k # n => k + 1 \in 1 .. n
      BY <1>2, <1>3
    <3>4. s[j] = lru_next[p] <=> j = k + 1
      <4>1. CASE k = n
        BY <1>2, <1>3, <1>10, <3>1, <4>1
      <4>2. CASE k # n
        BY <1>4, <1>10, <3>3, <4>2
      <4> QED
        BY <4>1, <4>2
    <3> QED
      BY <3>1, <3>2, <3>4
  <2>2. /\ lru_prev[s[j]] = IF j = 1 THEN None ELSE s[j - 1]
        /\ lru_next[s[j]] = IF j = n THEN None ELSE s[j + 1]
    BY <1>4
  <2>3. lru_prev'[s[j]] = IF j = 1 THEN p ELSE IF j = k + 1 THEN lru_prev[p] ELSE lru_prev[s[j]]
    BY <1>1, <2>1 DEF MoveToHead, UnlinkPrev
  <2>4. lru_next'[s[j]] = IF j = k - 1 THEN lru_next[p] ELSE lru_next[s[j]]
    BY <1>1, <2>1 DEF MoveToHead, UnlinkNext
  <2> QED
    BY <1>10, <2>2, <2>3, <2>4
<1>13. lru_prev'[p] = None /\ lru_next'[p] = s[1]
  BY <1>2, <1>4 DEF MoveToHead, UnlinkPrev, UnlinkNext, TypeOK
<1>14. ASSUME NEW i \in 1 .. n
       PROVE  /\ lru_prev'[u[i]] = IF i = 1 THEN None ELSE u[i - 1]
              /\ lru_next'[u[i]] = IF i = n THEN None ELSE u[i + 1]
  <2>1. CASE i = 1
    BY <1>2, <1>3, <1>5, <1>13, <2>1
  <2>2. CASE i \in 2 .. k
    <3>1. i - 1 \in 1 .. n /\ i - 1 # k /\ u[i] = s[i - 1] /\ (i - 1) - 1 = i - 2 /\ (i - 1) + 1 = i
      BY <1>2, <1>3, <1>5, <2>2
    <3>2. lru_prev'[u[i]] = IF i = 2 THEN p ELSE s[i - 2]
      BY <1>2, <1>3, <1>12, <2>2, <3>1
    <3>3. u[i - 1] = IF i = 2 THEN p ELSE s[i - 2]
      BY <1>2, <1>3, <1>5, <2>2, <3>1
    <3>4. lru_next'[u[i]] = IF i = k THEN (IF k = n THEN None ELSE s[k + 1]) ELSE s[i]
      BY <1>2, <1>3, <1>10, <1>12, <2>2, <3>1
    <3>5. i # n => u[i + 1] = IF i = k THEN s[k + 1] ELSE s[i]
      BY <1>2, <1>3, <1>5, <2>2
    <3> QED
      BY <1>2, <1>3, <2>2, <3>2, <3>3, <3>4, <3>5
  <2>3. CASE i \in k + 1 .. n
    <3>1. i # k /\ i # 1 /\ i # k - 1 /\ u[i] = s[i]
      BY <1>2, <1>3, <1>5, <2>3
    <3>2. u[i - 1] = IF i = k + 1 THEN s[k - 1] ELSE s[i - 1]
      BY <1>2, <1>3, <1>5, <2>3
    <3>3. i # n => u[i + 1] = s[i + 1]
      BY <1>2, <1>3, <1>5, <2>3
    <3> QED
      BY <1>12, <3>1, <3>2, <3>3
  <2> QED
    BY <1>2, <1>3, <2>1, <2>2, <2>3
<1>15. \A q \in Pages \ HotPages' : lru_prev'[q] = None /\ lru_next'[q] = None
  <2> SUFFICES ASSUME NEW q \in Pages, q \notin HotPages
               PROVE  lru_prev'[q] = None /\ lru_next'[q] = None
    OBVIOUS
  <2>1. q # p /\ q # lru_head /\ q # lru_prev[p] /\ q # lru_next[p]
    <3>1. q # None /\ \A i \in 1 .. n : q # s[i]
      BY <1>2, <1>4 DEF None
    <3>2. 1 \in 1 .. n /\ k - 1 \in 1 .. n /\ (k # n => k + 1 \in 1 .. n)
      BY <1>2, <1>3
    <3> QED
      BY <1>3, <1>4, <1>10, <3>1, <3>2
  <2> QED
    BY <2>1 DEF MoveToHead, UnlinkPrev, UnlinkNext, LruListsHotPages
<1>16. IsLruOrder(u)'
  BY <1>2, <1>3, <1>8, <1>9, <1>11, <1>14 DEF IsLruOrder
<1>17. Recency' = u
  BY <1>2, <1>16, NextRecencyIs
<1> QED
  BY <1>1, <1>3, <1>5, <1>15, <1>16, <1>17 DEF LruListsHotPages

\* hot_count is the number of pages in memory.
LEMMA HotCount ==
  ASSUME TypeOK, LruListsHotPages
  PROVE  hot_count = Cardinality(HotPages)
<1>1. PICK s \in [1 .. hot_count -> Pages] : IsLruOrder(s)
  BY DEF LruListsHotPages
<1>2. s \in Bijection(1 .. hot_count, HotPages)
  BY <1>1 DEF IsLruOrder, Bijection, Injection, Surjection, IsInjective
<1> QED
  BY <1>2, FS_CountingElements DEF ExistsBijection, TypeOK

----------------------------------------------------------------------------
(* The invariant.                                                          *)

\* What every step preserves: the properties, the parity of the file and what
\* the call in progress counts on.
IInv ==
  /\ TypeOK
  /\ LruListsHotPages
  /\ hot_count <= RamPageLimit
  /\ PageTableConsistent
  /\ Len(cold_file) % 2 = 0
  /\ CallPrepared

\* with_block_size builds an empty, consistent cache.
LEMMA InitInvariant == Init => IInv
<1> SUFFICES ASSUME Init PROVE IInv
  OBVIOUS
<1> USE SizesAssumption, NonEmptyAssumption DEF Init
<1>1. HotPages = {} /\ -1 \notin Pages /\ 0 \in Pages /\ 0 \in Slots
  BY DEF HotPages, Pages, Slots
<1>2. TypeOK
  <2>1. Idle \in Calls
    BY <1>1 DEF Idle, Calls
  <2> QED
    BY <1>1, <2>1 DEF TypeOK, Hot, None
<1>3. LruListsHotPages
  <2>1. PICK s : s = [i \in 1 .. 0 |-> 0]
    OBVIOUS
  <2>2. s \in [1 .. 0 -> Pages] /\ IsLruOrder(s)
    BY <1>1, <2>1 DEF IsLruOrder
  <2> QED
    BY <1>1, <2>2 DEF LruListsHotPages
<1>4. PageTableConsistent
  BY <1>1 DEF PageTableConsistent, PageConsistent
<1> QED
  BY <1>2, <1>3, <1>4 DEF IInv, CallPrepared, Idle

\* A step that touches neither the list nor which pages are in memory.
LEMMA SameList ==
  ASSUME LruListsHotPages, UNCHANGED <<lru, hot_count>>, HotPages' = HotPages
  PROVE  LruListsHotPages'
<1>1. \A s : IsLruOrder(s)' <=> IsLruOrder(s)
  BY DEF IsLruOrder, lru
<1> QED
  BY <1>1 DEF LruListsHotPages, lru

\* Nor does it change the order.
LEMMA SameRecency ==
  ASSUME UNCHANGED <<lru, hot_count>>, HotPages' = HotPages
  PROVE  Recency' = Recency
  BY DEF Recency, IsLruOrder, lru

\* What the list says of the order.
LEMMA RecencyLists ==
  ASSUME TypeOK, LruListsHotPages
  PROVE  /\ Recency \in [1 .. hot_count -> Pages]
         /\ \A i \in 1 .. hot_count : Recency[i] \in HotPages
         /\ \A p \in HotPages : \E i \in 1 .. hot_count : Recency[i] = p
         /\ \A i, j \in 1 .. hot_count : Recency[i] = Recency[j] => i = j
         /\ hot_count # 0 => Recency[1] = lru_head /\ Recency[hot_count] = lru_tail
         /\ hot_count = 0 => lru_head = None /\ lru_tail = None
         /\ HotPages # {} => hot_count # 0
<1>1. Recency \in [1 .. hot_count -> Pages] /\ IsLruOrder(Recency)
  BY DEF LruListsHotPages, Recency
<1>2. hot_count \in Nat
  BY DEF TypeOK
<1> QED
  BY <1>1, <1>2 DEF IsLruOrder

\* Nothing but the call or the position changes.
LEMMA SamePagesKeepInvariant ==
  ASSUME IInv, UNCHANGED <<pages, lru, hot_count, cold_file>>, TypeOK', CallPrepared'
  PROVE  IInv'
<1>1. HotPages' = HotPages
  BY DEF HotPages, pages
<1> QED
  BY <1>1, SameList DEF IInv, pages, PageTableConsistent, PageConsistent

\* A call begins, or advance or reset moves the position alone.
LEMMA ClientKeepsInvariant ==
  ASSUME IInv, Client PROVE IInv'
<1> USE SizesAssumption
<1>1. UNCHANGED <<pages, lru, hot_count, cold_file>>
  BY DEF Client, Save, SaveAt, BeginSave, EnsurePagesHot, Advance, Reset
<1>2. current_pos' \in 0 .. MaxPages * BlockSize
  <2> DEFINE M == MaxPages * BlockSize
  <2>1. M \in Nat /\ current_pos \in 0 .. M
    BY DEF IInv, TypeOK
  <2>2. \/ current_pos' \in {0, current_pos}
        \/ current_pos < M /\ current_pos' = current_pos + 1
    BY DEF Client, Save, SaveAt, BeginSave, EnsurePagesHot, Advance, Reset
  <2> HIDE DEF M
  <2>3. current_pos' \in 0 .. M
    BY <2>1, <2>2
  <2> QED
    BY <2>3 DEF M
<1> DEFINE Begun == call'.pc \in {"idle", "ensure"} /\ call' \in Calls
<1>3. Begun
  <2>1. 0 \in Pages /\ 0 \in Slots
    BY DEF Pages, Slots
  <2>2. ASSUME NEW l \in Layers, NEW pos \in Nat, NEW t \in Tokens, BeginSave(l, pos, t)
        PROVE  Begun
    <3>1. slot_in_page(pos) \in Slots
      BY DEF slot_in_page, Slots
    <3> QED
      BY <2>1, <2>2, <3>1 DEF BeginSave, Idle, Calls
  <2>3. ASSUME NEW start \in Pages, NEW end \in start .. MaxPages - 1, EnsurePagesHot(start, end)
        PROVE  Begun
    <3>1. end \in Pages
      BY DEF Pages
    <3> QED
      BY <2>1, <2>3, <3>1, NonEmptyAssumption DEF EnsurePagesHot, Idle, Calls
  <2>4. CASE Advance \/ Reset
    BY <2>4 DEF Advance, Reset, IInv, TypeOK
  <2>5. current_pos \in Nat /\ Positions \subseteq Nat
    BY DEF IInv, TypeOK, Positions
  <2> QED
    BY <2>2, <2>3, <2>4, <2>5 DEF Client, Save, SaveAt
<1>4. TypeOK'
  BY <1>1, <1>2, <1>3 DEF IInv, TypeOK, pages, lru
<1>5. CallPrepared'
  BY <1>3 DEF CallPrepared
<1> QED
  BY <1>1, <1>4, <1>5, SamePagesKeepInvariant

\* evict_one_page: the tail leaves memory and takes the next record of the file.
LEMMA EvictKeepsInvariant ==
  ASSUME IInv, EvictOnePage
  PROVE  /\ IInv'
         /\ hot_count = RamPageLimit /\ lru_tail \in HotPages
         /\ hot_count' = hot_count - 1 /\ HotPages' = HotPages \ {lru_tail}
         /\ Recency' = WithoutLast(Recency, hot_count)
<1> USE SizesAssumption
<1>1. TypeOK /\ LruListsHotPages /\ PageTableConsistent
  BY DEF IInv
<1>2. hot_count = RamPageLimit /\ hot_count \in Nat \ {0}
  BY DEF IInv, TypeOK, EvictOnePage, AtLimit
<1>3. Victim # None /\ Victim \in HotPages /\ Victim \in Pages
  BY <1>1, <1>2, TailIsHot DEF Victim, HotPages
<1>4. /\ page_state' = [page_state EXCEPT ![Victim] = Len(cold_file)]
      /\ cold_file' = cold_file \o <<k_pages[Victim], v_pages[Victim]>>
      /\ hot_count' = hot_count - 1
      /\ RemoveFromLru(Victim)
      /\ k_pages' = [k_pages EXCEPT ![Victim] = Null]
      /\ v_pages' = [v_pages EXCEPT ![Victim] = Null]
      /\ call' = [call EXCEPT !.pc = IF MissingPage THEN "alloc" ELSE "reload"]
      /\ MissingPage \/ ColdPage
      /\ UNCHANGED <<num_pages, current_pos>>
  BY <1>3 DEF EvictOnePage, ColdOffset
\* The record is two halves of page data, at an even offset.
<1>5. /\ k_pages[Victim] \in PageData /\ v_pages[Victim] \in PageData
      /\ cold_file \in Seq(PageData)
  BY <1>1, <1>3 DEF PageTableConsistent, PageConsistent, TypeOK
<1>6. cold_file' \in Seq(PageData) /\ Len(cold_file') = Len(cold_file) + 2 /\ Len(cold_file) \in Nat
  BY <1>4, <1>5
<1>7. HotPages' = HotPages \ {Victim}
  BY <1>1, <1>3, <1>4, <1>6 DEF HotPages, TypeOK, Hot
<1>8. LruListsHotPages' /\ Recency' = WithoutLast(Recency, hot_count)
  BY <1>1, <1>3, <1>4, <1>7, EvictKeepsList DEF Victim
<1>9. TypeOK'
  <2>1. /\ lru_prev' \in [Pages -> Pages \cup {None}]
        /\ lru_next' \in [Pages -> Pages \cup {None}]
        /\ lru_head' \in Pages \cup {None}
        /\ lru_tail' \in Pages \cup {None}
    BY <1>1, <1>3, <1>4 DEF TypeOK, RemoveFromLru, UnlinkPrev, UnlinkNext, TailWithout
  <2>2. call' \in Calls
    BY <1>1, <1>4 DEF TypeOK, Calls
  <2>3. /\ k_pages' \in [Pages -> PageData \cup {Null}]
        /\ v_pages' \in [Pages -> PageData \cup {Null}]
    BY <1>1, <1>4 DEF TypeOK
  <2>4. page_state' \in [Pages -> Nat \cup {Hot}] /\ hot_count' \in Nat
    <3>1. page_state \in [Pages -> Nat \cup {Hot}]
      BY <1>1 DEF TypeOK
    <3>2. page_state' = [page_state EXCEPT ![Victim] = Len(cold_file)]
      BY <1>4
    <3>3. page_state' \in [Pages -> Nat \cup {Hot}]
      BY <1>6, <3>1, <3>2
    <3> QED
      BY <1>2, <1>4, <3>3
  <2>5. num_pages' \in 0 .. MaxPages /\ current_pos' \in 0 .. MaxPages * BlockSize
    BY <1>1, <1>4 DEF TypeOK
  <2> QED
    BY <1>6, <2>1, <2>2, <2>3, <2>4, <2>5 DEF TypeOK
<1>10. PageTableConsistent'
  <2> SUFFICES ASSUME NEW p \in Pages PROVE PageConsistent(p)'
    BY DEF PageTableConsistent
  <2>1. CASE p = Victim
    <3>1. k_pages'[p] = Null /\ v_pages'[p] = Null /\ page_state'[p] = Len(cold_file)
      BY <1>1, <1>3, <1>4, <2>1 DEF TypeOK
    <3>2. ASSUME NEW q \in Pages \ {p}, q < num_pages PROVE page_state'[q] # Len(cold_file)
      <4>1. page_state'[q] = page_state[q]
        BY <1>1, <1>4, <2>1 DEF TypeOK
      <4>2. CASE page_state[q] = Hot
        BY <1>6, <4>1, <4>2 DEF Hot
      <4>3. CASE page_state[q] # Hot
        <5>1. page_state[q] \in Nat /\ page_state[q] + 2 <= Len(cold_file)
          BY <1>1, <3>2, <4>3 DEF PageTableConsistent, PageConsistent, HotPages, TypeOK
        <5> QED
          BY <1>6, <4>1, <5>1
      <4> QED
        BY <4>2, <4>3
    <3> QED
      BY <1>4, <1>6, <1>7, <2>1, <3>1, <3>2 DEF IInv, PageConsistent
  <2>2. CASE p # Victim
    <3>1. /\ k_pages'[p] = k_pages[p] /\ v_pages'[p] = v_pages[p]
          /\ page_state'[p] = page_state[p]
          /\ (p \in HotPages') = (p \in HotPages)
      BY <1>1, <1>4, <1>7, <2>2 DEF TypeOK
    <3>2. page_state'[Victim] = Len(cold_file)
      BY <1>1, <1>3, <1>4 DEF TypeOK
    <3>3. \A q \in Pages : q # Victim => page_state'[q] = page_state[q]
      BY <1>1, <1>4 DEF TypeOK
    <3>4. ASSUME p < num_pages, p \notin HotPages
          PROVE  /\ page_state[p] % 2 = 0
                 /\ page_state[p] + 2 <= Len(cold_file)
                 /\ page_state[p] \in Nat
                 /\ \A q \in Pages \ {p} : q < num_pages => page_state[q] # page_state[p]
      BY <1>1, <3>4 DEF PageTableConsistent, PageConsistent, HotPages, TypeOK
    <3>5. /\ (k_pages[p] # Null) = (p \in HotPages)
          /\ (v_pages[p] # Null) = (p \in HotPages)
      BY <1>1 DEF PageTableConsistent, PageConsistent
    <3> QED
      BY <1>4, <1>6, <3>1, <3>2, <3>3, <3>4, <3>5 DEF PageConsistent
  <2> QED
    BY <2>1, <2>2
<1>11. CallPrepared'
  <2>1. call'.page = call.page /\ call.page \in Pages
    BY <1>1, <1>4 DEF TypeOK, Calls
  <2>2. ~AtLimit'
    BY <1>2, <1>4 DEF AtLimit
  <2>3. CASE MissingPage
    BY <1>1, <1>4, <2>1, <2>2, <2>3 DEF CallPrepared, MissingPage, TypeOK, Calls
  <2>4. CASE ~MissingPage /\ ColdPage
    <3>1. call.page # Victim
      BY <1>3, <2>4 DEF ColdPage, HotPages
    <3>2. ColdPage'
      BY <1>1, <1>4, <2>1, <2>4, <3>1 DEF ColdPage, MissingPage, TypeOK
    <3> QED
      BY <1>1, <1>4, <2>2, <2>4, <3>2 DEF CallPrepared, TypeOK, Calls
  <2> QED
    BY <1>4, <2>3, <2>4
<1> QED
  BY <1>2, <1>3, <1>4, <1>6, <1>7, <1>8, <1>9, <1>10, <1>11 DEF IInv, Victim

\* alloc_hot_page: the page past the last one is created at the head.
LEMMA AllocKeepsInvariant ==
  ASSUME IInv, AllocHotPage
  PROVE  /\ IInv'
         /\ hot_count < RamPageLimit /\ num_pages \in Pages \ HotPages
         /\ hot_count' = hot_count + 1 /\ HotPages' = HotPages \cup {num_pages}
         /\ Recency' = WithFirst(num_pages, Recency, hot_count)
<1> USE SizesAssumption
<1> DEFINE new == num_pages
<1>1. TypeOK /\ LruListsHotPages /\ PageTableConsistent /\ CallPrepared
  BY DEF IInv
<1>2. call.page \in Pages /\ num_pages \in Nat /\ hot_count \in Nat /\ call.page \in Nat
  BY <1>1 DEF TypeOK, Calls, Pages
<1>3. num_pages <= call.page /\ hot_count < RamPageLimit /\ num_pages \in Pages
  BY <1>1, <1>2 DEF AllocHotPage, CallPrepared, MissingPage, AtLimit, Pages
<1>4. PICK zeroes \in PageData :
        /\ k_pages' = [k_pages EXCEPT ![new] = zeroes]
        /\ v_pages' = [v_pages EXCEPT ![new] = zeroes]
  BY DEF AllocHotPage, PageData, Rows
<1>5. /\ page_state' = [page_state EXCEPT ![new] = Hot]
      /\ num_pages' = num_pages + 1
      /\ hot_count' = hot_count + 1
      /\ InsertAtHead(new)
      /\ call' = [call EXCEPT !.pc = "ensure"]
      /\ UNCHANGED <<cold_file, current_pos>>
  BY DEF AllocHotPage
<1>6. HotPages' = HotPages \cup {new} /\ new \notin HotPages
  BY <1>1, <1>2, <1>3, <1>5 DEF HotPages, TypeOK, Pages
<1>7. LruListsHotPages' /\ Recency' = WithFirst(new, Recency, hot_count)
  BY <1>1, <1>3, <1>5, <1>6, InsertKeepsList
<1>8. TypeOK'
  <2>1. /\ lru_prev' \in [Pages -> Pages \cup {None}]
        /\ lru_next' \in [Pages -> Pages \cup {None}]
        /\ lru_head' \in Pages \cup {None}
        /\ lru_tail' \in Pages \cup {None}
    BY <1>1, <1>3, <1>5 DEF TypeOK, InsertAtHead
  <2>2. call' \in Calls
    BY <1>1, <1>5 DEF TypeOK, Calls
  <2>3. /\ k_pages' \in [Pages -> PageData \cup {Null}]
        /\ v_pages' \in [Pages -> PageData \cup {Null}]
    BY <1>1, <1>4 DEF TypeOK
  <2>4. page_state' \in [Pages -> Nat \cup {Hot}] /\ hot_count' \in Nat
    <3>1. page_state \in [Pages -> Nat \cup {Hot}]
      BY <1>1 DEF TypeOK
    <3>2. page_state' = [page_state EXCEPT ![new] = Hot]
      BY <1>5
    <3>3. page_state' \in [Pages -> Nat \cup {Hot}]
      BY <3>1, <3>2
    <3> QED
      BY <1>2, <1>5, <3>3
  <2>5. num_pages' \in 0 .. MaxPages /\ current_pos' \in 0 .. MaxPages * BlockSize
    BY <1>1, <1>2, <1>3, <1>5 DEF TypeOK, Pages
  <2>6. cold_file' \in Seq(PageData)
    BY <1>1, <1>5 DEF TypeOK
  <2> QED
    BY <2>1, <2>2, <2>3, <2>4, <2>5, <2>6 DEF TypeOK
<1>9. PageTableConsistent'
  <2>1. /\ \A p \in Pages : p # new =>
             /\ k_pages'[p] = k_pages[p] /\ v_pages'[p] = v_pages[p]
             /\ page_state'[p] = page_state[p]
             /\ p < num_pages' => p < num_pages
        /\ k_pages'[new] # Null /\ v_pages'[new] # Null /\ page_state'[new] = Hot
    BY <1>1, <1>2, <1>3, <1>4, <1>5, NullAssumption DEF TypeOK, Pages
  <2> SUFFICES ASSUME NEW p \in Pages PROVE PageConsistent(p)'
    BY DEF PageTableConsistent
  <2>2. CASE p = new
    BY <1>6, <2>1, <2>2 DEF PageConsistent
  <2>3. CASE p # new
    <3>1. /\ (k_pages'[p] # Null) = (p \in HotPages')
          /\ (v_pages'[p] # Null) = (p \in HotPages')
      BY <1>1, <1>6, <2>1, <2>3 DEF PageTableConsistent, PageConsistent
    <3>2. ASSUME p < num_pages', p \notin HotPages'
          PROVE  /\ page_state'[p] % 2 = 0
                 /\ page_state'[p] + 2 <= Len(cold_file')
                 /\ page_state[p] # Hot
                 /\ \A q \in Pages \ {p} : q < num_pages => page_state[q] # page_state[p]
      BY <1>1, <1>5, <1>6, <2>1, <2>3, <3>2 DEF PageTableConsistent, PageConsistent, HotPages
    <3> QED
      BY <2>1, <2>3, <3>1, <3>2 DEF PageConsistent
  <2> QED
    BY <2>2, <2>3
<1>10. CallPrepared'
  BY <1>1, <1>5 DEF CallPrepared, TypeOK, Calls
<1> QED
  BY <1>2, <1>3, <1>5, <1>6, <1>7, <1>8, <1>9, <1>10 DEF IInv

\* reload_cold_page: the buffers are read from the record the page remembers.
LEMMA ReloadKeepsInvariant ==
  ASSUME IInv, ReloadColdPage
  PROVE  /\ IInv'
         /\ hot_count < RamPageLimit /\ call.page \in Pages \ HotPages
         /\ hot_count' = hot_count + 1 /\ HotPages' = HotPages \cup {call.page}
         /\ Recency' = WithFirst(call.page, Recency, hot_count)
<1> USE SizesAssumption
<1> DEFINE back == call.page
<1>1. TypeOK /\ LruListsHotPages /\ PageTableConsistent /\ CallPrepared
  BY DEF IInv
<1>2. back \in Pages /\ back \in Nat /\ num_pages \in Nat /\ hot_count \in Nat
  BY <1>1 DEF TypeOK, Calls, Pages
<1>3. /\ back < num_pages /\ page_state[back] # Hot /\ hot_count < RamPageLimit
      /\ back \notin HotPages
  BY <1>1, <1>2 DEF ReloadColdPage, CallPrepared, ColdPage, MissingPage, AtLimit, HotPages
\* Both halves lie inside the file.
<1>4. PICK k \in PageData, v \in PageData :
        /\ k_pages' = [k_pages EXCEPT ![back] = k]
        /\ v_pages' = [v_pages EXCEPT ![back] = v]
  <2>1. page_state[back] \in Nat /\ page_state[back] + 2 <= Len(cold_file)
    BY <1>1, <1>2, <1>3 DEF PageTableConsistent, PageConsistent, TypeOK
  <2>2. cold_file \in Seq(PageData) /\ Len(cold_file) \in Nat
    BY <1>1 DEF TypeOK
  <2>3. /\ cold_file[page_state[back] + 1] \in PageData
        /\ cold_file[page_state[back] + 2] \in PageData
    BY <2>1, <2>2
  <2> QED
    BY <2>3 DEF ReloadColdPage, ReadHalf
<1>5. /\ page_state' = [page_state EXCEPT ![back] = Hot]
      /\ hot_count' = hot_count + 1
      /\ InsertAtHead(back)
      /\ call' = [call EXCEPT !.pc = "touch"]
      /\ UNCHANGED <<num_pages, cold_file, current_pos>>
  BY DEF ReloadColdPage
<1>6. HotPages' = HotPages \cup {back}
  BY <1>1, <1>2, <1>3, <1>5 DEF HotPages, TypeOK
<1>7. LruListsHotPages' /\ Recency' = WithFirst(back, Recency, hot_count)
  BY <1>1, <1>2, <1>3, <1>5, <1>6, InsertKeepsList
<1>8. TypeOK'
  <2>1. /\ lru_prev' \in [Pages -> Pages \cup {None}]
        /\ lru_next' \in [Pages -> Pages \cup {None}]
        /\ lru_head' \in Pages \cup {None}
        /\ lru_tail' \in Pages \cup {None}
    BY <1>1, <1>2, <1>5 DEF TypeOK, InsertAtHead
  <2>2. call' \in Calls
    BY <1>1, <1>5 DEF TypeOK, Calls
  <2>3. /\ k_pages' \in [Pages -> PageData \cup {Null}]
        /\ v_pages' \in [Pages -> PageData \cup {Null}]
    BY <1>1, <1>4 DEF TypeOK
  <2>4. page_state' \in [Pages -> Nat \cup {Hot}]
    <3>1. page_state \in [Pages -> Nat \cup {Hot}]
      BY <1>1 DEF TypeOK
    <3>2. page_state' = [page_state EXCEPT ![back] = Hot]
      BY <1>5
    <3> QED
      BY <3>1, <3>2
  <2>5. /\ hot_count' \in Nat /\ num_pages' \in 0 .. MaxPages
        /\ current_pos' \in 0 .. MaxPages * BlockSize
        /\ cold_file' \in Seq(PageData)
    BY <1>1, <1>2, <1>5 DEF TypeOK
  <2> QED
    BY <2>1, <2>2, <2>3, <2>4, <2>5 DEF TypeOK
<1>9. PageTableConsistent'
  <2>1. /\ \A p \in Pages : p # back =>
             /\ k_pages'[p] = k_pages[p] /\ v_pages'[p] = v_pages[p]
             /\ page_state'[p] = page_state[p]
        /\ k_pages'[back] # Null /\ v_pages'[back] # Null /\ page_state'[back] = Hot
    BY <1>1, <1>2, <1>4, <1>5, NullAssumption DEF TypeOK
  <2> SUFFICES ASSUME NEW p \in Pages PROVE PageConsistent(p)'
    BY DEF PageTableConsistent
  <2>2. CASE p = back
    BY <1>6, <2>1, <2>2 DEF PageConsistent
  <2>3. CASE p # back
    <3>1. /\ (k_pages'[p] # Null) = (p \in HotPages')
          /\ (v_pages'[p] # Null) = (p \in HotPages')
      BY <1>1, <1>6, <2>1, <2>3 DEF PageTableConsistent, PageConsistent
    <3>2. ASSUME p < num_pages', p \notin HotPages'
          PROVE  /\ page_state'[p] % 2 = 0
                 /\ page_state'[p] + 2 <= Len(cold_file')
                 /\ page_state[p] # Hot
                 /\ \A q \in Pages \ {p} : q < num_pages => page_state[q] # page_state[p]
      BY <1>1, <1>5, <1>6, <2>1, <2>3, <3>2 DEF PageTableConsistent, PageConsistent, HotPages
    <3> QED
      BY <1>5, <2>1, <2>3, <3>1, <3>2 DEF PageConsistent
  <2> QED
    BY <2>2, <2>3
<1>10. CallPrepared'
  <2>1. call'.pc = "touch" /\ call'.page = back
    BY <1>1, <1>5 DEF TypeOK, Calls
  <2> QED
    BY <1>6, <2>1 DEF CallPrepared
<1> QED
  BY <1>2, <1>3, <1>5, <1>6, <1>7, <1>8, <1>9, <1>10 DEF IInv

\* touch_lru: the page of the call moves to the head, or is there already.
LEMMA TouchKeepsInvariant ==
  ASSUME IInv, TouchPage
  PROVE  /\ IInv'
         /\ call.page \in HotPages /\ HotPages' = HotPages /\ hot_count' = hot_count
         /\ \E k \in 1 .. hot_count :
              Recency[k] = call.page /\ Recency' = MovedFirst(k, Recency, hot_count)
         /\ lru_head' = call.page
<1> USE SizesAssumption
<1>1. TypeOK /\ LruListsHotPages /\ PageTableConsistent /\ CallPrepared
  BY DEF IInv
<1>2. /\ TouchLru(call.page)
      /\ call' = AfterEnsurePage
      /\ UNCHANGED <<pages, hot_count, cold_file, current_pos>>
  BY DEF TouchPage
<1>3. call.page \in HotPages /\ call.page \in Pages
  <2>1. call.page \in Pages /\ call.page \in Int /\ num_pages \in Int
    BY <1>1 DEF TypeOK, Calls, Pages
  <2>2. CASE call.pc = "touch"
    BY <1>1, <2>1, <2>2 DEF CallPrepared
  <2>3. CASE ~MissingPage /\ ~ColdPage
    BY <2>1, <2>3 DEF MissingPage, ColdPage, HotPages
  <2> QED
    BY <2>1, <2>2, <2>3 DEF TouchPage
<1>4. HotPages' = HotPages
  BY <1>2 DEF HotPages, pages
<1>5. /\ LruListsHotPages'
      /\ \E k \in 1 .. hot_count :
           Recency[k] = call.page /\ Recency' = MovedFirst(k, Recency, hot_count)
      /\ lru_head' = call.page
  <2>1. CASE lru_head = call.page
    <3>1. UNCHANGED lru
      BY <1>2, <2>1 DEF TouchLru
    <3>2. LruListsHotPages'
      BY <1>1, <1>2, <1>4, <3>1, SameList
    <3>3. Recency' = Recency
      BY <1>2, <1>4, <3>1, SameRecency
    <3>4. /\ hot_count \in Nat \ {0} /\ Recency \in [1 .. hot_count -> Pages]
          /\ Recency[1] = call.page
      BY <1>1, <1>3, <2>1, RecencyLists DEF TypeOK
    <3>5. Recency = MovedFirst(1, Recency, hot_count)
      BY <3>4 DEF MovedFirst
    <3> QED
      BY <2>1, <3>1, <3>2, <3>3, <3>4, <3>5 DEF lru
  <2>2. CASE lru_head # call.page
    BY <1>1, <1>2, <1>3, <1>4, <2>2, MoveKeepsList DEF TouchLru, MoveToHead
  <2> QED
    BY <2>1, <2>2
<1>6. call' \in Calls /\ (call'.pc = "copy" => call'.page = call.page)
      /\ call'.pc \in {"copy", "ensure", "idle"}
  <2>1. CASE call.op = "save"
    BY <1>1, <1>2, <2>1 DEF AfterEnsurePage, TypeOK, Calls
  <2>2. CASE call.op # "save" /\ call.page < call.last
    <3>1. call.page + 1 \in Pages
      BY <1>1, <2>2 DEF TypeOK, Calls, Pages
    <3> QED
      BY <1>1, <1>2, <2>2, <3>1 DEF AfterEnsurePage, TypeOK, Calls
  <2>3. CASE call.op # "save" /\ ~(call.page < call.last)
    <3>1. 0 \in Pages /\ 0 \in Slots
      BY DEF Pages, Slots
    <3> QED
      BY <1>2, <2>3, <3>1, NonEmptyAssumption DEF AfterEnsurePage, Idle, Calls
  <2> QED
    BY <2>1, <2>2, <2>3
<1>7. TypeOK'
  <2>1. /\ lru_prev' \in [Pages -> Pages \cup {None}]
        /\ lru_next' \in [Pages -> Pages \cup {None}]
        /\ lru_head' \in Pages \cup {None}
        /\ lru_tail' \in Pages \cup {None}
    BY <1>1, <1>2, <1>3 DEF TypeOK, TouchLru, MoveToHead, UnlinkPrev, UnlinkNext, TailWithout, lru
  <2> QED
    BY <1>1, <1>2, <1>6, <2>1 DEF TypeOK, pages
<1>8. PageTableConsistent'
  BY <1>1, <1>2, <1>4 DEF PageTableConsistent, PageConsistent, pages
<1>9. CallPrepared'
  BY <1>3, <1>4, <1>6 DEF CallPrepared
<1> QED
  BY <1>2, <1>3, <1>4, <1>5, <1>7, <1>8, <1>9 DEF IInv

\* save and save_at: a row is written into a page in memory.
LEMMA CopyKeepsInvariant ==
  ASSUME IInv, CopyRows
  PROVE  /\ IInv'
         /\ call.page \in HotPages /\ HotPages' = HotPages
         /\ Recency' = Recency
<1> USE SizesAssumption
<1> DEFINE cell == <<call.layer, call.slot>>
<1>1. TypeOK /\ LruListsHotPages /\ PageTableConsistent /\ CallPrepared
  BY DEF IInv
<1>2. /\ call.page \in Pages /\ call.page \in HotPages
      /\ cell \in Cells
      /\ <<"k", call.token>> \in Rows /\ <<"v", call.token>> \in Rows
  BY <1>1 DEF CopyRows, CallPrepared, TypeOK, Calls, Cells, Rows
\* The page has its buffers, so the rows land in them.
<1>3. k_pages[call.page] \in PageData /\ v_pages[call.page] \in PageData
  BY <1>1, <1>2 DEF PageTableConsistent, PageConsistent, TypeOK
<1>4. PICK k \in PageData, v \in PageData :
        /\ k_pages' = [k_pages EXCEPT ![call.page] = k]
        /\ v_pages' = [v_pages EXCEPT ![call.page] = v]
  <2> DEFINE k == [k_pages[call.page] EXCEPT ![cell] = <<"k", call.token>>]
             v == [v_pages[call.page] EXCEPT ![cell] = <<"v", call.token>>]
  <2>1. k \in PageData /\ v \in PageData
    BY <1>2, <1>3 DEF PageData
  <2>2. /\ k_pages' = [k_pages EXCEPT ![call.page] = k]
        /\ v_pages' = [v_pages EXCEPT ![call.page] = v]
    BY DEF CopyRows
  <2> QED
    BY <2>1, <2>2
<1>5. UNCHANGED <<num_pages, page_state, lru, hot_count, cold_file, current_pos>> /\ call' = Idle
  BY DEF CopyRows
<1>6. HotPages' = HotPages
  BY <1>5 DEF HotPages
<1>7. LruListsHotPages'
  BY <1>1, <1>5, <1>6, SameList
<1>8. TypeOK'
  <2>1. call' \in Calls
    <3>1. 0 \in Pages /\ 0 \in Slots
      BY DEF Pages, Slots
    <3> QED
      BY <1>5, <3>1, NonEmptyAssumption DEF Idle, Calls
  <2>2. /\ k_pages' \in [Pages -> PageData \cup {Null}]
        /\ v_pages' \in [Pages -> PageData \cup {Null}]
    BY <1>1, <1>4 DEF TypeOK
  <2> QED
    BY <1>1, <1>5, <2>1, <2>2 DEF TypeOK, lru
<1>9. PageTableConsistent'
  <2>1. \A p \in Pages :
          /\ (k_pages'[p] # Null) = (k_pages[p] # Null)
          /\ (v_pages'[p] # Null) = (v_pages[p] # Null)
    BY <1>1, <1>2, <1>3, <1>4, NullAssumption DEF TypeOK
  <2> QED
    BY <1>1, <1>5, <1>6, <2>1 DEF PageTableConsistent, PageConsistent
<1>10. CallPrepared'
  BY <1>5 DEF CallPrepared, Idle
<1>11. Recency' = Recency
  BY <1>5, <1>6, SameRecency
<1> QED
  BY <1>2, <1>5, <1>6, <1>7, <1>8, <1>9, <1>10, <1>11 DEF IInv

----------------------------------------------------------------------------
(* ensure_pages_hot.                                                       *)

\* The pages of the range that the call has been through.
InRange(p, c) == c.first <= p /\ p < c.page

\* They are in memory and, but for the page it is at, nothing is more recent.
Listed(hot, order, n, c) ==
  /\ \A p \in Pages : InRange(p, c) => p \in hot
  /\ \A i, j \in 1 .. n :
       InRange(order[i], c) /\ ~InRange(order[j], c) /\ order[j] # c.page => i < j

RangeListed == Listed(HotPages, Recency, hot_count, call)

RangeInv ==
  call.op = "ensure_pages_hot" =>
    /\ call.pc \notin {"idle", "copy"}
    /\ call.first <= call.page /\ call.page <= call.last
    /\ call.last - call.first < RamPageLimit => RangeListed

\* The eviction that makes room for a page takes none of the range, for those
\* alone do not fill memory.
LEMMA EvictSparesRange ==
  ASSUME IInv, EvictOnePage, RangeListed,
         call.first <= call.page, call.page <= call.last, call.last - call.first < RamPageLimit
  PROVE  ~InRange(lru_tail, call)
<1>1. TypeOK /\ LruListsHotPages
  BY DEF IInv
<1>2. hot_count = RamPageLimit /\ hot_count \in Nat \ {0}
  BY <1>1, EvictKeepsInvariant, SizesAssumption
<1>3. call.page \notin HotPages
  BY <1>1 DEF EvictOnePage, MissingPage, ColdPage, HotPages, TypeOK, Calls, Pages
<1>4. /\ \A q \in HotPages : \E i \in 1 .. hot_count : Recency[i] = q
      /\ Recency[hot_count] = lru_tail
  BY <1>1, <1>2, RecencyLists
<1>5. SUFFICES ASSUME InRange(lru_tail, call) PROVE FALSE
  OBVIOUS
<1>6. call.first \in Int /\ call.page \in Int /\ call.last \in Int
  BY <1>1 DEF TypeOK, Calls, Pages
<1>7. \A q \in HotPages : InRange(q, call)
  <2> SUFFICES ASSUME NEW q \in HotPages, ~InRange(q, call) PROVE FALSE
    OBVIOUS
  <2>1. PICK j \in 1 .. hot_count : Recency[j] = q
    BY <1>4
  <2>2. hot_count < j
    BY <1>2, <1>3, <1>4, <1>5, <2>1 DEF RangeListed, Listed
  <2> QED
    BY <1>2, <2>1, <2>2
<1>8. HotPages \subseteq call.first .. call.page - 1
  BY <1>6, <1>7 DEF InRange, HotPages, Pages
<1>9. Cardinality(HotPages) <= call.page - call.first
  <2> DEFINE b == call.page - 1
  <2>1. b \in Int /\ (call.first > b => call.page = call.first) /\ b - call.first + 1 = call.page - call.first
    BY <1>6
  <2>2. /\ IsFiniteSet(call.first .. b)
        /\ Cardinality(call.first .. b) = IF call.first > b THEN 0 ELSE b - call.first + 1
    BY <1>6, <2>1, FS_Interval
  <2>3. Cardinality(HotPages) <= Cardinality(call.first .. b)
    BY <1>8, <2>2, FS_Subset
  <2> QED
    BY <1>6, <2>1, <2>2, <2>3
<1> QED
  BY <1>1, <1>2, <1>6, <1>9, HotCount, SizesAssumption

\* Each step of a call keeps what ensure_pages_hot has done so far; it returns
\* with the whole range in memory.
LEMMA StepKeepsRange ==
  ASSUME IInv, RangeInv, Step
  PROVE  /\ RangeInv'
         /\ EnsureReturns /\ call.last - call.first < RamPageLimit =>
              \A p \in call.first .. call.last : p \in HotPages'
<1>1. TypeOK /\ LruListsHotPages /\ CallPrepared
  BY DEF IInv
<1>2. /\ call.first \in Pages /\ call.page \in Pages /\ call.last \in Pages
      /\ call.first \in Int /\ call.page \in Int /\ call.last \in Int
      /\ \A q \in Pages : q \in Int
      /\ hot_count \in Nat /\ num_pages \in Nat
      /\ RamPageLimit \in Nat
  BY <1>1, SizesAssumption DEF TypeOK, Calls, Pages
<1>3. /\ Recency \in [1 .. hot_count -> Pages]
      /\ \A i \in 1 .. hot_count : Recency[i] \in HotPages
  BY <1>1, RecencyLists
<1> DEFINE Going == /\ call.op = "ensure_pages_hot" /\ call.pc # "idle"
                    /\ call.last - call.first < RamPageLimit
<1>4. /\ Going => RangeListed /\ call.first <= call.page /\ call.page <= call.last
      /\ call.op = "ensure_pages_hot" /\ call.pc # "idle" =>
           call.first <= call.page /\ call.page <= call.last
  BY DEF RangeInv
<1>5. CASE EvictOnePage
  <2>1. /\ call.pc = "ensure" /\ call'.pc \in {"alloc", "reload"}
        /\ UNCHANGED <<call.op, call.first, call.page, call.last>>
    BY <1>1, <1>5 DEF EvictOnePage, TypeOK, Calls
  <2>2. Going => ~InRange(lru_tail, call)
    BY <1>4, <1>5, EvictSparesRange
  <2>3. /\ HotPages' = HotPages \ {lru_tail} /\ hot_count' = hot_count - 1
        /\ Recency' = WithoutLast(Recency, hot_count)
    BY <1>5, EvictKeepsInvariant
  <2>4. \A i \in 1 .. hot_count' : i \in 1 .. hot_count /\ Recency'[i] = Recency[i]
    BY <1>2, <2>3 DEF WithoutLast
  <2>5. Going => RangeListed'
    BY <1>4, <2>1, <2>2, <2>3, <2>4 DEF RangeListed, Listed, InRange
  <2> QED
    BY <1>4, <2>1, <2>5 DEF RangeInv, EnsureReturns
<1>6. CASE AllocHotPage
  <2>1. /\ call.pc \in {"alloc", "ensure"} /\ call'.pc = "ensure"
        /\ UNCHANGED <<call.op, call.first, call.page, call.last>>
    BY <1>1, <1>6 DEF AllocHotPage, TypeOK, Calls
  <2>2. /\ HotPages' = HotPages \cup {num_pages} /\ hot_count' = hot_count + 1
        /\ Recency' = WithFirst(num_pages, Recency, hot_count)
    BY <1>6, AllocKeepsInvariant
  <2>3. /\ Recency'[1] = num_pages
        /\ \A i \in 1 .. hot_count' : i # 1 => i - 1 \in 1 .. hot_count /\ Recency'[i] = Recency[i - 1]
    BY <1>2, <2>2 DEF WithFirst
\* With some of the range there, the page that is added is the one asked for.
  <2>4. ASSUME Going, NEW p \in Pages, InRange(p, call) PROVE num_pages = call.page
    <3>1. num_pages <= call.page
      BY <1>1, <1>2, <1>6 DEF AllocHotPage, CallPrepared, MissingPage
    <3>2. call.page - 1 \in Pages /\ InRange(call.page - 1, call)
      BY <1>2, <2>4, SizesAssumption DEF InRange, Pages
    <3>3. call.page - 1 < num_pages
      BY <1>4, <2>4, <3>2 DEF RangeListed, Listed, HotPages
    <3> QED
      BY <1>2, <3>1, <3>3
  <2>5. ASSUME Going PROVE RangeListed'
    <3>1. \A p \in Pages : InRange(p, call') <=> InRange(p, call)
      BY <2>1 DEF InRange
    <3>2. \A p \in Pages : InRange(p, call') => p \in HotPages'
      BY <1>4, <2>2, <2>5, <3>1 DEF RangeListed, Listed
    <3>3. ASSUME NEW i \in 1 .. hot_count', NEW j \in 1 .. hot_count',
                 InRange(Recency'[i], call'), ~InRange(Recency'[j], call'), Recency'[j] # call'.page
          PROVE  i < j
      <4>1. i # 1 /\ j # 1
        <5>1. Recency'[i] \in Pages
          BY <1>1, <1>2, <1>3, <1>6, <2>3, AllocKeepsInvariant
        <5>2. InRange(Recency'[i], call) /\ num_pages = call.page
          BY <2>4, <2>5, <3>1, <3>3, <5>1
        <5>3. Recency'[i] # call.page
          BY <1>2, <5>1, <5>2 DEF InRange
        <5> QED
          BY <2>1, <2>3, <3>3, <5>2, <5>3
      <4>2. /\ i - 1 \in 1 .. hot_count /\ j - 1 \in 1 .. hot_count
            /\ Recency'[i] = Recency[i - 1] /\ Recency'[j] = Recency[j - 1]
        BY <2>3, <4>1
      <4>3. Recency[i - 1] \in Pages /\ Recency[j - 1] \in Pages
        BY <1>3, <4>2
      <4>4. InRange(Recency[i - 1], call) /\ ~InRange(Recency[j - 1], call) /\ Recency[j - 1] # call.page
        BY <2>1, <3>1, <3>3, <4>2, <4>3
      <4>5. i - 1 < j - 1
        BY <1>4, <2>5, <4>2, <4>4 DEF RangeListed, Listed
      <4> QED
        BY <1>2, <2>2, <4>5
    <3> QED
      BY <3>2, <3>3 DEF RangeListed, Listed
  <2> QED
    BY <1>4, <2>1, <2>5 DEF RangeInv, EnsureReturns
<1>7. CASE ReloadColdPage
  <2>1. /\ call.pc \in {"reload", "ensure"} /\ call'.pc = "touch"
        /\ UNCHANGED <<call.op, call.first, call.page, call.last>>
    BY <1>1, <1>7 DEF ReloadColdPage, TypeOK, Calls
  <2>2. /\ HotPages' = HotPages \cup {call.page} /\ hot_count' = hot_count + 1
        /\ Recency' = WithFirst(call.page, Recency, hot_count)
    BY <1>7, ReloadKeepsInvariant
  <2>3. /\ Recency'[1] = call.page
        /\ \A i \in 1 .. hot_count' : i # 1 => i - 1 \in 1 .. hot_count /\ Recency'[i] = Recency[i - 1]
    BY <1>2, <2>2 DEF WithFirst
  <2>4. ASSUME Going PROVE RangeListed'
    <3>1. \A p \in Pages : InRange(p, call') <=> InRange(p, call)
      BY <2>1 DEF InRange
    <3>2. \A p \in Pages : InRange(p, call') => p \in HotPages'
      BY <1>4, <2>2, <2>4, <3>1 DEF RangeListed, Listed
    <3>3. ASSUME NEW i \in 1 .. hot_count', NEW j \in 1 .. hot_count',
                 InRange(Recency'[i], call'), ~InRange(Recency'[j], call'), Recency'[j] # call'.page
          PROVE  i < j
      <4>1. i # 1 /\ j # 1
        <5>1. ~InRange(call.page, call)
          BY <1>2 DEF InRange
        <5> QED
          BY <1>2, <2>1, <2>3, <3>1, <3>3, <5>1
      <4>2. /\ i - 1 \in 1 .. hot_count /\ j - 1 \in 1 .. hot_count
            /\ Recency'[i] = Recency[i - 1] /\ Recency'[j] = Recency[j - 1]
        BY <2>3, <4>1
      <4>3. Recency[i - 1] \in Pages /\ Recency[j - 1] \in Pages
        BY <1>3, <4>2
      <4>4. InRange(Recency[i - 1], call) /\ ~InRange(Recency[j - 1], call) /\ Recency[j - 1] # call.page
        BY <2>1, <3>1, <3>3, <4>2, <4>3
      <4>5. i - 1 < j - 1
        BY <1>4, <2>4, <4>2, <4>4 DEF RangeListed, Listed
      <4> QED
        BY <1>2, <2>2, <4>5
    <3> QED
      BY <3>2, <3>3 DEF RangeListed, Listed
  <2> QED
    BY <1>4, <2>1, <2>4 DEF RangeInv, EnsureReturns
<1>8. CASE TouchPage
  <2>1. /\ call.page \in HotPages /\ HotPages' = HotPages /\ hot_count' = hot_count
        /\ \E k \in 1 .. hot_count :
             Recency[k] = call.page /\ Recency' = MovedFirst(k, Recency, hot_count)
    BY <1>8, TouchKeepsInvariant
  <2>2. call' = AfterEnsurePage
    BY <1>8 DEF TouchPage
  <2>3. call.pc # "idle"
    BY <1>8 DEF TouchPage
  <2>4. CASE call.op # "ensure_pages_hot"
    BY <1>1, <2>2, <2>4 DEF AfterEnsurePage, RangeInv, EnsureReturns, Idle, TypeOK, Calls
  <2>5. CASE call.op = "ensure_pages_hot" /\ ~(call.page < call.last)
    <3>1. call'.pc = "idle" /\ call'.op = "none" /\ call.page = call.last
      BY <1>2, <1>4, <2>2, <2>3, <2>5 DEF AfterEnsurePage, Idle
    <3>2. ASSUME Going, NEW p \in call.first .. call.last PROVE p \in HotPages'
      <4>1. p \in Pages /\ (p = call.page \/ InRange(p, call))
        BY <1>2, <3>1, SizesAssumption DEF InRange, Pages
      <4> QED
        BY <1>4, <2>1, <3>2, <4>1 DEF RangeListed, Listed
    <3> QED
      BY <2>3, <3>1, <3>2 DEF RangeInv, EnsureReturns
  <2>6. CASE call.op = "ensure_pages_hot" /\ call.page < call.last
    <3>1. /\ call'.pc = "ensure" /\ call'.page = call.page + 1
          /\ UNCHANGED <<call.op, call.first, call.last>>
      BY <1>1, <2>2, <2>6 DEF AfterEnsurePage, TypeOK, Calls
    <3>2. \A p \in Pages : InRange(p, call') <=> (InRange(p, call) \/ (p = call.page /\ call.first <= call.page))
      BY <1>2, <3>1 DEF InRange
    <3>3. ASSUME Going PROVE RangeListed'
      <4>1. \A p \in Pages : InRange(p, call') => p \in HotPages'
        BY <1>4, <2>1, <3>2, <3>3 DEF RangeListed, Listed
      <4>2. PICK k \in 1 .. hot_count :
              Recency[k] = call.page /\ Recency' = MovedFirst(k, Recency, hot_count)
        BY <2>1
      <4>3. /\ Recency'[1] = call.page
            /\ \A i \in 1 .. hot_count : i # 1 =>
                 /\ (IF i <= k THEN i - 1 ELSE i) \in 1 .. hot_count
                 /\ Recency'[i] = Recency[IF i <= k THEN i - 1 ELSE i]
                 /\ (IF i <= k THEN i - 1 ELSE i) # k
        BY <1>2, <4>2 DEF MovedFirst
      <4>4. \A i \in 1 .. hot_count : i # k => Recency[i] # call.page
        BY <1>1, <4>2, RecencyLists
      <4>5. ASSUME NEW i \in 1 .. hot_count', NEW j \in 1 .. hot_count',
                   InRange(Recency'[i], call'), ~InRange(Recency'[j], call'), Recency'[j] # call'.page
            PROVE  i < j
        <5>1. j # 1
          BY <1>2, <1>4, <3>2, <3>3, <4>3, <4>5
        <5>2. CASE i = 1
          BY <2>1, <5>1, <5>2
        <5>3. CASE i # 1
          <6> DEFINE oi == IF i <= k THEN i - 1 ELSE i
                     oj == IF j <= k THEN j - 1 ELSE j
          <6>1. /\ oi \in 1 .. hot_count /\ Recency'[i] = Recency[oi] /\ oi # k
                /\ oj \in 1 .. hot_count /\ Recency'[j] = Recency[oj] /\ oj # k
            BY <2>1, <4>3, <5>1, <5>3
          <6>2. oi < oj => i < j
            BY <1>2, <2>1
          <6> HIDE DEF oi, oj
          <6>3. Recency[oi] \in Pages /\ Recency[oj] \in Pages
            BY <1>3, <6>1
          <6>4. InRange(Recency[oi], call) /\ ~InRange(Recency[oj], call) /\ Recency[oj] # call.page
            BY <3>2, <4>4, <4>5, <6>1, <6>3
          <6>5. oi < oj
            BY <1>4, <3>3, <6>1, <6>4 DEF RangeListed, Listed
          <6> QED
            BY <6>2, <6>5
        <5> QED
          BY <5>2, <5>3
      <4> QED
        BY <4>1, <4>5 DEF RangeListed, Listed
    <3> QED
      BY <1>2, <1>4, <2>3, <2>6, <3>1, <3>3 DEF RangeInv, EnsureReturns
  <2> QED
    BY <2>4, <2>5, <2>6
<1>9. CASE CopyRows
  BY <1>9 DEF CopyRows, RangeInv, EnsureReturns, Idle
<1> QED
  BY <1>5, <1>6, <1>7, <1>8, <1>9 DEF Step

\* A call of ensure_pages_hot starts with an empty range behind it.
LEMMA EnsureBeginsRange ==
  ASSUME IInv, NEW start \in Pages, NEW end \in start .. MaxPages - 1, EnsurePagesHot(start, end)
  PROVE  RangeInv'
<1>1. /\ call'.first = start /\ call'.page = start /\ call'.last = end /\ call'.pc = "ensure"
      /\ start \in Int /\ end \in Int /\ start <= end
  BY SizesAssumption DEF EnsurePagesHot, Idle, Pages
<1>2. \A p \in Pages : ~InRange(p, call')
  BY <1>1, SizesAssumption DEF InRange, Pages
<1>3. HotPages' = HotPages /\ Recency' = Recency /\ hot_count' = hot_count
  BY SameRecency DEF EnsurePagesHot, HotPages, pages
<1>4. \A i \in 1 .. hot_count : Recency[i] \in Pages
  BY RecencyLists DEF IInv
<1>5. RangeListed'
  BY <1>2, <1>3, <1>4 DEF RangeListed, Listed
<1> QED
  BY <1>1, <1>5 DEF RangeInv

\* The other calls have no range, and advance and reset touch none.
LEMMA SameCallKeepsRange ==
  ASSUME RangeInv, UNCHANGED <<pages, lru, hot_count, call>>
  PROVE  RangeInv'
<1>1. HotPages' = HotPages /\ Recency' = Recency /\ hot_count' = hot_count /\ call' = call
  BY SameRecency DEF HotPages, pages
<1> QED
  BY <1>1 DEF RangeInv, RangeListed

\* Until it returns, a call of ensure_pages_hot is about the same range.
LEMMA EnsureGoesOn ==
  ASSUME TypeOK, Step, call.op = "ensure_pages_hot"
  PROVE  \/ call'.pc = "idle"
         \/ call'.op = call.op /\ call'.first = call.first /\ call'.last = call.last
<1>1. call \in Calls
  BY DEF TypeOK
<1>2. CASE EvictOnePage
  BY <1>1, <1>2 DEF EvictOnePage, Calls
<1>3. CASE AllocHotPage
  BY <1>1, <1>3 DEF AllocHotPage, Calls
<1>4. CASE ReloadColdPage
  BY <1>1, <1>4 DEF ReloadColdPage, Calls
<1>5. CASE TouchPage
  BY <1>1, <1>5 DEF TouchPage, AfterEnsurePage, Idle, Calls
<1>6. CASE CopyRows
  BY <1>6 DEF CopyRows, Idle
<1> QED
  BY <1>2, <1>3, <1>4, <1>5, <1>6 DEF Step

\* A call made while none is under way.
LEMMA ClientKeepsRange ==
  ASSUME IInv, RangeInv, Client PROVE RangeInv'
<1>1. ASSUME NEW start \in Pages, NEW end \in start .. MaxPages - 1, EnsurePagesHot(start, end)
      PROVE  RangeInv'
  BY <1>1, EnsureBeginsRange
<1>2. ASSUME NEW l, NEW pos, NEW token, BeginSave(l, pos, token) PROVE RangeInv'
  BY <1>2 DEF BeginSave, Idle, RangeInv
<1>3. CASE Advance \/ Reset
  BY <1>3, SameCallKeepsRange DEF Advance, Reset
<1> QED
  BY <1>1, <1>2, <1>3 DEF Client, Save, SaveAt

----------------------------------------------------------------------------
(* The stored rows.                                                        *)

\* Quotient and remainder.
LEMMA DivMod ==
  ASSUME NEW a \in Nat, NEW b \in Nat \ {0}
  PROVE  /\ a \div b \in Nat /\ a % b \in 0 .. b - 1
         /\ a = b * (a \div b) + (a % b)
  BY SMT

\* There is one quotient and one remainder.
LEMMA DivModUnique ==
  ASSUME NEW b \in Nat \ {0}, NEW p \in Nat, NEW q \in Nat, NEW r \in 0 .. b - 1, NEW s \in 0 .. b - 1,
         b * p + r = b * q + s
  PROVE  p = q /\ r = s
<1>1. ASSUME NEW x \in Nat, NEW y \in Nat, x < y
      PROVE  b * x + b <= b * y /\ b * x \in Nat /\ b * y \in Nat
  <2>1. y = x + 1 + (y - x - 1) /\ y - x - 1 \in Nat
    BY <1>1
  <2>2. b * y = b * x + b + b * (y - x - 1) /\ b * (y - x - 1) \in Nat /\ b * x \in Nat
    BY <2>1
  <2> QED
    BY <2>2
<1>2. ~ (p < q)
  BY <1>1
<1>3. ~ (q < p)
  BY <1>1
<1>4. p = q
  BY <1>2, <1>3
<1>5. b * p \in Nat
  OBVIOUS
<1> QED
  BY <1>4, <1>5

\* A position of the table is a slot of a page of it, and the other way round.
LEMMA PositionIsSlot ==
  ASSUME NEW pos \in Positions
  PROVE  /\ page_id(pos) \in Pages /\ slot_in_page(pos) \in Slots
         /\ pos = BlockSize * page_id(pos) + slot_in_page(pos)
<1> DEFINE p == page_id(pos)
           b == BlockSize
<1>1. pos \in Nat /\ pos < MaxPages * b /\ b \in Nat \ {0} /\ MaxPages \in Nat \ {0}
  BY SizesAssumption DEF Positions
<1>2. p \in Nat /\ slot_in_page(pos) \in 0 .. b - 1 /\ pos = b * p + slot_in_page(pos)
  BY <1>1, DivMod DEF page_id, slot_in_page
<1> HIDE DEF p, b
<1>3. p < MaxPages
  <2> SUFFICES ASSUME MaxPages <= p PROVE FALSE
    BY <1>1, <1>2
  <2>1. p = MaxPages + (p - MaxPages) /\ p - MaxPages \in Nat
    BY <1>1, <1>2
  <2>2. b * p = MaxPages * b + b * (p - MaxPages) /\ b * (p - MaxPages) \in Nat
    BY <1>1, <2>1
  <2> QED
    BY <1>1, <1>2, <2>2
<1> QED
  BY <1>1, <1>2, <1>3, SizesAssumption DEF Pages, Slots, p, b

\* A slot of a page holds one position.
LEMMA SlotIsPosition ==
  ASSUME NEW p \in Pages, NEW s \in Slots
  PROVE  /\ BlockSize * p + s \in Positions
         /\ page_id(BlockSize * p + s) = p /\ slot_in_page(BlockSize * p + s) = s
<1> DEFINE b == BlockSize
           pos == b * p + s
<1>1. /\ b \in Nat \ {0} /\ MaxPages \in Nat \ {0} /\ p \in Nat /\ p < MaxPages
      /\ s \in 0 .. b - 1
  BY SizesAssumption DEF Pages, Slots
<1> HIDE DEF b
<1>2. pos \in Nat /\ pos < MaxPages * b
  <2>1. MaxPages = p + 1 + (MaxPages - p - 1) /\ MaxPages - p - 1 \in Nat
    BY <1>1
  <2>2. MaxPages * b = b * p + b + b * (MaxPages - p - 1) /\ b * (MaxPages - p - 1) \in Nat
        /\ b * p \in Nat
    BY <1>1, <2>1
  <2> QED
    BY <1>1, <2>2
<1>3. pos \div b \in Nat /\ pos % b \in 0 .. b - 1 /\ pos = b * (pos \div b) + (pos % b)
  BY <1>1, <1>2, DivMod
<1>4. pos \div b = p /\ pos % b = s
  <2> DEFINE q == pos \div b
             m == pos % b
  <2>1. q \in Nat /\ m \in 0 .. b - 1 /\ b * p + s = b * q + m
    BY <1>3
  <2> HIDE DEF q, m
  <2>2. p = q /\ s = m
    BY <1>1, <2>1, DivModUnique
  <2> QED
    BY <2>2 DEF q, m
<1> QED
  BY <1>2, <1>4, <1>1 DEF Positions, page_id, slot_in_page, b

\* Later positions are on later pages.
LEMMA LaterPage ==
  ASSUME NEW x \in Nat, NEW y \in Nat, x <= y
  PROVE  page_id(x) \in Nat /\ page_id(y) \in Nat /\ page_id(x) <= page_id(y)
<1> DEFINE b == BlockSize
           px == x \div b
           py == y \div b
<1>1. b \in Nat \ {0}
  BY SizesAssumption
<1>2. /\ px \in Nat /\ x % b \in 0 .. b - 1 /\ x = b * px + (x % b)
      /\ py \in Nat /\ y % b \in 0 .. b - 1 /\ y = b * py + (y % b)
  BY <1>1, DivMod
<1> HIDE DEF b, px, py
<1>3. px <= py
  <2> SUFFICES ASSUME py < px PROVE FALSE
    BY <1>2
  <2>1. px = py + 1 + (px - py - 1) /\ px - py - 1 \in Nat
    BY <1>2
  <2>2. b * px = b * py + b + b * (px - py - 1) /\ b * (px - py - 1) \in Nat /\ b * py \in Nat
    BY <1>1, <1>2, <2>1
  <2> QED
    BY <1>1, <1>2, <2>2
<1> QED
  BY <1>2, <1>3 DEF page_id, b, px, py

\* What page p holds, wherever it is.
KHeld(p) == Contents(k_pages, 1, p)
VHeld(p) == Contents(v_pages, 2, p)

\* While every page holds what it held, every position does.
LEMMA SameStored ==
  ASSUME \A p \in Pages : KHeld(p)' = KHeld(p) /\ VHeld(p)' = VHeld(p)
  PROVE  Stored' = Stored
<1>1. \A pos \in Positions : page_id(pos) \in Pages
  BY PositionIsSlot
<1>2. ASSUME NEW c \in Layers \X Positions
      PROVE  /\ Contents(k_pages, 1, page_id(c[2]))' = Contents(k_pages, 1, page_id(c[2]))
             /\ Contents(v_pages, 2, page_id(c[2]))' = Contents(v_pages, 2, page_id(c[2]))
  BY <1>1 DEF KHeld, VHeld
<1> QED
  BY <1>2 DEF Stored

\* Eviction writes both halves where reload will look for them, and no earlier
\* record is touched.
LEMMA EvictKeepsStored ==
  ASSUME IInv, EvictOnePage PROVE Stored' = Stored
<1>1. TypeOK /\ PageTableConsistent /\ Victim \in HotPages /\ Victim \in Pages /\ Victim # None
      /\ HotPages' = HotPages \ {Victim}
  BY EvictKeepsInvariant, SizesAssumption DEF IInv, Victim, HotPages, None, Pages
<1>2. /\ page_state' = [page_state EXCEPT ![Victim] = Len(cold_file)]
      /\ cold_file' = cold_file \o <<k_pages[Victim], v_pages[Victim]>>
      /\ k_pages' = [k_pages EXCEPT ![Victim] = Null]
      /\ v_pages' = [v_pages EXCEPT ![Victim] = Null]
      /\ num_pages' = num_pages
  BY <1>1 DEF EvictOnePage, ColdOffset
<1>3. /\ cold_file \in Seq(PageData) /\ Len(cold_file) \in Nat
      /\ k_pages[Victim] \in PageData /\ v_pages[Victim] \in PageData
      /\ num_pages \in Int
  BY <1>1 DEF PageTableConsistent, PageConsistent, TypeOK
<1>4. /\ \A i \in 1 .. Len(cold_file) : cold_file'[i] = cold_file[i]
      /\ cold_file'[Len(cold_file) + 1] = k_pages[Victim]
      /\ cold_file'[Len(cold_file) + 2] = v_pages[Victim]
  BY <1>2, <1>3
<1> SUFFICES ASSUME NEW p \in Pages PROVE KHeld(p)' = KHeld(p) /\ VHeld(p)' = VHeld(p)
  BY SameStored
<1>5. CASE p >= num_pages
  BY <1>2, <1>5 DEF KHeld, VHeld, Contents
<1>6. CASE p = Victim
  <2>1. page_state'[p] = Len(cold_file) /\ p \notin HotPages' /\ p \in HotPages
        /\ ~ (p >= num_pages)
    <3>1. page_state'[p] = Len(cold_file)
      BY <1>1, <1>2, <1>6 DEF TypeOK
    <3>2. p \in Int /\ p < num_pages
      BY <1>1, <1>6, SizesAssumption DEF HotPages, Pages
    <3> QED
      BY <1>1, <1>3, <1>6, <3>1, <3>2
  <2> QED
    BY <1>2, <1>4, <1>6, <2>1 DEF KHeld, VHeld, Contents
<1>7. CASE p # Victim /\ p \in HotPages
  <2>1. p \in HotPages' /\ k_pages'[p] = k_pages[p] /\ v_pages'[p] = v_pages[p]
    BY <1>1, <1>2, <1>7
  <2> QED
    BY <1>2, <1>7, <2>1 DEF KHeld, VHeld, Contents
<1>8. CASE ~ (p >= num_pages) /\ p \notin HotPages
  <2>1. p \notin HotPages' /\ page_state'[p] = page_state[p]
    BY <1>1, <1>2, <1>8 DEF TypeOK
  <2>2. page_state[p] \in Nat /\ page_state[p] + 2 <= Len(cold_file)
    BY <1>1, <1>3, <1>8, SizesAssumption
    DEF PageTableConsistent, PageConsistent, HotPages, TypeOK, Pages
  <2>3. page_state[p] + 1 \in 1 .. Len(cold_file) /\ page_state[p] + 2 \in 1 .. Len(cold_file)
    BY <1>3, <2>2
  <2> QED
    BY <1>2, <1>4, <1>8, <2>1, <2>3 DEF KHeld, VHeld, Contents
<1> QED
  BY <1>5, <1>6, <1>7, <1>8

\* A page that is created holds the zeros it was read as before.
LEMMA AllocKeepsStored ==
  ASSUME IInv, AllocHotPage PROVE Stored' = Stored
<1>1. TypeOK /\ num_pages \in Pages /\ HotPages' = HotPages \cup {num_pages}
  BY AllocKeepsInvariant DEF IInv
<1>2. /\ k_pages' = [k_pages EXCEPT ![num_pages] = [c \in Cells |-> Zero]]
      /\ v_pages' = [v_pages EXCEPT ![num_pages] = [c \in Cells |-> Zero]]
      /\ page_state' = [page_state EXCEPT ![num_pages] = Hot]
      /\ num_pages' = num_pages + 1 /\ cold_file' = cold_file
  BY DEF AllocHotPage
<1> SUFFICES ASSUME NEW p \in Pages PROVE KHeld(p)' = KHeld(p) /\ VHeld(p)' = VHeld(p)
  BY SameStored
<1>3. p \in Int /\ num_pages \in Int
  BY <1>1, SizesAssumption DEF Pages
<1>4. CASE p = num_pages
  <2>1. /\ k_pages'[p] = [c \in Cells |-> Zero] /\ v_pages'[p] = [c \in Cells |-> Zero]
        /\ p >= num_pages /\ ~ (p >= num_pages') /\ p \in HotPages'
    BY <1>1, <1>2, <1>3, <1>4 DEF TypeOK
  <2> QED
    BY <2>1 DEF KHeld, VHeld, Contents
<1>5. CASE p # num_pages
  <2>1. /\ k_pages'[p] = k_pages[p] /\ v_pages'[p] = v_pages[p] /\ page_state'[p] = page_state[p]
        /\ (p >= num_pages' <=> p >= num_pages) /\ (p \in HotPages' <=> p \in HotPages)
    BY <1>1, <1>2, <1>3, <1>5 DEF TypeOK
  <2> QED
    BY <1>2, <2>1 DEF KHeld, VHeld, Contents
<1> QED
  BY <1>4, <1>5

\* A page comes back with what its record holds.
LEMMA ReloadKeepsStored ==
  ASSUME IInv, ReloadColdPage PROVE Stored' = Stored
<1>1. /\ TypeOK /\ call.page \in Pages /\ call.page \notin HotPages
      /\ HotPages' = HotPages \cup {call.page}
  BY ReloadKeepsInvariant DEF IInv
<1>2. /\ k_pages' = [k_pages EXCEPT ![call.page] = cold_file[page_state[call.page] + 1]]
      /\ v_pages' = [v_pages EXCEPT ![call.page] = cold_file[page_state[call.page] + 2]]
      /\ page_state' = [page_state EXCEPT ![call.page] = Hot]
      /\ UNCHANGED <<num_pages, cold_file>>
  BY DEF ReloadColdPage, ReadHalf
<1>3. ~ (call.page >= num_pages)
  <2>1. ~MissingPage
    BY DEF IInv, CallPrepared, ReloadColdPage, ColdPage
  <2> QED
    BY <2>1 DEF MissingPage
<1> SUFFICES ASSUME NEW p \in Pages PROVE KHeld(p)' = KHeld(p) /\ VHeld(p)' = VHeld(p)
  BY SameStored
<1>4. CASE p = call.page
  <2>1. /\ k_pages'[p] = cold_file[page_state[p] + 1]
        /\ v_pages'[p] = cold_file[page_state[p] + 2]
        /\ p \in HotPages'
    BY <1>1, <1>2, <1>4 DEF TypeOK
  <2> QED
    BY <1>1, <1>2, <1>3, <1>4, <2>1 DEF KHeld, VHeld, Contents
<1>5. CASE p # call.page
  <2>1. /\ k_pages'[p] = k_pages[p] /\ v_pages'[p] = v_pages[p] /\ page_state'[p] = page_state[p]
        /\ (p \in HotPages' <=> p \in HotPages)
    BY <1>1, <1>2, <1>5 DEF TypeOK
  <2> QED
    BY <1>2, <2>1 DEF KHeld, VHeld, Contents
<1> QED
  BY <1>4, <1>5

\* Where the pages and the file stay, so does what they hold.
LEMMA SamePagesSameStored ==
  ASSUME UNCHANGED <<pages, cold_file>> PROVE Stored' = Stored
<1>1. HotPages' = HotPages
  BY DEF HotPages, pages
<1> SUFFICES ASSUME NEW p \in Pages PROVE KHeld(p)' = KHeld(p) /\ VHeld(p)' = VHeld(p)
  BY SameStored
<1> QED
  BY <1>1 DEF KHeld, VHeld, Contents, pages

\* save writes its rows at the position it was called for, and nowhere else.
LEMMA CopyWritesOne ==
  ASSUME IInv, CopyRows
  PROVE  LET pos == BlockSize * call.page + call.slot IN
         /\ call.layer \in Layers /\ pos \in Positions /\ call.token \in Tokens
         /\ page_id(pos) = call.page
         /\ Stored' = [Stored EXCEPT ![<<call.layer, pos>>] =
                         [k |-> <<"k", call.token>>, v |-> <<"v", call.token>>]]
<1> DEFINE pos == BlockSize * call.page + call.slot
           cell == <<call.layer, call.slot>>
<1>1. /\ TypeOK /\ PageTableConsistent /\ call.page \in HotPages /\ HotPages' = HotPages
      /\ call.layer \in Layers /\ call.slot \in Slots /\ call.page \in Pages /\ call.token \in Tokens
      /\ cell \in Cells
  BY CopyKeepsInvariant DEF IInv, TypeOK, Calls, Cells
<1>2. pos \in Positions /\ page_id(pos) = call.page /\ slot_in_page(pos) = call.slot
  BY <1>1, SlotIsPosition
<1>3. /\ k_pages[call.page] \in PageData /\ v_pages[call.page] \in PageData
      /\ ~ (call.page >= num_pages)
  BY <1>1, SizesAssumption DEF PageTableConsistent, PageConsistent, TypeOK, HotPages, Pages
<1>4. /\ k_pages' = [k_pages EXCEPT ![call.page] = [k_pages[call.page] EXCEPT ![cell] = <<"k", call.token>>]]
      /\ v_pages' = [v_pages EXCEPT ![call.page] = [v_pages[call.page] EXCEPT ![cell] = <<"v", call.token>>]]
      /\ UNCHANGED <<num_pages, page_state, cold_file>>
  BY DEF CopyRows
<1>5. ASSUME NEW p \in Pages, p # call.page PROVE KHeld(p)' = KHeld(p) /\ VHeld(p)' = VHeld(p)
  BY <1>1, <1>4, <1>5 DEF KHeld, VHeld, Contents, TypeOK
<1>6. /\ KHeld(call.page) = k_pages[call.page]
      /\ VHeld(call.page) = v_pages[call.page]
  BY <1>1, <1>3 DEF KHeld, VHeld, Contents
<1>7. ASSUME NEW p \in Pages, p = call.page
      PROVE  /\ KHeld(p)' = [k_pages[p] EXCEPT ![cell] = <<"k", call.token>>]
             /\ VHeld(p)' = [v_pages[p] EXCEPT ![cell] = <<"v", call.token>>]
  BY <1>1, <1>3, <1>4, <1>7 DEF KHeld, VHeld, Contents, TypeOK
<1>8. ASSUME NEW l \in Layers, NEW u \in Positions
      PROVE  Stored'[<<l, u>>] = IF <<l, u>> = <<call.layer, pos>>
                                 THEN [k |-> <<"k", call.token>>, v |-> <<"v", call.token>>]
                                 ELSE Stored[<<l, u>>]
  <2>1. /\ page_id(u) \in Pages /\ slot_in_page(u) \in Slots
        /\ u = BlockSize * page_id(u) + slot_in_page(u)
    BY PositionIsSlot
  <2>2. /\ Stored'[<<l, u>>] = [k |-> KHeld(page_id(u))'[<<l, slot_in_page(u)>>],
                               v |-> VHeld(page_id(u))'[<<l, slot_in_page(u)>>]]
        /\ Stored[<<l, u>>] = [k |-> KHeld(page_id(u))[<<l, slot_in_page(u)>>],
                              v |-> VHeld(page_id(u))[<<l, slot_in_page(u)>>]]
    BY DEF Stored, KHeld, VHeld
  <2>3. CASE page_id(u) # call.page
    BY <1>2, <1>5, <2>1, <2>2, <2>3
  <2>4. CASE page_id(u) = call.page
    <3>1. <<l, slot_in_page(u)>> \in Cells
      BY <2>1 DEF Cells
    <3>2. <<l, slot_in_page(u)>> = cell <=> <<l, u>> = <<call.layer, pos>>
      BY <1>2, <2>1, <2>4
    <3>3. /\ KHeld(page_id(u))'[<<l, slot_in_page(u)>>] =
               IF <<l, slot_in_page(u)>> = cell THEN <<"k", call.token>>
               ELSE KHeld(page_id(u))[<<l, slot_in_page(u)>>]
          /\ VHeld(page_id(u))'[<<l, slot_in_page(u)>>] =
               IF <<l, slot_in_page(u)>> = cell THEN <<"v", call.token>>
               ELSE VHeld(page_id(u))[<<l, slot_in_page(u)>>]
      BY <1>3, <1>6, <1>7, <2>1, <2>4, <3>1 DEF PageData
    <3> QED
      BY <2>2, <3>2, <3>3
  <2> QED
    BY <2>3, <2>4
<1>9. Stored' = [Stored EXCEPT ![<<call.layer, pos>>] =
                         [k |-> <<"k", call.token>>, v |-> <<"v", call.token>>]]
  <2> DEFINE D == Layers \X Positions
  <2>1. /\ Stored = [c \in D |-> Stored[c]]
        /\ Stored' = [c \in D |-> Stored'[c]]
    BY DEF Stored
  <2>2. \A c \in D : Stored'[c] = IF c = <<call.layer, pos>>
                                   THEN [k |-> <<"k", call.token>>, v |-> <<"v", call.token>>]
                                   ELSE Stored[c]
    BY <1>8
  <2> HIDE DEF D, pos
  <2> QED
    BY <2>1, <2>2
<1> QED
  BY <1>1, <1>2, <1>9

----------------------------------------------------------------------------
(* Orders as sequences.                                                    *)

\* A function on 1 .. n is a sequence of length n.
LEMMA OrderIsSeq ==
  ASSUME NEW n \in Nat, NEW s \in [1 .. n -> Pages]
  PROVE  s \in Seq(Pages) /\ Len(s) = n /\ DOMAIN s = 1 .. n
  OBVIOUS

\* The last page taken off.
LEMMA WithoutLastIsSubSeq ==
  ASSUME NEW n \in Nat \ {0}, NEW s \in [1 .. n -> Pages]
  PROVE  WithoutLast(s, n) = SubSeq(s, 1, n - 1)
<1> DEFINE u == WithoutLast(s, n)
           w == SubSeq(s, 1, n - 1)
<1>1. u \in [1 .. n - 1 -> Pages] /\ \A i \in 1 .. n - 1 : u[i] = s[i]
  BY DEF WithoutLast
<1>2. u \in Seq(Pages) /\ Len(u) = n - 1
  BY <1>1, OrderIsSeq
<1>3. /\ w \in Seq(Pages) /\ Len(w) = n - 1
      /\ \A i \in 1 .. n - 1 : w[i] = s[i]
  <2>1. \A i \in 1 .. n - 1 : s[i] \in Pages
    OBVIOUS
  <2>2. /\ w \in Seq(Pages)
        /\ Len(w) = IF 1 <= n - 1 THEN n - 1 - 1 + 1 ELSE 0
        /\ \A i \in 1 .. n - 1 - 1 + 1 : w[i] = s[1 + i - 1]
    BY <2>1, SubSeqProperties
  <2> HIDE DEF w
  <2> QED
    BY <2>2
<1> HIDE DEF u, w
<1> QED
  BY <1>1, <1>2, <1>3, SeqEqual DEF u, w

\* A page put first.
LEMMA WithFirstIsConcat ==
  ASSUME NEW n \in Nat, NEW s \in [1 .. n -> Pages], NEW p \in Pages
  PROVE  WithFirst(p, s, n) = <<p>> \o s
<1> DEFINE u == WithFirst(p, s, n)
           w == <<p>> \o s
<1>1. u \in [1 .. n + 1 -> Pages] /\ u[1] = p /\ \A i \in 2 .. n + 1 : u[i] = s[i - 1]
  BY DEF WithFirst
<1>2. u \in Seq(Pages) /\ Len(u) = n + 1
  BY <1>1, OrderIsSeq
<1>3. /\ w \in Seq(Pages) /\ Len(w) = n + 1 /\ w[1] = p
      /\ \A i \in 2 .. n + 1 : w[i] = s[i - 1]
  <2>1. <<p>> \in Seq(Pages) /\ Len(<<p>>) = 1 /\ <<p>>[1] = p /\ s \in Seq(Pages) /\ Len(s) = n
    BY OrderIsSeq
  <2>2. /\ w \in Seq(Pages) /\ Len(w) = 1 + n
        /\ \A i \in 1 .. 1 + n : w[i] = IF i <= 1 THEN <<p>>[i] ELSE s[i - 1]
    BY <2>1, ConcatProperties
  <2> HIDE DEF w
  <2> QED
    BY <2>1, <2>2
<1> HIDE DEF u, w
<1> QED
  BY <1>1, <1>2, <1>3, SeqEqual DEF u, w

\* The k-th page moved to the front.
LEMMA MovedFirstIsConcat ==
  ASSUME NEW n \in Nat, NEW s \in [1 .. n -> Pages], NEW k \in 1 .. n
  PROVE  MovedFirst(k, s, n) = <<s[k]>> \o SubSeq(s, 1, k - 1) \o SubSeq(s, k + 1, n)
<1> DEFINE u == MovedFirst(k, s, n)
           a == SubSeq(s, 1, k - 1)
           b == SubSeq(s, k + 1, n)
           w == <<s[k]>> \o a
           x == w \o b
<1>1. /\ u \in [1 .. n -> Pages] /\ u[1] = s[k]
      /\ \A i \in 2 .. k : u[i] = s[i - 1]
      /\ \A i \in k + 1 .. n : u[i] = s[i]
  BY DEF MovedFirst
<1>2. u \in Seq(Pages) /\ Len(u) = n
  BY <1>1, OrderIsSeq
<1>3. /\ a \in Seq(Pages) /\ Len(a) = k - 1
      /\ \A i \in 1 .. k - 1 : a[i] = s[i]
  <2>1. \A i \in 1 .. k - 1 : s[i] \in Pages
    OBVIOUS
  <2>2. /\ a \in Seq(Pages)
        /\ Len(a) = IF 1 <= k - 1 THEN k - 1 - 1 + 1 ELSE 0
        /\ \A i \in 1 .. k - 1 - 1 + 1 : a[i] = s[1 + i - 1]
    BY <2>1, SubSeqProperties
  <2> HIDE DEF a
  <2> QED
    BY <2>2
<1>4. /\ b \in Seq(Pages) /\ Len(b) = n - k
      /\ \A i \in 1 .. n - k : b[i] = s[k + i]
  <2>1. \A i \in k + 1 .. n : s[i] \in Pages
    OBVIOUS
  <2>2. /\ b \in Seq(Pages)
        /\ Len(b) = IF k + 1 <= n THEN n - (k + 1) + 1 ELSE 0
        /\ \A i \in 1 .. n - (k + 1) + 1 : b[i] = s[k + 1 + i - 1]
    BY <2>1, SubSeqProperties
  <2> HIDE DEF b
  <2> QED
    BY <2>2
<1> HIDE DEF u, a, b
<1>5. /\ w \in Seq(Pages) /\ Len(w) = k /\ w[1] = s[k]
      /\ \A i \in 2 .. k : w[i] = s[i - 1]
  <2>1. <<s[k]>> \in Seq(Pages) /\ Len(<<s[k]>>) = 1 /\ <<s[k]>>[1] = s[k]
    OBVIOUS
  <2>2. /\ w \in Seq(Pages) /\ Len(w) = 1 + (k - 1)
        /\ \A i \in 1 .. 1 + (k - 1) : w[i] = IF i <= 1 THEN <<s[k]>>[i] ELSE a[i - 1]
    BY <1>3, <2>1, ConcatProperties
  <2> HIDE DEF w
  <2> QED
    BY <1>3, <2>1, <2>2
<1> HIDE DEF w
<1>6. /\ x \in Seq(Pages) /\ Len(x) = n
      /\ \A i \in 1 .. n : x[i] = IF i <= k THEN w[i] ELSE b[i - k]
  <2>1. /\ x \in Seq(Pages) /\ Len(x) = k + (n - k)
        /\ \A i \in 1 .. k + (n - k) : x[i] = IF i <= k THEN w[i] ELSE b[i - k]
    BY <1>4, <1>5, ConcatProperties
  <2> HIDE DEF x
  <2> QED
    BY <2>1
<1> HIDE DEF x
<1>7. \A i \in 1 .. n : x[i] = u[i]
  <2> SUFFICES ASSUME NEW i \in 1 .. n PROVE x[i] = u[i]
    OBVIOUS
  <2>1. CASE i <= k
    BY <1>1, <1>5, <1>6, <2>1
  <2>2. CASE i > k
    <3>1. i - k \in 1 .. n - k /\ k + (i - k) = i /\ i \in k + 1 .. n
      BY <2>2
    <3>2. b[i - k] = s[i]
      BY <1>4, <3>1
    <3> QED
      BY <1>1, <1>6, <2>2, <3>1, <3>2
  <2> QED
    BY <2>1, <2>2
<1>8. x = u
  BY <1>2, <1>6, <1>7, SeqEqual
<1> QED
  BY <1>8 DEF x, w, u, a, b

----------------------------------------------------------------------------
(* PagedKVCache implements TieredStore.                                    *)

\* An idle cache is between calls; the page rows are copied to is the most
\* recently used one.
CallShape ==
  /\ call.pc = "idle" <=> call.op = "none"
  /\ call.pc = "copy" => call.op = "save" /\ lru_head = call.page

\* Nothing happens between the touch of the page and the copy.
LEMMA NextKeepsCallShape ==
  ASSUME IInv, CallShape, [Next]_vars PROVE CallShape'
<1>1. TypeOK
  BY DEF IInv
<1>2. CASE Client
  <2>1. ASSUME NEW l, NEW pos, NEW token, BeginSave(l, pos, token) PROVE CallShape'
    BY <2>1 DEF BeginSave, Idle, CallShape
  <2>2. ASSUME NEW start, NEW end, EnsurePagesHot(start, end) PROVE CallShape'
    BY <2>2 DEF EnsurePagesHot, Idle, CallShape
  <2>3. CASE Advance \/ Reset
    BY <2>3 DEF Advance, Reset, lru, CallShape
  <2> QED
    BY <1>2, <2>1, <2>2, <2>3 DEF Client, Save, SaveAt
<1>3. CASE EvictOnePage \/ AllocHotPage \/ ReloadColdPage \/ CopyRows
  BY <1>1, <1>3 DEF EvictOnePage, AllocHotPage, ReloadColdPage, CopyRows, Idle, CallShape,
                    TypeOK, Calls
<1>4. CASE TouchPage
  <2>1. lru_head' = call.page /\ call' = AfterEnsurePage /\ call.pc # "idle"
    BY <1>4, TouchKeepsInvariant DEF TouchPage
  <2> QED
    BY <1>1, <2>1 DEF AfterEnsurePage, Idle, CallShape, TypeOK, Calls
<1>5. CASE UNCHANGED vars
  BY <1>5 DEF vars, lru, CallShape
<1> QED
  BY <1>2, <1>3, <1>4, <1>5 DEF Next, Step

\* The order as the sequence the abstract store keeps.
LEMMA RecencySeq ==
  ASSUME IInv
  PROVE  /\ hot_count \in Nat /\ Recency \in [1 .. hot_count -> Pages]
         /\ Recency \in Seq(Pages) /\ Len(Recency) = hot_count /\ DOMAIN Recency = 1 .. hot_count
         /\ hot_count # 0 => Recency # <<>> /\ Head(Recency) = Recency[1]
<1>1. hot_count \in Nat /\ Recency \in [1 .. hot_count -> Pages]
  BY RecencyLists DEF IInv, TypeOK
<1>2. Recency \in Seq(Pages) /\ Len(Recency) = hot_count /\ DOMAIN Recency = 1 .. hot_count
  BY <1>1, OrderIsSeq
<1> DEFINE r == Recency
<1>3. r \in Seq(Pages) /\ Len(r) = hot_count
  BY <1>2
<1> HIDE DEF r
<1>4. hot_count # 0 => r # <<>> /\ Head(r) = r[1]
  BY <1>3
<1> QED
  BY <1>1, <1>2, <1>4 DEF r

\* Every step of the cache is a step of the store, or none.
LEMMA StepImplements ==
  ASSUME IInv, CallShape, [Next]_vars
  PROVE  [Tier!Next]_<<Stored, Recency>>
<1> DEFINE r == Recency
           n == hot_count
<1>1. /\ n \in Nat /\ r \in [1 .. n -> Pages]
      /\ r \in Seq(Pages) /\ Len(r) = n /\ DOMAIN r = 1 .. n
      /\ n # 0 => r # <<>> /\ Head(r) = r[1]
  BY RecencySeq
<1>2. RamPageLimit \in Nat \ {0} /\ Tier!Pages = Pages /\ Tier!Positions = Positions
  BY SizesAssumption DEF Tier!Pages, Pages, Tier!Positions, Positions
<1>3. TypeOK /\ LruListsHotPages /\ CallPrepared
  BY DEF IInv
<1>4. CASE Client \/ UNCHANGED vars
  <2>1. UNCHANGED <<pages, lru, hot_count, cold_file>>
    BY <1>4 DEF Client, Save, SaveAt, BeginSave, EnsurePagesHot, Advance, Reset, vars
  <2>2. HotPages' = HotPages
    BY <2>1 DEF HotPages, pages
  <2> QED
    BY <2>1, <2>2, SameRecency, SamePagesSameStored
<1>5. CASE EvictOnePage
  <2>1. n = RamPageLimit /\ Recency' = WithoutLast(r, n)
    BY <1>5, EvictKeepsInvariant
  <2>2. Recency' = SubSeq(r, 1, n - 1)
    BY <1>1, <1>2, <2>1, WithoutLastIsSubSeq
  <2>3. Stored' = Stored
    BY <1>5, EvictKeepsStored
  <2>4. Tier!EvictLeastRecent
    BY <1>1, <1>2, <2>1, <2>2, <2>3 DEF Tier!EvictLeastRecent
  <2> QED
    BY <2>4 DEF Tier!Next
<1>6. ASSUME NEW p \in Pages \ HotPages, n < RamPageLimit,
             Recency' = WithFirst(p, r, n), Stored' = Stored
      PROVE  Tier!Next
  <2>1. \A i \in 1 .. n : r[i] # p
    BY <1>3, <1>6, RecencyLists
  <2>2. Recency' = <<p>> \o r
    BY <1>1, <1>6, WithFirstIsConcat
  <2>3. Tier!Bring(p)
    BY <1>1, <1>6, <2>1, <2>2 DEF Tier!Bring, Tier!InMemory
  <2> QED
    BY <1>2, <2>3 DEF Tier!Next
<1>7. CASE AllocHotPage
  BY <1>6, <1>7, AllocKeepsInvariant, AllocKeepsStored
<1>8. CASE ReloadColdPage
  BY <1>6, <1>8, ReloadKeepsInvariant, ReloadKeepsStored
<1>9. CASE TouchPage
  <2>1. PICK k \in 1 .. n : r[k] = call.page /\ Recency' = MovedFirst(k, r, n)
    BY <1>9, TouchKeepsInvariant
  <2>2. Recency' = <<call.page>> \o SubSeq(r, 1, k - 1) \o SubSeq(r, k + 1, Len(r))
    BY <1>1, <2>1, MovedFirstIsConcat
  <2>3. Stored' = Stored
    BY <1>9, SamePagesSameStored DEF TouchPage
  <2>4. Tier!Use(call.page)
    BY <1>1, <2>1, <2>2, <2>3 DEF Tier!Use
  <2>5. call.page \in Pages
    BY <1>3 DEF TypeOK, Calls
  <2> QED
    BY <1>2, <2>4, <2>5 DEF Tier!Next
<1>10. CASE CopyRows
  <2> DEFINE pos == BlockSize * call.page + call.slot
  <2>1. /\ call.layer \in Layers /\ pos \in Positions /\ call.token \in Tokens
        /\ page_id(pos) = call.page
        /\ Stored' = [Stored EXCEPT ![<<call.layer, pos>>] =
                         [k |-> <<"k", call.token>>, v |-> <<"v", call.token>>]]
    BY <1>10, CopyWritesOne
  <2>2. call.page \in HotPages /\ Recency' = r
    BY <1>10, CopyKeepsInvariant
  <2>3. lru_head = call.page
    BY <1>10 DEF CallShape, CopyRows
  <2>4. n # 0 /\ r[1] = call.page
    BY <1>3, <2>2, <2>3, RecencyLists
  <2> HIDE DEF pos
  <2>5. Tier!Write(call.layer, pos, call.token)
    BY <1>1, <2>1, <2>2, <2>4 DEF Tier!Write, page_id
  <2> QED
    BY <1>2, <2>1, <2>5 DEF Tier!Next
<1> QED
  BY <1>4, <1>5, <1>7, <1>8, <1>9, <1>10 DEF Next, Step

\* An empty cache is an empty store.
LEMMA InitImplements == Init => Tier!Init
<1> SUFFICES ASSUME Init PROVE Tier!Init
  OBVIOUS
<1>1. IInv /\ hot_count = 0 /\ num_pages = 0
  BY InitInvariant DEF Init
<1>2. Recency = <<>>
  <2>1. Recency \in Seq(Pages) /\ Len(Recency) = 0
    BY <1>1, RecencySeq
  <2> DEFINE r == Recency
  <2>2. r \in Seq(Pages) /\ Len(r) = 0
    BY <2>1
  <2> HIDE DEF r
  <2>3. r = <<>>
    BY <2>2, EmptySeq
  <2> QED
    BY <2>3 DEF r
<1>3. ASSUME NEW l \in Layers, NEW u \in Positions
      PROVE  Stored[<<l, u>>] = [k |-> Zero, v |-> Zero]
  <2>1. /\ page_id(u) \in Pages /\ page_id(u) >= num_pages
        /\ <<l, slot_in_page(u)>> \in Cells
    BY <1>1, PositionIsSlot, SizesAssumption DEF Pages, Cells
  <2> QED
    BY <2>1 DEF Stored, Contents
<1>4. Stored = [c \in Layers \X Tier!Positions |-> [k |-> Zero, v |-> Zero]]
  <2>1. Stored = [c \in Layers \X Positions |-> Stored[c]]
    BY DEF Stored
  <2>2. \A c \in Layers \X Positions : Stored[c] = [k |-> Zero, v |-> Zero]
    BY <1>3
  <2>3. Tier!Positions = Positions
    BY DEF Tier!Positions, Positions
  <2> QED
    BY <2>1, <2>2, <2>3
<1> QED
  BY <1>2, <1>4 DEF Tier!Init

----------------------------------------------------------------------------
(* The store as the client knows it: the save in progress counts as made.  *)

SavedRows(token) == [k |-> <<"k", token>>, v |-> <<"v", token>>]

Promised ==
  IF call.op = "save"
  THEN [Stored EXCEPT ![<<call.layer, BlockSize * call.page + call.slot>>] = SavedRows(call.token)]
  ELSE Stored

\* No step of a call changes it: what a save promises is what its copy writes.
LEMMA StepKeepsPromise ==
  ASSUME IInv, CallShape, Step PROVE Promised' = Promised
<1>1. TypeOK
  BY DEF IInv
<1>2. CASE CopyRows
  <2>1. call.op = "save" /\ call'.op = "none"
    BY <1>2 DEF CopyRows, CallShape, Idle
  <2>2. Stored' = [Stored EXCEPT ![<<call.layer, BlockSize * call.page + call.slot>>] =
                     SavedRows(call.token)]
    BY <1>2, CopyWritesOne DEF SavedRows
  <2> QED
    BY <2>1, <2>2 DEF Promised
<1>3. CASE EvictOnePage \/ AllocHotPage \/ ReloadColdPage
  <2>1. Stored' = Stored
    BY <1>3, EvictKeepsStored, AllocKeepsStored, ReloadKeepsStored
  <2>2. UNCHANGED <<call.op, call.layer, call.page, call.slot, call.token>>
    BY <1>1, <1>3 DEF EvictOnePage, AllocHotPage, ReloadColdPage, TypeOK, Calls
  <2> QED
    BY <2>1, <2>2 DEF Promised
<1>4. CASE TouchPage
  <2>1. Stored' = Stored
    BY <1>4, SamePagesSameStored DEF TouchPage
  <2>2. CASE call.op = "save"
    <3>1. UNCHANGED <<call.op, call.layer, call.page, call.slot, call.token>>
      BY <1>1, <1>4, <2>2 DEF TouchPage, AfterEnsurePage, TypeOK, Calls
    <3> QED
      BY <2>1, <3>1 DEF Promised
  <2>3. CASE call.op # "save"
    <3>1. call'.op # "save"
      BY <1>1, <1>4, <2>3 DEF TouchPage, AfterEnsurePage, Idle, TypeOK, Calls
    <3> QED
      BY <2>1, <2>3, <3>1 DEF Promised
  <2> QED
    BY <2>2, <2>3
<1> QED
  BY <1>2, <1>3, <1>4 DEF Step

\* A save begun promises its rows at its position.
LEMMA SavePromises ==
  ASSUME CallShape, NEW l \in Layers, NEW pos \in Positions, NEW token, BeginSave(l, pos, token)
  PROVE  Promised' = [Promised EXCEPT ![<<l, pos>>] = SavedRows(token)]
<1>1. /\ call.op # "save"
      /\ call'.op = "save" /\ call'.layer = l /\ call'.token = token
      /\ call'.page = page_id(pos) /\ call'.slot = slot_in_page(pos)
  BY DEF BeginSave, ClientMayCall, CallShape, Idle
<1>2. Stored' = Stored
  BY SamePagesSameStored DEF BeginSave
<1>3. BlockSize * call'.page + call'.slot = pos
  BY <1>1, PositionIsSlot
<1> QED
  BY <1>1, <1>2, <1>3 DEF Promised

\* ensure_pages_hot promises nothing.
LEMMA EnsurePromisesNothing ==
  ASSUME CallShape, NEW start, NEW end, EnsurePagesHot(start, end) PROVE Promised' = Promised
<1>1. call.op # "save" /\ call'.op # "save"
  BY DEF EnsurePagesHot, ClientMayCall, CallShape, Idle
<1>2. Stored' = Stored
  BY SamePagesSameStored DEF EnsurePagesHot
<1> QED
  BY <1>1, <1>2 DEF Promised

----------------------------------------------------------------------------
(* The theorems.                                                           *)

\* A step of the cache or of its client keeps IInv.
LEMMA NextKeepsInvariant ==
  ASSUME IInv, [Next]_vars PROVE IInv'
<1>1. CASE Client
  BY <1>1, ClientKeepsInvariant
<1>2. CASE EvictOnePage
  BY <1>2, EvictKeepsInvariant
<1>3. CASE AllocHotPage
  BY <1>3, AllocKeepsInvariant
<1>4. CASE ReloadColdPage
  BY <1>4, ReloadKeepsInvariant
<1>5. CASE TouchPage
  BY <1>5, TouchKeepsInvariant
<1>6. CASE CopyRows
  BY <1>6, CopyKeepsInvariant
<1>7. CASE UNCHANGED vars
  <2>1. TypeOK' /\ CallPrepared'
    BY <1>7 DEF IInv, vars, pages, lru, TypeOK, CallPrepared, MissingPage, ColdPage, AtLimit,
                HotPages
  <2> QED
    BY <1>7, <2>1, SamePagesKeepInvariant DEF vars
<1> QED
  BY <1>1, <1>2, <1>3, <1>4, <1>5, <1>6, <1>7 DEF Next, Step

\* Every reachable state, inside calls and between them, satisfies IInv.
LEMMA PagingInvariant == Spec => []IInv
  BY InitInvariant, NextKeepsInvariant, PTL DEF Spec

\* The cache's state keeps its types: no page number leaves the table, no
\* half record of the file is anything but page data.
THEOREM TypeCorrect == Spec => []TypeOK
<1>1. IInv => TypeOK
  BY DEF IInv
<1> QED
  BY <1>1, PagingInvariant, PTL

\* alloc_hot_page, evict_one_page, reload_cold_page and touch_lru keep the LRU
\* list a doubly linked list of exactly the pages in memory.
THEOREM ListCorrect == Spec => []LruListsHotPages
<1>1. IInv => LruListsHotPages
  BY DEF IInv
<1> QED
  BY <1>1, PagingInvariant, PTL

\* At no point inside any call are there more pages in memory than
\* ram_page_limit, and hot_count counts them.
THEOREM MemoryBounded == Spec => []MemoryBound
<1>1. IInv => MemoryBound
  BY HotCount DEF IInv, MemoryBound
<1> QED
  BY <1>1, PagingInvariant, PTL

\* Pointers, page states and file agree: a cold page has no buffers and a whole
\* record of its own in the file, a hot page has both buffers.
THEOREM TableCorrect == Spec => []PageTableConsistent
<1>1. IInv => PageTableConsistent
  BY DEF IInv
<1> QED
  BY <1>1, PagingInvariant, PTL

\* Every step of a call finds what the steps before it prepared: the eviction
\* that ensure_page and reload_cold_page make first does free a page, and never
\* the page the call is about.
THEOREM CallsArePrepared == Spec => []CallPrepared
<1>1. IInv => CallPrepared
  BY DEF IInv
<1> QED
  BY <1>1, PagingInvariant, PTL

\* ensure_pages_hot on a range that fits in memory leaves none of it behind:
\* the pages it has been through are the newest, so the evictions that make
\* room for the rest of the range never reach them.
THEOREM RangeStaysHot == Spec => EnsuredRangeHot
<1>1. Init => RangeInv
  BY DEF Init, Idle, RangeInv
<1>2. IInv /\ RangeInv /\ [Next]_vars => RangeInv'
  <2>1. CASE UNCHANGED vars
    BY <2>1, SameCallKeepsRange DEF vars
  <2> QED
    BY <2>1, ClientKeepsRange, StepKeepsRange DEF Next
<1>3. IInv /\ RangeInv /\ [Next]_vars =>
        [EnsureReturns /\ call.last - call.first < RamPageLimit =>
           \A p \in call.first .. call.last : p \in HotPages']_vars
  <2> SUFFICES ASSUME IInv, RangeInv, Next, EnsureReturns, call.last - call.first < RamPageLimit
               PROVE  \A p \in call.first .. call.last : p \in HotPages'
    BY DEF vars
  <2>1. CASE Step
    BY <2>1, StepKeepsRange
  <2>2. CASE Client
    <3>1. call.op # "ensure_pages_hot"
      BY <2>2 DEF RangeInv, Client, Save, SaveAt, BeginSave, EnsurePagesHot, Advance, Reset, ClientMayCall
    <3> QED
      BY <3>1 DEF EnsureReturns
  <2> QED
    BY <2>1, <2>2 DEF Next
<1> QED
  BY <1>1, <1>2, <1>3, PagingInvariant, PTL DEF Spec, EnsuredRangeHot

----------------------------------------------------------------------------
(* How long a call takes.                                                  *)

\* A call that is not past the end of its range.
InOrder(c) == c.page <= RangeEnd(c)

\* What is left of a call, by where it is.
LEMMA StepsAt ==
  ASSUME NEW c \in Calls, NEW n \in Nat
  PROVE  LET rest == 2 * PagesToAdd(c, n) + 3 * (RangeEnd(c) - c.page)
         IN  /\ c.pc = "idle" => StepsOf(c, n) = 0
             /\ c.pc = "ensure" => StepsOf(c, n) = rest + 4
             /\ c.pc \in {"alloc", "reload"} => StepsOf(c, n) = rest + 3
             /\ c.pc = "touch" => StepsOf(c, n) = rest + 2
             /\ c.pc = "copy" => StepsOf(c, n) = rest + 1
BY DEF StepsOf

\* The numbers it is made of.
LEMMA CallNumbers ==
  ASSUME NEW c \in Calls, NEW n \in Nat
  PROVE  /\ c.page \in Nat /\ c.last \in Nat /\ RangeEnd(c) \in Nat /\ PagesToAdd(c, n) \in Nat
         /\ c.pc \in {"idle", "ensure", "alloc", "reload", "touch", "copy"}
         /\ InOrder(c) => StepsOf(c, n) \in Nat
<1>1. /\ c.page \in Nat /\ c.last \in Nat
      /\ c.pc \in {"idle", "ensure", "alloc", "reload", "touch", "copy"}
  BY SizesAssumption DEF Calls, Pages
<1>2. RangeEnd(c) \in Nat
  BY <1>1 DEF RangeEnd
<1>3. PagesToAdd(c, n) \in Nat
  BY <1>2 DEF PagesToAdd
<1>4. InOrder(c) => StepsOf(c, n) \in Nat
  BY <1>1, <1>2, <1>3, StepsAt DEF InOrder
<1> QED
  BY <1>1, <1>2, <1>3, <1>4

\* A call is not past the end of its range.
LEMMA CallInOrder == TypeOK /\ RangeInv => InOrder(call)
BY SizesAssumption DEF TypeOK, Calls, Pages, RangeInv, InOrder, RangeEnd

\* Each step of a call leaves less.
LEMMA StepShortens ==
  ASSUME IInv, RangeInv, CallShape, Step
  PROVE  StepsLeft' < StepsLeft
<1> DEFINE n == num_pages  m == num_pages'
           Same(d) == d.op = call.op /\ d.page = call.page /\ d.last = call.last
<1>1. TypeOK /\ CallPrepared /\ TypeOK' /\ InOrder(call)
  BY NextKeepsInvariant, CallInOrder DEF IInv, Next
<1>2. call \in Calls /\ call' \in Calls /\ n \in Nat /\ m \in Nat
  BY <1>1, SizesAssumption DEF TypeOK
<1>3. /\ call.page \in Nat /\ RangeEnd(call) \in Nat /\ PagesToAdd(call, n) \in Nat
      /\ call.page <= RangeEnd(call)
  BY <1>1, <1>2, CallNumbers DEF InOrder
<1>4. Same(call') => RangeEnd(call') = RangeEnd(call) /\ (m = n => PagesToAdd(call', m) = PagesToAdd(call, n))
  BY DEF RangeEnd, PagesToAdd
<1> DEFINE rest == 2 * PagesToAdd(call, n) + 3 * (RangeEnd(call) - call.page)
<1>5. /\ rest \in Nat
      /\ call.pc = "ensure" => StepsOf(call, n) = rest + 4
      /\ call.pc \in {"alloc", "reload"} => StepsOf(call, n) = rest + 3
      /\ call.pc = "touch" => StepsOf(call, n) = rest + 2
      /\ call.pc = "copy" => StepsOf(call, n) = rest + 1
  BY <1>2, <1>3, StepsAt
<1> HIDE DEF Same, rest
<1>6. CASE EvictOnePage
  <2>1. call.pc = "ensure" /\ call'.pc \in {"alloc", "reload"} /\ m = n /\ Same(call')
    <3>1. /\ call.pc = "ensure" /\ m = n
          /\ call' = [call EXCEPT !.pc = IF MissingPage THEN "alloc" ELSE "reload"]
      BY <1>6 DEF EvictOnePage, pages
    <3> QED
      BY <1>1, <3>1 DEF TypeOK, Calls, Same
  <2>2. StepsOf(call', m) = rest + 3
    BY <1>2, <1>4, <2>1, StepsAt DEF rest, Same
  <2> QED
    BY <1>5, <2>1, <2>2 DEF StepsLeft
<1>7. CASE AllocHotPage
  <2>1. /\ call.pc \in {"alloc", "ensure"} /\ call.page >= n /\ m = n + 1
        /\ call'.pc = "ensure" /\ Same(call')
    BY <1>1, <1>7 DEF AllocHotPage, CallPrepared, MissingPage, TypeOK, Calls, Same
  <2>2. PagesToAdd(call', m) = PagesToAdd(call, n) - 1
    BY <1>2, <1>3, <1>4, <2>1 DEF PagesToAdd
  <2>3. StepsOf(call', m) = rest - 2 + 4
    BY <1>2, <1>3, <1>4, <2>1, <2>2, StepsAt DEF rest, Same
  <2> QED
    BY <1>5, <2>1, <2>3 DEF StepsLeft
<1>8. CASE ReloadColdPage
  <2>1. /\ call.pc \in {"reload", "ensure"} /\ m = n
        /\ call'.pc = "touch" /\ Same(call')
    BY <1>1, <1>8 DEF ReloadColdPage, TypeOK, Calls, Same
  <2>2. StepsOf(call', m) = rest + 2
    BY <1>2, <1>4, <2>1, StepsAt DEF rest, Same
  <2> QED
    BY <1>5, <2>1, <2>2 DEF StepsLeft
<1>9. CASE TouchPage
  <2>1. call.pc \in {"touch", "ensure"} /\ m = n /\ call' = AfterEnsurePage
    BY <1>9 DEF TouchPage, pages
  <2>2. CASE call.op = "save"
    <3>1. call'.pc = "copy" /\ Same(call')
      BY <1>1, <2>1, <2>2 DEF AfterEnsurePage, TypeOK, Calls, Same
    <3>2. StepsOf(call', m) = rest + 1
      BY <1>2, <1>4, <2>1, <3>1, StepsAt DEF rest, Same
    <3> QED
      BY <1>5, <2>1, <3>2 DEF StepsLeft
  <2>3. CASE call.op # "save" /\ call.page < call.last
    <3>1. /\ call'.pc = "ensure" /\ call'.op = call.op /\ call'.last = call.last
          /\ call'.page = call.page + 1
      BY <1>1, <2>1, <2>3 DEF AfterEnsurePage, TypeOK, Calls
    <3>2. call.op = "ensure_pages_hot"
      BY <1>1, <2>1, <2>3 DEF CallShape, TypeOK, Calls
    <3>3. RangeEnd(call') = RangeEnd(call) /\ PagesToAdd(call', m) = PagesToAdd(call, n)
      BY <2>1, <3>1, <3>2 DEF RangeEnd, PagesToAdd
    <3>4. StepsOf(call', m) = rest - 3 + 4
      BY <1>2, <1>3, <3>1, <3>3, StepsAt DEF rest
    <3> QED
      BY <1>5, <2>1, <3>4 DEF StepsLeft
  <2>4. CASE call.op # "save" /\ ~(call.page < call.last)
    <3>1. call'.pc = "idle"
      BY <2>1, <2>4 DEF AfterEnsurePage, Idle
    <3>2. StepsOf(call', m) = 0
      BY <1>2, <3>1, StepsAt
    <3> QED
      BY <1>5, <2>1, <3>2 DEF StepsLeft
  <2> QED
    BY <2>2, <2>3, <2>4
<1>10. CASE CopyRows
  <2>1. call.pc = "copy" /\ call'.pc = "idle"
    BY <1>10 DEF CopyRows, Idle
  <2>2. StepsOf(call', m) = 0
    BY <1>2, <2>1, StepsAt
  <2> QED
    BY <1>5, <2>1, <2>2 DEF StepsLeft
<1> QED
  BY <1>6, <1>7, <1>8, <1>9, <1>10 DEF Step

\* CallAdvances: whatever it finds in memory, each step of a call of the cache
\* brings its end nearer; with StepsLeft a natural number, every call is over
\* after that many.
THEOREM CallsAdvance == Spec => CallAdvances /\ [](StepsLeft \in Nat)
<1>1. Init => RangeInv
  BY DEF Init, Idle, RangeInv
<1>2. IInv /\ RangeInv /\ [Next]_vars => RangeInv'
  <2>1. CASE UNCHANGED vars
    BY <2>1, SameCallKeepsRange DEF vars
  <2> QED
    BY <2>1, ClientKeepsRange, StepKeepsRange DEF Next
<1>3. IInv /\ RangeInv /\ CallShape /\ [Next]_vars =>
        [call.pc # "idle" => StepsLeft' < StepsLeft]_vars
  <2> SUFFICES ASSUME IInv, RangeInv, CallShape, Next, call.pc # "idle" PROVE StepsLeft' < StepsLeft
    BY DEF vars
  <2>1. ~Client
    BY DEF Client, Save, SaveAt, BeginSave, EnsurePagesHot, Advance, Reset, ClientMayCall
  <2> QED
    BY <2>1, StepShortens DEF Next
<1>4. IInv /\ RangeInv => StepsLeft \in Nat
  <2> SUFFICES ASSUME IInv, RangeInv PROVE StepsLeft \in Nat
    OBVIOUS
  <2>1. call \in Calls /\ num_pages \in Nat
    BY SizesAssumption DEF IInv, TypeOK
  <2> QED
    BY <2>1, CallInOrder, CallNumbers DEF StepsLeft, IInv
<1>5. Init => CallShape
  BY DEF Init, Idle, CallShape
<1>6. IInv /\ CallShape /\ [Next]_vars => CallShape'
  BY NextKeepsCallShape
<1> QED
  BY <1>1, <1>2, <1>3, <1>4, <1>5, <1>6, PagingInvariant, PTL DEF Spec, CallAdvances

\* Paging is invisible: the cache is a store that reads back what was last
\* saved, and what leaves memory is the least recently used page, only when
\* memory is full.
THEOREM CacheImplementsTier == Spec => ImplementsTier
<1>1. Init => CallShape
  BY DEF Init, Idle, CallShape
<1>2. IInv /\ CallShape /\ [Next]_vars => CallShape'
  BY NextKeepsCallShape
<1>3. IInv /\ CallShape /\ [Next]_vars => [Tier!Next]_<<Stored, Recency>>
  BY StepImplements
<1> QED
  BY <1>1, <1>2, <1>3, InitImplements, PagingInvariant, PTL
  DEF Spec, ImplementsTier, Tier!Spec
====
