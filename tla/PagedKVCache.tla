---- MODULE PagedKVCache ----
(***************************************************************************)
(* The tiered, paged KV cache of swamp-engine/src/cache.rs, as one request *)
(* owns it.  Every method takes &mut self, so calls do not overlap; a call *)
(* is played as the sequence of private functions it runs through          *)
(* (evict_one_page, alloc_hot_page, reload_cold_page, touch_lru, the copy  *)
(* of the rows), with call.pc saying which comes next.  No other call      *)
(* begins until the one in progress has returned.                          *)
(*                                                                         *)
(* A page is a table of cells (layer, slot), one for K and one for V; the  *)
(* kv_head dimension is abstracted, every head being copied alike.  A row  *)
(* is the token whose projection it is, tagged "k" or "v".  File offsets   *)
(* count half records: an evicted page is its K half then its V half.      *)
(***************************************************************************)
EXTENDS Integers, Sequences, FiniteSets

CONSTANTS
  Layers,          \* the model's layers
  Tokens,          \* what a saved row can hold
  BlockSize,       \* positions per page
  RamPageLimit,    \* pages allowed in memory (SWAMP_CACHE_RAM_MB)
  MaxPages,        \* bound: pages the client reaches
  MaxEvictions,    \* bound: the client stops calling after this many
  Zero,            \* what alloc_zeroed leaves in a cell
  Null             \* std::ptr::null_mut()

VARIABLES
  k_pages, v_pages,    \* page -> its cells, or Null when it is not in memory
  num_pages,           \* k_pages.len()
  page_state,          \* page -> Hot, or its offset in the cold file
  lru_prev, lru_next,  \* page -> its neighbours in the list, or None
  lru_head, lru_tail,
  hot_count,
  cold_file,           \* the half records of the cold file, in order
  current_pos,
  call                 \* the call in progress

pages == <<k_pages, v_pages, num_pages, page_state>>
lru   == <<lru_prev, lru_next, lru_head, lru_tail>>
vars  == <<pages, lru, hot_count, cold_file, current_pos, call>>

Pages     == 0 .. MaxPages - 1
Positions == 0 .. MaxPages * BlockSize - 1
Slots     == 0 .. BlockSize - 1
Cells     == Layers \X Slots
Rows      == {Zero} \cup ({"k", "v"} \X Tokens)
PageData  == [Cells -> Rows]

None == -1
Hot  == -1     \* page_state of a page in memory; Cold(offset) is the offset

ASSUME SizesAssumption ==
  /\ BlockSize \in Nat \ {0}
  /\ RamPageLimit \in Nat \ {0}
  /\ MaxPages \in Nat \ {0}
  /\ MaxEvictions \in Nat

ASSUME NullAssumption == Null \notin PageData

ASSUME NonEmptyAssumption == Layers # {} /\ Tokens # {}

page_id(pos) == pos \div BlockSize

\* Variant: the quotient for the remainder.
slot_in_page_Quotient(pos) == pos \div BlockSize

slot_in_page(pos) == pos % BlockSize

HotPages == {p \in Pages : p < num_pages /\ page_state[p] = Hot}

Idle == [pc |-> "idle", op |-> "none", first |-> 0, page |-> 0, last |-> 0,
         layer |-> CHOOSE l \in Layers : TRUE, slot |-> 0,
         token |-> CHOOSE t \in Tokens : TRUE]

Calls == [pc : {"idle", "ensure", "alloc", "reload", "touch", "copy"},
          op : {"none", "save", "ensure_pages_hot"},
          first : Pages, page : Pages, last : Pages,
          layer : Layers, slot : Slots, token : Tokens]

TypeOK ==
  /\ k_pages \in [Pages -> PageData \cup {Null}]
  /\ v_pages \in [Pages -> PageData \cup {Null}]
  /\ num_pages \in 0 .. MaxPages
  /\ page_state \in [Pages -> Nat \cup {Hot}]
  /\ lru_prev \in [Pages -> Pages \cup {None}]
  /\ lru_next \in [Pages -> Pages \cup {None}]
  /\ lru_head \in Pages \cup {None}
  /\ lru_tail \in Pages \cup {None}
  /\ hot_count \in Nat
  /\ cold_file \in Seq(PageData)
  /\ current_pos \in 0 .. MaxPages * BlockSize
  /\ call \in Calls

----------------------------------------------------------------------------
\* with_block_size: no page, an empty list, no cold file yet.
Init ==
  /\ k_pages = [p \in Pages |-> Null]
  /\ v_pages = [p \in Pages |-> Null]
  /\ num_pages = 0
  /\ page_state = [p \in Pages |-> Hot]
  /\ lru_prev = [p \in Pages |-> None]
  /\ lru_next = [p \in Pages |-> None]
  /\ lru_head = None
  /\ lru_tail = None
  /\ hot_count = 0
  /\ cold_file = <<>>
  /\ current_pos = 0
  /\ call = Idle

----------------------------------------------------------------------------
(* The client's calls.                                                     *)

\* Bound: an idle client stops once the cold file holds MaxEvictions pages.
ClientMayCall == call.pc = "idle" /\ Len(cold_file) < 2 * MaxEvictions

BeginSave(l, pos, t) ==
  /\ ClientMayCall
  /\ page_id(pos) \in Pages
  /\ call' = [Idle EXCEPT !.pc = "ensure", !.op = "save", !.page = page_id(pos),
                          !.layer = l, !.slot = slot_in_page(pos), !.token = t]
  /\ UNCHANGED <<pages, lru, hot_count, cold_file, current_pos>>

Save(l, t)        == BeginSave(l, current_pos, t)
SaveAt(l, pos, t) == BeginSave(l, pos, t)

EnsurePagesHot(start, end) ==
  /\ ClientMayCall
  /\ call' = [Idle EXCEPT !.pc = "ensure", !.op = "ensure_pages_hot",
                          !.first = start, !.page = start, !.last = end]
  /\ UNCHANGED <<pages, lru, hot_count, cold_file, current_pos>>

Advance ==
  /\ call.pc = "idle"
  /\ current_pos < MaxPages * BlockSize
  /\ current_pos' = current_pos + 1
  /\ UNCHANGED <<pages, lru, hot_count, cold_file, call>>

\* Only the position is reset: pages, list and cold file stay.
Reset ==
  /\ call.pc = "idle"
  /\ current_pos' = 0
  /\ UNCHANGED <<pages, lru, hot_count, cold_file, call>>

----------------------------------------------------------------------------
(* The LRU list.                                                           *)

\* The links around p closed up, its own links untouched.
UnlinkNext(p) == [q \in Pages |-> IF q = lru_prev[p] THEN lru_next[p] ELSE lru_next[q]]

\* Variant: the page after p keeps pointing at p.
UnlinkPrev_Forgotten(p) == lru_prev

UnlinkPrev(p) == [q \in Pages |-> IF q = lru_next[p] THEN lru_prev[p] ELSE lru_prev[q]]

TailWithout(p) == IF lru_tail = p THEN lru_prev[p] ELSE lru_tail

\* Variant: the first page of an empty list is not made its tail.
InsertAtHead_NoTail(p) ==
  /\ lru_prev' = [q \in Pages |-> IF q = lru_head THEN p
                                  ELSE IF q = p THEN None ELSE lru_prev[q]]
  /\ lru_next' = [lru_next EXCEPT ![p] = lru_head]
  /\ lru_head' = p
  /\ UNCHANGED lru_tail

\* The code repeated at the end of alloc_hot_page and reload_cold_page.
InsertAtHead(p) ==
  /\ lru_prev' = [q \in Pages |-> IF q = lru_head THEN p
                                  ELSE IF q = p THEN None ELSE lru_prev[q]]
  /\ lru_next' = [lru_next EXCEPT ![p] = lru_head]
  /\ lru_head' = p
  /\ lru_tail' = IF lru_tail = None THEN p ELSE lru_tail

RemoveFromLru(p) ==
  /\ lru_prev' = [UnlinkPrev(p) EXCEPT ![p] = None]
  /\ lru_next' = [UnlinkNext(p) EXCEPT ![p] = None]
  /\ lru_head' = IF lru_head = p THEN lru_next[p] ELSE lru_head
  /\ lru_tail' = TailWithout(p)

MoveToHead(p) ==
  /\ lru_prev' = [q \in Pages |-> IF q = lru_head THEN p
                                  ELSE IF q = p THEN None ELSE UnlinkPrev(p)[q]]
  /\ lru_next' = [UnlinkNext(p) EXCEPT ![p] = lru_head]
  /\ lru_head' = p
  /\ lru_tail' = IF TailWithout(p) = None THEN p ELSE TailWithout(p)

\* Variant: first in, first out.
TouchLru_Fifo(p) == UNCHANGED lru

TouchLru(p) == IF lru_head = p THEN UNCHANGED lru ELSE MoveToHead(p)

----------------------------------------------------------------------------
(* The private functions a call runs through.                              *)

MissingPage == call.page >= num_pages
ColdPage    == ~MissingPage /\ page_state[call.page] # Hot

\* Variant: room is made once memory is past its limit.
AtLimit_Past == hot_count > RamPageLimit

AtLimit == hot_count >= RamPageLimit

\* Variant: the most recently used page goes.
Victim_Newest == lru_head

Victim == lru_tail

\* Variant: every record goes to the start of the file.
ColdOffset_Start == 0

\* Where evict_one_page's record begins: the end of the file.
ColdOffset == Len(cold_file)

\* evict_one_page, called by ensure_page before an allocation and by
\* reload_cold_page before a reload.  Nothing happens on an empty list.
EvictOnePage ==
  /\ call.pc = "ensure"
  /\ MissingPage \/ ColdPage
  /\ AtLimit
  /\ call' = [call EXCEPT !.pc = IF MissingPage THEN "alloc" ELSE "reload"]
  /\ IF Victim = None
     THEN UNCHANGED <<pages, lru, hot_count, cold_file>>
     ELSE /\ page_state' = [page_state EXCEPT ![Victim] = ColdOffset]
          /\ cold_file' = cold_file \o <<k_pages[Victim], v_pages[Victim]>>
          /\ hot_count' = hot_count - 1
          /\ RemoveFromLru(Victim)
          /\ k_pages' = [k_pages EXCEPT ![Victim] = Null]
          /\ v_pages' = [v_pages EXCEPT ![Victim] = Null]
          /\ UNCHANGED num_pages
  /\ UNCHANGED current_pos

\* One round of ensure_page's while loop, past its eviction.
AllocHotPage ==
  /\ call.pc = "alloc" \/ (call.pc = "ensure" /\ MissingPage /\ ~AtLimit)
  /\ k_pages' = [k_pages EXCEPT ![num_pages] = [c \in Cells |-> Zero]]
  /\ v_pages' = [v_pages EXCEPT ![num_pages] = [c \in Cells |-> Zero]]
  /\ page_state' = [page_state EXCEPT ![num_pages] = Hot]
  /\ num_pages' = num_pages + 1
  /\ hot_count' = hot_count + 1
  /\ InsertAtHead(num_pages)
  /\ call' = [call EXCEPT !.pc = "ensure"]
  /\ UNCHANGED <<cold_file, current_pos>>

\* Variant: V is read from where K was.
ReadHalf_SameOffset(offset, half) == cold_file[offset + 1]

ReadHalf(offset, half) == cold_file[offset + half]

\* reload_cold_page past its eviction: both halves are read back at the
\* offset page_state remembers.
ReloadColdPage ==
  LET offset == page_state[call.page] IN
  /\ call.pc = "reload" \/ (call.pc = "ensure" /\ ColdPage /\ ~AtLimit)
  /\ k_pages' = [k_pages EXCEPT ![call.page] = ReadHalf(offset, 1)]
  /\ v_pages' = [v_pages EXCEPT ![call.page] = ReadHalf(offset, 2)]
  /\ page_state' = [page_state EXCEPT ![call.page] = Hot]
  /\ hot_count' = hot_count + 1
  /\ InsertAtHead(call.page)
  /\ call' = [call EXCEPT !.pc = "touch"]
  /\ UNCHANGED <<num_pages, cold_file, current_pos>>

\* Variant: the loop over the range does not move on.
AfterEnsurePage_SamePage ==
  IF call.op = "save" THEN [call EXCEPT !.pc = "copy"]
  ELSE IF call.page < call.last THEN [call EXCEPT !.pc = "ensure"] ELSE Idle

\* What the call does once ensure_page has returned: save copies its rows,
\* ensure_pages_hot goes on to the next page of its range or returns.
AfterEnsurePage ==
  IF call.op = "save" THEN [call EXCEPT !.pc = "copy"]
  ELSE IF call.page < call.last
       THEN [call EXCEPT !.pc = "ensure", !.page = call.page + 1]
       ELSE Idle

\* The end of ensure_page: the page is in memory and becomes the newest.
TouchPage ==
  /\ \/ call.pc = "touch"
     \/ call.pc = "ensure" /\ ~MissingPage /\ ~ColdPage
  /\ TouchLru(call.page)
  /\ call' = AfterEnsurePage
  /\ UNCHANGED <<pages, hot_count, cold_file, current_pos>>

\* The rows of save and save_at, written at (layer, slot) of the page.
CopyRows ==
  /\ call.pc = "copy"
  /\ k_pages' = [k_pages EXCEPT ![call.page][<<call.layer, call.slot>>] = <<"k", call.token>>]
  /\ v_pages' = [v_pages EXCEPT ![call.page][<<call.layer, call.slot>>] = <<"v", call.token>>]
  /\ call' = Idle
  /\ UNCHANGED <<num_pages, page_state, lru, hot_count, cold_file, current_pos>>

Step ==
  \/ EvictOnePage
  \/ AllocHotPage
  \/ ReloadColdPage
  \/ TouchPage
  \/ CopyRows

Client ==
  \/ \E l \in Layers, t \in Tokens : Save(l, t)
  \/ \E l \in Layers, pos \in Positions, t \in Tokens : SaveAt(l, pos, t)
  \/ \E start \in Pages : \E end \in start .. MaxPages - 1 : EnsurePagesHot(start, end)
  \/ Advance
  \/ Reset

Next == Client \/ Step

Spec == Init /\ [][Next]_vars

\* A call is a plain function: once begun it keeps executing.
FairSpec == Spec /\ WF_vars(Step)

----------------------------------------------------------------------------
(* Properties.                                                             *)

\* s lists the pages in memory from the most to the least recently used one,
\* and the four pieces of the list spell exactly s.
IsLruOrder(s) ==
  /\ HotPages = {s[i] : i \in 1 .. hot_count}
  /\ \A i, j \in 1 .. hot_count : s[i] = s[j] => i = j
  /\ lru_head = IF hot_count = 0 THEN None ELSE s[1]
  /\ lru_tail = IF hot_count = 0 THEN None ELSE s[hot_count]
  /\ \A i \in 1 .. hot_count :
       /\ lru_prev[s[i]] = IF i = 1 THEN None ELSE s[i - 1]
       /\ lru_next[s[i]] = IF i = hot_count THEN None ELSE s[i + 1]

\* "Only Hot pages are in the list" (the comment on the LRU fields), and all of
\* them, once each: alloc_hot_page, reload_cold_page, touch_lru and
\* remove_from_lru keep head, tail and both link arrays a doubly linked list
\* of hot_count pages.
LruListsHotPages ==
  /\ \E s \in [1 .. hot_count -> Pages] : IsLruOrder(s)
  /\ \A p \in Pages \ HotPages : lru_prev[p] = None /\ lru_next[p] = None

\* The pages in memory never outnumber ram_page_limit, at any point inside a
\* call, and hot_count counts them: every path of ensure_page that brings a
\* page in has first made room.
MemoryBound == hot_count = Cardinality(HotPages) /\ hot_count <= RamPageLimit

PageConsistent(p) ==
  /\ (k_pages[p] # Null) = (p \in HotPages)
  /\ (v_pages[p] # Null) = (p \in HotPages)
  /\ (p < num_pages /\ p \notin HotPages) =>
       /\ page_state[p] % 2 = 0
       /\ page_state[p] + 2 <= Len(cold_file)
       /\ \A q \in Pages \ {p} : q < num_pages => page_state[q] # page_state[p]

\* A page has both its buffers or neither, it has them exactly when it is Hot,
\* and a Cold one remembers a whole record of the file that no other page
\* remembers: evict_one_page and reload_cold_page move pointers, state and
\* file together.
PageTableConsistent == \A p \in Pages : PageConsistent(p)

\* What a step of a call counts on, established by the steps before it and
\* undone by none of them: room for the page it brings in, a page that is still
\* in the file it is read from, a page in memory to copy the rows to.
CallPrepared ==
  /\ call.pc = "alloc" => MissingPage /\ ~AtLimit
  /\ call.pc = "reload" => ColdPage /\ ~AtLimit
  /\ call.pc \in {"touch", "copy"} => call.page \in HotPages

EnsureReturns == call.op = "ensure_pages_hot" /\ call'.pc = "idle"

\* ensure_pages_hot on a range that fits in memory returns with the whole
\* range in memory: no page it has touched is evicted by a later one.
EnsuredRangeHot ==
  [][EnsureReturns /\ call.last - call.first < RamPageLimit =>
       \A p \in call.first .. call.last : p \in HotPages']_vars

\* Every call returns: the loop of ensure_page and the eviction it makes
\* room with cannot chase each other forever.
CallReturns == (call.pc # "idle") ~> (call.pc = "idle")

\* What a call c has still to do at most when there are n pages: an eviction and
\* an allocation for each page it adds, an eviction, a reload and a touch for each
\* page of its range, and the copy.
RangeEnd(c) == IF c.op = "ensure_pages_hot" THEN c.last ELSE c.page

PagesToAdd(c, n) == IF RangeEnd(c) < n THEN 0 ELSE RangeEnd(c) + 1 - n

StepsOf(c, n) ==
  IF c.pc = "idle" THEN 0
  ELSE 2 * PagesToAdd(c, n) + 3 * (RangeEnd(c) - c.page)
       + [ensure |-> 4, alloc |-> 3, reload |-> 3, touch |-> 2, copy |-> 1][c.pc]

StepsLeft == StepsOf(call, num_pages)

\* Each step of a call brings its end nearer, whatever is in memory when it runs:
\* an eviction is always followed by the page it made room for, and no page the
\* loops have passed is come back to.  What a call costs is known when it begins.
CallAdvances == [][call.pc # "idle" => StepsLeft' < StepsLeft]_vars

\* What a page holds, wherever it is.
Contents(buffers, half, p) ==
  IF p >= num_pages THEN [c \in Cells |-> Zero]
  ELSE IF p \in HotPages THEN buffers[p]
  ELSE cold_file[page_state[p] + half]

Stored ==
  [c \in Layers \X Positions |->
    LET cell == <<c[1], slot_in_page(c[2])>> IN
    [k |-> Contents(k_pages, 1, page_id(c[2]))[cell],
     v |-> Contents(v_pages, 2, page_id(c[2]))[cell]]]

Recency == CHOOSE s \in [1 .. hot_count -> Pages] : IsLruOrder(s)

Tier == INSTANCE TieredStore WITH store <- Stored, recency <- Recency

\* Paging is invisible: whatever is evicted and reloaded, the rows read back
\* are the rows last saved, and what leaves memory is the least recently used
\* page, only when memory is full.
ImplementsTier == Tier!Spec
====
