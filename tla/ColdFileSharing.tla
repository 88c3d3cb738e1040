---- MODULE ColdFileSharing ----
(***************************************************************************)
(* The caches of one server process share one cold file: init_cold_file    *)
(* names it after the process id alone and opens it without truncating, so *)
(* requests that follow or overlap one another append to the same file,    *)
(* each through a File of its own (its own cursor).  An eviction is three  *)
(* system calls, which those of another request may fall between; which    *)
(* page goes and when is PagedKVCache's business, any page here.           *)
(***************************************************************************)
EXTENDS Integers, Sequences, FiniteSets

CONSTANTS
  Caches,       \* the requests' caches, one per call of generate
  Pages,        \* the pages of each
  MaxLive,      \* generations that may run at the same time
  MaxRecords    \* bound: no eviction begins past this many pages in the file

ASSUME SharingAssumption == Pages # {} /\ MaxLive \in Nat \ {0} /\ MaxRecords \in Nat

VARIABLES
  cold_file,    \* the file's half records, in order
  started, dropped,
  contents,     \* cache -> page -> its K half and V half in memory
  cold,         \* cache -> page -> Cold(offset), or NotCold
  cursor,       \* cache -> the offset its File stands at
  pc, victim, offset   \* cache -> the eviction it is in the middle of

vars == <<cold_file, started, dropped, contents, cold, cursor, pc, victim, offset>>

NotCold == -1
Rows(c, p) == <<[of |-> c, page |-> p, half |-> "k"],
                [of |-> c, page |-> p, half |-> "v"]>>

Live == started \ dropped
AnyPage == CHOOSE p \in Pages : TRUE

TypeOK ==
  /\ cold_file \in Seq([of : Caches, page : Pages, half : {"k", "v"}])
  /\ started \subseteq Caches
  /\ dropped \subseteq started
  /\ cold \in [Caches -> [Pages -> Nat \cup {NotCold}]]
  /\ cursor \in [Caches -> Nat]
  /\ pc \in [Caches -> {"idle", "write_k", "write_v", "mark"}]
  /\ victim \in [Caches -> Pages]
  /\ offset \in [Caches -> Nat]

Init ==
  /\ cold_file = <<>>
  /\ started = {}
  /\ dropped = {}
  /\ contents = [c \in Caches |-> [p \in Pages |-> Rows(c, p)]]
  /\ cold = [c \in Caches |-> [p \in Pages |-> NotCold]]
  /\ cursor = [c \in Caches |-> 0]
  /\ pc = [c \in Caches |-> "idle"]
  /\ victim = [c \in Caches |-> AnyPage]
  /\ offset = [c \in Caches |-> 0]

\* A generation begins with a cache of its own and fills its pages.
Start(c) ==
  /\ c \notin started
  /\ Cardinality(Live) < MaxLive
  /\ started' = started \cup {c}
  /\ UNCHANGED <<cold_file, dropped, contents, cold, cursor, pc, victim, offset>>

\* The generation ends: memory is freed, the file stays as it is.
Drop(c) ==
  /\ c \in Live /\ pc[c] = "idle"
  /\ dropped' = dropped \cup {c}
  /\ UNCHANGED <<cold_file, started, contents, cold, cursor, pc, victim, offset>>

\* Variant: no seek before the write.
AppendAt_Cursor(c) == cursor[c]

\* Where an eviction writes: the end of the file.
AppendAt(c) == Len(cold_file)

\* evict_one_page: seek(SeekFrom::End(0)).
SeekEnd(c, p) ==
  /\ c \in Live /\ pc[c] = "idle" /\ cold[c][p] = NotCold
  /\ Len(cold_file) < 2 * MaxRecords
  /\ victim' = [victim EXCEPT ![c] = p]
  /\ offset' = [offset EXCEPT ![c] = AppendAt(c)]
  /\ cursor' = [cursor EXCEPT ![c] = AppendAt(c)]
  /\ pc' = [pc EXCEPT ![c] = "write_k"]
  /\ UNCHANGED <<cold_file, started, dropped, contents, cold>>

\* write_all puts a half where the cache's cursor stands, over what is there
\* or past the end.
WriteHalf(c, half) ==
  /\ cold_file' = [i \in 1 .. (IF cursor[c] < Len(cold_file) THEN Len(cold_file)
                               ELSE cursor[c] + 1) |->
                     IF i = cursor[c] + 1 THEN contents[c][victim[c]][half]
                     ELSE cold_file[i]]
  /\ cursor' = [cursor EXCEPT ![c] = @ + 1]

WriteK(c) ==
  /\ pc[c] = "write_k"
  /\ WriteHalf(c, 1)
  /\ pc' = [pc EXCEPT ![c] = "write_v"]
  /\ UNCHANGED <<started, dropped, contents, cold, victim, offset>>

WriteV(c) ==
  /\ pc[c] = "write_v"
  /\ WriteHalf(c, 2)
  /\ pc' = [pc EXCEPT ![c] = "mark"]
  /\ UNCHANGED <<started, dropped, contents, cold, victim, offset>>

\* Variant: the offset is taken after the writes.
RecordOffset_After(c) == cursor[c]

RecordOffset(c) == offset[c]

\* The page becomes Cold(offset) and its buffers are freed.
MarkCold(c) ==
  /\ pc[c] = "mark"
  /\ cold' = [cold EXCEPT ![c][victim[c]] = RecordOffset(c)]
  /\ contents' = [contents EXCEPT ![c][victim[c]] = <<>>]
  /\ pc' = [pc EXCEPT ![c] = "idle"]
  /\ UNCHANGED <<cold_file, started, dropped, cursor, victim, offset>>

\* reload_cold_page: seek to the offset, read_exact both halves.
Reload(c, p) ==
  /\ c \in Live /\ pc[c] = "idle" /\ cold[c][p] # NotCold
  /\ contents' = [contents EXCEPT ![c][p] = SubSeq(cold_file, cold[c][p] + 1, cold[c][p] + 2)]
  /\ cold' = [cold EXCEPT ![c][p] = NotCold]
  /\ cursor' = [cursor EXCEPT ![c] = cold[c][p] + 2]
  /\ UNCHANGED <<cold_file, started, dropped, pc, victim, offset>>

AllDropped == dropped = Caches /\ UNCHANGED vars

Next ==
  \/ \E c \in Caches :
       \/ Start(c)
       \/ Drop(c)
       \/ \E p \in Pages : SeekEnd(c, p) \/ Reload(c, p)
       \/ WriteK(c)
       \/ WriteV(c)
       \/ MarkCold(c)
  \/ AllDropped

Spec == Init /\ [][Next]_vars

----------------------------------------------------------------------------

\* A page brought back from the file holds its own K half and its own V half:
\* no other page's, and no other request's.  evict_one_page appends and
\* reload_cold_page reads at the remembered offset in a file other requests
\* of the process have used too.
PagesReadBackIntact ==
  \A c \in Live, p \in Pages : cold[c][p] = NotCold => contents[c][p] = Rows(c, p)

\* What a live cache remembers of the file is there to be read: read_exact
\* never runs off its end.
ColdOffsetsReadable ==
  \A c \in Live, p \in Pages : cold[c][p] # NotCold => cold[c][p] + 2 <= Len(cold_file)
====
