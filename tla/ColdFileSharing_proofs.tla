---- MODULE ColdFileSharing_proofs ----
(***************************************************************************)
(* For any number of requests, of pages and of records in the file.  One   *)
(* generation at a time: what a former request left in the cold file does  *)
(* no harm; that the generations do not overlap is the assumption, and     *)
(* with two of them the run overlapping_requests shows pages exchanged.    *)
(* Any number at a time: no read runs off the end of the file.             *)
(***************************************************************************)
EXTENDS ColdFileSharing, FiniteSetTheorems, TLAPS

Halves == [of : Caches, page : Pages, half : {"k", "v"}]

\* The file holds the two halves of the page at this offset.
InFile(c, p, o) ==
  /\ o + 2 <= Len(cold_file)
  /\ cold_file[o + 1] = Rows(c, p)[1]
  /\ cold_file[o + 2] = Rows(c, p)[2]

\* A page is whole, in memory or in the file.
PageInv(c, p) ==
  IF cold[c][p] = NotCold THEN contents[c][p] = Rows(c, p) ELSE InFile(c, p, cold[c][p])

\* An eviction writes its halves at the end of the file, where it was when the
\* eviction began: nobody else has written since.
EvictInv(c) ==
  /\ pc[c] # "idle" => cold[c][victim[c]] = NotCold
  /\ pc[c] = "write_k" => cursor[c] = Len(cold_file) /\ offset[c] = Len(cold_file)
  /\ pc[c] = "write_v" => /\ cursor[c] = Len(cold_file)
                          /\ offset[c] + 1 = Len(cold_file)
                          /\ cold_file[offset[c] + 1] = Rows(c, victim[c])[1]
  /\ pc[c] = "mark" => InFile(c, victim[c], offset[c])

AloneInv == IsFiniteSet(Live) /\ \A c, d \in Live : c = d

\* Only a live cache evicts.
WorkingInv == \A c \in Caches : pc[c] # "idle" => c \in Live

FreshInv == \A c \in Caches \ started :
              pc[c] = "idle" /\ \A p \in Pages : cold[c][p] = NotCold /\ contents[c][p] = Rows(c, p)

Intact == \A c \in Live : EvictInv(c) /\ \A p \in Pages : PageInv(c, p)

SharingInv ==
  /\ TypeOK
  /\ contents \in [Caches -> [Pages -> {<<>>} \cup Seq(Halves)]]
  /\ AloneInv
  /\ WorkingInv
  /\ FreshInv
  /\ Intact

\* The two halves of a page are halves.
LEMMA RowsAreHalves ==
  ASSUME NEW c \in Caches, NEW p \in Pages
  PROVE  /\ Rows(c, p) \in Seq(Halves) /\ Len(Rows(c, p)) = 2
         /\ Rows(c, p)[1] \in Halves /\ Rows(c, p)[2] \in Halves
  BY DEF Rows, Halves

\* Writing at the end of the file appends.
LEMMA WriteAppends ==
  ASSUME NEW c \in Caches, NEW h \in {1, 2}, NEW x \in Halves,
         cold_file \in Seq(Halves), cursor \in [Caches -> Nat],
         cursor[c] = Len(cold_file), x = contents[c][victim[c]][h], WriteHalf(c, h)
  PROVE  /\ cold_file' \in Seq(Halves)
         /\ Len(cold_file') = Len(cold_file) + 1
         /\ \A i \in 1..Len(cold_file) : cold_file'[i] = cold_file[i]
         /\ cold_file'[Len(cold_file) + 1] = x
<1>1. cold_file' = [i \in 1..(Len(cold_file) + 1) |->
                      IF i = Len(cold_file) + 1 THEN x ELSE cold_file[i]]
  BY DEF WriteHalf
<1>2. \A i \in 1..Len(cold_file) : cold_file[i] \in Halves
  OBVIOUS
<1>3. Len(cold_file) \in Nat
  OBVIOUS
<1>4. cold_file' \in [1..(Len(cold_file) + 1) -> Halves]
  BY <1>1, <1>2, <1>3
<1> QED
  BY <1>1, <1>3, <1>4

\* Two elements cut out of a sequence.
LEMMA TwoElements ==
  ASSUME NEW S, NEW s \in Seq(S), NEW o \in Nat, o + 2 <= Len(s)
  PROVE  /\ SubSeq(s, o + 1, o + 2) \in Seq(S) /\ Len(SubSeq(s, o + 1, o + 2)) = 2
         /\ SubSeq(s, o + 1, o + 2)[1] = s[o + 1] /\ SubSeq(s, o + 1, o + 2)[2] = s[o + 2]
<1>1. o + 1 \in 1..Len(s) /\ o + 2 \in 1..Len(s)
  OBVIOUS
<1> QED
  BY <1>1

\* A sequence of two elements is the pair of them.
LEMMA PairOf ==
  ASSUME NEW S, NEW s \in Seq(S), Len(s) = 2
  PROVE  s = <<s[1], s[2]>>
  OBVIOUS

\* What the file holds it still holds when it has grown.
LEMMA GrownFileKeeps ==
  ASSUME NEW c, NEW p, NEW o \in Nat, InFile(c, p, o),
         Len(cold_file) \in Nat, Len(cold_file') \in Nat, Len(cold_file) <= Len(cold_file'),
         \A i \in 1..Len(cold_file) : cold_file'[i] = cold_file[i]
  PROVE  InFile(c, p, o)'
<1>1. o + 1 \in 1..Len(cold_file) /\ o + 2 \in 1..Len(cold_file)
  BY DEF InFile
<1> QED
  BY <1>1 DEF InFile, Rows

\* A cache starts alone, with pages of its own.
LEMMA StartKeeps ==
  ASSUME MaxLive = 1, SharingInv, NEW c \in Caches, Start(c)
  PROVE  SharingInv'
<1>1. Live = {}
  <2>1. Cardinality(Live) < 1 /\ IsFiniteSet(Live)
    BY DEF Start, SharingInv, AloneInv
  <2>2. Cardinality(Live) \in Nat
    BY <2>1, FS_CardinalityType
  <2> QED
    BY <2>1, <2>2, FS_EmptySet
<1>2. c \notin started /\ dropped \subseteq started
  BY DEF Start, SharingInv, TypeOK
<1>3. Live' = {c}
  BY <1>1, <1>2 DEF Start, Live
<1>4. AloneInv'
  BY <1>3, FS_Singleton DEF AloneInv
<1>5. Intact'
  BY <1>2, <1>3 DEF Intact, EvictInv, PageInv, SharingInv, FreshInv, Start, Rows
<1>6. FreshInv'
  BY DEF FreshInv, SharingInv, Start, Rows
<1>7. WorkingInv'
  BY <1>1, <1>2 DEF WorkingInv, SharingInv, Start
<1> QED
  BY <1>4, <1>5, <1>6, <1>7 DEF SharingInv, Start, TypeOK

\* Every other step is of the one cache that is live.
LEMMA StepKeeps ==
  ASSUME SharingInv, NEW c \in Caches, c \in Live,
         NEW p \in Pages,
         SeekEnd(c, p) \/ Reload(c, p) \/ WriteK(c) \/ WriteV(c) \/ MarkCold(c)
  PROVE  SharingInv'
<1>0. /\ TypeOK /\ contents \in [Caches -> [Pages -> {<<>>} \cup Seq(Halves)]]
      /\ EvictInv(c) /\ \A q \in Pages : PageInv(c, q)
      /\ Live = {c} /\ Len(cold_file) \in Nat /\ cold_file \in Seq(Halves)
  <2>1. Live = {c}
    BY DEF SharingInv, AloneInv
  <2>2. cold_file \in Seq(Halves)
    BY DEF SharingInv, TypeOK, Halves
  <2>3. Len(cold_file) \in Nat
    BY <2>2
  <2> QED
    BY <2>1, <2>2, <2>3 DEF SharingInv, Intact
<1>1. /\ UNCHANGED <<started, dropped>>
      /\ Live' = Live
  BY DEF SeekEnd, Reload, WriteK, WriteV, MarkCold, Live
<1>2. AloneInv'
  BY <1>1 DEF AloneInv, SharingInv
<1>3. c \in started
  BY DEF Live
<1>4. FreshInv'
  <2>1. \A d \in Caches \ {c} : pc'[d] = pc[d] /\ cold'[d] = cold[d] /\ contents'[d] = contents[d]
    BY <1>0 DEF SeekEnd, Reload, WriteK, WriteV, MarkCold, TypeOK
  <2> QED
    BY <1>1, <1>3, <2>1 DEF FreshInv, SharingInv, Rows
<1>x. WorkingInv'
  BY <1>0, <1>1 DEF SeekEnd, Reload, WriteK, WriteV, MarkCold, WorkingInv, SharingInv, TypeOK
<1>5. SUFFICES /\ TypeOK' /\ contents' \in [Caches -> [Pages -> {<<>>} \cup Seq(Halves)]]
               /\ EvictInv(c)' /\ \A q \in Pages : PageInv(c, q)'
  BY <1>0, <1>1, <1>2, <1>4, <1>x DEF SharingInv, Intact
<1>6. CASE SeekEnd(c, p)
  <2>1. UNCHANGED <<cold_file, started, dropped, contents, cold>>
    BY <1>6 DEF SeekEnd
  <2>2. /\ victim' = [victim EXCEPT ![c] = p] /\ pc' = [pc EXCEPT ![c] = "write_k"]
        /\ offset' = [offset EXCEPT ![c] = Len(cold_file)]
        /\ cursor' = [cursor EXCEPT ![c] = Len(cold_file)]
        /\ cold[c][p] = NotCold
    BY <1>6 DEF SeekEnd, AppendAt
  <2>3. TypeOK'
    BY <1>0, <2>1, <2>2 DEF TypeOK
  <2>4. \A q \in Pages : PageInv(c, q)'
    BY <1>0, <2>1 DEF PageInv, InFile, Rows
  <2>5. EvictInv(c)'
    BY <1>0, <2>1, <2>2 DEF EvictInv, TypeOK
  <2> QED
    BY <1>0, <2>1, <2>3, <2>4, <2>5
<1>7. CASE Reload(c, p)
  <2> DEFINE o == cold[c][p]
             read == SubSeq(cold_file, o + 1, o + 2)
  <2>1. o # NotCold /\ pc[c] = "idle" /\ o \in Nat
    BY <1>0, <1>7 DEF Reload, TypeOK
  <2>2. InFile(c, p, o)
    BY <1>0, <2>1 DEF PageInv
  <2>3. read = Rows(c, p)
    <3>1. o + 1 \in 1..Len(cold_file) /\ o + 2 \in 1..Len(cold_file)
      BY <1>0, <2>1, <2>2 DEF InFile
    <3>2. /\ read \in Seq(Halves) /\ Len(read) = 2
          /\ read[1] = cold_file[o + 1] /\ read[2] = cold_file[o + 2]
      BY <1>0, <2>1, <2>2, TwoElements DEF InFile
    <3> HIDE DEF read
    <3>3. read = <<cold_file[o + 1], cold_file[o + 2]>>
      BY <3>2, PairOf
    <3>4. Rows(c, p) = <<Rows(c, p)[1], Rows(c, p)[2]>>
      BY DEF Rows
    <3> QED
      BY <2>2, <3>3, <3>4 DEF InFile
  <2>4. /\ contents' = [contents EXCEPT ![c][p] = read] /\ cold' = [cold EXCEPT ![c][p] = NotCold]
        /\ cursor' = [cursor EXCEPT ![c] = o + 2]
        /\ UNCHANGED <<cold_file, started, dropped, pc, victim, offset>>
    BY <1>7 DEF Reload
  <2> HIDE DEF read, o
  <2>5. contents' \in [Caches -> [Pages -> {<<>>} \cup Seq(Halves)]]
    BY <1>0, <2>3, <2>4, RowsAreHalves
  <2>6. TypeOK'
    BY <1>0, <2>1, <2>4 DEF TypeOK
  <2>7. ASSUME NEW q \in Pages PROVE PageInv(c, q)'
    <3>1. CASE q = p
      BY <1>0, <2>3, <2>4, <3>1 DEF PageInv, TypeOK, Rows
    <3>2. CASE q # p
      <4>1. cold'[c][q] = cold[c][q] /\ contents'[c][q] = contents[c][q] /\ PageInv(c, q)
        BY <1>0, <2>4, <3>2 DEF TypeOK
      <4> QED
        BY <2>4, <4>1 DEF PageInv, InFile, Rows
    <3> QED
      BY <3>1, <3>2
  <2>8. EvictInv(c)'
    BY <2>1, <2>4 DEF EvictInv
  <2> QED
    BY <2>5, <2>6, <2>7, <2>8
<1>8. ASSUME NEW h \in {1, 2}, WriteHalf(c, h),
             pc[c] = (IF h = 1 THEN "write_k" ELSE "write_v"),
             pc' = [pc EXCEPT ![c] = IF h = 1 THEN "write_v" ELSE "mark"],
             UNCHANGED <<started, dropped, contents, cold, victim, offset>>
      PROVE  /\ TypeOK' /\ contents' \in [Caches -> [Pages -> {<<>>} \cup Seq(Halves)]]
             /\ EvictInv(c)' /\ \A q \in Pages : PageInv(c, q)'
  <2> DEFINE v == victim[c]
             x == Rows(c, v)[h]
  <2>1. v \in Pages /\ cold[c][v] = NotCold /\ cursor[c] = Len(cold_file) /\ offset[c] \in Nat
    BY <1>0, <1>8 DEF EvictInv, TypeOK
  <2>2. contents[c][v] = Rows(c, v) /\ x \in Halves
    BY <1>0, <2>1, RowsAreHalves DEF PageInv
  <2>3. /\ cold_file' \in Seq(Halves)
        /\ Len(cold_file') = Len(cold_file) + 1
        /\ \A i \in 1..Len(cold_file) : cold_file'[i] = cold_file[i]
        /\ cold_file'[Len(cold_file) + 1] = x
    BY <1>0, <1>8, <2>1, <2>2, WriteAppends DEF TypeOK
  <2>4. cursor' = [cursor EXCEPT ![c] = cursor[c] + 1]
    BY <1>8 DEF WriteHalf
  <2>5. TypeOK'
    BY <1>0, <1>8, <2>1, <2>3, <2>4 DEF TypeOK, Halves
  <2>6. ASSUME NEW q \in Pages PROVE PageInv(c, q)'
    <3>1. PageInv(c, q) /\ cold[c][q] \in Nat \cup {NotCold}
      BY <1>0 DEF TypeOK
    <3>2. CASE cold[c][q] = NotCold
      BY <1>8, <3>1, <3>2 DEF PageInv, Rows
    <3>3. CASE cold[c][q] # NotCold
      <4>1. cold[c][q] \in Nat /\ InFile(c, q, cold[c][q])
        BY <3>1, <3>3 DEF PageInv
      <4>2. InFile(c, q, cold[c][q])'
        <5> DEFINE o == cold[c][q]
        <5>1. o \in Nat /\ InFile(c, q, o) /\ o' = o
          BY <1>8, <4>1
        <5>2. o + 1 \in 1..Len(cold_file) /\ o + 2 \in 1..Len(cold_file) /\ o + 2 <= Len(cold_file')
          BY <1>0, <2>3, <5>1 DEF InFile
        <5> HIDE DEF o
        <5> QED
          BY <2>3, <5>1, <5>2 DEF InFile, Rows, o
      <4> QED
        BY <1>8, <3>3, <4>2 DEF PageInv
    <3> QED
      BY <3>2, <3>3
  <2>7. pc'[c] = (IF h = 1 THEN "write_v" ELSE "mark") /\ cursor'[c] = Len(cold_file')
    BY <1>0, <1>8, <2>1, <2>3, <2>4 DEF TypeOK
  <2>8. EvictInv(c)'
    <3>1. CASE h = 1
      <4>1. offset[c] = Len(cold_file)
        BY <1>0, <1>8, <3>1 DEF EvictInv
      <4> QED
        BY <1>0, <1>8, <2>1, <2>3, <2>7, <3>1, <4>1 DEF EvictInv, Rows
    <3>2. CASE h = 2
      <4>1. offset[c] + 1 = Len(cold_file) /\ cold_file[offset[c] + 1] = Rows(c, v)[1]
        BY <1>0, <1>8, <3>2 DEF EvictInv
      <4>2. offset[c] + 1 \in 1..Len(cold_file)
        BY <1>0, <2>1, <4>1
      <4>3. InFile(c, v, offset[c])'
        BY <1>0, <1>8, <2>1, <2>3, <3>2, <4>1, <4>2 DEF InFile, Rows
      <4> QED
        BY <1>8, <2>1, <2>7, <3>2, <4>3 DEF EvictInv
    <3> QED
      BY <3>1, <3>2
  <2> QED
    BY <1>0, <1>8, <2>5, <2>6, <2>8
<1>9. CASE WriteK(c)
  BY <1>8, <1>9 DEF WriteK
<1>10. CASE WriteV(c)
  BY <1>8, <1>10 DEF WriteV
<1>11. CASE MarkCold(c)
  <2> DEFINE v == victim[c]
  <2>1. v \in Pages /\ pc[c] = "mark" /\ offset[c] \in Nat /\ InFile(c, v, offset[c])
    BY <1>0, <1>11 DEF MarkCold, EvictInv, TypeOK
  <2>2. /\ cold' = [cold EXCEPT ![c][v] = offset[c]] /\ contents' = [contents EXCEPT ![c][v] = <<>>]
        /\ pc' = [pc EXCEPT ![c] = "idle"]
        /\ UNCHANGED <<cold_file, started, dropped, cursor, victim, offset>>
    BY <1>11 DEF MarkCold, RecordOffset
  <2>3. TypeOK' /\ contents' \in [Caches -> [Pages -> {<<>>} \cup Seq(Halves)]]
    BY <1>0, <2>1, <2>2 DEF TypeOK
  <2>4. ASSUME NEW q \in Pages PROVE PageInv(c, q)'
    <3>1. CASE q = v
      <4>1. cold'[c][v] = offset[c] /\ offset[c] # NotCold
        BY <1>0, <2>1, <2>2 DEF TypeOK, NotCold
      <4>2. InFile(c, v, offset[c])'
        BY <2>1, <2>2 DEF InFile, Rows
      <4> QED
        BY <2>2, <3>1, <4>1, <4>2 DEF PageInv
    <3>2. CASE q # v
      <4>1. cold'[c][q] = cold[c][q] /\ contents'[c][q] = contents[c][q] /\ PageInv(c, q)
        BY <1>0, <2>1, <2>2, <3>2 DEF TypeOK
      <4> QED
        BY <2>2, <4>1 DEF PageInv, InFile, Rows
    <3> QED
      BY <3>1, <3>2
  <2>5. EvictInv(c)'
    BY <1>0, <2>2 DEF EvictInv, TypeOK
  <2> QED
    BY <2>3, <2>4, <2>5
<1> QED
  BY <1>6, <1>7, <1>9, <1>10, <1>11

\* With one generation at a time every step keeps the pages whole.
LEMMA SharingInvKept == MaxLive = 1 /\ SharingInv /\ [Next]_vars => SharingInv'
<1> SUFFICES ASSUME MaxLive = 1, SharingInv, [Next]_vars PROVE SharingInv'
  OBVIOUS
<1>1. ASSUME NEW c \in Caches, Start(c) PROVE SharingInv'
  BY <1>1, StartKeeps
<1>2. ASSUME NEW c \in Caches, Drop(c) PROVE SharingInv'
  <2>1. Live' \subseteq Live
    BY <1>2 DEF Drop, Live
  <2>2. AloneInv'
    BY <2>1, FS_Subset DEF AloneInv, SharingInv
  <2>3. Intact'
    BY <1>2, <2>1 DEF Intact, EvictInv, PageInv, InFile, Rows, SharingInv, Drop
  <2>4. FreshInv'
    BY <1>2 DEF FreshInv, SharingInv, Drop, Rows
  <2>5. WorkingInv'
    BY <1>2 DEF WorkingInv, SharingInv, Drop, Live
  <2> QED
    BY <1>2, <2>2, <2>3, <2>4, <2>5 DEF SharingInv, Drop, Live, TypeOK
<1>3. ASSUME NEW c \in Caches, NEW p \in Pages, SeekEnd(c, p) \/ Reload(c, p) PROVE SharingInv'
  BY <1>3, StepKeeps DEF SeekEnd, Reload
<1>4. ASSUME NEW c \in Caches, WriteK(c) \/ WriteV(c) \/ MarkCold(c) PROVE SharingInv'
  <2>1. c \in Live
    BY <1>4 DEF WriteK, WriteV, MarkCold, SharingInv, WorkingInv
  <2>2. PICK p \in Pages : TRUE
    BY SharingAssumption
  <2> QED
    BY <1>4, <2>1, <2>2, StepKeeps
<1>5. CASE UNCHANGED vars
  <2>1. UNCHANGED <<cold_file, started, dropped, contents, cold, cursor, pc, victim, offset>>
    BY <1>5 DEF vars
  <2>2. TypeOK' /\ AloneInv' /\ WorkingInv'
    BY <2>1 DEF SharingInv, TypeOK, AloneInv, WorkingInv, Live
  <2>3. FreshInv'
    BY <2>1 DEF SharingInv, FreshInv, Rows
  <2>4. Intact'
    BY <2>1 DEF SharingInv, Intact, EvictInv, PageInv, InFile, Rows, Live
  <2> QED
    BY <2>1, <2>2, <2>3, <2>4 DEF SharingInv
<1> QED
  BY <1>1, <1>2, <1>3, <1>4, <1>5 DEF Next, AllDropped

\* So it begins: every page in memory, the file empty.
LEMMA SharingInit == Init => SharingInv
<1> SUFFICES ASSUME Init PROVE SharingInv
  OBVIOUS
<1>1. Live = {}
  BY DEF Init, Live
<1>2. AloneInv /\ Intact
  BY <1>1, FS_EmptySet DEF AloneInv, Intact
<1>3. FreshInv /\ WorkingInv
  BY DEF Init, FreshInv, WorkingInv
<1>4. \A c \in Caches, p \in Pages : Rows(c, p) \in Seq(Halves)
  BY RowsAreHalves
<1>5. contents \in [Caches -> [Pages -> {<<>>} \cup Seq(Halves)]]
  BY <1>4 DEF Init
<1>6. AnyPage \in Pages
  BY SharingAssumption DEF AnyPage
<1>7. TypeOK
  BY <1>6 DEF Init, TypeOK
<1> QED
  BY <1>2, <1>3, <1>5, <1>7 DEF SharingInv

\* With one generation at a time a page brought back from the cold file is the
\* page that was put there, however full of former requests' pages the file is.
THEOREM ReadBackIntact ==
  ASSUME MaxLive = 1
  PROVE  Spec => []PagesReadBackIntact
<1>1. Init => SharingInv
  BY SharingInit
<1>2. SharingInv /\ [Next]_vars => SharingInv'
  BY SharingInvKept
<1>3. SharingInv => PagesReadBackIntact
  BY DEF SharingInv, Intact, PageInv, PagesReadBackIntact
<1> QED
  BY <1>1, <1>2, <1>3, PTL DEF Spec

----------------------------------------------------------------------------
(* Any number of generations at a time.                                    *)

\* The file only grows; a cursor stands within it, and what an eviction has
\* written, or a page in the file is remembered by, was there.
ExtentInv ==
  /\ TypeOK
  /\ contents \in [Caches -> [Pages -> {<<>>} \cup Seq(Halves)]]
  /\ \A c \in Caches, p \in Pages :
       IF cold[c][p] = NotCold THEN Len(contents[c][p]) = 2 ELSE cold[c][p] + 2 <= Len(cold_file)
  /\ \A c \in Caches :
       /\ pc[c] # "idle" => cold[c][victim[c]] = NotCold
       /\ pc[c] = "write_k" => cursor[c] = offset[c] /\ cursor[c] <= Len(cold_file)
       /\ pc[c] = "write_v" => cursor[c] = offset[c] + 1 /\ cursor[c] <= Len(cold_file)
       /\ pc[c] = "mark" => offset[c] + 2 <= Len(cold_file)

\* A sequence of two halves.
LEMMA TwoHalves ==
  ASSUME NEW s \in {<<>>} \cup Seq(Halves), Len(s) = 2
  PROVE  s \in Seq(Halves) /\ s[1] \in Halves /\ s[2] \in Halves
<1>1. <<>> \in Seq(Halves)
  OBVIOUS
<1>2. s \in Seq(Halves)
  BY <1>1
<1>3. ASSUME NEW r \in Seq(Halves), Len(r) = 2 PROVE r[1] \in Halves /\ r[2] \in Halves
  <2>1. 1 \in 1 .. Len(r) /\ 2 \in 1 .. Len(r)
    BY <1>3
  <2> QED
    BY <2>1
<1> QED
  BY <1>2, <1>3

\* Writing within the file, or at its end, leaves a file no shorter, that
\* reaches past what was written.
LEMMA WriteExtends ==
  ASSUME ExtentInv, NEW c \in Caches, NEW h \in {1, 2}, cursor[c] <= Len(cold_file),
         cold[c][victim[c]] = NotCold, WriteHalf(c, h)
  PROVE  /\ cold_file' \in Seq(Halves)
         /\ Len(cold_file) <= Len(cold_file') /\ cursor[c] + 1 <= Len(cold_file')
<1> DEFINE x == contents[c][victim[c]][h]
           n == IF cursor[c] < Len(cold_file) THEN Len(cold_file) ELSE cursor[c] + 1
<1>1. /\ cold_file \in Seq(Halves) /\ cursor[c] \in Nat /\ victim[c] \in Pages
  BY DEF ExtentInv, TypeOK, Halves
<1>2. x \in Halves
  <2>1. contents[c][victim[c]] \in {<<>>} \cup Seq(Halves) /\ Len(contents[c][victim[c]]) = 2
    BY <1>1 DEF ExtentInv
  <2> QED
    BY <2>1, TwoHalves
<1>3. n \in Nat /\ Len(cold_file) <= n /\ cursor[c] + 1 <= n /\ Len(cold_file) \in Nat
  BY <1>1
<1>4. cold_file' = [i \in 1 .. n |-> IF i = cursor[c] + 1 THEN x ELSE cold_file[i]]
  BY DEF WriteHalf
<1>5. \A i \in 1 .. n : i = cursor[c] + 1 \/ cold_file[i] \in Halves
  <2> SUFFICES ASSUME NEW i \in 1 .. n, i # cursor[c] + 1 PROVE cold_file[i] \in Halves
    OBVIOUS
  <2>1. i \in 1 .. Len(cold_file)
    BY <1>1, <1>3
  <2> QED
    BY <1>1, <2>1
<1> HIDE DEF x, n
<1>6. cold_file' \in [1 .. n -> Halves]
  BY <1>2, <1>4, <1>5
<1>7. cold_file' \in Seq(Halves) /\ Len(cold_file') = n
  BY <1>3, <1>4, <1>6
<1> QED
  BY <1>3, <1>7

\* A page that is read back has two halves.
LEMMA ReadsTwo ==
  ASSUME ExtentInv, NEW c \in Caches, NEW p \in Pages, Reload(c, p)
  PROVE  /\ contents' \in [Caches -> [Pages -> {<<>>} \cup Seq(Halves)]]
         /\ Len(contents'[c][p]) = 2
<1> DEFINE read == SubSeq(cold_file, cold[c][p] + 1, cold[c][p] + 2)
<1>1. /\ cold_file \in Seq(Halves) /\ cold[c][p] \in Nat /\ cold[c][p] + 2 <= Len(cold_file)
      /\ contents \in [Caches -> [Pages -> {<<>>} \cup Seq(Halves)]]
  <2>1. TypeOK /\ cold[c][p] # NotCold
    BY DEF Reload, ExtentInv
  <2>2. cold_file \in Seq(Halves)
    BY <2>1 DEF TypeOK, Halves
  <2>3. cold[c][p] \in Nat
    BY <2>1 DEF TypeOK
  <2> QED
    BY <2>1, <2>2, <2>3 DEF ExtentInv
<1>2. read \in Seq(Halves) /\ Len(read) = 2
  BY <1>1, TwoElements
<1>3. contents' = [contents EXCEPT ![c][p] = read]
  BY DEF Reload
<1> HIDE DEF read
<1> QED
  BY <1>1, <1>2, <1>3

\* Every step of every cache keeps the pages within the file.
LEMMA ExtentKept == ExtentInv /\ [Next]_vars => ExtentInv'
<1> SUFFICES ASSUME ExtentInv, [Next]_vars PROVE ExtentInv'
  OBVIOUS
<1>0. /\ TypeOK /\ contents \in [Caches -> [Pages -> {<<>>} \cup Seq(Halves)]]
      /\ Len(cold_file) \in Nat
  BY DEF ExtentInv, TypeOK
<1>1. CASE UNCHANGED vars \/ AllDropped
  BY <1>1 DEF vars, AllDropped, ExtentInv, TypeOK
<1>2. ASSUME NEW c \in Caches, Start(c) \/ Drop(c) PROVE ExtentInv'
  BY <1>2 DEF Start, Drop, Live, ExtentInv, TypeOK
<1>3. ASSUME NEW c \in Caches, NEW p \in Pages, SeekEnd(c, p) PROVE ExtentInv'
  <2>1. /\ UNCHANGED <<cold_file, started, dropped, contents, cold>>
        /\ victim' = [victim EXCEPT ![c] = p] /\ pc' = [pc EXCEPT ![c] = "write_k"]
        /\ offset' = [offset EXCEPT ![c] = Len(cold_file)]
        /\ cursor' = [cursor EXCEPT ![c] = Len(cold_file)]
        /\ cold[c][p] = NotCold
    BY <1>3 DEF SeekEnd, AppendAt
  <2>2. TypeOK'
    BY <1>0, <2>1 DEF TypeOK
  <2> QED
    BY <1>0, <2>1, <2>2 DEF ExtentInv, TypeOK
<1>4. ASSUME NEW c \in Caches, NEW p \in Pages, Reload(c, p) PROVE ExtentInv'
  <2> DEFINE read == SubSeq(cold_file, cold[c][p] + 1, cold[c][p] + 2)
  <2>1. /\ contents' = [contents EXCEPT ![c][p] = read] /\ cold' = [cold EXCEPT ![c][p] = NotCold]
        /\ cursor' = [cursor EXCEPT ![c] = cold[c][p] + 2] /\ pc[c] = "idle"
        /\ UNCHANGED <<cold_file, started, dropped, pc, victim, offset>>
        /\ cold[c][p] \in Nat
    BY <1>0, <1>4 DEF Reload, TypeOK
  <2> HIDE DEF read
  <2>2. TypeOK'
    BY <1>0, <2>1 DEF TypeOK
  <2>3. \A d \in Caches, q \in Pages :
          IF cold'[d][q] = NotCold THEN Len(contents'[d][q]) = 2
                                   ELSE cold'[d][q] + 2 <= Len(cold_file')
    <3> SUFFICES ASSUME NEW d \in Caches, NEW q \in Pages
                 PROVE  IF cold'[d][q] = NotCold THEN Len(contents'[d][q]) = 2
                                                 ELSE cold'[d][q] + 2 <= Len(cold_file')
      OBVIOUS
    <3>1. CASE d = c /\ q = p
      BY <1>0, <1>4, <2>1, <3>1, ReadsTwo DEF TypeOK
    <3>2. CASE ~(d = c /\ q = p)
      <4>1. cold'[d][q] = cold[d][q] /\ contents'[d][q] = contents[d][q]
        BY <1>0, <2>1, <3>2 DEF TypeOK
      <4> QED
        BY <2>1, <4>1 DEF ExtentInv
    <3> QED
      BY <3>1, <3>2
  <2>4. \A d \in Caches : d # c => cursor'[d] = cursor[d] /\ cold'[d] = cold[d]
    BY <1>0, <2>1 DEF TypeOK
  <2> QED
    BY <1>0, <1>4, <2>1, <2>2, <2>3, <2>4, ReadsTwo DEF ExtentInv
<1>5. ASSUME NEW c \in Caches, WriteK(c) \/ WriteV(c) PROVE ExtentInv'
  <2>1. /\ UNCHANGED <<started, dropped, contents, cold, victim, offset>>
        /\ cursor' = [cursor EXCEPT ![c] = @ + 1]
        /\ \/ pc[c] = "write_k" /\ pc' = [pc EXCEPT ![c] = "write_v"] /\ WriteHalf(c, 1)
           \/ pc[c] = "write_v" /\ pc' = [pc EXCEPT ![c] = "mark"] /\ WriteHalf(c, 2)
    BY <1>5 DEF WriteK, WriteV, WriteHalf
  <2>2. cursor[c] \in Nat /\ cursor[c] <= Len(cold_file) /\ cold[c][victim[c]] = NotCold
    BY <1>0, <2>1 DEF ExtentInv, TypeOK
  <2>3. /\ cold_file' \in Seq(Halves)
        /\ Len(cold_file) <= Len(cold_file') /\ cursor[c] + 1 <= Len(cold_file')
    BY <2>1, <2>2, WriteExtends
  <2>4. Len(cold_file') \in Nat
    BY <2>3
  <2>5. TypeOK'
    <3>1. /\ pc' \in [Caches -> {"idle", "write_k", "write_v", "mark"}]
          /\ cursor' \in [Caches -> Nat]
      <4>1. pc' = [pc EXCEPT ![c] = "write_v"] \/ pc' = [pc EXCEPT ![c] = "mark"]
        BY <2>1
      <4>2. pc' \in [Caches -> {"idle", "write_k", "write_v", "mark"}]
        BY <1>0, <4>1 DEF TypeOK
      <4>3. cursor' = [cursor EXCEPT ![c] = cursor[c] + 1] /\ cursor \in [Caches -> Nat]
        BY <1>0, <2>1 DEF TypeOK
      <4> QED
        BY <2>2, <4>2, <4>3
    <3> QED
      BY <1>0, <2>1, <2>3, <3>1 DEF TypeOK, Halves
  <2>6. \A d \in Caches, q \in Pages :
          IF cold'[d][q] = NotCold THEN Len(contents'[d][q]) = 2
                                   ELSE cold'[d][q] + 2 <= Len(cold_file')
    <3> SUFFICES ASSUME NEW d \in Caches, NEW q \in Pages, cold[d][q] # NotCold
                 PROVE  cold[d][q] + 2 <= Len(cold_file')
      BY <2>1 DEF ExtentInv
    <3>1. cold[d][q] \in Nat /\ cold[d][q] + 2 <= Len(cold_file)
      BY <1>0 DEF ExtentInv, TypeOK
    <3> QED
      BY <1>0, <2>3, <2>4, <3>1
  <2>7. ASSUME NEW d \in Caches
        PROVE  /\ pc'[d] # "idle" => cold'[d][victim'[d]] = NotCold
               /\ pc'[d] = "write_k" => cursor'[d] = offset'[d] /\ cursor'[d] <= Len(cold_file')
               /\ pc'[d] = "write_v" => cursor'[d] = offset'[d] + 1 /\ cursor'[d] <= Len(cold_file')
               /\ pc'[d] = "mark" => offset'[d] + 2 <= Len(cold_file')
    <3>1. offset[d] \in Nat /\ cursor[d] \in Nat
      BY <1>0 DEF TypeOK
    <3>2. CASE d # c
      <4>1. pc'[d] = pc[d] /\ cursor'[d] = cursor[d]
        BY <1>0, <2>1, <3>2 DEF TypeOK
      <4> QED
        BY <1>0, <2>1, <2>3, <2>4, <3>1, <4>1 DEF ExtentInv
    <3>3. CASE d = c
      <4>1. /\ cursor'[c] = cursor[c] + 1
            /\ \/ pc[c] = "write_k" /\ pc'[c] = "write_v"
               \/ pc[c] = "write_v" /\ pc'[c] = "mark"
        BY <1>0, <2>1 DEF TypeOK
      <4> QED
        BY <2>1, <2>2, <2>3, <2>4, <3>1, <3>3, <4>1 DEF ExtentInv
    <3> QED
      BY <3>2, <3>3
  <2> QED
    BY <1>0, <2>1, <2>5, <2>6, <2>7 DEF ExtentInv
<1>6. ASSUME NEW c \in Caches, MarkCold(c) PROVE ExtentInv'
  <2>1. /\ UNCHANGED <<cold_file, started, dropped, cursor, victim, offset>>
        /\ cold' = [cold EXCEPT ![c][victim[c]] = offset[c]]
        /\ contents' = [contents EXCEPT ![c][victim[c]] = <<>>]
        /\ pc[c] = "mark" /\ pc' = [pc EXCEPT ![c] = "idle"]
    BY <1>6 DEF MarkCold, RecordOffset
  <2>2. offset[c] \in Nat /\ offset[c] + 2 <= Len(cold_file) /\ victim[c] \in Pages
    BY <1>0, <2>1 DEF ExtentInv, TypeOK
  <2>3. TypeOK'
    BY <1>0, <2>1, <2>2 DEF TypeOK
  <2>4. offset[c] # NotCold
    BY <2>2 DEF NotCold
  <2>5. \A d \in Caches, q \in Pages :
          IF cold'[d][q] = NotCold THEN Len(contents'[d][q]) = 2
                                   ELSE cold'[d][q] + 2 <= Len(cold_file')
    BY <1>0, <2>1, <2>2, <2>4 DEF ExtentInv, TypeOK
  <2>6. \A d \in Caches : d # c => pc'[d] = pc[d] /\ cold'[d] = cold[d]
    BY <1>0, <2>1 DEF TypeOK
  <2>7. pc'[c] = "idle"
    BY <1>0, <2>1 DEF TypeOK
  <2>8. contents' \in [Caches -> [Pages -> {<<>>} \cup Seq(Halves)]]
    BY <1>0, <2>1, <2>2
  <2> QED
    BY <1>0, <2>1, <2>3, <2>5, <2>6, <2>7, <2>8 DEF ExtentInv
<1> QED
  BY <1>1, <1>2, <1>3, <1>4, <1>5, <1>6 DEF Next

\* So it begins.
LEMMA ExtentInit == Init => ExtentInv
<1> SUFFICES ASSUME Init PROVE ExtentInv
  OBVIOUS
<1>1. AnyPage \in Pages
  BY SharingAssumption DEF AnyPage
<1>2. TypeOK
  BY <1>1 DEF Init, TypeOK
<1>3. \A c \in Caches, p \in Pages : Rows(c, p) \in Seq(Halves) /\ Len(Rows(c, p)) = 2
  BY RowsAreHalves
<1>4. contents = [c \in Caches |-> [p \in Pages |-> Rows(c, p)]]
  BY DEF Init
<1> QED
  BY <1>2, <1>3, <1>4 DEF Init, ExtentInv

\* However many generations share the file, it holds half records only and
\* every cache keeps its types.
THEOREM SharingTypes == Spec => []TypeOK
<1>1. ExtentInv => TypeOK
  BY DEF ExtentInv
<1> QED
  BY <1>1, ExtentInit, ExtentKept, PTL DEF Spec

\* However many generations share the file, read_exact never runs off its end:
\* an overlap exchanges pages, it does not lose them.
THEOREM OffsetsReadable == Spec => []ColdOffsetsReadable
<1>1. ExtentInv => ColdOffsetsReadable
  <2> SUFFICES ASSUME ExtentInv, NEW c \in Live, NEW p \in Pages, cold[c][p] # NotCold
               PROVE  cold[c][p] + 2 <= Len(cold_file)
    BY DEF ColdOffsetsReadable
  <2>1. c \in Caches
    BY DEF ExtentInv, TypeOK, Live
  <2> QED
    BY <2>1 DEF ExtentInv
<1> QED
  BY <1>1, ExtentInit, ExtentKept, PTL DEF Spec
====
