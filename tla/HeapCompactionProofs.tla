------------------------ MODULE HeapCompactionProofs ------------------------
(***************************************************************************)
(* Proofs about the heap phase, for every table, page size, number of      *)
(* attempts and interleaving with applications.  HeapInv is the inductive  *)
(* invariant: that of the loop, and what relates the relation to the drain *)
(* transaction and to the cursor.                                          *)
(***************************************************************************)
EXTENDS HeapCompaction, CompactLoopProofs, SetLemmas

Touched == DOMAIN drain.saved

(* Rows whose old version the transaction has left dead on page p.         *)
Displaced(p) == {r \in Touched : drain.saved[r] = p}

(* Where a row is if the transaction is rolled back.                       *)
Settled(r) == IF r \in Touched THEN drain.saved[r] ELSE place[r]

SavedPlaces == UNION {[D -> Pages] : D \in SUBSET Rows}

Drains == [open : BOOLEAN, before : Nat, attempts : Nat, next : BOOLEAN, todo : SUBSET Rows,
           batch : SUBSET Rows, saved : SavedPlaces]

DrainTypeOK ==
    /\ drain \in Drains
    /\ drain.open => pc = "rewrite"
    /\ ~drain.open => drain = NoDrain

(* Nothing is on pages that the file does not have.                        *)
FileOK == \A p \in Pages : p >= npages => dead[p] = 0

(* What the open transaction has done: the versions it replaced are dead   *)
(* where they were, and a row it has updated is below from_page unless the *)
(* running UPDATE has returned it or will update it again.                 *)
DrainOK ==
    /\ \A r \in drain.todo : place[r] # Absent
    /\ drain.batch \subseteq Touched
    /\ \A r \in Touched : place[r] # Absent /\ drain.saved[r] < npages
    /\ \A p \in Pages : Cardinality(Displaced(p)) <= dead[p]
    /\ \A r \in Touched : place[r] < from \/ r \in drain.todo \/ r \in drain.batch

(* Without other writers, and until something fails: no row settles above  *)
(* the old end of the file, and what is appended or dead there waits for   *)
(* VACUUM, if the last one had not to leave it.                            *)
Undisturbed == writes = 0 /\ ~failed /\ ~cancelled

Overhang ==
    \/ npages > pagesCurrent
    \/ ~held /\ \E p \in Pages : p >= pagesBefore /\ dead[p] > 0

EndOK ==
    /\ writes \in Nat
    /\ Undisturbed /\ ~held /\ pc = "remeasure" => \A p \in Pages : dead[p] = 0
    /\ pc = "rewrite" => from <= pagesBefore
    /\ Undisturbed /\ pc # "start" =>
          /\ \A r \in Rows : Settled(r) # Absent => Settled(r) < pagesBefore
          /\ Overhang => cleared > 0 \/ pc \in {"rewrite", "advance"}

HeapInv == IInv /\ HeapTypeOK /\ DrainTypeOK /\ FileOK /\ DrainOK /\ EndOK

----------------------------------------------------------------------------
(* Facts about the operators of HeapCompaction.                            *)

(* Sets of rows can be counted.                                            *)
LEMMA CountRows ==
    ASSUME NEW S \in SUBSET Rows
    PROVE  IsFiniteSet(S) /\ Cardinality(S) \in Nat
BY RowsAssumption, FS_Subset, FS_CardinalityType

(* There are at most n free pages in front of page n.                      *)
LEMMA FreePagesCount ==
    ASSUME NEW n \in Nat
    PROVE  FreePagesBefore(n) \in 0 .. n
<1>. DEFINE S == {q \in Pages : q < n /\ fsm[q] >= LandingSlots}
<1>1. S \subseteq 0 .. n - 1
  BY DEF Pages
<1>2. IsFiniteSet(0 .. n - 1) /\ Cardinality(0 .. n - 1) = n
  BY FS_Interval
<1>3. IsFiniteSet(S) /\ Cardinality(S) <= n
  <2>. HIDE DEF S
  <2>. QED
    BY <1>1, <1>2, FS_Subset
<1>4. Cardinality(S) \in Nat
  BY <1>3, FS_CardinalityType
<1>. QED
  BY <1>3, <1>4 DEF FreePagesBefore

(* Rows and kept versions are on the first Occupied pages, and these are   *)
(* in the file.                                                            *)
LEMMA OccupiedBounds ==
    ASSUME HeapTypeOK, FileOK, NEW kept \in SUBSET Pages, \A p \in kept : dead[p] > 0
    PROVE  /\ Occupied(kept) \in 0 .. npages
           /\ \A r \in Rows : place[r] # Absent => place[r] < Occupied(kept)
           /\ \A p \in kept : p < Occupied(kept)
<1>. DEFINE used == LastUsed(kept)
<1>1. npages \in Nat /\ \A p \in Pages : p \in Nat
  BY HeapAssumption DEF HeapTypeOK, Pages
<1>2. \A p \in used : p \in 0 .. npages - 1
  <2>1. \A p \in Pages : RowsOn(p) # {} => p < npages
    BY RowsAssumption DEF HeapTypeOK, RowsOn, Pages
  <2>2. \A p \in kept : p < npages
    BY <1>1 DEF FileOK
  <2>. QED
    BY <1>1, <2>1, <2>2 DEF LastUsed
<1>3. /\ \A r \in Rows : place[r] # Absent => place[r] \in used
      /\ \A p \in kept : p \in used
  BY DEF HeapTypeOK, LastUsed, RowsOn
<1>. HIDE DEF used
<1>4. CASE used = {}
  BY <1>1, <1>3, <1>4 DEF Occupied, used
<1>5. CASE used # {}
  <2>1. used \subseteq 0 .. npages
    BY <1>1, <1>2
  <2>2. \E p \in used : \A q \in used : q <= p
    BY <1>1, <1>5, <2>1, HasGreatest
  <2>. DEFINE top == CHOOSE p \in used : \A q \in used : q <= p
  <2>3. top \in used /\ \A q \in used : q <= top
    BY <2>2
  <2>4. Occupied(kept) = 1 + top
    BY <1>5 DEF Occupied, used
  <2>5. top \in 0 .. npages - 1
    BY <1>2, <2>3
  <2>. HIDE DEF top
  <2>6. /\ \A r \in Rows : place[r] # Absent => place[r] \in Int /\ place[r] <= top
        /\ \A p \in kept : p \in Int /\ p <= top
    BY <1>2, <1>3, <2>3
  <2>. QED
    BY <1>1, <2>4, <2>5, <2>6
<1>. QED
  BY <1>4, <1>5

(* from_page is the page of a collected row and above none of them.        *)
LEMMA LowestPageIsFound ==
    ASSUME NEW found \in SUBSET Rows, found # {}, \A r \in found : place[r] \in Pages
    PROVE  \E r \in found : LowestPage(found) = place[r]
<1>. DEFINE S == {place[r] : r \in found}
<1>1. S \subseteq Nat /\ S # {}
  BY DEF Pages
<1>2. \E p \in S : \A q \in S : p <= q
  <2>. HIDE DEF S
  <2>. QED
    BY <1>1, HasLeast
<1>3. \E p \in Pages : p \in S /\ \A r \in found : p <= place[r]
  BY <1>2
<1>. QED
  BY <1>3 DEF LowestPage

(* A version goes to a page of the file with a free slot, or to the page   *)
(* that is appended for it.                                                *)
LEMMA TargetsAreFree ==
    ASSUME HeapTypeOK, FileOK, NEW own \in Pages \union {Absent}, own # Absent => own < npages,
           NEW p \in Targets(own)
    PROVE  /\ p \in Pages /\ Free(p) > 0
           /\ Grown(p) \in 0 .. MaxPages /\ npages <= Grown(p) /\ p < Grown(p)
<1>1. npages \in 0 .. MaxPages /\ MaxPages \in Nat /\ Slots \in Nat \ {0}
  BY HeapAssumption DEF HeapTypeOK
<1>2. p \in Pages /\ ((Free(p) > 0 /\ p < npages) \/ p = npages)
  BY <1>1 DEF Targets, Pages
<1>3. CASE p = npages /\ p \in Pages
  <2>1. dead[p] = 0
    BY <1>1, <1>3 DEF FileOK
  <2>2. RowsOn(p) = {}
    BY <1>1, <1>3, RowsAssumption DEF HeapTypeOK, RowsOn, Pages
  <2>3. Free(p) = Slots
    BY <1>1, <2>1, <2>2, FS_EmptySet DEF Free
  <2>. QED
    BY <1>1, <1>3, <2>3 DEF Grown, Pages
<1>. QED
  BY <1>1, <1>2, <1>3 DEF Grown, Pages

----------------------------------------------------------------------------
(* The drain.                                                              *)

LEMMA DrainIsTyped ==
    ASSUME NEW o \in BOOLEAN, NEW b \in Nat, NEW a \in Nat, NEW n \in BOOLEAN,
           NEW t \in SUBSET Rows, NEW returned \in SUBSET Rows, NEW s \in SavedPlaces
    PROVE  [open |-> o, before |-> b, attempts |-> a, next |-> n, todo |-> t, batch |-> returned,
            saved |-> s] \in Drains
BY DEF Drains

RelationInv == HeapTypeOK /\ DrainTypeOK /\ FileOK /\ DrainOK /\ EndOK

(* One row of the running UPDATE: the slot it leaves is dead, the slot it  *)
(* takes was free.                                                         *)
LEMMA DrainRowInv ==
    ASSUME RelationInv, NEW r \in drain.todo, NEW p \in Targets(place[r]), DrainRow(r, p)
    PROVE  RelationInv'
<1>. USE DEF RelationInv
<1>. DEFINE own == place[r]
<1>1. /\ r \in Rows /\ own \in Pages /\ own < npages
      /\ drain.open /\ pc = "rewrite"
  BY DEF HeapTypeOK, DrainTypeOK, Drains, DrainOK, NoDrain
<1>2. /\ p \in Pages /\ Free(p) > 0
      /\ npages' \in 0 .. MaxPages /\ npages <= npages' /\ p < npages'
  BY <1>1, TargetsAreFree DEF DrainRow
<1>3. /\ place' = [place EXCEPT ![r] = p] /\ dead' = [dead EXCEPT ![own] = @ + 1]
      /\ UNCHANGED <<vars, fsm, from, held, writes>>
  BY DEF DrainRow
<1>4. /\ npages \in Nat /\ Slots \in Nat /\ MaxPages \in Nat /\ own \in Nat /\ p \in Nat
      /\ \A q \in Pages : q \in Nat /\ dead[q] \in 0 .. Slots /\ Free(q) \in Int /\ Free(q) >= 0
                          /\ Cardinality(RowsOn(q)) \in Nat
  <2>1. \A q \in Pages : Cardinality(RowsOn(q)) \in Nat
    BY CountRows DEF RowsOn
  <2>2. Slots \in Nat /\ MaxPages \in Nat
    BY HeapAssumption
  <2>3. \A q \in Pages : q \in Nat
    BY <2>2 DEF Pages
  <2>4. \A q \in Pages : dead[q] \in 0 .. Slots /\ dead[q] \in Int /\ Free(q) >= 0
    BY <2>2 DEF HeapTypeOK
  <2>5. \A q \in Pages : Free(q) \in Int
    BY <2>1, <2>2, <2>4 DEF Free
  <2>6. npages \in Nat
    BY <2>2 DEF HeapTypeOK
  <2>. QED
    BY <1>1, <1>2, <2>1, <2>2, <2>3, <2>4, <2>5, <2>6
<1>5. \A q \in Pages : Free(q)' \in Nat /\ dead'[q] \in 0 .. Slots
  <2>. SUFFICES ASSUME NEW q \in Pages
                PROVE  Free(q)' \in Nat /\ dead'[q] \in 0 .. Slots
    OBVIOUS
  <2>1. /\ IsFiniteSet(RowsOn(q)) /\ (r \in RowsOn(q) <=> q = own)
        /\ Free(q) = Slots - Cardinality(RowsOn(q)) - dead[q]
        /\ Free(q)' = Slots - Cardinality(RowsOn(q)') - dead'[q]
        /\ dead'[q] = IF q = own THEN dead[q] + 1 ELSE dead[q]
    BY <1>1, <1>3, CountRows DEF HeapTypeOK, RowsOn, Free
  <2>2. /\ q = p => RowsOn(q)' = RowsOn(q) \union {r}
        /\ q = own /\ q # p => RowsOn(q)' = RowsOn(q) \ {r}
        /\ q # own /\ q # p => RowsOn(q)' = RowsOn(q)
    BY <1>1, <1>3 DEF HeapTypeOK, RowsOn
  <2>3. /\ Cardinality(RowsOn(q) \union {r})
              = IF q = own THEN Cardinality(RowsOn(q)) ELSE Cardinality(RowsOn(q)) + 1
        /\ q = own => Cardinality(RowsOn(q) \ {r}) = Cardinality(RowsOn(q)) - 1
    <3>1. IsFiniteSet(RowsOn(q)) /\ (r \in RowsOn(q) <=> q = own)
      BY <2>1
    <3>2. Cardinality(RowsOn(q) \union {r})
             = IF r \in RowsOn(q) THEN Cardinality(RowsOn(q)) ELSE Cardinality(RowsOn(q)) + 1
      BY <3>1, FS_AddElement
    <3>3. Cardinality(RowsOn(q) \ {r})
             = IF r \in RowsOn(q) THEN Cardinality(RowsOn(q)) - 1 ELSE Cardinality(RowsOn(q))
      BY <3>1, FS_RemoveElement
    <3>. QED
      BY <3>1, <3>2, <3>3
  <2>4. Cardinality(RowsOn(q)') \in Nat
    BY CountRows DEF RowsOn
  <2>. QED
    <3>1. /\ Slots \in Nat /\ dead[q] \in Nat /\ Free(q) >= 0
          /\ Cardinality(RowsOn(q)) \in Nat /\ (q = p => Free(q) > 0)
      BY <1>2, <1>4
    <3>2. Cardinality(RowsOn(q)') = IF q = p THEN Cardinality(RowsOn(q) \union {r})
                                    ELSE IF q = own THEN Cardinality(RowsOn(q) \ {r})
                                    ELSE Cardinality(RowsOn(q))
      BY <2>2
    <3>. HIDE DEF own
    <3>. QED
      BY <2>1, <2>3, <2>4, <3>1, <3>2
<1>6. HeapTypeOK'
  <2>1. dead' \in [Pages -> 0 .. Slots] /\ fsm' \in [Pages -> 0 .. Slots]
    BY <1>1, <1>3, <1>5 DEF HeapTypeOK
  <2>2. place' \in [Rows -> Pages \union {Absent}] /\ from' \in Nat
    BY <1>1, <1>2, <1>3 DEF HeapTypeOK
  <2>3. \A q \in Rows : place'[q] # Absent => place'[q] < npages'
    <3>. SUFFICES ASSUME NEW q \in Rows, place'[q] # Absent
                  PROVE  place'[q] < npages'
      OBVIOUS
    <3>1. CASE q = r
      BY <1>1, <1>2, <1>3, <3>1 DEF HeapTypeOK
    <3>2. CASE q # r
      <4>1. place'[q] = place[q] /\ place[q] \in Nat /\ place[q] < npages
        BY <1>3, <3>2 DEF HeapTypeOK, Pages
      <4>. QED
        BY <1>2, <1>4, <4>1
    <3>. QED
      BY <3>1, <3>2
  <2>. QED
    BY <1>2, <1>5, <2>1, <2>2, <2>3 DEF HeapTypeOK
<1>7. FileOK'
  BY <1>1, <1>2, <1>3, <1>4 DEF FileOK, HeapTypeOK
<1>8. /\ drain'.open /\ drain'.before = drain.before /\ drain'.attempts = drain.attempts
      /\ drain'.todo = drain.todo \ {r} /\ drain'.batch = drain.batch \union {r}
      /\ drain'.saved = [q \in Touched \union {r} |->
                            IF q \in Touched THEN drain.saved[q] ELSE place[q]]
  BY <1>1 DEF DrainRow, DrainTypeOK, Drains, Touched
<1>9. Touched \subseteq Rows /\ \A q \in Touched : drain.saved[q] \in Pages
  BY DEF DrainTypeOK, Drains, SavedPlaces, Touched
<1>10. Touched' = Touched \union {r}
  BY <1>8 DEF Touched
<1>11. \A q \in Touched \union {r} : drain'.saved[q] = IF q \in Touched THEN drain.saved[q] ELSE place[q]
  BY <1>8
<1>12. DrainTypeOK'
  <2>1. drain'.saved \in [Touched \union {r} -> Pages] /\ Touched \union {r} \in SUBSET Rows
    BY <1>1, <1>8, <1>9
  <2>2. drain' = [drain EXCEPT !.todo = drain.todo \ {r}, !.batch = drain.batch \union {r},
                               !.saved = drain'.saved]
    BY <1>1, <1>8 DEF DrainRow, DrainTypeOK, Drains
  <2>3. pc' = "rewrite"
    BY <1>1, <1>3 DEF vars
  <2>4. drain'.saved \in SavedPlaces
    BY <2>1 DEF SavedPlaces
  <2>5. /\ drain.todo \ {r} \in SUBSET Rows
        /\ drain.batch \union {r} \in SUBSET Rows
    BY <1>1 DEF DrainTypeOK, Drains
  <2>. HIDE DEF own
  <2>6. drain' \in Drains
    BY <2>2, <2>4, <2>5 DEF DrainTypeOK, Drains
  <2>. QED
    BY <1>8, <2>3, <2>6 DEF DrainTypeOK
<1>13. DrainOK'
  <2>1. \A q \in drain'.todo : place'[q] # Absent
    BY <1>1, <1>3, <1>8 DEF DrainOK, DrainTypeOK, Drains, HeapTypeOK
  <2>2. \A q \in Touched' : place'[q] # Absent /\ drain'.saved[q] < npages'
    <3>. SUFFICES ASSUME NEW q \in Touched'
                  PROVE  place'[q] # Absent /\ drain'.saved[q] < npages'
      OBVIOUS
    <3>1. place'[q] # Absent
      BY <1>1, <1>3, <1>4, <1>10, RowsAssumption DEF DrainOK, HeapTypeOK
    <3>2. CASE q \in Touched
      <4>1. drain.saved[q] \in Nat /\ drain.saved[q] < npages
        BY <1>9, <3>2 DEF DrainOK, Pages
      <4>. QED
        BY <1>2, <1>4, <1>11, <3>1, <3>2, <4>1 DEF Pages
    <3>3. CASE q \notin Touched
      BY <1>1, <1>2, <1>4, <1>10, <1>11, <3>1, <3>3
    <3>. QED
      BY <3>2, <3>3
  <2>3. ASSUME NEW q \in Pages
        PROVE  Cardinality(Displaced(q)') <= dead'[q]
    <3>1. /\ IsFiniteSet(Displaced(q)) /\ Cardinality(Displaced(q)) \in Nat
          /\ Cardinality(Displaced(q)) <= dead[q]
      BY <1>9, CountRows DEF Displaced, DrainOK
    <3>2. CASE r \notin Touched /\ q = own
      <4>1. Displaced(q)' = Displaced(q) \union {r}
        BY <1>10, <1>11, <3>2 DEF Displaced
      <4>2. dead'[q] = dead[q] + 1
        BY <1>3, <3>2 DEF HeapTypeOK
      <4>3. Cardinality(Displaced(q) \union {r}) = Cardinality(Displaced(q)) + 1
        BY <3>1, <3>2, FS_AddElement DEF Displaced
      <4>. QED
        BY <1>4, <3>1, <4>1, <4>2, <4>3
    <3>3. CASE r \in Touched \/ q # own
      <4>1. Displaced(q)' = Displaced(q)
        BY <1>10, <1>11, <3>3 DEF Displaced
      <4>2. dead'[q] >= dead[q]
        BY <1>3, <1>4 DEF HeapTypeOK
      <4>. QED
        BY <1>4, <1>5, <3>1, <4>1, <4>2
    <3>. QED
      BY <3>2, <3>3
  <2>4. \A q \in Touched' : place'[q] < from' \/ q \in drain'.todo \/ q \in drain'.batch
    BY <1>1, <1>3, <1>8, <1>9, <1>10 DEF DrainOK, HeapTypeOK
  <2>. QED
    BY <1>8, <1>10, <2>1, <2>2, <2>3, <2>4 DEF DrainOK
<1>14. EndOK'
  <2>1. \A q \in Rows : Settled(q)' = Settled(q)
    BY <1>1, <1>3, <1>10, <1>11 DEF Settled, HeapTypeOK
  <2>. QED
    BY <1>1, <1>3, <2>1 DEF EndOK, vars, state, exits, params, walk, Undisturbed
<1>. QED
  BY <1>6, <1>7, <1>12, <1>13, <1>14

(* Without an open transaction there is nothing to undo.                   *)
LEMMA NothingSaved == NoDrain \in Drains /\ NoDrain.saved = <<>> /\ DOMAIN <<>> = {}
<1>1. <<>> \in [{} -> Pages]
  OBVIOUS
<1>2. <<>> \in SavedPlaces
  BY <1>1 DEF SavedPlaces
<1>. QED
  BY <1>1, <1>2, DrainIsTyped DEF NoDrain

LEMMA EndDrainInv ==
    ASSUME EndDrain, HeapTypeOK'
    PROVE  DrainTypeOK' /\ DrainOK' /\ \A r \in Rows : Settled(r)' = place'[r]
<1>1. drain' = NoDrain /\ drain' \in Drains /\ Touched' = {}
  BY NothingSaved DEF EndDrain, Touched
<1>2. DrainTypeOK'
  BY <1>1 DEF DrainTypeOK, NoDrain
<1>3. \A p \in Pages : Displaced(p)' = {} /\ dead'[p] \in Nat
  BY <1>1, HeapAssumption DEF Displaced, HeapTypeOK
<1>4. DrainOK'
  <2>1. \A p \in Pages : Cardinality(Displaced(p)') = 0
    BY <1>3, FS_EmptySet
  <2>2. \A p \in Pages : Cardinality(Displaced(p)') <= dead'[p]
    BY <1>3, <2>1
  <2>3. drain'.todo = {} /\ drain'.batch = {}
    BY <1>1 DEF NoDrain
  <2>. QED
    BY <1>1, <2>2, <2>3 DEF DrainOK
<1>. QED
  BY <1>1, <1>2, <1>4 DEF Settled

(* A rollback takes the rows back to where they were; the versions that it *)
(* discards are as dead as those that it revives were.                     *)
LEMMA UndoInv ==
    ASSUME RelationInv, Undo, EndDrain
    PROVE  /\ HeapTypeOK' /\ FileOK' /\ DrainTypeOK' /\ DrainOK'
           /\ \A r \in Rows : place'[r] = Settled(r) /\ Settled(r)' = Settled(r)
<1>. USE DEF RelationInv
<1>1. /\ place' = [r \in Rows |-> Settled(r)] /\ UNCHANGED <<npages, fsm, held, writes>> /\ from' = 0
      /\ Touched \subseteq Rows /\ \A r \in Touched : drain.saved[r] \in Pages /\ drain.saved[r] < npages
      /\ \A r \in Touched : place[r] \in Pages /\ place[r] < npages
  BY DEF Undo, EndDrain, Settled, Touched, DrainTypeOK, Drains, SavedPlaces, DrainOK, HeapTypeOK
<1>2. ASSUME NEW p \in Pages
      PROVE  dead'[p] \in 0 .. Slots /\ Free(p)' \in Nat /\ (p >= npages => dead'[p] = 0)
  <2>. DEFINE Discarded == {r \in Touched : place[r] = p}
              Others    == {r \in RowsOn(p) : r \notin Touched}
  <2>1. /\ dead'[p] = dead[p] + Cardinality(Discarded) - Cardinality(Displaced(p))
        /\ Cardinality(Displaced(p)) <= dead[p] /\ dead[p] \in Nat /\ Slots \in Nat
        /\ Free(p) = Slots - Cardinality(RowsOn(p)) - dead[p] /\ Free(p) >= 0
        /\ Free(p)' = Slots - Cardinality(RowsOn(p)') - dead'[p]
    BY HeapAssumption DEF Undo, Touched, Displaced, DrainOK, HeapTypeOK, Free
  <2>2. /\ Discarded \in SUBSET Rows /\ Displaced(p) \in SUBSET Rows
        /\ Others \in SUBSET Rows /\ RowsOn(p) \in SUBSET Rows /\ RowsOn(p)' \in SUBSET Rows
    BY <1>1 DEF Displaced, RowsOn
  <2>3. /\ RowsOn(p) = Others \union Discarded /\ Others \cap Discarded = {}
        /\ RowsOn(p)' = Others \union Displaced(p) /\ Others \cap Displaced(p) = {}
    BY <1>1 DEF RowsOn, Displaced, Settled
  <2>. HIDE DEF Discarded, Others
  <2>4. /\ IsFiniteSet(Discarded) /\ Cardinality(Discarded) \in Nat
        /\ IsFiniteSet(Others) /\ Cardinality(Others) \in Nat
        /\ IsFiniteSet(Displaced(p)) /\ Cardinality(Displaced(p)) \in Nat
    BY <2>2, CountRows
  <2>5. Cardinality(RowsOn(p)) = Cardinality(Others) + Cardinality(Discarded)
    <3>1. Cardinality(Others \union Discarded)
             = Cardinality(Others) + Cardinality(Discarded) - Cardinality(Others \cap Discarded)
      BY <2>4, FS_Union
    <3>2. Cardinality(Others \cap Discarded) = 0
      BY <2>3, FS_EmptySet
    <3>. QED
      BY <2>3, <2>4, <3>1, <3>2
  <2>6. Cardinality(RowsOn(p)') = Cardinality(Others) + Cardinality(Displaced(p))
    <3>1. Cardinality(Others \union Displaced(p))
             = Cardinality(Others) + Cardinality(Displaced(p)) - Cardinality(Others \cap Displaced(p))
      BY <2>4, FS_Union
    <3>2. Cardinality(Others \cap Displaced(p)) = 0
      BY <2>3, FS_EmptySet
    <3>. QED
      BY <2>3, <2>4, <3>1, <3>2
  <2>7. p >= npages => dead[p] = 0 /\ Discarded = {}
    BY <1>1 DEF FileOK, Discarded, Pages, HeapTypeOK
  <2>8. p >= npages => dead'[p] = 0
    BY <2>1, <2>4, <2>7, FS_EmptySet
  <2>. QED
    BY <2>1, <2>4, <2>5, <2>6, <2>8
<1>3. HeapTypeOK'
  <2>1. dead' \in [Pages -> 0 .. Slots]
    BY <1>2 DEF Undo
  <2>2. place' \in [Rows -> Pages \union {Absent}]
    BY <1>1 DEF Settled, HeapTypeOK
  <2>3. \A r \in Rows : place'[r] # Absent => place'[r] < npages'
    BY <1>1 DEF Settled, HeapTypeOK
  <2>. QED
    BY <1>1, <1>2, <2>1, <2>2, <2>3 DEF HeapTypeOK
<1>. QED
  BY <1>1, <1>2, <1>3, EndDrainInv DEF FileOK

LEMMA DrainBeginInv ==
    ASSUME RelationInv, DrainBegin
    PROVE  RelationInv'
<1>. USE DEF RelationInv
<1>1. /\ drain = NoDrain /\ pc = "rewrite" /\ UNCHANGED <<vars, relation, from>>
      /\ drain' = [open |-> TRUE, before |-> npages, attempts |-> 0, next |-> TRUE, todo |-> {},
                   batch |-> {}, saved |-> <<>>]
  BY DEF DrainBegin, DrainTypeOK, NoDrain
<1>2. /\ Touched = {} /\ Touched' = {} /\ \A p \in Pages : Displaced(p)' = Displaced(p)
      /\ \A r \in Rows : Settled(r)' = Settled(r)
  BY <1>1, NothingSaved DEF Touched, Displaced, Settled, relation, NoDrain
<1>3. HeapTypeOK' /\ FileOK'
  BY <1>1 DEF HeapTypeOK, FileOK, relation, RowsOn, Free
<1>4. DrainTypeOK'
  <2>1. npages \in Nat /\ {} \in SUBSET Rows /\ <<>> \in SavedPlaces
    BY HeapAssumption, NothingSaved DEF HeapTypeOK, Drains, NoDrain
  <2>2. drain' \in Drains
    BY <1>1, <2>1, DrainIsTyped
  <2>. QED
    BY <1>1, <2>2 DEF DrainTypeOK, vars
<1>5. DrainOK'
  BY <1>1, <1>2 DEF DrainOK, relation
<1>6. EndOK'
  BY <1>1, <1>2 DEF EndOK, Undisturbed, Overhang, vars, state, exits, params, walk, relation
<1>. QED
  BY <1>3, <1>4, <1>5, <1>6

(* The next UPDATE finds every row of the table at or above from_page.     *)
LEMMA DrainUpdateInv ==
    ASSUME RelationInv, DrainUpdate
    PROVE  RelationInv'
<1>. USE DEF RelationInv
<1>1. /\ drain.open /\ pc = "rewrite" /\ UNCHANGED <<vars, relation, from>>
      /\ drain' = [open |-> TRUE, before |-> drain.before, attempts |-> drain.attempts + 1,
                   next |-> FALSE, todo |-> RowsFrom(from), batch |-> {}, saved |-> drain.saved]
      /\ drain.before \in Nat /\ drain.attempts \in Nat /\ drain.saved \in SavedPlaces
  <2>1. drain.open
    <3>1. drain.next /\ NoDrain.next = FALSE
      BY DEF DrainUpdate, NoDrain
    <3>2. drain # NoDrain
      BY <3>1
    <3>. QED
      BY <3>2 DEF DrainTypeOK
  <2>. QED
    BY <2>1 DEF DrainUpdate, DrainTypeOK, Drains
<1>2. /\ Touched' = Touched /\ Touched \subseteq Rows /\ drain'.saved = drain.saved
      /\ \A p \in Pages : Displaced(p)' = Displaced(p)
      /\ \A r \in Rows : Settled(r)' = Settled(r)
  BY <1>1 DEF Touched, Displaced, Settled, relation, SavedPlaces
<1>3. HeapTypeOK' /\ FileOK'
  BY <1>1 DEF HeapTypeOK, FileOK, relation, RowsOn, Free
<1>4. DrainTypeOK'
  <2>1. RowsFrom(from) \in SUBSET Rows /\ {} \in SUBSET Rows /\ drain.attempts + 1 \in Nat
    BY <1>1 DEF RowsFrom
  <2>2. drain' \in Drains
    BY <1>1, <2>1, DrainIsTyped
  <2>. QED
    BY <1>1, <2>2 DEF DrainTypeOK, vars
<1>5. DrainOK'
  <2>1. \A r \in Touched : place[r] < from \/ r \in RowsFrom(from)
    BY <1>2 DEF DrainOK, RowsFrom, HeapTypeOK, Pages
  <2>. QED
    BY <1>1, <1>2, <2>1 DEF DrainOK, RowsFrom, relation
<1>6. EndOK'
  BY <1>1, <1>2 DEF EndOK, Undisturbed, Overhang, vars, state, exits, params, walk, relation
<1>. QED
  BY <1>3, <1>4, <1>5, <1>6

LEMMA DrainAgainInv ==
    ASSUME RelationInv, DrainAgain
    PROVE  RelationInv'
<1>. USE DEF RelationInv
<1>1. /\ drain.open /\ pc = "rewrite" /\ UNCHANGED <<vars, relation, from>>
      /\ drain' = [open |-> TRUE, before |-> drain.before, attempts |-> drain.attempts,
                   next |-> TRUE, todo |-> drain.todo, batch |-> drain.batch, saved |-> drain.saved]
      /\ drain.before \in Nat /\ drain.attempts \in Nat /\ drain.saved \in SavedPlaces
      /\ drain.todo \in SUBSET Rows /\ drain.batch \in SUBSET Rows
  BY DEF DrainAgain, StatementDone, DrainTypeOK, Drains
<1>2. /\ Touched' = Touched /\ Touched \subseteq Rows /\ drain'.saved = drain.saved
      /\ \A p \in Pages : Displaced(p)' = Displaced(p)
      /\ \A r \in Rows : Settled(r)' = Settled(r)
  BY <1>1 DEF Touched, Displaced, Settled, relation, SavedPlaces
<1>3. HeapTypeOK' /\ FileOK'
  BY <1>1 DEF HeapTypeOK, FileOK, relation, RowsOn, Free
<1>4. DrainTypeOK'
  <2>1. drain' \in Drains
    BY <1>1, DrainIsTyped
  <2>. QED
    BY <1>1, <2>1 DEF DrainTypeOK, vars
<1>5. DrainOK'
  BY <1>1, <1>2 DEF DrainOK, relation
<1>6. EndOK'
  BY <1>1, <1>2 DEF EndOK, Undisturbed, Overhang, vars, state, exits, params, walk, relation
<1>. QED
  BY <1>3, <1>4, <1>5, <1>6

(* When a drain commits, all its rows are below from_page.                 *)
LEMMA CommittedBelow ==
    ASSUME RelationInv, DrainCommit
    PROVE  \A r \in Touched : place[r] < from
BY DEF RelationInv, DrainCommit, StatementDone, StillStuck, DrainOK, DrainTypeOK, Drains,
       SavedPlaces, Touched, HeapTypeOK, Pages

LEMMA DrainCommitInv ==
    ASSUME IInv, RelationInv, DrainCommit
    PROVE  RelationInv'
<1>. USE DEF RelationInv
<1>1. /\ pc = "rewrite" /\ pc' = "advance" /\ UNCHANGED <<state, relation>> /\ EndDrain
  BY DEF DrainCommit, Rewrite, Jump, Goto
<1>2. HeapTypeOK' /\ FileOK'
  BY <1>1 DEF HeapTypeOK, FileOK, relation, RowsOn, Free, EndDrain
<1>3. DrainTypeOK' /\ DrainOK' /\ \A r \in Rows : Settled(r)' = place'[r]
  BY <1>1, <1>2, EndDrainInv
<1>4. ASSUME Undisturbed, NEW r \in Rows, place[r] # Absent
      PROVE  place[r] < pagesBefore
  <2>1. place[r] \in Nat /\ from \in Nat /\ from <= pagesBefore /\ pagesBefore \in Nat
    BY <1>1, <1>4 DEF HeapTypeOK, EndOK, Pages, IInv, TypeOK
  <2>2. CASE r \in Touched
    BY <2>1, <2>2, CommittedBelow
  <2>3. CASE r \notin Touched
    BY <1>1, <1>4, <2>3 DEF EndOK, Settled
  <2>. QED
    BY <2>2, <2>3
<1>5. EndOK'
  BY <1>1, <1>3, <1>4 DEF EndOK, Undisturbed, Overhang, state, exits, params, walk, relation
<1>. QED
  BY <1>2, <1>3, <1>5

LEMMA DrainRollbackInv ==
    ASSUME RelationInv, DrainRollback
    PROVE  RelationInv'
<1>. USE DEF RelationInv
<1>1. /\ pc = "rewrite" /\ pc' = "advance" /\ UNCHANGED state /\ Undo /\ EndDrain
  BY DEF DrainRollback, Rewrite, Jump, Goto
<1>2. /\ HeapTypeOK' /\ FileOK' /\ DrainTypeOK' /\ DrainOK'
      /\ \A r \in Rows : Settled(r)' = Settled(r)
  BY <1>1, UndoInv
<1>3. EndOK'
  BY <1>1, <1>2 DEF EndOK, Undisturbed, state, exits, params, walk, Undo
<1>. QED
  BY <1>2, <1>3

(* A failure rolls back; what it leaves above the old end may stay.        *)
LEMMA BreakInv ==
    ASSUME RelationInv, HeapBreak
    PROVE  RelationInv'
<1>. USE DEF RelationInv
<1>1. pc' \in {"rollback", "teardown", "raised"} /\ (failed' \/ cancelled') /\ Undo /\ EndDrain
  BY DEF HeapBreak, Break, FailEarly, Cancel, Fail, TeardownFails, Raise
<1>2. HeapTypeOK' /\ FileOK' /\ DrainTypeOK' /\ DrainOK'
  BY <1>1, UndoInv
<1>3. EndOK'
  BY <1>1 DEF EndOK, Undisturbed, Undo
<1>. QED
  BY <1>2, <1>3

----------------------------------------------------------------------------
(* Reading, VACUUM, the way out, and the applications.                     *)

(* Steps that leave the relation alone and do not touch what EndOK reads.  *)
LEMMA StayInv ==
    ASSUME RelationInv, UNCHANGED heapVars, UNCHANGED <<pagesBefore, pagesCurrent, cleared>>,
           pc \notin {"start", "rewrite", "advance"}, pc' \notin {"start", "rewrite", "remeasure"},
           failed => failed', cancelled => cancelled'
    PROVE  RelationInv'
<1>. USE DEF RelationInv, heapVars, relation
<1>1. HeapTypeOK' /\ FileOK'
  BY DEF HeapTypeOK, FileOK, RowsOn, Free
<1>2. DrainTypeOK'
  BY DEF DrainTypeOK
<1>3. DrainOK'
  BY DEF DrainOK, Touched, Displaced
<1>4. \A r \in Rows : Settled(r)' = Settled(r)
  BY DEF Settled, Touched
<1>5. EndOK'
  BY <1>4 DEF EndOK, Undisturbed, Overhang
<1>. QED
  BY <1>1, <1>2, <1>3, <1>5

(* The same, but for what EndOK says afterwards.                           *)
LEMMA UntouchedInv ==
    ASSUME RelationInv, UNCHANGED <<relation, drain>>, from' \in Nat, pc # "rewrite"
    PROVE  /\ HeapTypeOK' /\ DrainTypeOK' /\ FileOK' /\ DrainOK'
           /\ \A r \in Rows : Settled(r) = place[r] /\ Settled(r)' = place[r]
<1>. USE DEF RelationInv, relation
<1>1. drain = NoDrain /\ Touched = {} /\ Touched' = {}
  BY NothingSaved DEF DrainTypeOK, Touched
<1>2. HeapTypeOK' /\ FileOK'
  BY DEF HeapTypeOK, FileOK, RowsOn, Free
<1>3. DrainTypeOK'
  BY <1>1 DEF DrainTypeOK, NoDrain
<1>4. DrainOK'
  BY <1>1 DEF DrainOK, Displaced
<1>. QED
  BY <1>1, <1>2, <1>3, <1>4 DEF Settled

LEMMA StartInv ==
    ASSUME RelationInv, Start(npages), UNCHANGED heapVars
    PROVE  RelationInv'
<1>. USE DEF RelationInv, heapVars, relation
<1>1. /\ pc = "start" /\ pc' \in {"setup", "measure"} /\ pagesBefore' = npages /\ pagesCurrent' = npages
  BY DEF Start, Goto
<1>2. /\ HeapTypeOK' /\ DrainTypeOK' /\ FileOK' /\ DrainOK'
      /\ \A r \in Rows : Settled(r)' = place[r]
  BY <1>1, UntouchedInv DEF HeapTypeOK
<1>3. npages \in Nat /\ \A p \in Pages : p >= npages => dead[p] = 0
  BY HeapAssumption DEF HeapTypeOK, FileOK
<1>4. ~Overhang'
  BY <1>1, <1>3 DEF Overhang
<1>5. EndOK'
  BY <1>1, <1>2, <1>4 DEF EndOK, HeapTypeOK
<1>. QED
  BY <1>2, <1>5

(* The measurement after VACUUM settles what was overhanging.              *)
LEMMA RemeasureInv ==
    ASSUME RelationInv, VacuumRemeasure(npages), UNCHANGED heapVars
    PROVE  RelationInv'
<1>. USE DEF RelationInv, heapVars, relation
<1>1. /\ pc = "remeasure" /\ pc' = "relanding" /\ pagesBefore' = pagesBefore /\ pagesCurrent' = npages
      /\ UNCHANGED exits
  BY DEF VacuumRemeasure, Goto, params
<1>2. /\ HeapTypeOK' /\ DrainTypeOK' /\ FileOK' /\ DrainOK'
      /\ \A r \in Rows : Settled(r) = place[r] /\ Settled(r)' = place[r]
  BY <1>1, UntouchedInv DEF HeapTypeOK
<1>3. npages \in Nat /\ (Undisturbed /\ ~held => \A p \in Pages : dead[p] = 0)
  BY <1>1, HeapAssumption DEF HeapTypeOK, EndOK
<1>4. Undisturbed' => Undisturbed /\ ~Overhang'
  BY <1>1, <1>3 DEF Overhang, Undisturbed, exits
<1>5. EndOK'
  BY <1>1, <1>2, <1>4 DEF EndOK
<1>. QED
  BY <1>2, <1>5

LEMMA AdvanceInv ==
    ASSUME IInv, RelationInv, Advance, UNCHANGED heapVars
    PROVE  RelationInv'
<1>. USE DEF RelationInv, heapVars, relation
<1>1. pc = "advance" /\ pc' = "disk" /\ UNCHANGED <<pagesBefore, pagesCurrent, failed, cancelled>>
  BY DEF Advance, Goto, params, exits
<1>2. /\ HeapTypeOK' /\ DrainTypeOK' /\ FileOK' /\ DrainOK'
      /\ \A r \in Rows : Settled(r) = place[r] /\ Settled(r)' = place[r]
  BY <1>1, UntouchedInv DEF HeapTypeOK
<1>3. cleared' > 0
  BY <1>1 DEF Advance, IInv, TypeOK, WindowFitsLanding, InWindow, windowSpan
<1>4. EndOK'
  BY <1>1, <1>2, <1>3 DEF EndOK, Undisturbed
<1>. QED
  BY <1>2, <1>4

(* from_page is in front of the cursor, and so of the old end.             *)
LEMMA CollectInv ==
    ASSUME IInv, RelationInv, NEW found, found = {r \in RowsFrom(winStart) : place[r] < cursor},
           Collect(found # {}), from' = IF found = {} THEN 0 ELSE LowestPage(found),
           UNCHANGED <<relation, drain>>
    PROVE  RelationInv'
<1>. USE DEF RelationInv, relation
<1>1. pc = "collect" /\ pc' \in {"rewrite", "advance"} /\ UNCHANGED state
  BY DEF Collect, Jump, Goto
<1>2. cursor \in Nat /\ pagesBefore \in Nat /\ cursor <= pagesBefore
  BY DEF IInv, TypeOK, DeadTailIsWalked
<1>3. from' \in Nat /\ from' <= pagesBefore
  <2>1. CASE found = {}
    BY <1>2, <2>1
  <2>2. CASE found # {}
    <3>1. \A r \in found : r \in Rows /\ place[r] \in Pages /\ place[r] < cursor
      BY DEF RowsFrom, HeapTypeOK
    <3>2. \E r \in found : LowestPage(found) = place[r]
      BY <2>2, <3>1, LowestPageIsFound
    <3>. QED
      BY <1>2, <2>2, <3>1, <3>2 DEF Pages
  <2>. QED
    BY <2>1, <2>2
<1>4. /\ HeapTypeOK' /\ DrainTypeOK' /\ FileOK' /\ DrainOK'
      /\ \A r \in Rows : Settled(r) = place[r] /\ Settled(r)' = place[r]
  BY <1>1, <1>3, UntouchedInv
<1>5. UNCHANGED <<pagesBefore, pagesCurrent, cleared, failed, cancelled>>
  BY <1>1 DEF state, params, walk, exits
<1>6. EndOK'
  BY <1>1, <1>3, <1>4, <1>5 DEF EndOK, Undisturbed, Overhang
<1>. QED
  BY <1>4, <1>6

(* VACUUM frees what is dead, or some of it, and gives back no page that   *)
(* holds a row or a version that it keeps.                                 *)
LEMMA VacuumInv ==
    ASSUME IInv, RelationInv, HeapVacuum
    PROVE  RelationInv'
<1>. USE DEF RelationInv
<1>1. PICK kept \in SUBSET {p \in Pages : dead[p] > 0} :
         /\ held' = (kept # {})
         /\ npages' \in Occupied(kept) .. npages
         /\ dead' = [p \in Pages |-> IF p \in kept THEN dead[p] ELSE 0]
  BY DEF HeapVacuum
<1>2. /\ pc = "vacuum" /\ pc' = "remeasure" /\ UNCHANGED <<state, place, from, drain, writes>>
      /\ fsm' = [p \in Pages |-> IF p < npages' THEN Slots - Cardinality(RowsOn(p)) - dead'[p] ELSE 0]
  BY DEF HeapVacuum, Vacuum, Jump, Goto
<1>3. /\ Occupied(kept) \in 0 .. npages
      /\ \A r \in Rows : place[r] # Absent => place[r] < Occupied(kept)
      /\ \A p \in kept : p < Occupied(kept)
  <2>1. kept \in SUBSET Pages /\ \A p \in kept : dead[p] > 0
    OBVIOUS
  <2>. QED
    BY <2>1, OccupiedBounds
<1>4. /\ Slots \in Nat /\ MaxPages \in Nat /\ npages \in 0 .. MaxPages
      /\ npages' \in 0 .. MaxPages /\ npages' <= npages /\ Occupied(kept) <= npages'
      /\ Occupied(kept) \in Nat
  BY <1>1, <1>3, HeapAssumption DEF HeapTypeOK
<1>5. ASSUME NEW p \in Pages
      PROVE  /\ dead'[p] \in 0 .. Slots /\ Free(p)' \in 0 .. Slots
             /\ Slots - Cardinality(RowsOn(p)) - dead'[p] \in 0 .. Slots
  <2>1. Cardinality(RowsOn(p)) \in Nat
    BY CountRows DEF RowsOn
  <2>2. dead[p] \in 0 .. Slots /\ Free(p) >= 0 /\ Free(p) = Slots - Cardinality(RowsOn(p)) - dead[p]
    BY <1>4 DEF HeapTypeOK, Free
  <2>3. Free(p)' = Slots - Cardinality(RowsOn(p)) - dead'[p]
    BY <1>2 DEF Free, RowsOn
  <2>4. dead'[p] \in {0, dead[p]}
    BY <1>1
  <2>. QED
    BY <1>4, <2>1, <2>2, <2>3, <2>4
<1>6. HeapTypeOK'
  <2>1. dead' \in [Pages -> 0 .. Slots]
    <3>1. dead' = [p \in Pages |-> dead'[p]]
      BY <1>1
    <3>. QED
      BY <1>5, <3>1
  <2>2. fsm' \in [Pages -> 0 .. Slots]
    <3>1. fsm' = [p \in Pages |-> fsm'[p]]
      BY <1>2
    <3>2. \A p \in Pages : fsm'[p] \in 0 .. Slots
      BY <1>2, <1>4, <1>5
    <3>. QED
      BY <3>1, <3>2
  <2>3. \A r \in Rows : place[r] # Absent => place[r] < npages'
    BY <1>3, <1>4 DEF HeapTypeOK, Pages
  <2>. QED
    BY <1>2, <1>4, <1>5, <2>1, <2>2, <2>3 DEF HeapTypeOK
<1>7. drain = NoDrain /\ drain' = NoDrain /\ Touched = {} /\ Touched' = {}
  BY <1>2, NothingSaved DEF DrainTypeOK, Touched
<1>8. FileOK'
  BY <1>1, <1>3, <1>4 DEF FileOK, Pages
<1>9. DrainTypeOK'
  BY <1>2, <1>7 DEF DrainTypeOK, NoDrain
<1>10. DrainOK'
  <2>1. \A p \in Pages : Cardinality(Displaced(p)') = 0
    BY <1>7, FS_EmptySet DEF Displaced
  <2>2. \A p \in Pages : Cardinality(Displaced(p)') <= dead'[p]
    BY <1>4, <1>5, <2>1
  <2>. QED
    BY <1>7, <2>2 DEF DrainOK, NoDrain
<1>11. EndOK'
  <2>1. UNCHANGED <<pagesBefore, pagesCurrent, cleared, failed, cancelled>>
    BY <1>2 DEF state, params, walk, exits
  <2>2. \A r \in Rows : Settled(r)' = Settled(r)
    BY <1>2, <1>7 DEF Settled
  <2>3. ~held' => \A p \in Pages : dead'[p] = 0
    BY <1>1
  <2>4. Overhang' => npages' > pagesCurrent
    BY <1>2, <2>1, <2>3 DEF Overhang
  <2>5. npages' > pagesCurrent => npages > pagesCurrent
    BY <1>4 DEF IInv, TypeOK
  <2>. QED
    BY <1>2, <2>1, <2>2, <2>3, <2>4, <2>5 DEF EndOK, Undisturbed, Overhang
<1>. QED
  BY <1>6, <1>8, <1>9, <1>10, <1>11

(* An application takes a free slot, ...                                   *)
LEMMA InsertInv ==
    ASSUME RelationInv, NEW r \in Rows, AppInsert(r), writes < MaxWrites, writes' = writes + 1,
           UNCHANGED <<vars, fsm, from, held>>
    PROVE  RelationInv'
<1>. USE DEF RelationInv
<1>1. PICK p \in Targets(Absent) : place' = [place EXCEPT ![r] = p] /\ npages' = Grown(p)
  BY DEF AppInsert
<1>2. place[r] = Absent /\ UNCHANGED <<dead, drain, vars, fsm, from>>
  BY DEF AppInsert
<1>3. /\ p \in Pages /\ Free(p) > 0 /\ p \in Nat /\ npages \in Nat
      /\ npages' \in 0 .. MaxPages /\ npages <= npages' /\ p < npages'
  <2>1. p \in Pages /\ Free(p) > 0 /\ Grown(p) \in 0 .. MaxPages /\ npages <= Grown(p) /\ p < Grown(p)
    BY TargetsAreFree
  <2>. QED
    BY <1>1, <2>1, HeapAssumption DEF HeapTypeOK, Pages
<1>4. place' \in [Rows -> Pages \union {Absent}] /\ p # Absent
  BY <1>1, <1>3, RowsAssumption DEF HeapTypeOK
<1>5. ASSUME NEW q \in Pages
      PROVE  Free(q)' \in Nat
  <2>1. /\ IsFiniteSet(RowsOn(q)) /\ Cardinality(RowsOn(q)) \in Nat /\ r \notin RowsOn(q)
        /\ Slots \in Nat /\ dead[q] \in Nat /\ q \in Nat
        /\ Free(q) = Slots - Cardinality(RowsOn(q)) - dead[q] /\ Free(q) >= 0
        /\ Free(q)' = Slots - Cardinality(RowsOn(q)') - dead[q]
    BY <1>2, CountRows, HeapAssumption, RowsAssumption DEF HeapTypeOK, RowsOn, Free, Pages
  <2>2. /\ q = p => RowsOn(q)' = RowsOn(q) \union {r}
        /\ q # p => RowsOn(q)' = RowsOn(q)
    BY <1>1, <1>2, <2>1 DEF HeapTypeOK, RowsOn
  <2>3. Cardinality(RowsOn(q) \union {r}) = Cardinality(RowsOn(q)) + 1
    BY <2>1, FS_AddElement
  <2>4. q = p => Free(q) > 0
    BY <1>3
  <2>. QED
    BY <2>1, <2>2, <2>3, <2>4
<1>6. HeapTypeOK'
  <2>1. \A q \in Rows : place'[q] # Absent => place'[q] < npages'
    <3>. SUFFICES ASSUME NEW q \in Rows, place'[q] # Absent
                  PROVE  place'[q] < npages'
      OBVIOUS
    <3>1. CASE q = r
      BY <1>1, <1>3, <3>1 DEF HeapTypeOK
    <3>2. CASE q # r
      <4>1. place'[q] = place[q] /\ place[q] \in Nat /\ place[q] < npages
        BY <1>1, <3>2 DEF HeapTypeOK, Pages
      <4>. QED
        BY <1>3, <4>1
    <3>. QED
      BY <3>1, <3>2
  <2>. QED
    BY <1>2, <1>3, <1>4, <1>5, <2>1 DEF HeapTypeOK
<1>7. FileOK' /\ DrainTypeOK'
  BY <1>2, <1>3 DEF FileOK, DrainTypeOK, Pages, vars
<1>8. DrainOK'
  <2>1. /\ r \notin drain.todo /\ r \notin Touched /\ Touched' = Touched /\ Touched \subseteq Rows
        /\ drain.todo \subseteq Rows
    BY <1>2 DEF DrainOK, Touched, DrainTypeOK, Drains, SavedPlaces
  <2>2. \A q \in Rows : q # r => place'[q] = place[q]
    BY <1>1 DEF HeapTypeOK
  <2>3. \A q \in Touched : drain.saved[q] \in Nat
    BY DEF DrainTypeOK, Drains, SavedPlaces, Touched, Pages
  <2>4. \A q \in Touched : drain.saved[q] < npages'
    BY <1>3, <2>3 DEF DrainOK
  <2>. QED
    BY <1>2, <2>1, <2>2, <2>4 DEF DrainOK, Displaced
<1>9. EndOK'
  <2>1. writes' # 0 /\ writes' \in Nat
    BY DEF EndOK
  <2>. QED
    BY <1>2, <2>1 DEF EndOK, Undisturbed, vars, state, params
<1>. QED
  BY <1>6, <1>7, <1>8, <1>9

(* ... or leaves a dead version; a row that the transaction has updated is *)
(* locked.                                                                 *)
LEMMA DeleteInv ==
    ASSUME RelationInv, NEW r \in Rows, AppDelete(r), writes < MaxWrites, writes' = writes + 1,
           UNCHANGED <<vars, fsm, from, held>>
    PROVE  RelationInv'
<1>. USE DEF RelationInv
<1>. DEFINE own == place[r]
<1>1. /\ own \in Pages /\ own < npages /\ r \notin Touched
      /\ place' = [place EXCEPT ![r] = Absent] /\ dead' = [dead EXCEPT ![own] = @ + 1]
      /\ drain' = [drain EXCEPT !.todo = @ \ {r}] /\ UNCHANGED <<npages, vars, fsm, from>>
  BY DEF AppDelete, HeapTypeOK, Touched
<1>2. ASSUME NEW q \in Pages
      PROVE  Free(q)' \in Nat /\ dead'[q] \in 0 .. Slots /\ dead[q] \in Nat
  <2>1. /\ IsFiniteSet(RowsOn(q)) /\ Cardinality(RowsOn(q)) \in Nat /\ (r \in RowsOn(q) <=> q = own)
        /\ Slots \in Nat /\ dead[q] \in Nat
        /\ Free(q) = Slots - Cardinality(RowsOn(q)) - dead[q] /\ Free(q) >= 0
        /\ Free(q)' = Slots - Cardinality(RowsOn(q)') - dead'[q]
        /\ dead'[q] = IF q = own THEN dead[q] + 1 ELSE dead[q]
    BY <1>1, CountRows, HeapAssumption DEF HeapTypeOK, RowsOn, Free
  <2>2. RowsOn(q)' = RowsOn(q) \ {r}
    BY <1>1, RowsAssumption DEF HeapTypeOK, RowsOn, Pages
  <2>3. Cardinality(RowsOn(q) \ {r})
           = IF r \in RowsOn(q) THEN Cardinality(RowsOn(q)) - 1 ELSE Cardinality(RowsOn(q))
    BY <2>1, FS_RemoveElement
  <2>4. Cardinality(RowsOn(q) \ {r}) \in Nat
    BY CountRows DEF RowsOn
  <2>. HIDE DEF own
  <2>. QED
    BY <2>1, <2>2, <2>3, <2>4
<1>3. HeapTypeOK'
  <2>1. dead' \in [Pages -> 0 .. Slots]
    BY <1>1, <1>2 DEF HeapTypeOK
  <2>3. \A q \in Rows : place'[q] # Absent => place'[q] < npages'
    BY <1>1 DEF HeapTypeOK
  <2>4. place' \in [Rows -> Pages \union {Absent}]
    BY <1>1 DEF HeapTypeOK
  <2>5. \A q \in Pages : Free(q)' >= 0
    BY <1>2
  <2>. HIDE DEF own
  <2>. QED
    BY <1>1, <2>1, <2>3, <2>4, <2>5 DEF HeapTypeOK
<1>4. FileOK'
  <2>1. own \in Nat /\ npages \in Nat
    BY <1>1, HeapAssumption DEF Pages, HeapTypeOK
  <2>. QED
    BY <1>1, <2>1 DEF FileOK, HeapTypeOK
<1>5. /\ drain'.saved = drain.saved /\ drain'.batch = drain.batch /\ drain'.todo = drain.todo \ {r}
      /\ Touched' = Touched /\ Touched \subseteq Rows
  BY <1>1 DEF Touched, DrainTypeOK, Drains, SavedPlaces
<1>6. DrainTypeOK'
  <2>1. drain' \in Drains /\ drain'.open = drain.open
    BY <1>1 DEF DrainTypeOK, Drains
  <2>2. ASSUME ~drain.open PROVE drain' = NoDrain
    <3>1. drain = NoDrain /\ NoDrain.todo \ {r} = NoDrain.todo
      BY <2>2 DEF DrainTypeOK, NoDrain
    <3>2. [NoDrain EXCEPT !.todo = @ \ {r}] = NoDrain
      BY <3>1 DEF NoDrain
    <3>. QED
      BY <1>1, <3>1, <3>2
  <2>3. pc' = pc
    BY <1>1 DEF vars
  <2>. QED
    BY <2>1, <2>2, <2>3 DEF DrainTypeOK
<1>7. DrainOK'
  <2>1. \A q \in Rows : q # r => place'[q] = place[q]
    BY <1>1 DEF HeapTypeOK
  <2>2. \A q \in drain'.todo : place'[q] # Absent
    BY <1>5, <2>1 DEF DrainOK, DrainTypeOK, Drains
  <2>3. \A q \in Touched : q # r /\ q \in Rows
    BY <1>1, <1>5
  <2>4. \A q \in Touched : place'[q] # Absent /\ drain.saved[q] < npages'
    BY <1>1, <2>1, <2>3 DEF DrainOK
  <2>5. ASSUME NEW q \in Pages
        PROVE  Cardinality(Displaced(q)') <= dead'[q]
    <3>1. Displaced(q)' = Displaced(q) /\ Displaced(q) \in SUBSET Rows
      BY <1>5 DEF Displaced
    <3>2. Cardinality(Displaced(q)) \in Nat /\ Cardinality(Displaced(q)) <= dead[q]
      BY <3>1, CountRows DEF DrainOK
    <3>3. dead'[q] >= dead[q]
      BY <1>1, <1>2 DEF HeapTypeOK
    <3>. QED
      BY <1>2, <3>1, <3>2, <3>3
  <2>6. \A q \in Touched : place'[q] < from' \/ q \in drain'.todo \/ q \in drain'.batch
    BY <1>1, <1>5, <2>1, <2>3 DEF DrainOK
  <2>. QED
    BY <1>5, <2>2, <2>4, <2>5, <2>6 DEF DrainOK
<1>8. EndOK'
  <2>1. writes' # 0 /\ writes' \in Nat
    BY DEF EndOK
  <2>. QED
    BY <1>1, <2>1 DEF EndOK, Undisturbed, vars, state, params
<1>. QED
  BY <1>3, <1>4, <1>6, <1>7, <1>8

----------------------------------------------------------------------------
(* The invariant.                                                          *)

LEMMA HeapInitInv == HeapInit => HeapInv
<1>. SUFFICES ASSUME HeapInit
              PROVE  HeapInv
  OBVIOUS
<1>1. Init /\ pc = "start" /\ npages = StartPages /\ from = 0 /\ drain = NoDrain /\ writes = 0
  BY DEF HeapInit, Init
<1>2. IInv
  BY <1>1, InitInv
<1>3. /\ StartPages \in Nat /\ MaxPages \in Nat /\ StartPages <= MaxPages /\ Slots \in Nat
      /\ MaxWrites \in Nat
  BY HeapAssumption
<1>4. dead = [p \in Pages |-> 0] /\ fsm = [p \in Pages |-> 0] /\ \A p \in Pages : Free(p) >= 0
  BY DEF HeapInit
<1>5. place \in [Rows -> (0 .. StartPages - 1) \union {Absent}]
  BY DEF HeapInit
<1>6. HeapTypeOK
  <2>1. place \in [Rows -> Pages \union {Absent}]
    BY <1>3, <1>5 DEF Pages
  <2>2. \A r \in Rows : place[r] # Absent => place[r] < npages
    BY <1>1, <1>3, <1>5
  <2>3. dead \in [Pages -> 0 .. Slots] /\ fsm \in [Pages -> 0 .. Slots]
    BY <1>3, <1>4
  <2>. QED
    BY <1>1, <1>3, <1>4, <2>1, <2>2, <2>3 DEF HeapTypeOK
<1>7. DrainTypeOK /\ FileOK
  BY <1>1, <1>4, NothingSaved DEF DrainTypeOK, FileOK, NoDrain
<1>8. DrainOK
  <2>1. Touched = {} /\ drain.todo = {} /\ drain.batch = {}
    BY <1>1, NothingSaved DEF Touched, NoDrain
  <2>2. \A p \in Pages : Cardinality(Displaced(p)) = 0
    BY <2>1, FS_EmptySet DEF Displaced
  <2>. QED
    BY <1>4, <2>1, <2>2 DEF DrainOK
<1>9. EndOK
  BY <1>1 DEF EndOK
<1>. QED
  BY <1>2, <1>6, <1>7, <1>8, <1>9 DEF HeapInv

(* Every step of the heap phase is one of the loop, or none of it.         *)
LEMMA HeapStepIsLoopStep == HeapInv /\ [HeapNext]_allVars => [Next]_vars
<1>. SUFFICES ASSUME HeapInv, [HeapNext]_allVars
              PROVE  Next \/ UNCHANGED vars
  OBVIOUS
<1>1. npages \in PageCounts /\ pagesCurrent \in Nat /\ cursor \in Nat
  BY HeapAssumption DEF HeapInv, HeapTypeOK, IInv, TypeOK
<1>2. /\ FreePagesBefore(pagesCurrent) \in 0 .. pagesCurrent
      /\ FreePagesBefore(cursor) \in 0 .. cursor
  BY <1>1, FreePagesCount
<1>3. ASSUME HeapRead
      PROVE  Next
  BY <1>1, <1>2, <1>3 DEF HeapRead, ProbeLanding, Next, Proceed, ReadServer
<1>4. ASSUME HeapVacuum \/ HeapBreak \/ HeapQuiet
      PROVE  Next
  BY <1>4 DEF HeapVacuum, HeapBreak, HeapQuiet, Next, Proceed
<1>5. ASSUME Drain
      PROVE  Next \/ UNCHANGED vars
  BY <1>5 DEF Drain, DrainBegin, DrainUpdate, DrainRow, DrainCommit, DrainAgain, DrainRollback,
                  Next, Proceed
<1>6. ASSUME AppWrite \/ UNCHANGED allVars
      PROVE  UNCHANGED vars
  BY <1>6 DEF AppWrite, allVars
<1>. QED
  BY <1>3, <1>4, <1>5, <1>6 DEF HeapNext, HeapProceed

LEMMA HeapReadInv ==
    ASSUME IInv, RelationInv, HeapRead
    PROVE  RelationInv'
<1>. USE DEF RelationInv
<1>1. CASE Start(npages) /\ UNCHANGED heapVars
  BY <1>1, StartInv
<1>2. CASE VacuumRemeasure(npages) /\ UNCHANGED heapVars
  BY <1>2, RemeasureInv
<1>3. ASSUME VacuumMeasure(npages) \/ VacuumLanding(FreePagesBefore(pagesCurrent)) \/ ProbeLanding,
             UNCHANGED heapVars
      PROVE  RelationInv'
  <2>1. /\ pc \notin {"start", "rewrite", "advance"} /\ pc' \notin {"start", "rewrite", "remeasure"}
        /\ UNCHANGED <<pagesBefore, pagesCurrent, cleared, failed, cancelled>>
    BY <1>3 DEF VacuumMeasure, VacuumLanding, ProbeLanding, Probe, Goto, params, walk, exits, IInv, TypeOK
  <2>. QED
    BY <1>3, <2>1, StayInv
<1>4. CASE \E found \in SUBSET Rows :
              /\ found = {r \in RowsFrom(winStart) : place[r] < cursor}
              /\ Collect(found # {})
              /\ from' = IF found = {} THEN 0 ELSE LowestPage(found)
              /\ UNCHANGED <<relation, drain>>
  BY <1>4, CollectInv
<1>5. {r \in RowsFrom(winStart) : place[r] < cursor} \in SUBSET Rows
  BY DEF RowsFrom
<1>. QED
  BY <1>1, <1>2, <1>3, <1>4, <1>5 DEF HeapRead

LEMMA HeapQuietInv ==
    ASSUME IInv, RelationInv, HeapQuiet
    PROVE  RelationInv'
<1>1. CASE Advance
  BY <1>1, AdvanceInv DEF HeapQuiet
<1>2. ASSUME ~Advance
      PROVE  RelationInv'
  <2>1. LoopExit \/ Iterate \/ Starve \/ GiveUp \/ OpenWindow \/ DiskOk \/ DiskLow \/ PeriodicVacuum
        \/ DeferVacuum \/ Plateau \/ FinalVacuum \/ NoFinalVacuum \/ Rollback \/ Teardown
    BY <1>2 DEF HeapQuiet
  <2>2. pc \notin {"start", "rewrite", "advance"} /\ pc' \notin {"start", "rewrite", "remeasure"}
    BY <2>1 DEF LoopExit, Iterate, Starve, GiveUp, OpenWindow, DiskOk, DiskLow, PeriodicVacuum,
                DeferVacuum, Plateau, FinalVacuum, NoFinalVacuum, Rollback, Teardown, CallVacuum, Jump, Goto
  <2>3. UNCHANGED <<pagesBefore, pagesCurrent, cleared, failed, cancelled>>
    BY <2>1 DEF LoopExit, Iterate, Starve, GiveUp, OpenWindow, DiskOk, DiskLow, PeriodicVacuum,
                DeferVacuum, Plateau, FinalVacuum, NoFinalVacuum, Rollback, Teardown, CallVacuum, Jump,
                state, params, walk, exits
  <2>. QED
    BY <2>2, <2>3, StayInv DEF HeapQuiet
<1>. QED
  BY <1>1, <1>2

LEMMA HeapStepInv == HeapInv /\ [HeapNext]_allVars => HeapInv'
<1>. SUFFICES ASSUME HeapInv, [HeapNext]_allVars
              PROVE  HeapInv'
  OBVIOUS
<1>1. IInv'
  BY HeapStepIsLoopStep, StepInv DEF HeapInv
<1>2. IInv /\ RelationInv
  BY DEF HeapInv, RelationInv
<1>3. ASSUME HeapRead PROVE RelationInv'
  BY <1>2, <1>3, HeapReadInv
<1>4. ASSUME HeapVacuum PROVE RelationInv'
  BY <1>2, <1>4, VacuumInv
<1>5. ASSUME Drain PROVE RelationInv'
  BY <1>2, <1>5, DrainBeginInv, DrainUpdateInv, DrainRowInv, DrainCommitInv, DrainAgainInv,
     DrainRollbackInv DEF Drain
<1>6. ASSUME HeapQuiet PROVE RelationInv'
  BY <1>2, <1>6, HeapQuietInv
<1>7. ASSUME HeapBreak PROVE RelationInv'
  BY <1>2, <1>7, BreakInv
<1>8. ASSUME AppWrite PROVE RelationInv'
  BY <1>2, <1>8, InsertInv, DeleteInv DEF AppWrite
<1>9. ASSUME UNCHANGED allVars PROVE RelationInv'
  BY <1>2, <1>9
     DEF RelationInv, allVars, heapVars, relation, vars, state, params, walk, exits, HeapTypeOK, FileOK,
         DrainTypeOK, DrainOK, EndOK, RowsOn, Free, Touched, Displaced, Settled, Undisturbed, Overhang
<1>10. RelationInv'
  BY <1>3, <1>4, <1>5, <1>6, <1>7, <1>8, <1>9 DEF HeapNext, HeapProceed
<1>. QED
  BY <1>1, <1>10 DEF HeapInv, RelationInv

(* HeapInv is an invariant of the heap phase.                              *)
THEOREM HeapInvariance == HeapSpec => []HeapInv
<1>1. HeapInit => HeapInv
  BY HeapInitInv
<1>2. HeapInv /\ [HeapNext]_allVars => HeapInv'
  BY HeapStepInv
<1>. QED
  BY <1>1, <1>2, PTL DEF HeapSpec

(* No page ever holds more versions than it has slots, no row is beyond    *)
(* the end of the file, and the counts of a rollback never go negative.    *)
THEOREM HeapTypeCorrect == HeapSpec => []HeapTypeOK
<1>1. HeapInv => HeapTypeOK
  BY DEF HeapInv
<1>. QED
  BY <1>1, HeapInvariance, PTL

(* With no other writer, a run that was not cut short leaves no row above  *)
(* the old end of the relation, and nothing dead there unless the last     *)
(* VACUUM had to leave it.                                                 *)
THEOREM TableNeverEndsLonger == HeapSpec => []NeverEndsLonger
<1>1. HeapInv => NeverEndsLonger
  <2>. SUFFICES ASSUME HeapInv, pc = "returned", ~cancelled, writes = 0, NEW p \in Pages, p >= pagesBefore
                PROVE  RowsOn(p) = {} /\ (dead[p] > 0 => held)
    BY DEF NeverEndsLonger
  <2>1. Undisturbed /\ cleared = 0 /\ pagesBefore \in Nat
    BY DEF HeapInv, IInv, TypeOK, DebtOK, Undisturbed
  <2>2. ~Overhang /\ \A r \in Rows : Settled(r) # Absent => Settled(r) < pagesBefore
    BY <2>1 DEF HeapInv, EndOK
  <2>3. \A r \in Rows : Settled(r) = place[r]
    BY NothingSaved DEF HeapInv, DrainTypeOK, Settled, Touched
  <2>4. dead[p] > 0 => held
    BY <2>1, <2>2, HeapAssumption DEF Overhang, HeapInv, HeapTypeOK
  <2>5. RowsOn(p) = {}
    BY <2>1, <2>2, <2>3, RowsAssumption DEF RowsOn, Pages
  <2>. QED
    BY <2>4, <2>5
<1>. QED
  BY <1>1, HeapInvariance, PTL

(* COMPLETED is only reported for a relation that really is shorter.       *)
THEOREM CompletedIsShorter == HeapSpec => []CompletedMeansShorter
<1>1. HeapInv => CompletedMeansShorter
  <2>. SUFFICES ASSUME HeapInv, pc = "returned", ~cancelled, writes = 0, outcome = "COMPLETED"
                PROVE  npages < pagesBefore
    BY DEF CompletedMeansShorter
  <2>1. Undisturbed /\ cleared = 0 /\ pagesBefore \in Nat /\ pagesCurrent \in Nat /\ npages \in Nat
    BY HeapAssumption DEF HeapInv, IInv, TypeOK, DebtOK, Undisturbed, HeapTypeOK
  <2>2. npages <= pagesCurrent
    BY <2>1 DEF HeapInv, EndOK, Overhang
  <2>3. pagesCurrent < pagesBefore
    BY <2>1 DEF outcome
  <2>. QED
    BY <2>1, <2>2, <2>3
<1>. QED
  BY <1>1, HeapInvariance, PTL

----------------------------------------------------------------------------
AllOrNothing ==
    drain.open /\ ~drain'.open =>
        \/ \A r \in DOMAIN drain.saved : place'[r] < from
        \/ \A r \in DOMAIN drain.saved : place'[r] = drain.saved[r]

(* A drain ends in a commit of rows below from_page or in a rollback.      *)
LEMMA DrainEnds == HeapInv /\ [HeapNext]_allVars => AllOrNothing
<1>. SUFFICES ASSUME HeapInv, [HeapNext]_allVars, drain.open, ~drain'.open
              PROVE  \/ \A r \in Touched : place'[r] < from
                     \/ \A r \in Touched : place'[r] = drain.saved[r]
  BY DEF AllOrNothing, Touched
<1>1. pc = "rewrite" /\ RelationInv
  BY DEF HeapInv, RelationInv, DrainTypeOK
<1>2. CASE DrainCommit
  BY <1>1, <1>2, CommittedBelow DEF DrainCommit, relation
<1>3. ASSUME Undo, EndDrain
      PROVE  \A r \in Touched : place'[r] = drain.saved[r]
  BY <1>1, <1>3, UndoInv DEF Settled, RelationInv, DrainTypeOK, Drains, SavedPlaces, Touched
<1>4. CASE DrainRollback \/ HeapBreak
  BY <1>3, <1>4 DEF DrainRollback, HeapBreak
<1>5. ASSUME HeapRead \/ HeapVacuum \/ HeapQuiet \/ UNCHANGED allVars
      PROVE  drain' = drain
  BY <1>5 DEF HeapRead, HeapVacuum, HeapQuiet, heapVars, allVars
<1>6. ASSUME DrainBegin \/ DrainUpdate \/ DrainAgain
      PROVE  drain'.open
  BY <1>1, <1>6 DEF DrainBegin, DrainUpdate, DrainAgain, RelationInv, DrainTypeOK, Drains, NoDrain
<1>7. ASSUME NEW r, NEW p, DrainRow(r, p)
      PROVE  drain'.open
  BY <1>1, <1>7 DEF DrainRow, RelationInv, DrainTypeOK, Drains
<1>8. ASSUME NEW r, AppInsert(r) \/ AppDelete(r)
      PROVE  drain'.open
  BY <1>1, <1>8 DEF AppInsert, AppDelete, RelationInv, DrainTypeOK, Drains
<1>. QED
  BY <1>2, <1>4, <1>5, <1>6, <1>7, <1>8 DEF HeapNext, HeapProceed, Drain, AppWrite

(* No version is left half way down the file.                              *)
THEOREM DrainIsAtomic == HeapSpec => DrainAllOrNothing
<1>1. HeapInv /\ [HeapNext]_allVars => AllOrNothing
  BY DrainEnds
<1>2. HeapSpec => [][AllOrNothing]_allVars
  BY <1>1, HeapInvariance, PTL DEF HeapSpec
<1>. QED
  BY <1>2 DEF DrainAllOrNothing, AllOrNothing

(* The heap phase implements the shared loop: what TLC checks on one table *)
(* holds for every table, so every theorem about the loop is one about it. *)
THEOREM HeapImplementsLoop == HeapSpec => ImplementsLoop
<1>1. HeapInit => Init
  BY DEF HeapInit
<1>2. HeapInv /\ [HeapNext]_allVars => [Next]_vars
  BY HeapStepIsLoopStep
<1>. QED
  BY <1>1, <1>2, HeapInvariance, PTL DEF HeapSpec, ImplementsLoop, Spec

(* So on every table, whatever applications do to it, the heap phase is a  *)
(* front that descends and a debt that is paid before it returns.          *)
THEOREM HeapPhaseWalks == HeapSpec => ImplementsTailWalk
  BY HeapImplementsLoop, LoopImplementsTailWalk, PTL DEF ImplementsLoop
=============================================================================
