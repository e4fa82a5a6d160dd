----------------------- MODULE ToastCompactionProofs -----------------------
(***************************************************************************)
(* Proofs about the TOAST phase, for every table, set of values, page      *)
(* size and interleaving with applications, under both strategies.         *)
(* ToastInv is the inductive invariant: that of the loop, and what relates *)
(* the chunks, the running UPDATE, the map and the cursor.                 *)
(***************************************************************************)
EXTENDS ToastCompaction, CompactLoopProofs, SetLemmas

Touched == DOMAIN update.saved

SavedChunks == UNION {[V -> Seq(Pages)] : V \in SUBSET Values}
SavedHomes  == UNION {[R -> Ctids] : R \in SUBSET Rows}

Updates == [open : BOOLEAN, rows : SUBSET Rows, todo : SUBSET Values, saved : SavedChunks,
            homes : SavedHomes]

(* Old chunks that the running UPDATE has left dead on page p.             *)
Replaced(p) == {x \in Pieces : x[1] \in Touched /\ update.saved[x[1]][x[2]] = p}

StoreOK ==
    /\ at \in [Values -> Seq(Pages)]
    /\ dead \in [Pages -> 0 .. Slots]
    /\ npages \in 0 .. MaxPages
    /\ fsm \in [Pages -> 0 .. Slots]
    /\ \A p \in Pages : Free(p) >= 0
    /\ \A p \in Pages : p >= npages => PiecesOn(p) = {} /\ dead[p] = 0

(* A value is whole or gone, but for the one that is being written.        *)
WholeOK ==
    /\ \A v \in Values \ Begun : Len(at[v]) = Chunks[v] \/ at[v] = <<>>
    /\ \A v \in Begun : Len(at[v]) \in 1 .. Chunks[v] - 1

WorkOK ==
    /\ update \in Updates
    /\ update.open => pc = "rewrite"
    /\ ~update.open => update = NoUpdate
    /\ ctids \subseteq Ctids
    /\ ctids # {} => pc = "rewrite" /\ ~update.open

(* What the running UPDATE writes is locked by it, all of a locked row is  *)
(* written, and what has been replaced is dead where it was.               *)
UpdateOK ==
    /\ \A v \in update.todo \union Touched : v[1] \in Locked
    /\ \A v \in Values : v[1] \in Locked => v \in update.todo \union Touched \/ at[v] = <<>>
    /\ update.rows \cap Locked = {}
    /\ \A v \in update.todo : at[v] # <<>>
    /\ \A v \in Touched : Len(update.saved[v]) = Chunks[v]
    /\ \A p \in Pages : Cardinality(Replaced(p)) <= dead[p]

StorageInv == StoreOK /\ WholeOK /\ WorkOK /\ UpdateOK

(* No two rows share a ctid, and those that a rollback would restore are   *)
(* free for it.                                                            *)
HomeOK ==
    /\ home \in [Rows -> Ctids \union {Nowhere}]
    /\ \A r, s \in Rows : home[r] = home[s] /\ home[r] # Nowhere => r = s
    /\ \A r \in Locked : \A s \in Rows : home[s] # update.homes[r]
    /\ \A r, s \in Locked : update.homes[r] = update.homes[s] => r = s
    /\ \A v \in Values : at[v] # <<>> => home[v[1]] # Nowhere
    /\ \A r \in update.rows : home[r] # Nowhere

MapOK ==
    /\ mapTable \in BOOLEAN /\ scanner \in BOOLEAN /\ deadMapped \in BOOLEAN /\ noScanner \in BOOLEAN
    /\ chunkMap \subseteq Values \X Ctids /\ older \subseteq Values \X Ctids
    /\ toScan \subseteq Ctids
    /\ toScan # {} => pc \in {"setup", "raised"}
    /\ renewed \subseteq Values /\ writes \in Nat

(* Without other writers, and until something fails.                       *)
Undisturbed == writes = 0 /\ ~failed /\ ~cancelled

(* Rows that the next UPDATE, or the running one, has yet to reach.        *)
Pending == RowsAt(ctids) \union update.rows

(* What was collected, and what is being written, has a chunk in the       *)
(* window, unless an entry of the map may mean another row.                *)
TargetOK ==
    Undisturbed /\ ~deadMapped =>
        \A r \in Pending \union Locked :
            \E v \in ValuesOf({r}) : \E p \in SnapshotPages(v) : InRange(p)

(* Every chunk that the strategy looks for, at `bound' or above, is of one *)
(* of these values.                                                        *)
Walked(bound, values) ==
    \A x \in Pieces : Written(x) /\ Sought(x) /\ PageOf(x) >= bound => x[1] \in values

(* The map has, or is about to get, the ctid of every row that it should   *)
(* still know.                                                             *)
MapIsComplete ==
    scaffolded /\ mapTable =>
        \A v \in Values \ renewed : FirstPointer(v) =>
            v[1] \in Locked \/ home[v[1]] \in toScan \/ <<v, home[v[1]]>> \in chunkMap

(* No entry of the map means another row.                                  *)
MapIsExact == ~deadMapped => \A x \in chunkMap : x[2] = home[x[1][1]] \/ x[1][1] \in Locked

(* Nothing is gone, the map is right, and what lies above the cursor was   *)
(* rewritten; in the window it is rewritten after the rewrite.             *)
SkipOK ==
    Undisturbed =>
        /\ \A v \in Values : at[v] # <<>>
        /\ MapIsComplete /\ MapIsExact
        /\ pc # "start" => Walked(cursor, renewed \union Touched)
        /\ pc = "rewrite" =>
              Walked(winStart, renewed \union Touched \union update.todo \union ValuesOf(Pending))
        /\ pc = "advance" => Walked(winStart, renewed)

ToastInv ==
    IInv /\ StorageInv /\ HomeOK /\ MapOK /\ TargetOK /\ SkipOK /\ NoScaffoldLeft

----------------------------------------------------------------------------
(* Facts about the operators of ToastCompaction.                           *)

(* The values of a table and their chunks.                                 *)
LEMMA PieceFacts ==
    /\ \A v \in Values : v[1] \in Rows /\ v[2] \in 1 .. Columns /\ v = <<v[1], v[2]>>
                         /\ Chunks[v] \in Nat \ {0}
    /\ \A x \in Pieces : x[1] \in Values /\ x[2] \in 1 .. Chunks[x[1]] /\ x = <<x[1], x[2]>>
    /\ \A v \in Values : \A i \in 1 .. Chunks[v] : <<v, i>> \in Pieces
<1>1. \A v \in Values : v[1] \in Rows /\ v[2] \in 1 .. Columns /\ v = <<v[1], v[2]>>
                        /\ Chunks[v] \in Nat \ {0}
  BY ToastAssumption DEF Values
<1>2. ASSUME NEW x \in Pieces
      PROVE  x[1] \in Values /\ x[2] \in 1 .. Chunks[x[1]] /\ x = <<x[1], x[2]>>
  <2>1. PICK v \in Values : x \in {v} \X (1 .. Chunks[v])
    BY DEF Pieces
  <2>. QED
    BY <2>1
<1>3. ASSUME NEW v \in Values, NEW i \in 1 .. Chunks[v]
      PROVE  <<v, i>> \in Pieces
  <2>1. <<v, i>> \in {v} \X (1 .. Chunks[v])
    OBVIOUS
  <2>. QED
    BY <2>1 DEF Pieces
<1>. QED
  BY <1>1, <1>2, <1>3

(* There are finitely many chunks, so they can be counted.                 *)
LEMMA CountPieces ==
    ASSUME NEW S \in SUBSET Pieces
    PROVE  IsFiniteSet(S) /\ Cardinality(S) \in Nat
<1>1. IsFiniteSet(Values)
  <2>1. IsFiniteSet(1 .. Columns)
    BY ToastAssumption, FS_Interval
  <2>2. IsFiniteSet(Rows \X (1 .. Columns))
    BY <2>1, RowsAssumption, FS_Product
  <2>. QED
    BY <2>2, FS_Subset DEF Values
<1>. DEFINE Family == {{v} \X (1 .. Chunks[v]) : v \in Values}
            member == [v \in Values |-> {v} \X (1 .. Chunks[v])]
<1>2. IsFiniteSet(Family)
  <2>1. member \in Surjection(Values, Family)
    BY DEF Surjection
  <2>. HIDE DEF member, Family
  <2>. QED
    BY <1>1, <2>1, FS_Surjection
<1>3. ASSUME NEW v \in Values
      PROVE  IsFiniteSet({v} \X (1 .. Chunks[v]))
  <2>1. IsFiniteSet(1 .. Chunks[v])
    <3>1. Chunks[v] \in Int
      BY PieceFacts
    <3>. QED
      BY <3>1, FS_Interval
  <2>2. IsFiniteSet({v})
    BY FS_Singleton
  <2>. QED
    BY <2>1, <2>2, FS_Product
<1>4. \A T \in Family : IsFiniteSet(T)
  BY <1>3
<1>5. IsFiniteSet(UNION Family)
  <2>. HIDE DEF Family
  <2>. QED
    BY <1>2, <1>4, FS_UNION
<1>6. IsFiniteSet(Pieces)
  BY <1>5 DEF Pieces
<1>. QED
  BY <1>6, FS_Subset, FS_CardinalityType

(* There are at most n free pages in front of page n.                      *)
LEMMA FreePagesCount ==
    ASSUME NEW n \in Nat
    PROVE  FreePagesBefore(n) \in 0 .. n
<1>. DEFINE S == {q \in Pages : q < n /\ fsm[q] >= LandingSlots}
<1>1. S \subseteq 0 .. n - 1
  BY DEF Pages
<1>2. IsFiniteSet(0 .. n - 1) /\ Cardinality(0 .. n - 1) = n
  BY FS_Interval
<1>3. IsFiniteSet(S) /\ Cardinality(S) <= n
  <2>. HIDE DEF S
  <2>. QED
    BY <1>1, <1>2, FS_Subset
<1>4. Cardinality(S) \in Nat
  BY <1>3, FS_CardinalityType
<1>. QED
  BY <1>3, <1>4 DEF FreePagesBefore

(* The pages of values that are typed.                                     *)
LEMMA PiecesArePlaced ==
    ASSUME at \in [Values -> Seq(Pages)]
    PROVE  /\ \A x \in Pieces : Written(x) => PageOf(x) \in Pages /\ x[2] \in DOMAIN at[x[1]]
           /\ \A v \in Values : at[v] \in Seq(Pages) /\ Len(at[v]) \in Nat
<1>1. ASSUME NEW v \in Values
      PROVE  /\ at[v] \in Seq(Pages) /\ Len(at[v]) \in Nat
             /\ \A i \in 1 .. Len(at[v]) : at[v][i] \in Pages /\ i \in DOMAIN at[v]
  OBVIOUS
<1>. QED
  BY <1>1, PieceFacts DEF Written, PageOf

(* All chunks are on the first Occupied pages, and these are in the file.  *)
LEMMA OccupiedBounds ==
    ASSUME StoreOK
    PROVE  /\ Occupied \in 0 .. npages
           /\ \A p \in Pages : p >= Occupied => PiecesOn(p) = {}
<1>1. npages \in Nat /\ \A p \in LastUsed : p \in 0 .. npages - 1
  BY ToastAssumption DEF StoreOK, LastUsed, Pages
<1>2. CASE LastUsed = {}
  BY <1>1, <1>2 DEF Occupied, LastUsed
<1>3. CASE LastUsed # {}
  <2>1. LastUsed \subseteq 0 .. npages
    BY <1>1
  <2>2. \E p \in LastUsed : \A q \in LastUsed : p >= q
    <3>1. \E p \in LastUsed : \A q \in LastUsed : q <= p
      BY <1>1, <1>3, <2>1, HasGreatest
    <3>. QED
      BY <1>1, <3>1
  <2>3. Max(LastUsed) \in LastUsed /\ \A q \in LastUsed : Max(LastUsed) >= q
    BY <2>2 DEF Max
  <2>. DEFINE top == Max(LastUsed)
  <2>4. Occupied = 1 + top
    BY <1>3 DEF Occupied
  <2>5. top \in 0 .. npages - 1 /\ \A q \in LastUsed : top >= q
    BY <1>1, <2>3
  <2>. HIDE DEF top
  <2>6. Occupied \in 0 .. npages
    BY <1>1, <2>4, <2>5
  <2>7. ASSUME NEW p \in Pages, p >= Occupied
        PROVE  PiecesOn(p) = {}
    <3>1. p \in Nat /\ ~ (top >= p)
      BY <1>1, <2>4, <2>5, <2>7 DEF Pages
    <3>. QED
      BY <2>5, <3>1 DEF LastUsed
  <2>. QED
    BY <2>6, <2>7
<1>. QED
  BY <1>2, <1>3

(* A chunk goes to a page of the file with a free slot, or to the page     *)
(* that is appended for it.                                                *)
LEMMA TargetsAreFree ==
    ASSUME StoreOK, NEW p \in Targets
    PROVE  /\ p \in Pages /\ Free(p) > 0
           /\ Grown(p) \in 0 .. MaxPages /\ npages <= Grown(p) /\ p < Grown(p)
<1>1. npages \in 0 .. MaxPages /\ MaxPages \in Nat /\ Slots \in Nat \ {0}
  BY ToastAssumption DEF StoreOK
<1>2. p \in Pages /\ ((Free(p) > 0 /\ p < npages) \/ p = npages)
  BY <1>1 DEF Targets, Pages
<1>3. CASE p = npages /\ p \in Pages
  <2>1. dead[p] = 0 /\ PiecesOn(p) = {}
    BY <1>1, <1>3 DEF StoreOK
  <2>2. Free(p) = Slots
    BY <1>1, <2>1, FS_EmptySet DEF Free
  <2>. QED
    BY <1>1, <1>3, <2>2 DEF Grown, Pages
<1>. QED
  BY <1>1, <1>2, <1>3 DEF Grown, Pages

Kept(values, p) == {x \in PiecesOn(p) : x[1] \notin values}

(* Chunks that die where they are keep their slots.                        *)
LEMMA BuriedCounts ==
    ASSUME StoreOK, NEW values, NEW p \in Pages
    PROVE  /\ Cardinality(Kept(values, p)) \in Nat /\ IsFiniteSet(Kept(values, p))
           /\ Buried(values)[p] \in Nat /\ Buried(values)[p] >= dead[p]
           /\ Free(p) \in Nat /\ Slots \in Nat
           /\ Free(p) = Slots - Cardinality(Kept(values, p)) - Buried(values)[p]
           /\ p >= npages => Kept(values, p) = {} /\ Buried(values)[p] = 0
<1>. DEFINE gone == {x \in PiecesOn(p) : x[1] \in values}
<1>1. PiecesOn(p) \subseteq Pieces /\ gone \subseteq Pieces /\ Kept(values, p) \subseteq Pieces
  BY DEF PiecesOn, Kept
<1>2. /\ IsFiniteSet(gone) /\ Cardinality(gone) \in Nat
      /\ IsFiniteSet(Kept(values, p)) /\ Cardinality(Kept(values, p)) \in Nat
      /\ Cardinality(PiecesOn(p)) \in Nat
  BY <1>1, CountPieces
<1>3. PiecesOn(p) = Kept(values, p) \union gone /\ Kept(values, p) \cap gone = {}
  BY DEF Kept
<1>4. Buried(values)[p] = dead[p] + Cardinality(gone)
  BY DEF Buried
<1>5. p >= npages => gone = {} /\ Kept(values, p) = {} /\ dead[p] = 0
  BY DEF StoreOK, Kept
<1>6. dead[p] \in Nat /\ Slots \in Nat /\ Free(p) = Slots - Cardinality(PiecesOn(p)) - dead[p]
      /\ Free(p) >= 0
  BY ToastAssumption DEF StoreOK, Free
<1>. HIDE DEF gone
<1>7. Cardinality(Kept(values, p) \union gone)
         = Cardinality(Kept(values, p)) + Cardinality(gone) - Cardinality(Kept(values, p) \cap gone)
  BY <1>2, FS_Union
<1>8. Cardinality(Kept(values, p) \cap gone) = 0 /\ (gone = {} => Cardinality(gone) = 0)
  BY <1>3, FS_EmptySet
<1>. QED
  BY <1>2, <1>3, <1>4, <1>5, <1>6, <1>7, <1>8

----------------------------------------------------------------------------
(* The chunks: who moves them, and what it leaves.                         *)

LEMMA UpdateIsTyped ==
    ASSUME NEW o \in BOOLEAN, NEW r \in SUBSET Rows, NEW t \in SUBSET Values,
           NEW s \in SavedChunks, NEW h \in SavedHomes
    PROVE  [open |-> o, rows |-> r, todo |-> t, saved |-> s, homes |-> h] \in Updates
BY DEF Updates

(* What the running UPDATE has replaced.                                   *)
LEMMA SavedFacts ==
    ASSUME WorkOK
    PROVE  /\ Touched \subseteq Values
           /\ \A v \in Touched : update.saved[v] \in Seq(Pages)
           /\ update.todo \subseteq Values /\ update.rows \subseteq Rows
           /\ Locked \subseteq Rows /\ \A r \in Locked : update.homes[r] \in Ctids
           /\ update.homes \in SavedHomes /\ update.saved \in SavedChunks
<1>1. update.saved \in SavedChunks /\ update.homes \in SavedHomes
      /\ update.todo \subseteq Values /\ update.rows \subseteq Rows
  BY DEF WorkOK, Updates
<1>2. Touched \subseteq Values /\ \A v \in Touched : update.saved[v] \in Seq(Pages)
  BY <1>1 DEF SavedChunks, Touched
<1>3. Locked \subseteq Rows /\ \A r \in Locked : update.homes[r] \in Ctids
  BY <1>1 DEF SavedHomes, Locked
<1>. QED
  BY <1>1, <1>2, <1>3

LEMMA NothingSaved ==
    /\ NoUpdate \in Updates /\ NoUpdate.saved = <<>> /\ NoUpdate.homes = <<>>
    /\ DOMAIN <<>> = {} /\ <<>> \in SavedChunks /\ <<>> \in SavedHomes
<1>1. <<>> \in [{} -> Seq(Pages)] /\ <<>> \in [{} -> Ctids] /\ DOMAIN <<>> = {}
  OBVIOUS
<1>2. <<>> \in SavedChunks
  BY <1>1 DEF SavedChunks
<1>3. <<>> \in SavedHomes
  BY <1>1 DEF SavedHomes
<1>. QED
  BY <1>1, <1>2, <1>3, UpdateIsTyped DEF NoUpdate

(* An UPDATE that is over leaves nothing to undo.                          *)
LEMMA ClosedInv ==
    ASSUME update' = NoUpdate, ctids' = {}, StoreOK'
    PROVE  WorkOK' /\ UpdateOK' /\ Begun' = {} /\ Touched' = {} /\ Locked' = {}
<1>1. update' \in Updates /\ Touched' = {} /\ Begun' = {} /\ update'.todo = {} /\ Locked' = {}
  BY NothingSaved DEF Touched, Begun, Locked, NoUpdate
<1>2. WorkOK'
  BY <1>1 DEF WorkOK, NoUpdate
<1>3. UpdateOK'
  <2>1. \A p \in Pages : Cardinality(Replaced(p)') = 0
    BY <1>1, FS_EmptySet DEF Replaced
  <2>2. \A p \in Pages : dead'[p] \in Nat
    BY ToastAssumption DEF StoreOK
  <2>. QED
    BY <1>1, <2>1, <2>2 DEF UpdateOK
<1>. QED
  BY <1>1, <1>2, <1>3

(* The value v gets a chunk on p; its old chunks, if any, are buried.      *)
LEMMA PlaceChunkInv ==
    ASSUME StoreOK, NEW v \in Values, NEW p \in Targets,
           at' = [at EXCEPT ![v] = <<p>>], dead' = Buried({v}), npages' = Grown(p), fsm' = fsm
    PROVE  StoreOK' /\ \A q \in Pages : dead'[q] \in Nat /\ dead'[q] >= dead[q]
<1>1. /\ p \in Pages /\ Free(p) > 0 /\ npages' \in 0 .. MaxPages /\ npages <= npages' /\ p < npages'
      /\ npages \in Nat /\ npages' \in Nat /\ p \in Nat
  BY TargetsAreFree, ToastAssumption DEF StoreOK, Pages
<1>2. at' \in [Values -> Seq(Pages)]
  BY <1>1 DEF StoreOK
<1>3. ASSUME NEW q \in Pages
      PROVE  PiecesOn(q)' = IF q = p THEN Kept({v}, q) \union {<<v, 1>>} ELSE Kept({v}, q)
  <2>1. ASSUME NEW x \in Pieces
        PROVE  x \in PiecesOn(q)' <=> x \in Kept({v}, q) \/ (q = p /\ x = <<v, 1>>)
    <3>1. x[1] \in Values /\ x[2] \in Nat /\ x[2] >= 1 /\ x = <<x[1], x[2]>>
      BY PieceFacts
    <3>2. CASE x[1] = v
      <4>1. at'[x[1]] = <<p>> /\ Len(at'[x[1]]) = 1 /\ at'[x[1]][1] = p
        BY <3>1, <3>2 DEF StoreOK
      <4>2. Written(x)' <=> x[2] <= 1
        BY <4>1 DEF Written
      <4>3. (x[2] <= 1 <=> x[2] = 1) /\ (x[2] = 1 => PageOf(x)' = p)
        BY <3>1, <4>1 DEF PageOf
      <4>. QED
        BY <3>1, <3>2, <4>2, <4>3 DEF PiecesOn, Kept
    <3>3. CASE x[1] # v
      <4>1. at'[x[1]] = at[x[1]]
        BY <3>1, <3>3 DEF StoreOK
      <4>. QED
        BY <3>1, <3>3, <4>1 DEF PiecesOn, Kept, Written, PageOf
    <3>. QED
      BY <3>2, <3>3
  <2>2. <<v, 1>> \in Pieces
    BY PieceFacts
  <2>. QED
    BY <2>1, <2>2 DEF PiecesOn, Kept
<1>4. ASSUME NEW q \in Pages
      PROVE  /\ Free(q)' \in Nat /\ dead'[q] \in 0 .. Slots /\ dead'[q] \in Nat
             /\ dead'[q] >= dead[q]
             /\ q >= npages' => PiecesOn(q)' = {} /\ dead'[q] = 0
  <2>1. <<v, 1>> \notin Kept({v}, q)
    BY DEF Kept
  <2>2. Cardinality(Kept({v}, q) \union {<<v, 1>>}) = Cardinality(Kept({v}, q)) + 1
    BY <2>1, BuriedCounts, FS_AddElement
  <2>3. Free(q)' = Slots - Cardinality(PiecesOn(q)') - dead'[q]
    BY DEF Free
  <2>4. q \in Nat /\ (q >= npages' => q # p /\ q >= npages)
    BY <1>1 DEF Pages
  <2>5. q = p => Free(q) > 0
    BY <1>1
  <2>6. /\ Cardinality(Kept({v}, q)) \in Nat /\ dead'[q] \in Nat /\ dead'[q] >= dead[q]
        /\ Free(q) \in Nat /\ Slots \in Nat
        /\ Free(q) = Slots - Cardinality(Kept({v}, q)) - dead'[q]
        /\ q >= npages => Kept({v}, q) = {} /\ dead'[q] = 0
    BY BuriedCounts
  <2>7. CASE q = p
    <3>1. Cardinality(PiecesOn(q)') = Cardinality(Kept({v}, q)) + 1
      BY <1>3, <2>2, <2>7
    <3>. QED
      BY <1>1, <2>3, <2>4, <2>5, <2>6, <2>7, <3>1
  <2>8. CASE q # p
    <3>1. PiecesOn(q)' = Kept({v}, q)
      BY <1>3, <2>8
    <3>2. Cardinality(PiecesOn(q)') = Cardinality(Kept({v}, q))
      BY <3>1
    <3>3. Free(q)' = Free(q)
      BY <2>3, <2>6, <3>2
    <3>4. Free(q)' \in Nat
      BY <2>6, <3>3
    <3>5. dead'[q] \in 0 .. Slots /\ dead'[q] \in Nat /\ dead'[q] >= dead[q]
      BY <2>6
    <3>6. q >= npages' => PiecesOn(q)' = {} /\ dead'[q] = 0
      BY <2>4, <2>6, <3>1
    <3>. QED
      BY <3>4, <3>5, <3>6
  <2>. QED
    BY <2>7, <2>8
<1>5. dead' \in [Pages -> 0 .. Slots]
  BY <1>4 DEF Buried
<1>6. \A q \in Pages : dead'[q] \in Nat /\ dead'[q] >= dead[q]
  BY <1>4
<1>7. \A q \in Pages : Free(q)' >= 0
  BY <1>4
<1>8. fsm' \in [Pages -> 0 .. Slots]
  BY DEF StoreOK
<1>. QED
  BY <1>1, <1>2, <1>4, <1>5, <1>6, <1>7, <1>8 DEF StoreOK

(* A value that has been begun gets its next chunk.                        *)
LEMMA NextChunkInv ==
    ASSUME StoreOK, NEW v \in Values, NEW p \in Targets, Len(at[v]) < Chunks[v],
           at' = [at EXCEPT ![v] = Append(at[v], p)], dead' = dead, npages' = Grown(p), fsm' = fsm
    PROVE  StoreOK'
<1>1. /\ p \in Pages /\ Free(p) > 0 /\ npages' \in 0 .. MaxPages /\ npages <= npages' /\ p < npages'
      /\ npages \in Nat /\ npages' \in Nat /\ p \in Nat
  BY TargetsAreFree, ToastAssumption DEF StoreOK, Pages
<1>. DEFINE n == Len(at[v])
            next == Append(at[v], p)
<1>2. at[v] \in Seq(Pages) /\ n \in Nat /\ next \in Seq(Pages) /\ Len(next) = n + 1
  BY <1>1 DEF StoreOK
<1>3. next[n + 1] = p /\ \A i \in 1 .. n : next[i] = at[v][i]
  BY <1>2
<1>4. at' \in [Values -> Seq(Pages)] /\ at'[v] = next
  BY <1>1, <1>2 DEF StoreOK
<1>. HIDE DEF n, next
<1>5. <<v, n + 1>> \in Pieces
  BY <1>2, PieceFacts DEF n
<1>6. ASSUME NEW q \in Pages
      PROVE  PiecesOn(q)' = IF q = p THEN PiecesOn(q) \union {<<v, n + 1>>} ELSE PiecesOn(q)
  <2>1. ASSUME NEW x \in Pieces
        PROVE  x \in PiecesOn(q)' <=> x \in PiecesOn(q) \/ (q = p /\ x = <<v, n + 1>>)
    <3>1. x[1] \in Values /\ x[2] \in Nat /\ x[2] >= 1 /\ x = <<x[1], x[2]>>
      BY PieceFacts
    <3>2. CASE x[1] = v
      <4>1. Written(x) <=> x[2] <= n
        BY <3>2 DEF Written, n
      <4>2. Written(x)' <=> x[2] <= n + 1
        BY <1>2, <1>4, <3>2 DEF Written
      <4>3. x[2] <= n => PageOf(x)' = PageOf(x)
        BY <1>2, <1>3, <1>4, <3>1, <3>2 DEF PageOf
      <4>4. x[2] = n + 1 => PageOf(x)' = p
        BY <1>3, <1>4, <3>2 DEF PageOf
      <4>5. (x[2] <= n + 1 <=> x[2] <= n \/ x[2] = n + 1) /\ (x[2] = n + 1 <=> x = <<v, n + 1>>)
        BY <1>2, <3>1, <3>2
      <4>6. x[2] = n + 1 => ~ (x[2] <= n)
        BY <1>2
      <4>. QED
        BY <4>1, <4>2, <4>3, <4>4, <4>5, <4>6 DEF PiecesOn
    <3>3. CASE x[1] # v
      <4>1. at'[x[1]] = at[x[1]]
        BY <3>1, <3>3 DEF StoreOK
      <4>. QED
        BY <3>1, <3>3, <4>1 DEF PiecesOn, Written, PageOf
    <3>. QED
      BY <3>2, <3>3
  <2>. QED
    BY <1>5, <2>1 DEF PiecesOn
<1>7. ASSUME NEW q \in Pages
      PROVE  Free(q)' \in Nat /\ (q >= npages' => PiecesOn(q)' = {} /\ dead'[q] = 0)
  <2>1. IsFiniteSet(PiecesOn(q)) /\ Cardinality(PiecesOn(q)) \in Nat
    BY CountPieces DEF PiecesOn
  <2>2. <<v, n + 1>> \notin PiecesOn(q)
    BY <1>2 DEF PiecesOn, Written, n
  <2>3. Cardinality(PiecesOn(q) \union {<<v, n + 1>>}) = Cardinality(PiecesOn(q)) + 1
    BY <2>1, <2>2, FS_AddElement
  <2>4. /\ Free(q)' = Slots - Cardinality(PiecesOn(q)') - dead[q]
        /\ Free(q) = Slots - Cardinality(PiecesOn(q)) - dead[q]
        /\ Free(q) >= 0 /\ Slots \in Nat /\ dead[q] \in Nat /\ q \in Nat
    BY ToastAssumption DEF Free, StoreOK, Pages
  <2>5. q = p => Free(q) > 0
    BY <1>1
  <2>6. q >= npages' => q # p /\ q >= npages
    BY <1>1, <2>4
  <2>7. q >= npages' => PiecesOn(q)' = {} /\ dead'[q] = 0
    BY <1>6, <2>6 DEF StoreOK
  <2>8. CASE q = p
    <3>1. Cardinality(PiecesOn(q)') = Cardinality(PiecesOn(q)) + 1
      BY <1>6, <2>3, <2>8
    <3>. QED
      BY <2>1, <2>4, <2>5, <2>7, <2>8, <3>1
  <2>9. CASE q # p
    <3>1. PiecesOn(q)' = PiecesOn(q)
      BY <1>6, <2>9
    <3>. QED
      BY <2>1, <2>4, <2>7, <3>1
  <2>. QED
    BY <2>8, <2>9
<1>. QED
  BY <1>1, <1>4, <1>7 DEF StoreOK

(* The counts stay as they are while chunks and UPDATE do.                 *)
LEMMA StayInv ==
    ASSUME StorageInv, UNCHANGED <<storage, update>>, update.open => pc' = "rewrite",
           ctids' \subseteq Ctids, ctids' # {} => pc' = "rewrite" /\ ~update.open
    PROVE  StorageInv'
<1>. USE DEF StorageInv, storage
<1>1. StoreOK'
  BY DEF StoreOK, Free, PiecesOn, Written, PageOf
<1>2. WholeOK'
  BY DEF WholeOK, Begun
<1>3. WorkOK'
  BY DEF WorkOK
<1>4. UpdateOK'
  BY DEF UpdateOK, Touched, Locked, Replaced
<1>. QED
  BY <1>1, <1>2, <1>3, <1>4

(* One chunk of the running UPDATE.                                        *)
LEMMA RewriteChunkInv ==
    ASSUME StorageInv, NEW v \in update.todo, NEW p \in Targets, RewriteChunk(v, p)
    PROVE  StorageInv'
<1>. USE DEF StorageInv
<1>. DEFINE old  == IF v \in Begun THEN at[v] ELSE <<>>
            done == IF Len(old) + 1 = Chunks[v] THEN {v} ELSE {}
<1>1. /\ v \in Values /\ v[1] \in Locked /\ at[v] # <<>> /\ Chunks[v] \in Nat \ {0}
      /\ Touched \subseteq Values /\ update.todo \subseteq Values
  BY PieceFacts, SavedFacts DEF UpdateOK
<1>2. /\ at' = [at EXCEPT ![v] = Append(old, p)]
      /\ dead' = IF v \in Begun THEN dead ELSE Buried({v})
      /\ npages' = Grown(p) /\ UNCHANGED <<vars, fsm, ctids>>
      /\ update' = [update EXCEPT !.todo = @ \ done,
                        !.saved = [w \in DOMAIN @ \union {v} |-> IF w \in DOMAIN @ THEN @[w] ELSE at[w]]]
  BY DEF RewriteChunk
<1>3. update.open /\ pc = "rewrite" /\ ctids = {}
  BY DEF WorkOK, NoUpdate
<1>4. /\ update'.open /\ update'.rows = update.rows /\ update'.todo = update.todo \ done
      /\ update'.homes = update.homes
      /\ update'.saved = [w \in Touched \union {v} |-> IF w \in Touched THEN update.saved[w] ELSE at[w]]
      /\ Touched' = Touched \union {v}
      /\ update' = [open |-> TRUE, rows |-> update.rows, todo |-> update.todo \ done,
                    saved |-> update'.saved, homes |-> update.homes]
  BY <1>2, <1>3 DEF WorkOK, Updates, Touched
<1>5. WorkOK'
  <2>1. update'.saved \in [Touched \union {v} -> Seq(Pages)] /\ Touched \union {v} \in SUBSET Values
    BY <1>1, <1>4, SavedFacts DEF StoreOK
  <2>2. update'.saved \in SavedChunks
    BY <2>1 DEF SavedChunks
  <2>3. update.rows \in SUBSET Rows /\ update.todo \ done \in SUBSET Values
        /\ update.homes \in SavedHomes
    BY SavedFacts
  <2>. HIDE DEF done
  <2>4. [open |-> TRUE, rows |-> update.rows, todo |-> update.todo \ done,
         saved |-> update'.saved, homes |-> update.homes] \in Updates
    BY <2>2, <2>3, UpdateIsTyped
  <2>5. update' \in Updates
    BY <1>4, <2>4
  <2>. QED
    BY <1>2, <1>3, <1>4, <2>5 DEF WorkOK, vars
<1>6. StoreOK' /\ \A q \in Pages : dead'[q] \in Nat /\ dead'[q] >= dead[q]
  <2>1. CASE v \in Begun
    <3>1. Len(at[v]) < Chunks[v]
      BY <1>1, <2>1 DEF WholeOK
    <3>2. at' = [at EXCEPT ![v] = Append(at[v], p)] /\ dead' = dead /\ npages' = Grown(p) /\ fsm' = fsm
      BY <1>2, <2>1
    <3>. HIDE DEF old, done
    <3>3. StoreOK'
      BY <1>1, <3>1, <3>2, NextChunkInv
    <3>. QED
      BY <3>2, <3>3, ToastAssumption DEF StoreOK
  <2>2. CASE v \notin Begun
    <3>1. p \in Pages
      BY TargetsAreFree
    <3>2. at' = [at EXCEPT ![v] = <<p>>] /\ dead' = Buried({v}) /\ npages' = Grown(p) /\ fsm' = fsm
      BY <1>2, <2>2, <3>1
    <3>. HIDE DEF old, done
    <3>. QED
      BY <1>1, <3>2, PlaceChunkInv
  <2>. QED
    BY <2>1, <2>2
<1>7. /\ at' \in [Values -> Seq(Pages)] /\ Len(at'[v]) = Len(old) + 1 /\ Len(old) \in Nat
      /\ \A w \in Values : w # v => at'[w] = at[w]
  <2>1. p \in Pages /\ old \in Seq(Pages)
    BY <1>1, TargetsAreFree DEF StoreOK
  <2>2. Append(old, p) \in Seq(Pages) /\ Len(Append(old, p)) = Len(old) + 1 /\ Len(old) \in Nat
    BY <2>1
  <2>. HIDE DEF old, done
  <2>. QED
    BY <1>1, <1>2, <2>2 DEF StoreOK
<1>8. Len(old) + 1 <= Chunks[v]
  BY <1>1 DEF WholeOK
<1>9. WholeOK'
  <2>1. Begun' = (update.todo \ done) \cap (Touched \union {v})
    BY <1>4 DEF Begun, Touched
  <2>2. ASSUME NEW w \in Values, w # v
        PROVE  /\ w \in Begun' <=> w \in Begun
               /\ at'[w] = at[w]
    BY <1>7, <2>1, <2>2 DEF Begun, Touched
  <2>3. v \in Begun' <=> Len(old) + 1 # Chunks[v]
    BY <2>1
  <2>4. v \in Begun' => Len(at'[v]) \in 1 .. Chunks[v] - 1
    BY <1>1, <1>7, <1>8, <2>3
  <2>5. v \notin Begun' => Len(at'[v]) = Chunks[v]
    BY <1>7, <2>3
  <2>6. Begun' \subseteq Values
    BY <1>1, <2>1
  <2>. HIDE DEF old, done
  <2>. QED
    BY <2>2, <2>4, <2>5, <2>6 DEF WholeOK
<1>10. ASSUME NEW q \in Pages
       PROVE  Cardinality(Replaced(q)') <= dead'[q]
  <2>1. /\ Replaced(q) \subseteq Pieces /\ IsFiniteSet(Replaced(q)) /\ Cardinality(Replaced(q)) \in Nat
        /\ Cardinality(Replaced(q)) <= dead[q] /\ dead[q] \in Nat
    BY CountPieces, ToastAssumption DEF Replaced, UpdateOK, StoreOK
  <2>2. \A w \in Touched : update'.saved[w] = update.saved[w]
    BY <1>4
  <2>3. CASE v \in Touched
    <3>1. Replaced(q)' = Replaced(q)
      BY <1>4, <2>2, <2>3 DEF Replaced
    <3>. QED
      BY <1>6, <2>1, <3>1
  <2>4. CASE v \notin Touched
    <3>. DEFINE gone == {x \in PiecesOn(q) : x[1] \in {v}}
    <3>1. gone \subseteq Pieces /\ IsFiniteSet(gone) /\ Cardinality(gone) \in Nat
      BY CountPieces DEF PiecesOn
    <3>2. Len(at[v]) = Chunks[v] /\ update'.saved[v] = at[v] /\ v \notin Begun
      BY <1>1, <1>4, <2>4 DEF WholeOK, Begun, Touched
    <3>3. Replaced(q)' = Replaced(q) \union gone
      <4>1. ASSUME NEW x \in Pieces
            PROVE  x \in Replaced(q)' <=> x \in Replaced(q) \/ x \in gone
        <5>1. CASE x[1] = v
          <6>1. Written(x)
            BY <1>1, <3>2, <5>1, PieceFacts DEF Written
          <6>. QED
            BY <1>4, <2>4, <3>2, <5>1, <6>1 DEF Replaced, PiecesOn, PageOf
        <5>2. CASE x[1] # v
          BY <1>4, <2>2, <5>2 DEF Replaced
        <5>. QED
          BY <5>1, <5>2
      <4>. QED
        BY <3>1, <4>1 DEF Replaced
    <3>4. Replaced(q) \cap gone = {}
      BY <2>4 DEF Replaced
    <3>5. dead'[q] = dead[q] + Cardinality(gone)
      BY <1>2, <3>2 DEF Buried
    <3>. HIDE DEF gone, old, done
    <3>6. Cardinality(Replaced(q) \union gone)
             = Cardinality(Replaced(q)) + Cardinality(gone) - Cardinality(Replaced(q) \cap gone)
      BY <2>1, <3>1, FS_Union
    <3>7. Cardinality(Replaced(q) \cap gone) = 0
      BY <3>4, FS_EmptySet
    <3>. QED
      BY <2>1, <3>1, <3>3, <3>5, <3>6, <3>7
  <2>. QED
    BY <2>3, <2>4
<1>11. UpdateOK'
  <2>. Locked' = Locked
    BY <1>4 DEF Locked
  <2>1. \A w \in update'.todo \union Touched' : w[1] \in Locked'
    BY <1>1, <1>4 DEF UpdateOK
  <2>2. ASSUME NEW w \in Values, w[1] \in Locked'
        PROVE  w \in update'.todo \union Touched' \/ at'[w] = <<>>
    <3>1. done \subseteq {v}
      OBVIOUS
    <3>. HIDE DEF old, done
    <3>. QED
      BY <1>4, <1>7, <2>2, <3>1 DEF UpdateOK
  <2>3. update'.rows \cap Locked' = {}
    BY <1>4 DEF UpdateOK
  <2>4. \A w \in update'.todo : at'[w] # <<>>
    <3>1. at'[v] # <<>>
      BY <1>7
    <3>. QED
      BY <1>1, <1>4, <1>7, <3>1 DEF UpdateOK
  <2>5. \A w \in Touched' : Len(update'.saved[w]) = Chunks[w]
    <3>1. v \notin Touched => Len(at[v]) = Chunks[v]
      BY <1>1 DEF WholeOK, Begun, Touched
    <3>. QED
      BY <1>4, <3>1 DEF UpdateOK
  <2>. QED
    BY <1>10, <2>1, <2>4, <2>5, <2>2, <2>3 DEF UpdateOK
<1>. QED
  BY <1>5, <1>6, <1>9, <1>11

LEMMA RewriteBeginInv ==
    ASSUME StorageInv, RewriteBegin
    PROVE  StorageInv'
<1>. USE DEF StorageInv
<1>1. /\ update = NoUpdate /\ pc = "rewrite" /\ ctids' = {} /\ UNCHANGED <<vars, storage>>
      /\ update' = [open |-> TRUE, rows |-> RowsAt(ctids), todo |-> {}, saved |-> <<>>, homes |-> <<>>]
  BY DEF RewriteBegin, WorkOK, NoUpdate
<1>2. /\ Touched = {} /\ Touched' = {} /\ Begun = {} /\ Begun' = {} /\ Locked' = {}
      /\ \A p \in Pages : Replaced(p)' = Replaced(p)
  BY <1>1, NothingSaved DEF Touched, Replaced, Begun, Locked, NoUpdate
<1>3. StoreOK' /\ WholeOK'
  BY <1>1, <1>2 DEF StoreOK, WholeOK, storage, Free, PiecesOn, Written, PageOf
<1>4. WorkOK'
  <2>1. RowsAt(ctids) \in SUBSET Rows /\ {} \in SUBSET Values
    BY DEF RowsAt
  <2>2. update' \in Updates
    BY <1>1, <2>1, NothingSaved, UpdateIsTyped
  <2>. QED
    BY <1>1, <2>2 DEF WorkOK, vars
<1>5. UpdateOK'
  BY <1>1, <1>2 DEF UpdateOK, storage
<1>. QED
  BY <1>3, <1>4, <1>5

(* What reaching a row does to the UPDATE.                                 *)
LEMMA RowReached ==
    ASSUME StorageInv, HomeOK, NEW r \in update.rows, RewriteRow(r)
    PROVE  /\ update.open /\ pc = "rewrite" /\ ctids = {} /\ update.todo = {}
           /\ UNCHANGED <<vars, storage, older, scaffold, ctids, traces>>
           /\ r \in Rows /\ r \notin Locked /\ home[r] \in Ctids
           /\ update'.rows = update.rows \ {r} /\ update'.saved = update.saved
           /\ update'.todo = {v \in ValuesOf({r}) : at[v] # <<>>}
           /\ Locked' = Locked \union {r} /\ Touched' = Touched
           /\ \A s \in Locked' : update'.homes[s] = IF s \in Locked THEN update.homes[s] ELSE home[s]
           /\ update' \in Updates /\ update'.open
<1>1. /\ update.todo = {} /\ UNCHANGED <<vars, storage, older, scaffold, ctids, traces>>
      /\ update' = [update EXCEPT !.rows = @ \ {r},
                        !.todo = {v \in ValuesOf({r}) : at[v] # <<>>},
                        !.homes = [s \in DOMAIN @ \union {r} |->
                                      IF s \in DOMAIN @ THEN @[s] ELSE home[s]]]
  BY DEF RewriteRow
<1>2. update.open /\ pc = "rewrite" /\ ctids = {}
  BY DEF StorageInv, WorkOK, NoUpdate
<1>3. r \in Rows /\ r \notin Locked /\ home[r] \in Ctids
  BY SavedFacts DEF StorageInv, UpdateOK, HomeOK
<1>. DEFINE hs == [s \in Locked \union {r} |-> IF s \in Locked THEN update.homes[s] ELSE home[s]]
            td == {v \in ValuesOf({r}) : at[v] # <<>>}
<1>4. update' = [open |-> TRUE, rows |-> update.rows \ {r}, todo |-> td, saved |-> update.saved, homes |-> hs]
  BY <1>1, <1>2 DEF StorageInv, WorkOK, Updates, Locked
<1>5. hs \in [Locked \union {r} -> Ctids] /\ Locked \union {r} \in SUBSET Rows
  BY <1>3, SavedFacts DEF StorageInv
<1>6. hs \in SavedHomes
  BY <1>5 DEF SavedHomes
<1>7. update.rows \ {r} \in SUBSET Rows /\ td \in SUBSET Values /\ update.saved \in SavedChunks
  BY SavedFacts DEF StorageInv, ValuesOf
<1>8. DOMAIN hs = Locked \union {r}
  OBVIOUS
<1>9. \A s \in Locked \union {r} : hs[s] = IF s \in Locked THEN update.homes[s] ELSE home[s]
  OBVIOUS
<1>. HIDE DEF hs, td
<1>10. update' \in Updates
  BY <1>4, <1>6, <1>7, UpdateIsTyped
<1>11. /\ update'.rows = update.rows \ {r} /\ update'.saved = update.saved /\ update'.todo = td
       /\ update'.homes = hs /\ update'.open
  BY <1>4
<1>12. Locked' = Locked \union {r} /\ Touched' = Touched
  BY <1>8, <1>11 DEF Locked, Touched
<1>. QED
  BY <1>1, <1>2, <1>3, <1>9, <1>10, <1>11, <1>12 DEF td

LEMMA RewriteRowInv ==
    ASSUME StorageInv, HomeOK, NEW r \in update.rows, RewriteRow(r)
    PROVE  StorageInv'
<1>. USE DEF StorageInv
<1>1. /\ update.open /\ pc = "rewrite" /\ ctids = {} /\ update.todo = {}
      /\ UNCHANGED <<vars, storage, ctids>> /\ r \notin Locked
      /\ update'.rows = update.rows \ {r} /\ update'.saved = update.saved
      /\ update'.todo = {v \in ValuesOf({r}) : at[v] # <<>>}
      /\ Locked' = Locked \union {r} /\ Touched' = Touched
      /\ update' \in Updates /\ update'.open
  BY RowReached
<1>2. Begun = {} /\ \A v \in update'.todo : v \in Values /\ v[1] = r
  BY <1>1 DEF Begun, ValuesOf
<1>3. Begun' = {}
  <2>1. Begun' = update'.todo \cap Touched'
    BY DEF Begun, Touched
  <2>2. \A v \in Touched : v[1] # r
    BY <1>1 DEF UpdateOK
  <2>. QED
    BY <1>1, <1>2, <2>1, <2>2
<1>4. StoreOK' /\ WholeOK'
  BY <1>1, <1>2, <1>3 DEF StoreOK, WholeOK, storage, Free, PiecesOn, Written, PageOf
<1>5. WorkOK'
  BY <1>1 DEF WorkOK, vars
<1>6. UpdateOK'
  <2>1. \A v \in update'.todo \union Touched' : v[1] \in Locked'
    BY <1>1, <1>2 DEF UpdateOK
  <2>2. \A v \in Values : v[1] \in Locked' => v \in update'.todo \union Touched' \/ at'[v] = <<>>
    BY <1>1 DEF UpdateOK, ValuesOf, storage
  <2>3. update'.rows \cap Locked' = {}
    BY <1>1 DEF UpdateOK
  <2>4. \A v \in update'.todo : at'[v] # <<>>
    BY <1>1 DEF storage
  <2>5. \A v \in Touched' : Len(update'.saved[v]) = Chunks[v]
    BY <1>1 DEF UpdateOK
  <2>6. \A p \in Pages : Replaced(p)' = Replaced(p) /\ dead'[p] = dead[p]
    BY <1>1 DEF Replaced, storage
  <2>. QED
    BY <2>1, <2>2, <2>3, <2>4, <2>5, <2>6 DEF UpdateOK
<1>. QED
  BY <1>4, <1>5, <1>6

LEMMA RewriteCommitInv ==
    ASSUME StorageInv, RewriteCommit
    PROVE  StorageInv'
<1>. USE DEF StorageInv
<1>1. /\ update.open /\ update.todo = {} /\ update' = NoUpdate /\ ctids = {} /\ ctids' = {}
      /\ UNCHANGED storage
  BY DEF RewriteCommit, WorkOK
<1>2. StoreOK'
  BY <1>1 DEF StoreOK, storage, Free, PiecesOn, Written, PageOf
<1>3. WorkOK' /\ UpdateOK' /\ Begun' = {}
  BY <1>1, <1>2, ClosedInv
<1>4. WholeOK'
  BY <1>1, <1>3 DEF WholeOK, Begun, storage
<1>. QED
  BY <1>2, <1>3, <1>4

(* A rollback takes the values back to their old chunks; the new ones are  *)
(* as dead as those were.                                                  *)
LEMMA UndoInv ==
    ASSUME StorageInv, Undo, AbandonWork, UNCHANGED <<npages, fsm>>
    PROVE  StorageInv'
<1>. USE DEF StorageInv
<1>1. /\ at' = [v \in Values |-> IF v \in Touched THEN update.saved[v] ELSE at[v]]
      /\ dead' = [p \in Pages |-> Buried(Touched)[p] - Cardinality(Replaced(p))]
      /\ update' = NoUpdate /\ ctids' = {}
  BY DEF Undo, AbandonWork, Touched, Replaced
<1>2. /\ at' \in [Values -> Seq(Pages)] /\ Touched \subseteq Values
      /\ \A v \in Touched : at'[v] = update.saved[v] /\ Len(at'[v]) = Chunks[v]
      /\ \A v \in Values \ Touched : at'[v] = at[v]
  BY <1>1, SavedFacts DEF StoreOK, UpdateOK
<1>3. ASSUME NEW p \in Pages
      PROVE  PiecesOn(p)' = Kept(Touched, p) \union Replaced(p)
  <2>1. ASSUME NEW x \in Pieces
        PROVE  x \in PiecesOn(p)' <=> x \in Kept(Touched, p) \/ x \in Replaced(p)
    <3>1. x[1] \in Values /\ x[2] \in 1 .. Chunks[x[1]] /\ Chunks[x[1]] \in Nat
      BY PieceFacts
    <3>2. CASE x[1] \in Touched
      <4>1. Written(x)'
        BY <1>2, <3>1, <3>2 DEF Written
      <4>. QED
        BY <1>2, <3>2, <4>1 DEF PiecesOn, PageOf, Kept, Replaced
    <3>3. CASE x[1] \notin Touched
      BY <1>2, <3>1, <3>3 DEF PiecesOn, Written, PageOf, Kept, Replaced
    <3>. QED
      BY <3>2, <3>3
  <2>. QED
    BY <2>1 DEF PiecesOn, Kept, Replaced
<1>4. ASSUME NEW p \in Pages
      PROVE  /\ Free(p)' \in Nat /\ dead'[p] \in 0 .. Slots
             /\ p >= npages => PiecesOn(p)' = {} /\ dead'[p] = 0
  <2>1. /\ IsFiniteSet(Replaced(p)) /\ Cardinality(Replaced(p)) \in Nat
        /\ Cardinality(Replaced(p)) <= dead[p] /\ dead[p] \in Nat
    BY CountPieces, ToastAssumption DEF Replaced, UpdateOK, StoreOK
  <2>2. /\ Cardinality(Kept(Touched, p)) \in Nat /\ IsFiniteSet(Kept(Touched, p))
        /\ Buried(Touched)[p] \in Nat /\ Buried(Touched)[p] >= dead[p]
        /\ Free(p) \in Nat /\ Slots \in Nat
        /\ Free(p) = Slots - Cardinality(Kept(Touched, p)) - Buried(Touched)[p]
        /\ p >= npages => Kept(Touched, p) = {} /\ Buried(Touched)[p] = 0
    BY BuriedCounts
  <2>3. dead'[p] = Buried(Touched)[p] - Cardinality(Replaced(p))
        /\ Free(p)' = Slots - Cardinality(PiecesOn(p)') - dead'[p]
    BY <1>1 DEF Free
  <2>4. Kept(Touched, p) \cap Replaced(p) = {}
    BY DEF Kept, Replaced
  <2>5. Cardinality(PiecesOn(p)') = Cardinality(Kept(Touched, p)) + Cardinality(Replaced(p))
    <3>1. Cardinality(Kept(Touched, p) \union Replaced(p))
             = Cardinality(Kept(Touched, p)) + Cardinality(Replaced(p))
               - Cardinality(Kept(Touched, p) \cap Replaced(p))
      BY <2>1, <2>2, FS_Union
    <3>2. Cardinality(Kept(Touched, p) \cap Replaced(p)) = 0
      BY <2>4, FS_EmptySet
    <3>3. Cardinality(PiecesOn(p)') = Cardinality(Kept(Touched, p) \union Replaced(p))
      BY <1>3
    <3>. QED
      BY <2>1, <2>2, <3>1, <3>2, <3>3
  <2>6. Free(p)' = Free(p)
    BY <2>1, <2>2, <2>3, <2>5
  <2>7. p >= npages => PiecesOn(p)' = {} /\ dead'[p] = 0
    <3>1. SUFFICES ASSUME p >= npages
                   PROVE  PiecesOn(p)' = {} /\ dead'[p] = 0
      OBVIOUS
    <3>2. dead[p] = 0 /\ Kept(Touched, p) = {} /\ Buried(Touched)[p] = 0
      BY <2>2, <3>1 DEF StoreOK
    <3>3. Cardinality(Replaced(p)) = 0
      BY <2>1, <3>2
    <3>4. Replaced(p) = {}
      BY <2>1, <3>3, FS_EmptySet
    <3>. QED
      BY <1>3, <2>3, <3>2, <3>3, <3>4
  <2>8. dead'[p] \in 0 .. Slots
    BY <2>1, <2>2, <2>3
  <2>. QED
    BY <2>2, <2>6, <2>7, <2>8
<1>5. StoreOK'
  <2>1. dead' \in [Pages -> 0 .. Slots]
    BY <1>1, <1>4
  <2>. QED
    BY <1>2, <1>4, <2>1 DEF StoreOK
<1>6. WorkOK' /\ UpdateOK' /\ Begun' = {}
  BY <1>1, <1>5, ClosedInv
<1>7. WholeOK'
  BY <1>2, <1>6 DEF WholeOK, Begun, Touched
<1>. QED
  BY <1>5, <1>6, <1>7

(* VACUUM frees what is dead and gives back no page that holds a chunk.    *)
LEMMA VacuumInv ==
    ASSUME StorageInv, ToastVacuum
    PROVE  StorageInv'
<1>. USE DEF StorageInv
<1>1. /\ pc = "vacuum" /\ UNCHANGED <<at, update, ctids>>
      /\ npages' \in {Occupied, npages} /\ dead' = [p \in Pages |-> 0]
      /\ fsm' = [p \in Pages |-> IF p < npages' THEN Slots - Cardinality(PiecesOn(p)) ELSE 0]
  BY DEF ToastVacuum, Vacuum, Jump, Goto, work
<1>2. update = NoUpdate /\ update' = NoUpdate /\ ctids = {} /\ ctids' = {}
  BY <1>1 DEF WorkOK
<1>3. /\ Slots \in Nat /\ MaxPages \in Nat /\ npages \in 0 .. MaxPages /\ npages' \in 0 .. MaxPages
      /\ Occupied \in 0 .. npages
  BY <1>1, OccupiedBounds, ToastAssumption DEF StoreOK
<1>4. ASSUME NEW p \in Pages
      PROVE  /\ PiecesOn(p)' = PiecesOn(p) /\ Free(p)' \in Nat
             /\ Slots - Cardinality(PiecesOn(p)) \in 0 .. Slots
             /\ p >= npages' => PiecesOn(p) = {}
  <2>1. PiecesOn(p)' = PiecesOn(p)
    BY <1>1 DEF PiecesOn, Written, PageOf
  <2>2. Cardinality(PiecesOn(p)) \in Nat
    BY CountPieces DEF PiecesOn
  <2>3. dead[p] \in Nat /\ Free(p) >= 0 /\ Free(p) = Slots - Cardinality(PiecesOn(p)) - dead[p]
    BY <1>3 DEF StoreOK, Free
  <2>4. Free(p)' = Slots - Cardinality(PiecesOn(p))
    BY <1>1, <1>3, <2>1, <2>2 DEF Free
  <2>5. p >= npages' => PiecesOn(p) = {}
    BY <1>1, OccupiedBounds DEF StoreOK
  <2>. QED
    BY <1>3, <2>1, <2>2, <2>3, <2>4, <2>5
<1>5. StoreOK'
  <2>1. dead' \in [Pages -> 0 .. Slots] /\ fsm' \in [Pages -> 0 .. Slots]
    BY <1>1, <1>3, <1>4
  <2>2. \A p \in Pages : p >= npages' => PiecesOn(p)' = {} /\ dead'[p] = 0
    BY <1>1, <1>4
  <2>3. at' \in [Values -> Seq(Pages)]
    BY <1>1 DEF StoreOK
  <2>. QED
    BY <1>3, <1>4, <2>1, <2>2, <2>3 DEF StoreOK
<1>6. WorkOK' /\ UpdateOK' /\ Begun' = {}
  BY <1>2, <1>5, ClosedInv
<1>7. WholeOK'
  BY <1>1 DEF WholeOK, Begun
<1>. QED
  BY <1>5, <1>6, <1>7

(* An application may take a row out of the UPDATE, before it is locked.   *)
LEMMA AppUpdate ==
    ASSUME StorageInv, \E r : update' \in {update, [update EXCEPT !.rows = @ \ {r}]}
    PROVE  /\ update' \in Updates /\ update'.rows \subseteq update.rows
           /\ update'.open = update.open /\ update'.todo = update.todo
           /\ update'.saved = update.saved /\ update'.homes = update.homes
           /\ Touched' = Touched /\ Locked' = Locked
           /\ ~update.open => update' = NoUpdate
<1>1. update \in Updates
  BY DEF StorageInv, WorkOK
<1>2. /\ update.rows \in SUBSET Rows
      /\ update = [open |-> update.open, rows |-> update.rows, todo |-> update.todo,
                   saved |-> update.saved, homes |-> update.homes]
  BY <1>1 DEF Updates
<1>3. PICK R \in SUBSET update.rows :
         update' = [open |-> update.open, rows |-> R, todo |-> update.todo,
                    saved |-> update.saved, homes |-> update.homes]
  <2>. PICK r : update' \in {update, [update EXCEPT !.rows = @ \ {r}]}
    OBVIOUS
  <2>1. CASE update' = update
    BY <1>2, <2>1
  <2>2. CASE update' = [update EXCEPT !.rows = @ \ {r}]
    <3>1. update' = [open |-> update.open, rows |-> update.rows \ {r}, todo |-> update.todo,
                     saved |-> update.saved, homes |-> update.homes]
      BY <1>1, <2>2 DEF Updates
    <3>. QED
      BY <3>1
  <2>. QED
    BY <2>1, <2>2
<1>4. /\ update'.open = update.open /\ update'.rows = R /\ update'.todo = update.todo
      /\ update'.saved = update.saved /\ update'.homes = update.homes
  BY <1>3
<1>5. update' \in Updates
  BY <1>1, <1>2, <1>3 DEF Updates
<1>6. ~update.open => update' = NoUpdate
  <2>1. SUFFICES ASSUME ~update.open
                 PROVE  update' = NoUpdate
    OBVIOUS
  <2>2. update = NoUpdate
    BY <2>1 DEF StorageInv, WorkOK
  <2>3. R = {}
    BY <2>2 DEF NoUpdate
  <2>. QED
    BY <1>2, <1>3, <2>2, <2>3 DEF NoUpdate
<1>. QED
  BY <1>3, <1>4, <1>5, <1>6 DEF Touched, Locked

(* Applications write whole values, of rows that are not locked.           *)
LEMMA AppInv ==
    ASSUME StorageInv, UNCHANGED <<pc, ctids>>, StoreOK',
           \E r : update' \in {update, [update EXCEPT !.rows = @ \ {r}]},
           \A w \in Values : w[1] \in Locked => at'[w] = at[w],
           \A w \in Values : w[1] \notin Locked =>
               at'[w] = at[w] \/ at'[w] = <<>> \/ Len(at'[w]) = Chunks[w],
           \A q \in Pages : dead'[q] \in Nat /\ dead'[q] >= dead[q]
    PROVE  StorageInv'
<1>. USE DEF StorageInv
<1>0. /\ update' \in Updates /\ update'.rows \subseteq update.rows
      /\ update'.open = update.open /\ update'.todo = update.todo /\ update'.saved = update.saved
      /\ Touched' = Touched /\ Locked' = Locked /\ (~update.open => update' = NoUpdate)
  BY AppUpdate
<1>1. Begun' = Begun /\ Begun \subseteq update.todo /\ update.todo \subseteq Values
  BY <1>0, SavedFacts DEF Begun, Touched
<1>2. WholeOK'
  BY <1>1 DEF WholeOK, UpdateOK
<1>3. WorkOK'
  BY <1>0 DEF WorkOK
<1>4. UpdateOK'
  <2>1. ASSUME NEW q \in Pages
        PROVE  Cardinality(Replaced(q)') <= dead'[q]
    <3>1. /\ Replaced(q)' = Replaced(q) /\ Cardinality(Replaced(q)) \in Nat
          /\ Cardinality(Replaced(q)) <= dead[q] /\ dead[q] \in Nat
      BY <1>0, CountPieces, ToastAssumption DEF Replaced, UpdateOK, StoreOK
    <3>. QED
      BY <3>1
  <2>2. \A w \in update.todo : at'[w] # <<>>
    BY <1>1 DEF UpdateOK
  <2>3. \A w \in Values : w[1] \in Locked => w \in update.todo \union Touched \/ at'[w] = <<>>
    BY DEF UpdateOK
  <2>4. update'.rows \cap Locked' = {}
    BY <1>0 DEF UpdateOK
  <2>. QED
    BY <1>0, <2>1, <2>2, <2>3, <2>4 DEF UpdateOK
<1>. QED
  BY <1>2, <1>3, <1>4

LEMMA AppDeleteInv ==
    ASSUME StorageInv, NEW r \in Rows, r \notin Locked, AppDelete(r), UNCHANGED <<pc, ctids>>
    PROVE  StorageInv'
<1>. USE DEF StorageInv
<1>. DEFINE gone == ValuesOf({r})
<1>1. /\ at' = [v \in Values |-> IF v[1] = r THEN <<>> ELSE at[v]] /\ dead' = Buried(gone)
      /\ UNCHANGED <<npages, fsm>> /\ update' = [update EXCEPT !.rows = @ \ {r}]
  BY DEF AppDelete
<1>2. at' \in [Values -> Seq(Pages)]
  BY <1>1 DEF StoreOK
<1>3. ASSUME NEW p \in Pages
      PROVE  PiecesOn(p)' = Kept(gone, p)
  <2>1. ASSUME NEW x \in Pieces
        PROVE  x \in PiecesOn(p)' <=> x \in Kept(gone, p)
    <3>1. x[1] \in Values /\ x[2] \in Nat /\ x[2] >= 1 /\ (x[1] \in gone <=> x[1][1] = r)
      BY PieceFacts DEF ValuesOf
    <3>2. CASE x[1][1] = r
      <4>1. Len(at'[x[1]]) = 0
        BY <1>1, <3>1, <3>2
      <4>. QED
        BY <3>1, <3>2, <4>1 DEF PiecesOn, Written, Kept
    <3>3. CASE x[1][1] # r
      <4>1. at'[x[1]] = at[x[1]]
        BY <1>1, <3>1, <3>3
      <4>. QED
        BY <3>1, <3>3, <4>1 DEF PiecesOn, Written, PageOf, Kept
    <3>. QED
      BY <3>2, <3>3
  <2>. QED
    BY <2>1 DEF PiecesOn, Kept
<1>. HIDE DEF gone
<1>4. ASSUME NEW p \in Pages
      PROVE  /\ Free(p)' \in Nat /\ dead'[p] \in 0 .. Slots /\ dead'[p] \in Nat /\ dead'[p] >= dead[p]
             /\ p >= npages => PiecesOn(p)' = {} /\ dead'[p] = 0
  <2>1. /\ Cardinality(Kept(gone, p)) \in Nat /\ dead'[p] \in Nat /\ dead'[p] >= dead[p]
        /\ Free(p) \in Nat /\ Slots \in Nat
        /\ Free(p) = Slots - Cardinality(Kept(gone, p)) - dead'[p]
        /\ p >= npages => Kept(gone, p) = {} /\ dead'[p] = 0
    BY <1>1, BuriedCounts
  <2>2. Free(p)' = Slots - Cardinality(Kept(gone, p)) - dead'[p]
    BY <1>3 DEF Free
  <2>3. dead'[p] \in 0 .. Slots
    BY <2>1
  <2>. QED
    BY <1>3, <2>1, <2>2, <2>3
<1>5. StoreOK'
  <2>1. dead' \in [Pages -> 0 .. Slots]
    BY <1>1, <1>4 DEF Buried
  <2>. QED
    BY <1>1, <1>2, <1>4, <2>1 DEF StoreOK
<1>6. \A w \in Values : at'[w] = IF w[1] = r THEN <<>> ELSE at[w]
  BY <1>1
<1>7. \A q \in Pages : dead'[q] \in Nat /\ dead'[q] >= dead[q]
  BY <1>4
<1>. QED
  BY <1>1, <1>5, <1>6, <1>7, AppInv

LEMMA AppReplaceInv ==
    ASSUME StorageInv, NEW v \in Values, v[1] \notin Locked, AppReplace(v), UNCHANGED <<pc, ctids>>
    PROVE  StorageInv'
<1>. USE DEF StorageInv
<1>1. PICK p \in Targets : at' = [at EXCEPT ![v] = <<p>>] /\ npages' = Grown(p)
  BY DEF AppReplace
<1>2. /\ Len(at[v]) = 1 /\ dead' = Buried({v}) /\ fsm' = fsm
      /\ update' \in {update, [update EXCEPT !.rows = @ \ {v[1]}]}
  BY DEF AppReplace, NewVersion
<1>3. StoreOK' /\ \A q \in Pages : dead'[q] \in Nat /\ dead'[q] >= dead[q]
  BY <1>1, <1>2, PlaceChunkInv
<1>4. Chunks[v] = 1
  <2>1. v \notin Begun /\ at[v] # <<>>
    BY <1>2 DEF UpdateOK, Begun
  <2>. QED
    BY <1>2, <2>1 DEF WholeOK
<1>5. Len(at'[v]) = Chunks[v] /\ \A w \in Values : w # v => at'[w] = at[w]
  BY <1>1, <1>4 DEF StoreOK
<1>. QED
  BY <1>2, <1>3, <1>5, AppInv

LEMMA AppTouchInv ==
    ASSUME StorageInv, NEW r, AppTouch(r), UNCHANGED <<pc, ctids>>
    PROVE  StorageInv'
<1>. USE DEF StorageInv
<1>1. UNCHANGED storage /\ update' \in {update, [update EXCEPT !.rows = @ \ {r}]}
  BY DEF AppTouch, NewVersion
<1>2. StoreOK'
  BY <1>1 DEF StoreOK, storage, Free, PiecesOn, Written, PageOf
<1>3. at' = at /\ \A q \in Pages : dead'[q] \in Nat /\ dead'[q] >= dead[q]
  BY <1>1, ToastAssumption DEF storage, StoreOK
<1>. QED
  BY <1>1, <1>2, <1>3, AppInv

----------------------------------------------------------------------------
(* The invariant, part by part.                                            *)

(* Steps that leave relation, map and UPDATE alone.                        *)
Idle == ToastRead \/ ToastQuiet \/ UNCHANGED allVars

LEMMA IdleLabels ==
    ASSUME IInv, Idle
    PROVE  /\ UNCHANGED toastVars
           /\ \/ UNCHANGED allVars
              \/ /\ pc \notin {"collect", "rewrite", "setup", "returned", "raised"}
                 /\ pc' \notin {"start", "rewrite", "advance", "returned", "raised"}
<1>1. CASE ToastRead
  BY <1>1 DEF ToastRead, Start, VacuumMeasure, VacuumRemeasure, VacuumLanding, Probe, Goto, IInv, TypeOK
<1>2. CASE ToastQuiet
  BY <1>2 DEF ToastQuiet, LoopExit, Iterate, Starve, GiveUp, OpenWindow, Advance, DiskOk, DiskLow,
              PeriodicVacuum, DeferVacuum, Plateau, FinalVacuum, NoFinalVacuum, Rollback, CallVacuum,
              Jump, Goto
<1>3. CASE UNCHANGED allVars
  BY <1>3 DEF allVars, vars
<1>. QED
  BY <1>1, <1>2, <1>3 DEF Idle

LEMMA ToastInitStorage == ToastInit => StorageInv
<1>. SUFFICES ASSUME ToastInit
              PROVE  StorageInv
  OBVIOUS
<1>. USE DEF StorageInv
<1>1. /\ StartPages \in Nat /\ MaxPages \in Nat /\ StartPages <= MaxPages /\ Slots \in Nat
      /\ npages = StartPages /\ dead = [p \in Pages |-> 0] /\ update = NoUpdate /\ ctids = {}
      /\ \A p \in Pages : Free(p) >= 0
  BY ToastAssumption DEF ToastInit
<1>2. at \in [Values -> UNION {[1 .. Chunks[v] -> 0 .. StartPages - 1] : v \in Values}]
      /\ \A v \in Values : Len(at[v]) = Chunks[v]
  BY DEF ToastInit
<1>3. ASSUME NEW v \in Values
      PROVE  at[v] \in Seq(Pages) /\ \A i \in 1 .. Chunks[v] : at[v][i] < StartPages
  <2>1. PICK w \in Values : at[v] \in [1 .. Chunks[w] -> 0 .. StartPages - 1]
    BY <1>2
  <2>2. Chunks[w] \in Nat /\ Chunks[v] \in Nat
    BY PieceFacts
  <2>3. at[v] \in [1 .. Chunks[w] -> Pages]
    BY <1>1, <2>1 DEF Pages
  <2>4. at[v] \in Seq(Pages) /\ Len(at[v]) = Chunks[w]
    BY <2>2, <2>3
  <2>5. Chunks[w] = Chunks[v]
    BY <1>2, <2>4
  <2>6. \A i \in 1 .. Chunks[w] : at[v][i] < StartPages
    <3>1. \A i \in 1 .. Chunks[w] : at[v][i] \in 0 .. StartPages - 1
      BY <2>1
    <3>2. \A n \in 0 .. StartPages - 1 : n < StartPages
      BY ToastAssumption
    <3>. QED
      BY <3>1, <3>2
  <2>. QED
    BY <2>4, <2>5, <2>6
<1>4. ASSUME NEW p \in Pages, p >= npages
      PROVE  PiecesOn(p) = {}
  <2>. SUFFICES ASSUME NEW x \in Pieces, PageOf(x) = p
                PROVE  FALSE
    BY DEF PiecesOn
  <2>1. PageOf(x) < StartPages
    BY <1>3, PieceFacts DEF PageOf
  <2>. QED
    BY <1>1, <1>4, <2>1 DEF Pages
<1>5. ASSUME NEW p \in Pages
      PROVE  Free(p) \in 0 .. Slots
  <2>1. Cardinality(PiecesOn(p)) \in Nat
    BY CountPieces DEF PiecesOn
  <2>. QED
    BY <1>1, <2>1 DEF Free
<1>6. StoreOK
  <2>1. dead \in [Pages -> 0 .. Slots] /\ npages \in 0 .. MaxPages
    BY <1>1
  <2>2. fsm \in [Pages -> 0 .. Slots]
    BY <1>1, <1>5 DEF ToastInit
  <2>3. at \in [Values -> Seq(Pages)]
    BY <1>2, <1>3
  <2>. QED
    BY <1>1, <1>4, <2>1, <2>2, <2>3 DEF StoreOK
<1>7. Touched = {} /\ Begun = {} /\ update.todo = {} /\ Locked = {} /\ update.rows = {}
  BY <1>1, NothingSaved DEF Touched, Begun, Locked, NoUpdate
<1>8. WholeOK
  BY <1>2, <1>7 DEF WholeOK
<1>9. WorkOK
  BY <1>1, NothingSaved DEF WorkOK, NoUpdate
<1>10. UpdateOK
  <2>1. \A p \in Pages : Cardinality(Replaced(p)) = 0
    BY <1>7, FS_EmptySet DEF Replaced
  <2>. QED
    BY <1>1, <1>7, <2>1 DEF UpdateOK
<1>. QED
  BY <1>6, <1>8, <1>9, <1>10

(* A row that is live has a ctid.                                          *)
LEMMA LiveHomes ==
    ASSUME HomeOK, NEW v \in Values, at[v] # <<>>
    PROVE  v[1] \in Rows /\ home[v[1]] \in Ctids
BY PieceFacts DEF HomeOK

(* Steps of setup, of collecting and of teardown, which only read chunks.  *)
LEMMA ReadersInv ==
    ASSUME IInv, StorageInv, HomeOK, MapOK,
           Idle \/ CreateFunction \/ BuildBegin \/ ScanTuple \/ ToastSetup \/ CollectNative \/ CollectBulk
           \/ RebuildDrop \/ RebuildFails \/ ToastTeardown \/ ToastTeardownFails
    PROVE  StorageInv' /\ UNCHANGED <<at, home, update>>
<1>. USE DEF StorageInv
<1>1. CASE UNCHANGED allVars
  BY <1>1, StayInv DEF allVars, vars, toastVars, storage, heap, work, WorkOK
<1>2. pc # "rewrite" => ~update.open /\ ctids = {}
  BY DEF WorkOK
<1>3. CASE Idle /\ pc # "rewrite"
  BY <1>2, <1>3, IdleLabels, StayInv DEF toastVars, storage, heap, work
<1>4. CASE CreateFunction \/ BuildBegin \/ ScanTuple \/ ToastSetup \/ RebuildDrop \/ RebuildFails
           \/ ToastTeardown \/ ToastTeardownFails
  <2>1. pc # "rewrite" /\ UNCHANGED <<storage, home, work>>
    BY <1>4 DEF CreateFunction, BuildBegin, ScanTuple, ToastSetup, Setup, RebuildDrop, RebuildFails,
                ToastTeardown, Teardown, ToastTeardownFails, TeardownFails, Jump, Goto, heap
  <2>. QED
    BY <1>2, <2>1, StayInv DEF work, storage
<1>5. CASE CollectNative
  <2>. DEFINE found == {r \in Rows : <<r, 1>> \in Values /\ at[<<r, 1>>] # <<>> /\ InRange(at[<<r, 1>>][1])}
  <2>1. /\ pc = "collect" /\ UNCHANGED <<storage, home, update>> /\ ctids' = {home[r] : r \in found}
        /\ found # {} => pc' = "rewrite"
    BY <1>5 DEF CollectNative, Collect, Jump, Goto, heap
  <2>2. \A r \in found : home[r] \in Ctids
    BY LiveHomes
  <2>3. ctids' \subseteq Ctids /\ (ctids' # {} => pc' = "rewrite")
    BY <2>1, <2>2
  <2>. QED
    BY <1>2, <2>1, <2>3, StayInv DEF storage
<1>6. CASE CollectBulk
  <2>1. /\ pc = "collect" /\ UNCHANGED <<storage, home, update>> /\ ctids' = {x[2] : x \in pairs}
        /\ pairs # {} => pc' = "rewrite"
    BY <1>6 DEF CollectBulk, Collect, Jump, Goto, heap
  <2>2. \A x \in pairs : x[2] \in Ctids
    BY DEF pairs, MapOK
  <2>3. ctids' \subseteq Ctids /\ (ctids' # {} => pc' = "rewrite")
    BY <2>1, <2>2
  <2>. QED
    BY <1>2, <2>1, <2>3, StayInv DEF storage
<1>. QED
  BY <1>1, <1>3, <1>4, <1>5, <1>6, IdleLabels

LEMMA StorageStep ==
    ASSUME IInv, StorageInv, HomeOK, MapOK, [ToastNext]_allVars
    PROVE  StorageInv'
<1>1. ASSUME AppWrite
      PROVE  StorageInv'
  <2>1. PICK v \in Values : /\ v[1] \notin Locked
                            /\ AppTouch(v[1]) \/ AppDelete(v[1]) \/ AppReplace(v)
    BY <1>1 DEF AppWrite, Unlocked
  <2>2. v[1] \in Rows /\ UNCHANGED <<pc, ctids>>
    BY <1>1, PieceFacts DEF AppWrite, vars
  <2>. QED
    BY <2>1, <2>2, AppTouchInv, AppDeleteInv, AppReplaceInv
<1>2. ASSUME ToastBreak
      PROVE  StorageInv'
  BY <1>2, UndoInv DEF ToastBreak
<1>3. ASSUME NEW v \in update.todo, NEW p \in Targets, RewriteChunk(v, p)
      PROVE  StorageInv'
  BY <1>3, RewriteChunkInv
<1>4. ASSUME NEW r \in update.rows, RewriteRow(r)
      PROVE  StorageInv'
  BY <1>4, RewriteRowInv
<1>. QED
  BY <1>1, <1>2, <1>3, <1>4, ReadersInv, RewriteBeginInv, RewriteCommitInv, VacuumInv
     DEF ToastNext, ToastProceed, Idle

(* The ctids: a new version takes one that is nobody's and that a rollback *)
(* will not need.                                                          *)
LEMMA HomeStep ==
    ASSUME IInv, StorageInv, HomeOK, MapOK, [ToastNext]_allVars
    PROVE  HomeOK'
<1>. USE DEF HomeOK
<1>1. ASSUME UNCHANGED <<at, home, update>>
      PROVE  HomeOK'
  BY <1>1 DEF Locked
<1>2. ASSUME ToastVacuum
      PROVE  HomeOK'
  BY <1>1, <1>2 DEF ToastVacuum, heap, work
<1>3. ASSUME RewriteBegin
      PROVE  HomeOK'
  <2>1. /\ UNCHANGED <<at, home>> /\ update'.rows = RowsAt(ctids) /\ update'.homes = <<>>
    BY <1>3 DEF RewriteBegin, NoUpdate, storage, heap
  <2>2. Locked' = {}
    BY <2>1, NothingSaved DEF Locked
  <2>3. \A r \in RowsAt(ctids) : home[r] # Nowhere
    BY ToastAssumption DEF RowsAt, StorageInv, WorkOK, Ctids, Nowhere
  <2>. QED
    BY <2>1, <2>2, <2>3
<1>4. ASSUME NEW r \in update.rows, RewriteRow(r)
      PROVE  HomeOK'
  <2>1. /\ at' = at /\ r \in Rows /\ r \notin Locked /\ home[r] \in Ctids
        /\ update'.rows = update.rows \ {r} /\ Locked' = Locked \union {r}
        /\ \A s \in Locked' : update'.homes[s] = IF s \in Locked THEN update.homes[s] ELSE home[s]
    BY <1>4, RowReached DEF storage
  <2>2. PICK c \in NewHomes : home' = [home EXCEPT ![r] = c]
    BY <1>4 DEF RewriteRow
  <2>3. c \in Ctids /\ (\A s \in Rows : c # home[s]) /\ (\A s \in Locked : c # update.homes[s])
    BY DEF NewHomes, Vacant
  <2>4. home[r] # Nowhere /\ c # Nowhere
    BY <2>1, <2>3 DEF Ctids, Nowhere
  <2>5. Locked \subseteq Rows
    BY SavedFacts DEF StorageInv
  <2>6. home' \in [Rows -> Ctids \union {Nowhere}]
        /\ \A q \in Rows : home'[q] = IF q = r THEN c ELSE home[q]
    BY <2>2, <2>3
  <2>7. \A q, s \in Rows : home'[q] = home'[s] /\ home'[q] # Nowhere => q = s
    BY <2>3, <2>6
  <2>8. \A q \in Locked' : \A s \in Rows : home'[s] # update'.homes[q]
    BY <2>1, <2>3, <2>4, <2>6
  <2>9. \A q, s \in Locked' : update'.homes[q] = update'.homes[s] => q = s
    BY <2>1, <2>5
  <2>10. \A v \in Values : at'[v] # <<>> => home'[v[1]] # Nowhere
    BY <2>1, <2>4, <2>6, PieceFacts
  <2>11. \A q \in update'.rows : home'[q] # Nowhere
    BY <2>1, <2>4, <2>6, SavedFacts DEF StorageInv
  <2>. QED
    BY <2>6, <2>7, <2>8, <2>9, <2>10, <2>11
<1>5. ASSUME NEW v \in update.todo, NEW p \in Targets, RewriteChunk(v, p)
      PROVE  HomeOK'
  <2>1. /\ home' = home /\ update'.rows = update.rows /\ update'.homes = update.homes
        /\ at[v] # <<>> /\ \A w \in Values : w # v => at'[w] = at[w]
    BY <1>5 DEF RewriteChunk, heap, StorageInv, WorkOK, Updates, UpdateOK, StoreOK
  <2>2. \A w \in Values : at'[w] # <<>> => home'[w[1]] # Nowhere
    BY <2>1
  <2>. QED
    BY <2>1, <2>2 DEF Locked
<1>6. ASSUME RewriteCommit
      PROVE  HomeOK'
  <2>1. UNCHANGED <<at, home>> /\ update' = NoUpdate
    BY <1>6 DEF RewriteCommit, storage, heap
  <2>2. Locked' = {} /\ update'.rows = {}
    BY <2>1, NothingSaved DEF Locked, NoUpdate
  <2>. QED
    BY <2>1, <2>2
<1>7. ASSUME ToastBreak
      PROVE  HomeOK'
  <2>1. /\ at' = [v \in Values |-> IF v \in Touched THEN update.saved[v] ELSE at[v]]
        /\ home' = [r \in Rows |-> IF r \in Locked THEN update.homes[r] ELSE home[r]]
        /\ update' = NoUpdate
    BY <1>7 DEF ToastBreak, Undo, AbandonWork, Touched
  <2>2. Locked' = {} /\ update'.rows = {}
    BY <2>1, NothingSaved DEF Locked, NoUpdate
  <2>3. Locked \subseteq Rows /\ (\A r \in Locked : update.homes[r] \in Ctids) /\ Nowhere \notin Ctids
    BY SavedFacts, ToastAssumption DEF StorageInv, Ctids, Nowhere
  <2>4. home' \in [Rows -> Ctids \union {Nowhere}]
    BY <2>1, <2>3
  <2>5. \A r, s \in Rows : home'[r] = home'[s] /\ home'[r] # Nowhere => r = s
    BY <2>1
  <2>6. ASSUME NEW v \in Values, at'[v] # <<>>
        PROVE  home'[v[1]] # Nowhere
    <3>1. v[1] \in Rows
      BY PieceFacts
    <3>2. CASE v[1] \in Locked
      BY <2>1, <2>3, <3>1, <3>2
    <3>3. CASE v[1] \notin Locked
      <4>1. v \notin Touched
        BY <3>3 DEF StorageInv, UpdateOK
      <4>. QED
        BY <2>1, <2>6, <3>1, <3>3, <4>1
    <3>. QED
      BY <3>2, <3>3
  <2>. QED
    BY <2>2, <2>4, <2>5, <2>6
<1>8. ASSUME AppWrite
      PROVE  HomeOK'
  <2>1. PICK v \in Values : /\ v[1] \notin Locked
                            /\ AppTouch(v[1]) \/ AppDelete(v[1]) \/ AppReplace(v)
    BY <1>8 DEF AppWrite, Unlocked
  <2>. DEFINE r == v[1]
  <2>2. r \in Rows /\ Locked \subseteq Rows /\ update.rows \subseteq Rows
        /\ (\A q \in Locked : update.homes[q] \in Ctids) /\ Nowhere \notin Ctids
    BY PieceFacts, SavedFacts, ToastAssumption DEF StorageInv, Ctids, Nowhere
  <2>3. update' \in {update, [update EXCEPT !.rows = @ \ {r}]}
    BY <2>1 DEF AppTouch, AppDelete, AppReplace, NewVersion
  <2>4. update'.rows \subseteq update.rows /\ update'.homes = update.homes /\ Locked' = Locked
    BY <2>3, AppUpdate
  <2>5. CASE AppDelete(r)
    <3>1. /\ home' = [home EXCEPT ![r] = Nowhere] /\ update' = [update EXCEPT !.rows = @ \ {r}]
          /\ at' = [w \in Values |-> IF w[1] = r THEN <<>> ELSE at[w]]
      BY <2>5 DEF AppDelete
    <3>2. r \notin update'.rows
      BY <3>1 DEF StorageInv, WorkOK, Updates
    <3>3. home' \in [Rows -> Ctids \union {Nowhere}]
          /\ \A q \in Rows : home'[q] = IF q = r THEN Nowhere ELSE home[q]
      BY <3>1
    <3>4. \A q, s \in Rows : home'[q] = home'[s] /\ home'[q] # Nowhere => q = s
      BY <3>3
    <3>5. \A q \in Locked' : \A s \in Rows : home'[s] # update'.homes[q]
      BY <2>2, <2>4, <3>3
    <3>6. \A w \in Values : at'[w] # <<>> => home'[w[1]] # Nowhere
      BY <3>1, <3>3, PieceFacts
    <3>7. \A q \in update'.rows : home'[q] # Nowhere
      BY <2>2, <2>4, <3>2, <3>3
    <3>. QED
      BY <2>4, <3>3, <3>4, <3>5, <3>6, <3>7
  <2>6. CASE AppTouch(r) \/ AppReplace(v)
    <3>1. PICK c \in NewHomes : home' = [home EXCEPT ![r] = c]
      BY <2>6 DEF AppTouch, AppReplace, NewVersion
    <3>2. c \in Ctids /\ (\A s \in Rows : c # home[s]) /\ (\A s \in Locked : c # update.homes[s])
      BY DEF NewHomes, Vacant
    <3>3. home' \in [Rows -> Ctids \union {Nowhere}]
          /\ \A q \in Rows : home'[q] = IF q = r THEN c ELSE home[q]
      BY <3>1, <3>2
    <3>4. \A q, s \in Rows : home'[q] = home'[s] /\ home'[q] # Nowhere => q = s
      BY <3>2, <3>3
    <3>5. \A q \in Locked' : \A s \in Rows : home'[s] # update'.homes[q]
      BY <2>4, <3>2, <3>3
    <3>6. \A w \in Values : w[1] # r => at'[w] = at[w]
      BY <2>6 DEF AppTouch, AppReplace, storage, StorageInv, StoreOK
    <3>7. \A w \in Values : at'[w] # <<>> => home'[w[1]] # Nowhere
      BY <2>2, <3>2, <3>3, <3>6, PieceFacts
    <3>8. \A q \in update'.rows : home'[q] # Nowhere
      BY <2>2, <2>4, <3>2, <3>3
    <3>. QED
      BY <2>4, <3>3, <3>4, <3>5, <3>7, <3>8
  <2>. QED
    BY <2>1, <2>5, <2>6
<1>. QED
  BY <1>1, <1>2, <1>3, <1>4, <1>5, <1>6, <1>7, <1>8, ReadersInv DEF ToastNext, ToastProceed, Idle

(* The map and the histories.                                              *)
LEMMA MapStep ==
    ASSUME IInv, StorageInv, HomeOK, MapOK, [ToastNext]_allVars
    PROVE  MapOK'
<1>. USE DEF MapOK
<1>1. ASSUME UNCHANGED <<mapTable, scanner, deadMapped, noScanner, chunkMap, older, toScan, renewed, writes>>,
             pc \in {"setup", "raised"} => pc' \in {"setup", "raised"}
      PROVE  MapOK'
  BY <1>1
<1>2. ASSUME Idle
      PROVE  MapOK'
  BY <1>1, <1>2, IdleLabels DEF toastVars, heap, scaffold, traces, allVars, vars
<1>3. ASSUME CreateFunction
      PROVE  MapOK'
  BY <1>3 DEF CreateFunction, heap, traces, vars
<1>4. ASSUME BuildBegin
      PROVE  MapOK'
  <2>1. PICK n \in Ctids : toScan' = 1 .. n
    BY <1>4 DEF BuildBegin
  <2>2. toScan' \subseteq Ctids
    BY <2>1, ToastAssumption DEF Ctids
  <2>. QED
    BY <1>4, <2>2 DEF BuildBegin, heap, traces, vars
<1>5. ASSUME ScanTuple
      PROVE  MapOK'
  <2>1. PICK c \in toScan :
           /\ toScan' = toScan \ {c}
           /\ chunkMap' = chunkMap \union ({v \in Values : FirstPointer(v) /\ home[v[1]] = c} \X {c})
                              \union {x \in older : x[2] = c}
           /\ deadMapped' = (deadMapped \/ {x \in older : x[2] = c} # {})
    BY <1>5 DEF ScanTuple
  <2>2. /\ UNCHANGED <<vars, older, mapTable, scanner, renewed, noScanner, writes>> /\ pc = "setup"
    BY <1>5 DEF ScanTuple, heap
  <2>3. c \in Ctids
    OBVIOUS
  <2>4. chunkMap' \subseteq Values \X Ctids
    BY <2>1, <2>3
  <2>5. deadMapped' \in BOOLEAN /\ toScan' \subseteq Ctids
    BY <2>1
  <2>. QED
    BY <2>2, <2>4, <2>5 DEF vars
<1>6. ASSUME ToastSetup
      PROVE  MapOK'
  BY <1>6 DEF ToastSetup, scaffold, traces
<1>7. ASSUME CollectNative \/ CollectBulk \/ RewriteBegin \/ ToastVacuum
      PROVE  MapOK'
  BY <1>1, <1>7 DEF CollectNative, CollectBulk, Collect, RewriteBegin, ToastVacuum, Vacuum, Jump, Goto,
                    vars, heap, scaffold, traces
<1>8. ASSUME RebuildDrop \/ ToastTeardown
      PROVE  MapOK'
  BY <1>8 DEF RebuildDrop, ToastTeardown, Teardown, Jump, Goto, vars, heap, traces
<1>9. ASSUME RebuildFails \/ ToastTeardownFails
      PROVE  MapOK'
  BY <1>9 DEF RebuildFails, Fail, Raise, TryLabels, StatementLabels, ToastTeardownFails, TeardownFails,
              heap, traces
<1>10. ASSUME RewriteCommit
       PROVE  MapOK'
  <2>1. renewed' \subseteq Values
    BY <1>10, SavedFacts DEF RewriteCommit, StorageInv, Touched
  <2>2. pc = "rewrite" /\ chunkMap' \subseteq chunkMap
        /\ UNCHANGED <<mapTable, scanner, deadMapped, noScanner, older, toScan, writes>>
    BY <1>10 DEF RewriteCommit, Rewrite, Jump, Goto, heap
  <2>. QED
    BY <2>1, <2>2
<1>11. ASSUME NEW r, RewriteRow(r)
       PROVE  MapOK'
  BY <1>1, <1>11 DEF RewriteRow, scaffold, traces, vars
<1>12. ASSUME NEW v, NEW p, RewriteChunk(v, p)
       PROVE  MapOK'
  BY <1>1, <1>12 DEF RewriteChunk, heap, scaffold, traces, vars
<1>13. ASSUME ToastBreak
       PROVE  MapOK'
  <2>1. pc \in {"setup", "raised"} => pc' \in {"setup", "raised"}
    BY <1>13 DEF ToastBreak, FailEarly, Cancel, Fail, Raise, TryLabels, StatementLabels, CallLabels
  <2>. QED
    BY <1>1, <1>13, <2>1 DEF ToastBreak, scaffold, traces
<1>14. ASSUME AppWrite
       PROVE  MapOK'
  <2>1. PICK v \in Values : AppTouch(v[1]) \/ AppDelete(v[1]) \/ AppReplace(v)
    BY <1>14 DEF AppWrite
  <2>2. chunkMap' \subseteq chunkMap
    BY <2>1 DEF AppTouch, AppDelete, AppReplace, NewVersion, Forget
  <2>3. ASSUME NEW r, NEW gone
        PROVE  LeftBehind(r, gone) \subseteq Values \X Ctids
    BY LiveHomes DEF LeftBehind, FirstPointer
  <2>4. older' \subseteq Values \X Ctids
    BY <2>1, <2>3 DEF AppTouch, AppDelete, AppReplace, NewVersion
  <2>5. UNCHANGED <<vars, mapTable, scanner, toScan, renewed, deadMapped, noScanner>> /\ writes' \in Nat
    BY <1>14 DEF AppWrite
  <2>. QED
    BY <2>2, <2>4, <2>5 DEF vars
<1>. QED
  BY <1>2, <1>3, <1>4, <1>5, <1>6, <1>7, <1>8, <1>9, <1>10, <1>11, <1>12, <1>13, <1>14
     DEF ToastNext, ToastProceed, Idle

(* Only teardown leads to a normal return.                                 *)
LEMMA ScaffoldStep ==
    ASSUME IInv, NoScaffoldLeft, [ToastNext]_allVars
    PROVE  NoScaffoldLeft'
<1>. SUFFICES ASSUME pc' = "returned"
              PROVE  ~mapTable' /\ ~scanner'
  BY DEF NoScaffoldLeft
<1>1. ASSUME Idle
      PROVE  ~mapTable' /\ ~scanner'
  BY <1>1, IdleLabels DEF NoScaffoldLeft, toastVars, scaffold, allVars, vars
<1>2. ASSUME ToastTeardown
      PROVE  ~mapTable' /\ ~scanner'
  BY <1>2 DEF ToastTeardown
<1>3. ~ (CreateFunction \/ BuildBegin \/ ScanTuple \/ ToastSetup \/ CollectNative \/ CollectBulk \/ RebuildDrop \/ RebuildFails
         \/ RewriteBegin \/ RewriteCommit \/ ToastVacuum \/ ToastBreak \/ ToastTeardownFails)
  BY DEF CreateFunction, BuildBegin, ScanTuple, ToastSetup, Setup, CollectNative, CollectBulk, Collect, RebuildDrop,
         RebuildFails, RewriteBegin, RewriteCommit, Rewrite, ToastVacuum, Vacuum, ToastBreak,
         ToastTeardownFails, TeardownFails, FailEarly, Cancel, Fail, Raise, Jump, Goto, vars
<1>4. ASSUME NEW v, NEW p, RewriteChunk(v, p)
      PROVE  ~mapTable' /\ ~scanner'
  BY <1>4 DEF RewriteChunk, vars, scaffold, NoScaffoldLeft
<1>5. ASSUME NEW r, RewriteRow(r)
      PROVE  ~mapTable' /\ ~scanner'
  BY <1>5 DEF RewriteRow, vars, scaffold, NoScaffoldLeft
<1>6. ASSUME AppWrite
      PROVE  ~mapTable' /\ ~scanner'
  BY <1>6 DEF AppWrite, vars, NoScaffoldLeft
<1>. QED
  BY <1>1, <1>2, <1>3, <1>4, <1>5, <1>6 DEF ToastNext, ToastProceed, Idle

(* What is collected and rewritten lies in the window.                     *)
LEMMA TargetStep ==
    ASSUME IInv, StorageInv, HomeOK, MapOK, TargetOK, SkipOK, [ToastNext]_allVars
    PROVE  TargetOK'
<1>1. ASSUME ctids' = {}, update' = NoUpdate
      PROVE  TargetOK'
  <2>1. Pending' = {} /\ Locked' = {}
    BY <1>1, NothingSaved DEF Pending, RowsAt, Locked, NoUpdate
  <2>. QED
    BY <2>1 DEF TargetOK
<1>2. pc # "rewrite" => ctids = {} /\ update = NoUpdate
  BY DEF StorageInv, WorkOK
<1>3. ASSUME Pending' \union Locked' \subseteq Pending \union Locked, UNCHANGED <<winStart, cursor, scaffolded>>,
             Undisturbed' /\ ~deadMapped' => Undisturbed /\ ~deadMapped,
             \A v \in Values : SnapshotPages(v)' = SnapshotPages(v)
      PROVE  TargetOK'
  BY <1>3 DEF TargetOK, InRange, ValuesOf
<1>4. ASSUME Idle \/ CreateFunction \/ BuildBegin \/ ScanTuple \/ ToastSetup \/ RebuildDrop \/ RebuildFails
             \/ ToastVacuum \/ ToastTeardown \/ ToastTeardownFails
      PROVE  TargetOK'
  <2>1. CASE UNCHANGED allVars
    <3>1. \A v \in Values : SnapshotPages(v)' = SnapshotPages(v)
      BY <2>1 DEF allVars, toastVars, storage, work, SnapshotPages
    <3>2. Pending' = Pending /\ Locked' = Locked
      BY <2>1 DEF allVars, toastVars, heap, work, Pending, RowsAt, Locked
    <3>3. Undisturbed' /\ ~deadMapped' => Undisturbed /\ ~deadMapped
      BY <2>1 DEF allVars, toastVars, traces, vars, state, exits, Undisturbed
    <3>. QED
      BY <1>3, <2>1, <3>1, <3>2, <3>3 DEF allVars, vars, state, params, walk, locals
  <2>2. CASE ~ UNCHANGED allVars
    <3>1. pc # "rewrite" /\ UNCHANGED work
      BY <1>4, <2>2, IdleLabels
         DEF CreateFunction, BuildBegin, ScanTuple, ToastSetup, Setup, RebuildDrop, RebuildFails,
             ToastVacuum, Vacuum, ToastTeardown, Teardown, ToastTeardownFails, TeardownFails, Jump, Goto,
             toastVars, work
    <3>. QED
      BY <1>1, <1>2, <3>1 DEF work
  <2>. QED
    BY <2>1, <2>2
<1>5. ASSUME ToastBreak \/ RewriteCommit
      PROVE  TargetOK'
  BY <1>1, <1>5 DEF ToastBreak, AbandonWork, RewriteCommit, StorageInv, WorkOK
<1>6. ASSUME CollectNative \/ CollectBulk, Undisturbed', ~deadMapped'
      PROVE  /\ pc = "collect" /\ update = NoUpdate /\ Undisturbed /\ ~deadMapped
             /\ UNCHANGED <<at, home, update, winStart, cursor>>
             /\ Locked = {} /\ Locked' = {} /\ Pending' = RowsAt(ctids')
             /\ \A p : InRange(p)' <=> InRange(p)
             /\ \A v : SnapshotPages(v)' = {at[v][i] : i \in DOMAIN at[v]}
  <2>1. /\ pc = "collect" /\ UNCHANGED <<at, home, update, writes, deadMapped, state>>
    BY <1>6 DEF CollectNative, CollectBulk, Collect, Jump, Goto, storage, heap, traces
  <2>2. UNCHANGED <<scaffolded, winStart, cursor, failed, cancelled>>
    BY <2>1 DEF state, params, walk, locals, exits
  <2>3. update = NoUpdate /\ Undisturbed /\ ~deadMapped
    BY <1>2, <1>6, <2>1, <2>2 DEF Undisturbed
  <2>4. Locked = {} /\ Locked' = {} /\ update'.rows = {} /\ DOMAIN update'.saved = {}
    BY <2>1, <2>3, NothingSaved DEF Locked, NoUpdate
  <2>5. Pending' = RowsAt(ctids')
    BY <2>1, <2>4 DEF Pending, RowsAt
  <2>6. \A v : SnapshotPages(v)' = {at[v][i] : i \in DOMAIN at[v]}
    BY <2>1, <2>4 DEF SnapshotPages
  <2>7. \A p : InRange(p)' <=> InRange(p)
    BY <2>2 DEF InRange
  <2>. QED
    BY <2>1, <2>2, <2>3, <2>4, <2>5, <2>6, <2>7
<1>7. ASSUME CollectNative
      PROVE  TargetOK'
  <2>. SUFFICES ASSUME Undisturbed', ~deadMapped', NEW r \in RowsAt(ctids')
                PROVE  \E v \in ValuesOf({r}) : \E i \in DOMAIN at[v] : InRange(at[v][i])
    BY <1>6, <1>7 DEF TargetOK, ValuesOf
  <2>1. PICK s \in Rows : /\ <<s, 1>> \in Values /\ at[<<s, 1>>] # <<>> /\ InRange(at[<<s, 1>>][1])
                          /\ home[r] = home[s] /\ r \in Rows
    BY <1>7 DEF CollectNative, RowsAt
  <2>2. home[s] # Nowhere
    BY <2>1 DEF HomeOK
  <2>3. r = s
    BY <2>1, <2>2 DEF HomeOK
  <2>4. <<r, 1>> \in ValuesOf({r}) /\ at[<<r, 1>>] \in Seq(Pages) /\ at[<<r, 1>>] # <<>>
        /\ InRange(at[<<r, 1>>][1])
    BY <2>1, <2>3 DEF ValuesOf, StorageInv, StoreOK
  <2>5. 1 \in DOMAIN at[<<r, 1>>]
    BY <2>4
  <2>. QED
    BY <2>4, <2>5
<1>8. ASSUME CollectBulk
      PROVE  TargetOK'
  <2>. SUFFICES ASSUME Undisturbed', ~deadMapped', NEW r \in RowsAt(ctids')
                PROVE  \E v \in ValuesOf({r}) : \E i \in DOMAIN at[v] : InRange(at[v][i])
    BY <1>6, <1>8 DEF TargetOK, ValuesOf
  <2>1. PICK x \in pairs : home[r] = x[2] /\ r \in Rows
    BY <1>8 DEF CollectBulk, RowsAt
  <2>2. x \in chunkMap /\ x[1] \in chunkIds /\ x[1] \in Values /\ x[2] \in Ctids
    BY <2>1 DEF pairs, MapOK
  <2>3. x[2] = home[x[1][1]]
    BY <1>6, <1>8, <2>2 DEF SkipOK, MapIsExact
  <2>4. home[r] # Nowhere /\ x[1][1] \in Rows
    BY <2>1, <2>2, PieceFacts, ToastAssumption DEF Ctids, Nowhere
  <2>5. r = x[1][1]
    BY <2>1, <2>3, <2>4 DEF HomeOK
  <2>6. PICK y \in Pieces : y[1] = x[1] /\ Written(y) /\ InRange(PageOf(y))
    BY <2>2 DEF chunkIds
  <2>7. y[2] \in DOMAIN at[x[1]] /\ x[1] \in ValuesOf({r})
    BY <2>2, <2>5, <2>6, PiecesArePlaced DEF StorageInv, StoreOK, ValuesOf
  <2>. QED
    BY <2>6, <2>7 DEF PageOf
<1>9. ASSUME RewriteBegin
      PROVE  TargetOK'
  <2>1. /\ update = NoUpdate /\ ctids' = {} /\ UNCHANGED <<at, home, winStart, cursor, scaffolded>>
        /\ update'.rows = RowsAt(ctids) /\ update'.saved = <<>> /\ update'.homes = <<>>
        /\ UNCHANGED <<writes, deadMapped, failed, cancelled>>
    BY <1>9 DEF RewriteBegin, StorageInv, WorkOK, NoUpdate, vars, state, params, walk, locals, exits, storage,
                heap, traces
  <2>2. \A v \in Values : SnapshotPages(v)' = SnapshotPages(v)
    BY <2>1, NothingSaved DEF SnapshotPages
  <2>3. Pending' = RowsAt(ctids) /\ Locked' = {}
    BY <2>1, NothingSaved DEF Pending, RowsAt, Locked
  <2>. QED
    BY <1>3, <2>1, <2>2, <2>3 DEF Undisturbed, Pending
<1>10. ASSUME NEW r \in update.rows, RewriteRow(r)
       PROVE  TargetOK'
  <2>1. /\ ctids = {} /\ UNCHANGED <<vars, at, ctids, traces>>
        /\ update'.rows = update.rows \ {r} /\ update'.saved = update.saved
        /\ Locked' = Locked \union {r}
    BY <1>10, RowReached DEF storage
  <2>2. \A v \in Values : SnapshotPages(v)' = SnapshotPages(v)
    BY <2>1 DEF SnapshotPages
  <2>3. Pending' \union Locked' \subseteq Pending \union Locked
    BY <2>1 DEF Pending, RowsAt
  <2>4. UNCHANGED <<winStart, cursor, scaffolded, failed, cancelled, writes, deadMapped>>
    BY <2>1 DEF vars, state, params, walk, locals, exits, traces
  <2>. QED
    BY <1>3, <2>2, <2>3, <2>4 DEF Undisturbed
<1>11. ASSUME NEW v \in update.todo, NEW p \in Targets, RewriteChunk(v, p)
       PROVE  TargetOK'
  <2>1. /\ update' = [update EXCEPT !.todo = update'.todo, !.saved = update'.saved]
        /\ update'.saved = [w \in Touched \union {v} |-> IF w \in Touched THEN update.saved[w] ELSE at[w]]
        /\ UNCHANGED <<ctids, home, winStart, cursor, scaffolded>>
        /\ \A w \in Values : w # v => at'[w] = at[w]
    BY <1>11 DEF RewriteChunk, StorageInv, WorkOK, StoreOK, Updates, Touched, vars, state, params, walk, locals, heap
  <2>2. update'.rows = update.rows /\ update'.homes = update.homes
    BY <2>1 DEF StorageInv, WorkOK, Updates
  <2>3. ASSUME NEW w \in Values
        PROVE  SnapshotPages(w)' = SnapshotPages(w)
    <3>1. CASE w \in Touched
      BY <2>1, <3>1 DEF SnapshotPages, Touched
    <3>2. CASE w \notin Touched /\ w = v
      BY <2>1, <3>2 DEF SnapshotPages, Touched
    <3>3. CASE w \notin Touched /\ w # v
      BY <2>1, <3>3 DEF SnapshotPages, Touched
    <3>. QED
      BY <3>1, <3>2, <3>3
  <2>4. Pending' = Pending /\ Locked' = Locked
    BY <2>1, <2>2 DEF Pending, RowsAt, Locked
  <2>5. UNCHANGED <<failed, cancelled, writes, deadMapped>>
    BY <1>11 DEF RewriteChunk, vars, state, exits, traces
  <2>. QED
    BY <1>3, <2>1, <2>3, <2>4, <2>5 DEF Undisturbed
<1>12. ASSUME AppWrite
       PROVE  TargetOK'
  <2>1. writes' # 0
    BY <1>12 DEF AppWrite, MapOK
  <2>. QED
    BY <2>1 DEF TargetOK, Undisturbed
<1>. QED
  BY <1>4, <1>5, <1>7, <1>8, <1>9, <1>10, <1>11, <1>12 DEF ToastNext, ToastProceed, Idle

----------------------------------------------------------------------------
(* No page is left out.                                                    *)

(* What a strategy looks for depends on the chunks only.                   *)
LEMMA SameSought ==
    ASSUME UNCHANGED <<at, scaffolded>>
    PROVE  /\ \A x : /\ Written(x)' <=> Written(x)
                     /\ Sought(x)' <=> Sought(x)
                     /\ PageOf(x)' = PageOf(x)
           /\ \A v : FirstPointer(v)' <=> FirstPointer(v)
BY DEF Written, Sought, PageOf, FirstPointer

(* While a strategy waits, starts or stops, nothing is rewritten.          *)
LEMMA SkipStay ==
    ASSUME IInv, StorageInv, MapOK, SkipOK, UNCHANGED <<at, home, renewed, update, ctids, writes>>,
           UNCHANGED <<scaffolded, failed, cancelled>>, MapIsComplete', MapIsExact', pc # "start",
           pc' \notin {"rewrite", "advance"},
           \/ cursor' = cursor
           \/ cursor' = npages
           \/ pc = "advance" /\ cursor' = winStart
    PROVE  SkipOK'
<1>. SUFFICES ASSUME Undisturbed'
              PROVE  SkipOK'
  BY DEF SkipOK
<1>1. Undisturbed /\ Touched' = Touched
  BY DEF Undisturbed, Touched
<1>2. \A v \in Values : at'[v] # <<>>
  BY <1>1 DEF SkipOK
<1>3. Walked(cursor, renewed \union Touched)'
  <2>1. ASSUME NEW x \in Pieces, Written(x), Sought(x), PageOf(x) >= cursor'
        PROVE  x[1] \in renewed \union Touched
    <3>1. CASE cursor' = cursor
      BY <1>1, <2>1, <3>1 DEF SkipOK, Walked
    <3>2. CASE cursor' = npages
      <4>1. PageOf(x) \in Pages /\ x \in PiecesOn(PageOf(x))
        BY <2>1, PiecesArePlaced DEF StorageInv, StoreOK, PiecesOn
      <4>. QED
        BY <2>1, <3>2, <4>1 DEF StorageInv, StoreOK
    <3>3. CASE pc = "advance" /\ cursor' = winStart
      BY <1>1, <2>1, <3>3 DEF SkipOK, Walked
    <3>. QED
      BY <3>1, <3>2, <3>3
  <2>. QED
    BY <1>1, <2>1, SameSought DEF Walked
<1>. QED
  BY <1>2, <1>3 DEF SkipOK

(* The map is as right as before when neither it nor what it tells of has  *)
(* changed.                                                                *)
LEMMA SameMap ==
    ASSUME UNCHANGED <<at, home, update, scaffolded, mapTable, chunkMap, toScan, renewed>>,
           deadMapped' = deadMapped
    PROVE  (MapIsComplete' <=> MapIsComplete) /\ (MapIsExact' <=> MapIsExact)
BY DEF MapIsComplete, MapIsExact, FirstPointer, ValuesOf, Locked

(* Idle steps: the cursor goes down to the window it has cleared, or to    *)
(* the end of the file, where there is nothing.                            *)
LEMMA IdleSkip ==
    ASSUME IInv, StorageInv, MapOK, SkipOK, Idle
    PROVE  SkipOK'
<1>1. CASE UNCHANGED allVars
  BY <1>1 DEF allVars, toastVars, storage, scaffold, work, vars, state, walk, params, locals, exits,
              SkipOK, Undisturbed, Walked, Touched, Written, Sought, PageOf, FirstPointer, ValuesOf,
              heap, traces, MapIsComplete, MapIsExact, Pending, RowsAt, Locked
<1>2. CASE Start(npages) /\ UNCHANGED toastVars
  <2>1. /\ pc = "start" /\ pc' \notin {"start", "rewrite", "advance"} /\ cursor' = npages
        /\ UNCHANGED <<at, renewed, update, ctids, writes, scaffolded, failed, cancelled>>
        /\ UNCHANGED <<home, mapTable, chunkMap, toScan, deadMapped>>
    BY <1>2 DEF Start, Goto, toastVars, storage, heap, scaffold, work, traces, exits
  <2>2. ASSUME NEW x \in Pieces, Written(x), PageOf(x) >= npages
        PROVE  FALSE
    <3>1. PageOf(x) \in Pages /\ x \in PiecesOn(PageOf(x))
      BY <2>2, PiecesArePlaced DEF StorageInv, StoreOK, PiecesOn
    <3>. QED
      BY <2>2, <3>1 DEF StorageInv, StoreOK
  <2>3. Undisturbed' => Walked(cursor, renewed \union Touched)'
    BY <2>1, <2>2, SameSought DEF Walked
  <2>. QED
    BY <2>1, <2>3, SameSought, SameMap DEF SkipOK, Undisturbed
<1>3. CASE ~Start(npages) /\ ~ UNCHANGED allVars
  <2>1. /\ pc # "start" /\ pc' \notin {"rewrite", "advance"} /\ UNCHANGED <<scaffolded, failed, cancelled>>
        /\ UNCHANGED toastVars
    <3>1. CASE ToastRead
      BY <1>3, <3>1, IdleLabels
         DEF ToastRead, VacuumMeasure, VacuumRemeasure, VacuumLanding, Probe, Goto, params, exits, Idle
    <3>2. CASE ToastQuiet
      BY <1>3, <3>2, IdleLabels
         DEF ToastQuiet, LoopExit, Iterate, Starve, GiveUp, OpenWindow, Advance, DiskOk, DiskLow,
             PeriodicVacuum, DeferVacuum, Plateau, FinalVacuum, NoFinalVacuum, Rollback, CallVacuum,
             Jump, Goto, state, params, exits, Idle
    <3>. QED
      BY <1>3, <3>1, <3>2 DEF Idle
  <2>2. \/ cursor' = cursor
        \/ cursor' = npages
        \/ pc = "advance" /\ cursor' = winStart
    <3>1. CASE ToastRead
      BY <1>3, <3>1
         DEF ToastRead, VacuumMeasure, VacuumRemeasure, VacuumLanding, Probe, Least, walk
    <3>2. CASE ToastQuiet
      BY <3>2
         DEF ToastQuiet, LoopExit, Iterate, Starve, GiveUp, OpenWindow, Advance, DiskOk, DiskLow,
             PeriodicVacuum, DeferVacuum, Plateau, FinalVacuum, NoFinalVacuum, Rollback, CallVacuum,
             Jump, Goto, state, walk
    <3>. QED
      BY <1>3, <3>1, <3>2 DEF Idle
  <2>. QED
    <3>1. UNCHANGED <<at, home, renewed, update, ctids, writes, mapTable, chunkMap, toScan, deadMapped>>
      BY <2>1 DEF toastVars, storage, heap, scaffold, work, traces
    <3>2. Undisturbed => MapIsComplete' /\ MapIsExact'
      BY <2>1, <3>1, SameMap DEF SkipOK
    <3>3. Undisturbed' => Undisturbed
      BY <2>1, <3>1 DEF Undisturbed
    <3>. QED
      BY <2>1, <2>2, <3>1, <3>2, <3>3, SkipStay DEF SkipOK
<1>. QED
  BY <1>1, <1>2, <1>3, IdleLabels DEF Idle

(* Setup: what is still to be scanned is to be put into the map.           *)
LEMMA SetupSkip ==
    ASSUME IInv, StorageInv, HomeOK, MapOK, SkipOK, BuildBegin \/ ScanTuple \/ ToastSetup
    PROVE  SkipOK'
<1>. SUFFICES ASSUME Undisturbed'
              PROVE  SkipOK'
  BY DEF SkipOK
<1>1. /\ pc = "setup" /\ pc' \in {"setup", "measure"}
      /\ UNCHANGED <<at, home, renewed, update, ctids, writes, state>>
  BY DEF BuildBegin, ScanTuple, ToastSetup, Setup, Jump, Goto, storage, heap, work, traces, vars
<1>2. UNCHANGED <<scaffolded, cursor, failed, cancelled>>
  BY <1>1 DEF state, params, walk, exits
<1>3. Undisturbed /\ \A v \in Values : at[v] # <<>>
  BY <1>1, <1>2 DEF Undisturbed, SkipOK
<1>4. MapIsComplete' /\ MapIsExact'
  <2>1. CASE BuildBegin
    <3>1. PICK n \in Ctids : (\A r \in Rows : home[r] <= n) /\ toScan' = 1 .. n
      BY <2>1 DEF BuildBegin
    <3>2. \A v \in Values : home[v[1]] \in toScan'
      BY <1>3, <3>1, LiveHomes, ToastAssumption DEF Ctids
    <3>3. UNCHANGED <<chunkMap, deadMapped>>
      BY <2>1 DEF BuildBegin, traces
    <3>4. MapIsExact
      BY <1>3 DEF SkipOK
    <3>5. MapIsExact'
      BY <1>1, <3>3, <3>4 DEF MapIsExact, Locked
    <3>. QED
      BY <1>1, <3>2, <3>5 DEF MapIsComplete
  <2>2. CASE ScanTuple
    <3>1. PICK c \in toScan :
             /\ toScan' = toScan \ {c}
             /\ chunkMap' = chunkMap \union ({v \in Values : FirstPointer(v) /\ home[v[1]] = c} \X {c})
                                \union {x \in older : x[2] = c}
             /\ deadMapped' = (deadMapped \/ {x \in older : x[2] = c} # {})
      BY <2>2 DEF ScanTuple
    <3>2. mapTable' = mapTable /\ Locked' = Locked /\ \A v : FirstPointer(v)' <=> FirstPointer(v)
      BY <1>1, <1>2, <2>2, SameSought DEF ScanTuple, Locked
    <3>3. MapIsComplete /\ MapIsExact
      BY <1>3 DEF SkipOK
    <3>4. ASSUME scaffolded', mapTable', NEW v \in Values \ renewed', FirstPointer(v)'
          PROVE  v[1] \in Locked' \/ home'[v[1]] \in toScan' \/ <<v, home'[v[1]]>> \in chunkMap'
      <4>1. v[1] \in Locked \/ home[v[1]] \in toScan \/ <<v, home[v[1]]>> \in chunkMap
        BY <1>1, <1>2, <3>2, <3>3, <3>4 DEF MapIsComplete
      <4>2. home[v[1]] = c => <<v, home[v[1]]>> \in chunkMap'
        BY <3>1, <3>2, <3>4
      <4>3. <<v, home[v[1]]>> \in chunkMap => <<v, home[v[1]]>> \in chunkMap'
        BY <3>1
      <4>. QED
        BY <1>1, <3>1, <3>2, <4>1, <4>2, <4>3
    <3>5. ASSUME ~deadMapped', NEW x \in chunkMap'
          PROVE  x[2] = home'[x[1][1]] \/ x[1][1] \in Locked'
      <4>1. ~deadMapped /\ {y \in older : y[2] = c} = {}
        BY <3>1, <3>5
      <4>2. CASE x \in chunkMap
        BY <1>1, <3>2, <3>3, <4>1, <4>2 DEF MapIsExact
      <4>3. CASE x \in {v \in Values : FirstPointer(v) /\ home[v[1]] = c} \X {c}
        BY <1>1, <4>3
      <4>. QED
        BY <3>1, <4>1, <4>2, <4>3
    <3>. QED
      BY <3>4, <3>5 DEF MapIsComplete, MapIsExact
  <2>3. CASE ToastSetup
    <3>1. UNCHANGED <<mapTable, chunkMap, toScan, deadMapped>>
      BY <2>3 DEF ToastSetup, scaffold, traces
    <3>. QED
      BY <1>1, <1>2, <1>3, <3>1, SameMap DEF SkipOK
  <2>. QED
    BY <2>1, <2>2, <2>3
<1>5. pc # "start" /\ pc' \notin {"start", "rewrite", "advance"}
  BY <1>1
<1>. QED
  BY <1>1, <1>2, <1>4, <1>5, SkipStay

(* The rows that are collected own every chunk of the window that the      *)
(* strategy looks for and that this phase has not written.                 *)
LEMMA NativeSkip ==
    ASSUME IInv, StorageInv, HomeOK, MapOK, SkipOK, CollectNative
    PROVE  SkipOK'
<1>. SUFFICES ASSUME Undisturbed'
              PROVE  SkipOK'
  BY DEF SkipOK
<1>. DEFINE found == {r \in Rows : <<r, 1>> \in Values /\ at[<<r, 1>>] # <<>> /\ InRange(at[<<r, 1>>][1])}
<1>1. /\ pc = "collect" /\ pc' = IF found # {} THEN "rewrite" ELSE "advance"
      /\ UNCHANGED <<at, home, renewed, update, writes, mapTable, chunkMap, toScan, deadMapped, state>>
      /\ ctids' = {home[r] : r \in found} /\ ~scaffolded
  BY DEF CollectNative, Collect, Jump, Goto, storage, heap, scaffold, traces
<1>2. UNCHANGED <<scaffolded, cursor, winStart, failed, cancelled>> /\ cursor \in Nat /\ winStart \in Nat
  BY <1>1 DEF state, params, walk, locals, exits, IInv, TypeOK
<1>3. Touched = {} /\ Touched' = {} /\ Undisturbed
  BY <1>1, <1>2, NothingSaved DEF Touched, Undisturbed, StorageInv, WorkOK
<1>4. Walked(winStart, renewed \union ValuesOf(found))
  <2>. SUFFICES ASSUME NEW x \in Pieces, Written(x), Sought(x), PageOf(x) >= winStart, x[1] \notin renewed
                PROVE  x[1] \in ValuesOf(found)
    BY DEF Walked
  <2>1. ~ (PageOf(x) >= cursor)
    BY <1>1, <1>3 DEF SkipOK, Walked
  <2>2. PageOf(x) \in Nat /\ x[1] \in Values /\ x[1] = <<x[1][1], x[1][2]>> /\ x[1][1] \in Rows
    BY PiecesArePlaced, PieceFacts DEF StorageInv, StoreOK, Pages
  <2>3. InRange(PageOf(x))
    BY <1>2, <2>1, <2>2 DEF InRange
  <2>4. x[1] = <<x[1][1], 1>> /\ PageOf(x) = at[x[1]][1]
    BY <1>1, <2>2 DEF Sought, PageOf
  <2>5. at[x[1]] # <<>>
    BY <1>3, <2>2 DEF SkipOK
  <2>6. x[1][1] \in found
    BY <2>2, <2>3, <2>4, <2>5
  <2>. QED
    BY <2>2, <2>6 DEF ValuesOf
<1>5. ValuesOf(found) \subseteq ValuesOf(Pending')
  BY <1>1 DEF ValuesOf, Pending, RowsAt
<1>6. found = {} => ValuesOf(found) = {}
  BY DEF ValuesOf
<1>. HIDE DEF found
<1>7. Walked(cursor, renewed \union Touched)'
  BY <1>1, <1>2, <1>3, SameSought DEF SkipOK, Walked
<1>8. pc' = "rewrite" =>
         Walked(winStart, renewed \union Touched \union update.todo \union ValuesOf(Pending))'
  BY <1>1, <1>2, <1>4, <1>5, SameSought DEF Walked, ValuesOf
<1>9. pc' = "advance" => Walked(winStart, renewed)'
  BY <1>1, <1>2, <1>4, <1>6, SameSought DEF Walked
<1>10. MapIsComplete' /\ MapIsExact'
  BY <1>1, <1>2, <1>3, SameMap DEF SkipOK
<1>. QED
  BY <1>1, <1>3, <1>7, <1>8, <1>9, <1>10 DEF SkipOK

LEMMA BulkSkip ==
    ASSUME IInv, StorageInv, HomeOK, MapOK, SkipOK, CollectBulk
    PROVE  SkipOK'
<1>. SUFFICES ASSUME Undisturbed'
              PROVE  SkipOK'
  BY DEF SkipOK
<1>1. /\ pc = "collect" /\ pc' = IF pairs # {} THEN "rewrite" ELSE "advance"
      /\ UNCHANGED <<at, home, renewed, update, writes, mapTable, chunkMap, toScan, deadMapped, state>>
      /\ ctids' = {x[2] : x \in pairs} /\ scaffolded /\ mapTable
  BY DEF CollectBulk, Collect, Jump, Goto, storage, heap, scaffold, traces
<1>2. UNCHANGED <<scaffolded, cursor, winStart, failed, cancelled>> /\ cursor \in Nat /\ winStart \in Nat
  BY <1>1 DEF state, params, walk, locals, exits, IInv, TypeOK
<1>3. Touched = {} /\ Touched' = {} /\ Locked = {} /\ toScan = {} /\ Undisturbed
  BY <1>1, <1>2, NothingSaved DEF Touched, Locked, Undisturbed, StorageInv, WorkOK, MapOK
<1>4. ASSUME NEW x \in Pieces, Written(x), Sought(x), PageOf(x) >= winStart, x[1] \notin renewed
      PROVE  <<x[1], home[x[1][1]]>> \in pairs /\ x[1] \in Values /\ x[1][1] \in Rows
  <2>1. ~ (PageOf(x) >= cursor)
    BY <1>1, <1>3, <1>4 DEF SkipOK, Walked
  <2>2. PageOf(x) \in Nat /\ x[1] \in Values /\ x[1][1] \in Rows
    BY <1>4, PiecesArePlaced, PieceFacts DEF StorageInv, StoreOK, Pages
  <2>3. InRange(PageOf(x))
    BY <1>2, <1>4, <2>1, <2>2 DEF InRange
  <2>4. x[1] \in chunkIds
    BY <1>4, <2>2, <2>3 DEF chunkIds
  <2>5. MapIsComplete /\ FirstPointer(x[1])
    BY <1>1, <1>3, <1>4 DEF SkipOK, Sought
  <2>6. <<x[1], home[x[1][1]]>> \in chunkMap
    BY <1>1, <1>3, <1>4, <2>2, <2>5 DEF MapIsComplete
  <2>. QED
    BY <2>2, <2>4, <2>6 DEF pairs
<1>5. pairs # {} => \A x \in pairs : x[2] \in ctids'
  BY <1>1
<1>6. Walked(cursor, renewed \union Touched)'
  BY <1>1, <1>2, <1>3, SameSought DEF SkipOK, Walked
<1>7. pc' = "rewrite" =>
         Walked(winStart, renewed \union Touched \union update.todo \union ValuesOf(Pending))'
  <2>. SUFFICES ASSUME NEW x \in Pieces, Written(x), Sought(x), PageOf(x) >= winStart, x[1] \notin renewed
                PROVE  x[1] \in ValuesOf(Pending')
    BY <1>1, <1>2, SameSought DEF Walked, ValuesOf
  <2>1. x[1] \in Values /\ x[1][1] \in Rows /\ home[x[1][1]] \in ctids'
    BY <1>4, <1>5
  <2>. QED
    BY <1>1, <2>1 DEF ValuesOf, Pending, RowsAt
<1>8. pc' = "advance" => Walked(winStart, renewed)'
  BY <1>1, <1>2, <1>4, SameSought DEF Walked
<1>9. MapIsComplete' /\ MapIsExact'
  BY <1>1, <1>2, <1>3, SameMap DEF SkipOK
<1>. QED
  BY <1>1, <1>3, <1>6, <1>7, <1>8, <1>9 DEF SkipOK

LEMMA RewriteBeginSkip ==
    ASSUME IInv, StorageInv, HomeOK, MapOK, SkipOK, RewriteBegin
    PROVE  SkipOK'
<1>. SUFFICES ASSUME Undisturbed'
              PROVE  SkipOK'
  BY DEF SkipOK
<1>1. /\ pc = "rewrite" /\ pc' = "rewrite" /\ ctids' = {} /\ update = NoUpdate
      /\ update'.saved = <<>> /\ update'.todo = {} /\ update'.rows = RowsAt(ctids) /\ update'.homes = <<>>
      /\ UNCHANGED <<at, home, renewed, writes, mapTable, chunkMap, toScan, deadMapped, state>>
  BY DEF RewriteBegin, StorageInv, WorkOK, NoUpdate, storage, heap, scaffold, traces, vars
<1>2. UNCHANGED <<scaffolded, cursor, winStart, failed, cancelled>>
  BY <1>1 DEF state, params, walk, locals, exits
<1>3. /\ Touched = {} /\ Touched' = {} /\ update.todo = {} /\ Locked = {} /\ Locked' = {} /\ Undisturbed
      /\ Pending = RowsAt(ctids) /\ Pending' = RowsAt(ctids)
  BY <1>1, <1>2, NothingSaved DEF Touched, Locked, Undisturbed, Pending, RowsAt, NoUpdate
<1>4. Walked(cursor, renewed \union Touched)'
  BY <1>1, <1>2, <1>3, SameSought DEF SkipOK, Walked
<1>5. Walked(winStart, renewed \union Touched \union update.todo \union ValuesOf(Pending))'
  BY <1>1, <1>2, <1>3, SameSought DEF SkipOK, Walked, ValuesOf
<1>6. MapIsComplete' /\ MapIsExact'
  <2>1. MapIsComplete /\ MapIsExact
    BY <1>3 DEF SkipOK
  <2>2. \A v : FirstPointer(v)' <=> FirstPointer(v)
    BY <1>1, <1>2, SameSought
  <2>. QED
    BY <1>1, <1>2, <1>3, <2>1, <2>2 DEF MapIsComplete, MapIsExact
<1>. QED
  BY <1>1, <1>3, <1>4, <1>5, <1>6 DEF SkipOK

(* A row that is reached is being written.                                 *)
LEMMA RewriteRowSkip ==
    ASSUME IInv, StorageInv, HomeOK, MapOK, SkipOK, NEW r \in update.rows, RewriteRow(r)
    PROVE  SkipOK'
<1>. SUFFICES ASSUME Undisturbed'
              PROVE  SkipOK'
  BY DEF SkipOK
<1>1. /\ pc = "rewrite" /\ ctids = {} /\ update.todo = {} /\ r \in Rows
      /\ UNCHANGED <<vars, at, mapTable, chunkMap, toScan, ctids, renewed, deadMapped, writes>>
      /\ update'.rows = update.rows \ {r}
      /\ update'.todo = {v \in ValuesOf({r}) : at[v] # <<>>}
      /\ Locked' = Locked \union {r} /\ Touched' = Touched
  BY RowReached DEF storage, scaffold, traces
<1>2. UNCHANGED <<pc, scaffolded, cursor, winStart, failed, cancelled>>
  BY <1>1 DEF vars, state, params, walk, locals, exits
<1>3. Undisturbed /\ \A v \in Values : at[v] # <<>>
  BY <1>1, <1>2 DEF Undisturbed, SkipOK
<1>4. \A q \in Rows : q # r => home'[q] = home[q]
  BY DEF RewriteRow, HomeOK
<1>5. ValuesOf(Pending) \subseteq update'.todo \union ValuesOf(Pending')
  BY <1>1, <1>3 DEF Pending, RowsAt, ValuesOf
<1>6. Walked(cursor, renewed \union Touched)'
  BY <1>1, <1>2, <1>3, SameSought DEF SkipOK, Walked
<1>7. Walked(winStart, renewed \union Touched \union update.todo \union ValuesOf(Pending))'
  BY <1>1, <1>2, <1>3, <1>5, SameSought DEF SkipOK, Walked
<1>8. MapIsComplete /\ MapIsExact /\ \A v : FirstPointer(v)' <=> FirstPointer(v)
  BY <1>1, <1>2, <1>3, SameSought DEF SkipOK
<1>9. MapIsComplete'
  BY <1>1, <1>2, <1>4, <1>8, PieceFacts DEF MapIsComplete
<1>10. MapIsExact'
  <2>1. \A x \in chunkMap : x[1] \in Values /\ x[1][1] \in Rows
    BY PieceFacts DEF MapOK
  <2>. QED
    BY <1>1, <1>4, <1>8, <2>1 DEF MapIsExact
<1>. QED
  BY <1>1, <1>2, <1>3, <1>6, <1>7, <1>9, <1>10 DEF SkipOK

(* A value that is written anew counts as rewritten from its first chunk.  *)
LEMMA RewriteChunkSkip ==
    ASSUME IInv, StorageInv, HomeOK, MapOK, SkipOK,
           NEW v \in update.todo, NEW p \in Targets, RewriteChunk(v, p)
    PROVE  SkipOK'
<1>. SUFFICES ASSUME Undisturbed'
              PROVE  SkipOK'
  BY DEF SkipOK
<1>. DEFINE old  == IF v \in Begun THEN at[v] ELSE <<>>
            done == IF Len(old) + 1 = Chunks[v] THEN {v} ELSE {}
<1>0. v \in Values /\ p \in Pages /\ old \in Seq(Pages)
  BY SavedFacts, TargetsAreFree DEF StorageInv, StoreOK
<1>1. /\ pc = "rewrite"
      /\ at' = [at EXCEPT ![v] = Append(old, p)]
      /\ UNCHANGED <<vars, ctids, home, renewed, writes, mapTable, chunkMap, toScan, deadMapped>>
      /\ update'.todo = update.todo \ done /\ Touched' = Touched \union {v}
      /\ update'.rows = update.rows /\ update'.homes = update.homes
  BY DEF RewriteChunk, StorageInv, WorkOK, NoUpdate, Updates, Touched, scaffold, heap, traces
<1>2. UNCHANGED <<pc, scaffolded, cursor, winStart, failed, cancelled>>
  BY <1>1 DEF vars, state, params, walk, locals, exits
<1>3. Undisturbed /\ Pending' = Pending /\ Locked' = Locked
  BY <1>1, <1>2 DEF Undisturbed, Pending, RowsAt, Locked
<1>4. at'[v] # <<>> /\ \A w \in Values : w # v => at'[w] = at[w]
  <2>1. Append(old, p) # <<>>
    BY <1>0
  <2>. HIDE DEF old
  <2>. QED
    BY <1>0, <1>1, <2>1 DEF StorageInv, StoreOK
<1>5. done \subseteq {v}
  OBVIOUS
<1>. HIDE DEF old, done
<1>6. /\ \A w \in Values : at'[w] # <<>>
      /\ \A w \in Values : FirstPointer(w)' <=> FirstPointer(w)
  <2>1. \A w \in Values : at[w] # <<>> /\ at'[w] # <<>>
    BY <1>3, <1>4 DEF SkipOK
  <2>. QED
    BY <2>1 DEF FirstPointer, ValuesOf
<1>7. ASSUME NEW x \in Pieces, x[1] # v
      PROVE  /\ Written(x)' <=> Written(x)
             /\ Sought(x)' <=> Sought(x)
             /\ PageOf(x)' = PageOf(x)
  BY <1>2, <1>4, <1>6, <1>7, PieceFacts DEF Written, Sought, PageOf
<1>8. Walked(cursor, renewed \union Touched)'
  BY <1>1, <1>2, <1>3, <1>7 DEF SkipOK, Walked
<1>9. Walked(winStart, renewed \union Touched \union update.todo \union ValuesOf(Pending))'
  BY <1>1, <1>2, <1>3, <1>5, <1>7 DEF SkipOK, Walked, ValuesOf
<1>10. MapIsComplete /\ MapIsExact
  BY <1>3 DEF SkipOK
<1>11. MapIsComplete' /\ MapIsExact'
  BY <1>1, <1>2, <1>3, <1>6, <1>10 DEF MapIsComplete, MapIsExact
<1>. QED
  BY <1>1, <1>2, <1>3, <1>6, <1>8, <1>9, <1>11 DEF SkipOK

(* At the end all of the rows that were locked has been rewritten.         *)
LEMMA RewriteCommitSkip ==
    ASSUME IInv, StorageInv, HomeOK, MapOK, SkipOK, RewriteCommit
    PROVE  SkipOK'
<1>. SUFFICES ASSUME Undisturbed'
              PROVE  SkipOK'
  BY DEF SkipOK
<1>1. /\ pc = "rewrite" /\ pc' = "advance" /\ ctids = {} /\ update.rows = {} /\ update.todo = {}
      /\ update' = NoUpdate /\ renewed' = renewed \union Touched
      /\ chunkMap' = {x \in chunkMap : x[1] \notin Touched}
      /\ UNCHANGED <<at, home, writes, mapTable, toScan, deadMapped, state>>
  BY DEF RewriteCommit, Rewrite, Jump, Goto, StorageInv, WorkOK, storage, heap, Touched
<1>2. UNCHANGED <<scaffolded, cursor, winStart, failed, cancelled>>
  BY <1>1 DEF state, params, walk, locals, exits
<1>3. /\ Touched' = {} /\ Locked' = {} /\ Pending = {} /\ ValuesOf(Pending) = {}
      /\ Undisturbed /\ \A v \in Values : at[v] # <<>>
  BY <1>1, <1>2, NothingSaved DEF Touched, Locked, Pending, RowsAt, Undisturbed, ValuesOf, SkipOK
<1>4. Walked(cursor, renewed \union Touched)'
  BY <1>1, <1>2, <1>3, SameSought DEF SkipOK, Walked
<1>5. Walked(winStart, renewed)'
  BY <1>1, <1>2, <1>3, SameSought DEF SkipOK, Walked
<1>6. \A v \in Values : v[1] \in Locked => v \in Touched
  BY <1>1, <1>3 DEF StorageInv, UpdateOK
<1>7. MapIsComplete /\ MapIsExact /\ \A v : FirstPointer(v)' <=> FirstPointer(v)
  BY <1>1, <1>2, <1>3, SameSought DEF SkipOK
<1>8. MapIsComplete'
  BY <1>1, <1>2, <1>6, <1>7 DEF MapIsComplete
<1>9. MapIsExact'
  BY <1>1, <1>6, <1>7 DEF MapIsExact, MapOK
<1>. QED
  BY <1>1, <1>2, <1>3, <1>4, <1>5, <1>8, <1>9 DEF SkipOK

LEMMA SkipStep ==
    ASSUME IInv, StorageInv, HomeOK, MapOK, SkipOK, [ToastNext]_allVars
    PROVE  SkipOK'
<1>1. ASSUME CreateFunction \/ RebuildDrop \/ ToastVacuum \/ ToastTeardown
      PROVE  SkipOK'
  <2>1. /\ pc \notin {"start", "rewrite"} /\ pc' \notin {"rewrite", "advance"}
        /\ UNCHANGED state /\ UNCHANGED <<at, home, renewed, update, ctids, writes>>
        /\ \/ ~mapTable' /\ chunkMap' = {}
           \/ UNCHANGED <<mapTable, chunkMap, toScan, deadMapped>>
    BY <1>1 DEF CreateFunction, RebuildDrop, ToastVacuum, Vacuum, ToastTeardown, Teardown, Jump, Goto,
                storage, heap, scaffold, work, traces, vars
  <2>2. UNCHANGED <<scaffolded, cursor, failed, cancelled>>
    BY <2>1 DEF state, params, walk, exits
  <2>3. Undisturbed => MapIsComplete' /\ MapIsExact'
    <3>1. CASE ~mapTable' /\ chunkMap' = {}
      BY <3>1 DEF MapIsComplete, MapIsExact
    <3>2. CASE UNCHANGED <<mapTable, chunkMap, toScan, deadMapped>>
      BY <2>1, <2>2, <3>2, SameMap DEF SkipOK
    <3>. QED
      BY <2>1, <3>1, <3>2
  <2>4. Undisturbed' => Undisturbed
    BY <2>1, <2>2 DEF Undisturbed
  <2>5. ~Undisturbed' => SkipOK'
    BY DEF SkipOK
  <2>. QED
    BY <2>1, <2>2, <2>3, <2>4, <2>5, SkipStay
<1>2. ASSUME RebuildFails \/ ToastTeardownFails \/ ToastBreak
      PROVE  SkipOK'
  <2>1. failed' \/ cancelled'
    BY <1>2 DEF RebuildFails, ToastTeardownFails, TeardownFails, ToastBreak, FailEarly, Cancel, Fail, Raise
  <2>. QED
    BY <2>1 DEF SkipOK, Undisturbed
<1>3. ASSUME AppWrite
      PROVE  SkipOK'
  <2>1. writes' # 0
    BY <1>3 DEF AppWrite, MapOK
  <2>. QED
    BY <2>1 DEF SkipOK, Undisturbed
<1>4. ASSUME NEW r \in update.rows, RewriteRow(r)
      PROVE  SkipOK'
  BY <1>4, RewriteRowSkip
<1>5. ASSUME NEW v \in update.todo, NEW p \in Targets, RewriteChunk(v, p)
      PROVE  SkipOK'
  BY <1>5, RewriteChunkSkip
<1>. QED
  BY <1>1, <1>2, <1>3, <1>4, <1>5, IdleSkip, SetupSkip, NativeSkip, BulkSkip, RewriteBeginSkip,
     RewriteCommitSkip
     DEF ToastNext, ToastProceed, Idle

----------------------------------------------------------------------------
(* The invariant.                                                          *)

LEMMA ToastInitInv == ToastInit => ToastInv
<1>. SUFFICES ASSUME ToastInit
              PROVE  ToastInv
  OBVIOUS
<1>1. /\ Init /\ pc = "start" /\ mapTable = FALSE /\ scanner = FALSE /\ noScanner = FALSE
      /\ deadMapped = FALSE /\ chunkMap = {} /\ toScan = {} /\ renewed = {} /\ writes = 0
      /\ ctids = {} /\ update = NoUpdate /\ home = StartHomes
  BY DEF ToastInit, Init
<1>2. IInv /\ StorageInv
  BY <1>1, InitInv, ToastInitStorage
<1>3. MapOK
  <2>1. DeadTuples \subseteq Values \X Ctids
    BY DeadTuplesAssumption DEF Values, Ctids
  <2>2. older \subseteq DeadTuples
    BY DEF ToastInit
  <2>. QED
    BY <1>1, <2>1, <2>2 DEF MapOK
<1>4. Locked = {} /\ Pending = {} /\ update.rows = {}
  BY <1>1, NothingSaved DEF Locked, Pending, RowsAt, NoUpdate
<1>5. HomeOK
  <2>1. home \in [Rows -> Ctids] /\ Nowhere \notin Ctids
    BY <1>1, ToastAssumption DEF Ctids, Nowhere
  <2>2. \A r, s \in Rows : home[r] = home[s] => r = s
    BY <1>1, ToastAssumption
  <2>. QED
    BY <1>4, <2>1, <2>2, PieceFacts DEF HomeOK
<1>6. TargetOK
  BY <1>4 DEF TargetOK
<1>7. \A v \in Values : at[v] # <<>>
  <2>1. \A v \in Values : Len(at[v]) = Chunks[v] /\ Chunks[v] # 0
    BY PieceFacts DEF ToastInit
  <2>. QED
    BY <2>1
<1>8. SkipOK /\ NoScaffoldLeft
  BY <1>1, <1>7 DEF SkipOK, MapIsComplete, MapIsExact, NoScaffoldLeft
<1>. QED
  BY <1>2, <1>3, <1>5, <1>6, <1>8 DEF ToastInv

(* Every step of the TOAST phase is one of the loop, or none of it.        *)
LEMMA ToastStepIsLoopStep == ToastInv /\ [ToastNext]_allVars => [Next]_vars
<1>. SUFFICES ASSUME ToastInv, [ToastNext]_allVars
              PROVE  Next \/ UNCHANGED vars
  OBVIOUS
<1>1. npages \in PageCounts /\ pagesCurrent \in Nat /\ cursor \in Nat
  BY ToastAssumption DEF ToastInv, StorageInv, StoreOK, IInv, TypeOK
<1>2. /\ FreePagesBefore(pagesCurrent) \in 0 .. pagesCurrent
      /\ FreePagesBefore(cursor) \in 0 .. cursor
  BY <1>1, FreePagesCount
<1>3. ASSUME ToastRead
      PROVE  Next
  BY <1>1, <1>2, <1>3 DEF ToastRead, Next, Proceed, ReadServer
<1>4. ASSUME ToastSetup \/ ToastVacuum \/ ToastTeardown \/ ToastQuiet \/ ToastBreak \/ RebuildFails
             \/ ToastTeardownFails \/ RewriteCommit
      PROVE  Next
  BY <1>4 DEF ToastSetup, ToastVacuum, ToastTeardown, ToastQuiet, ToastBreak, RebuildFails,
              ToastTeardownFails, RewriteCommit, Next, Proceed, Break
<1>5. ASSUME CollectNative \/ CollectBulk
      PROVE  Next
  <2>1. \E found \in BOOLEAN : Collect(found)
    BY <1>5 DEF CollectNative, CollectBulk
  <2>. QED
    BY <2>1 DEF Next, Proceed, ReadServer
<1>6. ASSUME CreateFunction \/ BuildBegin \/ ScanTuple \/ RebuildDrop \/ RewriteBegin \/ AppWrite
             \/ UNCHANGED allVars
      PROVE  UNCHANGED vars
  BY <1>6 DEF CreateFunction, BuildBegin, ScanTuple, RebuildDrop, RewriteBegin, AppWrite, allVars
<1>7. ASSUME (\E r : RewriteRow(r)) \/ (\E v, p : RewriteChunk(v, p))
      PROVE  UNCHANGED vars
  BY <1>7 DEF RewriteRow, RewriteChunk
<1>. QED
  BY <1>3, <1>4, <1>5, <1>6, <1>7 DEF ToastNext, ToastProceed

LEMMA ToastStepInv == ToastInv /\ [ToastNext]_allVars => ToastInv'
<1>. SUFFICES ASSUME ToastInv, [ToastNext]_allVars
              PROVE  ToastInv'
  OBVIOUS
<1>1. IInv'
  BY ToastStepIsLoopStep, StepInv DEF ToastInv
<1>. QED
  BY <1>1, StorageStep, HomeStep, MapStep, TargetStep, SkipStep, ScaffoldStep DEF ToastInv

(* ToastInv is an invariant of the TOAST phase.                            *)
THEOREM ToastInvariance == ToastSpec => []ToastInv
<1>1. ToastInit => ToastInv
  BY ToastInitInv
<1>2. ToastInv /\ [ToastNext]_allVars => ToastInv'
  BY ToastStepInv
<1>. QED
  BY <1>1, <1>2, PTL DEF ToastSpec

(* No page ever holds more chunks than it has slots, no chunk is beyond    *)
(* the end of the file, and no value has too many chunks.                  *)
THEOREM ToastTypeCorrect == ToastSpec => []ToastTypeOK
<1>1. ToastInv => ToastTypeOK
  <2>. SUFFICES ASSUME ToastInv
                PROVE  ToastTypeOK
    OBVIOUS
  <2>1. ASSUME NEW v \in Values
        PROVE  at[v] \in Seq(Pages) /\ Len(at[v]) <= Chunks[v]
    <3>1. at[v] \in Seq(Pages) /\ Len(at[v]) \in Nat /\ Chunks[v] \in Nat
      BY PieceFacts DEF ToastInv, StorageInv, StoreOK
    <3>2. CASE v \in Begun
      BY <3>1, <3>2 DEF ToastInv, StorageInv, WholeOK
    <3>3. CASE v \notin Begun
      BY <3>1, <3>3 DEF ToastInv, StorageInv, WholeOK
    <3>. QED
      BY <3>2, <3>3
  <2>2. update.rows \subseteq Rows /\ update.todo \subseteq Values
    BY SavedFacts DEF ToastInv, StorageInv
  <2>. QED
    BY <2>1, <2>2 DEF ToastTypeOK, ToastInv, StorageInv, StoreOK, WorkOK, HomeOK, MapOK
<1>. QED
  BY <1>1, ToastInvariance, PTL

(* However often the phase moves rows, and whatever ctids it reuses: until *)
(* another session writes, and unless the map was given the ctid of a dead *)
(* tuple, only rows with a chunk in the window are rewritten.              *)
THEOREM StraysAreExplained == ToastSpec => []StrayRowsExplained
<1>1. ToastInv => StrayRowsExplained
  <2>. SUFFICES ASSUME ToastInv, writes = 0, ~deadMapped, NEW r \in update.rows \union Locked
                PROVE  \E v \in ValuesOf({r}) : \E p \in SnapshotPages(v) :
                          InWindow /\ p \in winStart .. cursor - 1
    BY DEF StrayRowsExplained
  <2>1. pc = "rewrite"
    BY NothingSaved DEF ToastInv, StorageInv, WorkOK, NoUpdate, Locked
  <2>2. Undisturbed
    BY <2>1 DEF ToastInv, IInv, DebtOK, Undisturbed
  <2>v. PICK v \in ValuesOf({r}) : \E p \in SnapshotPages(v) : InRange(p)
    BY <2>2 DEF ToastInv, TargetOK, Pending
  <2>3. PICK p \in SnapshotPages(v) : InRange(p)
    BY <2>v
  <2>4. p \in Nat
    <3>1. v \in Values /\ at[v] \in Seq(Pages)
      BY DEF ToastInv, StorageInv, StoreOK, ValuesOf
    <3>2. v \in DOMAIN update.saved => update.saved[v] \in Seq(Pages)
      BY SavedFacts DEF ToastInv, StorageInv, Touched
    <3>3. p \in Pages
      BY <2>3, <3>1, <3>2 DEF SnapshotPages
    <3>. QED
      BY <3>3, ToastAssumption DEF Pages
  <2>5. cursor \in Nat /\ winStart \in Nat
    BY DEF ToastInv, IInv, TypeOK
  <2>. QED
    BY <2>1, <2>3, <2>4, <2>5 DEF InWindow, InRange
<1>. QED
  BY <1>1, ToastInvariance, PTL

(* The windows leave no page out.                                          *)
THEOREM NoPageLeftOut == ToastSpec => []NoPageSkipped
<1>1. ToastInv => NoPageSkipped
  <2>. SUFFICES ASSUME ToastInv, pc = "head", writes = 0
                PROVE  \A x \in Pieces : Written(x) /\ PageOf(x) >= cursor /\ Sought(x) => x[1] \in renewed
    BY DEF NoPageSkipped
  <2>1. Undisturbed
    BY DEF ToastInv, IInv, DebtOK, Undisturbed
  <2>2. Touched = {}
    BY NothingSaved DEF ToastInv, StorageInv, WorkOK, Touched
  <2>. QED
    BY <2>1, <2>2 DEF ToastInv, SkipOK, Walked
<1>. QED
  BY <1>1, ToastInvariance, PTL

(* A phase that returns leaves nothing of the chunk map in the session.    *)
THEOREM ScaffoldIsRemoved == ToastSpec => []NoScaffoldLeft
<1>1. ToastInv => NoScaffoldLeft
  BY DEF ToastInv
<1>. QED
  BY <1>1, ToastInvariance, PTL

(* The TOAST phase implements the shared loop.                             *)
THEOREM ToastImplementsLoop == ToastSpec => ImplementsLoop
<1>1. ToastInit => Init
  BY DEF ToastInit
<1>2. ToastInv /\ [ToastNext]_allVars => [Next]_vars
  BY ToastStepIsLoopStep
<1>. QED
  BY <1>1, <1>2, ToastInvariance, PTL DEF ToastSpec, ImplementsLoop, Spec

(* So is the TOAST phase, with either strategy, a front that descends and  *)
(* a debt that is paid before it returns.                                  *)
THEOREM ToastPhaseWalks == ToastSpec => ImplementsTailWalk
  BY ToastImplementsLoop, LoopImplementsTailWalk, PTL DEF ImplementsLoop
=============================================================================
