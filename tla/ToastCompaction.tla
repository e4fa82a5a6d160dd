-------------------------- MODULE ToastCompaction --------------------------
(***************************************************************************)
(* The TOAST phase: the shared loop over a TOAST relation, with the        *)
(* callbacks of _make_toast_target_native (PG17 and later) and of          *)
(* _make_toast_target_bulk (PG12 to 16).  A value lives in chunks on pages *)
(* of the TOAST relation; a window is cleared by an UPDATE that writes the *)
(* values of some rows anew.  Which rows: the native strategy asks the     *)
(* server for each row's chunk_id, the bulk strategy looks chunk_ids up in *)
(* a map that it built once from the pages of the heap.                    *)
(*                                                                         *)
(* As in HeapCompaction the relation is PostgreSQL's: a page has Slots     *)
(* slots of one chunk each, a rewritten value gets a new chunk_id and      *)
(* leaves its old chunks dead until VACUUM.  Of the heap there are the     *)
(* ctids: every new version of a row goes to a vacant one, which may be    *)
(* one that the map or a collected list still names for another row.  A    *)
(* running UPDATE locks its rows one by one, as it reaches them.           *)
(***************************************************************************)
EXTENDS CompactLoop, FiniteSets, Sequences, FiniteSetsExt

CONSTANTS
    Rows,            \* rows of the table
    Columns,         \* columns: its toastable columns, first to last
    Chunks,          \* chunks of each row's value of each column, 0 if stored inline
    Slots,           \* chunks per page, 4 in PostgreSQL
    LandingSlots,    \* free slots that make a page count as landing space
    MaxPages,        \* bound: pages the file may have
    StartPages,      \* pages of the relation when the phase begins
    MaxTuples,       \* bound: tuples the heap has room for
    StartHomes,      \* the ctid of each row when the phase begins
    DeadTuples,      \* dead heap tuples that there may be at first: value and ctid
    CHUNK_MAP_STALE_PERCENT, \* 80 in the code: _CHUNK_MAP_STALE_RATIO
    MaxWrites        \* bound: writes by applications

ASSUME ToastAssumption ==
    /\ Columns \in Nat \ {0} /\ Chunks \in [Rows \X (1 .. Columns) -> Nat]
    /\ Slots \in Nat \ {0} /\ LandingSlots \in 1 .. Slots
    /\ MaxPages \in Nat /\ StartPages \in 1 .. MaxPages
    /\ MaxTuples \in Nat /\ StartHomes \in [Rows -> 1 .. MaxTuples]
    /\ \A r, s \in Rows : StartHomes[r] = StartHomes[s] => r = s
    /\ MaxWrites \in Nat
    /\ CHUNK_MAP_STALE_PERCENT \in 1 .. 100
    /\ PageCounts = 0 .. MaxPages
ASSUME RowsAssumption == IsFiniteSet(Rows)
ASSUME DeadTuplesAssumption ==
    /\ DeadTuples \subseteq (Rows \X (1 .. Columns)) \X (1 .. MaxTuples)
    /\ \A x \in DeadTuples : Chunks[x[1]] > 0 /\ \A r \in Rows : x[2] # StartHomes[r]

VARIABLES
    at,         \* the pages of each value's chunks, by chunk_seq
    dead,       \* dead chunks on each page
    npages,     \* length of the file, in pages
    fsm,        \* free slots of each page as the free space map records them
    home,       \* the ctid of each row's live version
    older,      \* dead heap tuples: the value whose present chunk_id each holds, and its ctid
    mapTable,   \* _pgc_chunk_map exists
    scanner,    \* the function pg_temp._pgc_scan_all exists
    chunkMap,   \* its pairs: of each value's present chunk_id, and a ctid
    toScan,     \* ctids that build_chunk_map has yet to read
    ctids,      \* what collect_ctids returned
    update,     \* the running UPDATE of rewrite
    renewed,    \* history: values that this phase has rewritten
    deadMapped, \* history: the map was given the ctid of a dead heap tuple
    noScanner,  \* history: the scan function was called after it was dropped
    writes      \* writes applications have made so far

storage   == <<at, dead, npages, fsm>>
heap      == <<home, older>>
scaffold  == <<mapTable, scanner, chunkMap, toScan>>
work      == <<ctids, update>>
traces    == <<renewed, deadMapped, noScanner, writes>>
toastVars == <<storage, heap, scaffold, work, traces>>
allVars   == <<vars, toastVars>>

Ctids   == 1 .. MaxTuples
Nowhere == 0

Pages  == 0 .. MaxPages - 1
Values == {v \in Rows \X (1 .. Columns) : Chunks[v] > 0}
Pieces == UNION {{v} \X (1 .. Chunks[v]) : v \in Values}

ValuesOf(rows) == {v \in Values : v[1] \in rows}
Written(x)     == x[2] <= Len(at[x[1]])
PageOf(x)      == at[x[1]][x[2]]
PiecesOn(p)    == {x \in Pieces : Written(x) /\ PageOf(x) = p}

Free(p)            == Slots - Cardinality(PiecesOn(p)) - dead[p]
FreePagesBefore(p) == Cardinality({q \in Pages : q < p /\ fsm[q] >= LandingSlots})

(* Where PostgreSQL may put a new chunk.                                   *)
Targets ==
    LET offered == {p \in Pages : p < npages /\ fsm[p] > 0 /\ Free(p) > 0} IN
    CASE offered # {}                         -> offered
      [] npages > 0 /\ Free(npages - 1) > 0   -> {npages - 1}
      [] OTHER                                -> {npages} \cap Pages

Grown(p) == IF p = npages THEN npages + 1 ELSE npages

(* dead' when the chunks of these values die where they are.               *)
Buried(values) ==
    [p \in Pages |-> dead[p] + Cardinality({x \in PiecesOn(p) : x[1] \in values})]

NoUpdate == [open |-> FALSE, rows |-> {}, todo |-> {}, saved |-> <<>>, homes |-> <<>>]

(* toast_pages - usable_free // 8192.  A page's free bytes are a little    *)
(* less than its slots, so the division may come out one lower.            *)
idealPages(lost) ==
    Greatest(npages - Greatest(MapThenSumSet(LAMBDA p : fsm[p], Pages) \div Slots - lost, 0), 0)

(* The map before the priming VACUUM is exact, or was never written.       *)
ToastInit ==
    /\ Init
    /\ at \in {f \in [Values -> UNION {[1 .. Chunks[v] -> 0 .. StartPages - 1] : v \in Values}] :
                  \A v \in Values : Len(f[v]) = Chunks[v]}
    /\ dead = [p \in Pages |-> 0]
    /\ \A p \in Pages : Free(p) >= 0
    /\ npages = StartPages
    /\ fsm \in {[p \in Pages |-> 0], [p \in Pages |-> IF p < npages THEN Free(p) ELSE 0]}
    /\ ideal \in {idealPages(0), idealPages(1)}
    /\ home = StartHomes
    /\ older \in SUBSET (IF scaffolded THEN DeadTuples ELSE {})
    /\ mapTable = FALSE /\ scanner = FALSE /\ chunkMap = {} /\ toScan = {}
    /\ ctids = {} /\ update = NoUpdate
    /\ renewed = {} /\ deadMapped = FALSE /\ noScanner = FALSE /\ writes = 0

----------------------------------------------------------------------------
(* setup of the bulk strategy: create_chunk_map_function, then the map.    *)

CreateFunction ==
    /\ pc = "setup"
    /\ ~scanner
    /\ scanner' = TRUE
    /\ UNCHANGED <<vars, storage, heap, mapTable, chunkMap, toScan, work, traces>>

(* position() finds the first TOAST pointer of a heap tuple only.          *)
FirstPointer(v) ==
    at[v] # <<>> /\ \A w \in ValuesOf({v[1]}) : at[w] # <<>> => v[2] <= w[2]

(* build_chunk_map creates the table; the length of the heap was read      *)
(* before, and what is appended to the heap from now on is not scanned.    *)
BuildBegin ==
    /\ pc = "setup"
    /\ scanner
    /\ ~mapTable
    /\ mapTable' = TRUE
    /\ \E n \in Ctids :
          /\ \A r \in Rows : home[r] <= n
          /\ \A x \in older : x[2] <= n
          /\ toScan' = 1 .. n
    /\ UNCHANGED <<vars, storage, heap, scanner, chunkMap, work, traces>>

(* Mutant: line pointers are counted from 0.                               *)
ScanTuple_FromZero ==
    /\ pc = "setup"
    /\ \E c \in toScan :
          LET live == {v \in Values : FirstPointer(v) /\ home[v[1]] = c}
              left == {x \in older : x[2] = c} IN
          /\ \A d \in toScan : c <= d
          /\ toScan' = toScan \ {c}
          /\ chunkMap' = chunkMap \union (live \X {c - 1}) \union left
          /\ deadMapped' = (deadMapped \/ left # {})
    /\ UNCHANGED <<vars, storage, heap, mapTable, scanner, work, renewed, noScanner, writes>>

(* The heap is read from its first tuple to its last, one pair per tuple   *)
(* that holds a pointer, live or dead, while others write.                 *)
ScanTuple ==
    /\ pc = "setup"
    /\ \E c \in toScan :
          LET live == {v \in Values : FirstPointer(v) /\ home[v[1]] = c}
              left == {x \in older : x[2] = c} IN
          /\ \A d \in toScan : c <= d
          /\ toScan' = toScan \ {c}
          /\ chunkMap' = chunkMap \union (live \X {c}) \union left
          /\ deadMapped' = (deadMapped \/ left # {})
    /\ UNCHANGED <<vars, storage, heap, mapTable, scanner, work, renewed, noScanner, writes>>

(* The heap is not scanned again, so its dead tuples are forgotten here.   *)
ToastSetup ==
    /\ Setup
    /\ mapTable
    /\ toScan = {}
    /\ older' = {}
    /\ UNCHANGED <<storage, home, scaffold, work, traces>>

----------------------------------------------------------------------------
(* collect_ctids over the pages winStart .. cursor - 1.                    *)

(* Mutant: the excluded end of the native strategy's range is to_page.     *)
InRange_OpenEnd(p) ==
    /\ p >= winStart
    /\ IF scaffolded THEN p <= cursor - 1 ELSE p < cursor - 1

(* Mutant: the range has no upper end.                                     *)
InRange_NoEnd(p) == p >= winStart

(* The chunk's ctid is (from_page,0) or above; and, asked by the native    *)
(* strategy, below (to_page + 1,0), by the bulk one, (to_page,65535) or    *)
(* below.                                                                  *)
InRange(p) ==
    LET to_page == cursor - 1 IN
    /\ p >= winStart
    /\ IF scaffolded THEN p <= to_page ELSE p < to_page + 1

(* Rows whose value of the first toastable column has its first chunk in   *)
(* the window.                                                             *)
CollectNative ==
    /\ ~scaffolded
    /\ LET found == {r \in Rows : <<r, 1>> \in Values /\ at[<<r, 1>>] # <<>>
                                  /\ InRange(at[<<r, 1>>][1])}
       IN Collect(found # {}) /\ ctids' = {home[r] : r \in found}
    /\ UNCHANGED <<storage, heap, scaffold, update, traces>>

chunkIds == {v \in Values : \E x \in Pieces : x[1] = v /\ Written(x) /\ InRange(PageOf(x))}
pairs    == {x \in chunkMap : x[1] \in chunkIds}
mapStale == Cardinality(pairs) * 100 < Cardinality(chunkIds) * CHUNK_MAP_STALE_PERCENT

CollectBulk ==
    /\ scaffolded
    /\ mapTable
    /\ ~mapStale
    /\ Collect(pairs # {})
    /\ ctids' = {x[2] : x \in pairs}
    /\ UNCHANGED <<storage, heap, scaffold, update, traces>>

(* The map is stale: drop_chunk_map drops the table and the function.      *)
RebuildDrop ==
    /\ pc = "collect"
    /\ scaffolded
    /\ mapTable
    /\ mapStale
    /\ mapTable' = FALSE
    /\ scanner' = FALSE
    /\ chunkMap' = {}
    /\ UNCHANGED <<vars, storage, heap, toScan, work, traces>>

(* build_chunk_map creates the table and calls the function that has just  *)
(* been dropped.                                                           *)
RebuildFails ==
    /\ pc = "collect"
    /\ scaffolded
    /\ ~mapTable
    /\ ~scanner
    /\ Fail
    /\ mapTable' = TRUE
    /\ noScanner' = TRUE
    /\ UNCHANGED <<storage, heap, scanner, chunkMap, toScan, work, renewed, deadMapped, writes>>

----------------------------------------------------------------------------
(* rewrite: one UPDATE of the rows whose live version is at one of the     *)
(* ctids, of all their toastable columns.                                  *)

Locked    == DOMAIN update.homes
RowsAt(S) == {r \in Rows : home[r] \in S}

Named  == ctids \union toScan \union {x[2] : x \in chunkMap \union older}
Vacant == Ctids \ ({home[r] : r \in Rows} \union {update.homes[r] : r \in Locked})

(* Where a new version of a row may go; of the vacant ctids that nothing   *)
(* names one is like the other, and the first stands for them.             *)
NewHomes == {c \in Vacant : c \in Named \/ \A d \in Vacant \ Named : c <= d}

(* The UPDATE takes its snapshot.                                          *)
RewriteBegin ==
    /\ pc = "rewrite"
    /\ ~update.open
    /\ update' = [NoUpdate EXCEPT !.open = TRUE, !.rows = RowsAt(ctids)]
    /\ ctids' = {}
    /\ UNCHANGED <<vars, storage, heap, scaffold, traces>>

(* It reaches a row, locks it and writes a new version of it.              *)
RewriteRow(r) ==
    /\ update.todo = {}
    /\ \E c \in NewHomes : home' = [home EXCEPT ![r] = c]
    /\ update' = [update EXCEPT !.rows = @ \ {r},
                                !.todo = {v \in ValuesOf({r}) : at[v] # <<>>},
                                !.homes = [s \in DOMAIN @ \union {r} |->
                                              IF s \in DOMAIN @ THEN @[s] ELSE home[s]]]
    /\ UNCHANGED <<vars, storage, older, scaffold, ctids, traces>>

(* One chunk is written; a value that has been begun is finished first.    *)
Begun == update.todo \cap DOMAIN update.saved

RewriteChunk(v, p) ==
    LET old  == IF v \in Begun THEN at[v] ELSE <<>>
        done == IF Len(old) + 1 = Chunks[v] THEN {v} ELSE {} IN
    /\ Begun # {} => v \in Begun
    /\ at' = [at EXCEPT ![v] = Append(old, p)]
    /\ dead' = IF v \in Begun THEN dead ELSE Buried({v})
    /\ npages' = Grown(p)
    /\ update' = [update EXCEPT !.todo = @ \ done,
                                !.saved = [w \in DOMAIN @ \union {v} |->
                                              IF w \in DOMAIN @ THEN @[w] ELSE at[w]]]
    /\ UNCHANGED <<vars, fsm, heap, scaffold, ctids, traces>>

(* Mutant: the window is collected again until nothing is found.           *)
RewriteCommit_CollectsAgain ==
    /\ update.open
    /\ update.rows = {} /\ update.todo = {}
    /\ Jump("rewrite", "collect")
    /\ renewed' = renewed \union DOMAIN update.saved
    /\ chunkMap' = {x \in chunkMap : x[1] \notin DOMAIN update.saved}
    /\ update' = NoUpdate
    /\ UNCHANGED <<storage, heap, mapTable, scanner, toScan, ctids, deadMapped, noScanner, writes>>

(* The new values have new chunk_ids, which the map does not know.         *)
RewriteCommit ==
    /\ update.open
    /\ update.rows = {} /\ update.todo = {}
    /\ Rewrite
    /\ renewed' = renewed \union DOMAIN update.saved
    /\ chunkMap' = {x \in chunkMap : x[1] \notin DOMAIN update.saved}
    /\ update' = NoUpdate
    /\ UNCHANGED <<storage, heap, mapTable, scanner, toScan, ctids, deadMapped, noScanner, writes>>

(* An exception rolls the UPDATE back: its new chunks and versions are     *)
(* dead, the old ones live.                                                *)
Undo ==
    LET touched == DOMAIN update.saved IN
    /\ at' = [v \in Values |-> IF v \in touched THEN update.saved[v] ELSE at[v]]
    /\ dead' = [p \in Pages |-> Buried(touched)[p]
                   - Cardinality({x \in Pieces : x[1] \in touched /\ update.saved[x[1]][x[2]] = p})]
    /\ home' = [r \in Rows |-> IF r \in Locked THEN update.homes[r] ELSE home[r]]

AbandonWork == ctids' = {} /\ update' = NoUpdate

ToastBreak ==
    /\ FailEarly \/ Cancel \/ Fail
    /\ Undo
    /\ AbandonWork
    /\ UNCHANGED <<npages, fsm, older, scaffold, traces>>

----------------------------------------------------------------------------
(* What the loop reads, VACUUM of the TOAST relation, and teardown.        *)

ToastRead ==
    /\ \/ Start(npages) \/ VacuumMeasure(npages) \/ VacuumRemeasure(npages)
       \/ VacuumLanding(FreePagesBefore(pagesCurrent))
       \/ Probe(FreePagesBefore(cursor))
    /\ UNCHANGED toastVars

LastUsed == {p \in Pages : PiecesOn(p) # {}}
Occupied == IF LastUsed = {} THEN 0 ELSE 1 + Max(LastUsed)

(* VACUUM truncates the empty tail, or does not get the lock it needs.     *)
ToastVacuum ==
    /\ Vacuum
    /\ npages' \in {Occupied, npages}
    /\ dead' = [p \in Pages |-> 0]
    /\ fsm' = [p \in Pages |-> IF p < npages' THEN Slots - Cardinality(PiecesOn(p)) ELSE 0]
    /\ UNCHANGED <<at, heap, scaffold, work, traces>>

(* Mutant: the scan function is left in the session.                       *)
ToastTeardown_KeepsFunction ==
    /\ Teardown
    /\ mapTable' = FALSE
    /\ chunkMap' = {}
    /\ UNCHANGED <<storage, heap, scanner, toScan, work, traces>>

(* drop_chunk_map; the native strategy has nothing to drop.                *)
ToastTeardown ==
    /\ Teardown
    /\ mapTable' = FALSE
    /\ scanner' = FALSE
    /\ chunkMap' = {}
    /\ UNCHANGED <<storage, heap, toScan, work, traces>>

(* The first or the second DROP fails.                                     *)
ToastTeardownFails ==
    /\ TeardownFails
    /\ mapTable' \in {FALSE, mapTable}
    /\ UNCHANGED <<storage, heap, scanner, chunkMap, toScan, work, traces>>

----------------------------------------------------------------------------
(* Applications.  Their writes wait for rows that the UPDATE has locked;   *)
(* a row that it has not reached may be changed under it.                  *)

Unlocked(r) == r \notin Locked

(* A dead version of r stays behind, with the pointer it had, unless that  *)
(* is to one of the values that are gone.                                  *)
LeftBehind(r, gone) ==
    {v \in Values \ gone : v[1] = r /\ FirstPointer(v)} \X {home[r]}

Forget(gone) == chunkMap' = {x \in chunkMap : x[1] \notin gone}

(* r gets a new version.  An UPDATE that has it in its snapshot follows it *)
(* there, or leaves it out: releases of PostgreSQL differ in whether they  *)
(* test the new version's ctid.                                            *)
NewVersion(r, gone) ==
    /\ \E c \in NewHomes :
          /\ home' = [home EXCEPT ![r] = c]
          /\ older' = IF pc # "setup" THEN older
                      ELSE {x \in older : x[2] # c /\ x[1] \notin gone} \union LeftBehind(r, gone)
    /\ Forget(gone)
    /\ update' \in {update, [update EXCEPT !.rows = @ \ {r}]}

(* Another column is updated; the row's values stay where they are.        *)
AppTouch(r) ==
    /\ NewVersion(r, {})
    /\ UNCHANGED storage

AppDelete(r) ==
    /\ home' = [home EXCEPT ![r] = Nowhere]
    /\ older' = {x \in older : x[1] \notin ValuesOf({r})}
    /\ Forget(ValuesOf({r}))
    /\ update' = [update EXCEPT !.rows = @ \ {r}]
    /\ at' = [v \in Values |-> IF v[1] = r THEN <<>> ELSE at[v]]
    /\ dead' = Buried(ValuesOf({r}))
    /\ UNCHANGED <<npages, fsm>>

(* A value of one chunk is replaced.                                       *)
AppReplace(v) ==
    /\ Len(at[v]) = 1
    /\ NewVersion(v[1], {v})
    /\ \E p \in Targets : at' = [at EXCEPT ![v] = <<p>>] /\ npages' = Grown(p)
    /\ dead' = Buried({v})
    /\ UNCHANGED fsm

(* Writes after the loop change nothing that anything here reads.          *)
AppWrite ==
    /\ writes < MaxWrites
    /\ pc \in TryLabels \union {"setup"}
    /\ \E v \in {w \in Values : Unlocked(w[1]) /\ at[w] # <<>>} :
          AppTouch(v[1]) \/ AppDelete(v[1]) \/ AppReplace(v)
    /\ writes' = writes + 1
    /\ UNCHANGED <<vars, mapTable, scanner, toScan, ctids, renewed, deadMapped, noScanner>>

----------------------------------------------------------------------------
(* Steps of the loop that touch neither the relation nor the map.          *)
ToastQuiet ==
    /\ \/ LoopExit \/ Iterate \/ Starve \/ GiveUp \/ OpenWindow \/ Advance
       \/ DiskOk \/ DiskLow \/ PeriodicVacuum \/ DeferVacuum \/ Plateau
       \/ FinalVacuum \/ NoFinalVacuum \/ Rollback
    /\ UNCHANGED toastVars

ToastProceed ==
    \/ CreateFunction \/ BuildBegin \/ ScanTuple \/ ToastSetup
    \/ ToastRead \/ CollectNative \/ CollectBulk \/ RebuildDrop \/ RebuildFails
    \/ RewriteBegin \/ RewriteCommit
    \/ \E r \in update.rows : RewriteRow(r)
    \/ \E v \in update.todo : \E p \in Targets : RewriteChunk(v, p)
    \/ ToastVacuum \/ ToastTeardown \/ ToastQuiet

ToastNext ==
    \/ ToastProceed
    \/ ToastBreak \/ ToastTeardownFails
    \/ AppWrite
    \/ Finished /\ UNCHANGED allVars

ToastSpec == ToastInit /\ [][ToastNext]_allVars

(* The loop keeps stepping; applications and failures owe nothing.         *)
FairToastSpec == ToastSpec /\ WF_allVars(ToastProceed)

----------------------------------------------------------------------------
(* Properties.                                                             *)

ToastTypeOK ==
    /\ \A v \in Values : at[v] \in Seq(Pages) /\ Len(at[v]) <= Chunks[v]
    /\ dead \in [Pages -> 0 .. Slots]
    /\ npages \in 0 .. MaxPages
    /\ fsm \in [Pages -> 0 .. Slots]
    /\ \A p \in Pages : Free(p) >= 0 /\ (p >= npages => PiecesOn(p) = {} /\ dead[p] = 0)
    /\ home \in [Rows -> Ctids \union {Nowhere}]
    /\ \A r, s \in Rows : home[r] = home[s] /\ home[r] # Nowhere => r = s
    /\ mapTable \in BOOLEAN /\ scanner \in BOOLEAN
    /\ deadMapped \in BOOLEAN /\ noScanner \in BOOLEAN
    /\ chunkMap \subseteq Values \X Ctids /\ older \subseteq Values \X Ctids
    /\ toScan \subseteq Ctids /\ ctids \subseteq Ctids /\ renewed \subseteq Values
    /\ update.rows \subseteq Rows /\ update.todo \subseteq Values

(* The pages of a value's live chunks as the running UPDATE's snapshot has *)
(* them.                                                                   *)
SnapshotPages(v) ==
    LET s == IF v \in DOMAIN update.saved THEN update.saved[v] ELSE at[v] IN
    {s[i] : i \in DOMAIN s}

(* The map outlives many rewrites, whose new versions may take over ctids  *)
(* that it names.  Still, a row that has no chunk in the window is only    *)
(* rewritten after another session wrote to the table, or when the map was *)
(* given the ctid of a dead tuple: the phase's own moves never make an     *)
(* entry of the map, or a collected ctid, mean another row.                *)
StrayRowsExplained ==
    writes = 0 /\ ~deadMapped =>
        \A r \in update.rows \union Locked :
            \E v \in ValuesOf({r}) : \E p \in SnapshotPages(v) :
                InWindow /\ p \in winStart .. cursor - 1

(* The chunks that a strategy looks for.                                   *)
Sought(x) ==
    IF scaffolded THEN FirstPointer(x[1]) ELSE x[1][2] = 1 /\ x[2] = 1

(* The windows leave no page out, whatever their sizes and wherever VACUUM *)
(* puts the cursor: without other writers, a chunk that the strategy looks *)
(* for and that lies above the cursor belongs to a value written by this   *)
(* phase.                                                                  *)
NoPageSkipped ==
    pc = "head" /\ writes = 0
        => \A x \in Pieces : Written(x) /\ PageOf(x) >= cursor /\ Sought(x) => x[1] \in renewed

(* A phase that returns leaves nothing of the chunk map in the session,    *)
(* also when it was cancelled between the two halves of a rebuild.         *)
NoScaffoldLeft == pc = "returned" => ~mapTable /\ ~scanner

(* "rebuild before proceeding, so collect_ctids stays complete"            *)
(* (compactor.py, the comment on the stale map): the scan function is      *)
(* there when the map is built again.                                      *)
RebuildWorks == ~noScanner

(* "so the relation never grows" (compactor.py, the cadence of VACUUM),    *)
(* "rewrite should never inflate" (tests/test_toast.py): with no other     *)
(* writer and a last VACUUM that truncates, the TOAST relation is not      *)
(* longer after the phase than before.                                     *)
NeverEndsLonger ==
    pc = "returned" /\ ~cancelled /\ writes = 0 /\ npages = Occupied
        => npages <= pagesBefore

(* The TOAST phase implements the shared loop.                             *)
ImplementsLoop == Spec

ToastTermination == <>Finished
=============================================================================
