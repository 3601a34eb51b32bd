--------------------------- MODULE UrfDaemonProofs ---------------------------
(***************************************************************************)
(* Proofs about UrfDaemon, for any rfkill types, adapters, options and     *)
(* clients.                                                                *)
(***************************************************************************)
EXTENDS UrfDaemon, WellFoundedInduction, TLAPS

-----------------------------------------------------------------------------
(* The next type of a walk.                                                *)

\* A loop that counts up stops at the least index that has what it looks for.
LEMMA Least ==
    ASSUME NEW S \in SUBSET Nat, S # {}
    PROVE  Min(S) \in S /\ \A y \in S : Min(S) <= y
<1> DEFINE R == {p \in Nat \X Nat : p[1] < p[2]}
<1>1. IsWellFoundedOn(R, Nat)
  BY NatLessThanWellFounded DEF OpToRel
<1>2. PICK x \in S : \A y \in S : ~ (<<y, x>> \in R)
  BY <1>1, WFMin
<1>3. ASSUME NEW y \in S PROVE x <= y
  <2>1. y < x => <<y, x>> \in R
    OBVIOUS
  <2> HIDE DEF R
  <2> QED
    BY <1>2, <2>1
<1> QED
  BY <1>3 DEF Min

\* There is at least one type, and ALL is not one.
LEMMA TypesAreNumbers == N \in Nat \ {0} /\ Types \subseteq Nat /\ ALL \notin Types
BY DaemonAssumption DEF DaemonAssumption, Types, ALL

\* handle_flight_mode_killswitch stops at the first type that has an adapter.
LEMMA NextType ==
    ASSUME present \subseteq Types, NEW i \in 1..(N + 1), Ahead(i) # {}
    PROVE  /\ Min(Ahead(i)) \in present
           /\ Min(Ahead(i)) \in i..N
           /\ \A t \in present : t >= i => Min(Ahead(i)) <= t
<1>1. Ahead(i) \in SUBSET Nat
  BY TypesAreNumbers DEF Ahead
<1> DEFINE m == Min(Ahead(i))
<1>2. m \in Ahead(i) /\ \A y \in Ahead(i) : m <= y
  BY <1>1, Least
<1> HIDE DEF m
<1>3. m \in present /\ m >= i
  BY <1>2 DEF Ahead
<1>4. m \in i..N
  BY <1>3, TypesAreNumbers DEF Types
<1>5. \A t \in present : t >= i => m <= t
  BY <1>2 DEF Ahead
<1> QED
  BY <1>3, <1>4, <1>5 DEF m

\* With an adapter there is a first one.
LEMMA FirstType ==
    ASSUME present \subseteq Types, present # {}
    PROVE  Ahead(1) # {}
<1>1. PICK t \in present : TRUE
  OBVIOUS
<1>2. t \in 1..N
  BY DEF Types
<1>3. t >= 1
  BY <1>2, TypesAreNumbers
<1> QED
  BY <1>3 DEF Ahead

\* The types up to the one that is called are those before the walk went on and those
\* it has gone over.
LEMMA Between ==
    ASSUME NEW t \in Nat, NEW from \in Nat, NEW next \in Nat, from <= next
    PROVE  /\ t < next + 1 <=> t < from \/ t \in from..next
           /\ t < from => t \notin from..next
  OBVIOUS

\* The state of an adapter is a killswitch state.
LEMMA StateIsState == \A t : get_state(t) \in KillswitchState
BY DEF get_state, event_to_state, KillswitchState

Calls == [by : {"none", "null", "block", "flight"}, block : BOOLEAN]

\* A call that a killswitch has in progress.
LEMMA CallRecord ==
    ASSUME NEW by \in {"none", "null", "block", "flight"}, NEW b \in BOOLEAN
    PROVE  Walk(by, b) \in Calls /\ Walk(by, b).by = by /\ Walk(by, b).block = b
BY DEF Walk, Calls

-----------------------------------------------------------------------------
(* The inductive invariant.                                                *)

\* Per type, a set of blocks.
BlockSets == [Types -> SUBSET {"soft", "hard"}]

\* Where the request in progress is, and what it carries.
Placed ==
    /\ invocation = NULL <=> kind = "none"
    /\ invocation # NULL => client[invocation] = "waiting" /\ accepted = pending_block
    /\ ready => kind = "Block" /\ target \in Types
    /\ kind = "BlockIdx" => target \in Types
    /\ kind = "FlightMode" => fm_block = pending_block
    /\ \A t \in Types :
         /\ walk[t].by = "block" => kind = "Block" /\ target = t /\ ~ ready
         /\ walk[t].by = "flight" => kind = "FlightMode" /\ t + 1 = block_index

IInv == TypeOK /\ Placed /\ FlightModeKept

\* The end of a request: nobody holds it any more.
LEMMA CompleteStep ==
    ASSUME TypeOK, invocation # NULL, NEW reply \in {"ok", "error"}, Complete(reply)
    PROVE  /\ invocation' = NULL /\ kind' = "none" /\ ready' = FALSE
           /\ UNCHANGED <<target, pending_block>>
           /\ client' \in [Clients -> {"idle", "waiting", "ok", "error"}]
           /\ client' = [client EXCEPT ![invocation] = reply]
BY DEF Complete, TypeOK

\* block_cb and block_idx_cb.
LEMMA BlockDoneStep ==
    ASSUME IInv, kind \in {"Block", "BlockIdx"}, target \in Types,
           NEW ok \in BOOLEAN, NEW wk,
           wk \in [Types -> Calls],
           \A t \in Types : wk[t].by \in {"none", "null"},
           BlockDone(ok, wk)
    PROVE  IInv'
<1>1. TypeOK /\ invocation # NULL
  BY DEF IInv, Placed
<1>2. /\ walk' = wk
      /\ persist' = IF ok THEN set_persist_state(persist, target, pending_block) ELSE persist
      /\ Complete(IF ok THEN "ok" ELSE "error")
      /\ UNCHANGED <<present, soft, hard, stale, prev_soft, flight_mode, fm_block, block_index,
                     initial_state, final_state, accepted, announced, found, before, fault>>
  BY DEF BlockDone, adapterVars, fmVars, history
<1>3. /\ invocation' = NULL /\ kind' = "none" /\ ready' = FALSE
      /\ UNCHANGED <<target, pending_block>>
      /\ client' \in [Clients -> {"idle", "waiting", "ok", "error"}]
  BY <1>1, <1>2, CompleteStep
<1>4. /\ persist' \in [Types \cup {ALL} -> BOOLEAN]
      /\ persist'[ALL] = persist[ALL]
  BY <1>1, <1>2, TypesAreNumbers DEF TypeOK, set_persist_state
<1>5. TypeOK'
  BY <1>1, <1>2, <1>3, <1>4 DEF TypeOK, Calls
<1>6. Placed'
  BY <1>2, <1>3 DEF Placed
<1>7. FlightModeKept'
  BY <1>2, <1>4 DEF IInv, FlightModeKept
<1> QED
  BY <1>5, <1>6, <1>7 DEF IInv

\* What handle_flight_mode_killswitch leaves when it has called a killswitch.
LEMMA HandleStep ==
    ASSUME TypeOK, NEW from \in 1..(N + 1), Ahead(from) # {}, NEW block \in BOOLEAN,
           NEW wk \in [Types -> Calls],
           NEW init \in [Types -> KillswitchState], NEW final \in [Types -> BOOLEAN],
           handle_flight_mode(from, block, wk, init, final)
    PROVE  /\ initial_state' \in [Types -> KillswitchState]
           /\ final_state' \in [Types -> BOOLEAN]
           /\ block_index' \in 1..(N + 1)
           /\ fm_block' = block
           /\ walk' \in [Types -> Calls]
           /\ \A t \in Types : \/ walk'[t].by = "flight" /\ t + 1 = block_index'
                               \/ walk'[t] = wk[t]
           /\ stale' \in [Types -> SUBSET Faults]
           /\ found' \in BlockSets
<1> DEFINE next == Min(Ahead(from))
           seen == from..next
<1>1. next \in from..N
  BY NextType DEF TypeOK
<1>2. /\ initial_state' = [t \in Types |-> IF t \in seen THEN get_state(t) ELSE init[t]]
      /\ final_state' = [t \in Types |->
                           IF t \in seen
                           THEN block \/ (t = next /\ get_prev_soft(t))
                           ELSE final[t]]
      /\ block_index' = next + 1
      /\ fm_block' = block
      /\ walk' = Called(wk, {next}, "flight", final_state')
      /\ stale' = Overwritten(wk, {next})
      /\ found' = [t \in Types |-> IF t \in seen THEN Blocks(t) ELSE found[t]]
  BY DEF handle_flight_mode
<1> HIDE DEF next, seen
<1>3. initial_state' \in [Types -> KillswitchState]
  BY <1>2, StateIsState
<1>4. final_state' \in [Types -> BOOLEAN]
  <2>1. \A t \in Types : get_prev_soft(t) \in BOOLEAN
    BY DEF get_prev_soft, Unsaved, TypeOK
  <2> QED
    BY <1>2, <2>1
<1>5. block_index' \in 1..(N + 1)
  BY <1>1, <1>2, TypesAreNumbers
<1>6. \A t \in Types : walk'[t] = IF t = next THEN Walk("flight", final_state'[t]) ELSE wk[t]
  BY <1>2 DEF Called
<1>7. walk' \in [Types -> Calls]
  <2>1. ASSUME NEW t \in Types
        PROVE  walk'[t] \in Calls
    <3>1. final_state'[t] \in BOOLEAN
      BY <1>4
    <3>2. CASE t = next
      BY <1>6, <3>1, <3>2, CallRecord
    <3>3. CASE t # next
      BY <1>6, <3>3
    <3> QED
      BY <3>2, <3>3
  <2>2. walk' = [t \in Types |-> IF t = next THEN Walk("flight", final_state'[t]) ELSE wk[t]]
    BY <1>2 DEF Called
  <2> QED
    BY <1>6, <2>1, <2>2
<1>8. \A t \in Types : \/ walk'[t].by = "flight" /\ t + 1 = block_index'
                       \/ walk'[t] = wk[t]
  <2>1. ASSUME NEW t \in Types, t = next PROVE walk'[t].by = "flight" /\ t + 1 = block_index'
    <3>1. walk'[t] = Walk("flight", final_state'[t]) /\ final_state'[t] \in BOOLEAN
      BY <1>4, <1>6, <2>1
    <3>2. walk'[t].by = "flight"
      BY <3>1, CallRecord
    <3> QED
      BY <1>2, <2>1, <3>2
  <2> QED
    BY <1>6, <2>1
<1>9. stale' \in [Types -> SUBSET Faults]
  BY <1>2 DEF Overwritten, TypeOK, Faults
<1>10. found' \in BlockSets
  BY <1>2 DEF Blocks, BlockSets, TypeOK
<1> QED
  BY <1>2, <1>3, <1>4, <1>5, <1>7, <1>8, <1>9, <1>10

-----------------------------------------------------------------------------
(* Every step preserves the invariant.                                     *)

\* The walk of flight mode has gone on to the next type.
LEMMA FlightModeGoesOn ==
    ASSUME IInv, kind = "FlightMode", Ahead(block_index) # {},
           NEW wk \in [Types -> Calls],
           \A t \in Types : wk[t].by \in {"none", "null"},
           handle_flight_mode(block_index, fm_block, wk, initial_state, final_state),
           UNCHANGED <<adapterVars, savedVars, daemonVars, client, accepted, announced, before, fault>>
    PROVE  IInv'
<1>1. TypeOK
  BY DEF IInv
<1>2. /\ block_index \in 1..(N + 1) /\ fm_block \in BOOLEAN
      /\ initial_state \in [Types -> KillswitchState] /\ final_state \in [Types -> BOOLEAN]
  BY <1>1 DEF TypeOK
<1>3. /\ initial_state' \in [Types -> KillswitchState]
      /\ final_state' \in [Types -> BOOLEAN]
      /\ block_index' \in 1..(N + 1)
      /\ fm_block' = fm_block
      /\ walk' \in [Types -> Calls]
      /\ \A t \in Types : \/ walk'[t].by = "flight" /\ t + 1 = block_index'
                          \/ walk'[t] = wk[t]
      /\ stale' \in [Types -> SUBSET Faults]
      /\ found' \in BlockSets
  BY <1>1, <1>2, HandleStep
<1>4. UNCHANGED <<present, soft, hard, persist, prev_soft, flight_mode, invocation, kind,
                  target, ready, pending_block, client, accepted, announced, before, fault>>
  BY DEF adapterVars, savedVars, daemonVars
<1>5. TypeOK'
  BY <1>1, <1>3, <1>4 DEF TypeOK, Calls, BlockSets
<1>6. \A t \in Types : /\ walk'[t].by # "block"
                       /\ walk'[t].by = "flight" => t + 1 = block_index'
  BY <1>3
<1>7. Placed'
  BY <1>3, <1>4, <1>6 DEF IInv, Placed
<1>8. FlightModeKept'
  BY <1>4 DEF IInv, FlightModeKept
<1> QED
  BY <1>5, <1>7, <1>8 DEF IInv

\* What the end of a flight mode saves, and the undo of one that fails.
LEMMA FinalTypes ==
    ASSUME TypeOK, NEW n
    PROVE  /\ FinalPrevSoft(n) \in [Types -> BOOLEAN]
           /\ FinalPersist(n) \in [Types \cup {ALL} -> BOOLEAN]
           /\ FinalPersist(n)[ALL] = persist[ALL]
           /\ FailedPersist(n) \in [Types \cup {ALL} -> BOOLEAN]
           /\ FailedPersist(n)[ALL] = persist[ALL]
           /\ FinalFile \in [Types \cup {ALL} -> BOOLEAN]
           /\ FinalFile[ALL] = pending_block
           /\ {FinalBefore, NoBlocks} \subseteq BlockSets
<1>1. FinalPrevSoft(n) \in [Types -> BOOLEAN]
  <2>1. ASSUME NEW t \in Types
        PROVE  /\ prev_soft[t] \in BOOLEAN
               /\ (fm_block /\ LastState(t) = SOFT_BLOCKED) \in BOOLEAN
    BY DEF TypeOK
  <2> QED
    BY <2>1 DEF FinalPrevSoft
<1>2. \A m : FinalPersist(m) \in [Types \cup {ALL} -> BOOLEAN]
  BY DEF FinalPersist, LastFinal, TypeOK
<1>3. FinalPersist(n)[ALL] = persist[ALL]
  BY DEF FinalPersist
<1>4. ALL \notin Absent
  BY TypesAreNumbers DEF Absent, Switched
<1>5. /\ FailedPersist(n) \in [Types \cup {ALL} -> BOOLEAN]
      /\ FailedPersist(n)[ALL] = persist[ALL]
  BY <1>4 DEF FailedPersist, TypeOK
<1>6. /\ FinalFile \in [Types \cup {ALL} -> BOOLEAN]
      /\ FinalFile[ALL] = pending_block
  BY <1>2 DEF FinalFile, TypeOK
<1>7. {FinalBefore, NoBlocks} \subseteq BlockSets
  BY DEF FinalBefore, NoBlocks, BlockSets, TypeOK
<1> QED
  BY <1>1, <1>2, <1>3, <1>5, <1>6, <1>7

\* No adapter is left: flight mode is the value asked for, in memory, in the file
\* and at the clients.
LEMMA FlightModeEnds ==
    ASSUME IInv, kind = "FlightMode",
           NEW wk \in [Types -> Calls],
           \A t \in Types : wk[t].by \in {"none", "null"},
           FlightModeDone(wk)
    PROVE  IInv'
<1>1. TypeOK /\ invocation # NULL
  BY DEF IInv, Placed
<1>2. /\ prev_soft' = FinalPrevSoft(2 * N)
      /\ persist' = FinalFile
      /\ flight_mode' = pending_block
      /\ announced' = pending_block
      /\ found' = NoBlocks
      /\ before' = FinalBefore
      /\ walk' = wk
      /\ block_index' = N + 1
      /\ initial_state' = NoData
      /\ final_state' = AllFalse
      /\ Complete("ok")
      /\ UNCHANGED <<present, soft, hard, stale, fm_block, accepted, fault>>
  BY DEF FlightModeDone, adapterVars
<1>3. /\ invocation' = NULL /\ kind' = "none" /\ ready' = FALSE
      /\ UNCHANGED <<target, pending_block>>
      /\ client' \in [Clients -> {"idle", "waiting", "ok", "error"}]
  BY <1>1, <1>2, CompleteStep
<1>4. /\ prev_soft' \in [Types -> BOOLEAN]
      /\ persist' \in [Types \cup {ALL} -> BOOLEAN] /\ persist'[ALL] = pending_block
  BY <1>1, <1>2, FinalTypes
<1>5. found' \in BlockSets /\ before' \in BlockSets
  BY <1>1, <1>2, FinalTypes
<1>6. block_index' \in 1..(N + 1)
  BY <1>2, TypesAreNumbers
<1>7. initial_state' \in [Types -> KillswitchState] /\ final_state' \in [Types -> BOOLEAN]
  BY <1>2 DEF NoData, AllFalse, KillswitchState
<1>8. TypeOK'
  BY <1>1, <1>2, <1>3, <1>4, <1>5, <1>6, <1>7 DEF TypeOK, Calls, BlockSets
<1>9. Placed'
  BY <1>2, <1>3 DEF Placed
<1>10. FlightModeKept'
  BY <1>2, <1>4 DEF FlightModeKept
<1> QED
  BY <1>8, <1>9, <1>10 DEF IInv

\* An adapter refused: flight mode stays as it was, everywhere.
LEMMA FlightModeUndone ==
    ASSUME IInv, kind = "FlightMode", block_index - 1 \in Types,
           NEW wk \in [Types -> Calls],
           \A t \in Types : wk[t].by \in {"none", "null"},
           FlightModeFailed(wk)
    PROVE  IInv'
<1> DEFINE undo == (Switched \cap present) \ Absent
           back == [t \in Types |-> initial_state[t] # UNBLOCKED]
<1>1. TypeOK /\ invocation # NULL
  BY DEF IInv, Placed
<1>2. /\ block_index' = block_index - 1
      /\ walk' = Called(wk, undo, "null", back)
      /\ stale' = Overwritten(wk, undo)
      /\ persist' = FailedPersist(N)
      /\ found' = NoBlocks
      /\ initial_state' = NoData
      /\ final_state' = AllFalse
      /\ Complete("error")
      /\ UNCHANGED <<present, soft, hard, prev_soft, flight_mode, fm_block,
                     accepted, announced, before, fault>>
  BY DEF FlightModeFailed, adapterVars
<1>3. /\ invocation' = NULL /\ kind' = "none" /\ ready' = FALSE
      /\ UNCHANGED <<target, pending_block>>
      /\ client' \in [Clients -> {"idle", "waiting", "ok", "error"}]
  BY <1>1, <1>2, CompleteStep
<1>4. found' \in BlockSets
  BY <1>1, <1>2, FinalTypes
<1> HIDE DEF undo
<1>5. persist' \in [Types \cup {ALL} -> BOOLEAN] /\ persist'[ALL] = persist[ALL]
  BY <1>1, <1>2, FinalTypes
<1>6. ASSUME NEW t \in Types PROVE walk'[t] \in Calls /\ walk'[t].by \in {"none", "null"}
  <2>1. walk'[t] = IF t \in undo THEN Walk("null", back[t]) ELSE wk[t]
    BY <1>2 DEF Called
  <2>2. back[t] \in BOOLEAN
    OBVIOUS
  <2> HIDE DEF back
  <2>3. CASE t \in undo
    BY <2>1, <2>2, <2>3, CallRecord
  <2>4. CASE t \notin undo
    BY <2>1, <2>4
  <2> QED
    BY <2>3, <2>4
<1>7. walk' \in [Types -> Calls]
  BY <1>2, <1>6 DEF Called
<1>8. stale' \in [Types -> SUBSET Faults]
  BY <1>1, <1>2 DEF Overwritten, TypeOK, Faults
<1>9. block_index' \in 1..(N + 1)
  BY <1>2, TypesAreNumbers DEF Types
<1>10. initial_state' \in [Types -> KillswitchState] /\ final_state' \in [Types -> BOOLEAN]
  BY <1>2 DEF NoData, AllFalse, KillswitchState
<1>11. TypeOK'
  BY <1>1, <1>2, <1>3, <1>4, <1>5, <1>7, <1>8, <1>9, <1>10 DEF TypeOK, Calls, BlockSets
<1>12. Placed'
  BY <1>3, <1>6 DEF Placed
<1>13. FlightModeKept'
  BY <1>2, <1>5 DEF IInv, FlightModeKept
<1> QED
  BY <1>11, <1>12, <1>13 DEF IInv

\* An answer of a killswitch: to nobody, to block_cb, or to the walk over the types.
LEMMA WalkReturnsStep ==
    ASSUME IInv, NEW t \in Types, WalkReturns(t)
    PROVE  IInv'
<1> DEFINE wk == [walk EXCEPT ![t] = NoWalk]
<1>1. TypeOK /\ walk \in [Types -> Calls] /\ NoWalk \in Calls /\ NoWalk.by = "none"
  BY CallRecord DEF IInv, TypeOK, Calls, NoWalk
<1>2. /\ wk \in [Types -> Calls]
      /\ \A u \in Types : wk[u] = IF u = t THEN NoWalk ELSE walk[u]
  BY <1>1
<1>3. \/ /\ walk[t].by = "null"
         /\ walk' = wk
         /\ UNCHANGED <<adapterVars, stale, savedVars, daemonVars, fmVars, client, history, fault>>
      \/ walk[t].by = "block" /\ \E ok \in BOOLEAN : BlockDone(ok, wk)
      \/ walk[t].by = "flight" /\ \E ok \in BOOLEAN : FlightModeStep(ok, wk)
  BY DEF WalkReturns
<1>4. \A u \in Types : walk[u].by \in {"none", "null", "block", "flight"}
  BY <1>1 DEF Calls
<1> HIDE DEF wk
<1>5. ASSUME walk' = wk,
             UNCHANGED <<adapterVars, stale, savedVars, daemonVars, fmVars, client, history, fault>>
      PROVE  IInv'
  <2>1. UNCHANGED <<present, soft, hard, stale, persist, prev_soft, flight_mode, invocation, kind,
                    target, ready, pending_block, fm_block, block_index, initial_state,
                    final_state, client, accepted, announced, found, before, fault>>
    BY <1>5 DEF adapterVars, savedVars, daemonVars, fmVars, history
  <2>2. TypeOK'
    BY <1>1, <1>2, <1>5, <2>1 DEF TypeOK, Calls
  <2>3. \A u \in Types : walk'[u].by = "none" \/ walk'[u] = walk[u]
    BY <1>1, <1>2, <1>5
  <2>4. Placed'
    BY <2>1, <2>3 DEF IInv, Placed
  <2>5. FlightModeKept'
    BY <2>1 DEF IInv, FlightModeKept
  <2> QED
    BY <2>2, <2>4, <2>5 DEF IInv
<1>6. ASSUME walk[t].by = "block", NEW ok \in BOOLEAN, BlockDone(ok, wk) PROVE IInv'
  <2>1. kind = "Block" /\ target = t
    BY <1>6 DEF IInv, Placed
  <2>2. \A u \in Types : wk[u].by \in {"none", "null"}
    BY <1>1, <1>2, <1>4, <2>1 DEF IInv, Placed
  <2> QED
    BY <1>2, <1>6, <2>1, <2>2, BlockDoneStep
<1>7. ASSUME walk[t].by = "flight", NEW ok \in BOOLEAN, FlightModeStep(ok, wk) PROVE IInv'
  <2>1. kind = "FlightMode" /\ t + 1 = block_index
    BY <1>7 DEF IInv, Placed
  <2>2. \A u \in Types : walk[u].by = "flight" => u = t
    BY <2>1, TypesAreNumbers DEF IInv, Placed
  <2>3. \A u \in Types : wk[u].by \in {"none", "null"}
    BY <1>1, <1>2, <1>4, <2>1, <2>2 DEF IInv, Placed
  <2>4. block_index - 1 \in Types
    BY <2>1, TypesAreNumbers
  <2>5. CASE /\ Ahead(block_index) # {}
             /\ handle_flight_mode(block_index, fm_block, wk, initial_state, final_state)
             /\ UNCHANGED <<adapterVars, savedVars, daemonVars, client, accepted,
                            announced, before, fault>>
    BY <1>2, <2>1, <2>3, <2>5, FlightModeGoesOn
  <2>6. CASE FlightModeDone(wk)
    BY <1>2, <2>1, <2>3, <2>6, FlightModeEnds
  <2>7. CASE FlightModeFailed(wk)
    BY <1>2, <2>1, <2>3, <2>4, <2>7, FlightModeUndone
  <2> QED
    BY <1>7, <2>5, <2>6, <2>7 DEF FlightModeStep
<1> QED
  BY <1>3, <1>5, <1>6, <1>7

\* The answers that do not come from a walk.
LEMMA OtherReturnsStep ==
    ASSUME IInv, ReadyReturns \/ IdxReturns
    PROVE  IInv'
<1>1. /\ TypeOK /\ walk \in [Types -> Calls]
      /\ \A u \in Types : walk[u].by \in {"none", "null", "block", "flight"}
  BY DEF IInv, TypeOK, Calls
<1>2. CASE ReadyReturns
  <2>1. kind = "Block" /\ target \in Types /\ ready /\ BlockDone(TRUE, walk)
    BY <1>2 DEF IInv, Placed, ReadyReturns
  <2>2. \A u \in Types : walk[u].by \in {"none", "null"}
    BY <1>1, <2>1 DEF IInv, Placed
  <2> QED
    BY <1>1, <2>1, <2>2, BlockDoneStep
<1>3. CASE IdxReturns
  <2>1. kind = "BlockIdx" /\ target \in Types
    BY <1>3 DEF IInv, Placed, IdxReturns
  <2>2. \A u \in Types : walk[u].by \in {"none", "null"}
    BY <1>1, <2>1 DEF IInv, Placed
  <2>3. PICK ok \in BOOLEAN : BlockDone(ok, walk)
    BY <1>3 DEF IdxReturns
  <2> QED
    BY <1>1, <2>1, <2>2, <2>3, BlockDoneStep
<1> QED
  BY <1>2, <1>3

\* Calls on killswitches keep the types of the calls in progress.
LEMMA CalledTypes ==
    ASSUME TypeOK, NEW T, NEW by \in {"none", "null", "block", "flight"},
           NEW block \in [Types -> BOOLEAN]
    PROVE  /\ Called(walk, T, by, block) \in [Types -> Calls]
           /\ \A t \in Types : Called(walk, T, by, block)[t] =
                IF t \in T THEN Walk(by, block[t]) ELSE walk[t]
           /\ Overwritten(walk, T) \in [Types -> SUBSET Faults]
<1>1. \A t \in Types : Called(walk, T, by, block)[t] =
                IF t \in T THEN Walk(by, block[t]) ELSE walk[t]
  BY DEF Called
<1>2. ASSUME NEW t \in Types PROVE Called(walk, T, by, block)[t] \in Calls
  <2>1. block[t] \in BOOLEAN /\ walk[t] \in Calls
    BY DEF TypeOK, Calls
  <2> QED
    BY <1>1, <2>1, CallRecord
<1>3. Called(walk, T, by, block) \in [Types -> Calls]
  BY <1>2 DEF Called
<1>4. Overwritten(walk, T) \in [Types -> SUBSET Faults]
  BY DEF Overwritten, TypeOK, Faults
<1> QED
  BY <1>1, <1>3, <1>4

\* The calls that are answered at once leave everything but the client's knowledge.
LEMMA AtOnceStep ==
    ASSUME IInv, NEW c \in Clients, client[c] # "waiting",
           NEW reply \in {"ok", "error", "waiting"},
           client' = [client EXCEPT ![c] = reply],
           UNCHANGED <<adapterVars, walk, stale, savedVars, daemonVars, fmVars, history, fault>>
    PROVE  IInv'
<1>1. UNCHANGED <<present, soft, hard, walk, stale, persist, prev_soft, flight_mode, invocation,
                  kind, target, ready, pending_block, fm_block, block_index, initial_state,
                  final_state, accepted, announced, found, before, fault>>
  BY DEF adapterVars, savedVars, daemonVars, fmVars, history
<1>2. TypeOK'
  BY <1>1 DEF IInv, TypeOK
<1>3. invocation # NULL => client'[invocation] = "waiting"
  BY DEF IInv, TypeOK, Placed
<1>4. Placed'
  BY <1>1, <1>3 DEF IInv, Placed
<1>5. FlightModeKept'
  BY <1>1 DEF IInv, FlightModeKept
<1> QED
  BY <1>2, <1>4, <1>5 DEF IInv

\* A request that is accepted belongs to a client that did not wait.
LEMMA AcceptStep ==
    ASSUME TypeOK, NEW c \in Clients, NEW callback \in {"Block", "BlockIdx", "FlightMode"},
           NEW t \in Types \cup {ALL}, NEW block \in BOOLEAN,
           Accept(c, callback, t, block)
    PROVE  /\ invocation = NULL /\ invocation' = c /\ c # NULL
           /\ kind' = callback /\ target' = t
           /\ pending_block' = block /\ accepted' = block
           /\ client' \in [Clients -> {"idle", "waiting", "ok", "error"}]
           /\ client'[invocation'] = "waiting"
<1>1. c # NULL
  BY DaemonAssumption DEF DaemonAssumption
<1> QED
  BY <1>1 DEF Accept, TypeOK

\* Nobody holds a request before one is accepted.
LEMMA NoHolder ==
    ASSUME IInv, invocation = NULL
    PROVE  /\ kind = "none" /\ ~ ready
           /\ \A t \in Types : walk[t].by \in {"none", "null"}
BY DEF IInv, TypeOK, Placed

LEMMA BlockStep ==
    ASSUME IInv, NEW c \in Clients, NEW t \in Types \cup {ALL}, NEW block \in BOOLEAN,
           Block(c, t, block)
    PROVE  IInv'
<1> DEFINE blocks == [u \in Types |-> block]
<1>1. CASE IsBlock(get_state(t), block) /\ AlreadySo(c)
  BY <1>1, AtOnceStep DEF Block, CanCall, AlreadySo
<1>2. ASSUME Accept(c, "Block", t, block),
             walk' = Called(walk, present \cap {t}, "block", blocks),
             stale' = Overwritten(walk, present \cap {t}),
             ready' = (t \notin present \cup {ALL}),
             fault' = IF t = ALL THEN "null_killswitch" ELSE fault,
             UNCHANGED <<adapterVars, savedVars, flight_mode, fmVars, announced, found, before>>
      PROVE  IInv'
  <2>1. TypeOK /\ blocks \in [Types -> BOOLEAN]
    BY DEF IInv
  <2>2. /\ invocation = NULL /\ invocation' = c /\ c # NULL
        /\ kind' = "Block" /\ target' = t
        /\ pending_block' = block /\ accepted' = block
        /\ client' \in [Clients -> {"idle", "waiting", "ok", "error"}]
        /\ client'[invocation'] = "waiting"
    BY <1>2, <2>1, AcceptStep
  <2>3. /\ walk' \in [Types -> Calls]
        /\ \A u \in Types : walk'[u] =
             IF u \in present \cap {t} THEN Walk("block", blocks[u]) ELSE walk[u]
        /\ stale' \in [Types -> SUBSET Faults]
    <3> DEFINE T == present \cap {t}
    <3>1. walk' = Called(walk, T, "block", blocks) /\ stale' = Overwritten(walk, T)
      BY <1>2
    <3> HIDE DEF T, blocks
    <3>2. /\ Called(walk, T, "block", blocks) \in [Types -> Calls]
          /\ \A u \in Types : Called(walk, T, "block", blocks)[u] =
               IF u \in T THEN Walk("block", blocks[u]) ELSE walk[u]
          /\ Overwritten(walk, T) \in [Types -> SUBSET Faults]
      BY <2>1, CalledTypes
    <3> QED
      BY <3>1, <3>2 DEF T
  <2>4. UNCHANGED <<present, soft, hard, persist, prev_soft, flight_mode, fm_block, block_index,
                    initial_state, final_state, announced, found, before>>
    BY <1>2 DEF adapterVars, savedVars, fmVars
  <2>5. fault' \in Faults \cup {"none"} /\ ready' \in BOOLEAN
    BY <1>2, <2>1 DEF TypeOK, Faults
  <2>6. TypeOK'
    BY <2>1, <2>2, <2>3, <2>4, <2>5 DEF TypeOK, Calls
  <2>7. ASSUME NEW u \in Types
        PROVE  /\ walk'[u].by = "block" => target' = u /\ ~ ready'
               /\ walk'[u].by # "flight"
    <3>1. walk[u].by \in {"none", "null"}
      BY <2>2, NoHolder
    <3>2. CASE u \in present \cap {t}
      <4>1. walk'[u].by = "block"
        BY <2>3, <3>2, CallRecord
      <4>2. ready' = FALSE
        BY <1>2, <3>2
      <4> QED
        BY <2>2, <3>2, <4>1, <4>2
    <3>3. CASE u \notin present \cap {t}
      BY <2>3, <3>1, <3>3
    <3> QED
      BY <3>2, <3>3
  <2>8. ready' => target' \in Types
    BY <1>2, <2>2
  <2>9. Placed'
    BY <2>2, <2>7, <2>8 DEF Placed
  <2>10. FlightModeKept'
    BY <2>4 DEF IInv, FlightModeKept
  <2> QED
    BY <2>6, <2>9, <2>10 DEF IInv
<1> QED
  BY <1>1, <1>2 DEF Block

LEMMA BlockIdxStep ==
    ASSUME IInv, NEW c \in Clients, NEW t \in Types, NEW block \in BOOLEAN,
           BlockIdx(c, t, block)
    PROVE  IInv'
<1>1. CASE IsBlock(get_state(t), block) /\ AlreadySo(c)
  BY <1>1, AtOnceStep DEF BlockIdx, CanCall, AlreadySo
<1>2. ASSUME Accept(c, "BlockIdx", t, block),
             UNCHANGED <<adapterVars, walk, stale, savedVars, flight_mode, ready,
                         fmVars, announced, found, before, fault>>
      PROVE  IInv'
  <2>1. TypeOK
    BY DEF IInv
  <2>2. /\ invocation = NULL /\ invocation' = c /\ c # NULL
        /\ kind' = "BlockIdx" /\ target' = t
        /\ pending_block' = block /\ accepted' = block
        /\ client' \in [Clients -> {"idle", "waiting", "ok", "error"}]
        /\ client'[invocation'] = "waiting"
    BY <1>2, <2>1, AcceptStep
  <2>3. UNCHANGED <<present, soft, hard, walk, stale, persist, prev_soft, flight_mode, ready,
                    fm_block, block_index, initial_state, final_state, announced, found, before, fault>>
    BY <1>2 DEF adapterVars, savedVars, fmVars
  <2>4. TypeOK'
    BY <2>1, <2>2, <2>3 DEF TypeOK
  <2>5. ~ ready /\ \A u \in Types : walk[u].by \in {"none", "null"}
    BY <2>2, NoHolder
  <2>6. Placed'
    BY <2>2, <2>3, <2>5 DEF Placed
  <2>7. FlightModeKept'
    BY <2>3 DEF IInv, FlightModeKept
  <2> QED
    BY <2>4, <2>6, <2>7 DEF IInv
<1> QED
  BY <1>1, <1>2 DEF BlockIdx

LEMMA FlightModeStarts ==
    ASSUME IInv, NEW c \in Clients, NEW block \in BOOLEAN, FlightMode(c, block)
    PROVE  IInv'
<1>1. CASE block = flight_mode /\ AlreadySo(c)
  BY <1>1, AtOnceStep DEF FlightMode, CanCall, AlreadySo
<1>2. ASSUME present # {}, Accept(c, "FlightMode", ALL, block),
             handle_flight_mode(1, block, walk, NoData, AllFalse),
             UNCHANGED <<adapterVars, savedVars, flight_mode, ready, announced, before, fault>>
      PROVE  IInv'
  <2>1. /\ TypeOK /\ present \subseteq Types /\ walk \in [Types -> Calls]
        /\ NoData \in [Types -> KillswitchState] /\ AllFalse \in [Types -> BOOLEAN]
    BY DEF IInv, TypeOK, Calls, NoData, AllFalse, KillswitchState
  <2>2. /\ invocation = NULL /\ invocation' = c /\ c # NULL
        /\ kind' = "FlightMode" /\ target' = ALL
        /\ pending_block' = block /\ accepted' = block
        /\ client' \in [Clients -> {"idle", "waiting", "ok", "error"}]
        /\ client'[invocation'] = "waiting"
    BY <1>2, <2>1, AcceptStep
  <2>3. 1 \in 1..(N + 1) /\ Ahead(1) # {}
    BY <1>2, <2>1, FirstType, TypesAreNumbers
  <2>4. /\ initial_state' \in [Types -> KillswitchState]
        /\ final_state' \in [Types -> BOOLEAN]
        /\ block_index' \in 1..(N + 1)
        /\ fm_block' = block
        /\ walk' \in [Types -> Calls]
        /\ \A t \in Types : \/ walk'[t].by = "flight" /\ t + 1 = block_index'
                            \/ walk'[t] = walk[t]
        /\ stale' \in [Types -> SUBSET Faults]
        /\ found' \in BlockSets
    BY <1>2, <2>1, <2>3, HandleStep
  <2>5. UNCHANGED <<present, soft, hard, persist, prev_soft, flight_mode, ready, announced,
                    before, fault>>
    BY <1>2 DEF adapterVars, savedVars
  <2>6. TypeOK'
    BY <2>1, <2>2, <2>4, <2>5 DEF TypeOK, Calls, BlockSets
  <2>7. ~ ready /\ \A u \in Types : walk[u].by \in {"none", "null"}
    BY <2>2, NoHolder
  <2>8. \A u \in Types : /\ walk'[u].by # "block"
                         /\ walk'[u].by = "flight" => u + 1 = block_index'
    BY <2>4, <2>7
  <2>9. Placed'
    BY <2>2, <2>4, <2>5, <2>7, <2>8 DEF Placed
  <2>10. FlightModeKept'
    BY <2>5 DEF IInv, FlightModeKept
  <2> QED
    BY <2>6, <2>9, <2>10 DEF IInv
<1> QED
  BY <1>1, <1>2 DEF FlightMode

\* A key takes the place of the call in progress, if any: the request stays.
LEMMA KeyStep ==
    ASSUME IInv, NEW k, Key(k)
    PROVE  IInv'
<1> DEFINE t == IF master_key THEN ALL ELSE k
           block == get_state(k) # SOFT_BLOCKED
           blocks == [u \in Types |-> block]
<1>1. TypeOK /\ blocks \in [Types -> BOOLEAN]
  BY DEF IInv
<1>2. /\ walk' = Called(walk, {t} \ {ALL}, "null", blocks)
      /\ stale' = Overwritten(walk, {t} \ {ALL})
      /\ fault' = IF t = ALL THEN "null_killswitch" ELSE fault
  BY DEF Key
<1> HIDE DEF t, blocks
<1>3. UNCHANGED <<present, soft, hard, persist, prev_soft, flight_mode, invocation, kind,
                  target, ready, pending_block, fm_block, block_index, initial_state,
                  final_state, client, accepted, announced, found, before>>
  BY DEF Key, adapterVars, savedVars, daemonVars, fmVars, history
<1>4. /\ walk' \in [Types -> Calls]
      /\ \A u \in Types : walk'[u] = IF u \in {t} \ {ALL} THEN Walk("null", blocks[u]) ELSE walk[u]
      /\ stale' \in [Types -> SUBSET Faults]
  <2> DEFINE T == {t} \ {ALL}
  <2> HIDE DEF T
  <2>1. walk' = Called(walk, T, "null", blocks) /\ stale' = Overwritten(walk, T)
    BY <1>2 DEF T
  <2>2. /\ Called(walk, T, "null", blocks) \in [Types -> Calls]
        /\ \A u \in Types : Called(walk, T, "null", blocks)[u] =
             IF u \in T THEN Walk("null", blocks[u]) ELSE walk[u]
        /\ Overwritten(walk, T) \in [Types -> SUBSET Faults]
    BY <1>1, CalledTypes
  <2> QED
    BY <2>1, <2>2 DEF T
<1>5. fault' \in Faults \cup {"none"}
  BY <1>1, <1>2 DEF TypeOK, Faults
<1>6. TypeOK'
  BY <1>1, <1>3, <1>4, <1>5 DEF TypeOK, Calls
<1>7. ASSUME NEW u \in Types PROVE walk'[u].by = "null" \/ walk'[u] = walk[u]
  <2>1. blocks[u] \in BOOLEAN
    BY <1>1
  <2> QED
    BY <1>4, <2>1, CallRecord
<1>8. Placed'
  BY <1>3, <1>7 DEF IInv, Placed
<1>9. FlightModeKept'
  BY <1>3 DEF IInv, FlightModeKept
<1> QED
  BY <1>6, <1>8, <1>9 DEF IInv

\* Adapters come, change and go under the requests.
LEMMA AdapterStep ==
    ASSUME IInv, NEW t \in Types, AddDevice(t) \/ ChangeDevice(t) \/ RemoveDevice(t)
    PROVE  IInv'
<1>1. TypeOK /\ NoWalk \in Calls /\ NoWalk.by = "none"
  BY CallRecord DEF IInv, NoWalk
<1>2. UNCHANGED <<prev_soft, flight_mode, invocation, kind, target, ready, pending_block,
                  fm_block, block_index, initial_state, final_state, client, accepted,
                  announced, found, before, fault>>
  BY DEF AddDevice, ChangeDevice, RemoveDevice, savedVars, daemonVars, fmVars, history
<1>3. /\ present' \subseteq Types
      /\ soft' \in [Types -> BOOLEAN]
      /\ hard' \in [Types -> BOOLEAN]
  BY <1>1 DEF AddDevice, ChangeDevice, RemoveDevice, TypeOK
<1>4. /\ persist' \in [Types \cup {ALL} -> BOOLEAN]
      /\ persist'[ALL] = persist[ALL]
  <2>1. persist' = persist \/ \E b \in BOOLEAN : persist' = [persist EXCEPT ![t] = b]
    <3>1. persist' = persist \/ ChangeDevice(t)
      BY DEF AddDevice, RemoveDevice, savedVars
    <3>2. ASSUME NEW b \in BOOLEAN
          PROVE  set_persist_state(persist, t, b) \in {persist, [persist EXCEPT ![t] = b]}
      BY DEF set_persist_state
    <3> QED
      BY <3>1, <3>2 DEF ChangeDevice
  <2>2. persist \in [Types \cup {ALL} -> BOOLEAN] /\ t # ALL
    BY <1>1, TypesAreNumbers DEF TypeOK
  <2> QED
    BY <2>1, <2>2
<1>5. /\ walk' \in [Types -> Calls]
      /\ \A u \in Types : walk'[u].by = "none" \/ walk'[u] = walk[u]
  <2>1. walk \in [Types -> Calls]
    BY <1>1 DEF TypeOK, Calls
  <2>2. walk' = walk \/ walk' = [walk EXCEPT ![t] = NoWalk]
    BY DEF AddDevice, ChangeDevice, RemoveDevice
  <2> QED
    BY <1>1, <2>1, <2>2
<1>6. stale' \in [Types -> SUBSET Faults]
  <2>1. stale \in [Types -> SUBSET Faults]
    BY <1>1 DEF TypeOK
  <2>2. \/ stale' = stale
        \/ stale' = [stale EXCEPT ![t] = @
                       \cup (IF walk[t] # NoWalk THEN {"node_freed"} ELSE {})
                       \cup (IF kind = "BlockIdx" /\ target = t THEN {"device_gone"} ELSE {})]
    BY DEF AddDevice, ChangeDevice, RemoveDevice
  <2> QED
    BY <2>1, <2>2 DEF Faults
<1>7. TypeOK'
  BY <1>1, <1>2, <1>3, <1>4, <1>5, <1>6 DEF TypeOK, Calls
<1>8. Placed'
  BY <1>2, <1>5 DEF IInv, Placed
<1>9. FlightModeKept'
  BY <1>2, <1>4 DEF IInv, FlightModeKept
<1> QED
  BY <1>7, <1>8, <1>9 DEF IInv

\* A daemon that starts again reads flight mode from the file it finds, whatever part
\* of the saves had been made.
LEMMA RestartedStep ==
    ASSUME IInv, NEW saved \in [Types \cup {ALL} -> BOOLEAN],
           NEW prev \in [Types -> BOOLEAN],
           Restarted(saved, prev), announced' \in BOOLEAN, before' \in BlockSets
    PROVE  IInv'
<1>1. TypeOK
  BY DEF IInv
<1>2. /\ persist' = saved /\ prev_soft' = prev /\ flight_mode' = saved[ALL]
      /\ present' = {} /\ soft' = AllFalse /\ hard' = AllFalse
      /\ walk' = [t \in Types |-> NoWalk] /\ stale' = [t \in Types |-> {}]
      /\ invocation' = NULL /\ kind' = "none" /\ target' = ALL
      /\ ready' = FALSE /\ pending_block' = FALSE /\ fm_block' = FALSE
      /\ block_index' = 1 /\ initial_state' = NoData /\ final_state' = AllFalse
      /\ client' = [c \in Clients |-> IF client[c] = "waiting" THEN "error" ELSE client[c]]
      /\ fault' = "none"
      /\ found' = NoBlocks
      /\ UNCHANGED accepted
  BY TypesAreNumbers DEF Restarted, get_persist_state
<1>3. NoWalk \in Calls /\ NoWalk.by = "none"
  BY CallRecord DEF NoWalk
<1>4. client' \in [Clients -> {"idle", "waiting", "ok", "error"}]
  BY <1>1, <1>2 DEF TypeOK
<1>5. /\ walk' \in [Types -> Calls] /\ \A t \in Types : walk'[t].by = "none"
      /\ stale' \in [Types -> SUBSET Faults]
  BY <1>2, <1>3
<1>6. /\ soft' \in [Types -> BOOLEAN] /\ hard' \in [Types -> BOOLEAN]
      /\ final_state' \in [Types -> BOOLEAN] /\ initial_state' \in [Types -> KillswitchState]
      /\ block_index' \in 1..(N + 1) /\ found' \in BlockSets
  BY <1>1, <1>2, TypesAreNumbers, FinalTypes DEF AllFalse, NoData, KillswitchState
<1>7. TypeOK'
  BY <1>1, <1>2, <1>4, <1>5, <1>6 DEF TypeOK, Calls, BlockSets
<1>8. Placed'
  BY <1>2, <1>5 DEF Placed
<1>9. FlightModeKept'
  BY <1>2 DEF IInv, FlightModeKept
<1> QED
  BY <1>7, <1>8, <1>9 DEF IInv

LEMMA IInvStep ==
    ASSUME IInv, [Next]_vars
    PROVE  IInv'
<1>1. ASSUME NEW c \in Clients, Reject(c) PROVE IInv'
  <2>1. /\ client[c] # "waiting"
        /\ \/ client' = [client EXCEPT ![c] = "waiting"]
           \/ client' = [client EXCEPT ![c] = "error"]
        /\ UNCHANGED <<adapterVars, walk, stale, savedVars, daemonVars, fmVars, history, fault>>
    BY <1>1 DEF Reject, CanCall, Rest, Unanswered, Refused
  <2> QED
    BY <2>1, AtOnceStep
<1>2. ASSUME NEW c \in Clients, NEW block \in BOOLEAN, FlightMode(c, block) PROVE IInv'
  BY <1>2, FlightModeStarts
<1>3. ASSUME NEW c \in Clients, NEW block \in BOOLEAN, NEW t \in BlockTypes,
             Block(c, t, block)
      PROVE  IInv'
  <2>1. t \in Types \cup {ALL}
    BY DaemonAssumption DEF DaemonAssumption
  <2> QED
    BY <1>3, <2>1, BlockStep
<1>4. ASSUME NEW c \in Clients, NEW block \in BOOLEAN, NEW t \in Types, BlockIdx(c, t, block)
      PROVE  IInv'
  BY <1>4, BlockIdxStep
<1>5. ASSUME NEW k \in Keys, Key(k) PROVE IInv'
  BY <1>5, KeyStep
<1>6. ASSUME NEW t \in Types, WalkReturns(t) PROVE IInv'
  BY <1>6, WalkReturnsStep
<1>7. ASSUME NEW t \in Types, AddDevice(t) \/ ChangeDevice(t) \/ RemoveDevice(t) PROVE IInv'
  BY <1>7, AdapterStep
<1>8. CASE ReadyReturns \/ IdxReturns
  BY <1>8, OtherReturnsStep
<1>9. CASE StaleReturns
  <2>1. fault' \in Faults
    BY <1>9 DEF StaleReturns, IInv, TypeOK
  <2>2. UNCHANGED <<present, soft, hard, walk, stale, persist, prev_soft, flight_mode, invocation,
                    kind, target, ready, pending_block, fm_block, block_index, initial_state,
                    final_state, client, accepted, announced, found, before>>
    BY <1>9 DEF StaleReturns, adapterVars, savedVars, daemonVars, fmVars, history
  <2> QED
    BY <2>1, <2>2 DEF IInv, TypeOK, Placed, FlightModeKept
<1>10. CASE Restart
  BY <1>10, RestartedStep DEF Restart, IInv, TypeOK, BlockSets
<1>11. CASE Torn
  <2>1. TypeOK /\ prev_soft \in [Types -> BOOLEAN]
    BY DEF IInv, TypeOK
  <2>2. ASSUME NEW n, Restarted(FinalPersist(n), FinalPrevSoft(n)),
               UNCHANGED <<announced, before>>
        PROVE  IInv'
    BY <2>1, <2>2, FinalTypes, RestartedStep DEF TypeOK, BlockSets
  <2>3. ASSUME Restarted(FinalFile, FinalPrevSoft(2 * N)),
               announced' \in {announced, pending_block}, before' = FinalBefore
        PROVE  IInv'
    BY <2>1, <2>3, FinalTypes, RestartedStep DEF TypeOK
  <2>4. ASSUME NEW n, Restarted(FailedPersist(n), prev_soft), UNCHANGED <<announced, before>>
        PROVE  IInv'
    BY <2>1, <2>4, FinalTypes, RestartedStep DEF TypeOK, BlockSets
  <2> QED
    BY <1>11, <2>2, <2>3, <2>4 DEF Torn
<1>12. CASE UNCHANGED vars
  <2>1. UNCHANGED <<present, soft, hard, walk, stale, persist, prev_soft, flight_mode, invocation,
                    kind, target, ready, pending_block, fm_block, block_index, initial_state,
                    final_state, client, accepted, announced, found, before, fault>>
    BY <1>12 DEF vars, adapterVars, savedVars, daemonVars, fmVars, history
  <2> QED
    BY <2>1 DEF IInv, TypeOK, Placed, FlightModeKept
<1> QED
  BY <1>1, <1>2, <1>3, <1>4, <1>5, <1>6, <1>7, <1>8, <1>9, <1>10, <1>11, <1>12 DEF Next

LEMMA IInvInit == Init => IInv
<1> SUFFICES ASSUME Init PROVE IInv
  OBVIOUS
<1>1. NoWalk \in Calls /\ NoWalk.by = "none"
  BY CallRecord DEF NoWalk
<1>2. 1 \in 1..(N + 1)
  BY TypesAreNumbers
<1>3. walk \in [Types -> Calls] /\ \A t \in Types : walk[t].by = "none"
  BY <1>1 DEF Init
<1>4. TypeOK
  BY <1>2, <1>3 DEF Init, TypeOK, Calls, AllFalse, NoData, NoBlocks, KillswitchState
<1>5. Placed
  BY <1>3 DEF Init, Placed
<1>6. FlightModeKept
  BY DEF Init, FlightModeKept
<1> QED
  BY <1>4, <1>5, <1>6 DEF IInv

LEMMA IInvAlways == Spec => []IInv
BY IInvInit, IInvStep, PTL DEF Spec

\* Every variable keeps its type: in particular a flight mode walk stays inside
\* the arrays of its task data.
THEOREM TypeCorrect == Spec => []TypeOK
BY IInvAlways, PTL DEF IInv

\* The daemon is in the flight mode of its file, for any types and adapters, and
\* wherever it is killed.
THEOREM FlightModeIsKept == Spec => []FlightModeKept
BY IInvAlways, PTL DEF IInv

-----------------------------------------------------------------------------
(* What clients see of flight mode is UrfFlightMode.                       *)

\* Adapters come and go; a request that is not for flight mode is none of the abstract
\* specification.
LEMMA AdaptersServe ==
    ASSUME UNCHANGED <<flight_mode, announced, kind, pending_block>>
    PROVE  FM!Serve
BY DEF FM!Serve

LEMMA OtherRequestServes ==
    ASSUME UNCHANGED <<flight_mode, announced>>, kind # "FlightMode", kind' # "FlightMode"
    PROVE  FM!Serve
BY DEF FM!Serve

LEMMA FlightModeWalkStep ==
    ASSUME IInv, NEW ok \in BOOLEAN, NEW wk, kind = "FlightMode", FlightModeStep(ok, wk)
    PROVE  FM!Next
<1>1. CASE /\ handle_flight_mode(block_index, fm_block, wk, initial_state, final_state)
           /\ UNCHANGED <<adapterVars, savedVars, daemonVars, client, accepted,
                          announced, before, fault>>
  BY <1>1, AdaptersServe DEF daemonVars, FM!Next
<1>2. CASE FlightModeDone(wk)
  <2>1. /\ flight_mode' = pending_block /\ announced' = pending_block
        /\ kind' = "none" /\ UNCHANGED present
    BY <1>2 DEF FlightModeDone, Complete, adapterVars
  <2>2. FM!Succeed
    BY <2>1 DEF FM!Succeed
  <2> QED
    BY <2>2 DEF FM!Next
<1>3. CASE FlightModeFailed(wk)
  <2>1. UNCHANGED <<flight_mode, announced, present>> /\ kind' = "none"
    BY <1>3 DEF FlightModeFailed, Complete, adapterVars
  <2>2. FM!Fail
    BY <2>1 DEF FM!Fail
  <2> QED
    BY <2>2 DEF FM!Next
<1> QED
  BY <1>1, <1>2, <1>3 DEF FlightModeStep

\* A daemon that goes away with a file that is not of the end of a flight mode.
LEMMA RestartLoses ==
    ASSUME IInv, NEW saved, NEW prev, Restarted(saved, prev),
           saved[ALL] = persist[ALL], UNCHANGED announced
    PROVE  FM!Next
<1>1. UNCHANGED flight_mode /\ kind' = "none" /\ present' = {}
  BY TypesAreNumbers DEF Restarted, get_persist_state, Unsaved, IInv, FlightModeKept
<1>2. CASE kind = "FlightMode"
  <2>1. FM!Lost
    BY <1>1, <1>2 DEF FM!Lost
  <2> QED
    BY <2>1 DEF FM!Next
<1>3. CASE kind # "FlightMode"
  BY <1>1, <1>3, OtherRequestServes DEF FM!Next
<1> QED
  BY <1>2, <1>3

\* Killed inside the dispatch that ends a flight mode.
LEMMA TornLoses ==
    ASSUME IInv, Torn
    PROVE  FM!Next
<1>1. ASSUME NEW saved, NEW prev, Restarted(saved, prev), saved[ALL] = persist[ALL],
             UNCHANGED announced
      PROVE  FM!Next
  BY <1>1, RestartLoses
<1>2. ASSUME Restarted(FinalFile, FinalPrevSoft(2 * N)),
             announced' \in {announced, pending_block}
      PROVE  FM!Next
  <2>1. kind = "FlightMode" /\ TypeOK
    BY DEF Torn, IInv, Placed
  <2>2. flight_mode' = pending_block /\ kind' = "none" /\ present' = {}
    BY <1>2, <2>1, FinalTypes, TypesAreNumbers DEF Restarted, get_persist_state
  <2>3. FM!Lost
    BY <1>2, <2>1, <2>2 DEF FM!Lost
  <2> QED
    BY <2>3 DEF FM!Next
<1>3. \A n : FinalPersist(n)[ALL] = persist[ALL] /\ FailedPersist(n)[ALL] = persist[ALL]
  BY FinalTypes DEF IInv
<1> QED
  BY <1>1, <1>2, <1>3 DEF Torn

LEMMA FlightModeStepSafe ==
    ASSUME IInv, [Next]_vars
    PROVE  [FM!Next]_(FM!vars)
<1>1. ASSUME FM!Serve PROVE FM!Next
  BY <1>1 DEF FM!Next
<1>2. ASSUME UNCHANGED <<daemonVars, announced>> PROVE FM!Next
  BY <1>1, <1>2, AdaptersServe DEF daemonVars
<1>3. ASSUME NEW c \in Clients, Reject(c) \/ AlreadySo(c) PROVE FM!Next
  BY <1>2, <1>3 DEF Reject, Rest, AlreadySo, history
<1>4. ASSUME NEW c \in Clients, NEW block \in BOOLEAN, FlightMode(c, block)
      PROVE  FM!Next
  <2>1. CASE /\ present # {}
             /\ block # flight_mode
             /\ Accept(c, "FlightMode", ALL, block)
             /\ UNCHANGED <<flight_mode, announced, present>>
    <3>1. kind = "none" /\ kind' = "FlightMode" /\ pending_block' = block
      BY <2>1, NoHolder DEF Accept
    <3>2. FM!Request(block)
      BY <2>1, <3>1 DEF FM!Request
    <3> QED
      BY <3>2 DEF FM!Next
  <2> QED
    BY <1>3, <1>4, <2>1 DEF FlightMode, adapterVars
<1>5. ASSUME NEW c \in Clients, NEW block \in BOOLEAN, NEW t,
             Block(c, t, block) \/ BlockIdx(c, t, block)
      PROVE  FM!Next
  <2>1. CASE /\ Accept(c, "Block", t, block) \/ Accept(c, "BlockIdx", t, block)
             /\ UNCHANGED <<flight_mode, announced>>
    <3>1. kind = "none" /\ kind' \in {"Block", "BlockIdx"}
      BY <2>1, NoHolder DEF Accept
    <3> QED
      BY <1>1, <2>1, <3>1, OtherRequestServes
  <2> QED
    BY <1>3, <1>5, <2>1 DEF Block, BlockIdx
<1>6. ASSUME NEW ok \in BOOLEAN, NEW wk, BlockDone(ok, wk), kind # "FlightMode"
      PROVE  FM!Next
  BY <1>1, <1>6, OtherRequestServes DEF BlockDone, Complete, history
<1>7. ASSUME NEW k, Key(k) PROVE FM!Next
  BY <1>2, <1>7 DEF Key, history
<1>8. ASSUME NEW t \in Types, WalkReturns(t)
      PROVE  FM!Next
  <2> DEFINE wk == [walk EXCEPT ![t] = NoWalk]
  <2>1. CASE UNCHANGED <<daemonVars, history>>
    BY <1>2, <2>1 DEF history
  <2>2. CASE walk[t].by = "block" /\ \E ok \in BOOLEAN : BlockDone(ok, wk)
    BY <1>6, <2>2 DEF IInv, Placed
  <2>3. CASE walk[t].by = "flight" /\ \E ok \in BOOLEAN : FlightModeStep(ok, wk)
    <3> HIDE DEF wk
    <3>1. kind = "FlightMode"
      BY <2>3 DEF IInv, Placed
    <3> QED
      BY <2>3, <3>1, FlightModeWalkStep
  <2> QED
    BY <1>8, <2>1, <2>2, <2>3 DEF WalkReturns
<1>9. ASSUME NEW t, AddDevice(t) \/ ChangeDevice(t) \/ RemoveDevice(t)
      PROVE  FM!Next
  BY <1>2, <1>9 DEF AddDevice, ChangeDevice, RemoveDevice, history
<1>10. CASE ReadyReturns \/ IdxReturns
  BY <1>6, <1>10 DEF ReadyReturns, IdxReturns, IInv, Placed
<1>11. CASE StaleReturns
  BY <1>2, <1>11 DEF StaleReturns, history
<1>12. CASE Restart
  BY <1>12, RestartLoses DEF Restart
<1>13. CASE Torn
  BY <1>13, TornLoses
<1>14. CASE UNCHANGED vars
  BY <1>2, <1>14 DEF vars, history
<1> QED
  BY <1>3, <1>4, <1>5, <1>7, <1>8, <1>9, <1>10, <1>11, <1>12, <1>13, <1>14 DEF Next

\* Flight mode, as the clients see it, is that of UrfFlightMode: one request at a
\* time, flight mode changes and is announced when a request for it succeeds, and a
\* daemon that goes away in the middle of one may leave what was asked for and nothing
\* else, whatever the adapters, the keys and the other clients do, and wherever the
\* daemon is killed.
THEOREM FlightModeRefines == Spec => FlightModeSafe
<1>1. Init => FM!Init
  BY DEF Init, FM!Init
<1> QED
  BY <1>1, IInvAlways, FlightModeStepSafe, PTL DEF Spec, FlightModeSafe, FM!Safe

\* What clients were told of flight mode is changed by the end of a flight mode alone.
LEMMA ToldStep ==
    ASSUME IInv, flight_mode = announced, [Next]_vars, ~ TornSaves
    PROVE  flight_mode' = announced'
<1>1. ASSUME UNCHANGED <<flight_mode, announced>> PROVE flight_mode' = announced'
  BY <1>1
<1>2. ASSUME NEW c \in Clients, NEW block \in BOOLEAN, NEW t,
             Reject(c) \/ FlightMode(c, block) \/ Block(c, t, block) \/ BlockIdx(c, t, block)
      PROVE  UNCHANGED <<flight_mode, announced>>
  BY <1>2 DEF Reject, Rest, FlightMode, Block, BlockIdx, AlreadySo, daemonVars, history
<1>3. ASSUME NEW k \in Keys, Key(k) PROVE UNCHANGED <<flight_mode, announced>>
  BY <1>3 DEF Key, daemonVars, history
<1>4. ASSUME NEW t \in Types, WalkReturns(t) PROVE flight_mode' = announced'
  BY <1>4 DEF WalkReturns, BlockDone, FlightModeStep, FlightModeDone, FlightModeFailed,
              daemonVars, history
<1>5. ASSUME NEW t \in Types, AddDevice(t) \/ ChangeDevice(t) \/ RemoveDevice(t)
      PROVE  UNCHANGED <<flight_mode, announced>>
  BY <1>5 DEF AddDevice, ChangeDevice, RemoveDevice, daemonVars, history
<1>6. CASE ReadyReturns \/ IdxReturns \/ StaleReturns
  BY <1>6 DEF ReadyReturns, IdxReturns, StaleReturns, BlockDone, daemonVars, history
<1>7. CASE Restart
  BY <1>7, TypesAreNumbers
     DEF Restart, Restarted, get_persist_state, Unsaved, IInv, FlightModeKept
<1>8. CASE UNCHANGED vars
  BY <1>8 DEF vars, daemonVars, history
<1> QED
  BY <1>1, <1>2, <1>3, <1>4, <1>5, <1>6, <1>7, <1>8 DEF Next, Torn

\* If the daemon is not killed inside the dispatch that ends a flight mode, it is in
\* the flight mode of its file and in the one its clients were told of.
THEOREM FlightModeIsSaved ==
    ASSUME ~ TornSaves
    PROVE  Spec => []FlightModeSaved
<1>1. Init => flight_mode = announced
  BY DEF Init
<1>2. IInv /\ flight_mode = announced /\ [Next]_vars => (flight_mode = announced)'
  BY ToldStep
<1>3. IInv /\ flight_mode = announced => FlightModeSaved
  BY DEF IInv, FlightModeSaved
<1> QED
  BY <1>1, <1>2, <1>3, IInvAlways, PTL DEF Spec

-----------------------------------------------------------------------------
(* Where the request in progress is.                                       *)

\* Somebody holds the request in progress, or an answer still to come aborts.
Held ==
    invocation # NULL /\ fault = "none" =>
        \/ \E t \in Types : walk[t].by \in {"block", "flight"} \/ stale[t] # {}
        \/ ready
        \/ kind = "BlockIdx"

\* A request stays held when every call that goes away leaves a late answer.
LEMMA HeldStays ==
    ASSUME Held, UNCHANGED <<invocation, kind, ready>>, fault' = "none" => fault = "none",
           \A t \in Types : /\ stale[t] # {} => stale'[t] # {}
                            /\ \/ walk'[t] = walk[t]
                               \/ ~ (walk[t].by \in {"block", "flight"})
                               \/ stale'[t] # {}
    PROVE  Held'
<1>1. SUFFICES ASSUME invocation' # NULL, fault' = "none"
               PROVE  \/ \E t \in Types : walk'[t].by \in {"block", "flight"} \/ stale'[t] # {}
                      \/ ready' \/ kind' = "BlockIdx"
  BY DEF Held
<1>2. CASE ready \/ kind = "BlockIdx"
  BY <1>2
<1>3. ASSUME NEW t \in Types, walk[t].by \in {"block", "flight"} \/ stale[t] # {}
      PROVE  walk'[t].by \in {"block", "flight"} \/ stale'[t] # {}
  BY <1>3
<1> QED
  BY <1>1, <1>2, <1>3 DEF Held

\* A call that is overwritten leaves a late answer.
LEMMA OverwrittenStays ==
    ASSUME NEW wk, NEW T,
           NEW by \in {"none", "null", "block", "flight"}, NEW block
    PROVE  \A t \in Types : /\ stale[t] # {} => Overwritten(wk, T)[t] # {}
                            /\ \/ Called(wk, T, by, block)[t] = wk[t]
                               \/ wk[t] = NoWalk
                               \/ Overwritten(wk, T)[t] # {}
BY DEF Overwritten, Called

\* The walk of flight mode is at a killswitch when it goes on.
LEMMA HandleHolds ==
    ASSUME TypeOK, NEW from \in 1..(N + 1), Ahead(from) # {}, NEW block \in BOOLEAN, NEW wk,
           NEW init, NEW final,
           handle_flight_mode(from, block, wk, init, final)
    PROVE  \E t \in Types : walk'[t].by = "flight"
<1> DEFINE next == Min(Ahead(from))
<1>1. next \in Types
  BY NextType DEF TypeOK
<1>2. walk' = Called(wk, {next}, "flight", final_state')
  BY DEF handle_flight_mode
<1> HIDE DEF next
<1>3. walk'[next].by = "flight"
  BY <1>1, <1>2 DEF Called, Walk
<1> QED
  BY <1>1, <1>3

LEMMA HeldAnswers ==
    ASSUME NEW ok, NEW wk, BlockDone(ok, wk) \/ FlightModeDone(wk) \/ FlightModeFailed(wk)
    PROVE  Held'
BY DEF BlockDone, FlightModeDone, FlightModeFailed, Complete, Held

LEMMA HeldStep ==
    ASSUME IInv, Held, [Next]_vars
    PROVE  Held'
<1>1. TypeOK /\ NoWalk.by = "none"
  BY CallRecord DEF IInv, NoWalk
<1>2. ASSUME UNCHANGED <<walk, stale, daemonVars, fault>> PROVE Held'
  BY <1>2 DEF daemonVars, Held
<1>3. ASSUME NEW c \in Clients, Reject(c) PROVE Held'
  BY <1>2, <1>3 DEF Reject, Rest
<1>4. ASSUME NEW c, AlreadySo(c) PROVE Held'
  BY <1>2, <1>4 DEF AlreadySo
<1>5. ASSUME NEW c \in Clients, NEW block \in BOOLEAN, FlightMode(c, block) PROVE Held'
  <2>1. CASE handle_flight_mode(1, block, walk, NoData, AllFalse)
    <3>1. Ahead(1) # {} /\ 1 \in 1..(N + 1)
      BY <1>1, <1>5, FirstType, TypesAreNumbers DEF FlightMode, TypeOK
    <3>2. \E t \in Types : walk'[t].by = "flight"
      BY <1>1, <2>1, <3>1, HandleHolds
    <3> QED
      BY <3>2 DEF Held
  <2> QED
    BY <1>4, <1>5, <2>1 DEF FlightMode
<1>6. ASSUME NEW c \in Clients, NEW block \in BOOLEAN, NEW t \in BlockTypes, Block(c, t, block)
      PROVE  Held'
  <2>1. CASE AlreadySo(c)
    BY <1>4, <2>1
  <2>2. CASE /\ walk' = Called(walk, present \cap {t}, "block", [u \in Types |-> block])
             /\ ready' = (t \notin present \cup {ALL})
             /\ fault' = IF t = ALL THEN "null_killswitch" ELSE fault
    <3>1. CASE t = ALL
      BY <2>2, <3>1 DEF Held
    <3>2. CASE t \notin present \cup {ALL}
      BY <2>2, <3>2 DEF Held
    <3>3. CASE t \in present
      <4>1. t \in Types /\ walk'[t].by = "block"
        BY <1>1, <2>2, <3>3 DEF Called, Walk, TypeOK
      <4> QED
        BY <4>1 DEF Held
    <3> QED
      BY <3>1, <3>2, <3>3
  <2> QED
    BY <1>6, <2>1, <2>2 DEF Block
<1>7. ASSUME NEW c \in Clients, NEW block \in BOOLEAN, NEW t \in Types, BlockIdx(c, t, block)
      PROVE  Held'
  BY <1>4, <1>7 DEF BlockIdx, Accept, Held
<1>8. ASSUME NEW k \in Keys, Key(k) PROVE Held'
  <2> DEFINE t == IF master_key THEN ALL ELSE k
             block == get_state(k) # SOFT_BLOCKED
  <2>1. /\ walk' = Called(walk, {t} \ {ALL}, "null", [u \in Types |-> block])
        /\ stale' = Overwritten(walk, {t} \ {ALL})
        /\ fault = "none"
        /\ UNCHANGED <<invocation, kind, ready>>
    BY <1>8 DEF Key, daemonVars
  <2> HIDE DEF t, block
  <2>2. \A u \in Types : /\ stale[u] # {} => stale'[u] # {}
                         /\ walk'[u] = walk[u] \/ walk[u] = NoWalk \/ stale'[u] # {}
    BY <2>1, OverwrittenStays
  <2> QED
    BY <1>1, <2>1, <2>2, HeldStays
<1>9. ASSUME NEW t \in Types, WalkReturns(t) PROVE Held'
  <2> DEFINE wk == [walk EXCEPT ![t] = NoWalk]
  <2>1. CASE /\ walk[t].by = "null"
             /\ walk' = wk
             /\ UNCHANGED <<adapterVars, stale, savedVars, daemonVars, fmVars, client,
                            history, fault>>
    <3>1. \A u \in Types : walk'[u] = walk[u] \/ ~ (walk[u].by \in {"block", "flight"})
      BY <1>1, <2>1 DEF TypeOK
    <3>2. UNCHANGED <<invocation, kind, ready, stale, fault>>
      BY <2>1 DEF daemonVars
    <3> QED
      BY <3>1, <3>2, HeldStays
  <2>2. ASSUME NEW ok, BlockDone(ok, wk) PROVE Held'
    BY <2>2, HeldAnswers
  <2>3. ASSUME NEW ok \in BOOLEAN, FlightModeStep(ok, wk) PROVE Held'
    <3> HIDE DEF wk
    <3>1. CASE FlightModeDone(wk) \/ FlightModeFailed(wk)
      BY <3>1, HeldAnswers
    <3>2. CASE /\ Ahead(block_index) # {}
               /\ handle_flight_mode(block_index, fm_block, wk, initial_state, final_state)
      <4>1. \E u \in Types : walk'[u].by = "flight"
        BY <1>1, <3>2, HandleHolds DEF TypeOK
      <4> QED
        BY <4>1 DEF Held
    <3> QED
      BY <2>3, <3>1, <3>2 DEF FlightModeStep
  <2> QED
    BY <1>9, <2>1, <2>2, <2>3 DEF WalkReturns
<1>10. CASE ReadyReturns \/ IdxReturns
  BY <1>10, HeldAnswers DEF ReadyReturns, IdxReturns
<1>11. ASSUME NEW t \in Types, AddDevice(t) \/ ChangeDevice(t) PROVE Held'
  BY <1>2, <1>11 DEF AddDevice, ChangeDevice
<1>12. ASSUME NEW t \in Types, RemoveDevice(t) PROVE Held'
  <2>1. /\ UNCHANGED <<invocation, kind, ready, fault>>
        /\ \A u \in Types \ {t} : walk'[u] = walk[u] /\ stale'[u] = stale[u]
        /\ stale[t] \subseteq stale'[t]
        /\ walk[t] # NoWalk => "node_freed" \in stale'[t]
    BY <1>1, <1>12 DEF RemoveDevice, daemonVars, TypeOK
  <2>2. \A u \in Types : /\ stale[u] # {} => stale'[u] # {}
                         /\ walk'[u] = walk[u] \/ walk[u] = NoWalk \/ stale'[u] # {}
    BY <2>1
  <2> QED
    BY <1>1, <2>1, <2>2, HeldStays
<1>13. CASE StaleReturns
  BY <1>1, <1>13 DEF StaleReturns, Held, TypeOK, Faults
<1>14. CASE Restart \/ Torn
  BY <1>14 DEF Restart, Torn, Restarted, Held
<1>15. CASE UNCHANGED vars
  BY <1>2, <1>15 DEF vars
<1> QED
  BY <1>3, <1>5, <1>6, <1>7, <1>8, <1>9, <1>10, <1>11, <1>12, <1>13, <1>14, <1>15 DEF Next

\* There are not two holders.
LEMMA OneHolder ==
    ASSUME IInv, NEW g \in Holders, NEW h \in Holders
    PROVE  g = h
<1>1. \A t \in Types : t + 1 = block_index => t = block_index - 1
  BY TypesAreNumbers
<1>2. kind # "none" /\ kind \in {"Block", "BlockIdx", "FlightMode"}
  BY DEF Holders, IInv, Placed, TypeOK
<1>3. CASE kind = "Block"
  <2>1. \A x \in Holders : x = IF ready THEN <<"ready", ALL>> ELSE <<"walk", target>>
    BY <1>3 DEF Holders, IInv, Placed
  <2> QED
    BY <2>1
<1>4. CASE kind = "BlockIdx"
  <2>1. \A x \in Holders : x = <<"device", target>>
    BY <1>4 DEF Holders, IInv, Placed
  <2> QED
    BY <2>1
<1>5. CASE kind = "FlightMode"
  <2>1. \A x \in Holders : x = <<"walk", block_index - 1>>
    BY <1>1, <1>5 DEF Holders, IInv, Placed
  <2> QED
    BY <2>1
<1> QED
  BY <1>2, <1>3, <1>4, <1>5

\* What is held is owned.
LEMMA HeldIsOwned ==
    ASSUME IInv, Held
    PROVE  RequestOwned
<1>1. /\ invocation = NULL <=> kind = "none"
      /\ invocation # NULL => client[invocation] = "waiting"
  BY DEF IInv, Placed
<1>2. invocation = NULL => Holders = {}
  BY <1>1 DEF IInv, Placed, Holders
<1>3. ASSUME invocation # NULL, fault = "none", \A t \in Types : stale[t] = {}
      PROVE  Holders # {}
  <2>1. CASE \E t \in Types : walk[t].by \in {"block", "flight"}
    <3>1. PICK t \in Types : walk[t].by \in {"block", "flight"}
      BY <2>1
    <3>2. <<"walk", t>> \in Holders
      BY <3>1 DEF Holders
    <3> QED
      BY <3>2
  <2>2. CASE ready
    BY <2>2 DEF Holders
  <2>3. CASE kind = "BlockIdx"
    BY <1>3, <2>3 DEF Holders, IInv, Placed
  <2> QED
    BY <1>3, <2>1, <2>2, <2>3 DEF Held
<1>4. Holders # {} => \E h \in Holders : Holders = {h}
  BY OneHolder
<1> QED
  BY <1>1, <1>2, <1>3, <1>4 DEF RequestOwned

\* The request in progress is in exactly one place, until an answer that comes
\* too late aborts the daemon: a client is never forgotten.
THEOREM RequestIsOwned == Spec => []RequestOwned
<1>1. Init => Held
  BY DEF Init, Held
<1> QED
  BY <1>1, IInvAlways, HeldStep, HeldIsOwned, PTL DEF Spec

-----------------------------------------------------------------------------
(* What a success saves.                                                   *)

OkSaved ==
    (Answers("ok") /\ kind \in {"Block", "BlockIdx"})
    => persist'[target] = IF Unsaved(target) THEN persist[target] ELSE accepted

\* The answer to Block or BlockIdx.
LEMMA BlockDoneSaves ==
    ASSUME IInv, NEW ok \in BOOLEAN, NEW wk, BlockDone(ok, wk), target \in Types
    PROVE  OkSaved
<1> SUFFICES ASSUME Answers("ok")
             PROVE  persist'[target] = IF Unsaved(target) THEN persist[target] ELSE accepted
  BY DEF OkSaved
<1>1. invocation \in Clients /\ client'[invocation] = "ok"
  BY DEF Answers
<1>2. ok
  BY <1>1 DEF BlockDone, Complete, IInv, TypeOK
<1>3. persist' = set_persist_state(persist, target, pending_block)
  BY <1>2 DEF BlockDone
<1>4. accepted = pending_block
  BY <1>1, DaemonAssumption DEF IInv, Placed, DaemonAssumption
<1> QED
  BY <1>3, <1>4 DEF set_persist_state, IInv, TypeOK

LEMMA OkSavedStep ==
    ASSUME IInv, [Next]_vars
    PROVE  OkSaved
<1>1. ASSUME invocation' = NULL => invocation = NULL PROVE OkSaved
  BY <1>1 DEF OkSaved, Answers
<1>2. ASSUME UNCHANGED daemonVars PROVE OkSaved
  BY <1>1, <1>2 DEF daemonVars
<1>3. ASSUME NEW c \in Clients, NEW callback, NEW t, NEW block, Accept(c, callback, t, block)
      PROVE  OkSaved
  BY <1>1, <1>3 DEF Accept
<1>4. ASSUME NEW c \in Clients, Reject(c) PROVE OkSaved
  BY <1>2, <1>4 DEF Reject, Rest
<1>5. ASSUME NEW c \in Clients, NEW block \in BOOLEAN, NEW t,
             FlightMode(c, block) \/ Block(c, t, block) \/ BlockIdx(c, t, block)
      PROVE  OkSaved
  BY <1>2, <1>3, <1>5 DEF FlightMode, Block, BlockIdx, AlreadySo
<1>6. ASSUME NEW k \in Keys, Key(k) PROVE OkSaved
  BY <1>2, <1>6 DEF Key
<1>7. ASSUME NEW t \in Types, WalkReturns(t) PROVE OkSaved
  <2> DEFINE wk == [walk EXCEPT ![t] = NoWalk]
  <2>1. CASE UNCHANGED daemonVars
    BY <1>2, <2>1
  <2>2. CASE walk[t].by = "block" /\ \E ok \in BOOLEAN : BlockDone(ok, wk)
    <3>1. target \in Types
      BY <2>2 DEF IInv, Placed
    <3> HIDE DEF wk
    <3> QED
      BY <2>2, <3>1, BlockDoneSaves
  <2>3. CASE walk[t].by = "flight"
    BY <2>3 DEF IInv, Placed, OkSaved
  <2> QED
    BY <1>7, <2>1, <2>2, <2>3 DEF WalkReturns
<1>8. CASE ReadyReturns \/ IdxReturns
  <2>1. target \in Types
    BY <1>8 DEF ReadyReturns, IdxReturns, IInv, Placed
  <2>2. PICK ok \in BOOLEAN : BlockDone(ok, walk)
    BY <1>8 DEF ReadyReturns, IdxReturns
  <2> QED
    BY <2>1, <2>2, BlockDoneSaves
<1>9. ASSUME NEW t \in Types, AddDevice(t) \/ ChangeDevice(t) \/ RemoveDevice(t) PROVE OkSaved
  BY <1>2, <1>9 DEF AddDevice, ChangeDevice, RemoveDevice
<1>10. CASE StaleReturns
  BY <1>2, <1>10 DEF StaleReturns
<1>11. CASE Restart \/ Torn
  <2>1. client' = [c \in Clients |-> IF client[c] = "waiting" THEN "error" ELSE client[c]]
    BY <1>11 DEF Restart, Torn, Restarted
  <2>2. invocation # NULL => client[invocation] = "waiting"
    BY DEF IInv, Placed
  <2> QED
    BY <2>1, <2>2 DEF OkSaved, Answers
<1>12. CASE UNCHANGED vars
  BY <1>2, <1>12 DEF vars
<1> QED
  BY <1>4, <1>5, <1>6, <1>7, <1>8, <1>9, <1>10, <1>11, <1>12 DEF Next

\* When Block or BlockIdx succeeds, what is saved for the type is the state that
\* client asked for.
THEOREM SuccessSaves == Spec => OkSaves
<1>1. IInv /\ [Next]_vars => [OkSaved]_vars
  BY OkSavedStep
<1>2. OkSaves <=> [][OkSaved]_vars
  BY DEF OkSaves, OkSaved
<1> QED
  BY <1>1, <1>2, IInvAlways, PTL DEF Spec

-----------------------------------------------------------------------------
(* What a flight mode that fails leaves behind.                            *)

\* What the walk has found of a type, and the state it has noted for it.
FoundAs(state, blocks) ==
    \/ state = NO_ADAPTER /\ blocks = {}
    \/ state = event_to_state("soft" \in blocks, "hard" \in blocks)

FoundStates ==
    IF kind = "FlightMode"
    THEN \A t \in Types : IF t < block_index THEN FoundAs(initial_state[t], found[t])
                          ELSE found[t] = {}
    ELSE found = NoBlocks

\* The walk notes the types up to the next that has an adapter.
LEMMA HandleFinds ==
    ASSUME TypeOK, NEW from \in 1..(N + 1), Ahead(from) # {}, NEW block, NEW wk,
           NEW init, NEW final,
           handle_flight_mode(from, block, wk, init, final), kind' = "FlightMode",
           \A t \in Types : IF t < from THEN FoundAs(init[t], found[t]) ELSE found[t] = {}
    PROVE  FoundStates'
<1> DEFINE next == Min(Ahead(from))
           seen == from..next
<1>1. next \in from..N
  BY NextType DEF TypeOK
<1>2. /\ initial_state' = [t \in Types |-> IF t \in seen THEN get_state(t) ELSE init[t]]
      /\ block_index' = next + 1
      /\ found' = [t \in Types |-> IF t \in seen THEN Blocks(t) ELSE found[t]]
  BY DEF handle_flight_mode
<1>3. Types \subseteq Nat /\ from \in Nat /\ next \in Nat /\ ALL \notin Types
  BY <1>1, TypesAreNumbers
<1> HIDE DEF next
<1>4. \A t \in Types : /\ t < next + 1 <=> t < from \/ t \in seen
                       /\ t < from => t \notin seen
  <2>1. from <= next
    BY <1>1, <1>3
  <2> QED
    BY <2>1, <1>3, Between
<1> HIDE DEF seen
<1>5. ASSUME NEW t \in Types PROVE FoundAs(get_state(t), Blocks(t))
  <2>1. get_state(t) = IF t \in present THEN event_to_state(soft[t], hard[t]) ELSE NO_ADAPTER
    BY <1>3 DEF get_state
  <2>2. CASE t \in present
    <3>1. ("soft" \in Blocks(t)) = soft[t] /\ ("hard" \in Blocks(t)) = hard[t]
      BY <2>2 DEF Blocks, TypeOK
    <3> QED
      BY <2>1, <2>2, <3>1 DEF FoundAs
  <2>3. CASE t \notin present
    BY <2>1, <2>3 DEF FoundAs, Blocks
  <2> QED
    BY <2>2, <2>3
<1>6. ASSUME NEW t \in Types, t < next + 1 PROVE FoundAs(initial_state'[t], found'[t])
  BY <1>2, <1>4, <1>5, <1>6
<1>7. ASSUME NEW t \in Types, ~ (t < next + 1) PROVE found'[t] = {}
  BY <1>2, <1>4, <1>7
<1> QED
  BY <1>2, <1>6, <1>7 DEF FoundStates, FoundAs

LEMMA FoundStatesStep ==
    ASSUME IInv, FoundStates, [Next]_vars
    PROVE  FoundStates'
<1>1. ASSUME UNCHANGED <<found, kind, block_index, initial_state>> PROVE FoundStates'
  BY <1>1 DEF FoundStates, FoundAs, NoBlocks
<1>2. ASSUME kind # "FlightMode", kind' # "FlightMode", UNCHANGED found PROVE FoundStates'
  BY <1>2 DEF FoundStates, NoBlocks
<1>3. ASSUME found' = NoBlocks, kind' = "none" PROVE FoundStates'
  BY <1>3 DEF FoundStates, NoBlocks
<1>4. ASSUME NEW c \in Clients, Reject(c) \/ AlreadySo(c) PROVE FoundStates'
  BY <1>1, <1>4 DEF Reject, Rest, AlreadySo, daemonVars, fmVars, history
<1>5. ASSUME NEW c \in Clients, NEW block \in BOOLEAN, FlightMode(c, block)
      PROVE  FoundStates'
  <2>1. CASE /\ present # {}
             /\ Accept(c, "FlightMode", ALL, block)
             /\ handle_flight_mode(1, block, walk, NoData, AllFalse)
    <3>1. TypeOK /\ 1 \in 1..(N + 1) /\ Ahead(1) # {} /\ \A t \in Types : ~ (t < 1)
      BY <2>1, FirstType, TypesAreNumbers DEF IInv, TypeOK, Types
    <3>2. kind = "none" /\ kind' = "FlightMode"
      BY <2>1, NoHolder DEF Accept
    <3>3. \A t \in Types : found[t] = {}
      BY <3>2 DEF FoundStates, NoBlocks
    <3> QED
      BY <2>1, <3>1, <3>2, <3>3, HandleFinds
  <2> QED
    BY <1>4, <1>5, <2>1 DEF FlightMode
<1>6. ASSUME NEW c \in Clients, NEW block \in BOOLEAN, NEW t,
             Block(c, t, block) \/ BlockIdx(c, t, block)
      PROVE  FoundStates'
  <2>1. CASE /\ Accept(c, "Block", t, block) \/ Accept(c, "BlockIdx", t, block)
             /\ UNCHANGED found
    <3>1. kind = "none" /\ kind' \in {"Block", "BlockIdx"}
      BY <2>1, NoHolder DEF Accept
    <3> QED
      BY <1>2, <2>1, <3>1
  <2> QED
    BY <1>4, <1>6, <2>1 DEF Block, BlockIdx
<1>7. ASSUME NEW ok \in BOOLEAN, NEW wk, BlockDone(ok, wk), kind # "FlightMode"
      PROVE  FoundStates'
  BY <1>2, <1>7 DEF BlockDone, Complete, history
<1>8. ASSUME NEW k, Key(k) PROVE FoundStates'
  BY <1>1, <1>8 DEF Key, daemonVars, fmVars, history
<1>9. ASSUME NEW t \in Types, WalkReturns(t) PROVE FoundStates'
  <2> DEFINE wk == [walk EXCEPT ![t] = NoWalk]
  <2>1. CASE UNCHANGED <<daemonVars, fmVars, history>>
    BY <1>1, <2>1 DEF daemonVars, fmVars, history
  <2>2. CASE walk[t].by = "block" /\ \E ok \in BOOLEAN : BlockDone(ok, wk)
    BY <1>7, <2>2 DEF IInv, Placed
  <2>3. ASSUME NEW ok \in BOOLEAN, FlightModeStep(ok, wk), walk[t].by = "flight"
        PROVE  FoundStates'
    <3> HIDE DEF wk
    <3>1. kind = "FlightMode" /\ TypeOK
      BY <2>3 DEF IInv, Placed
    <3>2. CASE /\ Ahead(block_index) # {}
               /\ handle_flight_mode(block_index, fm_block, wk, initial_state, final_state)
               /\ UNCHANGED kind
      <4>1. block_index \in 1..(N + 1)
        BY <3>1 DEF TypeOK
      <4>2. \A u \in Types : IF u < block_index THEN FoundAs(initial_state[u], found[u])
                             ELSE found[u] = {}
        BY <3>1 DEF FoundStates
      <4> QED
        BY <3>1, <3>2, <4>1, <4>2, HandleFinds
    <3>3. CASE FlightModeDone(wk) \/ FlightModeFailed(wk)
      BY <1>3, <3>3 DEF FlightModeDone, FlightModeFailed, Complete
    <3> QED
      BY <2>3, <3>2, <3>3 DEF FlightModeStep, daemonVars
  <2> QED
    BY <1>9, <2>1, <2>2, <2>3 DEF WalkReturns
<1>10. ASSUME NEW t, AddDevice(t) \/ ChangeDevice(t) \/ RemoveDevice(t) PROVE FoundStates'
  BY <1>1, <1>10 DEF AddDevice, ChangeDevice, RemoveDevice, daemonVars, fmVars, history
<1>11. CASE ReadyReturns \/ IdxReturns
  BY <1>7, <1>11 DEF ReadyReturns, IdxReturns, IInv, Placed
<1>12. CASE StaleReturns
  BY <1>1, <1>12 DEF StaleReturns, daemonVars, fmVars, history
<1>13. CASE Restart \/ Torn
  BY <1>3, <1>13 DEF Restart, Torn, Restarted
<1>14. CASE UNCHANGED vars
  BY <1>1, <1>14 DEF vars, daemonVars, fmVars, history
<1> QED
  BY <1>4, <1>5, <1>6, <1>8, <1>9, <1>10, <1>11, <1>12, <1>13, <1>14 DEF Next

LEMMA FoundStatesAlways == Spec => []FoundStates
<1>1. Init => FoundStates
  BY DEF Init, FoundStates
<1> QED
  BY <1>1, FoundStatesStep, IInvAlways, PTL DEF Spec

FailedUndone ==
    FlightModeFails
    => /\ UNCHANGED <<flight_mode, prev_soft>>
       /\ \A t \in ToRestore :
            /\ walk'[t].by = "null"
            /\ "soft" \in found[t] => walk'[t].block
            /\ walk'[t].block => found[t] # {}

LEMMA FlightModeFailedUndoes ==
    ASSUME IInv, FoundStates, kind = "FlightMode", NEW wk, FlightModeFailed(wk)
    PROVE  FailedUndone
<1>1. UNCHANGED <<flight_mode, prev_soft>>
  BY DEF FlightModeFailed
<1> SUFFICES ASSUME NEW t \in ToRestore
             PROVE  /\ walk'[t].by = "null"
                    /\ "soft" \in found[t] => walk'[t].block
                    /\ walk'[t].block => found[t] # {}
  BY <1>1 DEF FailedUndone
<1>2. /\ t \in Types /\ t \in Switched /\ t \in present /\ t < block_index
      /\ initial_state[t] # NO_ADAPTER
  BY TypesAreNumbers DEF ToRestore, IInv, TypeOK, Switched
<1>3. walk'[t] = Walk("null", initial_state[t] # UNBLOCKED)
  BY <1>2 DEF FlightModeFailed, Called, Absent
<1>4. walk'[t].by = "null" /\ walk'[t].block = (initial_state[t] # UNBLOCKED)
  BY <1>3 DEF Walk
<1>5. initial_state[t] = event_to_state("soft" \in found[t], "hard" \in found[t])
  BY <1>2 DEF FoundStates, FoundAs
<1>6. /\ "soft" \in found[t] => initial_state[t] # UNBLOCKED
      /\ found[t] = {} => initial_state[t] = UNBLOCKED
  BY <1>5 DEF event_to_state, UNBLOCKED, SOFT_BLOCKED, HARD_BLOCKED
<1> QED
  BY <1>4, <1>6

LEMMA FailedUndoneStep ==
    ASSUME IInv, FoundStates, [Next]_vars
    PROVE  FailedUndone
<1>1. ASSUME invocation' = NULL => invocation = NULL PROVE FailedUndone
  BY <1>1 DEF FailedUndone, FlightModeFails, Answers
<1>2. ASSUME UNCHANGED daemonVars PROVE FailedUndone
  BY <1>1, <1>2 DEF daemonVars
<1>3. ASSUME NEW c \in Clients, NEW callback, NEW t, NEW block, Accept(c, callback, t, block)
      PROVE  FailedUndone
  BY <1>1, <1>3 DEF Accept
<1>4. ASSUME NEW c \in Clients, Reject(c) PROVE FailedUndone
  BY <1>2, <1>4 DEF Reject, Rest
<1>5. ASSUME NEW c \in Clients, NEW block \in BOOLEAN, NEW t,
             FlightMode(c, block) \/ Block(c, t, block) \/ BlockIdx(c, t, block)
      PROVE  FailedUndone
  BY <1>2, <1>3, <1>5 DEF FlightMode, Block, BlockIdx, AlreadySo
<1>6. ASSUME NEW k \in Keys, Key(k) PROVE FailedUndone
  BY <1>2, <1>6 DEF Key
<1>7. ASSUME NEW t \in Types, WalkReturns(t) PROVE FailedUndone
  <2> DEFINE wk == [walk EXCEPT ![t] = NoWalk]
  <2>1. CASE UNCHANGED daemonVars
    BY <1>2, <2>1
  <2>2. CASE walk[t].by = "block"
    BY <2>2 DEF IInv, Placed, FailedUndone, FlightModeFails
  <2>3. ASSUME NEW ok \in BOOLEAN, FlightModeStep(ok, wk), walk[t].by = "flight"
        PROVE  FailedUndone
    <3> HIDE DEF wk
    <3>1. CASE UNCHANGED daemonVars
      BY <1>2, <3>1
    <3>2. CASE FlightModeDone(wk)
      BY <3>2, DaemonAssumption
         DEF FlightModeDone, Complete, FailedUndone, FlightModeFails, Answers,
             IInv, TypeOK, DaemonAssumption
    <3>3. CASE FlightModeFailed(wk)
      BY <2>3, <3>3, FlightModeFailedUndoes DEF IInv, Placed
    <3> QED
      BY <2>3, <3>1, <3>2, <3>3 DEF FlightModeStep
  <2> QED
    BY <1>7, <2>1, <2>2, <2>3 DEF WalkReturns
<1>8. CASE ReadyReturns \/ IdxReturns
  BY <1>8 DEF ReadyReturns, IdxReturns, IInv, Placed, FailedUndone, FlightModeFails
<1>9. ASSUME NEW t \in Types, AddDevice(t) \/ ChangeDevice(t) \/ RemoveDevice(t)
      PROVE  FailedUndone
  BY <1>2, <1>9 DEF AddDevice, ChangeDevice, RemoveDevice
<1>10. CASE StaleReturns
  BY <1>2, <1>10 DEF StaleReturns
<1>11. CASE Restart \/ Torn
  BY <1>11 DEF Restart, Torn, Restarted, FailedUndone, FlightModeFails, Answers
<1>12. CASE UNCHANGED vars
  BY <1>2, <1>12 DEF vars
<1> QED
  BY <1>4, <1>5, <1>6, <1>7, <1>8, <1>9, <1>10, <1>11, <1>12 DEF Next

\* A flight mode that fails at any of any number of types changes neither flight mode
\* nor what is remembered of the types, and asks each type it had switched, if its
\* adapter is still there, to take back the soft block it was found with, or to give up
\* the one it got; whatever blocks it was found with, and wherever the daemon is killed.
THEOREM FailureIsUndone == Spec => FailureUndoes
<1>1. IInv /\ FoundStates /\ [Next]_vars => [FailedUndone]_vars
  BY FailedUndoneStep
<1>2. FailureUndoes <=> [][FailedUndone]_vars
  BY DEF FailureUndoes, FailedUndone
<1> QED
  BY <1>1, <1>2, IInvAlways, FoundStatesAlways, PTL DEF Spec

\* A type of which nothing is saved has nothing remembered, in flight mode or not.
Remembered ==
    /\ PrevSoftOnlyInFlight
    /\ \A t \in Types : Unsaved(t) => ~ prev_soft[t]

LEMMA RememberedStep ==
    ASSUME IInv, Remembered, [Next]_vars, ~ TornSaves
    PROVE  Remembered'
<1>1. ASSUME UNCHANGED <<flight_mode, prev_soft>> PROVE Remembered'
  BY <1>1 DEF Remembered, PrevSoftOnlyInFlight, Unsaved
<1>2. ASSUME NEW wk, FlightModeDone(wk), kind = "FlightMode" PROVE Remembered'
  <2>1. fm_block = pending_block
    BY <1>2 DEF IInv, Placed
  <2>2. flight_mode' = fm_block /\ prev_soft' = FinalPrevSoft(2 * N)
    BY <1>2, <2>1 DEF FlightModeDone
  <2>3. \A t \in Types : ~ (2 * N < 2 * t - 1)
    BY TypesAreNumbers DEF Types
  <2>4. \A t \in Types : prev_soft'[t] = IF Unsaved(t) THEN prev_soft[t]
                                         ELSE fm_block /\ LastState(t) = SOFT_BLOCKED
    BY <2>2, <2>3 DEF FinalPrevSoft
  <2> QED
    BY <2>2, <2>4 DEF Remembered, PrevSoftOnlyInFlight, Unsaved
<1>3. ASSUME NEW c \in Clients, NEW block \in BOOLEAN, NEW t,
             Reject(c) \/ FlightMode(c, block) \/ Block(c, t, block) \/ BlockIdx(c, t, block)
      PROVE  Remembered'
  BY <1>1, <1>3 DEF Reject, Rest, FlightMode, Block, BlockIdx, AlreadySo, daemonVars, savedVars
<1>4. ASSUME NEW k \in Keys, Key(k) PROVE Remembered'
  BY <1>1, <1>4 DEF Key, daemonVars, savedVars
<1>5. ASSUME NEW t \in Types, WalkReturns(t) PROVE Remembered'
  <2> DEFINE wk == [walk EXCEPT ![t] = NoWalk]
  <2>1. CASE UNCHANGED <<savedVars, daemonVars>>
    BY <1>1, <2>1 DEF savedVars, daemonVars
  <2>2. ASSUME NEW ok \in BOOLEAN, BlockDone(ok, wk) PROVE Remembered'
    BY <1>1, <2>2 DEF BlockDone
  <2>3. ASSUME NEW ok \in BOOLEAN, FlightModeStep(ok, wk), walk[t].by = "flight"
        PROVE  Remembered'
    <3>1. kind = "FlightMode"
      BY <2>3 DEF IInv, Placed
    <3> HIDE DEF wk
    <3>2. CASE UNCHANGED <<savedVars, daemonVars>>
      BY <1>1, <3>2 DEF savedVars, daemonVars
    <3>3. CASE FlightModeDone(wk)
      BY <1>2, <3>1, <3>3
    <3>4. CASE FlightModeFailed(wk)
      BY <1>1, <3>4 DEF FlightModeFailed
    <3> QED
      BY <2>3, <3>2, <3>3, <3>4 DEF FlightModeStep
  <2> QED
    BY <1>5, <2>1, <2>2, <2>3 DEF WalkReturns
<1>6. CASE ReadyReturns \/ IdxReturns
  BY <1>1, <1>6 DEF ReadyReturns, IdxReturns, BlockDone
<1>7. ASSUME NEW t \in Types, AddDevice(t) \/ ChangeDevice(t) \/ RemoveDevice(t)
      PROVE  Remembered'
  BY <1>1, <1>7 DEF AddDevice, ChangeDevice, RemoveDevice, daemonVars, savedVars
<1>8. CASE StaleReturns
  BY <1>1, <1>8 DEF StaleReturns, daemonVars, savedVars
<1>9. CASE Restart
  <2>1. prev_soft' = prev_soft /\ flight_mode' = persist[ALL]
    BY <1>9 DEF Restart, Restarted, get_persist_state
  <2>2. flight_mode = persist[ALL]
    BY DEF IInv, FlightModeKept
  <2> QED
    BY <1>1, <2>1, <2>2
<1>10. CASE UNCHANGED vars
  BY <1>1, <1>10 DEF vars, daemonVars, savedVars
<1> QED
  BY <1>3, <1>4, <1>5, <1>6, <1>7, <1>8, <1>9, <1>10 DEF Next, Torn

\* Unless the daemon is killed among the saves that end a flight mode, nothing is
\* remembered outside flight mode that a later one could restore.
THEOREM NothingLeftRemembered ==
    ASSUME ~ TornSaves
    PROVE  Spec => []PrevSoftOnlyInFlight
<1>1. Init => Remembered
  BY DEF Init, Remembered, PrevSoftOnlyInFlight, AllFalse
<1>2. IInv /\ Remembered /\ [Next]_vars => Remembered'
  BY RememberedStep
<1>3. Remembered => PrevSoftOnlyInFlight
  BY DEF Remembered
<1> QED
  BY <1>1, <1>2, <1>3, IInvAlways, PTL DEF Spec

-----------------------------------------------------------------------------
(* What flight mode off puts back.                                         *)

\* The types the walk of flight mode off has passed, and the one it is at.
PassedOff == \A t \in Types :
    t < block_index =>
        final_state[t] = (initial_state[t] # NO_ADAPTER /\ get_prev_soft(t))

AskedOff == \A t \in Types :
    walk[t].by = "flight" => walk[t].block = get_prev_soft(t)

\* In flight mode what is remembered is what was found when it began, but for a soft
\* block that was under a hard one.
Recorded ==
    /\ flight_mode => \A t \in Types : ~ Unsaved(t) => prev_soft[t] = (before[t] = {"soft"})
    /\ kind = "FlightMode" => /\ fm_block # flight_mode
                              /\ ~ fm_block => PassedOff /\ AskedOff

\* The walk passes the types up to the next that has an adapter.
LEMMA HandleRecords ==
    ASSUME TypeOK, NEW from \in 1..(N + 1), Ahead(from) # {},
           NEW wk, NEW init \in [Types -> KillswitchState],
           NEW final \in [Types -> BOOLEAN],
           handle_flight_mode(from, FALSE, wk, init, final),
           UNCHANGED <<adapterVars, savedVars>>,
           \A t \in Types : wk[t].by # "flight",
           \A t \in Types : t < from => final[t] = (init[t] # NO_ADAPTER /\ get_prev_soft(t))
    PROVE  PassedOff' /\ AskedOff'
<1> DEFINE next == Min(Ahead(from))
           seen == from..next
<1>1. /\ next \in from..N /\ next \in present
      /\ \A t \in present : t >= from => next <= t
  BY NextType DEF TypeOK
<1>2. /\ initial_state' = [t \in Types |-> IF t \in seen THEN get_state(t) ELSE init[t]]
      /\ final_state' = [t \in Types |->
                           IF t \in seen
                           THEN FALSE \/ (t = next /\ get_prev_soft(t))
                           ELSE final[t]]
      /\ block_index' = next + 1
      /\ walk' = Called(wk, {next}, "flight", final_state')
  BY DEF handle_flight_mode
<1>3. Types \subseteq Nat /\ from \in Nat /\ next \in Nat /\ ALL \notin Types
  BY <1>1, TypesAreNumbers
<1> HIDE DEF next
<1>4. next \in Types /\ next \in seen
  BY <1>1, <1>3 DEF Types
<1>5. \A t \in Types : /\ t < next + 1 <=> t < from \/ t \in seen
                       /\ t < from => t \notin seen
  <2>1. from <= next
    BY <1>1, <1>3
  <2> QED
    BY <2>1, <1>3, Between
<1>6. \A t \in seen : t \in present => t = next
  BY <1>1, <1>3
<1> HIDE DEF seen
<1>7. \A t \in Types : get_prev_soft(t)' = get_prev_soft(t)
  BY DEF get_prev_soft, savedVars, Unsaved
<1>8. ASSUME NEW t \in Types, t < next + 1
      PROVE  final_state'[t] = (initial_state'[t] # NO_ADAPTER /\ get_prev_soft(t))
  <2>1. CASE t \in seen
    <3>1. initial_state'[t] = get_state(t)
      BY <1>2, <2>1
    <3>2. final_state'[t] = (t = next /\ get_prev_soft(t))
      BY <1>2, <2>1
    <3>3. get_state(t) # NO_ADAPTER <=> t = next
      BY <1>1, <1>3, <1>6, <2>1
         DEF get_state, event_to_state, NO_ADAPTER, UNBLOCKED, SOFT_BLOCKED, HARD_BLOCKED
    <3> QED
      BY <3>1, <3>2, <3>3
  <2>2. CASE t \notin seen
    <3>1. t < from
      BY <1>5, <1>8, <2>2
    <3>2. initial_state'[t] = init[t] /\ final_state'[t] = final[t]
      BY <1>2, <2>2
    <3> QED
      BY <3>1, <3>2
  <2> QED
    BY <2>1, <2>2
<1>9. PassedOff'
  BY <1>2, <1>7, <1>8 DEF PassedOff
<1>10. ASSUME NEW t \in Types, walk'[t].by = "flight"
       PROVE  walk'[t].block = get_prev_soft(t)
  <2>1. t = next
    BY <1>2, <1>10 DEF Called
  <2>2. walk'[t].block = final_state'[t]
    BY <1>2, <2>1, <1>4 DEF Called, Walk
  <2>3. final_state'[next] = (next = next /\ get_prev_soft(next))
    BY <1>2, <1>4
  <2>4. get_prev_soft(next) \in BOOLEAN
    BY <1>4 DEF get_prev_soft, TypeOK
  <2> QED
    BY <2>1, <2>2, <2>3, <2>4
<1>11. AskedOff'
  BY <1>7, <1>10 DEF AskedOff
<1> QED
  BY <1>9, <1>11

\* The end of a walk: what was found is remembered, what was remembered is saved.
LEMMA DoneRecords ==
    ASSUME IInv, FoundStates, Recorded, kind = "FlightMode", Ahead(block_index) = {},
           NEW wk, FlightModeDone(wk)
    PROVE  /\ flight_mode' => \A t \in Types :
                ~ Unsaved(t) => prev_soft'[t] = (before'[t] = {"soft"})
           /\ ~ flight_mode' => \A t \in Types :
                t < block_index /\ initial_state[t] # NO_ADAPTER /\ ~ Unsaved(t)
                => persist'[t] = prev_soft[t]
<1>1. /\ fm_block = pending_block /\ flight_mode' = fm_block
      /\ prev_soft' = FinalPrevSoft(2 * N)
      /\ persist' = [FinalPersist(2 * N) EXCEPT ![ALL] = pending_block]
      /\ fm_block => before' = found
  BY DEF IInv, Placed, FlightModeDone, FinalFile, FinalBefore
<1>2. /\ \A t \in Types : ~ (2 * N < 2 * t - 1) /\ ~ (2 * N < 2 * t) /\ t # ALL
      /\ block_index \in Nat /\ Types \subseteq Nat
  BY TypesAreNumbers DEF Types, IInv, TypeOK
<1>3. ASSUME fm_block, NEW t \in Types, ~ Unsaved(t)
      PROVE  prev_soft'[t] = (before'[t] = {"soft"})
  <2>1. prev_soft'[t] = (LastState(t) = SOFT_BLOCKED)
    BY <1>1, <1>2, <1>3 DEF FinalPrevSoft
  <2>2. found[t] \subseteq {"soft", "hard"}
    BY DEF IInv, TypeOK
  <2>3. CASE t < block_index
    <3>1. LastState(t) = initial_state[t]
      BY <1>2, <2>3 DEF LastState
    <3>2. FoundAs(initial_state[t], found[t])
      BY <2>3 DEF FoundStates
    <3>3. (initial_state[t] = SOFT_BLOCKED) <=> (found[t] = {"soft"})
      BY <2>2, <3>2
         DEF FoundAs, event_to_state, NO_ADAPTER, UNBLOCKED, SOFT_BLOCKED, HARD_BLOCKED
    <3> QED
      BY <1>1, <1>3, <2>1, <3>1, <3>3
  <2>4. CASE ~ (t < block_index)
    <3>1. LastState(t) = NO_ADAPTER
      BY <1>2, <2>4 DEF LastState
    <3>2. found[t] = {}
      BY <2>4 DEF FoundStates
    <3>3. (LastState(t) = SOFT_BLOCKED) = FALSE
      BY <3>1 DEF NO_ADAPTER, SOFT_BLOCKED
    <3> QED
      BY <1>1, <1>3, <2>1, <3>2, <3>3
  <2> QED
    BY <2>3, <2>4
<1>4. ASSUME ~ fm_block, NEW t \in Types, t < block_index, initial_state[t] # NO_ADAPTER,
             ~ Unsaved(t)
      PROVE  persist'[t] = prev_soft[t]
  <2>1. persist'[t] = final_state[t]
    BY <1>1, <1>2, <1>4 DEF FinalPersist, LastFinal
  <2>2. final_state[t] = (initial_state[t] # NO_ADAPTER /\ get_prev_soft(t))
    BY <1>4 DEF Recorded, PassedOff
  <2>3. final_state[t] \in BOOLEAN /\ prev_soft[t] \in BOOLEAN
    BY DEF IInv, TypeOK
  <2>4. get_prev_soft(t) = prev_soft[t]
    BY <1>4, <2>3 DEF get_prev_soft
  <2> QED
    BY <1>4, <2>1, <2>2, <2>3, <2>4
<1> QED
  BY <1>1, <1>3, <1>4

LEMMA RecordedStep ==
    ASSUME IInv, FoundStates, Recorded, [Next]_vars, ~ TornSaves
    PROVE  Recorded'
<1> DEFINE Quiet == UNCHANGED <<flight_mode, prev_soft, before, kind, fm_block, block_index,
                                initial_state, final_state>>
<1>1. ASSUME UNCHANGED <<flight_mode, prev_soft, before>>, kind' # "FlightMode"
      PROVE  Recorded'
  BY <1>1 DEF Recorded, Unsaved
<1>2. ASSUME Quiet, \A t \in Types : walk'[t] = walk[t] \/ walk'[t].by # "flight"
      PROVE  Recorded'
  <2>1. PassedOff => PassedOff'
    BY <1>2 DEF PassedOff, get_prev_soft, Unsaved
  <2>2. AskedOff => AskedOff'
    BY <1>2 DEF AskedOff, get_prev_soft, Unsaved
  <2> QED
    BY <1>2, <2>1, <2>2 DEF Recorded, Unsaved
<1>3. ASSUME Quiet, UNCHANGED walk PROVE Recorded'
  BY <1>2, <1>3
<1>4. ASSUME NEW c \in Clients, Reject(c) \/ AlreadySo(c) PROVE Recorded'
  BY <1>3, <1>4 DEF Reject, Rest, AlreadySo, savedVars, daemonVars, fmVars, history
<1>5. NoWalk.by = "none"
  BY CallRecord DEF NoWalk
<1>6. ASSUME NEW c \in Clients, NEW block \in BOOLEAN, FlightMode(c, block) PROVE Recorded'
  <2>1. ASSUME block # flight_mode, present # {}, Accept(c, "FlightMode", ALL, block),
               handle_flight_mode(1, block, walk, NoData, AllFalse),
               UNCHANGED <<adapterVars, savedVars, flight_mode, before>>
        PROVE  Recorded'
    <3>1. /\ TypeOK /\ 1 \in 1..(N + 1) /\ Ahead(1) # {}
          /\ NoData \in [Types -> KillswitchState] /\ AllFalse \in [Types -> BOOLEAN]
          /\ \A t \in Types : ~ (t < 1)
      BY <2>1, FirstType, TypesAreNumbers
         DEF IInv, TypeOK, NoData, AllFalse, KillswitchState, Types
    <3>2. \A t \in Types : walk[t].by # "flight"
      BY <2>1, NoHolder DEF Accept, IInv, Placed
    <3>3. fm_block' = block
      BY <2>1 DEF handle_flight_mode
    <3>4. ~ block => PassedOff' /\ AskedOff'
      BY <2>1, <3>1, <3>2, HandleRecords
    <3>5. UNCHANGED <<flight_mode, prev_soft>> /\ flight_mode \in BOOLEAN
      BY <2>1 DEF savedVars, IInv, TypeOK
    <3> QED
      BY <2>1, <3>3, <3>4, <3>5 DEF Recorded, Unsaved
  <2> QED
    BY <1>4, <1>6, <2>1 DEF FlightMode
<1>7. ASSUME NEW c \in Clients, NEW block \in BOOLEAN, NEW t,
             Block(c, t, block) \/ BlockIdx(c, t, block)
      PROVE  Recorded'
  <2>1. CASE /\ Accept(c, "Block", t, block) \/ Accept(c, "BlockIdx", t, block)
             /\ UNCHANGED <<flight_mode, savedVars, before>>
    <3>1. kind' # "FlightMode"
      BY <2>1 DEF Accept
    <3> QED
      BY <1>1, <2>1, <3>1 DEF savedVars
  <2> QED
    BY <1>4, <1>7, <2>1 DEF Block, BlockIdx
<1>8. ASSUME NEW k \in Keys, Key(k) PROVE Recorded'
  <2>1. \A t \in Types : walk'[t] = walk[t] \/ walk'[t].by # "flight"
    BY <1>8 DEF Key, Called, Walk
  <2> QED
    BY <1>2, <1>8, <2>1 DEF Key, savedVars, daemonVars, fmVars, history
<1>9. ASSUME NEW t \in Types, WalkReturns(t) PROVE Recorded'
  <2> DEFINE wk == [walk EXCEPT ![t] = NoWalk]
  <2>1. CASE /\ UNCHANGED <<savedVars, daemonVars, fmVars, history>> /\ walk' = wk
    <3>1. \A u \in Types : walk'[u] = walk[u] \/ walk'[u].by # "flight"
      BY <1>5, <2>1 DEF IInv, TypeOK
    <3> QED
      BY <1>2, <2>1, <3>1 DEF savedVars, daemonVars, fmVars, history
  <2>2. ASSUME NEW ok \in BOOLEAN, BlockDone(ok, wk) PROVE Recorded'
    BY <1>1, <2>2 DEF BlockDone, Complete, history
  <2>3. ASSUME NEW ok \in BOOLEAN, FlightModeStep(ok, wk), walk[t].by = "flight"
        PROVE  Recorded'
    <3>1. kind = "FlightMode" /\ TypeOK /\ t + 1 = block_index
      BY <2>3 DEF IInv, Placed
    <3>2. \A u \in Types : wk[u].by # "flight"
      <4>1. \A u \in Types : u + 1 = t + 1 => u = t
        BY TypesAreNumbers
      <4>2. \A u \in Types : wk[u] = IF u = t THEN NoWalk ELSE walk[u]
        BY <3>1 DEF TypeOK
      <4>3. \A u \in Types : walk[u].by = "flight" => u + 1 = t + 1
        BY <3>1 DEF IInv, Placed
      <4> HIDE DEF wk
      <4> QED
        BY <1>5, <4>1, <4>2, <4>3
    <3> HIDE DEF wk
    <3>3. CASE /\ Ahead(block_index) # {}
               /\ handle_flight_mode(block_index, fm_block, wk, initial_state, final_state)
               /\ UNCHANGED <<adapterVars, savedVars, daemonVars, before>>
      <4>1. /\ block_index \in 1..(N + 1) /\ fm_block \in BOOLEAN
            /\ initial_state \in [Types -> KillswitchState]
            /\ final_state \in [Types -> BOOLEAN]
        BY <3>1 DEF TypeOK
      <4>2. /\ fm_block # flight_mode
            /\ ~ fm_block => \A u \in Types : u < block_index =>
                 final_state[u] = (initial_state[u] # NO_ADAPTER /\ get_prev_soft(u))
        BY <3>1 DEF Recorded, PassedOff
      <4>3. fm_block' = fm_block
        BY <3>3 DEF handle_flight_mode
      <4>4. ~ fm_block => PassedOff' /\ AskedOff'
        BY <3>1, <3>2, <3>3, <4>1, <4>2, HandleRecords
      <4>5. UNCHANGED <<flight_mode, prev_soft, before, kind>>
        BY <3>3 DEF savedVars, daemonVars
      <4> QED
        BY <4>2, <4>3, <4>4, <4>5 DEF Recorded, Unsaved
    <3>4. CASE Ahead(block_index) = {} /\ FlightModeDone(wk)
      <4>1. kind' # "FlightMode"
        BY <3>4 DEF FlightModeDone, Complete
      <4>2. flight_mode' => \A u \in Types :
              ~ Unsaved(u) => prev_soft'[u] = (before'[u] = {"soft"})
        BY <3>1, <3>4, DoneRecords
      <4> QED
        BY <4>1, <4>2 DEF Recorded, Unsaved
    <3>5. CASE FlightModeFailed(wk)
      BY <1>1, <3>5 DEF FlightModeFailed, Complete
    <3> QED
      BY <2>3, <3>3, <3>4, <3>5 DEF FlightModeStep
  <2> QED
    BY <1>9, <2>1, <2>2, <2>3 DEF WalkReturns
<1>10. CASE ReadyReturns \/ IdxReturns
  <2>1. PICK ok \in BOOLEAN : BlockDone(ok, walk)
    BY <1>10 DEF ReadyReturns, IdxReturns
  <2> QED
    BY <1>1, <2>1 DEF BlockDone, Complete, history
<1>11. ASSUME NEW t \in Types, AddDevice(t) \/ ChangeDevice(t) PROVE Recorded'
  BY <1>3, <1>11 DEF AddDevice, ChangeDevice, savedVars, daemonVars, fmVars, history
<1>12. ASSUME NEW t \in Types, RemoveDevice(t) PROVE Recorded'
  <2>1. \A u \in Types : walk'[u] = walk[u] \/ walk'[u].by # "flight"
    BY <1>5, <1>12 DEF RemoveDevice, IInv, TypeOK
  <2> QED
    BY <1>2, <1>12, <2>1 DEF RemoveDevice, savedVars, daemonVars, fmVars, history
<1>13. CASE StaleReturns
  BY <1>3, <1>13 DEF StaleReturns, savedVars, daemonVars, fmVars, history
<1>14. CASE Restart
  <2>1. UNCHANGED <<prev_soft, before>> /\ flight_mode' = persist[ALL] /\ kind' = "none"
    BY <1>14, TypesAreNumbers DEF Restart, Restarted, get_persist_state, Unsaved
  <2>2. flight_mode = persist[ALL]
    BY DEF IInv, FlightModeKept
  <2> QED
    BY <1>1, <2>1, <2>2
<1>15. CASE UNCHANGED vars
  BY <1>3, <1>15 DEF vars, savedVars, daemonVars, fmVars, history
<1> QED
  BY <1>4, <1>6, <1>7, <1>8, <1>9, <1>10, <1>11, <1>12, <1>13, <1>14, <1>15 DEF Next, Torn

LEMMA RecordedAsksBack ==
    ASSUME IInv, Recorded
    PROVE  AsksBack
<1> SUFFICES ASSUME flight_mode, NEW t \in Types, walk[t].by = "flight", Lossless(t)
             PROVE  walk[t].block = ("soft" \in before[t])
  BY DEF AsksBack
<1>1. AskedOff
  BY DEF IInv, Placed, TypeOK, Recorded
<1>2. walk[t].block = get_prev_soft(t)
  BY <1>1 DEF AskedOff
<1>3. get_prev_soft(t) = prev_soft[t]
  BY DEF get_prev_soft, Lossless, IInv, TypeOK
<1>4. prev_soft[t] = (before[t] = {"soft"})
  BY DEF Recorded, Lossless
<1>5. (before[t] = {"soft"}) = ("soft" \in before[t])
  BY DEF Lossless, IInv, TypeOK
<1> QED
  BY <1>2, <1>3, <1>4, <1>5

LEMMA PutBackStep ==
    ASSUME IInv, FoundStates, Recorded, [Next]_vars, ~ TornSaves
    PROVE  PutBack
<1> SUFFICES ASSUME flight_mode, ~ flight_mode',
                    NEW u \in 1..(block_index - 1),
                    initial_state[u] # NO_ADAPTER, Lossless(u)
             PROVE  persist'[u] = ("soft" \in before[u])
  BY DEF PutBack
<1>1. u \in Types /\ u < block_index
  BY TypesAreNumbers DEF IInv, TypeOK, Types
<1>2. flight_mode' # flight_mode
  OBVIOUS
<1>3. PICK t \in Types : WalkReturns(t)
  <2>1. ~ Restart
    BY <1>2, TypesAreNumbers
       DEF Restart, Restarted, get_persist_state, Unsaved, IInv, FlightModeKept
  <2>2. ASSUME NEW c \in Clients, NEW block \in BOOLEAN, NEW t
        PROVE  ~ (Reject(c) \/ FlightMode(c, block) \/ Block(c, t, block)
                  \/ BlockIdx(c, t, block))
    BY <1>2 DEF Reject, Rest, FlightMode, Block, BlockIdx, AlreadySo, daemonVars
  <2>3. \A k \in Keys : ~ Key(k)
    BY <1>2 DEF Key, daemonVars
  <2>4. \A t \in Types : ~ (AddDevice(t) \/ ChangeDevice(t) \/ RemoveDevice(t))
    BY <1>2 DEF AddDevice, ChangeDevice, RemoveDevice, daemonVars
  <2>5. ~ (ReadyReturns \/ IdxReturns \/ StaleReturns)
    BY <1>2 DEF ReadyReturns, IdxReturns, StaleReturns, BlockDone, daemonVars
  <2>6. ~ UNCHANGED vars
    BY <1>2 DEF vars, daemonVars
  <2> QED
    BY <2>1, <2>2, <2>3, <2>4, <2>5, <2>6 DEF Next, Torn
<1> DEFINE wk == [walk EXCEPT ![t] = NoWalk]
<1>4. Ahead(block_index) = {} /\ FlightModeDone(wk) /\ kind = "FlightMode"
  BY <1>2, <1>3
     DEF WalkReturns, BlockDone, FlightModeStep, FlightModeFailed, daemonVars, IInv, Placed
<1> HIDE DEF wk
<1>5. persist'[u] = prev_soft[u]
  BY <1>1, <1>4, DoneRecords DEF Lossless
<1>6. prev_soft[u] = (before[u] = {"soft"})
  BY <1>1 DEF Recorded, Lossless
<1>7. (before[u] = {"soft"}) = ("soft" \in before[u])
  BY <1>1 DEF Lossless, IInv, TypeOK
<1> QED
  BY <1>5, <1>6, <1>7

\* Flight mode off asks every adapter for the soft block that flight mode on had found
\* it with, and saves it in the end, for any types, failed attempts, keys and restarts;
\* but for an adapter that was soft and hard blocked, and if the daemon is not killed
\* inside the dispatch that ends a flight mode.
THEOREM FlightModeRestores ==
    ASSUME ~ TornSaves
    PROVE  Spec => FlightOffRestores
<1>1. Init => Recorded
  BY DEF Init, Recorded
<1>2. IInv /\ FoundStates /\ Recorded /\ [Next]_vars => Recorded'
  BY RecordedStep
<1>3. IInv /\ FoundStates /\ Recorded /\ [Next]_vars
      => [AsksBack /\ PutBack]_vars
  BY RecordedAsksBack, PutBackStep
<1>4. FlightOffRestores <=> [][AsksBack /\ PutBack]_vars
  BY DEF FlightOffRestores
<1> QED
  BY <1>1, <1>2, <1>3, <1>4, IInvAlways, FoundStatesAlways, PTL DEF Spec
=============================================================================
