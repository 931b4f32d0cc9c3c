------------------------ MODULE RoomAuthorityProofs -------------------------
(***************************************************************************)
(* RoomAuthority for every number of processes and transactions, every     *)
(* lease length and every counter limit.  TypeOK alone is not inductive:   *)
(* that a commit's fence stays within its bound needs FenceHolds, and      *)
(* FenceHolds needs to know who may write the document, GrantsAreSound.    *)
(* Hence the inductive invariant IInv; the other theorems follow from it.  *)
(***************************************************************************)
EXTENDS RoomAuthority, TLAPS

IInv == TypeOK /\ AuthorityInv

(* What the snapshot rule does to the open transactions.                   *)
LEMMA OutdatedFacts ==
    ASSUME TypeOK
    PROVE  /\ Outdated \in [Txn -> Work]
           /\ \A t \in Txn : /\ Outdated[t].phase = txn[t].phase
                             /\ Outdated[t].proc = txn[t].proc
                             /\ Outdated[t].epoch = txn[t].epoch
BY DEF Outdated, TypeOK, Work, Counter

(* An acquired epoch is a counter value: never 0, never past the limit,    *)
(* and above the document's epoch unless it renews p's own lease.          *)
LEMMA NextEpochFacts ==
    ASSUME TypeOK, NEW p \in Proc, CanTake(p)
    PROVE  /\ NextEpoch(p) \in Counter
           /\ NextEpoch(p) >= lease.epoch
           /\ NextEpoch(p) = lease.epoch => lease.owner = p
BY CounterAssumption DEF NextEpoch, CanTake, TypeOK, Lease, Counter

(* The initial state satisfies the invariant.                              *)
LEMMA InitIInv == Init => IInv
<1> SUFFICES ASSUME Init PROVE IInv
  OBVIOUS
<1> USE ProcAssumption, TxnAssumption, LeaseAssumption, CounterAssumption
<1>1. 0 \in Counter /\ 0 \in 0..LeaseTicks
  BY DEF Counter
<1>2. TypeOK
  BY <1>1 DEF Init, TypeOK, Lease, Work, Idle, NoWork
<1>3. AuthorityInv
  <2>1. GrantsAreSound
    BY DEF Init, GrantsAreSound, Granted, Idle, NoWork
  <2>2. FenceHolds
    BY DEF Init, FenceHolds, NoWork
  <2> QED
    BY <2>1, <2>2 DEF AuthorityInv
<1> QED
  BY <1>2, <1>3 DEF IInv

(* Each step keeps the types.                                              *)
LEMMA TypeStep ==
    ASSUME TypeOK, FenceHolds, [Next]_vars
    PROVE  TypeOK'
<1> USE LeaseAssumption, CounterAssumption
<1>1. CASE Tick
  BY <1>1 DEF TypeOK, Tick, Live, Lease
<1>2. ASSUME NEW p \in Proc, ProcStep(p) PROVE TypeOK'
  <2>0. 0 \in Counter /\ Idle \in [phase : {"idle", "sent", "answered"}, epoch : Counter]
    BY DEF TypeOK, Counter, Idle
  <2>1. CASE Start(p)
    BY <2>1 DEF TypeOK, Start
  <2>2. CASE Crash(p)
    BY <2>0, <2>2 DEF TypeOK, Crash
  <2>3. CASE AcquireSend(p)
    BY <2>0, <2>3 DEF TypeOK, AcquireSend
  <2>4. CASE AcquireApply(p) /\ CanTake(p)
    <3>1. NextEpoch(p) \in Counter
      BY <2>4, NextEpochFacts
    <3>2. lease' \in Lease
      <4>1. LeaseTicks \in 0..LeaseTicks /\ p \in Proc \cup {NoProc}
        BY <1>2
      <4>2. lease' = [owner |-> p, epoch |-> NextEpoch(p), left |-> LeaseTicks, fence |-> lease.fence]
        BY <2>4 DEF TypeOK, AcquireApply, Lease
      <4> QED
        BY <3>1, <4>1, <4>2 DEF TypeOK, Lease
    <3>3. call' \in [Proc -> [phase : {"idle", "sent", "answered"}, epoch : Counter]]
      BY <2>4, <3>1 DEF TypeOK, AcquireApply
    <3>4. txn' \in [Txn -> Work]
      BY <2>4, OutdatedFacts DEF TypeOK, AcquireApply
    <3>5. \A u \in Txn : txn'[u].phase # "none" => txn'[u].proc \in Proc
      BY <2>4, OutdatedFacts DEF TypeOK, AcquireApply
    <3> QED
      BY <2>4, <3>2, <3>3, <3>4, <3>5 DEF TypeOK, AcquireApply
  <2>5. CASE AcquireApply(p) /\ ~CanTake(p)
    BY <2>0, <2>5 DEF TypeOK, AcquireApply
  <2>6. CASE AcquireReturn(p)
    BY <2>0, <2>6 DEF TypeOK, AcquireReturn
  <2>7. CASE AcquireFail(p)
    BY <2>0, <2>7 DEF TypeOK, AcquireFail
  <2>8. CASE Release(p)
    BY <2>0, <2>8 DEF TypeOK, Release
  <2>9. CASE ReleaseApply(p)
    <3>1. lease' \in Lease
      BY <2>9 DEF TypeOK, ReleaseApply, Lease
    <3>2. txn' \in [Txn -> Work]
      BY <2>9, OutdatedFacts DEF TypeOK, ReleaseApply
    <3>3. \A u \in Txn : txn'[u].phase # "none" => txn'[u].proc \in Proc
      BY <2>9, OutdatedFacts DEF TypeOK, ReleaseApply
    <3> QED
      BY <2>0, <2>9, <3>1, <3>2, <3>3 DEF TypeOK, ReleaseApply
  <2> QED
    BY <1>2, <2>1, <2>2, <2>3, <2>4, <2>5, <2>6, <2>7, <2>8, <2>9 DEF ProcStep
<1>3. ASSUME NEW t \in Txn, TxnStep(t) PROVE TypeOK'
  <2>0. NoWork \in Work
    BY DEF TypeOK, NoWork, Work, Counter
  <2>1. ASSUME NEW p \in Proc, Begin(t, p) PROVE TypeOK'
    <3>1. 0 \in Counter
      BY DEF TypeOK, Counter
    <3>2. txn' \in [Txn -> Work]
      BY <2>1, <3>1 DEF TypeOK, Begin, Work
    <3>3. \A u \in Txn : txn'[u].phase # "none" => txn'[u].proc \in Proc
      BY <2>1 DEF TypeOK, Begin
    <3> QED
      BY <2>1, <3>2, <3>3 DEF TypeOK, Begin
  <2>2. CASE Capture(t)
    <3>1. held[txn[t].proc] \in Counter
      BY <2>2 DEF TypeOK, Capture, Work, Counter
    <3> DEFINE w == [txn[t] EXCEPT !.phase = "asserting", !.epoch = held[txn[t].proc]]
    <3>2. txn' = [txn EXCEPT ![t] = w] /\ w \in Work /\ w.proc = txn[t].proc
      <4>1. txn[t] \in Work
        BY DEF TypeOK
      <4>2. w \in Work /\ w.proc = txn[t].proc
        BY <3>1, <4>1 DEF Work
      <4>3. txn' = [txn EXCEPT ![t] = w]
        BY <2>2 DEF TypeOK, Capture
      <4> QED
        BY <4>2, <4>3
    <3> HIDE DEF w
    <3>3. txn' \in [Txn -> Work]
      BY <3>1, <3>2 DEF TypeOK, Work
    <3>4. \A u \in Txn : txn'[u].phase # "none" => txn'[u].proc \in Proc
      BY <2>2, <3>2 DEF TypeOK, Capture
    <3> QED
      BY <2>2, <3>3, <3>4 DEF TypeOK, Capture
  <2>3. CASE AssertAuthority(t)
    BY <2>3 DEF TypeOK, AssertAuthority, Work
  <2>4. CASE Commit(t)
    <3>1. lease.fence < MaxCounter
      BY <2>4 DEF TypeOK, Commit, FenceHolds
    <3>2. lease' \in Lease
      BY <2>4, <3>1 DEF TypeOK, Commit, Lease, Counter
    <3>3. txn' \in [Txn -> Work]
      BY <2>0, <2>4, OutdatedFacts DEF TypeOK, Commit
    <3>4. \A u \in Txn : txn'[u].phase # "none" => txn'[u].proc \in Proc
      BY <2>4, OutdatedFacts DEF TypeOK, Commit, NoWork
    <3>5. last' \in [epoch : Counter, proc : Proc \cup {NoProc}]
      BY <2>4 DEF TypeOK, Commit, Work
    <3> QED
      BY <2>4, <3>2, <3>3, <3>4, <3>5 DEF TypeOK, Commit
  <2>5. CASE Abort(t)
    <3>1. lock' \in Txn \cup {NoTxn}
      BY <2>5 DEF TypeOK, Abort
    <3>2. \A u \in Txn : txn'[u].phase # "none" => txn'[u].proc \in Proc
      BY <2>5 DEF TypeOK, Abort, NoWork
    <3> QED
      BY <2>0, <2>5, <3>1, <3>2 DEF TypeOK, Abort
  <2> QED
    BY <1>3, <2>1, <2>2, <2>3, <2>4, <2>5 DEF TxnStep
<1>4. CASE UNCHANGED vars
  BY <1>4 DEF TypeOK, vars
<1> QED
  BY <1>1, <1>2, <1>3, <1>4 DEF Next

(* The document only moves towards new grants: no step takes an epoch back *)
(* or hands the current one to another process.                            *)
LeaseForward == /\ lease'.epoch >= lease.epoch
                /\ lease'.epoch = lease.epoch => lease'.owner = lease.owner

LEMMA LeaseMovesForward ==
    ASSUME TypeOK, [Next]_vars
    PROVE  LeaseForward
<1> USE DEF LeaseForward
<1>0. lease.epoch \in Nat /\ lease \in Lease
  BY CounterAssumption DEF TypeOK, Lease, Counter
<1>1. CASE UNCHANGED lease
  BY <1>0, <1>1
<1>2. CASE Tick
  BY <1>0, <1>2 DEF Tick, Lease
<1>3. ASSUME NEW p \in Proc, AcquireApply(p) PROVE LeaseForward
  <2>1. CASE CanTake(p)
    <3>1. lease'.epoch = NextEpoch(p) /\ lease'.owner = p
      BY <1>0, <1>3, <2>1 DEF AcquireApply, Lease
    <3> QED
      BY <2>1, <3>1, NextEpochFacts
  <2>2. CASE ~CanTake(p)
    BY <1>0, <1>3, <2>2 DEF AcquireApply
  <2> QED
    BY <2>1, <2>2
<1>4. ASSUME NEW p \in Proc, ReleaseApply(p) PROVE LeaseForward
  BY <1>0, <1>4 DEF ReleaseApply, Lease
<1>5. ASSUME NEW t \in Txn, Commit(t) PROVE LeaseForward
  BY <1>0, <1>5 DEF Commit, Lease
<1> QED
  BY <1>1, <1>2, <1>3, <1>4, <1>5
     DEF Next, ProcStep, TxnStep, Start, Crash, AcquireSend, AcquireReturn, AcquireFail, Release,
         Begin, Capture, AssertAuthority, Abort, vars

(* Granted(p, e), of the next state's document.                            *)
GrantedNext(p, e) == e # 0 => /\ e <= lease'.epoch
                              /\ e = lease'.epoch => lease'.owner = p

(* So what was granted stays granted.                                      *)
LEMMA GrantedStable ==
    ASSUME TypeOK, TypeOK', LeaseForward, NEW p, NEW e \in Counter, Granted(p, e)
    PROVE  GrantedNext(p, e)
BY CounterAssumption DEF Granted, GrantedNext, LeaseForward, TypeOK, Lease, Counter

(* Where the epochs of the next state come from.                           *)
LEMMA EpochSources ==
    ASSUME TypeOK, [Next]_vars
    PROVE  /\ \A p \in Proc : held'[p] \in {held[p], 0, call[p].epoch}
           /\ \A p \in Proc : freeing'[p] \in {freeing[p], 0, held[p]}
           /\ \A p \in Proc : \/ call'[p].epoch \in {call[p].epoch, 0}
                               \/ /\ call'[p].epoch = lease'.epoch
                                  /\ lease'.owner = p
           /\ \A t \in Txn : \/ txn'[t].epoch = 0
                              \/ /\ txn'[t].proc = txn[t].proc
                                 /\ txn'[t].epoch = txn[t].epoch
                              \/ /\ txn'[t].proc = txn[t].proc
                                 /\ txn[t].proc \in Proc
                                 /\ txn'[t].epoch = held[txn[t].proc]
           /\ \/ last' = last
              \/ \E t \in Txn : last'.proc = txn[t].proc /\ last'.epoch = txn[t].epoch
<1> DEFINE HeldSource == \A p \in Proc : held'[p] \in {held[p], 0, call[p].epoch}
           FreeingSource == \A p \in Proc : freeing'[p] \in {freeing[p], 0, held[p]}
           CallSource == \A p \in Proc : \/ call'[p].epoch \in {call[p].epoch, 0}
                                         \/ /\ call'[p].epoch = lease'.epoch
                                            /\ lease'.owner = p
           TxnSource == \A t \in Txn : \/ txn'[t].epoch = 0
                                       \/ /\ txn'[t].proc = txn[t].proc
                                          /\ txn'[t].epoch = txn[t].epoch
                                       \/ /\ txn'[t].proc = txn[t].proc
                                          /\ txn[t].proc \in Proc
                                          /\ txn'[t].epoch = held[txn[t].proc]
           LastSource == \/ last' = last
                         \/ \E t \in Txn : last'.proc = txn[t].proc /\ last'.epoch = txn[t].epoch
<1>1. HeldSource
  <2>1. CASE UNCHANGED held
    BY <2>1
  <2>2. ASSUME NEW q \in Proc, held' = [held EXCEPT ![q] = 0] PROVE HeldSource
    BY <2>2 DEF TypeOK
  <2>3. ASSUME NEW q \in Proc, AcquireReturn(q) PROVE HeldSource
    BY <2>3 DEF AcquireReturn, TypeOK
  <2> HIDE DEF HeldSource
  <2> QED
    BY <2>1, <2>2, <2>3
       DEF Next, ProcStep, TxnStep, vars, Tick, Start, Crash, AcquireSend, AcquireApply, AcquireFail,
           Release, ReleaseApply, Begin, Capture, AssertAuthority, Commit, Abort
<1>2. FreeingSource
  <2>1. CASE UNCHANGED freeing
    BY <2>1
  <2>2. ASSUME NEW q \in Proc, freeing' = [freeing EXCEPT ![q] = 0] PROVE FreeingSource
    BY <2>2 DEF TypeOK
  <2>3. ASSUME NEW q \in Proc, Release(q) PROVE FreeingSource
    BY <2>3 DEF Release, TypeOK
  <2> HIDE DEF FreeingSource
  <2> QED
    BY <2>1, <2>2, <2>3
       DEF Next, ProcStep, TxnStep, vars, Tick, Start, Crash, AcquireSend, AcquireApply, AcquireReturn,
           AcquireFail, ReleaseApply, Begin, Capture, AssertAuthority, Commit, Abort
<1>3. CallSource
  <2>1. CASE UNCHANGED call
    BY <2>1
  <2>2. ASSUME NEW q \in Proc, call' = [call EXCEPT ![q] = Idle] \/ AcquireSend(q) PROVE CallSource
    BY <2>2 DEF AcquireSend, Idle, TypeOK
  <2>3. ASSUME NEW q \in Proc, AcquireApply(q) PROVE CallSource
    <3>1. CASE CanTake(q)
      <4>1. lease'.epoch = NextEpoch(q) /\ lease'.owner = q
        BY <2>3, <3>1 DEF AcquireApply, TypeOK, Lease
      <4>2. call' = [call EXCEPT ![q] = [phase |-> "answered", epoch |-> NextEpoch(q)]]
        BY <2>3, <3>1 DEF AcquireApply
      <4> QED
        BY <4>1, <4>2 DEF TypeOK
    <3>2. CASE ~CanTake(q)
      BY <2>3, <3>2 DEF AcquireApply, TypeOK
    <3> QED
      BY <3>1, <3>2
  <2> HIDE DEF CallSource
  <2> QED
    BY <2>1, <2>2, <2>3
       DEF Next, ProcStep, TxnStep, vars, Tick, Start, Crash, AcquireReturn, AcquireFail, Release,
           ReleaseApply, Begin, Capture, AssertAuthority, Commit, Abort
<1>4. TxnSource
  <2>1. CASE UNCHANGED txn
    BY <2>1
  <2>2. CASE txn' = Outdated
    BY <2>2, OutdatedFacts
  <2>3. ASSUME NEW u \in Txn, NEW p \in Proc, Begin(u, p) PROVE TxnSource
    BY <2>3 DEF Begin, TypeOK
  <2>4. ASSUME NEW u \in Txn, Capture(u) PROVE TxnSource
    BY <2>4 DEF Capture, TypeOK, Work
  <2>5. ASSUME NEW u \in Txn, AssertAuthority(u) PROVE TxnSource
    BY <2>5 DEF AssertAuthority, TypeOK, Work
  <2>6. ASSUME NEW u \in Txn, Commit(u) PROVE TxnSource
    BY <2>6, OutdatedFacts DEF Commit, NoWork
  <2>7. ASSUME NEW u \in Txn, Abort(u) PROVE TxnSource
    BY <2>7 DEF Abort, NoWork, TypeOK
  <2> HIDE DEF TxnSource
  <2> QED
    BY <2>1, <2>2, <2>3, <2>4, <2>5, <2>6, <2>7
       DEF Next, ProcStep, TxnStep, vars, Tick, Start, Crash, AcquireSend, AcquireApply, AcquireReturn,
           AcquireFail, Release, ReleaseApply
<1>5. LastSource
  <2>1. CASE UNCHANGED last
    BY <2>1
  <2>2. ASSUME NEW u \in Txn, Commit(u) PROVE LastSource
    BY <2>2 DEF Commit
  <2> HIDE DEF LastSource
  <2> QED
    BY <2>1, <2>2
       DEF Next, ProcStep, TxnStep, vars, Tick, Start, Crash, AcquireSend, AcquireApply, AcquireReturn,
           AcquireFail, Release, ReleaseApply, Begin, Capture, AssertAuthority, Abort
<1> QED
  BY <1>1, <1>2, <1>3, <1>4, <1>5

(* Each step keeps grants sound: an epoch is only copied from the document *)
(* by the acquire that wrote it, or from a place where it was sound.       *)
LEMMA GrantsStep ==
    ASSUME TypeOK, GrantsAreSound, FenceHolds, [Next]_vars
    PROVE  GrantsAreSound'
<1>0. TypeOK' /\ LeaseForward
  BY TypeStep, LeaseMovesForward
<1>00. lease'.epoch \in Nat
  BY <1>0, CounterAssumption DEF TypeOK, Lease, Counter
<1> DEFINE G(p, e) == GrantedNext(p, e)
<1>1. ASSUME NEW p \in Proc
      PROVE  G(p, held[p]) /\ G(p, call[p].epoch) /\ G(p, freeing[p]) /\ G(p, 0)
  <2>1. held[p] \in Counter /\ call[p].epoch \in Counter /\ freeing[p] \in Counter
    BY DEF TypeOK
  <2>2. Granted(p, held[p]) /\ Granted(p, call[p].epoch) /\ Granted(p, freeing[p])
    BY DEF GrantsAreSound
  <2> QED
    BY <1>0, <2>1, <2>2, GrantedStable DEF GrantedNext
<1>2. ASSUME NEW t \in Txn PROVE G(txn[t].proc, txn[t].epoch) /\ G(txn'[t].proc, 0)
  <2>1. txn[t].epoch \in Counter /\ Granted(txn[t].proc, txn[t].epoch)
    BY DEF TypeOK, Work, GrantsAreSound
  <2> QED
    BY <1>0, <2>1, GrantedStable DEF GrantedNext
<1>3. G(last.proc, last.epoch)
  <2>1. last.epoch \in Counter /\ Granted(last.proc, last.epoch)
    BY DEF TypeOK, GrantsAreSound
  <2> QED
    BY <1>0, <2>1, GrantedStable
<1>4. ASSUME NEW p \in Proc PROVE G(p, lease'.epoch) \/ lease'.owner # p
  BY <1>00 DEF GrantedNext
<1> HIDE DEF G
<1>5. ASSUME NEW p \in Proc PROVE G(p, held'[p]) /\ G(p, call'[p].epoch) /\ G(p, freeing'[p])
  BY <1>1, <1>4, EpochSources
<1>6. ASSUME NEW t \in Txn PROVE G(txn'[t].proc, txn'[t].epoch)
  BY <1>1, <1>2, EpochSources
<1>7. G(last'.proc, last'.epoch)
  BY <1>2, <1>3, EpochSources
<1> QED
  BY <1>5, <1>6, <1>7 DEF G, GrantsAreSound, Granted, GrantedNext

(* Each step keeps the fence: while a transaction holds the document,      *)
(* acquire and release wait, so owner and epoch stay what it checked.      *)
LEMMA FenceStep ==
    ASSUME TypeOK, GrantsAreSound, FenceHolds, [Next]_vars
    PROVE  FenceHolds'
<1> USE TxnAssumption
<1>0. \A t \in Txn : Outdated[t].phase = txn[t].phase /\ Outdated[t].proc = txn[t].proc
                     /\ Outdated[t].epoch = txn[t].epoch
  BY OutdatedFacts
<1>1. CASE Tick
  BY <1>1 DEF Tick, FenceHolds, TypeOK, Lease
<1>2. ASSUME NEW p \in Proc, ProcStep(p) PROVE FenceHolds'
  <2>1. CASE UNCHANGED <<lease, lock, txn>>
    BY <2>1 DEF FenceHolds
  <2>2. CASE AcquireApply(p)
    BY <1>0, <2>2 DEF AcquireApply, FenceHolds
  <2>3. CASE ReleaseApply(p)
    BY <1>0, <2>3 DEF ReleaseApply, FenceHolds
  <2> QED
    BY <1>2, <2>1, <2>2, <2>3
       DEF ProcStep, Start, Crash, AcquireSend, AcquireReturn, AcquireFail, Release
<1>3. ASSUME NEW t \in Txn, TxnStep(t) PROVE FenceHolds'
  <2>1. ASSUME NEW p \in Proc, Begin(t, p) PROVE FenceHolds'
    BY <2>1 DEF Begin, FenceHolds, TypeOK
  <2>2. CASE Capture(t)
    BY <2>2 DEF Capture, FenceHolds, TypeOK, Work
  <2>3. CASE AssertAuthority(t)
    <3>1. /\ txn[t].proc \in Proc
          /\ lease.owner = txn[t].proc
          /\ lease.epoch = txn[t].epoch
          /\ txn[t].epoch # 0
          /\ lease.fence < MaxCounter
      BY <2>3 DEF AssertAuthority, Matches, FenceHolds, TypeOK
    <3>2. /\ txn'[t].phase = "fenced"
          /\ txn'[t].proc = txn[t].proc
          /\ txn'[t].epoch = txn[t].epoch
          /\ \A u \in Txn \ {t} : txn'[u] = txn[u]
      BY <2>3 DEF AssertAuthority, TypeOK, Work
    <3>3. lock = NoTxn /\ lock' = t /\ lease' = lease
      BY <2>3 DEF AssertAuthority
    <3> QED
      BY <3>1, <3>2, <3>3 DEF FenceHolds
  <2>4. CASE Commit(t)
    <3>1. lock = t /\ lock' = NoTxn
      BY <2>4 DEF Commit, FenceHolds
    <3>2. txn'[t] = NoWork /\ \A u \in Txn \ {t} : txn'[u] = Outdated[u]
      BY <2>4 DEF Commit, Outdated
    <3>3. \A u \in Txn : /\ txn'[u].phase # "fenced"
                         /\ txn'[u].phase = "asserting" => txn'[u].epoch # 0
      BY <1>0, <3>1, <3>2 DEF FenceHolds, NoWork
    <3> QED
      BY <3>1, <3>3 DEF FenceHolds
  <2>5. CASE Abort(t)
    BY <2>5 DEF Abort, NoWork, FenceHolds, TypeOK
  <2> QED
    BY <1>3, <2>1, <2>2, <2>3, <2>4, <2>5 DEF TxnStep
<1>4. CASE UNCHANGED vars
  BY <1>4 DEF vars, FenceHolds
<1> QED
  BY <1>1, <1>2, <1>3, <1>4 DEF Next

-----------------------------------------------------------------------------
(* The invariant holds in every reachable state.                           *)
THEOREM Inductive == Spec => []IInv
<1>1. IInv /\ [Next]_vars => IInv'
  BY TypeStep, GrantsStep, FenceStep DEF IInv, AuthorityInv
<1> QED
  BY InitIInv, <1>1, PTL DEF Spec

(* The lease document, the processes' memory and the transactions keep     *)
(* their types; in particular no counter passes the limit that every       *)
(* filter of roomAuthority.ts tests (boundedCounter).                      *)
THEOREM TypeCorrect == Spec => []TypeOK
BY Inductive, PTL DEF IInv

(* Epochs known to processes and captured by transactions are granted      *)
(* ones, and an asserted transaction keeps its authority until it ends.    *)
THEOREM GrantsCorrect == Spec => []AuthorityInv
BY Inductive, PTL DEF IInv

(* No two processes ever know the same epoch as their own (acquire's epoch *)
(* arithmetic).  A grant is either new, hence known to nobody, or renews   *)
(* the owner's.                                                            *)
THEOREM EpochsAreNotShared == Spec => []NoSharedEpoch
<1>1. Init => NoSharedEpoch
  BY DEF Init, NoSharedEpoch, OwnEpochs, Idle
<1>2. IInv /\ IInv' /\ NoSharedEpoch /\ [Next]_vars => NoSharedEpoch'
  <2> SUFFICES ASSUME IInv, IInv', NoSharedEpoch, [Next]_vars,
                      NEW p \in Proc, NEW q \in Proc, p # q,
                      NEW e \in OwnEpochs(p)', e \in OwnEpochs(q)'
               PROVE  FALSE
    BY DEF NoSharedEpoch
  <2>1. ASSUME NEW r \in Proc, e \in OwnEpochs(r)'
        PROVE  e \in OwnEpochs(r) \/ (e = lease'.epoch /\ lease'.owner = r)
    BY <2>1, EpochSources DEF OwnEpochs, IInv
  <2>2. ASSUME NEW r \in Proc, e \in OwnEpochs(r)', e = lease'.epoch PROVE lease'.owner = r
    BY <2>2 DEF OwnEpochs, IInv, AuthorityInv, GrantsAreSound, Granted
  <2>3. e \in OwnEpochs(p) /\ e \in OwnEpochs(q)
    BY <2>1, <2>2
  <2> QED
    BY <2>3 DEF NoSharedEpoch
<1> QED
  BY Inductive, <1>1, <1>2, PTL DEF Spec

(* Committed room transactions implement the abstract fenced writer: the   *)
(* epochs of the commits never go back and each epoch has one process,     *)
(* although a retired process may not know that it is retired.             *)
THEOREM ImplementsFencedWriter == Spec => CommitsAreFenced
<1>1. Init => Fenced!Init
  BY DEF Init, Fenced!Init
<1>2. IInv /\ [Next]_vars => [Fenced!Next]_<<last.epoch, last.proc>>
  <2> SUFFICES ASSUME IInv, [Next]_vars
               PROVE  Fenced!Next \/ UNCHANGED <<last.epoch, last.proc>>
    OBVIOUS
  <2>1. CASE last' = last
    BY <2>1
  <2>2. ASSUME NEW t \in Txn, Commit(t) PROVE Fenced!Next
    <3>1. last'.epoch = txn[t].epoch /\ last'.proc = txn[t].proc
      BY <2>2 DEF Commit
    <3>2. /\ txn[t].epoch = lease.epoch
          /\ txn[t].proc = lease.owner
          /\ txn[t].proc \in Proc
          /\ txn[t].epoch \in Counter
          /\ txn[t].epoch # 0
      BY <2>2 DEF Commit, IInv, AuthorityInv, FenceHolds, TypeOK, Work
    <3>3. last.epoch \in Counter /\ Granted(last.proc, last.epoch)
      BY DEF IInv, AuthorityInv, GrantsAreSound, TypeOK
    <3>4. \/ txn[t].epoch = last.epoch /\ txn[t].proc = last.proc
          \/ txn[t].epoch > last.epoch
      BY <3>2, <3>3, CounterAssumption DEF Granted, Counter
    <3>5. Fenced!Commit(txn[t].proc, txn[t].epoch)
      BY <3>1, <3>4 DEF Fenced!Commit
    <3> QED
      BY <3>2, <3>5 DEF Fenced!Next
  <2> QED
    BY <2>1, <2>2
       DEF Next, ProcStep, TxnStep, vars, Tick, Start, Crash, AcquireSend, AcquireApply, AcquireReturn,
           AcquireFail, Release, ReleaseApply, Begin, Capture, AssertAuthority, Abort
<1> QED
  BY Inductive, <1>1, <1>2, PTL DEF Spec, CommitsAreFenced, Fenced!Spec

(* A lapse of authority always shows as a new epoch, even to the process   *)
(* that held it before, so the rooms it recovers are paused.               *)
THEOREM LapseAlwaysChangesEpoch == Spec => LapseChangesEpoch
<1>1. IInv /\ [Next]_vars => [~Live /\ Live' => lease'.epoch > lease.epoch]_vars
  <2> SUFFICES ASSUME IInv, Next, ~Live, Live' PROVE lease'.epoch > lease.epoch
    OBVIOUS
  <2>0. lease \in Lease /\ lease.epoch \in Nat /\ lease.left \in Nat
    BY LeaseAssumption, CounterAssumption DEF IInv, TypeOK, Lease, Counter
  <2>1. CASE lease'.left = lease.left
    BY <2>1 DEF Live
  <2>2. ASSUME NEW p \in Proc, AcquireApply(p) PROVE lease'.epoch > lease.epoch
    <3>1. CanTake(p)
      BY <2>2 DEF AcquireApply, Live
    <3>2. lease'.epoch = lease.epoch + 1
      BY <2>0, <2>2, <3>1 DEF AcquireApply, NextEpoch, Lease
    <3> QED
      BY <2>0, <3>2
  <2>3. ASSUME NEW p \in Proc, ReleaseApply(p) PROVE FALSE
    BY <2>0, <2>3 DEF ReleaseApply, Live, Lease
  <2>4. ASSUME NEW t \in Txn, Commit(t) PROVE FALSE
    BY <2>0, <2>4 DEF Commit, Live, Lease
  <2> QED
    BY <2>1, <2>2, <2>3, <2>4
       DEF Next, ProcStep, TxnStep, Tick, Start, Crash, AcquireSend, AcquireReturn, AcquireFail,
           Release, Begin, Capture, AssertAuthority, Abort
<1> QED
  BY Inductive, <1>1, PTL DEF Spec, LapseChangesEpoch

(* A live lease with time left ends only by the release of the very grant  *)
(* it came from (the owner and epoch in release()'s filter): a slow        *)
(* release of a retired process cannot cut its successor's lease short.    *)
THEOREM ReleaseFreesOwnGrantOnly == Spec => ReleaseEndsOwnGrant
<1> DEFINE OwnGrant == lease.owner \in Proc /\ freeing[lease.owner] = lease.epoch
<1>1. IInv /\ [Next]_vars => [lease.left > 1 /\ ~Live' => OwnGrant]_vars
  <2> SUFFICES ASSUME IInv, Next, lease.left > 1, ~Live' PROVE OwnGrant
    OBVIOUS
  <2>0. lease \in Lease /\ lease.left \in Nat
    BY LeaseAssumption DEF IInv, TypeOK, Lease
  <2>1. CASE lease'.left = lease.left
    BY <2>0, <2>1 DEF Live
  <2>2. CASE Tick
    BY <2>0, <2>2 DEF Tick, Live, Lease
  <2>3. ASSUME NEW p \in Proc, AcquireApply(p) PROVE OwnGrant
    <3>1. CASE CanTake(p)
      <4>1. lease'.left = LeaseTicks
        BY <2>0, <2>3, <3>1 DEF AcquireApply, Lease
      <4> QED
        BY <4>1, LeaseAssumption DEF Live
    <3>2. CASE ~CanTake(p)
      <4>1. lease' = lease
        BY <2>3, <3>2 DEF AcquireApply
      <4> QED
        BY <2>1, <4>1
    <3> QED
      BY <3>1, <3>2
  <2>4. ASSUME NEW p \in Proc, ReleaseApply(p) PROVE OwnGrant
    <3>1. CASE MayFree(p)
      BY <2>4, <3>1 DEF MayFree
    <3>2. CASE ~MayFree(p)
      BY <2>1, <2>4, <3>2 DEF ReleaseApply
    <3> QED
      BY <3>1, <3>2
  <2>5. ASSUME NEW t \in Txn, Commit(t) PROVE OwnGrant
    BY <2>0, <2>1, <2>5 DEF Commit, Lease
  <2> QED
    BY <2>1, <2>2, <2>3, <2>4, <2>5
       DEF Next, ProcStep, TxnStep, Start, Crash, AcquireSend, AcquireReturn, AcquireFail,
           Release, Begin, Capture, AssertAuthority, Abort
<1> QED
  BY Inductive, <1>1, PTL DEF Spec, ReleaseEndsOwnGrant
=============================================================================
