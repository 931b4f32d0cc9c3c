--------------------------- MODULE RoomAuthority ----------------------------
(***************************************************************************)
(* The deployment-wide room lease of src/src/realtime/roomAuthority.ts and *)
(* its use by the gateway's timer (roomGateway.ts) and by every room       *)
(* transaction (roomService.ts).                                           *)
(*                                                                         *)
(* One document, socialAuthority/rooms-v1, holds owner, epoch, expiry and  *)
(* a fence counter.  Processes acquire it outside transactions; a room     *)
(* transaction writes its fence.  What MongoDB does for them is modelled   *)
(* by two facts: a document written by an open transaction is locked until *)
(* that transaction ends (`lock`), and a transaction that would write a    *)
(* document changed since its snapshot aborts (`stale`).                   *)
(*                                                                         *)
(* Time is the time the lease has left, counted down by Tick.              *)
(***************************************************************************)
EXTENDS Naturals

CONSTANTS
    Proc,         \* process incarnations: every start draws a new owner UUID
    NoProc,       \* the owner '' of the provisioned document
    Txn,          \* room transactions that may be open at once
    NoTxn,        \* "no transaction has written the lease document"
    LeaseTicks,   \* the 10 second lease, in ticks
    MaxCounter    \* Number.MAX_SAFE_INTEGER, the refused value of epoch and fence

ASSUME ProcAssumption == NoProc \notin Proc
ASSUME TxnAssumption == NoTxn \notin Txn
ASSUME LeaseAssumption == LeaseTicks \in Nat \ {0}
ASSUME CounterAssumption == MaxCounter \in Nat \ {0}

VARIABLES
    lease,   \* the document; `left` = 0 when it has expired or was released
    lock,    \* the transaction whose uncommitted write holds the document
    mode,    \* life cycle of each process
    held,    \* the module variable `epoch`: 0 for null
    call,    \* the acquire in progress, if any
    freeing, \* the epoch a release will free (0: no release in progress)
    txn,     \* open room transactions
    last     \* history: epoch and process of the latest committed room write

vars == <<lease, lock, mode, held, call, freeing, txn, last>>

Idle == [phase |-> "idle", epoch |-> 0]
NoWork == [phase |-> "none", proc |-> NoProc, epoch |-> 0, stale |-> FALSE]

(* The counters stop at MaxCounter: no update matches a document that has  *)
(* reached it.                                                             *)
Counter == 0..MaxCounter

Lease == [owner : Proc \cup {NoProc}, epoch : Counter, left : 0..LeaseTicks, fence : Counter]
Work == [phase : {"none", "open", "asserting", "fenced"}, proc : Proc \cup {NoProc},
         epoch : Counter, stale : BOOLEAN]

TypeOK ==
    /\ lease \in Lease
    /\ lock \in Txn \cup {NoTxn}
    /\ mode \in [Proc -> {"new", "up", "stopping", "down"}]
    /\ held \in [Proc -> Counter]
    /\ call \in [Proc -> [phase : {"idle", "sent", "answered"}, epoch : Counter]]
    /\ freeing \in [Proc -> Counter]
    /\ txn \in [Txn -> Work]
    /\ \A t \in Txn : txn[t].phase # "none" => txn[t].proc \in Proc
    /\ last \in [epoch : Counter, proc : Proc \cup {NoProc}]

Init ==
    /\ lease = [owner |-> NoProc, epoch |-> 0, left |-> 0, fence |-> 0]
    /\ lock = NoTxn
    /\ mode = [p \in Proc |-> "new"]
    /\ held = [p \in Proc |-> 0]
    /\ call = [p \in Proc |-> Idle]
    /\ freeing = [p \in Proc |-> 0]
    /\ txn = [t \in Txn |-> NoWork]
    /\ last = [epoch |-> 0, proc |-> NoProc]

Live == lease.left > 0

(* Every open snapshot predates a write of the lease document.             *)
Outdated == [t \in Txn |-> [txn[t] EXCEPT !.stale = txn[t].phase # "none"]]

-----------------------------------------------------------------------------
(* Processes                                                               *)

Start(p) ==
    /\ mode[p] = "new"
    /\ mode' = [mode EXCEPT ![p] = "up"]
    /\ UNCHANGED <<lease, lock, held, call, freeing, txn, last>>

(* The process is gone; the server aborts what it left open (Abort).       *)
Crash(p) ==
    /\ mode[p] \in {"up", "stopping"}
    /\ mode' = [mode EXCEPT ![p] = "down"]
    /\ held' = [held EXCEPT ![p] = 0]
    /\ call' = [call EXCEPT ![p] = Idle]
    /\ freeing' = [freeing EXCEPT ![p] = 0]
    /\ UNCHANGED <<lease, lock, txn, last>>

(* Expiry is decided by the database's clock alone.                        *)
Tick ==
    /\ Live
    /\ lease' = [lease EXCEPT !.left = @ - 1]
    /\ UNCHANGED <<lock, mode, held, call, freeing, txn, last>>

-----------------------------------------------------------------------------
(* acquire(): one at a time per process (the gateway's `ticking` guard)    *)

AcquireSend(p) ==
    /\ mode[p] = "up"
    /\ call[p] = Idle
    /\ call' = [call EXCEPT ![p] = [phase |-> "sent", epoch |-> 0]]
    /\ UNCHANGED <<lease, lock, mode, held, freeing, txn, last>>

(* Mutants of CanTake: no bound on the counters; no takeover of an expired *)
(* lease.                                                                  *)
CanTakeUnbounded(p) == lease.owner = p \/ ~Live
CanTakeOnlyOwn(p) == /\ lease.epoch < MaxCounter
                     /\ lease.fence < MaxCounter
                     /\ lease.owner \in {p, NoProc}

(* The filter of findOneAndUpdate.                                         *)
CanTake(p) ==
    /\ lease.epoch < MaxCounter
    /\ lease.fence < MaxCounter
    /\ lease.owner = p \/ ~Live

(* Mutants of NextEpoch: the epoch follows the owner whether or not its    *)
(* lease lapsed; a takeover keeps the epoch.                               *)
EpochOfOwner(p) == IF lease.owner = p THEN lease.epoch ELSE lease.epoch + 1
EpochOfLease(p) == IF lease.epoch > 0 THEN lease.epoch ELSE 1

(* A renewal keeps the epoch; a lapse or a new owner starts another.       *)
NextEpoch(p) == IF lease.owner = p /\ Live THEN lease.epoch ELSE lease.epoch + 1

AcquireApply(p) ==
    /\ call[p].phase = "sent"
    /\ lock = NoTxn
    /\ IF CanTake(p)
       THEN /\ lease' = [lease EXCEPT !.owner = p, !.epoch = NextEpoch(p), !.left = LeaseTicks]
            /\ call' = [call EXCEPT ![p] = [phase |-> "answered", epoch |-> NextEpoch(p)]]
            /\ txn' = Outdated
       ELSE /\ call' = [call EXCEPT ![p] = [phase |-> "answered", epoch |-> 0]]
            /\ UNCHANGED <<lease, txn>>
    /\ UNCHANGED <<lock, mode, held, freeing, last>>

AcquireReturn(p) ==
    /\ call[p].phase = "answered"
    /\ held' = [held EXCEPT ![p] = call[p].epoch]
    /\ call' = [call EXCEPT ![p] = Idle]
    /\ UNCHANGED <<lease, lock, mode, freeing, txn, last>>

(* The request or its answer is lost: the process forgets its epoch even   *)
(* though the database may have granted it.                                *)
AcquireFail(p) ==
    /\ call[p] # Idle
    /\ held' = [held EXCEPT ![p] = 0]
    /\ call' = [call EXCEPT ![p] = Idle]
    /\ UNCHANGED <<lease, lock, mode, freeing, txn, last>>

-----------------------------------------------------------------------------
(* release(): the local epoch is dropped before the database is asked      *)

Release(p) ==
    /\ mode[p] = "up"
    /\ mode' = [mode EXCEPT ![p] = "stopping"]
    /\ freeing' = [freeing EXCEPT ![p] = held[p]]
    /\ held' = [held EXCEPT ![p] = 0]
    /\ UNCHANGED <<lease, lock, call, txn, last>>

(* Mutant: the release filter names the owner only.                        *)
MayFreeByOwner(p) == lease.owner = p

MayFree(p) == lease.owner = p /\ lease.epoch = freeing[p]

ReleaseApply(p) ==
    /\ freeing[p] # 0
    /\ lock = NoTxn
    /\ freeing' = [freeing EXCEPT ![p] = 0]
    /\ IF MayFree(p)
       THEN /\ lease' = [lease EXCEPT !.left = 0]
            /\ txn' = Outdated
       ELSE UNCHANGED <<lease, txn>>
    /\ UNCHANGED <<lock, mode, held, call, last>>

-----------------------------------------------------------------------------
(* A room transaction: snapshot, captureEpoch, the fence write, commit     *)

Begin(t, p) ==
    /\ txn[t].phase = "none"
    /\ mode[p] \in {"up", "stopping"}
    /\ txn' = [txn EXCEPT ![t] = [phase |-> "open", proc |-> p, epoch |-> 0, stale |-> FALSE]]
    /\ UNCHANGED <<lease, lock, mode, held, call, freeing, last>>

Capture(t) ==
    /\ txn[t].phase = "open"
    /\ held[txn[t].proc] # 0
    /\ txn' = [txn EXCEPT ![t].phase = "asserting", ![t].epoch = held[txn[t].proc]]
    /\ UNCHANGED <<lease, lock, mode, held, call, freeing, last>>

(* Mutants of Matches: any epoch of the owner; any live lease.             *)
MatchesAnyEpoch(t) == lease.owner = txn[t].proc /\ Live /\ lease.fence < MaxCounter
MatchesLiveLease(t) == Live /\ lease.fence < MaxCounter

(* liveLease(captured)                                                     *)
Matches(t) ==
    /\ lease.owner = txn[t].proc
    /\ lease.epoch = txn[t].epoch
    /\ Live
    /\ lease.fence < MaxCounter

AssertAuthority(t) ==
    /\ txn[t].phase = "asserting"
    /\ lock = NoTxn
    /\ ~txn[t].stale
    /\ Matches(t)
    /\ lock' = t
    /\ txn' = [txn EXCEPT ![t].phase = "fenced"]
    /\ UNCHANGED <<lease, mode, held, call, freeing, last>>

(* The fence becomes visible to the others with the commit.                *)
Commit(t) ==
    /\ txn[t].phase = "fenced"
    /\ lease' = [lease EXCEPT !.fence = @ + 1]
    /\ lock' = NoTxn
    /\ last' = [epoch |-> txn[t].epoch, proc |-> txn[t].proc]
    /\ txn' = [Outdated EXCEPT ![t] = NoWork]
    /\ UNCHANGED <<mode, held, call, freeing>>

(* A 503, a write conflict, or the server ending a lost client's work.     *)
Abort(t) ==
    /\ txn[t].phase # "none"
    /\ lock' = IF lock = t THEN NoTxn ELSE lock
    /\ txn' = [txn EXCEPT ![t] = NoWork]
    /\ UNCHANGED <<lease, mode, held, call, freeing, last>>

-----------------------------------------------------------------------------
ProcStep(p) == \/ Start(p)
               \/ Crash(p)
               \/ AcquireSend(p)
               \/ AcquireApply(p)
               \/ AcquireReturn(p)
               \/ AcquireFail(p)
               \/ Release(p)
               \/ ReleaseApply(p)

TxnStep(t) == \/ \E p \in Proc : Begin(t, p)
              \/ Capture(t)
              \/ AssertAuthority(t)
              \/ Commit(t)
              \/ Abort(t)

Next == \/ Tick
        \/ \E p \in Proc : ProcStep(p)
        \/ \E t \in Txn : TxnStep(t)

Spec == Init /\ [][Next]_vars

(* The gateway retries acquire on its timer as long as the process runs,   *)
(* time passes, and an open transaction ends one way or the other.         *)
Fairness ==
    /\ WF_vars(Tick)
    /\ \A p \in Proc : /\ WF_vars(AcquireSend(p))
                       /\ SF_vars(AcquireApply(p))
                       /\ SF_vars(AcquireReturn(p))
    /\ \A t \in Txn : WF_vars(Commit(t) \/ Abort(t))

FairSpec == Spec /\ Fairness

-----------------------------------------------------------------------------
(* Properties                                                              *)

(* The epochs a process takes, is about to take or gives up for its own.   *)
OwnEpochs(p) == {held[p], call[p].epoch, freeing[p]} \ {0}

(* Two processes never take the same epoch for their own, not even while   *)
(* one of them has not noticed that its lease lapsed: what makes the epoch *)
(* stamped on rooms (room.epoch) name a single scheduler.                  *)
NoSharedEpoch == \A p, q \in Proc : p # q => OwnEpochs(p) \cap OwnEpochs(q) = {}

(* Whoever knows, is being told or has captured an epoch: the epoch is not *)
(* ahead of the document, and if it is the document's own, the document    *)
(* names that process.                                                     *)
Granted(p, e) == e # 0 => /\ e <= lease.epoch
                          /\ e = lease.epoch => lease.owner = p

GrantsAreSound ==
    /\ \A p \in Proc : Granted(p, held[p]) /\ Granted(p, call[p].epoch) /\ Granted(p, freeing[p])
    /\ \A t \in Txn : Granted(txn[t].proc, txn[t].epoch)
    /\ Granted(last.proc, last.epoch)

(* Between the fence write and the commit nobody else can become the       *)
(* owner, even if the lease lapses meanwhile.                              *)
FenceHolds ==
    \A t \in Txn : /\ txn[t].phase = "fenced" <=> lock = t
                   /\ txn[t].phase \in {"asserting", "fenced"} => txn[t].epoch # 0
                   /\ lock = t => /\ txn[t].epoch = lease.epoch
                                  /\ txn[t].proc = lease.owner
                                  /\ txn[t].proc \in Proc
                                  /\ lease.fence < MaxCounter

(* The inductive invariant of the proofs in RoomAuthorityProofs.tla.       *)
AuthorityInv == GrantsAreSound /\ FenceHolds

(* A gap in authority always shows as a new epoch, also when the same      *)
(* process returns: recovered rooms must pause (room.epoch # epoch).       *)
LapseChangesEpoch == [][~Live /\ Live' => lease'.epoch > lease.epoch]_vars

(* A lease ends early only by the release of the very grant it came from;  *)
(* a slow release of a retired process cannot cut its successor short.     *)
ReleaseEndsOwnGrant ==
    [][lease.left > 1 /\ ~Live' =>
          lease.owner \in Proc /\ freeing[lease.owner] = lease.epoch]_vars

(* Committed room writes go through the epochs in order, one process per   *)
(* epoch: the transaction fence implements FencedWriter.                   *)
Fenced == INSTANCE FencedWriter WITH Epoch <- Counter, term <- last.epoch, writer <- last.proc

CommitsAreFenced == Fenced!Spec

(* Once a counter is exhausted nobody can be granted a lease (the document *)
(* predicate boundedCounter).                                              *)
Exhausted == lease.epoch = MaxCounter \/ lease.fence = MaxCounter

(* As long as some process keeps running, a running process holds a live   *)
(* lease again and again: crashes, releases and lost replies never leave   *)
(* the rooms without a scheduler for good.                                 *)
RunningLeader ==
    \A q \in Proc :
        <>[](mode[q] = "up") =>
            []<>(Exhausted \/ (Live /\ \E p \in Proc : lease.owner = p /\ mode[p] = "up"))
=============================================================================
