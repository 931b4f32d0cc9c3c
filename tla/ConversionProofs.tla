--------------------------- MODULE ConversionProofs ---------------------------
(***************************************************************************)
(* Conversion, for any number of operations, concurrent calls, leases and  *)
(* edits: the track never shows bytes that are gone, reservations, ends    *)
(* and replaced bytes agree with the operations, and the protocol          *)
(* implements SafeStore.                                                   *)
(***************************************************************************)
EXTENDS Conversion, TLAPS

-----------------------------------------------------------------------------
(* The inductive invariant.  Its parts are operators of what they speak    *)
(* of: a call c, the operations q, the leases n handed out, the keys s     *)
(* stored and f in flight, the track t.                                    *)

CallType == [pc : Place, op : Operation \union {None}, doc : OpType, mine : 0..MaxClaims,
             kind : {"none", "upload", "reconcile", "cancel"}, first : BOOLEAN]
TrackType == [active : Key, pending : Operation \union {None}, cleanup : Key \union {None}, rev : Nat]

(* The places of a call, by what it is about.                              *)
Looking == {"source", "reserve"}
Sending == {"target", "noObject", "dispatch", "put", "unconfirmed", "reject", "record", "sourceAgain", "attach"}
Cancelling == {"authorize", "headCancelled", "retain", "authorizeAgain", "deleteTarget", "cancelled",
               "cancelUnconfirmed"}
Finishing == {"finish", "publish", "settle", "cleanup", "headSource", "authorizeDelete", "deleteSource",
              "confirmGone", "cleared", "cleanupFailed"}
Found == {"record", "sourceAgain", "attach"}

Final == {"attached", "cancelled"}
Reserved == {"reserved", "sent", "stored"}

(* A call that may change an operation holds a lease that was never        *)
(* another's; calls that found a final operation may share one.            *)
Works(c) == c.pc \in Looking \union Sending \union Cancelling \union {"release"} /\ c.doc.stage \notin Final

(* The operation still carries the lease the call's copy names.            *)
Holds(c, q) == Works(c) /\ q[c.op].owner = c.doc.owner

(* As long as it does, nobody else has changed the operation: the copy is  *)
(* what it is, and the object is as the call found it.                     *)
HolderOK(c, q, s, f) ==
    /\ c.doc.stage = q[c.op].stage /\ c.doc.mayPut = q[c.op].mayPut /\ c.doc.identity = q[c.op].identity
    /\ c.pc = "reject" => c.op \notin s \union f
    /\ c.pc \in Found /\ ~q[c.op].cancel => c.op \in s
    /\ ~LatePuts /\ c.op \in f => c.pc = "put"

PlaceOK(c) ==
    /\ c.pc \in Sending => c.doc.stage \in Reserved
    /\ c.pc \in Cancelling => c.doc.cancel /\ c.doc.stage \notin Final
    /\ c.pc \in Finishing => c.doc.stage = "attached"
    /\ c.pc \in {"authorizeAgain", "deleteTarget"} => c.doc.identity
    /\ c.pc = "cancelled" => c.doc.identity \/ ~c.doc.mayPut

CopyOK(c, q, n) ==
    /\ c.doc.stage # "none" /\ c.doc.source = q[c.op].source
    /\ c.doc.stage \in Final => q[c.op].stage = c.doc.stage
    /\ c.doc.cancel => q[c.op].cancel
    /\ c.doc.owner <= n /\ (Works(c) => c.doc.owner # 0)

(* Whoever is about to forget the replaced bytes knows that they are gone. *)
GoneOK(c, s) == c.pc = "cleared" /\ ~LatePuts => c.doc.source \notin s

CallOK(c, q, n, s, f) ==
    c.pc # "idle" =>
        /\ c.op \in Operation /\ q[c.op].stage # "none"
        /\ c.pc # "claim" => /\ CopyOK(c, q, n) /\ PlaceOK(c) /\ GoneOK(c, s)
                             /\ Holds(c, q) => HolderOK(c, q, s, f)

(* The bytes an operation replaces are the upload's or an attached output. *)
WasShown(k, q) == k = Original \/ (k \in Operation /\ q[k].stage = "attached")

Remembered(op, s, t) == op.stage = "attached" /\ op.source \in s => op.cleanup /\ t.cleanup = op.source

(* What holds of an operation by itself, and what of it and the rest.      *)
StagesOK(op, n) ==
    /\ op.owner <= n
    /\ op.stage = "none" => ~op.mayPut /\ ~op.cancel
    /\ op.stage = "attached" => ~op.cancel
    /\ op.stage = "cancelled" => op.cancel /\ (op.identity \/ ~op.mayPut)
OpOK(o, q, s, f, t) ==
    /\ q[o].stage # "none" => WasShown(q[o].source, q)
    /\ q[o].stage = "attached" => q[o].source # t.active
    /\ ~q[o].mayPut => o \notin s \union f
    /\ t.pending = o <=> q[o].stage \in Reserved
    /\ ~LatePuts /\ o \in f => q[o].live /\ q[o].owner # 0 /\ q[o].stage = "sent"
    /\ ~LatePuts => Remembered(q[o], s, t)

TrackOK(q, s, t) == WasShown(t.active, q) /\ t.active \in s

LeasesDiffer == \A v, w \in Worker :
    v # w /\ Works(calls[v]) /\ Works(calls[w]) => calls[v].doc.owner # calls[w].doc.owner

Inv == /\ TypeOK /\ TrackOK(ops, stored, track) /\ LeasesDiffer
       /\ \A o \in Operation : StagesOK(ops[o], claims) /\ OpOK(o, ops, stored, inflight, track)
       /\ \A w \in Worker : CallOK(calls[w], ops, claims, stored, inflight)

(* Operations go on: no source changes, no cancellation and no end is      *)
(* undone.                                                                 *)
Onward(q, r) ==
    \A o \in Operation : q[o].stage # "none" =>
        /\ r[o].stage # "none" /\ r[o].source = q[o].source
        /\ q[o].cancel => r[o].cancel
        /\ q[o].stage \in Final => r[o].stage = q[o].stage

(* What every step does: it keeps the invariant, and operations go on.     *)
Keeps == Inv' /\ Onward(ops, ops')

-----------------------------------------------------------------------------
(* One call changes, and perhaps the rest with it.                         *)

LEMMA CallKept ==
    ASSUME NEW c \in CallType, NEW q, NEW r, NEW n \in Nat, NEW m \in Nat, n <= m, NEW s, NEW f, NEW s2, NEW f2,
           CallOK(c, q, n, s, f), Onward(q, r), GoneOK(c, s2),
           Holds(c, r) => Holds(c, q) /\ HolderOK(c, r, s2, f2)
    PROVE  CallOK(c, r, m, s2, f2)
<1> SUFFICES ASSUME c.pc # "idle"
             PROVE  /\ c.op \in Operation /\ r[c.op].stage # "none"
                    /\ c.pc # "claim" => /\ CopyOK(c, r, m) /\ PlaceOK(c) /\ GoneOK(c, s2)
                                         /\ Holds(c, r) => HolderOK(c, r, s2, f2)
  BY DEF CallOK
<1>1. c.op \in Operation /\ q[c.op].stage # "none" /\ r[c.op].stage # "none"
  BY DEF CallOK, Onward
<1>2. ASSUME c.pc # "claim" PROVE CopyOK(c, r, m) /\ PlaceOK(c)
  <2>1. CopyOK(c, q, n) /\ PlaceOK(c)
    BY <1>2 DEF CallOK
  <2>2. c.doc.owner \in Nat
    BY DEF CallType, OpType
  <2> QED
    BY <1>1, <2>1, <2>2 DEF CopyOK, Onward
<1> QED
  BY <1>1, <1>2

LEMMA CallStep ==
    ASSUME ConversionAssumption, Inv, NEW w \in Worker, NEW d \in CallType, calls' = [calls EXCEPT ![w] = d],
           ops' \in [Operation -> OpType], track' \in TrackType,
           stored' \subseteq Key, inflight' \subseteq Operation, claims' \in 0..MaxClaims,
           Onward(ops, ops'), claims <= claims',
           \A v \in Worker \ {w} :
               /\ Holds(calls[v], ops') => Holds(calls[v], ops) /\ HolderOK(calls[v], ops', stored', inflight')
               /\ GoneOK(calls[v], stored'),
           CallOK(d, ops', claims', stored', inflight'),
           Works(d) => (Works(calls[w]) /\ d.doc.owner = Doc(w).owner) \/ claims < d.doc.owner,
           TrackOK(ops', stored', track'),
           \A o \in Operation : StagesOK(ops'[o], claims') /\ OpOK(o, ops', stored', inflight', track')
    PROVE  Keeps
<1>1. calls \in [Worker -> CallType] /\ claims \in Nat /\ claims' \in Nat
  BY DEF Inv, TypeOK, CallType, ConversionAssumption
<1>2. calls' \in [Worker -> CallType] /\ \A v \in Worker : calls'[v] = IF v = w THEN d ELSE calls[v]
  BY <1>1
<1>3. TypeOK'
  BY <1>2 DEF TypeOK, CallType, TrackType
<1>4. \A v \in Worker : CallOK(calls'[v], ops', claims', stored', inflight')
  <2> SUFFICES ASSUME NEW v \in Worker, v # w PROVE CallOK(calls[v], ops', claims', stored', inflight')
    BY <1>2
  <2>1. calls[v] \in CallType /\ CallOK(calls[v], ops, claims, stored, inflight)
    BY <1>1 DEF Inv
  <2> QED
    BY <1>1, <2>1, CallKept
<1>5. ASSUME NEW v \in Worker \ {w}, Works(calls[v]), Works(d) PROVE calls[v].doc.owner # d.doc.owner
  <2>1. CASE Works(calls[w]) /\ d.doc.owner = Doc(w).owner
    BY <1>5, <2>1 DEF Inv, LeasesDiffer, Doc
  <2>2. CASE claims < d.doc.owner
    <3>1. calls[v].doc.owner <= claims
      BY <1>5 DEF Inv, CallOK, CopyOK, Works, Looking, Sending, Cancelling
    <3>2. calls[v].doc.owner \in Nat /\ d.doc.owner \in Nat
      BY <1>1 DEF CallType, OpType
    <3> QED
      BY <1>1, <2>2, <3>1, <3>2
  <2> QED
    BY <1>5, <2>1, <2>2
<1>6. LeasesDiffer'
  <2> SUFFICES ASSUME NEW u \in Worker, NEW v \in Worker, u # v, Works(calls'[u]), Works(calls'[v])
               PROVE  calls'[u].doc.owner # calls'[v].doc.owner
    BY DEF LeasesDiffer
  <2>1. CASE u = w
    BY <1>2, <1>5, <2>1
  <2>2. CASE v = w
    BY <1>2, <1>5, <2>2
  <2>3. CASE u # w /\ v # w
    BY <1>2, <2>3 DEF Inv, LeasesDiffer
  <2> QED
    BY <2>1, <2>2, <2>3
<1> QED
  BY <1>3, <1>4, <1>6 DEF Inv, Keeps

(* Only one call moves.                                                    *)
LEMMA WalkStep ==
    ASSUME ConversionAssumption, Inv, NEW w \in Worker, NEW d \in CallType, calls' = [calls EXCEPT ![w] = d],
           UNCHANGED <<ops, track, stored, inflight, claims>>,
           CallOK(d, ops, claims, stored, inflight),
           Works(d) => Works(calls[w]) /\ d.doc.owner = Doc(w).owner
    PROVE  Keeps
<1>1. /\ ops' \in [Operation -> OpType] /\ track' \in TrackType /\ stored' \subseteq Key
      /\ inflight' \subseteq Operation /\ claims' \in 0..MaxClaims /\ claims <= claims'
  BY DEF Inv, TypeOK, TrackType, ConversionAssumption
<1>2. Onward(ops, ops')
  BY DEF Onward
<1>3. \A v \in Worker \ {w} :
          /\ Holds(calls[v], ops') => Holds(calls[v], ops) /\ HolderOK(calls[v], ops', stored', inflight')
          /\ GoneOK(calls[v], stored')
  BY DEF Inv, CallOK, Holds, Works, Looking, Sending, Cancelling, GoneOK
<1>4. /\ CallOK(d, ops', claims', stored', inflight') /\ TrackOK(ops', stored', track')
      /\ \A o \in Operation : StagesOK(ops'[o], claims') /\ OpOK(o, ops', stored', inflight', track')
  BY DEF Inv
<1> QED
  BY <1>1, <1>2, <1>3, <1>4, CallStep

(* A call ends, or starts over.                                            *)
LEMMA FreshStep ==
    ASSUME ConversionAssumption, Inv, NEW w \in Worker, NEW d \in CallType, calls' = [calls EXCEPT ![w] = d],
           UNCHANGED <<ops, track, stored, inflight, claims>>,
           d.pc = "idle" \/ (d.pc = "claim" /\ d.op \in Operation /\ ops[d.op].stage # "none")
    PROVE  Keeps
<1>1. CallOK(d, ops, claims, stored, inflight) /\ ~Works(d)
  BY DEF CallOK, Works, Looking, Sending, Cancelling
<1> QED
  BY <1>1, WalkStep

(* A call goes on with what it knows.                                      *)
Underway(c) == c.pc \notin {"idle", "claim"}

LEMMA Underways ==
    ASSUME ConversionAssumption, Inv, NEW w \in Worker, Underway(calls[w])
    PROVE  /\ calls[w] \in CallType /\ Op(w) \in Operation /\ ops[Op(w)] \in OpType /\ ops[Op(w)].stage # "none"
           /\ Doc(w) \in OpType /\ claims \in 0..MaxClaims
           /\ CopyOK(calls[w], ops, claims) /\ PlaceOK(calls[w]) /\ GoneOK(calls[w], stored)
           /\ Holds(calls[w], ops) => HolderOK(calls[w], ops, stored, inflight)
           /\ StagesOK(ops[Op(w)], claims) /\ OpOK(Op(w), ops, stored, inflight, track)
  BY DEF Inv, TypeOK, CallType, CallOK, Underway, Op, Doc

LEMMA Walk ==
    ASSUME ConversionAssumption, Inv, NEW w \in Worker, Underway(calls[w]), NEW place \in Place \ {"idle", "claim"},
           Goto(w, place), UNCHANGED <<ops, track, stored, inflight, claims>>,
           PlaceOK([calls[w] EXCEPT !.pc = place]), GoneOK([calls[w] EXCEPT !.pc = place], stored),
           place \in Finishing \/ Works(calls[w]) \/ Doc(w).stage \in Final,
           Holds(calls[w], ops) => HolderOK([calls[w] EXCEPT !.pc = place], ops, stored, inflight)
    PROVE  Keeps
<1> DEFINE d == [calls[w] EXCEPT !.pc = place]
<1>1. /\ calls[w] \in CallType /\ Op(w) \in Operation /\ ops[Op(w)].stage # "none"
      /\ CopyOK(calls[w], ops, claims)
  BY Underways
<1>2. d \in CallType /\ d.op = Op(w) /\ d.doc = Doc(w) /\ d.pc = place
  BY <1>1 DEF CallType, Op, Doc
<1>3. calls' = [calls EXCEPT ![w] = d]
  BY DEF Goto, Inv, TypeOK
<1>4. Works(d) => Works(calls[w])
  BY <1>2 DEF Works, Finishing, Looking, Sending, Cancelling, Doc
<1>5. CopyOK(d, ops, claims)
  BY <1>1, <1>2, <1>4 DEF CopyOK, Op, Doc
<1>6. Holds(d, ops) => Holds(calls[w], ops)
  BY <1>2, <1>4 DEF Holds, Op, Doc
<1>7. CallOK(d, ops, claims, stored, inflight)
  BY <1>1, <1>2, <1>5, <1>6 DEF CallOK
<1> HIDE DEF d
<1> QED
  BY <1>2, <1>3, <1>4, <1>7, WalkStep

(* Giving up.                                                              *)
LEMMA Gives ==
    ASSUME ConversionAssumption, Inv, NEW w \in Worker, Underway(calls[w]), calls[w].pc # "put",
           calls[w].pc \in Finishing \/ Works(calls[w]) \/ Doc(w).stage \in Final,
           Throw(w), UNCHANGED <<ops, track, stored, inflight, claims>>
    PROVE  Keeps
<1> DEFINE d == [calls[w] EXCEPT !.pc = "release"]
<1>1. /\ calls[w] \in CallType /\ PlaceOK(calls[w])
      /\ Holds(calls[w], ops) => HolderOK(calls[w], ops, stored, inflight)
  BY Underways
<1>2. d.op = Op(w) /\ d.doc = Doc(w) /\ d.pc = "release" /\ "release" \in Place
  BY <1>1 DEF CallType, Op, Doc, Place
<1>3. PlaceOK(d) /\ GoneOK(d, stored)
  BY <1>2 DEF PlaceOK, GoneOK, Sending, Cancelling, Finishing
<1>4. Works(calls[w]) \/ Doc(w).stage \in Final
  BY <1>1 DEF PlaceOK, Final, Doc
<1>5. Holds(calls[w], ops) => HolderOK(d, ops, stored, inflight)
  BY <1>1, <1>2 DEF HolderOK, Found, Op, Doc
<1>6. Goto(w, "release")
  BY DEF Throw
<1> QED
  BY <1>2, <1>3, <1>4, <1>5, <1>6, Walk

-----------------------------------------------------------------------------
(* The steps that only look.                                               *)

LEMMA UploadLooks ==
    ASSUME ConversionAssumption, Inv, NEW w \in Worker,
           CheckSource(w) \/ HeadTarget(w) \/ PutReturns(w) \/ CheckSourceAgain(w)
    PROVE  Keeps
<1>1. calls[w].pc \in {"source", "target", "put", "sourceAgain"} /\ Underway(calls[w])
  BY DEF CheckSource, HeadTarget, PutReturns, CheckSourceAgain, At, Underway
<1>2. /\ calls[w] \in CallType /\ PlaceOK(calls[w])
      /\ Holds(calls[w], ops) => HolderOK(calls[w], ops, stored, inflight)
  BY <1>1, Underways
<1>3. PICK place \in {"reserve", "release", "record", "dispatch", "noObject", "unconfirmed", "reject", "attach"} :
          Goto(w, place)
  BY DEF CheckSource, HeadTarget, PutReturns, CheckSourceAgain, Head
<1>4. UNCHANGED <<ops, track, stored, inflight, claims>>
  BY DEF CheckSource, HeadTarget, PutReturns, CheckSourceAgain, Head
<1> DEFINE d == [calls[w] EXCEPT !.pc = place]
<1>5. d.op = Op(w) /\ d.doc = Doc(w) /\ d.pc = place
  BY <1>2 DEF CallType, Op, Doc
<1>6. place \in Sending => calls[w].pc \in Sending
  BY <1>3, <1>2, <1>4 DEF CheckSource, HeadTarget, PutReturns, CheckSourceAgain, Head, At, Sending, Goto, Inv, TypeOK
<1>7. place \notin Cancelling \union Finishing /\ place \in Place \ {"idle", "claim"}
  BY DEF Cancelling, Finishing, Place
<1>8. PlaceOK(d) /\ GoneOK(d, stored)
  BY <1>2, <1>5, <1>6, <1>7 DEF PlaceOK, GoneOK, Doc, Cancelling, Finishing
<1>9. Works(calls[w]) \/ Doc(w).stage \in Final
  BY <1>1 DEF Works, Looking, Sending, Doc
<1>10. ASSUME Holds(calls[w], ops) PROVE HolderOK(d, ops, stored, inflight)
  <2>1. HolderOK(calls[w], ops, stored, inflight)
    BY <1>2, <1>10
  <2>2. place = "reject" => Op(w) \notin stored \union inflight
    BY <1>3, <1>2 DEF CheckSource, HeadTarget, PutReturns, CheckSourceAgain, Head, Goto, Inv, TypeOK
  <2>3. place \in Found /\ ~ops[Op(w)].cancel => Op(w) \in stored
    BY <1>3, <1>2, <2>1 DEF CheckSource, HeadTarget, PutReturns, CheckSourceAgain, Head, Goto, Inv, TypeOK, Found, HolderOK, At, Op
  <2>4. ~LatePuts => Op(w) \notin inflight
    BY <2>1, <1>1 DEF CheckSource, HeadTarget, PutReturns, CheckSourceAgain, At, HolderOK, Op
  <2> QED
    BY <1>5, <2>1, <2>2, <2>3, <2>4 DEF HolderOK, Op, Doc
<1> HIDE DEF d
<1> QED
  BY <1>1, <1>3, <1>4, <1>7, <1>8, <1>9, <1>10, Walk DEF d

LEMMA FinishLooks ==
    ASSUME ConversionAssumption, Inv, NEW w \in Worker,
           Finish(w) \/ Cleanup(w) \/ HeadSource(w) \/ AuthorizeDelete(w) \/ ConfirmGone(w)
    PROVE  Keeps
<1>1. calls[w].pc \in Finishing /\ Underway(calls[w])
  BY DEF Finish, Cleanup, HeadSource, AuthorizeDelete, ConfirmGone, At, Underway, Finishing
<1>2. calls[w] \in CallType /\ PlaceOK(calls[w])
  BY <1>1, Underways
<1>3. PICK place \in Finishing \union {"release"} : Goto(w, place)
  BY DEF Finish, Cleanup, HeadSource, AuthorizeDelete, ConfirmGone, Head, Finishing
<1>4. UNCHANGED <<ops, track, stored, inflight, claims>>
  BY DEF Finish, Cleanup, HeadSource, AuthorizeDelete, ConfirmGone, Head
<1> DEFINE d == [calls[w] EXCEPT !.pc = place]
<1>5. d.doc = Doc(w) /\ d.pc = place /\ Doc(w).stage = "attached"
  BY <1>1, <1>2 DEF CallType, Doc, PlaceOK
<1>6. PlaceOK(d)
  BY <1>3, <1>5 DEF PlaceOK, Sending, Cancelling, Finishing
<1>7. place = "cleared" => Doc(w).source \notin stored
  BY <1>2, <1>3 DEF Finish, Cleanup, HeadSource, AuthorizeDelete, ConfirmGone, Head, Goto, Inv, TypeOK
<1>8. GoneOK(d, stored)
  BY <1>5, <1>7 DEF GoneOK
<1>9. ~Holds(calls[w], ops) /\ place \in Place \ {"idle", "claim"} /\ Doc(w).stage \in Final
  BY <1>3, <1>5 DEF Holds, Works, Final, Finishing, Place, Doc
<1> HIDE DEF d
<1> QED
  BY <1>1, <1>3, <1>4, <1>6, <1>8, <1>9, Walk DEF d

LEMMA CancelLooks ==
    ASSUME ConversionAssumption, Inv, NEW w \in Worker, Authorize(w) \/ HeadCancelled(w) \/ AuthorizeAgain(w)
    PROVE  Keeps
<1>1. calls[w].pc \in {"authorize", "headCancelled", "authorizeAgain"} /\ Underway(calls[w])
  BY DEF Authorize, HeadCancelled, AuthorizeAgain, At, Underway
<1>2. /\ calls[w] \in CallType /\ PlaceOK(calls[w])
      /\ Holds(calls[w], ops) => HolderOK(calls[w], ops, stored, inflight)
  BY <1>1, Underways
<1>3. PICK place \in {"headCancelled", "cancelled", "retain", "cancelUnconfirmed", "deleteTarget", "release"} :
          Goto(w, place)
  BY DEF Authorize, HeadCancelled, AuthorizeAgain, Head
<1>4. UNCHANGED <<ops, track, stored, inflight, claims>>
  BY DEF Authorize, HeadCancelled, AuthorizeAgain, Head
<1> DEFINE d == [calls[w] EXCEPT !.pc = place]
<1>5. d.op = Op(w) /\ d.doc = Doc(w) /\ d.pc = place
  BY <1>2 DEF CallType, Op, Doc
<1>6. place = "deleteTarget" => calls[w].pc = "authorizeAgain"
  BY <1>2, <1>3 DEF Authorize, HeadCancelled, AuthorizeAgain, Head, Goto, Inv, TypeOK, At
<1>7. place = "cancelled" => Doc(w).identity \/ ~Doc(w).mayPut
  BY <1>2, <1>3 DEF Authorize, HeadCancelled, AuthorizeAgain, Head, Goto, Inv, TypeOK
<1>8. PlaceOK(d) /\ GoneOK(d, stored)
  BY <1>1, <1>2, <1>3, <1>5, <1>6, <1>7 DEF PlaceOK, GoneOK, Doc, Sending, Cancelling, Finishing
<1>9. Works(calls[w]) /\ place \in Place \ {"idle", "claim"}
  BY <1>1, <1>2, <1>3 DEF Works, Cancelling, PlaceOK, Place
<1>10. Holds(calls[w], ops) => HolderOK(d, ops, stored, inflight)
  BY <1>1, <1>2, <1>3, <1>5 DEF HolderOK, Found, Op, Doc
<1> HIDE DEF d
<1> QED
  BY <1>1, <1>3, <1>4, <1>8, <1>9, <1>10, Walk DEF d

(* Whatever the confirmation of the publication says.                      *)
LEMMA PublishKeeps ==
    ASSUME ConversionAssumption, Inv, NEW w \in Worker, Publish(w)
    PROVE  Keeps
<1>1. calls[w].pc = "publish" /\ Underway(calls[w])
  BY DEF Publish, At, Underway
<1>2. /\ calls[w] \in CallType /\ PlaceOK(calls[w]) /\ CopyOK(calls[w], ops, claims)
      /\ Op(w) \in Operation /\ ops[Op(w)].stage # "none"
  BY <1>1, Underways
<1>3. PICK result \in {"failed", "unknown", "ready"} : Learn(w, [Doc(w) EXCEPT !.publication = result], "settle")
  BY DEF Publish
<1> DEFINE e == [[Doc(w) EXCEPT !.publication = result] EXCEPT !.live = FALSE]
           d == [calls[w] EXCEPT !.pc = "settle", !.doc = e]
<1>4. /\ e \in OpType /\ e.stage = Doc(w).stage /\ e.source = Doc(w).source /\ e.cancel = Doc(w).cancel
      /\ e.owner = Doc(w).owner /\ Doc(w).stage = "attached"
  BY <1>1, <1>2 DEF CallType, OpType, Doc, PlaceOK, Finishing
<1> HIDE DEF e
<1>5. d \in CallType /\ d.pc = "settle" /\ d.doc = e /\ d.op = Op(w)
  BY <1>2, <1>4 DEF CallType, Op, Place
<1>6. calls' = [calls EXCEPT ![w] = d]
  BY <1>3 DEF Learn, Inv, TypeOK, e
<1> HIDE DEF d
<1>7. ~Works(d)
  BY <1>4, <1>5 DEF Works, Final
<1>8. CallOK(d, ops, claims, stored, inflight)
  BY <1>2, <1>4, <1>5, <1>7 DEF CallOK, CopyOK, PlaceOK, GoneOK, Holds, Sending, Cancelling, Finishing, Op, Doc
<1>9. UNCHANGED <<ops, track, stored, inflight, claims>>
  BY DEF Publish
<1> QED
  BY <1>5, <1>6, <1>7, <1>8, <1>9, WalkStep

-----------------------------------------------------------------------------
(* The steps that write the operation of a call.                           *)

(* The call's copy is the operation but for the expiry.                    *)
Copy(op) == [op EXCEPT !.live = FALSE]

LEMMA CopyFacts ==
    ASSUME NEW e \in OpType
    PROVE  /\ Copy(e) \in OpType /\ Copy(e).stage = e.stage /\ Copy(e).source = e.source
           /\ Copy(e).cancel = e.cancel /\ Copy(e).owner = e.owner /\ Copy(e).mayPut = e.mayPut
           /\ Copy(e).identity = e.identity /\ Copy(e).granted = e.granted
  BY DEF Copy, OpType

(* A holder writes its operation, keeping owner, source and cancellation.  *)
LEMMA OwnStep ==
    ASSUME ConversionAssumption, Inv, NEW w \in Worker, Underway(calls[w]), Holds(calls[w], ops),
           NEW e \in OpType, NEW d \in CallType, calls' = [calls EXCEPT ![w] = d],
           ops' = [ops EXCEPT ![Op(w)] = e], d.op = Op(w), d.doc = Copy(e), d.pc \in Place \ {"idle", "claim", "reject"},
           e.owner = ops[Op(w)].owner, e.source = ops[Op(w)].source, e.cancel = ops[Op(w)].cancel,
           e.stage # "none", PlaceOK(d), d.pc # "cleared",
           d.pc \in Found /\ ~e.cancel => Op(w) \in stored,
           ~LatePuts /\ Op(w) \in inflight' => d.pc = "put" \/ e.stage \in Final,
           stored' = stored, inflight' \subseteq Operation, inflight' \ {Op(w)} = inflight \ {Op(w)}, claims' = claims,
           track' \in TrackType, TrackOK(ops', stored', track'),
           \A o \in Operation : StagesOK(ops'[o], claims') /\ OpOK(o, ops', stored', inflight', track')
    PROVE  Keeps
<1>1. /\ calls[w] \in CallType /\ Op(w) \in Operation /\ ops[Op(w)] \in OpType /\ ops[Op(w)].stage # "none"
      /\ Doc(w) \in OpType /\ CopyOK(calls[w], ops, claims) /\ HolderOK(calls[w], ops, stored, inflight)
      /\ ops \in [Operation -> OpType] /\ claims \in 0..MaxClaims
  BY Underways DEF Inv, TypeOK
<1>2. /\ Works(calls[w]) /\ ops[Op(w)].owner = Doc(w).owner /\ ops[Op(w)].stage = Doc(w).stage
      /\ Doc(w).stage \notin Final /\ Doc(w).owner # 0
  BY <1>1 DEF Holds, HolderOK, Works, CopyOK, Op, Doc
<1>3. ops' \in [Operation -> OpType] /\ ops'[Op(w)] = e /\ \A o \in Operation : o # Op(w) => ops'[o] = ops[o]
  BY <1>1
<1>4. /\ d.doc.stage = e.stage /\ d.doc.source = e.source /\ d.doc.cancel = e.cancel /\ d.doc.owner = e.owner
      /\ d.doc.mayPut = e.mayPut /\ d.doc.identity = e.identity
  BY CopyFacts
<1>5. Onward(ops, ops')
  BY <1>2, <1>3 DEF Onward
<1>6. ASSUME NEW v \in Worker \ {w}
      PROVE  /\ Holds(calls[v], ops') => Holds(calls[v], ops) /\ HolderOK(calls[v], ops', stored', inflight')
             /\ GoneOK(calls[v], stored')
  <2>1. CallOK(calls[v], ops, claims, stored, inflight)
    BY DEF Inv
  <2>2. GoneOK(calls[v], stored')
    BY <2>1 DEF CallOK, GoneOK
  <2>3. ASSUME Holds(calls[v], ops') PROVE Holds(calls[v], ops) /\ HolderOK(calls[v], ops', stored', inflight')
    <3>1. calls[v].op # Op(w)
      BY <1>2, <1>3, <2>3 DEF Holds, Inv, LeasesDiffer, Doc
    <3>2. calls[v].op \in Operation
      BY <2>1, <2>3 DEF CallOK, Holds, Works, Looking, Sending, Cancelling
    <3>3. Holds(calls[v], ops) /\ HolderOK(calls[v], ops, stored, inflight)
      BY <1>3, <2>1, <2>3, <3>1, <3>2 DEF CallOK, Holds, Works, Looking, Sending, Cancelling
    <3> QED
      BY <1>3, <3>1, <3>2, <3>3 DEF HolderOK
  <2> QED
    BY <2>2, <2>3
<1>7. CopyOK(d, ops', claims')
  BY <1>1, <1>2, <1>3, <1>4 DEF CopyOK, Op, Doc
<1>8. Holds(d, ops') => HolderOK(d, ops', stored', inflight')
  BY <1>3, <1>4 DEF HolderOK, Holds, Works
<1>9. CallOK(d, ops', claims', stored', inflight')
  BY <1>1, <1>3, <1>7, <1>8 DEF CallOK, GoneOK
<1>10. Works(d) => Works(calls[w]) /\ d.doc.owner = Doc(w).owner
  BY <1>2, <1>4
<1>11. stored' \subseteq Key /\ claims' \in 0..MaxClaims /\ claims <= claims'
  BY <1>1 DEF Inv, TypeOK, ConversionAssumption
<1> QED
  BY <1>3, <1>5, <1>6, <1>9, <1>10, <1>11, CallStep

(* The track goes on showing what it showed.                               *)
LEMMA QuietStep ==
    ASSUME ConversionAssumption, Inv, NEW w \in Worker, Underway(calls[w]), Holds(calls[w], ops),
           NEW e \in OpType, NEW d \in CallType, calls' = [calls EXCEPT ![w] = d],
           ops' = [ops EXCEPT ![Op(w)] = e], d.op = Op(w), d.doc = Copy(e), d.pc \in Place \ {"idle", "claim", "reject"},
           e.owner = ops[Op(w)].owner, e.source = ops[Op(w)].source, e.cancel = ops[Op(w)].cancel,
           e.stage \notin {"none", "attached"}, PlaceOK(d), d.pc # "cleared",
           d.pc \in Found /\ ~e.cancel => Op(w) \in stored,
           ~LatePuts /\ Op(w) \in inflight' => d.pc = "put",
           stored' = stored, inflight' \subseteq Operation, inflight' \ {Op(w)} = inflight \ {Op(w)}, claims' = claims,
           track' \in TrackType, track'.active = track.active, track'.cleanup = track.cleanup,
           \A p \in Operation \ {Op(w)} : track'.pending = p <=> track.pending = p,
           track'.pending = Op(w) <=> e.stage \in Reserved,
           ~e.mayPut => Op(w) \notin stored \union inflight',
           e.stage = "cancelled" => e.cancel /\ (e.identity \/ ~e.mayPut),
           ~LatePuts /\ Op(w) \in inflight' => e.live /\ e.stage = "sent"
    PROVE  Keeps
<1>1. /\ Op(w) \in Operation /\ ops[Op(w)] \in OpType /\ ops[Op(w)].stage # "none" /\ ops[Op(w)].stage \notin Final
      /\ StagesOK(ops[Op(w)], claims) /\ OpOK(Op(w), ops, stored, inflight, track)
      /\ ops[Op(w)].owner # 0 /\ ops \in [Operation -> OpType] /\ claims \in 0..MaxClaims
  BY Underways DEF Inv, TypeOK, Holds, HolderOK, Works, CopyOK, Op, Doc
<1>2. ops' \in [Operation -> OpType] /\ ops'[Op(w)] = e /\ \A o \in Operation : o # Op(w) => ops'[o] = ops[o]
  BY <1>1
<1>3. \A k : WasShown(k, ops) <=> WasShown(k, ops')
  BY <1>1, <1>2 DEF WasShown, Final
<1>4. TrackOK(ops', stored', track')
  BY <1>3 DEF TrackOK, Inv
<1>5. StagesOK(e, claims')
  BY <1>1 DEF StagesOK
<1>6. OpOK(Op(w), ops', stored', inflight', track')
  BY <1>1, <1>2, <1>3 DEF OpOK, Remembered
<1>7. ASSUME NEW p \in Operation, p # Op(w) PROVE StagesOK(ops'[p], claims') /\ OpOK(p, ops', stored', inflight', track')
  <2>1. StagesOK(ops[p], claims) /\ OpOK(p, ops, stored, inflight, track)
    BY DEF Inv
  <2>2. p \in inflight' <=> p \in inflight
    BY <1>7
  <2>3. ops'[p] = ops[p] /\ (track'.pending = p <=> track.pending = p)
    BY <1>2, <1>7
  <2>4. Remembered(ops[p], stored, track) <=> Remembered(ops'[p], stored', track')
    BY <2>3 DEF Remembered
  <2>5. OpOK(p, ops', stored', inflight', track')
    BY <1>3, <2>1, <2>2, <2>3, <2>4 DEF OpOK
  <2> QED
    BY <2>1, <2>3, <2>5
<1>8. \A o \in Operation : StagesOK(ops'[o], claims') /\ OpOK(o, ops', stored', inflight', track')
  BY <1>2, <1>5, <1>6, <1>7
<1> QED
  BY <1>1, <1>2, <1>4, <1>8, OwnStep

(* Learning what was written.                                              *)
LEMMA Learnt ==
    ASSUME Inv, NEW w \in Worker, Underway(calls[w]), NEW e \in OpType, NEW place \in Place, Learn(w, e, place)
    PROVE  \E d \in CallType : calls' = [calls EXCEPT ![w] = d] /\ d.op = Op(w) /\ d.doc = Copy(e) /\ d.pc = place
<1> DEFINE x == Copy(e)
           d == [calls[w] EXCEPT !.pc = place, !.doc = x]
<1>1. x \in OpType
  BY CopyFacts
<1>2. calls \in [Worker -> CallType] /\ calls[w] \in CallType
  BY DEF Inv, TypeOK, CallType
<1>3. calls' = [calls EXCEPT ![w] = d]
  BY <1>2 DEF Learn, Copy
<1> HIDE DEF x
<1>4. d \in CallType /\ d.op = Op(w) /\ d.doc = x /\ d.pc = place
  BY <1>1, <1>2 DEF CallType, Op
<1> QED
  BY <1>3, <1>4 DEF x

(* What a call at work that owns its lease knows.                          *)
LEMMA OwnerFacts ==
    ASSUME ConversionAssumption, Inv, NEW w \in Worker, calls[w].pc \in Sending \union Cancelling,
           ops[Op(w)].owner = Doc(w).owner
    PROVE  /\ Underway(calls[w]) /\ Holds(calls[w], ops) /\ HolderOK(calls[w], ops, stored, inflight)
           /\ Op(w) \in Operation /\ ops[Op(w)] \in OpType /\ ops[Op(w)].stage = Doc(w).stage
           /\ ops[Op(w)].mayPut = Doc(w).mayPut /\ ops[Op(w)].identity = Doc(w).identity
           /\ ops[Op(w)].stage \notin Final \union {"none"} /\ PlaceOK(calls[w])
           /\ calls[w].pc \in Sending => ops[Op(w)].stage \in Reserved
           /\ calls[w].pc \in Cancelling => ops[Op(w)].cancel
           /\ StagesOK(ops[Op(w)], claims) /\ OpOK(Op(w), ops, stored, inflight, track)
           /\ track \in TrackType /\ stored \subseteq Key /\ inflight \subseteq Operation
<1>1. Underway(calls[w])
  BY DEF Underway, Sending, Cancelling
<1>2. Works(calls[w])
  BY <1>1, Underways DEF Works, PlaceOK, Final, Reserved
<1>3. Holds(calls[w], ops)
  BY <1>2 DEF Holds, Op, Doc
<1> QED
  BY <1>1, <1>2, <1>3, Underways DEF HolderOK, Works, PlaceOK, CopyOK, Op, Doc, Inv, TypeOK, TrackType

(* What a call does that gives up or has nothing left to own.              *)
LEMMA GivesUp ==
    ASSUME ConversionAssumption, Inv, NEW w \in Worker, calls[w].pc \in (Sending \ {"put"}) \union Cancelling \union Finishing,
           Throw(w), UNCHANGED <<ops, track, stored, inflight, claims>>
    PROVE  Keeps
<1>1. Underway(calls[w]) /\ calls[w].pc # "put"
  BY DEF Underway, Sending, Cancelling, Finishing
<1>2. calls[w].pc \in Finishing \/ Works(calls[w])
  BY <1>1, Underways DEF Works, PlaceOK, Final, Reserved
<1> QED
  BY <1>1, <1>2, Gives

(* A checkpoint that notes how the sending or the cancellation fares.      *)
LEMMA Notes ==
    ASSUME ConversionAssumption, Inv, NEW w \in Worker, calls[w].pc \in (Sending \ {"put"}) \union Cancelling,
           NEW e \in OpType, NEW place \in {"release", "sourceAgain", "authorizeAgain"}, Checkpoint(w, TRUE, e, place),
           e.owner = ops[Op(w)].owner, e.source = ops[Op(w)].source, e.cancel = ops[Op(w)].cancel,
           e.mayPut = ops[Op(w)].mayPut,
           e.stage = ops[Op(w)].stage \/ (calls[w].pc \in Sending /\ e.stage = "stored"),
           place = "sourceAgain" => calls[w].pc = "record" /\ e.stage = "stored",
           place = "authorizeAgain" => calls[w].pc \in Cancelling /\ e.identity
    PROVE  Keeps
<1>1. CASE Throw(w) /\ UNCHANGED <<ops, track, stored, inflight, claims>>
  BY <1>1, GivesUp
<1>2. CASE ~(Throw(w) /\ UNCHANGED <<ops, track, stored, inflight, claims>>)
  <2>1. /\ ops' = [ops EXCEPT ![Op(w)] = e] /\ Learn(w, e, place) /\ ops[Op(w)].owner = Doc(w).owner
        /\ UNCHANGED <<track, stored, inflight, claims>>
    BY <1>2 DEF Checkpoint, Owns
  <2>2. /\ Underway(calls[w]) /\ Holds(calls[w], ops) /\ HolderOK(calls[w], ops, stored, inflight)
        /\ Op(w) \in Operation /\ ops[Op(w)] \in OpType /\ ops[Op(w)].stage \notin Final \union {"none"}
        /\ calls[w].pc \in Sending => ops[Op(w)].stage \in Reserved
        /\ calls[w].pc \in Cancelling => ops[Op(w)].cancel
        /\ StagesOK(ops[Op(w)], claims) /\ OpOK(Op(w), ops, stored, inflight, track)
        /\ track \in TrackType /\ inflight \subseteq Operation
    BY <2>1, OwnerFacts
  <2>3. place \in Place \ {"idle", "claim", "reject", "put", "cleared"}
    BY DEF Place
  <2>4. PICK d \in CallType : calls' = [calls EXCEPT ![w] = d] /\ d.op = Op(w) /\ d.doc = Copy(e) /\ d.pc = place
    BY <2>1, <2>2, <2>3, Learnt
  <2>5. /\ d.doc.stage = e.stage /\ d.doc.cancel = e.cancel /\ d.doc.identity = e.identity
    BY <2>4, CopyFacts
  <2>6. e.stage \notin Final \union {"none"} /\ (e.stage \in Reserved <=> ops[Op(w)].stage \in Reserved)
    BY <2>2 DEF Final, Reserved
  <2>7. PlaceOK(d)
    BY <2>2, <2>4, <2>5, <2>6 DEF PlaceOK, Sending, Cancelling, Finishing, Reserved
  <2>8. d.pc \in Found /\ ~e.cancel => Op(w) \in stored
    BY <2>2, <2>4 DEF HolderOK, Found, Op
  <2>9. ~LatePuts => Op(w) \notin inflight
    BY <2>2 DEF HolderOK, Op, Cancelling
  <2>10. /\ track' \in TrackType /\ track'.active = track.active /\ track'.cleanup = track.cleanup
         /\ \A p \in Operation \ {Op(w)} : track'.pending = p <=> track.pending = p
         /\ track'.pending = Op(w) <=> e.stage \in Reserved
         /\ ~e.mayPut => Op(w) \notin stored \union inflight'
         /\ e.stage \notin {"none", "attached"}
         /\ e.stage = "cancelled" => e.cancel /\ (e.identity \/ ~e.mayPut)
    BY <2>1, <2>2, <2>6 DEF OpOK, Final
  <2>11. d.pc \in Place \ {"idle", "claim", "reject"} /\ d.pc # "cleared"
    BY <2>3, <2>4
  <2>12. /\ stored' = stored /\ claims' = claims /\ inflight' \subseteq Operation
         /\ inflight' \ {Op(w)} = inflight \ {Op(w)} /\ (~LatePuts => Op(w) \notin inflight')
    BY <2>1, <2>2, <2>9
  <2> HIDE DEF Copy
  <2> QED
    BY <2>1, <2>2, <2>4, <2>7, <2>8, <2>10, <2>11, <2>12, QuietStep
<1> QED
  BY <1>1, <1>2

LEMMA NotesKeep ==
    ASSUME ConversionAssumption, Inv, NEW w \in Worker,
           NoObject(w) \/ Unconfirmed(w) \/ Record(w) \/ Retain(w) \/ CancelUnconfirmed(w)
    PROVE  Keeps
<1>1. calls[w].pc \in {"noObject", "unconfirmed", "record", "retain", "cancelUnconfirmed"}
  BY DEF NoObject, Unconfirmed, Record, Retain, CancelUnconfirmed, At
<1>2. calls[w].pc \in (Sending \ {"put"}) \union Cancelling /\ Underway(calls[w])
  BY <1>1 DEF Sending, Cancelling, Underway
<1>3. ops[Op(w)] \in OpType
  BY <1>2, Underways
<1>4. CASE NoObject(w)
  <2>1. PICK x \in {"failed", "unknown"} : Checkpoint(w, TRUE, [ops[Op(w)] EXCEPT !.upload = x], "release")
    BY <1>4 DEF NoObject
  <2> DEFINE e == [ops[Op(w)] EXCEPT !.upload = x]
  <2>2. /\ e \in OpType /\ e.owner = ops[Op(w)].owner /\ e.source = ops[Op(w)].source /\ e.cancel = ops[Op(w)].cancel
        /\ e.mayPut = ops[Op(w)].mayPut /\ e.stage = ops[Op(w)].stage
    BY <1>3 DEF OpType
  <2> HIDE DEF e
  <2> QED
    BY <1>2, <2>1, <2>2, Notes DEF e
<1>5. CASE Unconfirmed(w)
  <2> DEFINE e == [ops[Op(w)] EXCEPT !.upload = "unknown"]
  <2>1. Checkpoint(w, TRUE, e, "release")
    BY <1>5 DEF Unconfirmed
  <2>2. /\ e \in OpType /\ e.owner = ops[Op(w)].owner /\ e.source = ops[Op(w)].source /\ e.cancel = ops[Op(w)].cancel
        /\ e.mayPut = ops[Op(w)].mayPut /\ e.stage = ops[Op(w)].stage
    BY <1>3 DEF OpType
  <2> HIDE DEF e
  <2> QED
    BY <1>2, <2>1, <2>2, Notes
<1>6. CASE Record(w)
  <2> DEFINE e == [ops[Op(w)] EXCEPT !.identity = TRUE, !.upload = "ready", !.stage = "stored"]
  <2>1. Checkpoint(w, TRUE, e, "sourceAgain") /\ calls[w].pc = "record"
    BY <1>6 DEF Record, At
  <2>2. /\ e \in OpType /\ e.owner = ops[Op(w)].owner /\ e.source = ops[Op(w)].source /\ e.cancel = ops[Op(w)].cancel
        /\ e.mayPut = ops[Op(w)].mayPut /\ e.stage = "stored"
    BY <1>3 DEF OpType, Stage
  <2>3. calls[w].pc \in Sending
    BY <2>1 DEF Sending
  <2> HIDE DEF e
  <2> QED
    BY <1>2, <2>1, <2>2, <2>3, Notes
<1>7. CASE Retain(w)
  <2> DEFINE e == [ops[Op(w)] EXCEPT !.identity = TRUE]
  <2>1. Checkpoint(w, TRUE, e, "authorizeAgain") /\ calls[w].pc \in Cancelling
    BY <1>7 DEF Retain, At, Cancelling
  <2>2. /\ e \in OpType /\ e.owner = ops[Op(w)].owner /\ e.source = ops[Op(w)].source /\ e.cancel = ops[Op(w)].cancel
        /\ e.mayPut = ops[Op(w)].mayPut /\ e.stage = ops[Op(w)].stage /\ e.identity
    BY <1>3 DEF OpType
  <2> HIDE DEF e
  <2> QED
    BY <1>2, <2>1, <2>2, Notes
<1>8. CASE CancelUnconfirmed(w)
  <2>1. PICK x \in {"notStarted", "pending", "unknown", "ready", "failed"} :
            Checkpoint(w, TRUE, [ops[Op(w)] EXCEPT !.cleanup = TRUE, !.upload = x], "release")
    BY <1>3, <1>8 DEF CancelUnconfirmed, OpType
  <2> DEFINE e == [ops[Op(w)] EXCEPT !.cleanup = TRUE, !.upload = x]
  <2>2. /\ e \in OpType /\ e.owner = ops[Op(w)].owner /\ e.source = ops[Op(w)].source /\ e.cancel = ops[Op(w)].cancel
        /\ e.mayPut = ops[Op(w)].mayPut /\ e.stage = ops[Op(w)].stage
    BY <1>3 DEF OpType
  <2> HIDE DEF e
  <2> QED
    BY <1>2, <2>1, <2>2, Notes DEF e
<1> QED
  BY <1>4, <1>5, <1>6, <1>7, <1>8

(* The reservation: the source is the track's, so the operation is neither *)
(* attached nor cancelled, and the call still its holder.                  *)
LEMMA ReserveKeeps ==
    ASSUME ConversionAssumption, Inv, NEW w \in Worker, Reserve(w)
    PROVE  Keeps
<1> DEFINE e == [ops[Op(w)] EXCEPT !.stage = "reserved", !.upload = "pending"]
<1>1. calls[w].pc = "reserve" /\ Underway(calls[w])
  BY DEF Reserve, At, Underway
<1>2. /\ Op(w) \in Operation /\ ops[Op(w)] \in OpType /\ calls[w] \in CallType /\ CopyOK(calls[w], ops, claims)
      /\ Holds(calls[w], ops) => HolderOK(calls[w], ops, stored, inflight)
      /\ StagesOK(ops[Op(w)], claims) /\ OpOK(Op(w), ops, stored, inflight, track)
      /\ track \in TrackType /\ inflight \subseteq Operation
  BY <1>1, Underways DEF Inv, TypeOK, TrackType
<1>3. CASE Throw(w) /\ UNCHANGED <<ops, track>>
  <2>1. UNCHANGED <<ops, track, stored, inflight, claims>>
    BY <1>3 DEF Reserve
  <2>2. Works(calls[w]) \/ Doc(w).stage \in Final
    BY <1>1 DEF Works, Looking, Doc
  <2> QED
    BY <1>1, <1>3, <2>1, <2>2, Gives
<1>4. CASE ~(Throw(w) /\ UNCHANGED <<ops, track>>)
  <2>1. /\ Doc(w).source = track.active /\ track.cleanup = None /\ track.pending \in {None, Op(w)}
        /\ ops[Op(w)].owner = Doc(w).owner /\ ~ops[Op(w)].cancel
        /\ track' = [track EXCEPT !.pending = Op(w)] /\ ops' = [ops EXCEPT ![Op(w)] = e] /\ Learn(w, e, "target")
        /\ UNCHANGED <<stored, inflight, claims>>
    BY <1>4 DEF Reserve, SourceUnchanged, Owns
  <2>2. Doc(w).stage \notin Final
    BY <1>2, <2>1 DEF CopyOK, StagesOK, OpOK, Final, Op, Doc
  <2>3. Holds(calls[w], ops)
    BY <1>1, <2>1, <2>2 DEF Holds, Works, Looking, Op, Doc
  <2>4. ~LatePuts => Op(w) \notin inflight
    BY <1>1, <1>2, <2>3 DEF HolderOK, Op
  <2>5. /\ e \in OpType /\ e.stage = "reserved" /\ e.owner = ops[Op(w)].owner /\ e.source = ops[Op(w)].source
        /\ e.cancel = ops[Op(w)].cancel /\ e.mayPut = ops[Op(w)].mayPut
    BY <1>2 DEF OpType, Stage
  <2> HIDE DEF e
  <2>6. PICK d \in CallType : calls' = [calls EXCEPT ![w] = d] /\ d.op = Op(w) /\ d.doc = Copy(e) /\ d.pc = "target"
    BY <1>1, <2>1, <2>5, Learnt DEF Place
  <2>7. PlaceOK(d)
    BY <2>5, <2>6, CopyFacts DEF PlaceOK, Sending, Cancelling, Finishing, Reserved
  <2>8. /\ track' \in TrackType /\ track'.active = track.active /\ track'.cleanup = track.cleanup
        /\ track'.pending = Op(w)
    BY <1>2, <2>1 DEF TrackType
  <2>9. \A p \in Operation \ {Op(w)} : track'.pending = p <=> track.pending = p
    BY <2>1, <2>8 DEF ConversionAssumption
  <2>10. track'.pending = Op(w) <=> e.stage \in Reserved
    BY <2>5, <2>8 DEF Reserved
  <2>11. /\ ~e.mayPut => Op(w) \notin stored \union inflight'
         /\ inflight' \subseteq Operation /\ inflight' \ {Op(w)} = inflight \ {Op(w)} /\ stored' = stored /\ claims' = claims
    BY <1>2, <2>1, <2>5 DEF OpOK
  <2>12. /\ d.pc \in Place \ {"idle", "claim", "reject"} /\ d.pc # "cleared" /\ d.pc \notin Found
    BY <2>6 DEF Place, Found
  <2>13. /\ ~LatePuts => Op(w) \notin inflight'
         /\ e.stage \notin {"none", "attached", "cancelled"}
    BY <2>1, <2>4, <2>5
  <2> QED
    BY <1>1, <2>1, <2>3, <2>5, <2>6, <2>7, <2>8, <2>9, <2>10, <2>11, <2>12, <2>13, QuietStep
<1> QED
  BY <1>3, <1>4

(* From the dispatch on the object may come.                               *)
LEMMA DispatchKeeps ==
    ASSUME ConversionAssumption, Inv, NEW w \in Worker, Dispatch(w)
    PROVE  Keeps
<1> DEFINE e == [ops[Op(w)] EXCEPT !.stage = "sent", !.upload = "unknown", !.mayPut = TRUE]
<1>1. calls[w].pc = "dispatch" /\ Underway(calls[w]) /\ calls[w].pc \in Sending
  BY DEF Dispatch, At, Underway, Sending
<1>2. CASE Throw(w) /\ UNCHANGED <<ops, inflight>>
  <2>1. UNCHANGED <<ops, track, stored, inflight, claims>>
    BY <1>2 DEF Dispatch
  <2> QED
    BY <1>1, <1>2, <2>1, GivesUp
<1>3. CASE ~(Throw(w) /\ UNCHANGED <<ops, inflight>>)
  <2>1. /\ Owns(w) /\ ops' = [ops EXCEPT ![Op(w)] = [@ EXCEPT !.stage = "sent", !.upload = "unknown", !.mayPut = TRUE]]
        /\ calls' = [calls EXCEPT ![w].pc = "put", ![w].doc = Copy(e), ![w].first = ~Doc(w).mayPut]
        /\ inflight' = inflight \union {Op(w)} /\ UNCHANGED <<track, stored, claims>>
    BY <1>3 DEF Dispatch, Copy
  <2>2. /\ Holds(calls[w], ops) /\ Op(w) \in Operation /\ ops[Op(w)] \in OpType /\ ops[Op(w)].stage \in Reserved
        /\ OpOK(Op(w), ops, stored, inflight, track) /\ track \in TrackType /\ inflight \subseteq Operation
    BY <1>1, <2>1, OwnerFacts DEF Owns
  <2>3. /\ e \in OpType /\ e.stage = "sent" /\ e.owner = ops[Op(w)].owner /\ e.source = ops[Op(w)].source
        /\ e.cancel = ops[Op(w)].cancel /\ e.mayPut /\ e.live = ops[Op(w)].live
    BY <2>2 DEF OpType, Stage
  <2>4. ops' = [ops EXCEPT ![Op(w)] = e]
    BY <2>1, <2>2 DEF Inv, TypeOK
  <2>5. calls[w] \in CallType /\ Doc(w).mayPut \in BOOLEAN
    BY <1>1, Underways DEF OpType
  <2> HIDE DEF e
  <2> DEFINE x == Copy(e)
             d == [calls[w] EXCEPT !.pc = "put", !.doc = x, !.first = ~Doc(w).mayPut]
  <2>6. x \in OpType /\ x.stage = "sent"
    BY <2>3, CopyFacts
  <2>7. calls' = [calls EXCEPT ![w] = d]
    BY <2>1 DEF Inv, TypeOK
  <2> HIDE DEF x
  <2>8. d \in CallType /\ d.op = Op(w) /\ d.doc = x /\ d.pc = "put"
    BY <2>5, <2>6 DEF CallType, Op, Place
  <2> HIDE DEF d
  <2>9. PlaceOK(d)
    BY <2>6, <2>8 DEF PlaceOK, Sending, Cancelling, Finishing, Reserved
  <2>10. /\ track' \in TrackType /\ track'.active = track.active /\ track'.cleanup = track.cleanup
         /\ \A p \in Operation \ {Op(w)} : track'.pending = p <=> track.pending = p
         /\ track'.pending = Op(w) <=> e.stage \in Reserved
    BY <2>1, <2>2, <2>3 DEF OpOK, Reserved
  <2>11. /\ inflight' \subseteq Operation /\ inflight' \ {Op(w)} = inflight \ {Op(w)} /\ stored' = stored
         /\ claims' = claims
    BY <2>1, <2>2
  <2>12. /\ d.pc \in Place \ {"idle", "claim", "reject"} /\ d.pc # "cleared" /\ d.pc \notin Found
    BY <2>8 DEF Place, Found
  <2>13. e.live /\ e.stage \notin {"none", "attached", "cancelled"}
    BY <2>1, <2>3 DEF Owns
  <2> QED
    BY <1>1, <2>2, <2>3, <2>4, <2>7, <2>8, <2>9, <2>10, <2>11, <2>12, <2>13, QuietStep DEF x
<1> QED
  BY <1>2, <1>3

(* A rejected first attempt and a finished cancellation free the track.    *)
LEMMA UnreservedFacts ==
    ASSUME ConversionAssumption, track \in TrackType, NEW o \in Operation, track' = Unreserved(o)
    PROVE  /\ track' \in TrackType /\ track'.active = track.active /\ track'.cleanup = track.cleanup
           /\ \A p \in Operation \ {o} : track'.pending = p <=> track.pending = p
           /\ track'.pending # o
  BY DEF TrackType, Unreserved, ConversionAssumption

LEMMA RejectKeeps ==
    ASSUME ConversionAssumption, Inv, NEW w \in Worker, Reject(w)
    PROVE  Keeps
<1> DEFINE e == [ops[Op(w)] EXCEPT !.stage = "prepared", !.upload = "failed", !.mayPut = FALSE]
<1>1. calls[w].pc = "reject" /\ Underway(calls[w]) /\ calls[w].pc \in Sending
  BY DEF Reject, At, Underway, Sending
<1>2. CASE Throw(w) /\ UNCHANGED <<ops, track>>
  <2>1. UNCHANGED <<ops, track, stored, inflight, claims>>
    BY <1>2 DEF Reject
  <2> QED
    BY <1>1, <1>2, <2>1, GivesUp
<1>3. CASE ~(Throw(w) /\ UNCHANGED <<ops, track>>)
  <2>1. /\ ops[Op(w)].owner = Doc(w).owner /\ ops' = [ops EXCEPT ![Op(w)] = e]
        /\ track' = Unreserved(Op(w)) /\ Learn(w, e, "release") /\ UNCHANGED <<stored, inflight, claims>>
    BY <1>3 DEF Reject
  <2>2. /\ Holds(calls[w], ops) /\ Op(w) \in Operation /\ ops[Op(w)] \in OpType
        /\ HolderOK(calls[w], ops, stored, inflight) /\ track \in TrackType /\ inflight \subseteq Operation
    BY <1>1, <2>1, OwnerFacts
  <2>3. /\ e \in OpType /\ e.stage = "prepared" /\ e.owner = ops[Op(w)].owner /\ e.source = ops[Op(w)].source
        /\ e.cancel = ops[Op(w)].cancel
    BY <2>2 DEF OpType, Stage
  <2> HIDE DEF e
  <2>4. PICK d \in CallType : calls' = [calls EXCEPT ![w] = d] /\ d.op = Op(w) /\ d.doc = Copy(e) /\ d.pc = "release"
    BY <1>1, <2>1, <2>3, Learnt DEF Place
  <2>5. PlaceOK(d)
    BY <2>4 DEF PlaceOK, Sending, Cancelling, Finishing
  <2>6. /\ track' \in TrackType /\ track'.active = track.active /\ track'.cleanup = track.cleanup
        /\ \A p \in Operation \ {Op(w)} : track'.pending = p <=> track.pending = p
        /\ track'.pending # Op(w)
    BY <2>1, <2>2, UnreservedFacts
  <2>7. track'.pending = Op(w) <=> e.stage \in Reserved
    BY <2>3, <2>6 DEF Reserved
  <2>8. /\ Op(w) \notin stored \union inflight' /\ inflight' \subseteq Operation
        /\ inflight' \ {Op(w)} = inflight \ {Op(w)} /\ stored' = stored /\ claims' = claims
    BY <1>1, <2>1, <2>2 DEF HolderOK, Op
  <2>9. /\ d.pc \in Place \ {"idle", "claim", "reject"} /\ d.pc # "cleared" /\ d.pc \notin Found
        /\ e.stage \notin {"none", "attached", "cancelled"}
    BY <2>3, <2>4 DEF Place, Found
  <2> QED
    BY <1>1, <2>1, <2>2, <2>3, <2>4, <2>5, <2>6, <2>7, <2>8, <2>9, QuietStep
<1> QED
  BY <1>2, <1>3

LEMMA CancelledKeeps ==
    ASSUME ConversionAssumption, Inv, NEW w \in Worker, Cancelled(w)
    PROVE  Keeps
<1> DEFINE e == [ops[Op(w)] EXCEPT !.stage = "cancelled", !.upload = "failed", !.cleanup = FALSE]
<1>1. calls[w].pc = "cancelled" /\ Underway(calls[w]) /\ calls[w].pc \in Cancelling
  BY DEF Cancelled, At, Underway, Cancelling
<1>2. CASE Throw(w) /\ UNCHANGED <<ops, track>>
  <2>1. UNCHANGED <<ops, track, stored, inflight, claims>>
    BY <1>2 DEF Cancelled
  <2> QED
    BY <1>1, <1>2, <2>1, GivesUp
<1>3. CASE ~(Throw(w) /\ UNCHANGED <<ops, track>>)
  <2>1. /\ ops[Op(w)].owner = Doc(w).owner /\ ops[Op(w)].cancel /\ ops' = [ops EXCEPT ![Op(w)] = e]
        /\ track' = Unreserved(Op(w)) /\ Learn(w, e, "release") /\ UNCHANGED <<stored, inflight, claims>>
    BY <1>3 DEF Cancelled
  <2>2. /\ Holds(calls[w], ops) /\ Op(w) \in Operation /\ ops[Op(w)] \in OpType /\ PlaceOK(calls[w])
        /\ OpOK(Op(w), ops, stored, inflight, track) /\ ops[Op(w)].stage \notin {"attached", "none"}
        /\ ops[Op(w)].mayPut = Doc(w).mayPut /\ ops[Op(w)].identity = Doc(w).identity
        /\ HolderOK(calls[w], ops, stored, inflight) /\ track \in TrackType /\ inflight \subseteq Operation
    BY <1>1, <2>1, OwnerFacts DEF Final
  <2>3. /\ e \in OpType /\ e.stage = "cancelled" /\ e.owner = ops[Op(w)].owner /\ e.source = ops[Op(w)].source
        /\ e.cancel = ops[Op(w)].cancel /\ e.mayPut = ops[Op(w)].mayPut /\ e.identity = ops[Op(w)].identity
    BY <2>2 DEF OpType, Stage
  <2> HIDE DEF e
  <2>4. PICK d \in CallType : calls' = [calls EXCEPT ![w] = d] /\ d.op = Op(w) /\ d.doc = Copy(e) /\ d.pc = "release"
    BY <1>1, <2>1, <2>3, Learnt DEF Place
  <2>5. PlaceOK(d)
    BY <2>4 DEF PlaceOK, Sending, Cancelling, Finishing
  <2>6. /\ track' \in TrackType /\ track'.active = track.active /\ track'.cleanup = track.cleanup
        /\ \A p \in Operation \ {Op(w)} : track'.pending = p <=> track.pending = p
        /\ track'.pending # Op(w)
    BY <2>1, <2>2, UnreservedFacts
  <2>7. track'.pending = Op(w) <=> e.stage \in Reserved
    BY <2>3, <2>6 DEF Reserved
  <2>8. /\ ~e.mayPut => Op(w) \notin stored \union inflight'
        /\ inflight' \subseteq Operation /\ inflight' \ {Op(w)} = inflight \ {Op(w)} /\ stored' = stored /\ claims' = claims
    BY <2>1, <2>2, <2>3 DEF OpOK
  <2>9. /\ d.pc \in Place \ {"idle", "claim", "reject"} /\ d.pc # "cleared" /\ d.pc \notin Found
        /\ e.stage \notin {"none", "attached"}
    BY <2>3, <2>4 DEF Place, Found
  <2>10. e.cancel /\ (e.identity \/ ~e.mayPut)
    BY <1>1, <2>1, <2>2, <2>3 DEF PlaceOK, Doc
  <2>11. ~LatePuts => Op(w) \notin inflight'
    BY <1>1, <2>1, <2>2 DEF HolderOK, Op
  <2> QED
    BY <1>1, <2>1, <2>2, <2>3, <2>4, <2>5, <2>6, <2>7, <2>8, <2>9, <2>10, <2>11, QuietStep
<1> QED
  BY <1>2, <1>3

(* The installation: the track shows the output, whose object is there, and *)
(* remembers the bytes it replaced.                                        *)
LEMMA InstallKeeps ==
    ASSUME ConversionAssumption, Inv, NEW w \in Worker, calls[w].pc = "attach", MayInstall(w),
           NEW e \in OpType,
           e = [ops[Op(w)] EXCEPT !.stage = "attached", !.identity = TRUE, !.upload = "ready", !.cleanup = TRUE],
           ops' = [ops EXCEPT ![Op(w)] = e], Learn(w, e, "finish"),
           track' = [active |-> Op(w), pending |-> None, cleanup |-> Doc(w).source, rev |-> track.rev + 1],
           UNCHANGED <<stored, inflight, claims>>
    PROVE  Keeps
<1>1. Underway(calls[w]) /\ calls[w].pc \in Sending
  BY DEF Underway, Sending
<1>2. /\ ops[Op(w)].owner = Doc(w).owner /\ ~ops[Op(w)].cancel
      /\ Doc(w).source = track.active /\ track.pending = Op(w) /\ track.cleanup = None
  BY DEF MayInstall, Owns, SourceUnchanged
<1>3. /\ Holds(calls[w], ops) /\ Op(w) \in Operation /\ ops[Op(w)] \in OpType /\ ops[Op(w)].stage \in Reserved
      /\ OpOK(Op(w), ops, stored, inflight, track) /\ HolderOK(calls[w], ops, stored, inflight)
      /\ StagesOK(ops[Op(w)], claims) /\ track \in TrackType /\ inflight \subseteq Operation /\ stored \subseteq Key
  BY <1>1, <1>2, OwnerFacts
<1>4. /\ CopyOK(calls[w], ops, claims) /\ calls[w] \in CallType /\ ops \in [Operation -> OpType]
  BY <1>1, Underways DEF Inv, TypeOK
<1>5. /\ e.stage = "attached" /\ e.owner = ops[Op(w)].owner /\ e.source = ops[Op(w)].source /\ e.cancel = ops[Op(w)].cancel
      /\ e.mayPut = ops[Op(w)].mayPut /\ e.cleanup
  BY <1>3 DEF OpType
<1>6. PICK d \in CallType : calls' = [calls EXCEPT ![w] = d] /\ d.op = Op(w) /\ d.doc = Copy(e) /\ d.pc = "finish"
  BY <1>1, Learnt DEF Place
<1>7. PlaceOK(d)
  BY <1>5, <1>6, CopyFacts DEF PlaceOK, Sending, Cancelling, Finishing
<1>8. Op(w) \in stored /\ (~LatePuts => Op(w) \notin inflight) /\ ops[Op(w)].source = Doc(w).source
  BY <1>2, <1>3, <1>4 DEF HolderOK, Found, CopyOK, Op, Doc
<1>9. ops' \in [Operation -> OpType] /\ ops'[Op(w)] = e /\ \A o \in Operation : o # Op(w) => ops'[o] = ops[o]
  BY <1>3, <1>4
<1>10. \A k : WasShown(k, ops) => WasShown(k, ops')
  BY <1>3, <1>5, <1>9 DEF WasShown, Reserved
<1>11. /\ track' \in TrackType /\ track'.active = Op(w) /\ track'.pending = None /\ track'.cleanup = Doc(w).source
  BY <1>2, <1>3 DEF TrackType, Key
<1>12. TrackOK(ops', stored', track')
  BY <1>3, <1>5, <1>8, <1>9, <1>11 DEF TrackOK, WasShown
<1>13. StagesOK(e, claims') /\ OpOK(Op(w), ops', stored', inflight', track')
  <2>1. StagesOK(e, claims')
    BY <1>2, <1>3, <1>5 DEF StagesOK
  <2>2. WasShown(ops[Op(w)].source, ops)
    BY <1>3 DEF OpOK, Reserved
  <2>3. WasShown(e.source, ops')
    BY <1>5, <1>10, <2>2
  <2>4. e.source # Op(w)
    BY <1>3, <1>5, <2>2 DEF WasShown, Reserved, ConversionAssumption
  <2>5. Remembered(ops'[Op(w)], stored', track')
    BY <1>5, <1>8, <1>9, <1>11 DEF Remembered
  <2>6. ~e.mayPut => Op(w) \notin stored' \union inflight'
    BY <1>3, <1>5 DEF OpOK
  <2>7. track'.pending # Op(w) /\ e.stage \notin Reserved
    BY <1>3, <1>5, <1>11 DEF ConversionAssumption, Reserved
  <2> QED
    BY <1>5, <1>8, <1>9, <1>11, <2>1, <2>3, <2>4, <2>5, <2>6, <2>7 DEF OpOK
<1>14. ASSUME NEW p \in Operation, p # Op(w) PROVE StagesOK(ops'[p], claims') /\ OpOK(p, ops', stored', inflight', track')
  <2>1. StagesOK(ops[p], claims) /\ OpOK(p, ops, stored, inflight, track) /\ ops'[p] = ops[p] /\ ops[p] \in OpType
    BY <1>4, <1>9, <1>14 DEF Inv
  <2>2. track'.pending # p /\ track.pending # p
    BY <1>2, <1>11, <1>14 DEF ConversionAssumption
  <2>3. ops[p].stage = "attached" => ops[p].source # Op(w)
    BY <1>3, <2>1 DEF OpOK, WasShown, Reserved, ConversionAssumption
  <2>4. ~LatePuts => Remembered(ops'[p], stored', track')
    <3>1. ops[p].source \in stored => ops[p].source # None
      BY <1>3 DEF ConversionAssumption, Key
    <3> QED
      BY <1>2, <2>1, <3>1 DEF Remembered, OpOK
  <2>5. ops[p].stage # "none" => WasShown(ops[p].source, ops')
    BY <1>10, <2>1 DEF OpOK
  <2>6. /\ ~ops[p].mayPut => p \notin stored' \union inflight'
        /\ ~LatePuts /\ p \in inflight' => ops[p].live /\ ops[p].owner # 0 /\ ops[p].stage = "sent"
        /\ ops[p].stage \notin Reserved
    BY <2>1, <2>2 DEF OpOK
  <2>7. StagesOK(ops'[p], claims')
    BY <2>1
  <2> QED
    BY <1>11, <2>1, <2>2, <2>3, <2>4, <2>5, <2>6, <2>7 DEF OpOK
<1>15. \A o \in Operation : StagesOK(ops'[o], claims') /\ OpOK(o, ops', stored', inflight', track')
  BY <1>9, <1>13, <1>14
<1>16. /\ d.pc \in Place \ {"idle", "claim", "reject"} /\ d.pc # "cleared" /\ d.pc \notin Found
       /\ inflight' \ {Op(w)} = inflight \ {Op(w)} /\ inflight' \subseteq Operation /\ stored' = stored /\ claims' = claims
       /\ (~LatePuts => Op(w) \notin inflight') /\ e.stage # "none"
  BY <1>3, <1>5, <1>6, <1>8 DEF Place, Found
<1> QED
  BY <1>1, <1>3, <1>5, <1>6, <1>7, <1>11, <1>12, <1>15, <1>16, OwnStep

LEMMA AttachKeeps ==
    ASSUME ConversionAssumption, Inv, NEW w \in Worker, Attach(w)
    PROVE  Keeps
<1>1. calls[w].pc = "attach" /\ Underway(calls[w]) /\ calls[w].pc \in Sending
  BY DEF Attach, At, Underway, Sending
<1>2. /\ Op(w) \in Operation /\ ops[Op(w)] \in OpType /\ calls[w] \in CallType
      /\ StagesOK(ops[Op(w)], claims) /\ ops[Op(w)].stage # "none" /\ CopyOK(calls[w], ops, claims)
  BY <1>1, Underways
<1>3. UNCHANGED <<stored, inflight, claims>>
  BY DEF Attach
<1> DEFINE e == [ops[Op(w)] EXCEPT !.stage = "attached", !.identity = TRUE, !.upload = "ready", !.cleanup = TRUE]
<1>4. \/ ops[Op(w)].stage = "attached" /\ Learn(w, ops[Op(w)], "finish") /\ UNCHANGED <<ops, track>>
      \/ /\ MayInstall(w) /\ ops' = [ops EXCEPT ![Op(w)] = e] /\ Learn(w, e, "finish")
         /\ track' = [active |-> Op(w), pending |-> None, cleanup |-> Doc(w).source, rev |-> track.rev + 1]
      \/ Throw(w) /\ UNCHANGED <<ops, track>>
  BY DEF Attach
<1>5. e \in OpType
  BY <1>2 DEF OpType, Stage
<1>6. CASE ops[Op(w)].stage = "attached" /\ Learn(w, ops[Op(w)], "finish") /\ UNCHANGED <<ops, track>>
  <2>1. PICK d \in CallType :
            calls' = [calls EXCEPT ![w] = d] /\ d.op = Op(w) /\ d.doc = Copy(ops[Op(w)]) /\ d.pc = "finish"
    BY <1>1, <1>2, <1>6, Learnt DEF Place
  <2>2. /\ d.doc.stage = "attached" /\ d.doc.source = ops[Op(w)].source /\ d.doc.cancel = ops[Op(w)].cancel
        /\ d.doc.owner = ops[Op(w)].owner
    BY <1>2, <1>6, <2>1, CopyFacts
  <2>3. ~Works(d)
    BY <2>2 DEF Works, Final
  <2>4. CallOK(d, ops, claims, stored, inflight)
    BY <1>2, <1>6, <2>1, <2>2, <2>3 DEF CallOK, CopyOK, PlaceOK, GoneOK, Holds, StagesOK, Sending, Cancelling, Finishing
  <2> QED
    BY <1>3, <1>6, <2>1, <2>3, <2>4, WalkStep
<1>7. CASE Throw(w) /\ UNCHANGED <<ops, track>>
  BY <1>1, <1>3, <1>7, GivesUp
<1> HIDE DEF e
<1>8. CASE /\ MayInstall(w) /\ ops' = [ops EXCEPT ![Op(w)] = e] /\ Learn(w, e, "finish")
           /\ track' = [active |-> Op(w), pending |-> None, cleanup |-> Doc(w).source, rev |-> track.rev + 1]
  BY <1>1, <1>3, <1>5, <1>8, InstallKeeps DEF e
<1> QED
  BY <1>4, <1>6, <1>7, <1>8

-----------------------------------------------------------------------------
(* After the attachment.                                                   *)

(* What is noted on an attached operation: the publication's outcome, and  *)
(* that the replaced bytes are not gone yet, or that they are.             *)
LEMMA NotedStep ==
    ASSUME ConversionAssumption, Inv, NEW w \in Worker, calls[w].pc \in Finishing,
           NEW e \in OpType, NEW x \in OpType, NEW place \in (Finishing \union {"release"}) \ {"cleared"},
           ops' = [ops EXCEPT ![Op(w)] = e], calls' = [calls EXCEPT ![w].pc = place, ![w].doc = x],
           e.stage = "attached", e.source = ops[Op(w)].source, e.owner = ops[Op(w)].owner, e.cancel = ops[Op(w)].cancel,
           e.mayPut = ops[Op(w)].mayPut, e.identity = ops[Op(w)].identity, e.live = ops[Op(w)].live,
           x.stage = "attached", x.source = Doc(w).source, x.cancel => Doc(w).cancel \/ ops[Op(w)].cancel, x.owner <= claims,
           UNCHANGED <<stored, inflight, claims>>,
           track' \in TrackType, track'.active = track.active, track'.pending = track.pending,
           ~LatePuts => /\ Remembered(e, stored, track')
                       /\ \A p \in Operation \ {Op(w)} : Remembered(ops[p], stored, track')
    PROVE  Keeps
<1>1. Underway(calls[w])
  BY DEF Underway, Finishing
<1>2. /\ calls[w] \in CallType /\ Op(w) \in Operation /\ ops[Op(w)] \in OpType /\ PlaceOK(calls[w])
      /\ CopyOK(calls[w], ops, claims) /\ StagesOK(ops[Op(w)], claims) /\ OpOK(Op(w), ops, stored, inflight, track)
      /\ ops \in [Operation -> OpType] /\ claims \in 0..MaxClaims /\ calls \in [Worker -> CallType]
  BY <1>1, Underways DEF Inv, TypeOK, CallType
<1>3. ops[Op(w)].stage = "attached" /\ ops[Op(w)].source = Doc(w).source
  BY <1>2 DEF PlaceOK, CopyOK, Final, Op, Doc
<1> DEFINE d == [calls[w] EXCEPT !.pc = place, !.doc = x]
<1>4. calls' = [calls EXCEPT ![w] = d]
  BY <1>2
<1>5. d \in CallType /\ d.op = Op(w) /\ d.doc = x /\ d.pc = place
  BY <1>2 DEF CallType, Op, Place, Finishing
<1> HIDE DEF d
<1>6. ops' \in [Operation -> OpType] /\ ops'[Op(w)] = e /\ \A o \in Operation : o # Op(w) => ops'[o] = ops[o]
  BY <1>2
<1>7. Onward(ops, ops') /\ \A k : WasShown(k, ops) <=> WasShown(k, ops')
  BY <1>3, <1>6 DEF Onward, WasShown
<1>8. ~Works(d)
  BY <1>5 DEF Works, Final
<1>9. CallOK(d, ops', claims', stored', inflight')
  <2>1. PlaceOK(d) /\ GoneOK(d, stored')
    BY <1>5 DEF PlaceOK, GoneOK, Sending, Cancelling, Finishing
  <2>2. CopyOK(d, ops', claims')
    BY <1>2, <1>3, <1>5, <1>6, <1>8 DEF CopyOK, Op, Doc
  <2> QED
    BY <1>2, <1>5, <1>6, <1>8, <2>1, <2>2 DEF CallOK, Holds
<1>10. ASSUME NEW v \in Worker \ {w}
       PROVE  /\ Holds(calls[v], ops') => Holds(calls[v], ops) /\ HolderOK(calls[v], ops', stored', inflight')
              /\ GoneOK(calls[v], stored')
  <2>1. CallOK(calls[v], ops, claims, stored, inflight)
    BY DEF Inv
  <2>2. calls[v].pc \notin {"idle", "claim"} => calls[v].op \in Operation
    BY <2>1 DEF CallOK
  <2>3. calls[v].op \in Operation =>
           /\ ops'[calls[v].op].owner = ops[calls[v].op].owner /\ ops'[calls[v].op].stage = ops[calls[v].op].stage
           /\ ops'[calls[v].op].mayPut = ops[calls[v].op].mayPut /\ ops'[calls[v].op].cancel = ops[calls[v].op].cancel
           /\ ops'[calls[v].op].identity = ops[calls[v].op].identity
    BY <1>3, <1>6
  <2> QED
    BY <2>1, <2>2, <2>3 DEF CallOK, Holds, HolderOK, GoneOK, Works, Looking, Sending, Cancelling
<1>11. TrackOK(ops', stored', track')
  BY <1>7 DEF TrackOK, Inv
<1>12. ASSUME NEW p \in Operation PROVE StagesOK(ops'[p], claims') /\ OpOK(p, ops', stored', inflight', track')
  <2>1. StagesOK(ops[p], claims) /\ OpOK(p, ops, stored, inflight, track)
    BY DEF Inv
  <2>2. /\ ops'[p].stage = ops[p].stage /\ ops'[p].source = ops[p].source /\ ops'[p].owner = ops[p].owner
        /\ ops'[p].cancel = ops[p].cancel /\ ops'[p].mayPut = ops[p].mayPut /\ ops'[p].identity = ops[p].identity
        /\ ops'[p].live = ops[p].live
    BY <1>3, <1>6
  <2>3. ~LatePuts => Remembered(ops'[p], stored', track')
    BY <1>6
  <2>4. WasShown(ops[p].source, ops) <=> WasShown(ops'[p].source, ops')
    BY <1>7, <2>2
  <2> QED
    BY <2>1, <2>2, <2>3, <2>4 DEF StagesOK, OpOK
<1>13. stored' \subseteq Key /\ inflight' \subseteq Operation /\ claims' \in 0..MaxClaims /\ claims <= claims'
  BY <1>2 DEF Inv, TypeOK, ConversionAssumption
<1> QED
  BY <1>4, <1>5, <1>6, <1>7, <1>8, <1>9, <1>10, <1>11, <1>12, <1>13, CallStep

LEMMA FinishNotes ==
    ASSUME ConversionAssumption, Inv, NEW w \in Worker, Settle(w) \/ CleanupFailed(w)
    PROVE  Keeps
<1>1. calls[w].pc \in Finishing /\ Underway(calls[w])
  BY DEF Settle, CleanupFailed, At, Finishing, Underway
<1>2. /\ calls[w] \in CallType /\ Op(w) \in Operation /\ ops[Op(w)] \in OpType /\ PlaceOK(calls[w])
      /\ CopyOK(calls[w], ops, claims) /\ StagesOK(ops[Op(w)], claims) /\ Doc(w) \in OpType /\ claims \in 0..MaxClaims
      /\ track \in TrackType
  BY <1>1, Underways DEF Inv, TypeOK, TrackType
<1>3. ops[Op(w)].stage = "attached" /\ ops[Op(w)].source = Doc(w).source
  BY <1>1, <1>2 DEF PlaceOK, CopyOK, Final, Op, Doc
<1>4. PICK e \in OpType, place \in {"cleanup", "release"} :
        /\ Checkpoint(w, TRUE, e, place) /\ e.stage = ops[Op(w)].stage /\ e.source = ops[Op(w)].source
        /\ e.owner = ops[Op(w)].owner /\ e.cancel = ops[Op(w)].cancel /\ e.mayPut = ops[Op(w)].mayPut
        /\ e.identity = ops[Op(w)].identity /\ e.live = ops[Op(w)].live /\ (e.cleanup = ops[Op(w)].cleanup \/ e.cleanup)
  <2>1. CASE Settle(w)
    <3> DEFINE e == [ops[Op(w)] EXCEPT !.publication = Doc(w).publication]
    <3>1. /\ e \in OpType /\ e.stage = ops[Op(w)].stage /\ e.source = ops[Op(w)].source
          /\ e.owner = ops[Op(w)].owner /\ e.cancel = ops[Op(w)].cancel /\ e.mayPut = ops[Op(w)].mayPut
          /\ e.identity = ops[Op(w)].identity /\ e.live = ops[Op(w)].live /\ e.cleanup = ops[Op(w)].cleanup
      BY <1>2 DEF OpType
    <3>2. Checkpoint(w, TRUE, e, "cleanup")
      BY <2>1 DEF Settle
    <3> HIDE DEF e
    <3> QED
      BY <3>1, <3>2
  <2>2. CASE CleanupFailed(w)
    <3> DEFINE e == [ops[Op(w)] EXCEPT !.cleanup = TRUE]
    <3>1. /\ e \in OpType /\ e.stage = ops[Op(w)].stage /\ e.source = ops[Op(w)].source
          /\ e.owner = ops[Op(w)].owner /\ e.cancel = ops[Op(w)].cancel /\ e.mayPut = ops[Op(w)].mayPut
          /\ e.identity = ops[Op(w)].identity /\ e.live = ops[Op(w)].live /\ e.cleanup
      BY <1>2 DEF OpType
    <3>2. Checkpoint(w, TRUE, e, "release")
      BY <2>2 DEF CleanupFailed
    <3> HIDE DEF e
    <3> QED
      BY <3>1, <3>2
  <2> QED
    BY <2>1, <2>2
<1>5. CASE Throw(w) /\ UNCHANGED ops
  <2>1. UNCHANGED <<ops, track, stored, inflight, claims>>
    BY <1>4, <1>5 DEF Checkpoint
  <2> QED
    BY <1>1, <1>5, <2>1, GivesUp
<1>6. CASE ops' = [ops EXCEPT ![Op(w)] = e] /\ Learn(w, e, place)
  <2>1. calls' = [calls EXCEPT ![w].pc = place, ![w].doc = Copy(e)]
    BY <1>6 DEF Learn, Copy
  <2> DEFINE x == Copy(e)
  <2>2. /\ x \in OpType /\ x.stage = "attached" /\ x.source = Doc(w).source /\ x.cancel = ops[Op(w)].cancel
        /\ x.owner = ops[Op(w)].owner /\ ops[Op(w)].owner <= claims
    BY <1>2, <1>3, <1>4, CopyFacts DEF StagesOK
  <2> HIDE DEF x
  <2>3. UNCHANGED <<track, stored, inflight, claims>>
    BY <1>4 DEF Checkpoint
  <2>4. ~LatePuts => /\ Remembered(e, stored, track')
                    /\ \A p \in Operation \ {Op(w)} : Remembered(ops[p], stored, track')
    <3>1. ~LatePuts => \A p \in Operation : Remembered(ops[p], stored, track)
      BY DEF Inv, OpOK
    <3>2. ~LatePuts => Remembered(ops[Op(w)], stored, track)
      BY <1>2, <3>1
    <3>3. track' = track
      BY <2>3
    <3> QED
      BY <1>3, <1>4, <3>1, <3>2, <3>3 DEF Remembered
  <2>5. place \in (Finishing \union {"release"}) \ {"cleared"}
    BY DEF Finishing
  <2>6. calls' = [calls EXCEPT ![w].pc = place, ![w].doc = x]
    BY <2>1 DEF x
  <2>7. track' \in TrackType /\ track'.active = track.active /\ track'.pending = track.pending
    BY <1>2, <2>3
  <2> QED
    BY <1>1, <1>3, <1>4, <1>6, <2>2, <2>3, <2>4, <2>5, <2>6, <2>7, NotedStep
<1> QED
  BY <1>4, <1>5, <1>6 DEF Checkpoint

(* Only when the replaced bytes are seen gone are they forgotten.          *)
LEMMA ClearedKeeps ==
    ASSUME ConversionAssumption, Inv, NEW w \in Worker, Cleared(w)
    PROVE  Keeps
<1>1. calls[w].pc = "cleared" /\ calls[w].pc \in Finishing /\ Underway(calls[w])
  BY DEF Cleared, At, Finishing, Underway
<1>2. /\ calls[w] \in CallType /\ Op(w) \in Operation /\ ops[Op(w)] \in OpType /\ PlaceOK(calls[w])
      /\ CopyOK(calls[w], ops, claims) /\ StagesOK(ops[Op(w)], claims) /\ Doc(w) \in OpType /\ claims \in 0..MaxClaims
      /\ track \in TrackType /\ GoneOK(calls[w], stored) /\ ops \in [Operation -> OpType]
  BY <1>1, Underways DEF Inv, TypeOK, TrackType
<1>3. ops[Op(w)].stage = "attached" /\ ops[Op(w)].source = Doc(w).source /\ Doc(w).stage = "attached" /\ Doc(w).owner <= claims
  BY <1>1, <1>2 DEF PlaceOK, CopyOK, Final, Op, Doc
<1> DEFINE b == ops[Op(w)].cleanup /\ ops[Op(w)].owner # Doc(w).owner
           e == [ops[Op(w)] EXCEPT !.cleanup = b]
           x == [[Doc(w) EXCEPT !.cleanup = FALSE] EXCEPT !.live = FALSE]
<1>4. b \in BOOLEAN
  BY <1>2 DEF OpType
<1>5. ops' = [ops EXCEPT ![Op(w)] = e] /\ calls' = [calls EXCEPT ![w].pc = "release", ![w].doc = x]
  BY <1>2 DEF Cleared, Learn
<1> HIDE DEF b
<1>6. /\ e \in OpType /\ e.stage = "attached" /\ e.source = ops[Op(w)].source /\ e.owner = ops[Op(w)].owner
      /\ e.cancel = ops[Op(w)].cancel /\ e.mayPut = ops[Op(w)].mayPut /\ e.identity = ops[Op(w)].identity
      /\ e.live = ops[Op(w)].live
  BY <1>2, <1>3, <1>4 DEF OpType
<1>7. x \in OpType /\ x.stage = "attached" /\ x.source = Doc(w).source /\ x.cancel = Doc(w).cancel /\ x.owner <= claims
  BY <1>2, <1>3 DEF OpType
<1> HIDE DEF e, x
<1>8. /\ track' \in TrackType /\ track'.active = track.active /\ track'.pending = track.pending
      /\ track.cleanup # Doc(w).source => track'.cleanup = track.cleanup
  BY <1>2 DEF Cleared, TrackType
<1>9. ~LatePuts => Doc(w).source \notin stored
  BY <1>1, <1>2 DEF GoneOK, Doc
<1>10. ~LatePuts => /\ Remembered(e, stored, track')
                   /\ \A p \in Operation \ {Op(w)} : Remembered(ops[p], stored, track')
  <2>1. ~LatePuts => \A p \in Operation : Remembered(ops[p], stored, track)
    BY DEF Inv, OpOK
  <2> QED
    BY <1>3, <1>6, <1>8, <1>9, <2>1 DEF Remembered
<1>11. UNCHANGED <<stored, inflight, claims>> /\ "release" \in (Finishing \union {"release"}) \ {"cleared"}
  BY DEF Cleared
<1> QED
  BY <1>1, <1>5, <1>6, <1>7, <1>8, <1>10, <1>11, NotedStep

-----------------------------------------------------------------------------
(* Leases.                                                                 *)

(* A new lease on an operation nobody holds, perhaps to cancel it.         *)
LEMMA LeaseStep ==
    ASSUME ConversionAssumption, Inv, NEW w \in Worker, NEW o \in Operation, Available(ops[o]), claims < MaxClaims,
           ops[o].stage \notin {"none", "cancelled"}, NEW e \in OpType, NEW d \in CallType,
           e.stage = ops[o].stage, e.source = ops[o].source, e.mayPut = ops[o].mayPut, e.identity = ops[o].identity,
           e.cleanup = ops[o].cleanup, e.owner = claims + 1,
           e.cancel = ops[o].cancel \/ (e.cancel /\ e.stage # "attached"),
           ops' = [ops EXCEPT ![o] = e], calls' = [calls EXCEPT ![w] = d], claims' = claims + 1,
           d.op = o, d.doc = Copy(e), PlaceOK(d),
           d.pc \in (Place \ (Found \union {"idle", "claim", "reject", "cleared"})),
           UNCHANGED <<track, stored, inflight>>
    PROVE  Keeps
<1>1. /\ ops \in [Operation -> OpType] /\ claims \in Nat /\ claims' \in 0..MaxClaims /\ claims <= claims' /\ claims' = claims + 1
      /\ track' \in TrackType /\ stored' \subseteq Key /\ inflight' \subseteq Operation
  BY DEF Inv, TypeOK, TrackType, ConversionAssumption
<1>2. StagesOK(ops[o], claims) /\ OpOK(o, ops, stored, inflight, track) /\ TrackOK(ops, stored, track)
  BY DEF Inv
<1>3. ops' \in [Operation -> OpType] /\ ops'[o] = e /\ \A p \in Operation : p # o => ops'[p] = ops[p]
  BY <1>1
<1>4. Onward(ops, ops') /\ \A k : WasShown(k, ops) <=> WasShown(k, ops')
  BY <1>2, <1>3 DEF Onward, WasShown, StagesOK, Final
<1>5. ASSUME NEW v \in Worker
      PROVE  /\ Holds(calls[v], ops') => Holds(calls[v], ops) /\ HolderOK(calls[v], ops', stored', inflight')
             /\ GoneOK(calls[v], stored')
  <2>1. CallOK(calls[v], ops, claims, stored, inflight) /\ calls[v].doc \in OpType
    BY DEF Inv, TypeOK
  <2>2. GoneOK(calls[v], stored')
    BY <2>1 DEF CallOK, GoneOK
  <2>3. ASSUME Holds(calls[v], ops') PROVE Holds(calls[v], ops) /\ HolderOK(calls[v], ops', stored', inflight')
    <3>1. /\ calls[v].op \in Operation /\ calls[v].doc.owner <= claims /\ Works(calls[v])
          /\ Holds(calls[v], ops) => HolderOK(calls[v], ops, stored, inflight)
      BY <2>1, <2>3 DEF CallOK, CopyOK, Holds, Works, Looking, Sending, Cancelling
    <3>2. calls[v].doc.owner \in Nat
      BY <2>1 DEF OpType
    <3>3. calls[v].op # o
      BY <1>1, <1>3, <2>3, <3>1, <3>2 DEF Holds
    <3> QED
      BY <1>3, <2>3, <3>1, <3>3 DEF Holds, HolderOK
  <2> QED
    BY <2>2, <2>3
<1>6. /\ d.doc.stage = e.stage /\ d.doc.source = e.source /\ d.doc.cancel = e.cancel /\ d.doc.owner = e.owner
      /\ d.doc.mayPut = e.mayPut /\ d.doc.identity = e.identity
  BY CopyFacts
<1>7. ~LatePuts => o \notin inflight
  BY <1>2 DEF OpOK, Available
<1>8. CallOK(d, ops', claims', stored', inflight')
  <2>1. CopyOK(d, ops', claims')
    BY <1>1, <1>3, <1>6 DEF CopyOK
  <2>2. HolderOK(d, ops', stored', inflight')
    BY <1>3, <1>6, <1>7 DEF HolderOK
  <2> QED
    BY <1>3, <2>1, <2>2 DEF CallOK, GoneOK
<1>9. claims < d.doc.owner
  BY <1>1, <1>6
<1>10. TrackOK(ops', stored', track')
  BY <1>2, <1>4 DEF TrackOK
<1>11. ASSUME NEW p \in Operation PROVE StagesOK(ops'[p], claims') /\ OpOK(p, ops', stored', inflight', track')
  <2>1. StagesOK(ops[p], claims) /\ OpOK(p, ops, stored, inflight, track) /\ ops[p].owner \in Nat
    BY <1>1 DEF Inv, OpType
  <2>2. CASE p = o
    <3>1. StagesOK(e, claims')
      BY <1>1, <1>2 DEF StagesOK
    <3>2. WasShown(e.source, ops') <=> WasShown(ops[o].source, ops)
      BY <1>4
    <3>3. Remembered(e, stored', track') <=> Remembered(ops[o], stored, track)
      BY DEF Remembered
    <3> QED
      BY <1>2, <1>3, <1>7, <2>2, <3>1, <3>2, <3>3 DEF OpOK
  <2>3. CASE p # o
    <3>1. ops'[p] = ops[p]
      BY <1>3, <2>3
    <3>2. StagesOK(ops'[p], claims')
      BY <1>1, <2>1, <3>1 DEF StagesOK
    <3>3. WasShown(ops[p].source, ops') <=> WasShown(ops[p].source, ops)
      BY <1>4
    <3>4. Remembered(ops'[p], stored', track') <=> Remembered(ops[p], stored, track)
      BY <3>1
    <3> QED
      BY <2>1, <3>1, <3>2, <3>3, <3>4 DEF OpOK
  <2> QED
    BY <2>2, <2>3
<1> QED
  BY <1>1, <1>3, <1>4, <1>5, <1>8, <1>9, <1>10, <1>11, CallStep

LEMMA ClaimKeeps ==
    ASSUME ConversionAssumption, Inv, NEW w \in Worker, Claim(w)
    PROVE  Keeps
<1> DEFINE o == Op(w)
           next(doc) == IF calls[w].kind = "upload" THEN "source" ELSE ReconcileFrom(doc)
           e == [ops[o] EXCEPT !.owner = claims + 1, !.live = TRUE]
<1>1. /\ calls[w].pc = "claim" /\ calls[w] \in CallType /\ o \in Operation /\ ops[o] \in OpType /\ ops[o].stage # "none"
      /\ StagesOK(ops[o], claims) /\ claims \in 0..MaxClaims /\ calls \in [Worker -> CallType]
  BY DEF Claim, At, Inv, TypeOK, CallType, CallOK, Op
<1>2. UNCHANGED <<track, stored, inflight>>
  BY DEF Claim
<1>3. \/ ops[o].stage = "cancelled" /\ Learn(w, ops[o], next(ops[o])) /\ UNCHANGED <<ops, claims>>
      \/ /\ ops[o].stage # "cancelled" /\ Available(ops[o]) /\ claims < MaxClaims
         /\ ops' = [ops EXCEPT ![o] = e] /\ claims' = claims + 1
         /\ calls' = [calls EXCEPT ![w].pc = next(e), ![w].doc = Copy(e), ![w].mine = claims + 1]
      \/ calls' = [calls EXCEPT ![w] = NoCall] /\ UNCHANGED <<ops, claims>>
  BY DEF Claim, Copy
<1>4. CASE ops[o].stage = "cancelled" /\ Learn(w, ops[o], next(ops[o])) /\ UNCHANGED <<ops, claims>>
  <2>1. next(ops[o]) \in {"source", "release"}
    BY <1>1, <1>4 DEF ReconcileFrom, StagesOK
  <2> DEFINE y == Copy(ops[o])
             d == [calls[w] EXCEPT !.pc = next(ops[o]), !.doc = y]
  <2>2. /\ y \in OpType /\ y.stage = "cancelled" /\ y.source = ops[o].source /\ y.owner = ops[o].owner
        /\ y.cancel = ops[o].cancel /\ ops[o].owner <= claims
    BY <1>1, <1>4, CopyFacts DEF StagesOK
  <2>3. calls' = [calls EXCEPT ![w] = d]
    BY <1>1, <1>4 DEF Learn, Copy
  <2> HIDE DEF y
  <2>4. d \in CallType /\ d.op = o /\ d.doc = y /\ d.pc \in {"source", "release"}
    BY <1>1, <2>1, <2>2 DEF CallType, Op, Place
  <2> HIDE DEF d, o, next
  <2>5. ~Works(d)
    BY <2>2, <2>4 DEF Works, Final
  <2>6. CallOK(d, ops, claims, stored, inflight)
    BY <1>1, <1>4, <2>2, <2>4, <2>5 DEF CallOK, CopyOK, PlaceOK, GoneOK, Holds, Sending, Cancelling, Finishing
  <2> QED
    BY <1>2, <1>4, <2>3, <2>4, <2>5, <2>6, WalkStep
<1>5. CASE /\ ops[o].stage # "cancelled" /\ Available(ops[o]) /\ claims < MaxClaims
           /\ ops' = [ops EXCEPT ![o] = e] /\ claims' = claims + 1
           /\ calls' = [calls EXCEPT ![w].pc = next(e), ![w].doc = Copy(e), ![w].mine = claims + 1]
  <2>1. claims + 1 \in 0..MaxClaims
    BY <1>1, <1>5 DEF ConversionAssumption
  <2>2. /\ e \in OpType /\ e.stage = ops[o].stage /\ e.source = ops[o].source /\ e.mayPut = ops[o].mayPut
        /\ e.identity = ops[o].identity /\ e.cleanup = ops[o].cleanup /\ e.owner = claims + 1 /\ e.cancel = ops[o].cancel
    BY <1>1, <2>1 DEF OpType
  <2> HIDE DEF e
  <2> DEFINE y == Copy(e)
             d == [calls[w] EXCEPT !.pc = next(e), !.doc = y, !.mine = claims + 1]
  <2>3. y \in OpType /\ y.stage = e.stage /\ y.cancel = e.cancel
    BY <2>2, CopyFacts
  <2>4. /\ next(e) \in {"source", "authorize", "finish", "target", "release"}
        /\ next(e) = "authorize" => e.cancel /\ e.stage # "cancelled"
        /\ next(e) = "finish" => e.stage = "attached"
        /\ next(e) = "target" => e.stage \in Reserved
    BY DEF ReconcileFrom, Reserved
  <2>5. calls' = [calls EXCEPT ![w] = d]
    BY <1>1, <1>5
  <2> HIDE DEF y
  <2>6. d \in CallType /\ d.op = o /\ d.doc = y /\ d.pc = next(e)
    BY <1>1, <2>1, <2>3, <2>4 DEF CallType, Op, Place
  <2> HIDE DEF d, o, next
  <2>7. PlaceOK(d)
    BY <1>1, <1>5, <2>2, <2>3, <2>4, <2>6 DEF PlaceOK, Sending, Cancelling, Finishing, StagesOK, Final
  <2>8. d.pc \in Place \ (Found \union {"idle", "claim", "reject", "cleared"})
    BY <2>4, <2>6 DEF Place, Found
  <2>9. d.doc = Copy(e) /\ (e.cancel = ops[o].cancel \/ (e.cancel /\ e.stage # "attached"))
    BY <2>2, <2>6 DEF y
  <2>10. ops[o].stage \notin {"none", "cancelled"} /\ UNCHANGED <<track, stored, inflight>>
    BY <1>1, <1>2, <1>5
  <2> QED
    BY <1>1, <1>5, <2>2, <2>5, <2>6, <2>7, <2>8, <2>9, <2>10, LeaseStep
<1>6. CASE calls' = [calls EXCEPT ![w] = NoCall] /\ UNCHANGED <<ops, claims>>
  <2>1. NoCall \in CallType /\ NoCall.pc = "idle"
    BY DEF NoCall, NoOp, CallType, OpType, Place, Stage, ConversionAssumption
  <2> QED
    BY <1>2, <1>6, <2>1, FreshStep
<1> QED
  BY <1>3, <1>4, <1>5, <1>6

LEMMA NoCallFacts ==
    ASSUME ConversionAssumption
    PROVE  NoOp \in OpType /\ NoCall \in CallType /\ NoCall.pc = "idle"
  BY DEF NoCall, NoOp, CallType, OpType, Place, Stage, ConversionAssumption

LEMMA BeginKeeps ==
    ASSUME ConversionAssumption, Inv, NEW w \in Worker, NEW o \in Operation, BeginUpload(w, o) \/ BeginReconcile(w, o)
    PROVE  Keeps
<1>1. PICK k \in {"upload", "reconcile"} : calls' = [calls EXCEPT ![w] = [NoCall EXCEPT !.pc = "claim", !.op = o, !.kind = k]]
  BY DEF BeginUpload, BeginReconcile
<1> DEFINE d == [NoCall EXCEPT !.pc = "claim", !.op = o, !.kind = k]
<1>2. d \in CallType /\ d.pc = "claim" /\ d.op = o
  BY NoCallFacts DEF CallType, Place, NoCall
<1>3. ops[o].stage # "none" /\ UNCHANGED <<ops, track, stored, inflight, claims>>
  BY DEF BeginUpload, BeginReconcile
<1> HIDE DEF d
<1> QED
  BY <1>1, <1>2, <1>3, FreshStep DEF d

LEMMA BeginCancelKeeps ==
    ASSUME ConversionAssumption, Inv, NEW w \in Worker, NEW o \in Operation, BeginCancel(w, o)
    PROVE  Keeps
<1> DEFINE e == [ops[o] EXCEPT !.cancel = TRUE, !.owner = claims + 1, !.live = TRUE]
<1>1. /\ Available(ops[o]) /\ ops[o].stage \notin {"none", "attached", "cancelled"} /\ claims < MaxClaims
      /\ ops' = [ops EXCEPT ![o] = e] /\ claims' = claims + 1 /\ UNCHANGED <<track, stored, inflight>>
      /\ calls' = [calls EXCEPT ![w] = [pc |-> "authorize", op |-> o, doc |-> Copy(e), mine |-> claims + 1,
                                        kind |-> "cancel", first |-> FALSE]]
  BY DEF BeginCancel, Copy
<1>2. ops[o] \in OpType /\ claims + 1 \in 0..MaxClaims
  BY <1>1 DEF Inv, TypeOK, ConversionAssumption
<1>3. /\ e \in OpType /\ e.stage = ops[o].stage /\ e.source = ops[o].source /\ e.mayPut = ops[o].mayPut
      /\ e.identity = ops[o].identity /\ e.cleanup = ops[o].cleanup /\ e.owner = claims + 1 /\ e.cancel
  BY <1>2 DEF OpType
<1> HIDE DEF e
<1> DEFINE y == Copy(e)
           d == [pc |-> "authorize", op |-> o, doc |-> y, mine |-> claims + 1, kind |-> "cancel", first |-> FALSE]
<1>4. y \in OpType /\ y.stage = e.stage /\ y.cancel = e.cancel
  BY <1>3, CopyFacts
<1> HIDE DEF y
<1>5. d \in CallType /\ d.op = o /\ d.doc = y /\ d.pc = "authorize"
  BY <1>2, <1>4 DEF CallType, Place
<1>6. calls' = [calls EXCEPT ![w] = d]
  BY <1>1 DEF y
<1> HIDE DEF d
<1>7. PlaceOK(d) /\ d.pc \in Place \ (Found \union {"idle", "claim", "reject", "cleared"})
  BY <1>1, <1>3, <1>4, <1>5 DEF PlaceOK, Sending, Cancelling, Finishing, Final, Place, Found
<1>8. e.cancel = ops[o].cancel \/ (e.cancel /\ e.stage # "attached")
  BY <1>1, <1>3
<1> QED
  BY <1>1, <1>3, <1>5, <1>6, <1>7, <1>8, LeaseStep DEF y

(* A call gives back the lease its copy names, and has no PUT under way.   *)
LEMMA ReleaseKeeps ==
    ASSUME ConversionAssumption, Inv, NEW w \in Worker, Release(w)
    PROVE  Keeps
<1>1. calls[w].pc = "release" /\ Underway(calls[w])
  BY DEF Release, At, Underway
<1>2. /\ calls[w] \in CallType /\ Op(w) \in Operation /\ ops[Op(w)] \in OpType /\ CopyOK(calls[w], ops, claims)
      /\ Holds(calls[w], ops) => HolderOK(calls[w], ops, stored, inflight)
      /\ OpOK(Op(w), ops, stored, inflight, track) /\ StagesOK(ops[Op(w)], claims)
      /\ ops \in [Operation -> OpType] /\ claims \in Nat /\ track \in TrackType /\ stored \subseteq Key
      /\ inflight \subseteq Operation /\ claims \in 0..MaxClaims
  BY <1>1, Underways DEF Inv, TypeOK, TrackType, ConversionAssumption
<1>3. calls' = [calls EXCEPT ![w] = NoCall] /\ UNCHANGED <<track, stored, inflight, claims>>
  BY DEF Release
<1>4. CASE ~ReleasedBy(w)
  <2>1. ops' = ops
    BY <1>2, <1>4 DEF Release
  <2> QED
    BY <1>3, <2>1, NoCallFacts, FreshStep
<1>5. CASE ReleasedBy(w)
  <2> DEFINE e == [ops[Op(w)] EXCEPT !.owner = 0, !.live = FALSE]
  <2>1. ops' = [ops EXCEPT ![Op(w)] = e]
    BY <1>2, <1>5 DEF Release
  <2>2. /\ e \in OpType /\ e.stage = ops[Op(w)].stage /\ e.source = ops[Op(w)].source /\ e.cancel = ops[Op(w)].cancel
        /\ e.mayPut = ops[Op(w)].mayPut /\ e.identity = ops[Op(w)].identity /\ e.cleanup = ops[Op(w)].cleanup /\ e.owner = 0
    <3>1. 0 \in 0..MaxClaims
      BY DEF ConversionAssumption
    <3> QED
      BY <1>2, <3>1 DEF OpType
  <2> HIDE DEF e
  <2>3. ops' \in [Operation -> OpType] /\ ops'[Op(w)] = e /\ \A p \in Operation : p # Op(w) => ops'[p] = ops[p]
    BY <1>2, <2>1, <2>2
  <2>4. ~LatePuts => Op(w) \notin inflight
    <3>1. ops[Op(w)].owner = Doc(w).owner
      BY <1>5 DEF ReleasedBy
    <3>2. CASE Doc(w).stage \in Final
      BY <1>2, <3>2 DEF CopyOK, OpOK, Final, Op, Doc
    <3>3. CASE Doc(w).stage \notin Final
      BY <1>1, <1>2, <3>1, <3>3 DEF Holds, Works, HolderOK, Op, Doc
    <3> QED
      BY <3>2, <3>3
  <2>5. Onward(ops, ops') /\ \A k : WasShown(k, ops) <=> WasShown(k, ops')
    BY <2>2, <2>3 DEF Onward, WasShown
  <2>6. ASSUME NEW v \in Worker
        PROVE  /\ Holds(calls[v], ops') => Holds(calls[v], ops) /\ HolderOK(calls[v], ops', stored', inflight')
               /\ GoneOK(calls[v], stored')
    <3>1. CallOK(calls[v], ops, claims, stored, inflight)
      BY DEF Inv
    <3>2. GoneOK(calls[v], stored')
      BY <1>3, <3>1 DEF CallOK, GoneOK
    <3>3. ASSUME Holds(calls[v], ops') PROVE Holds(calls[v], ops) /\ HolderOK(calls[v], ops', stored', inflight')
      <4>1. /\ calls[v].op \in Operation /\ calls[v].doc.owner # 0 /\ Works(calls[v])
            /\ Holds(calls[v], ops) => HolderOK(calls[v], ops, stored, inflight)
        BY <3>1, <3>3 DEF CallOK, CopyOK, Holds, Works, Looking, Sending, Cancelling
      <4>2. calls[v].op # Op(w)
        BY <2>2, <2>3, <3>3, <4>1 DEF Holds
      <4> QED
        BY <1>3, <2>3, <3>3, <4>1, <4>2 DEF Holds, HolderOK
    <3> QED
      BY <3>2, <3>3
  <2>7. NoCall \in CallType /\ CallOK(NoCall, ops', claims', stored', inflight') /\ ~Works(NoCall)
    BY NoCallFacts DEF CallOK, Works, Looking, Sending, Cancelling
  <2>8. TrackOK(ops', stored', track')
    BY <1>3, <2>5 DEF TrackOK, Inv
  <2>9. ASSUME NEW p \in Operation PROVE StagesOK(ops'[p], claims') /\ OpOK(p, ops', stored', inflight', track')
    <3>1. StagesOK(ops[p], claims) /\ OpOK(p, ops, stored, inflight, track)
      BY DEF Inv
    <3>2. WasShown(ops[p].source, ops') <=> WasShown(ops[p].source, ops)
      BY <2>5
    <3>3. CASE p = Op(w)
      <4>1. StagesOK(e, claims')
        BY <1>2, <1>3, <2>2 DEF StagesOK
      <4>2. Remembered(e, stored', track') <=> Remembered(ops[p], stored, track)
        BY <1>3, <2>2, <3>3 DEF Remembered
      <4> QED
        BY <1>2, <1>3, <2>2, <2>3, <2>4, <3>1, <3>2, <3>3, <4>1, <4>2 DEF OpOK
    <3>4. CASE p # Op(w)
      <4>1. ops'[p] = ops[p] /\ claims' = claims /\ stored' = stored /\ inflight' = inflight /\ track' = track
        BY <1>3, <2>3, <3>4
      <4>2. Remembered(ops'[p], stored', track') <=> Remembered(ops[p], stored, track)
        BY <4>1
      <4> QED
        BY <3>1, <3>2, <4>1, <4>2 DEF OpOK
    <3> QED
      BY <3>3, <3>4
  <2>10. /\ track' \in TrackType /\ stored' \subseteq Key /\ inflight' \subseteq Operation /\ claims' \in 0..MaxClaims
         /\ claims <= claims'
    BY <1>2, <1>3
  <2> QED
    BY <1>3, <2>3, <2>5, <2>6, <2>7, <2>8, <2>9, <2>10, CallStep
<1> QED
  BY <1>4, <1>5

LEMMA CrashKeeps ==
    ASSUME ConversionAssumption, Inv, NEW w \in Worker, Crash(w)
    PROVE  Keeps
  BY NoCallFacts, FreshStep DEF Crash

-----------------------------------------------------------------------------
(* Deletions, and what happens outside the calls.                          *)

(* The replaced bytes are nobody's output to install.                      *)
LEMMA DeleteSourceKeeps ==
    ASSUME ConversionAssumption, Inv, NEW w \in Worker, DeleteSource(w)
    PROVE  Keeps
<1>1. calls[w].pc = "deleteSource" /\ Underway(calls[w])
  BY DEF DeleteSource, At, Underway
<1>2. /\ calls[w] \in CallType /\ Op(w) \in Operation /\ PlaceOK(calls[w]) /\ CopyOK(calls[w], ops, claims)
      /\ ops[Op(w)].stage # "none" /\ OpOK(Op(w), ops, stored, inflight, track) /\ TrackOK(ops, stored, track)
  BY <1>1, Underways DEF Inv
<1>3. Doc(w).stage = "attached" /\ ops[Op(w)].stage = "attached" /\ ops[Op(w)].source = Doc(w).source
  BY <1>1, <1>2 DEF PlaceOK, Finishing, CopyOK, Final, Op, Doc
<1>4. PICK place \in {"confirmGone", "cleanupFailed"} : Goto(w, place)
  BY DEF DeleteSource
<1>5. stored' \in {stored, stored \ {Doc(w).source}} /\ UNCHANGED <<ops, track, inflight, claims>>
  BY DEF DeleteSource
<1> DEFINE d == [calls[w] EXCEPT !.pc = place]
<1>6. d \in CallType /\ d.pc = place /\ d.op = Op(w) /\ d.doc = Doc(w)
  BY <1>2 DEF CallType, Place, Op, Doc
<1>7. calls' = [calls EXCEPT ![w] = d]
  BY <1>4 DEF Goto, Inv, TypeOK
<1> HIDE DEF d
<1>8. ~Works(d)
  BY <1>3, <1>6 DEF Works, Final
<1>9. CallOK(d, ops', claims', stored', inflight')
  <2>1. CopyOK(d, ops', claims')
    BY <1>2, <1>5, <1>6, <1>8 DEF CopyOK, Op, Doc
  <2>2. PlaceOK(d) /\ GoneOK(d, stored')
    BY <1>3, <1>6 DEF PlaceOK, GoneOK, Sending, Cancelling, Finishing
  <2> QED
    BY <1>2, <1>5, <1>8, <1>6, <2>1, <2>2 DEF CallOK, Holds
<1>10. track.active # Doc(w).source /\ WasShown(Doc(w).source, ops)
  BY <1>2, <1>3 DEF OpOK
<1>11. TrackOK(ops', stored', track')
  BY <1>2, <1>5, <1>10 DEF TrackOK
<1>12. ASSUME NEW v \in Worker
       PROVE  /\ Holds(calls[v], ops') => Holds(calls[v], ops) /\ HolderOK(calls[v], ops', stored', inflight')
              /\ GoneOK(calls[v], stored')
  <2>1. CallOK(calls[v], ops, claims, stored, inflight)
    BY DEF Inv
  <2>2. GoneOK(calls[v], stored')
    BY <1>5, <2>1 DEF CallOK, GoneOK
  <2>3. ASSUME Holds(calls[v], ops) PROVE HolderOK(calls[v], ops, stored', inflight)
    <3>1. /\ calls[v].op \in Operation /\ calls[v].doc.stage \notin Final
          /\ HolderOK(calls[v], ops, stored, inflight)
      BY <2>1, <2>3 DEF CallOK, Holds, Works, Looking, Sending, Cancelling
    <3>2. calls[v].op # Doc(w).source
      BY <1>10, <3>1 DEF WasShown, HolderOK, Final, ConversionAssumption
    <3> QED
      BY <1>5, <3>1, <3>2 DEF HolderOK
  <2> QED
    BY <1>5, <2>2, <2>3
<1>13. ASSUME NEW p \in Operation PROVE StagesOK(ops'[p], claims') /\ OpOK(p, ops', stored', inflight', track')
  <2>1. StagesOK(ops[p], claims) /\ OpOK(p, ops, stored, inflight, track)
    BY DEF Inv
  <2> QED
    BY <1>5, <2>1 DEF OpOK, Remembered
<1>14. /\ ops' \in [Operation -> OpType] /\ track' \in TrackType /\ stored' \subseteq Key /\ inflight' \subseteq Operation
       /\ claims' \in 0..MaxClaims /\ claims <= claims' /\ Onward(ops, ops')
  BY <1>5 DEF Inv, TypeOK, TrackType, ConversionAssumption, Onward
<1> QED
  BY <1>6, <1>7, <1>8, <1>9, <1>11, <1>12, <1>13, <1>14, CallStep

(* The output of a cancelled operation is nobody's to show or install.     *)
LEMMA DeleteTargetKeeps ==
    ASSUME ConversionAssumption, Inv, NEW w \in Worker, DeleteTarget(w)
    PROVE  Keeps
<1>1. calls[w].pc = "deleteTarget" /\ Underway(calls[w])
  BY DEF DeleteTarget, At, Underway
<1>2. /\ calls[w] \in CallType /\ Op(w) \in Operation /\ PlaceOK(calls[w]) /\ CopyOK(calls[w], ops, claims)
      /\ ops[Op(w)].stage # "none" /\ StagesOK(ops[Op(w)], claims) /\ TrackOK(ops, stored, track)
      /\ Holds(calls[w], ops) => HolderOK(calls[w], ops, stored, inflight)
  BY <1>1, Underways DEF Inv
<1>3. ops[Op(w)].cancel /\ ops[Op(w)].stage # "attached" /\ Doc(w).cancel /\ Doc(w).identity /\ Doc(w).stage \notin Final
  BY <1>1, <1>2 DEF PlaceOK, Cancelling, CopyOK, StagesOK, Op, Doc
<1>4. PICK place \in {"cancelled", "cancelUnconfirmed"} : Goto(w, place)
  BY DEF DeleteTarget
<1>5. stored' \in {stored, stored \ {Op(w)}} /\ UNCHANGED <<ops, track, inflight, claims>>
  BY DEF DeleteTarget
<1> DEFINE d == [calls[w] EXCEPT !.pc = place]
<1>6. d \in CallType /\ d.pc = place /\ d.op = Op(w) /\ d.doc = Doc(w)
  BY <1>2 DEF CallType, Place, Op, Doc
<1>7. calls' = [calls EXCEPT ![w] = d]
  BY <1>4 DEF Goto, Inv, TypeOK
<1> HIDE DEF d
<1>8. Works(calls[w])
  BY <1>1, <1>3 DEF Works, Cancelling, Doc
<1>9. CallOK(d, ops', claims', stored', inflight')
  <2>1. CopyOK(d, ops', claims')
    BY <1>2, <1>5, <1>6, <1>8 DEF CopyOK, Op, Doc
  <2>2. PlaceOK(d) /\ GoneOK(d, stored')
    BY <1>3, <1>6 DEF PlaceOK, GoneOK, Sending, Cancelling, Finishing
  <2>3. Holds(d, ops') => HolderOK(d, ops', stored', inflight')
    BY <1>1, <1>2, <1>5, <1>6, <1>8 DEF Holds, HolderOK, Found, Op, Doc
  <2> QED
    BY <1>2, <1>5, <1>6, <2>1, <2>2, <2>3 DEF CallOK
<1>10. TrackOK(ops', stored', track')
  BY <1>2, <1>3, <1>5 DEF TrackOK, WasShown, ConversionAssumption
<1>11. ASSUME NEW v \in Worker
       PROVE  /\ Holds(calls[v], ops') => Holds(calls[v], ops) /\ HolderOK(calls[v], ops', stored', inflight')
              /\ GoneOK(calls[v], stored')
  <2>1. CallOK(calls[v], ops, claims, stored, inflight)
    BY DEF Inv
  <2>2. GoneOK(calls[v], stored')
    BY <1>5, <2>1 DEF CallOK, GoneOK
  <2>3. ASSUME Holds(calls[v], ops) PROVE HolderOK(calls[v], ops, stored', inflight)
    <3>1. HolderOK(calls[v], ops, stored, inflight)
      BY <2>1, <2>3 DEF CallOK, Holds, Works, Looking, Sending, Cancelling
    <3>2. CASE calls[v].op = Op(w)
      BY <1>3, <1>5, <3>1, <3>2 DEF HolderOK
    <3>3. CASE calls[v].op # Op(w)
      BY <1>5, <3>1, <3>3 DEF HolderOK
    <3> QED
      BY <3>2, <3>3
  <2> QED
    BY <1>5, <2>2, <2>3
<1>12. ASSUME NEW p \in Operation PROVE StagesOK(ops'[p], claims') /\ OpOK(p, ops', stored', inflight', track')
  <2>1. StagesOK(ops[p], claims) /\ OpOK(p, ops, stored, inflight, track)
    BY DEF Inv
  <2> QED
    BY <1>5, <2>1 DEF OpOK, Remembered
<1>13. /\ ops' \in [Operation -> OpType] /\ track' \in TrackType /\ stored' \subseteq Key /\ inflight' \subseteq Operation
       /\ claims' \in 0..MaxClaims /\ claims <= claims' /\ Onward(ops, ops')
  BY <1>5 DEF Inv, TypeOK, TrackType, ConversionAssumption, Onward
<1>14. Works(d) => Works(calls[w]) /\ d.doc.owner = Doc(w).owner
  BY <1>6, <1>8
<1> QED
  BY <1>6, <1>7, <1>9, <1>10, <1>11, <1>12, <1>13, <1>14, CallStep

(* No call moves.                                                          *)
LEMMA RestStep ==
    ASSUME ConversionAssumption, Inv, UNCHANGED <<calls, claims>>,
           ops' \in [Operation -> OpType], track' \in TrackType, stored' \subseteq Key, inflight' \subseteq Operation,
           Onward(ops, ops'), TrackOK(ops', stored', track'),
           \A v \in Worker : calls[v].pc # "idle" =>
               /\ Holds(calls[v], ops') => Holds(calls[v], ops) /\ HolderOK(calls[v], ops', stored', inflight')
               /\ calls[v].pc # "claim" => GoneOK(calls[v], stored'),
           \A o \in Operation : StagesOK(ops'[o], claims) /\ OpOK(o, ops', stored', inflight', track')
    PROVE  Keeps
<1>1. calls \in [Worker -> CallType] /\ claims \in Nat
  BY DEF Inv, TypeOK, CallType, ConversionAssumption
<1>2. TypeOK'
  BY DEF Inv, TypeOK, CallType, TrackType
<1>3. ASSUME NEW v \in Worker PROVE CallOK(calls[v], ops', claims, stored', inflight')
  <2>1. calls[v] \in CallType /\ CallOK(calls[v], ops, claims, stored, inflight)
    BY <1>1 DEF Inv
  <2>2. CASE calls[v].pc \notin {"idle", "claim"}
    BY <1>1, <2>1, <2>2, CallKept
  <2>3. CASE calls[v].pc \in {"idle", "claim"}
    BY <2>1, <2>3 DEF CallOK, Onward
  <2> QED
    BY <2>2, <2>3
<1>4. LeasesDiffer'
  BY DEF Inv, LeasesDiffer
<1> QED
  BY <1>2, <1>3, <1>4 DEF Inv, Keeps

LEMMA PrepareKeeps ==
    ASSUME ConversionAssumption, Inv, NEW o \in Operation, Prepare(o)
    PROVE  Keeps
<1> DEFINE e == [NoOp EXCEPT !.stage = "prepared", !.source = track.active, !.rev = track.rev, !.granted = TRUE]
<1>1. /\ ops[o].stage = "none" /\ track.pending = None /\ ops' = [ops EXCEPT ![o] = e]
      /\ track.active # o /\ UNCHANGED <<track, stored, inflight, claims, calls>>
  BY DEF Prepare
<1>2. /\ ops \in [Operation -> OpType] /\ track \in TrackType /\ stored \subseteq Key /\ inflight \subseteq Operation
      /\ claims \in 0..MaxClaims /\ claims \in Nat /\ TrackOK(ops, stored, track) /\ StagesOK(ops[o], claims)
      /\ OpOK(o, ops, stored, inflight, track)
  BY DEF Inv, TypeOK, TrackType, ConversionAssumption
<1>3. /\ e \in OpType /\ e.stage = "prepared" /\ e.source = track.active /\ e.owner = 0 /\ ~e.cancel /\ ~e.mayPut
  BY <1>2, NoCallFacts DEF OpType, NoOp, TrackType, Stage
<1> HIDE DEF e
<1>4. ops' \in [Operation -> OpType] /\ ops'[o] = e /\ \A p \in Operation : p # o => ops'[p] = ops[p]
  BY <1>1, <1>2, <1>3
<1>5. Onward(ops, ops') /\ \A k : WasShown(k, ops) <=> WasShown(k, ops')
  BY <1>1, <1>3, <1>4 DEF Onward, WasShown
<1>6. TrackOK(ops', stored', track')
  BY <1>1, <1>2, <1>5 DEF TrackOK
<1>7. ASSUME NEW v \in Worker, calls[v].pc # "idle"
      PROVE  /\ Holds(calls[v], ops') => Holds(calls[v], ops) /\ HolderOK(calls[v], ops', stored', inflight')
             /\ calls[v].pc # "claim" => GoneOK(calls[v], stored')
  <2>1. CallOK(calls[v], ops, claims, stored, inflight)
    BY DEF Inv
  <2>2. calls[v].op \in Operation /\ calls[v].op # o
    BY <1>1, <1>7, <2>1 DEF CallOK
  <2>3. ops'[calls[v].op] = ops[calls[v].op]
    BY <1>4, <2>2
  <2> QED
    BY <1>1, <1>7, <2>1, <2>3 DEF CallOK, Holds, HolderOK, GoneOK, Works, Looking, Sending, Cancelling
<1>8. ASSUME NEW p \in Operation PROVE StagesOK(ops'[p], claims) /\ OpOK(p, ops', stored', inflight', track')
  <2>1. StagesOK(ops[p], claims) /\ OpOK(p, ops, stored, inflight, track)
    BY DEF Inv
  <2>2. CASE p = o
    <3>1. StagesOK(e, claims)
      BY <1>2, <1>3 DEF StagesOK
    <3>2. WasShown(e.source, ops')
      BY <1>2, <1>3, <1>5 DEF TrackOK
    <3>3. track.pending # o /\ e.stage \notin Reserved
      BY <1>1, <1>3 DEF Reserved, ConversionAssumption
    <3>4. o \notin stored \union inflight
      BY <1>1, <1>2 DEF OpOK, StagesOK
    <3> QED
      BY <1>1, <1>3, <1>4, <2>2, <3>1, <3>2, <3>3, <3>4 DEF OpOK, Remembered
  <2>3. CASE p # o
    <3>1. ops'[p] = ops[p]
      BY <1>4, <2>3
    <3>2. WasShown(ops[p].source, ops') <=> WasShown(ops[p].source, ops)
      BY <1>5
    <3> QED
      BY <1>1, <2>1, <3>1, <3>2 DEF OpOK, Remembered
  <2> QED
    BY <2>2, <2>3
<1> QED
  BY <1>1, <1>2, <1>4, <1>5, <1>6, <1>7, <1>8, RestStep

(* A PUT that lands is of an operation that is sent, so it brings back no  *)
(* bytes that were replaced - unless it was late.                          *)
LEMMA PutKeeps ==
    ASSUME ConversionAssumption, Inv, NEW o \in Operation, PutLands(o) \/ PutVanishes(o)
    PROVE  Keeps
<1>1. /\ o \in inflight /\ inflight' = inflight \ {o} /\ stored' \in {stored, stored \union {o}}
      /\ UNCHANGED <<ops, track, claims, calls>>
  BY DEF PutLands, PutVanishes
<1>2. /\ ops \in [Operation -> OpType] /\ track \in TrackType /\ stored \subseteq Key /\ inflight \subseteq Operation
      /\ TrackOK(ops, stored, track) /\ OpOK(o, ops, stored, inflight, track)
  BY DEF Inv, TypeOK, TrackType
<1>3. ops[o].mayPut /\ (~LatePuts => ~WasShown(o, ops))
  BY <1>1, <1>2 DEF OpOK, WasShown, ConversionAssumption
<1>4. TrackOK(ops', stored', track') /\ Onward(ops, ops')
  BY <1>1, <1>2 DEF TrackOK, Onward
<1>5. ASSUME NEW v \in Worker, calls[v].pc # "idle"
      PROVE  /\ Holds(calls[v], ops') => Holds(calls[v], ops) /\ HolderOK(calls[v], ops', stored', inflight')
             /\ calls[v].pc # "claim" => GoneOK(calls[v], stored')
  <2>1. CallOK(calls[v], ops, claims, stored, inflight)
    BY DEF Inv
  <2>2. ASSUME calls[v].pc = "cleared", ~LatePuts PROVE calls[v].doc.source # o
    <3>1. calls[v].op \in Operation /\ calls[v].doc.source = ops[calls[v].op].source /\ ops[calls[v].op].stage # "none"
      BY <1>5, <2>1, <2>2 DEF CallOK, CopyOK
    <3>2. OpOK(calls[v].op, ops, stored, inflight, track)
      BY <3>1 DEF Inv
    <3> QED
      BY <1>3, <2>2, <3>1, <3>2 DEF OpOK
  <2>3. calls[v].pc # "claim" => GoneOK(calls[v], stored')
    BY <1>1, <1>5, <2>1, <2>2 DEF CallOK, GoneOK
  <2>4. ASSUME Holds(calls[v], ops) PROVE HolderOK(calls[v], ops, stored', inflight')
    <3>1. HolderOK(calls[v], ops, stored, inflight)
      BY <2>1, <2>4 DEF CallOK, Holds, Works, Looking, Sending, Cancelling
    <3> QED
      BY <1>1, <3>1 DEF HolderOK
  <2> QED
    BY <1>1, <2>3, <2>4
<1>6. ASSUME NEW p \in Operation PROVE StagesOK(ops'[p], claims) /\ OpOK(p, ops', stored', inflight', track')
  <2>1. StagesOK(ops[p], claims) /\ OpOK(p, ops, stored, inflight, track)
    BY DEF Inv
  <2>2. ~LatePuts => Remembered(ops[p], stored', track)
    BY <1>1, <1>3, <2>1 DEF OpOK, Remembered
  <2>3. ~ops[p].mayPut => p \notin stored' \union inflight'
    BY <1>1, <1>3, <2>1 DEF OpOK
  <2> QED
    BY <1>1, <2>1, <2>2, <2>3 DEF OpOK
<1>7. stored' \subseteq Key /\ inflight' \subseteq Operation
  BY <1>1, <1>2 DEF Key
<1> QED
  BY <1>1, <1>2, <1>4, <1>5, <1>6, <1>7, RestStep

LEMMA ExpireKeeps ==
    ASSUME ConversionAssumption, Inv, NEW o \in Operation, Expire(o)
    PROVE  Keeps
<1> DEFINE e == [ops[o] EXCEPT !.live = FALSE]
<1>1. /\ LatePuts \/ o \notin inflight
      /\ UNCHANGED <<track, stored, inflight, claims, calls>>
  BY DEF Expire
<1>2. /\ ops \in [Operation -> OpType] /\ track \in TrackType /\ stored \subseteq Key /\ inflight \subseteq Operation
      /\ TrackOK(ops, stored, track)
  BY DEF Inv, TypeOK, TrackType
<1>3. ops' = [ops EXCEPT ![o] = e]
  BY <1>2 DEF Expire
<1>4. /\ e \in OpType /\ e.stage = ops[o].stage /\ e.source = ops[o].source /\ e.owner = ops[o].owner
      /\ e.cancel = ops[o].cancel /\ e.mayPut = ops[o].mayPut /\ e.identity = ops[o].identity /\ e.cleanup = ops[o].cleanup
  BY <1>2 DEF OpType
<1> HIDE DEF e
<1>5. /\ ops' \in [Operation -> OpType]
      /\ \A p \in Operation : /\ ops'[p].stage = ops[p].stage /\ ops'[p].source = ops[p].source
                              /\ ops'[p].owner = ops[p].owner /\ ops'[p].cancel = ops[p].cancel
                              /\ ops'[p].mayPut = ops[p].mayPut /\ ops'[p].identity = ops[p].identity
                              /\ ops'[p].cleanup = ops[p].cleanup /\ (p # o => ops'[p].live = ops[p].live)
  BY <1>2, <1>3, <1>4
<1>6. Onward(ops, ops') /\ \A k : WasShown(k, ops) <=> WasShown(k, ops')
  BY <1>5 DEF Onward, WasShown
<1>7. TrackOK(ops', stored', track')
  BY <1>1, <1>2, <1>6 DEF TrackOK
<1>8. ASSUME NEW v \in Worker, calls[v].pc # "idle"
      PROVE  /\ Holds(calls[v], ops') => Holds(calls[v], ops) /\ HolderOK(calls[v], ops', stored', inflight')
             /\ calls[v].pc # "claim" => GoneOK(calls[v], stored')
  <2>1. CallOK(calls[v], ops, claims, stored, inflight)
    BY DEF Inv
  <2> QED
    BY <1>1, <1>5, <1>8, <2>1 DEF CallOK, Holds, HolderOK, GoneOK, Works, Looking, Sending, Cancelling
<1>9. ASSUME NEW p \in Operation PROVE StagesOK(ops'[p], claims) /\ OpOK(p, ops', stored', inflight', track')
  <2>1. StagesOK(ops[p], claims) /\ OpOK(p, ops, stored, inflight, track)
    BY DEF Inv
  <2>2. WasShown(ops[p].source, ops') <=> WasShown(ops[p].source, ops)
    BY <1>6
  <2>3. Remembered(ops'[p], stored', track') <=> Remembered(ops[p], stored, track)
    BY <1>1, <1>5 DEF Remembered
  <2> QED
    BY <1>1, <1>5, <2>1, <2>2, <2>3 DEF OpOK, StagesOK
<1> QED
  BY <1>1, <1>2, <1>5, <1>6, <1>7, <1>8, <1>9, RestStep

LEMMA EditKeeps ==
    ASSUME ConversionAssumption, Inv, EditTrack
    PROVE  Keeps
<1>1. /\ track' = [track EXCEPT !.rev = @ + 1] /\ UNCHANGED <<ops, stored, inflight, claims, calls>>
  BY DEF EditTrack
<1>2. /\ ops \in [Operation -> OpType] /\ track \in TrackType /\ stored \subseteq Key /\ inflight \subseteq Operation
      /\ TrackOK(ops, stored, track)
  BY DEF Inv, TypeOK, TrackType
<1>3. track' \in TrackType /\ track'.active = track.active /\ track'.pending = track.pending /\ track'.cleanup = track.cleanup
  BY <1>1, <1>2 DEF TrackType
<1>4. Onward(ops, ops') /\ TrackOK(ops', stored', track')
  BY <1>1, <1>2, <1>3 DEF Onward, TrackOK
<1>5. ASSUME NEW v \in Worker, calls[v].pc # "idle"
      PROVE  /\ Holds(calls[v], ops') => Holds(calls[v], ops) /\ HolderOK(calls[v], ops', stored', inflight')
             /\ calls[v].pc # "claim" => GoneOK(calls[v], stored')
  BY <1>1, <1>5 DEF Inv, CallOK, Holds, HolderOK, GoneOK, Works, Looking, Sending, Cancelling
<1>6. ASSUME NEW p \in Operation PROVE StagesOK(ops'[p], claims) /\ OpOK(p, ops', stored', inflight', track')
  <2>1. StagesOK(ops[p], claims) /\ OpOK(p, ops, stored, inflight, track)
    BY DEF Inv
  <2> QED
    BY <1>1, <1>3, <2>1 DEF OpOK, Remembered
<1> QED
  BY <1>1, <1>2, <1>3, <1>4, <1>5, <1>6, RestStep

(* An approval that ends changes the operation and its copies alike, in    *)
(* what the invariant does not speak of.                                   *)
LEMMA ApprovalKeeps ==
    ASSUME ConversionAssumption, Inv, NEW o \in Operation, ApprovalEnds(o)
    PROVE  Keeps
<1> DEFINE e == [ops[o] EXCEPT !.granted = FALSE]
<1>1. UNCHANGED <<track, stored, inflight, claims>>
  BY DEF ApprovalEnds
<1>2. /\ ops \in [Operation -> OpType] /\ track \in TrackType /\ stored \subseteq Key /\ inflight \subseteq Operation
      /\ TrackOK(ops, stored, track) /\ calls \in [Worker -> CallType]
  BY DEF Inv, TypeOK, TrackType, CallType
<1>3. ops' = [ops EXCEPT ![o] = e]
  BY <1>2 DEF ApprovalEnds
<1>4. /\ e \in OpType /\ e.stage = ops[o].stage /\ e.source = ops[o].source /\ e.owner = ops[o].owner
      /\ e.cancel = ops[o].cancel /\ e.mayPut = ops[o].mayPut /\ e.identity = ops[o].identity /\ e.cleanup = ops[o].cleanup
      /\ e.live = ops[o].live
  BY <1>2 DEF OpType
<1> HIDE DEF e
<1>5. /\ ops' \in [Operation -> OpType]
      /\ \A p \in Operation : /\ ops'[p].stage = ops[p].stage /\ ops'[p].source = ops[p].source
                              /\ ops'[p].owner = ops[p].owner /\ ops'[p].cancel = ops[p].cancel
                              /\ ops'[p].mayPut = ops[p].mayPut /\ ops'[p].identity = ops[p].identity
                              /\ ops'[p].cleanup = ops[p].cleanup /\ ops'[p].live = ops[p].live
  BY <1>2, <1>3, <1>4
<1>6. Onward(ops, ops') /\ \A k : WasShown(k, ops) <=> WasShown(k, ops')
  BY <1>5 DEF Onward, WasShown
<1>7. TrackOK(ops', stored', track')
  BY <1>1, <1>2, <1>6 DEF TrackOK
<1>8. ASSUME NEW v \in Worker
      PROVE  /\ calls'[v] \in CallType /\ calls'[v].pc = calls[v].pc /\ calls'[v].op = calls[v].op
             /\ calls'[v].doc.stage = calls[v].doc.stage /\ calls'[v].doc.source = calls[v].doc.source
             /\ calls'[v].doc.owner = calls[v].doc.owner /\ calls'[v].doc.cancel = calls[v].doc.cancel
             /\ calls'[v].doc.mayPut = calls[v].doc.mayPut /\ calls'[v].doc.identity = calls[v].doc.identity
  <2> DEFINE x == [calls[v].doc EXCEPT !.granted = FALSE]
             d == [calls[v] EXCEPT !.doc = x]
  <2>1. /\ x \in OpType /\ x.stage = calls[v].doc.stage /\ x.source = calls[v].doc.source /\ x.owner = calls[v].doc.owner
        /\ x.cancel = calls[v].doc.cancel /\ x.mayPut = calls[v].doc.mayPut /\ x.identity = calls[v].doc.identity
    <3>1. calls[v].doc \in OpType
      BY <1>2 DEF CallType
    <3> QED
      BY <3>1 DEF OpType
  <2>2. calls'[v] = d \/ calls'[v] = calls[v]
    BY <1>2 DEF ApprovalEnds
  <2> HIDE DEF x
  <2>3. d \in CallType /\ d.pc = calls[v].pc /\ d.op = calls[v].op /\ d.doc = x
    BY <1>2, <2>1 DEF CallType
  <2> HIDE DEF d
  <2> QED
    BY <1>2, <2>1, <2>2, <2>3
<1>9. calls' \in [Worker -> CallType]
  BY <1>8 DEF ApprovalEnds
<1>10. TypeOK'
  BY <1>1, <1>2, <1>5, <1>9 DEF Inv, TypeOK, TrackType, CallType
<1>11. ASSUME NEW v \in Worker PROVE (Works(calls'[v]) <=> Works(calls[v])) /\ CallOK(calls'[v], ops', claims', stored', inflight')
  <2>1. Works(calls'[v]) <=> Works(calls[v])
    BY <1>8 DEF Works
  <2>2. CallOK(calls[v], ops, claims, stored, inflight)
    BY DEF Inv
  <2> QED
    BY <1>1, <1>5, <1>8, <2>1, <2>2 DEF CallOK, CopyOK, PlaceOK, GoneOK, Holds, HolderOK
<1>12. LeasesDiffer'
  BY <1>8, <1>11 DEF Inv, LeasesDiffer
<1>13. ASSUME NEW p \in Operation PROVE StagesOK(ops'[p], claims') /\ OpOK(p, ops', stored', inflight', track')
  <2>1. StagesOK(ops[p], claims) /\ OpOK(p, ops, stored, inflight, track)
    BY DEF Inv
  <2>2. WasShown(ops[p].source, ops') <=> WasShown(ops[p].source, ops)
    BY <1>6
  <2>3. Remembered(ops'[p], stored', track') <=> Remembered(ops[p], stored, track)
    BY <1>1, <1>5 DEF Remembered
  <2> QED
    BY <1>1, <1>5, <2>1, <2>2, <2>3 DEF OpOK, StagesOK
<1> QED
  BY <1>6, <1>7, <1>10, <1>11, <1>12, <1>13 DEF Inv, Keeps

-----------------------------------------------------------------------------
(* The invariant holds, and what follows from it.                          *)

LEMMA InitInv == ConversionAssumption /\ Init => Inv
<1> SUFFICES ASSUME ConversionAssumption, Init PROVE Inv
  OBVIOUS
<1>1. /\ NoOp \in OpType /\ NoCall \in CallType /\ NoCall.pc = "idle" /\ NoOp.stage = "none" /\ NoOp.owner = 0
      /\ ~NoOp.mayPut /\ ~NoOp.cancel
  BY NoCallFacts DEF NoOp
<1>2. /\ \A o \in Operation : ops[o] = NoOp
      /\ \A w \in Worker : calls[w] = NoCall
      /\ ops \in [Operation -> OpType] /\ calls \in [Worker -> CallType]
  BY <1>1 DEF Init
<1>3. TypeOK
  BY <1>2 DEF Init, TypeOK, CallType, Key, ConversionAssumption
<1>4. TrackOK(ops, stored, track)
  BY DEF Init, TrackOK, WasShown
<1>5. LeasesDiffer
  BY <1>1, <1>2 DEF LeasesDiffer, Works, Looking, Sending, Cancelling
<1>6. \A o \in Operation : StagesOK(ops[o], claims) /\ OpOK(o, ops, stored, inflight, track)
  BY <1>1, <1>2 DEF Init, StagesOK, OpOK, Remembered, Reserved, ConversionAssumption
<1>7. \A w \in Worker : CallOK(calls[w], ops, claims, stored, inflight)
  BY <1>1, <1>2 DEF CallOK
<1> QED
  BY <1>3, <1>4, <1>5, <1>6, <1>7 DEF Inv

LEMMA NextKeeps == ConversionAssumption /\ Inv /\ [Next]_vars => Keeps
<1> SUFFICES ASSUME ConversionAssumption, Inv, [Next]_vars PROVE Keeps
  OBVIOUS
<1>1. CASE UNCHANGED vars
  BY <1>1 DEF vars, Keeps, Onward, Inv, TypeOK, LeasesDiffer
<1>2. ASSUME NEW w \in Worker, Step(w) PROVE Keeps
  <2>1. CASE Claim(w)
    BY <2>1, ClaimKeeps
  <2>2. CASE CheckSource(w) \/ HeadTarget(w) \/ PutReturns(w) \/ CheckSourceAgain(w)
    BY <2>2, UploadLooks
  <2>3. CASE Reserve(w)
    BY <2>3, ReserveKeeps
  <2>4. CASE NoObject(w) \/ Unconfirmed(w) \/ Record(w) \/ Retain(w) \/ CancelUnconfirmed(w)
    BY <2>4, NotesKeep
  <2>5. CASE Dispatch(w)
    BY <2>5, DispatchKeeps
  <2>6. CASE Reject(w)
    BY <2>6, RejectKeeps
  <2>7. CASE Attach(w)
    BY <2>7, AttachKeeps
  <2>8. CASE Finish(w) \/ Cleanup(w) \/ HeadSource(w) \/ AuthorizeDelete(w) \/ ConfirmGone(w)
    BY <2>8, FinishLooks
  <2>9. CASE Publish(w)
    BY <2>9, PublishKeeps
  <2>10. CASE Settle(w) \/ CleanupFailed(w)
    BY <2>10, FinishNotes
  <2>11. CASE DeleteSource(w)
    BY <2>11, DeleteSourceKeeps
  <2>12. CASE Cleared(w)
    BY <2>12, ClearedKeeps
  <2>13. CASE Authorize(w) \/ HeadCancelled(w) \/ AuthorizeAgain(w)
    BY <2>13, CancelLooks
  <2>14. CASE DeleteTarget(w)
    BY <2>14, DeleteTargetKeeps
  <2>15. CASE Cancelled(w)
    BY <2>15, CancelledKeeps
  <2>16. CASE Release(w)
    BY <2>16, ReleaseKeeps
  <2> QED
    BY <1>2, <2>1, <2>2, <2>3, <2>4, <2>5, <2>6, <2>7, <2>8, <2>9, <2>10, <2>11, <2>12, <2>13, <2>14, <2>15, <2>16 DEF Step
<1>3. ASSUME NEW w \in Worker, Crash(w) PROVE Keeps
  BY <1>3, CrashKeeps
<1>4. ASSUME NEW w \in Worker, NEW o \in Operation, BeginUpload(w, o) \/ BeginReconcile(w, o) \/ BeginCancel(w, o) PROVE Keeps
  BY <1>4, BeginKeeps, BeginCancelKeeps
<1>5. ASSUME NEW o \in Operation, Prepare(o) \/ PutLands(o) \/ PutVanishes(o) \/ Expire(o) \/ ApprovalEnds(o) PROVE Keeps
  BY <1>5, PrepareKeeps, PutKeeps, ExpireKeeps, ApprovalKeeps
<1>6. CASE EditTrack
  BY <1>6, EditKeeps
<1> QED
  BY <1>1, <1>2, <1>3, <1>4, <1>5, <1>6 DEF Next

(* For any operations, calls, leases and edits, the conversion keeps its    *)
(* inductive invariant: whoever works under a lease that still stands has   *)
(* an exact copy of its operation, knows where its object is, and shares    *)
(* the lease with nobody (conversionService.ts: claim, checkpoint, attach,  *)
(* cleanupPrevious, cleanupCancelled).                                      *)
THEOREM ConversionInductive == ASSUME ConversionAssumption PROVE Spec => []Inv
<1>1. Init => Inv
  BY InitInv
<1>2. Inv /\ [Next]_vars => Inv'
  BY NextKeeps DEF Keeps
<1> QED
  BY <1>1, <1>2, PTL DEF Spec

(* Every state has the declared types; the track is reserved exactly by    *)
(* the operation between its reservation and its end; an operation that    *)
(* was cancelled without having seen its object has none, and none on its  *)
(* way (conversionService.ts: claim, reserve, reject, attach, cancelled,   *)
(* cleanupCancelled).                                                      *)
THEOREM TrackAndStoreAgree == ASSUME ConversionAssumption PROVE Spec => []ConversionAgrees
<1>1. Inv => TypeOK
  BY DEF Inv
<1>2. Inv => ReservationsAgree
  BY DEF Inv, OpOK, ReservationsAgree, Reserved
<1>3. Inv => CancelledLeavesNothing
  BY DEF Inv, OpOK, StagesOK, CancelledLeavesNothing
<1>4. Inv => ConversionAgrees
  BY <1>1, <1>2, <1>3 DEF ConversionAgrees
<1> QED
  BY <1>4, ConversionInductive, PTL

(* When every PUT ends before the lease of its call, replaced bytes are    *)
(* remembered by the operation and the track until they are gone           *)
(* (conversionService.ts, cleanupPrevious).                                *)
THEOREM ReplacedBytesRemembered ==
    ASSUME ConversionAssumption, LatePuts = FALSE PROVE Spec => []ReplacedBytesAreAccountedFor
<1>1. Inv => ReplacedBytesAreAccountedFor
  BY DEF Inv, OpOK, Remembered, ReplacedBytesAreAccountedFor
<1> QED
  BY <1>1, ConversionInductive, PTL

(* No late call takes an operation out of its end (conversionService.ts,   *)
(* attach and cleanupCancelled).                                           *)
THEOREM EndsFinal == ASSUME ConversionAssumption PROVE Spec => EndsAreFinal
<1>1. Inv /\ [Next]_vars => [EndsStay]_vars
  <2> SUFFICES ASSUME Inv, [Next]_vars, NEW o \in Operation, ops[o].stage \in {"attached", "cancelled"}
               PROVE  ops'[o].stage = ops[o].stage
    BY DEF EndsStay
  <2> QED
    BY NextKeeps DEF Keeps, Onward, Final
<1> QED
  BY <1>1, ConversionInductive, PTL DEF Spec, EndsAreFinal

(* What a step does to the store and to what the track shows.              *)
LEMMA StoreSteps ==
    ASSUME ConversionAssumption, Inv, [Next]_vars
    PROVE  \/ stored' = stored
           \/ \E k \in Key : stored' = stored \union {k} /\ track' = track
           \/ \E k \in Key \ {track.active} : stored' = stored \ {k} /\ track' = track
<1>1. CASE UNCHANGED vars
  BY <1>1 DEF vars
<1>2. ASSUME NEW w \in Worker, DeleteSource(w)
      PROVE  stored' = stored \/ \E k \in Key \ {track.active} : stored' = stored \ {k} /\ track' = track
  <2>1. calls[w].pc = "deleteSource" /\ Underway(calls[w])
    BY <1>2 DEF DeleteSource, At, Underway
  <2>2. /\ PlaceOK(calls[w]) /\ CopyOK(calls[w], ops, claims) /\ Op(w) \in Operation /\ ops[Op(w)].stage # "none"
        /\ OpOK(Op(w), ops, stored, inflight, track)
    BY <2>1, Underways
  <2>3. Doc(w).source # track.active /\ Doc(w).source \in Key
    BY <2>1, <2>2 DEF PlaceOK, Finishing, CopyOK, OpOK, WasShown, Final, Key, Op, Doc
  <2> QED
    BY <1>2, <2>3 DEF DeleteSource
<1>3. ASSUME NEW w \in Worker, DeleteTarget(w)
      PROVE  stored' = stored \/ \E k \in Key \ {track.active} : stored' = stored \ {k} /\ track' = track
  <2>1. calls[w].pc = "deleteTarget" /\ Underway(calls[w])
    BY <1>3 DEF DeleteTarget, At, Underway
  <2>2. /\ PlaceOK(calls[w]) /\ CopyOK(calls[w], ops, claims) /\ Op(w) \in Operation
        /\ StagesOK(ops[Op(w)], claims) /\ TrackOK(ops, stored, track)
    BY <2>1, Underways DEF Inv
  <2>3. Op(w) # track.active /\ Op(w) \in Key
    BY <2>1, <2>2 DEF PlaceOK, Cancelling, CopyOK, StagesOK, TrackOK, WasShown, Key, Op, Doc, ConversionAssumption
  <2> QED
    BY <1>3, <2>3 DEF DeleteTarget
<1>4. ASSUME NEW o \in Operation, PutLands(o) PROVE \E k \in Key : stored' = stored \union {k} /\ track' = track
  BY <1>4 DEF PutLands, Key
<1>5. ASSUME NEW w \in Worker, Step(w), ~DeleteSource(w), ~DeleteTarget(w) PROVE stored' = stored
  BY <1>5 DEF Step, Claim, CheckSource, Reserve, HeadTarget, NoObject, Dispatch, PutReturns, Unconfirmed, Reject, Record,
              CheckSourceAgain, Attach, Finish, Publish, Settle, Cleanup, HeadSource, AuthorizeDelete, ConfirmGone, Cleared,
              CleanupFailed, Authorize, HeadCancelled, Retain, AuthorizeAgain, Cancelled, CancelUnconfirmed, Release,
              Head, Checkpoint
<1>6. ASSUME NEW w \in Worker, Crash(w) PROVE stored' = stored
  BY <1>6 DEF Crash
<1>7. ASSUME NEW w \in Worker, NEW o \in Operation, BeginUpload(w, o) \/ BeginReconcile(w, o) \/ BeginCancel(w, o)
      PROVE  stored' = stored
  BY <1>7 DEF BeginUpload, BeginReconcile, BeginCancel
<1>8. ASSUME NEW o \in Operation, Prepare(o) \/ PutVanishes(o) \/ Expire(o) \/ ApprovalEnds(o) PROVE stored' = stored
  BY <1>8 DEF Prepare, PutVanishes, Expire, ApprovalEnds
<1>9. EditTrack => stored' = stored
  BY DEF EditTrack
<1> QED
  BY <1>1, <1>2, <1>3, <1>4, <1>5, <1>6, <1>7, <1>8, <1>9 DEF Next

(* The conversion implements SafeStore: what the track shows is stored at  *)
(* every moment, through installations, deletions of replaced bytes and    *)
(* deletions of cancelled outputs by calls whose lease may have lapsed     *)
(* (conversionService.ts, attach, cleanupPrevious and cleanupCancelled).   *)
THEOREM ImplementsSafeStore == ASSUME ConversionAssumption PROVE Spec => BytesAreSafe
<1>1. Init => Catalogue!Init
  BY DEF Init, Catalogue!Init, Key
<1>2. Inv /\ Inv' /\ [Next]_vars => [Catalogue!Next]_<<stored, {track.active}>>
  <2> SUFFICES ASSUME Inv, Inv', [Next]_vars PROVE Catalogue!Next
    OBVIOUS
  <2>1. track'.active \in stored'
    BY DEF Inv, TrackOK
  <2>2. CASE stored' = stored
    <3>1. Catalogue!Publish
      BY <2>1, <2>2 DEF Catalogue!Publish
    <3> QED
      BY <3>1 DEF Catalogue!Next
  <2>3. ASSUME NEW k \in Key, stored' = stored \union {k}, track' = track PROVE Catalogue!Next
    <3>1. Catalogue!Put(k)
      BY <2>3 DEF Catalogue!Put
    <3> QED
      BY <3>1 DEF Catalogue!Next
  <2>4. ASSUME NEW k \in Key \ {track.active}, stored' = stored \ {k}, track' = track PROVE Catalogue!Next
    <3>1. Catalogue!Delete(k)
      BY <2>4 DEF Catalogue!Delete
    <3> QED
      BY <3>1 DEF Catalogue!Next
  <2> QED
    BY <2>2, <2>3, <2>4, StoreSteps
<1> QED
  BY <1>1, <1>2, ConversionInductive, PTL DEF Spec, BytesAreSafe, Catalogue!Spec
=============================================================================
