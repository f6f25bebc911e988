---------------------------- MODULE PairingProof ----------------------------
(***************************************************************************)
(* Proofs about the pairing file (module Pairing) for any number of        *)
(* processes, clients, keys and clock readings, power losses at every      *)
(* point included: every variable keeps its type, delayed operations spare *)
(* a replacement pairing, local activation and removal follow the device,  *)
(* and an activation that was reported is durable.                         *)
(***************************************************************************)
EXTENDS Pairing, TLAPS

-----------------------------------------------------------------------------
(* Helpers *)

\* The requests that survive their process are earlier requests without a sender.
LEMMA AbandonRequests ==
  ASSUME NEW P, inflight \subseteq Requests
  PROVE  Abandon(P) \subseteq Requests
BY DEF Abandon, Requests

\* Absent is a value of the pairing file.
LEMMA AbsentPairing == Absent \in Pairings
BY DEF Pairings

\* A pairing that is not absent is stored, and so are its rewritten forms.
LEMMA StoredPairing == ASSUME NEW h \in Pairings, h.st # "absent" PROVE h \in Stored
BY DEF Pairings, Absent

LEMMA StoredRotation ==
  ASSUME NEW h \in Stored, NEW k \in Psks, NEW l \in Psks \cup {None}, NEW t \in Times
  PROVE  [h EXCEPT !.psk = k, !.rot = l, !.rotatedAt = t] \in Stored
BY DEF Stored

LEMMA StoredUpdate ==
  ASSUME NEW h \in Stored
  PROVE  [h EXCEPT !.st = "active"] \in Stored /\ [h EXCEPT !.rot = None] \in Stored
BY DEF Stored

\* The members of a pairing, stored or absent.
LEMMA PairingMembers ==
  ASSUME NEW h \in Pairings
  PROVE  /\ h.client \in Clients \cup {None}
         /\ h.psk \in Psks \cup {None}
         /\ h.rot \in Psks \cup {None}
         /\ h.st \in {"absent", "pending", "active"}
         /\ h.st # "absent" => h.client \in Clients /\ h.psk \in Psks
         /\ h.st = "absent" => h = Absent
BY DEF Pairings, Stored, Absent

\* The updates of a device's record.
LEMMA BindingUpdates ==
  ASSUME NEW b \in Bindings, NEW k \in Psks \cup {None}, NEW l \in Psks \cup {None},
         NEW s \in {"none", "offered", "accepted", "rejected", "active", "removed"}
  PROVE  /\ [b EXCEPT !.st = s] \in Bindings
         /\ [b EXCEPT !.st = s, !.cur = k] \in Bindings
         /\ [b EXCEPT !.cur = k, !.prev = l] \in Bindings
         /\ [b EXCEPT !.told = TRUE] \in Bindings
BY DEF Bindings

-----------------------------------------------------------------------------
(* Type correctness *)

LEMMA TypeInit == Init => TypeOK
BY AbsentPairing, TimeAssumption
   DEF Init, TypeOK, Locations, Operations, Replies, Bindings

LEMMA TypeStep == TypeOK /\ [Next]_vars => TypeOK'
<1> SUFFICES ASSUME TypeOK, [Next]_vars PROVE TypeOK'
  OBVIOUS
<1> USE DEF TypeOK
<1>1. ASSUME NEW p \in Procs, StartPairing(p) PROVE TypeOK'
  BY <1>1 DEF StartPairing, Attempt, Origin, Goto, store, Pairings, Stored, Locations, Operations
<1>2. ASSUME NEW p \in Procs, HandOff(p) PROVE TypeOK'
  <2>1. dev' \in [Clients -> Bindings]
    <3> DEFINE b == [dev[snap[p].client] EXCEPT !.st = "offered", !.cur = snap[p].psk]
    <3>1. snap[p].client \in Clients => b \in Bindings
      BY BindingUpdates, PairingMembers
    <3>2. dev' \in {dev, [dev EXCEPT ![snap[p].client] = b]}
      BY <1>2 DEF HandOff
    <3> QED
      BY <3>1, <3>2
  <2>2. CASE Leave(p)
    BY <1>2, <2>1, <2>2, AbsentPairing, TimeAssumption
       DEF HandOff, Leave, store, Locations, Operations, Replies
  <2>3. CASE Goto(p, "lock", "abandon") /\ UNCHANGED <<snap, held, now, reply>>
    BY <1>2, <2>1, <2>3 DEF HandOff, Goto, store, Locations, Operations
  <2> QED
    BY <1>2, <2>2, <2>3 DEF HandOff
<1>3. ASSUME NEW p \in Procs, FinishPairing(p) PROVE TypeOK'
  BY <1>3, StoredPairing DEF FinishPairing, Send, Goto, store, Locations, Operations, Requests, Stored
<1>4. ASSUME NEW p \in Procs, RemovePairing(p) PROVE TypeOK'
  BY <1>4, StoredPairing DEF RemovePairing, Send, Goto, store, Locations, Operations, Requests, Stored
<1>5. ASSUME NEW p \in Procs, DropPairing(p) PROVE TypeOK'
  BY <1>5 DEF DropPairing, Goto, store, external, Locations, Operations
<1>6. ASSUME NEW p \in Procs, Use(p) PROVE TypeOK'
  BY <1>6 DEF Use, Goto, store, external, Locations, Operations
<1>7. ASSUME NEW p \in Procs, UseRead(p) PROVE TypeOK'
  <2>1. CASE file.st = "active"
    BY <1>7, <2>1, StoredPairing
       DEF UseRead, Send, Goto, store, Locations, Operations, Requests, Stored
  <2>2. CASE file.st # "active"
    BY <1>7, <2>2, AbsentPairing, TimeAssumption
       DEF UseRead, Leave, store, external, Locations, Operations, Replies
  <2> QED
    BY <2>1, <2>2
<1>8. ASSUME NEW p \in Procs, Lock(p) PROVE TypeOK'
  BY <1>8 DEF Lock, external, Locations
<1>9. ASSUME NEW p \in Procs, Commit(p) PROVE TypeOK'
  <2>1. held[p].st # "absent" => held[p] \in Stored
    BY StoredPairing
  <2>2. Rewritten(p) \in Pairings
    BY <1>9, <2>1, AbsentPairing, StoredUpdate
       DEF Commit, Permitted, OwnPending, OwnRotation, Rewritten, Pairings
  <2> QED
    BY <1>9, <2>2 DEF Commit, Settled, external, Locations
<1>10. ASSUME NEW p \in Procs, Rotate(p) PROVE TypeOK'
  <2>1. held[p] \in Stored
    BY <1>10, StoredPairing DEF Rotate, Permitted, StillDue
  <2>2. PICK k \in Psks :
          /\ origin' = [origin EXCEPT ![k] = [client |-> held[p].client, parent |-> held[p].psk]]
          /\ file' = [held[p] EXCEPT !.psk = k, !.rot = k, !.rotatedAt = now[p]]
    BY <1>10 DEF Rotate, Successor
  <2>3. file' \in Pairings
    BY <2>1, <2>2, StoredRotation DEF Pairings
  <2>4. [client |-> held[p].client, parent |-> held[p].psk]
          \in [client : Clients \cup {None}, parent : Psks \cup {None}]
    BY PairingMembers
  <2> QED
    BY <1>10, <2>2, <2>3, <2>4 DEF Rotate, Settled, Locations
<1>11. ASSUME NEW p \in Procs, Decline(p) PROVE TypeOK'
  BY <1>11, AbsentPairing, TimeAssumption DEF Decline, Leave, Goto, external, Locations, Operations, Replies
<1>12. ASSUME NEW p \in Procs, Sync(p) PROVE TypeOK'
  BY <1>12, AbsentPairing, TimeAssumption
     DEF Sync, MakeDurable, Leave, Goto, external, Locations, Operations, Replies
<1>13. ASSUME NEW p \in Procs, Receive(p) PROVE TypeOK'
  BY <1>13, AbsentPairing, TimeAssumption
     DEF Receive, FollowUp, Leave, Goto, store, external, Locations, Operations, Replies
<1>14. ASSUME NEW p \in Procs, Report(p) PROVE TypeOK'
  <2> DEFINE c == snap[p].client
             b == [dev[c] EXCEPT !.told = TRUE]
  <2>1. c \in Clients => b \in Bindings
    BY BindingUpdates
  <2>2. dev' \in {dev, [dev EXCEPT ![c] = b]}
    BY <1>14 DEF Report
  <2>3. dev' \in [Clients -> Bindings]
    BY <2>1, <2>2
  <2> QED
    BY <1>14, <2>3, AbsentPairing, TimeAssumption
       DEF Report, Leave, store, Locations, Operations, Replies
<1>15. ASSUME NEW p \in Procs, Stop(p) PROVE TypeOK'
  BY <1>15, AbsentPairing, TimeAssumption, AbandonRequests
     DEF Stop, Leave, Locations, Operations, Replies
<1>16. CASE PowerLoss
  BY <1>16, AbsentPairing, TimeAssumption, AbandonRequests
     DEF PowerLoss, Locations, Operations, Replies
<1>17. ASSUME NEW c \in Clients, Decide(c) \/ OverlapEnds(c) PROVE TypeOK'
  BY <1>17 DEF Decide, OverlapEnds, store, local, Bindings
<1>18. ASSUME NEW r \in inflight, AnswerOrdinary(r) PROVE TypeOK'
  <2>1. r \in Requests /\ r.client \in Clients
    BY DEF Requests
  <2>2. PICK result \in Results(r) :
          /\ Respond(r, result)
          /\ dev' = [dev EXCEPT ![r.client] = Removed(dev[r.client], r, result)]
    BY <1>18 DEF AnswerOrdinary
  <2>3. dev' \in [Clients -> Bindings]
    <3>1. dev[r.client] \in Bindings
      BY <2>1
    <3>2. Removed(dev[r.client], r, result) \in Bindings
      BY <3>1, BindingUpdates, PairingMembers DEF Removed, Bindings
    <3> QED
      BY <2>2, <3>2
  <2> QED
    BY <1>18, <2>2, <2>3 DEF AnswerOrdinary, Results, Respond, store, Replies, Requests
<1>19. ASSUME NEW r \in inflight, AnswerRotation(r) PROVE TypeOK'
  <2> DEFINE b == [dev[r.client] EXCEPT !.cur = r.psk, !.prev = dev[r.client].cur]
  <2>1. r \in Requests /\ r.client \in Clients /\ r.psk \in Psks
    BY DEF Requests
  <2>2. dev[r.client].cur \in Psks \cup {None}
    BY <2>1 DEF Bindings
  <2>3. b \in Bindings /\ [b EXCEPT !.st = "removed"] \in Bindings
    BY <2>1, <2>2, BindingUpdates
  <2>4. PICK result \in Results(r) :
          Respond(r, result) /\ dev' = [dev EXCEPT ![r.client] = Removed(b, r, result)]
    BY <1>19 DEF AnswerRotation
  <2>5. dev' \in [Clients -> Bindings]
    BY <2>3, <2>4 DEF Removed
  <2> QED
    BY <1>19, <2>4, <2>5 DEF AnswerRotation, Results, Respond, store, Replies, Requests
<1>20. ASSUME NEW r \in inflight, AnswerActivation(r) PROVE TypeOK'
  BY <1>20 DEF AnswerActivation, Respond, store, Replies, Requests, Bindings
<1>21. CASE UNCHANGED vars
  BY <1>21 DEF vars
<1> QED
  BY <1>1, <1>2, <1>3, <1>4, <1>5, <1>6, <1>7, <1>8, <1>9, <1>10, <1>11, <1>12, <1>13,
     <1>14, <1>15, <1>16, <1>17, <1>18, <1>19, <1>20, <1>21
     DEF Next, ProcessStep, DeviceStep

\* Every variable keeps its type.
THEOREM TypeCorrect == Spec => []TypeOK
BY TypeInit, TypeStep, PTL DEF Spec

-----------------------------------------------------------------------------
(* The invariant                                                           *)
(*                                                                         *)
(* A power loss can undo every write that was not yet synced, so nothing   *)
(* is said here about the order of keys (Inductive of module Pairing).     *)
(* What survives is who owns what: identifiers are never used twice, and   *)
(* the device's record of a client only advances.                          *)

\* A pairing has a key of its client, and no other rotation key.
Owned(f) ==
  f.st # "absent" => origin[f.psk].client = f.client /\ f.rot \in {None, f.psk}

OwnedInv == Owned(file) /\ Owned(disk) /\ \A p \in Procs : Owned(snap[p])

\* The device knows a client only by a key that the client has used.
KnownInv ==
  \A c \in Clients : dev[c].st # "none" =>
    dev[c].cur \in Psks /\ origin[dev[c].cur].client = c

\* A pairing that is still to be written, or handed off, is new to the device.
NewInv ==
  \A p \in Procs : op[p] = "write" =>
    /\ snap[p].st = "pending"
    /\ dev[snap[p].client].st = "none"
    /\ \A q \in Procs : q # p /\ op[q] = "write" => snap[q].client # snap[p].client

\* A request that has a sender is the one its sender waits for.
AwaitInv ==
  \A r \in inflight : r.from # None =>
    /\ pc[r.from] = "wait" /\ op[r.from] = r.method /\ reply[r.from] = "none"
    /\ snap[r.from].client = r.client
    /\ \A q \in inflight : q.from = r.from => q = r

\* An activation or removal that goes on locally was made by the device.
FollowInv ==
  \A p \in Procs : op[p] \in {"finish", "remove"} /\ (pc[p] # "wait" \/ reply[p] = "ok") =>
    /\ snap[p].client \in Clients
    /\ dev[snap[p].client].st \in {"active", "removed"}
    /\ op[p] = "remove" => dev[snap[p].client].st = "removed"

\* What a process that activates a pairing has written stays until its sync.
FinishedInv ==
  \A p \in Procs :
    /\ pc[p] = "report" => op[p] = "finish"
    /\ pc[p] = "sync" /\ op[p] = "finish" =>
         file.st = "active" /\ file.client = snap[p].client

\* The device was told, or is being told, that the pairing of c is active.
Reported(c) ==
  dev[c].told \/ \E p \in Procs : pc[p] = "report" /\ snap[p].client = c

\* Such a pairing is not pending any more, and nothing brings it back.
ReportedInv ==
  \A c \in Clients : Reported(c) =>
    /\ dev[c].st \in {"active", "removed"}
    /\ file.client = c => file.st = "active" /\ disk.st = "active" /\ disk.client = c
    /\ disk.client = c => disk.st = "active"

SafeInv ==
  TypeOK /\ LockInv /\ LocalInv /\ OwnedInv /\ KnownInv /\ NewInv /\ AwaitInv
    /\ FollowInv /\ FinishedInv /\ ActiveOnlyAfterDevice /\ ReportedInv

-----------------------------------------------------------------------------
(* What a step can change *)

\* The file changes under the lock, or by a power loss.
LEMMA FileChanges ==
  ASSUME [Next]_vars
  PROVE  UNCHANGED file \/ PowerLoss \/ \E p \in Procs : Commit(p) \/ Rotate(p)
BY DEF Next, ProcessStep, DeviceStep, StartPairing, HandOff, FinishPairing,
       RemovePairing, DropPairing, Use, UseRead, Lock, Decline, Sync, Receive, Report,
       Stop, Decide, OverlapEnds, AnswerOrdinary, AnswerRotation, AnswerActivation,
       store, vars

\* What survives a power loss is what survived before, or the file.
LEMMA DiskChanges ==
  ASSUME [Next]_vars
  PROVE  disk' \in {disk, file'}
BY DEF Next, ProcessStep, DeviceStep, StartPairing, HandOff, FinishPairing,
       RemovePairing, DropPairing, Use, UseRead, Lock, Commit, Rotate, Decline, Sync,
       Receive, Report, Stop, PowerLoss, Decide, OverlapEnds, AnswerOrdinary,
       AnswerRotation, AnswerActivation, MakeDurable, Settled, store, vars

\* A key keeps the origin it was once given.
LEMMA OriginChanges ==
  ASSUME TypeOK, [Next]_vars
  PROVE  \A k \in Psks : origin[k].client # None => origin'[k] = origin[k]
<1>1. ASSUME NEW p \in Procs, StartPairing(p) \/ Rotate(p)
      PROVE  \A k \in Psks : origin[k].client # None => origin'[k] = origin[k]
  BY <1>1 DEF StartPairing, Rotate, FreshPsk, TypeOK
<1>2. UNCHANGED origin \/ \E p \in Procs : StartPairing(p) \/ Rotate(p)
  BY DEF Next, ProcessStep, DeviceStep, HandOff, FinishPairing, RemovePairing,
       DropPairing, Use, UseRead, Lock, Commit, Decline, Sync, Receive, Report, Stop,
       PowerLoss, Decide, OverlapEnds, AnswerOrdinary, AnswerRotation,
       AnswerActivation, Send, external, vars
<1> QED
  BY <1>1, <1>2

\* The device's record of a client advances: what is active or removed stays so,
\* and a new client becomes known by its handoff.
LEMMA DeviceChanges ==
  ASSUME SafeInv, [Next]_vars, NEW c \in Clients
  PROVE  /\ dev[c].st \in {"active", "removed"} => dev'[c].st \in {"active", "removed"}
         /\ dev[c].st = "removed" => dev'[c].st = "removed"
         /\ dev[c].st = "none" => \/ dev'[c].st = "none"
                                  \/ \E p \in Procs : HandOff(p) /\ snap[p].client = c
<1> USE DEF SafeInv, TypeOK
<1>1. ASSUME NEW p \in Procs, HandOff(p) PROVE dev'[c] = dev[c] \/ snap[p].client = c
  <2> DEFINE b == [dev[snap[p].client] EXCEPT !.st = "offered", !.cur = snap[p].psk]
  <2>1. dev' \in {dev, [dev EXCEPT ![snap[p].client] = b]}
    BY <1>1 DEF HandOff
  <2> QED
    BY <2>1
<1>2. ASSUME NEW p \in Procs, HandOff(p), snap[p].client = c PROVE dev[c].st = "none"
  BY <1>2 DEF HandOff, LocalInv, NewInv
<1>3. ASSUME NEW p \in Procs, Report(p) PROVE dev'[c].st = dev[c].st
  <2> DEFINE b == [dev[snap[p].client] EXCEPT !.told = TRUE]
  <2>1. dev' \in {dev, [dev EXCEPT ![snap[p].client] = b]}
    BY <1>3 DEF Report
  <2>2. snap[p].client \in Clients => b.st = dev[snap[p].client].st
    OBVIOUS
  <2> QED
    BY <2>1, <2>2
<1>4. ASSUME NEW x \in Clients, Decide(x) \/ OverlapEnds(x)
      PROVE  dev'[c].st = dev[c].st \/ (dev[c].st = "offered" /\ dev'[c].st \in {"accepted", "rejected"})
  <2>1. CASE Decide(x)
    BY <2>1 DEF Decide, Bindings
  <2>2. CASE OverlapEnds(x)
    BY <2>2 DEF OverlapEnds, Bindings
  <2> QED
    BY <1>4, <2>1, <2>2
<1>5. ASSUME NEW r \in inflight, AnswerOrdinary(r) \/ AnswerRotation(r)
      PROVE  dev'[c].st = dev[c].st \/ (dev[c].st = "active" /\ dev'[c].st = "removed")
  <2>1. dev[r.client].st = "active" /\ r.client \in Clients
    BY <1>5 DEF AnswerOrdinary, AnswerRotation, OpensOrdinary, OpensCandidate, Requests
  <2>2. ASSUME NEW result, dev' = [dev EXCEPT ![r.client] = Removed(@, r, result)]
        PROVE  dev'[c].st = dev[c].st \/ (c = r.client /\ dev'[c].st = "removed")
    BY <2>1, <2>2 DEF Removed, Bindings
  <2>3. ASSUME NEW result,
               dev' = [dev EXCEPT ![r.client] =
                 Removed([@ EXCEPT !.cur = r.psk, !.prev = dev[r.client].cur], r, result)]
        PROVE  dev'[c].st = dev[c].st \/ (c = r.client /\ dev'[c].st = "removed")
    BY <2>1, <2>3 DEF Removed, Bindings
  <2> QED
    BY <1>5, <2>1, <2>2, <2>3 DEF AnswerOrdinary, AnswerRotation
<1>6. ASSUME NEW r \in inflight, AnswerActivation(r)
      PROVE  dev'[c].st = dev[c].st \/ (dev[c].st = "accepted" /\ dev'[c].st = "active")
  BY <1>6 DEF AnswerActivation, Requests, Bindings
<1>7. \/ UNCHANGED dev
      \/ \E p \in Procs : HandOff(p) \/ Report(p)
      \/ \E x \in Clients : Decide(x) \/ OverlapEnds(x)
      \/ \E r \in inflight : AnswerOrdinary(r) \/ AnswerRotation(r) \/ AnswerActivation(r)
  BY DEF Next, ProcessStep, DeviceStep, StartPairing, FinishPairing, RemovePairing,
       DropPairing, Use, UseRead, Lock, Commit, Rotate, Decline, Sync, Receive, Stop,
       PowerLoss, Send, external, vars
<1> QED
  BY <1>1, <1>2, <1>3, <1>4, <1>5, <1>6, <1>7

-----------------------------------------------------------------------------
(* What a step keeps *)

\* Where the processes are, and who holds the lock.
LEMMA ControlKept ==
  ASSUME SafeInv, [Next]_vars
  PROVE  LockInv' /\ LocalInv'
<1> USE NoneAssumption DEF SafeInv, TypeOK, LockInv, LocalInv
<1>1. ASSUME NEW p \in Procs,
             StartPairing(p) \/ FinishPairing(p) \/ RemovePairing(p) \/ DropPairing(p)
               \/ Use(p) \/ UseRead(p)
      PROVE  LockInv' /\ LocalInv'
  BY <1>1 DEF StartPairing, FinishPairing, RemovePairing, DropPairing, Use, UseRead, Send,
       Goto, Leave, store, external
<1>2. ASSUME NEW p \in Procs, HandOff(p) \/ Receive(p) \/ Report(p) \/ Stop(p)
      PROVE  LockInv' /\ LocalInv'
  <2>1. CASE HandOff(p) \/ Report(p) \/ Stop(p)
    BY <2>1 DEF HandOff, Report, Stop, Goto, Leave, store
  <2>2. CASE Receive(p)
    <3>1. CASE Leave(p) /\ UNCHANGED store
      BY <2>2, <3>1 DEF Receive, Leave, store
    <3>2. CASE (\E o \in FollowUp(p) : Goto(p, "lock", o)) /\ UNCHANGED <<snap, reply, store, held>>
      <4>1. PICK o \in FollowUp(p) : Goto(p, "lock", o)
        BY <3>2
      <4>2. \/ o = "clear" /\ snap[p].rot # None
            \/ o = op[p] /\ o \in {"finish", "remove"}
        BY <2>2 DEF FollowUp, Receive
      <4> QED
        BY <2>2, <3>2, <4>1, <4>2 DEF Receive, Goto, store
    <3> QED
      BY <2>2, <3>1, <3>2 DEF Receive
  <2> QED
    BY <1>2, <2>1, <2>2
<1>3. ASSUME NEW p \in Procs, Lock(p) \/ Commit(p) \/ Rotate(p)
      PROVE  LockInv' /\ LocalInv'
  <2>1. CASE Lock(p)
    BY <2>1 DEF Lock
  <2>2. CASE Commit(p) \/ Rotate(p)
    <3>1. /\ pc[p] = "locked" /\ lock = p /\ pc' = [pc EXCEPT ![p] = "sync"]
          /\ UNCHANGED <<lock, op, snap, held, reply>>
      BY <2>2 DEF Commit, Rotate
    <3> QED
      BY <3>1
  <2> QED
    BY <1>3, <2>1, <2>2
<1>4. ASSUME NEW p \in Procs, Decline(p) \/ Sync(p)
      PROVE  LockInv' /\ LocalInv'
  BY <1>4 DEF Decline, Sync, Goto, Leave
<1>5. CASE PowerLoss
  BY <1>5 DEF PowerLoss
<1>6. ASSUME NEW r \in inflight, AnswerOrdinary(r) \/ AnswerRotation(r) \/ AnswerActivation(r)
      PROVE  LockInv' /\ LocalInv'
  BY <1>6 DEF AnswerOrdinary, AnswerRotation, AnswerActivation, Respond, AwaitInv, store, Requests
<1>7. ASSUME NEW c \in Clients, Decide(c) \/ OverlapEnds(c)
      PROVE  LockInv' /\ LocalInv'
  BY <1>7 DEF Decide, OverlapEnds, store, local
<1>8. CASE UNCHANGED vars
  BY <1>8 DEF vars
<1> QED
  BY <1>1, <1>2, <1>3, <1>4, <1>5, <1>6, <1>7, <1>8 DEF Next, ProcessStep, DeviceStep

\* A pairing that was owned is owned, since keys keep their origin.
LEMMA StaysOwned ==
  ASSUME SafeInv, [Next]_vars, NEW f \in Pairings, Owned(f)
  PROVE  (f.st # "absent" => origin'[f.psk].client = f.client /\ f.rot \in {None, f.psk})
BY OriginChanges, PairingMembers, NoneAssumption DEF SafeInv, Owned

\* What a process writes under the lock is owned.
LEMMA RewrittenOwned ==
  ASSUME SafeInv, NEW p \in Procs, Commit(p)
  PROVE  Owned(file')
<1> USE DEF SafeInv, TypeOK
<1>1. held[p] = file /\ file' = Rewritten(p)
  BY DEF Commit, LockInv
<1>2. CASE op[p] = "write"
  BY <1>1, <1>2 DEF Rewritten, OwnedInv
<1>3. CASE op[p] \in {"finish", "clear"}
  <2>1. file \in Stored
    BY <1>1, <1>3, StoredPairing DEF Commit, Permitted, OwnPending, OwnRotation
  <2>2. file'.psk = file.psk /\ file'.client = file.client /\ file'.rot \in {None, file.rot}
    BY <1>1, <1>3, <2>1 DEF Rewritten, Stored
  <2> QED
    BY <2>1, <2>2 DEF Owned, OwnedInv, Stored
<1>4. CASE op[p] \notin {"write", "finish", "clear"}
  BY <1>1, <1>4 DEF Rewritten, Absent, Owned
<1> QED
  BY <1>2, <1>3, <1>4

LEMMA OwnedKept ==
  ASSUME SafeInv, [Next]_vars, TypeOK'
  PROVE  OwnedInv'
<1> USE NoneAssumption DEF SafeInv, TypeOK
<1> DEFINE Own(f) == f.st # "absent" => origin'[f.psk].client = f.client /\ f.rot \in {None, f.psk}
<1>1. \A f \in Pairings : Owned(f) => Own(f)
  BY StaysOwned
<1>2. Own(file')
  <2>1. CASE UNCHANGED file \/ PowerLoss
    BY <1>1, <2>1 DEF PowerLoss, OwnedInv
  <2>2. ASSUME NEW p \in Procs, Commit(p) PROVE Own(file')
    BY <1>1, <2>2, RewrittenOwned
  <2>3. ASSUME NEW p \in Procs, Rotate(p) PROVE Own(file')
    <3>1. held[p] \in Stored
      BY <2>3, StoredPairing DEF Rotate, Permitted, StillDue
    <3>2. PICK k \in Psks : /\ origin' = [origin EXCEPT ![k] = Successor(held[p])]
                            /\ file' = [held[p] EXCEPT !.psk = k, !.rot = k, !.rotatedAt = now[p]]
      BY <2>3 DEF Rotate
    <3> QED
      BY <3>1, <3>2 DEF Successor, Stored
  <2> QED
    BY <2>1, <2>2, <2>3, FileChanges
<1>3. Own(disk')
  BY <1>1, <1>2, DiskChanges DEF OwnedInv
<1>4. ASSUME NEW p \in Procs PROVE Own(snap'[p])
  <2>1. CASE StartPairing(p)
    BY <2>1 DEF StartPairing, Attempt, Origin
  <2>2. snap'[p] \in {snap[p], file, Absent} \/ StartPairing(p)
    <3>1. ASSUME NEW q \in Procs, ProcessStep(q)
          PROVE  snap'[p] \in {snap[p], file, Absent} \/ StartPairing(p)
      <4>1. CASE StartPairing(q)
        BY <4>1 DEF StartPairing
      <4>2. UNCHANGED snap \/ snap' = [snap EXCEPT ![q] = file] \/ snap' = [snap EXCEPT ![q] = Absent]
              \/ StartPairing(q)
        BY <3>1 DEF ProcessStep, HandOff, FinishPairing, RemovePairing, DropPairing, Use, UseRead,
             Lock, Commit, Rotate, Decline, Sync, Receive, Report, Stop, Send, Leave
      <4> QED
        BY <4>1, <4>2
    <3>2. CASE PowerLoss
      BY <3>2 DEF PowerLoss
    <3>3. CASE DeviceStep \/ UNCHANGED vars
      BY <3>3 DEF DeviceStep, Decide, OverlapEnds, AnswerOrdinary, AnswerRotation,
           AnswerActivation, local, vars
    <3> QED
      BY <3>1, <3>2, <3>3 DEF Next
  <2>3. Own(Absent)
    BY DEF Absent
  <2> QED
    BY <1>1, <2>1, <2>2, <2>3 DEF OwnedInv
<1> QED
  BY <1>2, <1>3, <1>4 DEF OwnedInv, Owned

LEMMA KnownKept ==
  ASSUME SafeInv, [Next]_vars, TypeOK'
  PROVE  KnownInv'
<1> USE NoneAssumption DEF SafeInv, TypeOK
<1> SUFFICES ASSUME NEW c \in Clients, dev'[c].st # "none"
             PROVE  dev'[c].cur \in Psks /\ origin'[dev'[c].cur].client = c
  BY DEF KnownInv
<1>1. ASSUME NEW p \in Procs, HandOff(p), dev'[c] # dev[c]
      PROVE  dev'[c].cur = snap[p].psk /\ snap[p].client = c /\ snap[p].st = "pending"
  <2> DEFINE b == [dev[snap[p].client] EXCEPT !.st = "offered", !.cur = snap[p].psk]
  <2>1. dev' \in {dev, [dev EXCEPT ![snap[p].client] = b]} /\ op[p] = "write"
    BY <1>1 DEF HandOff, LocalInv
  <2>2. snap[p].client \in Clients => dev[snap[p].client] \in Bindings
    OBVIOUS
  <2>3. snap[p].client \in Clients => b.cur = snap[p].psk
    BY <2>2 DEF Bindings
  <2> QED
    BY <1>1, <2>1, <2>3 DEF NewInv
<1>2. ASSUME NEW r \in inflight, AnswerRotation(r), dev'[c] # dev[c]
      PROVE  dev'[c].cur = r.psk /\ origin[r.psk].client = c
  <2>1. /\ r.client \in Clients /\ r.rot = r.psk
        /\ origin[r.rot] = [client |-> r.client, parent |-> dev[r.client].cur]
    BY <1>2 DEF AnswerRotation, OpensCandidate, Requests
  <2>2. PICK result \in Results(r) :
          dev' = [dev EXCEPT ![r.client] =
            Removed([@ EXCEPT !.cur = r.psk, !.prev = dev[r.client].cur], r, result)]
    BY <1>2 DEF AnswerRotation
  <2> QED
    BY <1>2, <2>1, <2>2 DEF Removed, Bindings
<1>3. \/ dev'[c].cur = dev[c].cur /\ dev[c].st # "none"
      \/ \E p \in Procs : HandOff(p) /\ dev'[c] # dev[c]
      \/ \E r \in inflight : AnswerRotation(r) /\ dev'[c] # dev[c]
  <2>1. ASSUME NEW p \in Procs, Report(p) PROVE dev'[c].cur = dev[c].cur /\ dev'[c].st = dev[c].st
    <3> DEFINE b == [dev[snap[p].client] EXCEPT !.told = TRUE]
    <3>1. dev' \in {dev, [dev EXCEPT ![snap[p].client] = b]}
      BY <2>1 DEF Report
    <3>2. snap[p].client \in Clients =>
            b.cur = dev[snap[p].client].cur /\ b.st = dev[snap[p].client].st
      OBVIOUS
    <3> QED
      BY <3>1, <3>2
  <2>2. ASSUME NEW x \in Clients, Decide(x)
        PROVE  dev'[c].cur = dev[c].cur /\ dev[c].st # "none"
    BY <2>2 DEF Decide, Bindings
  <2>3. ASSUME NEW x \in Clients, OverlapEnds(x)
        PROVE  dev'[c].cur = dev[c].cur /\ dev[c].st # "none"
    BY <2>3 DEF OverlapEnds, Bindings
  <2>4. ASSUME NEW r \in inflight, AnswerOrdinary(r)
        PROVE  dev'[c].cur = dev[c].cur /\ dev[c].st # "none"
    BY <2>4 DEF AnswerOrdinary, OpensOrdinary, Removed, Requests, Bindings
  <2>5. ASSUME NEW r \in inflight, AnswerActivation(r)
        PROVE  dev'[c].cur = dev[c].cur /\ dev[c].st # "none"
    BY <2>5 DEF AnswerActivation, Requests, Bindings
  <2>6. \/ UNCHANGED dev
        \/ \E p \in Procs : HandOff(p) \/ Report(p)
        \/ \E x \in Clients : Decide(x) \/ OverlapEnds(x)
        \/ \E r \in inflight : AnswerOrdinary(r) \/ AnswerRotation(r) \/ AnswerActivation(r)
    BY DEF Next, ProcessStep, DeviceStep, StartPairing, FinishPairing, RemovePairing,
         DropPairing, Use, UseRead, Lock, Commit, Rotate, Decline, Sync, Receive, Stop,
         PowerLoss, Send, external, vars
  <2> QED
    BY <2>1, <2>2, <2>3, <2>4, <2>5, <2>6
<1>4. ASSUME NEW k \in Psks, origin[k].client = c PROVE origin'[k].client = c
  BY <1>4, OriginChanges
<1>5. ASSUME NEW p \in Procs, snap[p].client = c, snap[p].st = "pending"
      PROVE  snap[p].psk \in Psks /\ origin[snap[p].psk].client = c
  BY <1>5, PairingMembers DEF OwnedInv, Owned
<1>6. \A r \in inflight : r.psk \in Psks
  BY DEF Requests
<1> QED
  BY <1>1, <1>2, <1>3, <1>4, <1>5, <1>6 DEF KnownInv

\* A process keeps what it writes for its client until it has handed it off.
LEMMA WritersKept ==
  ASSUME SafeInv, [Next]_vars
  PROVE  \A p \in Procs : op'[p] = "write" =>
           \/ op[p] = "write" /\ snap'[p] = snap[p] /\ ~HandOff(p)
           \/ StartPairing(p)
<1> USE NoneAssumption DEF SafeInv, TypeOK
<1> SUFFICES ASSUME NEW p \in Procs, op'[p] = "write", ~StartPairing(p)
             PROVE  op[p] = "write" /\ snap'[p] = snap[p]
  BY DEF HandOff, Goto, Leave
<1>1. ASSUME NEW q \in Procs, ProcessStep(q), q # p
      PROVE  op[p] = "write" /\ snap'[p] = snap[p]
  BY <1>1 DEF ProcessStep, StartPairing, HandOff, FinishPairing, RemovePairing, DropPairing, Use,
       UseRead, Lock, Commit, Rotate, Decline, Sync, Receive, Report, Stop, Goto, Leave, Send
<1>2. CASE ProcessStep(p)
  <2>1. ~HandOff(p)
    BY DEF HandOff, Goto, Leave
  <2>2. CASE Receive(p)
    BY <2>2 DEF Receive, FollowUp, Goto, Leave
  <2>3. CASE Sync(p)
    BY <2>3 DEF Sync, Goto, Leave
  <2>4. CASE Lock(p) \/ Commit(p) \/ Rotate(p)
    BY <2>4 DEF Lock, Commit, Rotate
  <2> QED
    BY <1>2, <2>1, <2>2, <2>3, <2>4 DEF ProcessStep, FinishPairing, RemovePairing, DropPairing, Use,
       UseRead, Decline, Report, Stop, Goto, Leave, Send
<1>3. CASE PowerLoss
  BY <1>3 DEF PowerLoss
<1>4. CASE DeviceStep \/ UNCHANGED vars
  BY <1>4 DEF DeviceStep, Decide, OverlapEnds, AnswerOrdinary, AnswerRotation,
       AnswerActivation, local, vars
<1> QED
  BY <1>1, <1>2, <1>3, <1>4 DEF Next

LEMMA NewKept ==
  ASSUME SafeInv, [Next]_vars, TypeOK'
  PROVE  NewInv'
<1> USE NoneAssumption DEF SafeInv, TypeOK
<1>1. ASSUME NEW p \in Procs, StartPairing(p)
      PROVE  /\ snap'[p].st = "pending" /\ snap'[p].client \in Clients
             /\ dev'[snap'[p].client].st = "none"
             /\ \A q \in Procs : q # p /\ op'[q] = "write" =>
                  op[q] = "write" /\ snap'[q] = snap[q] /\ snap[q].client # snap'[p].client
  <2>1. PICK c \in Clients, k \in Psks, t \in Times :
          FreshClient(c) /\ FreshPsk(k) /\ snap' = [snap EXCEPT ![p] = Attempt(c, k, t)]
    BY <1>1 DEF StartPairing
  <2>2. dev'[c].st = "none"
    BY <1>1, <2>1 DEF StartPairing, FreshClient, KnownInv
  <2>3. ASSUME NEW q \in Procs, op[q] = "write" PROVE snap[q].client # c
    <3>1. snap[q].st = "pending" /\ snap[q].psk \in Psks
      BY <2>3, PairingMembers DEF NewInv
    <3>2. origin[snap[q].psk].client = snap[q].client
      BY <3>1 DEF OwnedInv, Owned
    <3> QED
      BY <2>1, <3>1, <3>2 DEF FreshClient
  <2> QED
    BY <1>1, <2>1, <2>2, <2>3 DEF StartPairing, Goto, Attempt
<1>2. ASSUME NEW p \in Procs, op'[p] = "write", op[p] = "write", snap'[p] = snap[p], ~HandOff(p)
      PROVE  snap[p].st = "pending" /\ dev'[snap[p].client].st = "none"
  <2>1. snap[p].st = "pending" /\ snap[p].client \in Clients /\ dev[snap[p].client].st = "none"
    BY <1>2, PairingMembers DEF NewInv
  <2>2. ASSUME NEW q \in Procs, HandOff(q), snap[q].client = snap[p].client PROVE FALSE
    BY <1>2, <2>2 DEF HandOff, LocalInv, NewInv
  <2> QED
    BY <2>1, <2>2, DeviceChanges
<1>3. \A p, q \in Procs : op[p] = "write" /\ op[q] = "write" /\ q # p =>
        snap[q].client # snap[p].client
  BY DEF NewInv
<1> SUFFICES ASSUME NEW p \in Procs, op'[p] = "write"
             PROVE  /\ snap'[p].st = "pending"
                    /\ dev'[snap'[p].client].st = "none"
                    /\ \A q \in Procs : q # p /\ op'[q] = "write" => snap'[q].client # snap'[p].client
  BY DEF NewInv
<1>4. CASE StartPairing(p)
  BY <1>1, <1>4
<1>5. CASE ~StartPairing(p)
  <2>1. op[p] = "write" /\ snap'[p] = snap[p] /\ ~HandOff(p)
    BY <1>5, WritersKept
  <2>2. ASSUME NEW q \in Procs, q # p, op'[q] = "write" PROVE snap'[q].client # snap'[p].client
    BY <1>1, <1>3, <2>1, <2>2, WritersKept
  <2> QED
    BY <1>2, <2>1, <2>2
<1> QED
  BY <1>4, <1>5

LEMMA AwaitKept ==
  ASSUME SafeInv, [Next]_vars, TypeOK'
  PROVE  AwaitInv'
<1> USE NoneAssumption DEF SafeInv, TypeOK, AwaitInv
<1>1. ASSUME NEW p \in Procs, pc[p] # "wait", inflight' = inflight,
             \A q \in Procs : q # p => UNCHANGED <<pc[q], op[q], snap[q], reply[q]>>
      PROVE  AwaitInv'
  BY <1>1 DEF Requests
<1>2. ASSUME NEW p \in Procs,
             StartPairing(p) \/ HandOff(p) \/ DropPairing(p) \/ Use(p) \/ Lock(p) \/ Commit(p)
               \/ Rotate(p) \/ Decline(p) \/ Sync(p) \/ Report(p)
      PROVE  AwaitInv'
  <2>1. pc[p] # "wait" /\ inflight' = inflight
    BY <1>2 DEF StartPairing, HandOff, DropPairing, Use, Lock, Commit, Rotate, Decline, Sync,
         Report, external
  <2>2. \A q \in Procs : q # p => UNCHANGED <<pc[q], op[q], snap[q], reply[q]>>
    <3>1. CASE StartPairing(p) \/ HandOff(p) \/ DropPairing(p) \/ Use(p) \/ Report(p)
      BY <3>1 DEF StartPairing, HandOff, DropPairing, Use, Report, Goto, Leave
    <3>2. CASE Lock(p) \/ Commit(p) \/ Rotate(p)
      BY <3>2 DEF Lock, Commit, Rotate
    <3>3. CASE Decline(p) \/ Sync(p)
      BY <3>3 DEF Decline, Sync, Goto, Leave
    <3> QED
      BY <1>2, <3>1, <3>2, <3>3
  <2> QED
    BY <1>1, <2>1, <2>2
<1>3. ASSUME NEW p \in Procs, FinishPairing(p) \/ RemovePairing(p) \/ UseRead(p)
      PROVE  AwaitInv'
  <2>1. pc[p] \in {"idle", "read"}
    BY <1>3 DEF FinishPairing, RemovePairing, UseRead
  <2>2. CASE Leave(p) /\ UNCHANGED external
    BY <1>1, <2>1, <2>2 DEF Leave, external
  <2>3. ASSUME NEW method, Send(p, method, file) PROVE AwaitInv'
    <3>1. \A r \in inflight : r.from # p
      BY <2>1
    <3>2. op[p] = "none" \/ pc[p] = "read"
      BY <2>1 DEF LocalInv
    <3>3. reply[p] = "none"
      BY <3>2 DEF LocalInv
    <3> QED
      BY <2>3, <3>1, <3>3 DEF Send, Goto, Requests
  <2> QED
    BY <1>3, <2>2, <2>3 DEF FinishPairing, RemovePairing, UseRead
<1>4. ASSUME NEW p \in Procs, Receive(p) PROVE AwaitInv'
  BY <1>4 DEF Receive, Goto, Leave, external, Requests
<1>5. ASSUME NEW p \in Procs, Stop(p) PROVE AwaitInv'
  BY <1>5 DEF Stop, Leave, Abandon, Requests
<1>6. CASE PowerLoss
  BY <1>6 DEF PowerLoss, Abandon, Requests
<1>7. ASSUME NEW r \in inflight, AnswerOrdinary(r) \/ AnswerRotation(r) \/ AnswerActivation(r)
      PROVE  AwaitInv'
  <2>1. UNCHANGED <<pc, op, snap>> /\ inflight' = inflight \ {r}
        /\ \A q \in Procs : q # r.from => reply'[q] = reply[q]
    BY <1>7 DEF AnswerOrdinary, AnswerRotation, AnswerActivation, Respond
  <2> QED
    BY <2>1 DEF Requests
<1>8. ASSUME NEW c \in Clients, Decide(c) \/ OverlapEnds(c) PROVE AwaitInv'
  BY <1>8 DEF Decide, OverlapEnds, local
<1>9. CASE UNCHANGED vars
  BY <1>9 DEF vars
<1> QED
  BY <1>2, <1>3, <1>4, <1>5, <1>6, <1>7, <1>8, <1>9 DEF Next, ProcessStep, DeviceStep

\* Process p goes on with what the device has answered.
Following(p) == op[p] \in {"finish", "remove"} /\ (pc[p] # "wait" \/ reply[p] = "ok")

\* Only the device makes a process follow its answer.
LEMMA FollowersKept ==
  ASSUME SafeInv, [Next]_vars, NEW p \in Procs, Following(p)',
         \A r \in inflight : ~AnswerOrdinary(r) /\ ~AnswerRotation(r) /\ ~AnswerActivation(r)
  PROVE  Following(p) /\ op'[p] = op[p] /\ snap'[p] = snap[p]
<1> USE NoneAssumption DEF SafeInv, TypeOK, Following
<1>1. ASSUME NEW q \in Procs, ProcessStep(q), q # p
      PROVE  UNCHANGED <<pc[p], op[p], reply[p], snap[p]>>
  BY <1>1 DEF ProcessStep, StartPairing, HandOff, FinishPairing, RemovePairing, DropPairing, Use,
       UseRead, Lock, Commit, Rotate, Decline, Sync, Receive, Report, Stop, Goto, Leave, Send
<1>2. CASE ProcessStep(p)
  <2>1. CASE StartPairing(p) \/ HandOff(p) \/ DropPairing(p) \/ Use(p) \/ Report(p) \/ Stop(p)
             \/ Decline(p)
    BY <2>1 DEF StartPairing, HandOff, DropPairing, Use, Report, Stop, Decline, Goto, Leave
  <2>2. CASE FinishPairing(p) \/ RemovePairing(p) \/ UseRead(p)
    BY <2>2 DEF FinishPairing, RemovePairing, UseRead, Send, Goto, Leave, LocalInv
  <2>3. CASE Lock(p) \/ Commit(p) \/ Rotate(p)
    <3>1. pc[p] # "wait" /\ UNCHANGED <<op, reply, snap>>
      BY <2>3 DEF Lock, Commit, Rotate
    <3> QED
      BY <3>1
  <2>4. CASE Sync(p)
    BY <2>4 DEF Sync, Goto, Leave
  <2>5. CASE Receive(p)
    <3>1. CASE Leave(p)
      BY <3>1 DEF Leave
    <3>2. CASE (\E o \in FollowUp(p) : Goto(p, "lock", o)) /\ UNCHANGED <<snap, reply>>
      <4>1. PICK o \in FollowUp(p) : Goto(p, "lock", o)
        BY <3>2
      <4>2. o = "clear" \/ (o = op[p] /\ reply[p] = "ok")
        BY DEF FollowUp
      <4> QED
        BY <3>2, <4>1, <4>2 DEF Goto
    <3> QED
      BY <2>5, <3>1, <3>2 DEF Receive
  <2> QED
    BY <1>2, <2>1, <2>2, <2>3, <2>4, <2>5 DEF ProcessStep
<1>3. ~PowerLoss
  BY DEF PowerLoss
<1>4. CASE (\E c \in Clients : Decide(c) \/ OverlapEnds(c)) \/ UNCHANGED vars
  BY <1>4 DEF Decide, OverlapEnds, local, vars
<1> QED
  BY <1>1, <1>2, <1>3, <1>4 DEF Next, DeviceStep

LEMMA FollowKept ==
  ASSUME SafeInv, [Next]_vars, TypeOK'
  PROVE  FollowInv'
<1> USE NoneAssumption DEF SafeInv, TypeOK
<1> SUFFICES ASSUME NEW p \in Procs, Following(p)'
             PROVE  /\ snap'[p].client \in Clients
                    /\ dev'[snap'[p].client].st \in {"active", "removed"}
                    /\ op'[p] = "remove" => dev'[snap'[p].client].st = "removed"
  BY DEF FollowInv, Following
<1>1. CASE Following(p) /\ op'[p] = op[p] /\ snap'[p] = snap[p]
  BY <1>1, DeviceChanges DEF FollowInv, Following
<1>2. ASSUME NEW r \in inflight, AnswerOrdinary(r) \/ AnswerRotation(r) \/ AnswerActivation(r),
             ~Following(p)
      PROVE  /\ snap'[p].client \in Clients
             /\ dev'[snap'[p].client].st \in {"active", "removed"}
             /\ op'[p] = "remove" => dev'[snap'[p].client].st = "removed"
  <2>1. UNCHANGED <<pc, op, snap>> /\ r.client \in Clients
    BY <1>2 DEF AnswerOrdinary, AnswerRotation, AnswerActivation, Requests
  <2>2. ASSUME NEW result, Respond(r, result)
        PROVE  r.from = p /\ result = "ok" /\ r.method = op[p] /\ snap[p].client = r.client
    BY <1>2, <2>1, <2>2 DEF Respond, Following, AwaitInv
  <2>3. CASE AnswerOrdinary(r)
    <3>1. dev[r.client].st = "active"
      BY <2>3 DEF AnswerOrdinary, OpensOrdinary
    <3>2. PICK result \in Results(r) :
            Respond(r, result) /\ dev' = [dev EXCEPT ![r.client] = Removed(@, r, result)]
      BY <2>3 DEF AnswerOrdinary
    <3> QED
      BY <2>1, <2>2, <3>1, <3>2 DEF Removed, Bindings, Following
  <2>4. CASE AnswerRotation(r)
    <3>1. dev[r.client].st = "active"
      BY <2>4 DEF AnswerRotation, OpensCandidate
    <3>2. PICK result \in Results(r) :
            /\ Respond(r, result)
            /\ dev' = [dev EXCEPT ![r.client] =
                 Removed([@ EXCEPT !.cur = r.psk, !.prev = dev[r.client].cur], r, result)]
      BY <2>4 DEF AnswerRotation
    <3> QED
      BY <2>1, <2>2, <3>1, <3>2 DEF Removed, Bindings, Following
  <2>5. CASE AnswerActivation(r)
    BY <2>1, <2>2, <2>5 DEF AnswerActivation, Following, Bindings
  <2> QED
    BY <1>2, <2>3, <2>4, <2>5
<1>3. ASSUME NEW r \in inflight, AnswerOrdinary(r) \/ AnswerRotation(r) \/ AnswerActivation(r)
      PROVE  op' = op /\ snap' = snap
  BY <1>3 DEF AnswerOrdinary, AnswerRotation, AnswerActivation
<1> QED
  BY <1>1, <1>2, <1>3, FollowersKept

LEMMA FinishedKept ==
  ASSUME SafeInv, [Next]_vars
  PROVE  FinishedInv'
<1> USE NoneAssumption DEF SafeInv, TypeOK, FinishedInv
<1>1. ASSUME NEW p \in Procs,
             StartPairing(p) \/ FinishPairing(p) \/ RemovePairing(p) \/ DropPairing(p)
               \/ Use(p) \/ UseRead(p)
      PROVE  FinishedInv'
  BY <1>1 DEF StartPairing, FinishPairing, RemovePairing, DropPairing, Use, UseRead, Send,
       Goto, Leave, store, external
<1>2. ASSUME NEW p \in Procs, HandOff(p) \/ Receive(p) \/ Report(p) \/ Stop(p)
      PROVE  FinishedInv'
  BY <1>2 DEF HandOff, Receive, Report, Stop, Goto, Leave, store
<1>3. ASSUME NEW p \in Procs, Lock(p) PROVE FinishedInv'
  BY <1>3 DEF Lock
<1>4. ASSUME NEW p \in Procs, Commit(p) \/ Rotate(p) PROVE FinishedInv'
  <2>1. /\ pc[p] = "locked" /\ lock = p /\ pc' = [pc EXCEPT ![p] = "sync"]
        /\ held[p] = file /\ UNCHANGED <<op, snap>>
    BY <1>4 DEF Commit, Rotate, LockInv
  <2>2. \A q \in Procs : q # p => pc[q] # "sync"
    BY <2>1 DEF LockInv
  <2>3. ASSUME op[p] = "finish" PROVE file'.st = "active" /\ file'.client = snap[p].client
    <3>1. Commit(p) /\ file.st = "pending" /\ file.client = snap[p].client
      BY <1>4, <2>1, <2>3 DEF Rotate, Commit, Permitted, OwnPending
    <3>2. file \in Stored /\ file' = [file EXCEPT !.st = "active"]
      BY <2>1, <2>3, <3>1, StoredPairing DEF Commit, Rewritten
    <3> QED
      BY <3>1, <3>2 DEF Stored
  <2> QED
    BY <2>1, <2>2, <2>3
<1>5. ASSUME NEW p \in Procs, Decline(p) \/ Sync(p) PROVE FinishedInv'
  BY <1>5 DEF Decline, Sync, Goto, Leave
<1>6. CASE PowerLoss
  BY <1>6 DEF PowerLoss
<1>7. CASE DeviceStep \/ UNCHANGED vars
  BY <1>7 DEF DeviceStep, Decide, OverlapEnds, AnswerOrdinary, AnswerRotation,
       AnswerActivation, store, local, vars
<1> QED
  BY <1>1, <1>2, <1>3, <1>4, <1>5, <1>6, <1>7 DEF Next, ProcessStep

\* What a write under the lock leaves in the file: a new pairing of the writer,
\* the same client's pairing, which a finished attempt activates, or nothing.
LEMMA Written ==
  ASSUME SafeInv, NEW p \in Procs, Commit(p) \/ Rotate(p)
  PROVE  \/ /\ op[p] = "write" /\ file' = snap[p] /\ file.st = "absent"
         \/ /\ file.st # "absent" /\ file'.client = file.client
            /\ \/ file'.st = file.st
               \/ op[p] = "finish" /\ file.st = "pending" /\ file'.st = "active"
         \/ file' = Absent
<1> USE DEF SafeInv, TypeOK
<1>1. held[p] = file /\ Permitted(p)
  BY DEF Commit, Rotate, LockInv
<1>2. CASE Rotate(p)
  BY <1>1, <1>2, StoredPairing DEF Rotate, Permitted, StillDue, Stored
<1>3. CASE Commit(p) /\ op[p] \in {"finish", "clear"}
  <2>1. file \in Stored /\ file' = Rewritten(p)
    BY <1>1, <1>3, StoredPairing DEF Commit, Permitted, OwnPending, OwnRotation
  <2> QED
    BY <1>1, <1>3, <2>1 DEF Rewritten, Permitted, OwnPending, Stored
<1>4. CASE Commit(p) /\ op[p] \notin {"finish", "clear"}
  BY <1>1, <1>4 DEF Commit, Rewritten, Permitted
<1> QED
  BY <1>2, <1>3, <1>4

LEMMA ActiveKept ==
  ASSUME SafeInv, [Next]_vars, TypeOK'
  PROVE  ActiveOnlyAfterDevice'
<1> USE DEF SafeInv, TypeOK
<1> DEFINE Made(f) == f.st = "active" => dev'[f.client].st \in {"active", "removed"}
<1>1. Made(file) /\ Made(disk)
  BY DeviceChanges, PairingMembers DEF ActiveOnlyAfterDevice
<1>2. ASSUME NEW p \in Procs, Commit(p) \/ Rotate(p) PROVE Made(file')
  <2>1. CASE op[p] = "write" /\ file' = snap[p]
    BY <2>1 DEF NewInv
  <2>2. CASE file' = Absent
    BY <2>2 DEF Absent
  <2>3. CASE file'.client = file.client /\ file'.st = file.st
    BY <1>1, <2>3
  <2>4. CASE op[p] = "finish" /\ file'.client = file.client
    <3>1. pc[p] = "locked" /\ file.client = snap[p].client
      BY <1>2, <2>4 DEF Commit, Rotate, Permitted, OwnPending, LockInv
    <3> QED
      BY <2>4, <3>1, DeviceChanges DEF FollowInv
  <2> QED
    BY <1>2, <2>1, <2>2, <2>3, <2>4, Written
<1>3. Made(file')
  BY <1>1, <1>2, FileChanges DEF PowerLoss
<1>4. Made(disk')
  BY <1>1, <1>3, DiskChanges
<1> QED
  BY <1>3, <1>4 DEF ActiveOnlyAfterDevice

\* A client is reported to the device only after its pairing was synced.
LEMMA ReportersKept ==
  ASSUME SafeInv, [Next]_vars, NEW c \in Clients, Reported(c)'
  PROVE  \/ Reported(c)
         \/ \E p \in Procs : Sync(p) /\ op[p] = "finish" /\ snap[p].client = c
<1> USE DEF SafeInv, TypeOK, Reported
<1>1. ASSUME NEW p \in Procs, Report(p) PROVE dev'[c].told => Reported(c)
  <2> DEFINE b == [dev[snap[p].client] EXCEPT !.told = TRUE]
  <2>1. dev' \in {dev, [dev EXCEPT ![snap[p].client] = b]} /\ pc[p] = "report"
    BY <1>1 DEF Report
  <2> QED
    BY <2>1
<1>2. ASSUME NEW p \in Procs, HandOff(p) PROVE dev'[c].told = dev[c].told
  <2> DEFINE b == [dev[snap[p].client] EXCEPT !.st = "offered", !.cur = snap[p].psk]
  <2>1. dev' \in {dev, [dev EXCEPT ![snap[p].client] = b]}
    BY <1>2 DEF HandOff
  <2>2. snap[p].client \in Clients => b.told = dev[snap[p].client].told
    OBVIOUS
  <2> QED
    BY <2>1, <2>2
<1>3. ASSUME NEW x \in Clients, Decide(x) \/ OverlapEnds(x) PROVE dev'[c].told = dev[c].told
  <2>1. CASE Decide(x)
    BY <2>1 DEF Decide, Bindings
  <2>2. CASE OverlapEnds(x)
    BY <2>2 DEF OverlapEnds, Bindings
  <2> QED
    BY <1>3, <2>1, <2>2
<1>4. ASSUME NEW r \in inflight, AnswerOrdinary(r) PROVE dev'[c].told = dev[c].told
  BY <1>4 DEF AnswerOrdinary, Removed, Requests, Bindings
<1>5. ASSUME NEW r \in inflight, AnswerRotation(r) PROVE dev'[c].told = dev[c].told
  BY <1>5 DEF AnswerRotation, Removed, Requests, Bindings
<1>6. ASSUME NEW r \in inflight, AnswerActivation(r) PROVE dev'[c].told = dev[c].told
  BY <1>6 DEF AnswerActivation, Requests, Bindings
<1>7. dev'[c].told => Reported(c)
  <2>1. \/ UNCHANGED dev
        \/ \E p \in Procs : HandOff(p) \/ Report(p)
        \/ \E x \in Clients : Decide(x) \/ OverlapEnds(x)
        \/ \E r \in inflight : AnswerOrdinary(r) \/ AnswerRotation(r) \/ AnswerActivation(r)
    BY DEF Next, ProcessStep, DeviceStep, StartPairing, FinishPairing, RemovePairing,
         DropPairing, Use, UseRead, Lock, Commit, Rotate, Decline, Sync, Receive, Stop,
         PowerLoss, Send, external, vars
  <2> QED
    BY <1>1, <1>2, <1>3, <1>4, <1>5, <1>6, <2>1
<1>8. ASSUME NEW p \in Procs, pc'[p] = "report", snap'[p].client = c
      PROVE  \/ Reported(c)
             \/ Sync(p) /\ op[p] = "finish" /\ snap[p].client = c
  <2>1. ASSUME NEW q \in Procs, ProcessStep(q), q # p
        PROVE  UNCHANGED <<pc[p], snap[p]>>
    BY <2>1 DEF ProcessStep, StartPairing, HandOff, FinishPairing, RemovePairing, DropPairing, Use,
         UseRead, Lock, Commit, Rotate, Decline, Sync, Receive, Report, Stop, Goto, Leave, Send
  <2>2. CASE ProcessStep(p)
    <3>1. Sync(p)
      BY <1>8, <2>2 DEF ProcessStep, StartPairing, HandOff, FinishPairing, RemovePairing, DropPairing,
           Use, UseRead, Lock, Commit, Rotate, Decline, Receive, Report, Stop, Goto, Leave, Send
    <3> QED
      BY <1>8, <3>1 DEF Sync, Goto, Leave
  <2>3. ~PowerLoss
    BY <1>8 DEF PowerLoss
  <2>4. CASE DeviceStep \/ UNCHANGED vars
    BY <1>8, <2>4 DEF DeviceStep, Decide, OverlapEnds, AnswerOrdinary, AnswerRotation,
         AnswerActivation, local, vars
  <2> QED
    BY <1>8, <2>1, <2>2, <2>3, <2>4 DEF Next
<1> QED
  BY <1>7, <1>8

LEMMA ReportedKept ==
  ASSUME SafeInv, [Next]_vars, TypeOK'
  PROVE  ReportedInv'
<1> USE NoneAssumption DEF SafeInv, TypeOK
<1> SUFFICES ASSUME NEW c \in Clients, Reported(c)'
             PROVE  /\ dev'[c].st \in {"active", "removed"}
                    /\ file'.client = c => file'.st = "active" /\ disk'.st = "active" /\ disk'.client = c
                    /\ disk'.client = c => disk'.st = "active"
  BY DEF ReportedInv
<1>1. ASSUME NEW p \in Procs, Sync(p), op[p] = "finish", snap[p].client = c
      PROVE  /\ dev[c].st \in {"active", "removed"} /\ file'.st = "active" /\ disk' = file'
  BY <1>1 DEF Sync, MakeDurable, FinishedInv, ActiveOnlyAfterDevice, external
<1>2. CASE Reported(c)
  <2>1. /\ dev[c].st \in {"active", "removed"}
        /\ file.client = c => file.st = "active" /\ disk.st = "active" /\ disk.client = c
        /\ disk.client = c => disk.st = "active"
    BY <1>2 DEF ReportedInv
  <2>2. ASSUME NEW p \in Procs, Commit(p) \/ Rotate(p), file'.client = c
        PROVE  file.client = c /\ file'.st = "active"
    <3>1. op[p] = "write" => snap[p].client # c
      BY <2>1 DEF NewInv
    <3>2. file' # Absent
      BY <2>2 DEF Absent
    <3> QED
      BY <2>1, <2>2, <3>1, <3>2, Written
  <2>3. disk' \in {disk, file'}
    BY DiskChanges
  <2>4. CASE UNCHANGED file \/ PowerLoss
    BY <2>1, <2>3, <2>4, DeviceChanges DEF PowerLoss
  <2>5. CASE \E p \in Procs : Commit(p) \/ Rotate(p)
    BY <2>1, <2>2, <2>3, <2>5, DeviceChanges
  <2> QED
    BY <2>4, <2>5, FileChanges
<1>3. ASSUME NEW p \in Procs, Sync(p), op[p] = "finish", snap[p].client = c
      PROVE  dev' = dev
  BY <1>3 DEF Sync, external
<1> QED
  BY <1>1, <1>2, <1>3, ReportersKept

-----------------------------------------------------------------------------
(* The theorems *)

LEMMA SafeInit == Init => SafeInv
<1> SUFFICES ASSUME Init PROVE SafeInv
  OBVIOUS
<1>1. TypeOK
  BY TypeInit
<1>2. LockInv /\ LocalInv /\ OwnedInv /\ KnownInv /\ NewInv /\ AwaitInv /\ FollowInv /\ FinishedInv
  BY NoneAssumption DEF Init, LockInv, LocalInv, OwnedInv, Owned, Absent, KnownInv, NewInv, AwaitInv,
     FollowInv, FinishedInv
<1>3. ActiveOnlyAfterDevice /\ ReportedInv
  BY DEF Init, Absent, ActiveOnlyAfterDevice, ReportedInv, Reported
<1> QED
  BY <1>1, <1>2, <1>3 DEF SafeInv

LEMMA SafeNext == SafeInv /\ [Next]_vars => SafeInv'
<1> SUFFICES ASSUME SafeInv, [Next]_vars PROVE SafeInv'
  OBVIOUS
<1>1. TypeOK'
  BY TypeStep DEF SafeInv
<1> QED
  BY <1>1, ControlKept, OwnedKept, KnownKept, NewKept, AwaitKept, FollowKept, FinishedKept,
     ActiveKept, ReportedKept DEF SafeInv

LEMMA AlwaysSafe == Spec => []SafeInv
BY SafeInit, SafeNext, PTL DEF Spec

\* A pairing is active locally only if the device activated it, after any
\* number of power losses (pairing.rs finish_pairing).
THEOREM ActivationFollowsDevice == Spec => []ActiveOnlyAfterDevice
<1>1. SafeInv => ActiveOnlyAfterDevice
  BY DEF SafeInv
<1> QED
  BY AlwaysSafe, <1>1, PTL

\* No power loss undoes an activation that the device was told of
\* (config.rs finish_pending_pairing).
THEOREM ReportsAreDurable == Spec => []ReportedIsDurable
<1>1. SafeInv => ReportedIsDurable
  BY PairingMembers DEF SafeInv, TypeOK, ReportedInv, Reported, ReportedIsDurable
<1> QED
  BY AlwaysSafe, <1>1, PTL

\* Only the holder of the lock changes the file and keeps the lock.
LEMMA WriterIsHolder ==
  ASSUME SafeInv, [Next]_vars, NEW p \in Procs, lock = p, lock' = p, file' # file
  PROVE  Commit(p) \/ Rotate(p)
<1>1. ~PowerLoss
  BY NoneAssumption DEF PowerLoss
<1>2. ASSUME NEW q \in Procs, Commit(q) \/ Rotate(q) PROVE q = p
  BY <1>2 DEF Commit, Rotate, SafeInv, LockInv
<1> QED
  BY <1>1, <1>2, FileChanges

\* A delayed operation never changes a pairing that replaced its own
\* (config.rs read_pending_pairing_file, remove_active_pairing).
THEOREM ReplacementsAreSpared == Spec => SparesReplacement
<1> DEFINE Spares ==
      \A p \in Procs : lock = p /\ lock' = p /\ file' # file =>
        /\ op[p] = "write" => file.st = "absent"
        /\ op[p] \in {"abandon", "finish", "remove", "clear"} => file.client = snap[p].client
<1>1. ASSUME SafeInv, [Next]_vars PROVE Spares
  <2> USE <1>1 DEF SafeInv, TypeOK
  <2> SUFFICES ASSUME NEW p \in Procs, Commit(p), op[p] \in {"write", "abandon", "finish", "remove", "clear"}
               PROVE  /\ op[p] = "write" => file.st = "absent"
                      /\ op[p] # "write" => file.client = snap[p].client
    BY WriterIsHolder DEF Rotate
  <2>1. held[p] = file /\ Permitted(p)
    BY DEF Commit, LockInv
  <2>2. CASE op[p] # "clear"
    BY <2>1, <2>2 DEF Permitted, OwnPending, OwnActive
  <2>3. CASE op[p] = "clear"
    <3>1. file.st # "absent" /\ file.rot = snap[p].rot /\ snap[p].rot # None
      BY <2>1, <2>3 DEF Permitted, OwnRotation, LocalInv
    <3>2. snap[p].st # "absent"
      BY <3>1, PairingMembers DEF Absent
    <3> QED
      BY <2>3, <3>1, <3>2 DEF OwnedInv, Owned
  <2> QED
    BY <2>2, <2>3
<1>2. SafeInv /\ [Next]_vars => [Spares]_vars
  BY <1>1
<1> QED
  BY SafeInit, SafeNext, <1>2, PTL DEF Spec, SparesReplacement

\* Local state is removed only after the device removed its side
\* (pairing.rs remove_pairing).
THEOREM RemovalFollowsDevice == Spec => RemovedAfterDevice
<1> DEFINE Follows ==
      \A p \in Procs : lock = p /\ lock' = p /\ op[p] = "remove" /\ file' # file =>
        dev[file.client].st = "removed"
<1>1. ASSUME SafeInv, [Next]_vars PROVE Follows
  <2> SUFFICES ASSUME NEW p \in Procs, Commit(p), op[p] = "remove"
               PROVE  dev[file.client].st = "removed"
    BY <1>1, WriterIsHolder DEF Rotate
  <2>1. pc[p] = "locked" /\ file.client = snap[p].client
    BY <1>1 DEF Commit, Permitted, OwnActive, SafeInv, LockInv
  <2> QED
    BY <1>1, <2>1 DEF SafeInv, FollowInv
<1>2. SafeInv /\ [Next]_vars => [Follows]_vars
  BY <1>1
<1> QED
  BY SafeInit, SafeNext, <1>2, PTL DEF Spec, RemovedAfterDevice
=============================================================================
