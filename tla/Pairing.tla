------------------------------ MODULE Pairing ------------------------------
(***************************************************************************)
(* The pairing file of one Agentknock home (config.rs), the client         *)
(* processes that read and rewrite it (pairing.rs, exchange.rs,            *)
(* secrets.rs), and the device that holds the other half of each pairing.  *)
(*                                                                         *)
(* Processes read the file without a lock and rewrite it under an          *)
(* exclusive lock on its directory.  Every rewrite is a rename that is     *)
(* visible at once and durable only after the directory has been synced,   *)
(* so `file` is what a process sees and `disk` what a power loss leaves.   *)
(*                                                                         *)
(* A pre-shared key (PSK) is a member of Psks; origin[k] records the       *)
(* client it belongs to and the PSK it was derived from.  A rotation key   *)
(* is named by the successor PSK it derives: the device computes psk k     *)
(* from rotation key k only if its own PSK is the parent of k.             *)
(*                                                                         *)
(* The device is external code.  Its actions follow what the client code   *)
(* relies on: docs/cryptosystem.md sections 7.4 and 9.2.                   *)
(***************************************************************************)
EXTENDS Naturals, FiniteSets

CONSTANTS
  Procs,     \* client processes that share the Agentknock home
  Clients,   \* client IDs: each pairing attempt takes a fresh one
  Psks,      \* pre-shared keys: each attempt and each rotation takes a fresh one
  Times,     \* readings of the system clock (not monotonic across processes)
  Interval,  \* PSK_ROTATION_INTERVAL_SECONDS, in the unit of Times
  CanLosePower, \* whether the machine can lose power
  MaxLate,   \* bound on the requests that outlive the process that sent them
  None       \* no client, no key, no lock holder

ASSUME NoneAssumption == None \notin Procs \cup Clients \cup Psks
ASSUME TimeAssumption == Times \subseteq Nat /\ 0 \in Times /\ Interval \in Nat
ASSUME BoundAssumption == CanLosePower \in BOOLEAN /\ MaxLate \in Nat

VARIABLES
  file,      \* the pairing file as every process sees it
  disk,      \* the pairing file that survives a power loss
  lock,      \* the process that holds the directory lock, or None
  pc,        \* where each process is
  op,        \* the operation each process executes
  snap,      \* the pairing a process read (or will store) for its operation
  held,      \* the file contents a process read under the lock
  now,       \* the clock reading a process took for a rotation
  reply,     \* the authenticated response waiting for each process
  inflight,  \* requests the relay has accepted and the device has not
  dev,       \* the device's record of each client
  origin     \* which client and which PSK each used PSK was derived from

store == <<file, disk, lock>>
local == <<pc, op, snap, held, now, reply>>
external == <<inflight, dev, origin>>
vars == <<file, disk, lock, pc, op, snap, held, now, reply, inflight, dev, origin>>

-----------------------------------------------------------------------------
(* Values *)

Operations == {"none", "write", "abandon", "finish", "abort", "force",
               "use", "rotate", "clear", "remove"}
Locations == {"idle", "read", "wait", "lock", "locked", "sync", "handoff", "report"}

\* A home without a pairing file.
Absent == [st |-> "absent", client |-> None, psk |-> None, rot |-> None,
           rotatedAt |-> 0]

\* A pairing file; rot = None stands for a file without rotation_key.
Stored == [st : {"pending", "active"}, client : Clients, psk : Psks,
           rot : Psks \cup {None}, rotatedAt : Times]

\* What read_pairing_file can return.
Pairings == {Absent} \cup Stored

\* from = None: the process that sent the request no longer waits for it.
Requests == [from : Procs \cup {None}, method : {"finish", "use", "remove"},
             client : Clients, psk : Psks, rot : Psks \cup {None}]

Replies == {"none", "ok", "error", "rejected"}

Bindings == [st : {"none", "offered", "accepted", "rejected", "active", "removed"},
             cur : Psks \cup {None}, prev : Psks \cup {None}, told : BOOLEAN]

TypeOK ==
  /\ file \in Pairings
  /\ disk \in Pairings
  /\ lock \in Procs \cup {None}
  /\ pc \in [Procs -> Locations]
  /\ op \in [Procs -> Operations]
  /\ snap \in [Procs -> Pairings]
  /\ held \in [Procs -> Pairings]
  /\ now \in [Procs -> Times]
  /\ reply \in [Procs -> Replies]
  /\ inflight \subseteq Requests
  /\ dev \in [Clients -> Bindings]
  /\ origin \in [Psks -> [client : Clients \cup {None}, parent : Psks \cup {None}]]

Init ==
  /\ file = Absent
  /\ disk = Absent
  /\ lock = None
  /\ pc = [p \in Procs |-> "idle"]
  /\ op = [p \in Procs |-> "none"]
  /\ snap = [p \in Procs |-> Absent]
  /\ held = [p \in Procs |-> Absent]
  /\ now = [p \in Procs |-> 0]
  /\ reply = [p \in Procs |-> "none"]
  /\ inflight = {}
  /\ dev = [c \in Clients |-> [st |-> "none", cur |-> None, prev |-> None, told |-> FALSE]]
  /\ origin = [k \in Psks |-> [client |-> None, parent |-> None]]

-----------------------------------------------------------------------------
(* Helpers *)

FreshClient(c) == \A k \in Psks : origin[k].client # c
FreshPsk(k) == origin[k].client = None

\* now.saturating_sub(PSK_ROTATION_INTERVAL_SECONDS)
Cutoff(t) == IF t >= Interval THEN t - Interval ELSE 0

\* The pairing may be rotated at time t: nothing unconfirmed, and old enough.
RotationDue(f, t) == f.rot = None /\ f.rotatedAt < Cutoff(t)

\* seal_pairing: the pending pairing of client c, with the first of its PSKs.
Attempt(c, k, t) == [st |-> "pending", client |-> c, psk |-> k, rot |-> None, rotatedAt |-> t]
Origin(c) == [client |-> c, parent |-> None]

\* derive_psk_rotation: the origin of a fresh successor of the PSK of f.
Successor(f) == [client |-> f.client, parent |-> f.psk]

\* What a power loss leaves of a file that has just been renamed or removed.
Settled(contents) == IF CanLosePower THEN disk ELSE contents

\* The requests of processes P are forgotten by P and, up to a bound, not by the relay.
Abandon(P) ==
  LET late == {[r EXCEPT !.from = IF r.from \in P THEN None ELSE r.from] : r \in inflight}
  IN IF Cardinality({r \in late : r.from = None}) <= MaxLate
     THEN late
     ELSE {r \in inflight : r.from \notin P}

\* Process p leaves its operation, whatever it was doing.
Leave(p) ==
  /\ pc' = [pc EXCEPT ![p] = "idle"]
  /\ op' = [op EXCEPT ![p] = "none"]
  /\ snap' = [snap EXCEPT ![p] = Absent]
  /\ held' = [held EXCEPT ![p] = Absent]
  /\ now' = [now EXCEPT ![p] = 0]
  /\ reply' = [reply EXCEPT ![p] = "none"]

\* Process p goes on to location l of operation o.
Goto(p, l, o) ==
  /\ pc' = [pc EXCEPT ![p] = l]
  /\ op' = [op EXCEPT ![p] = o]

\* Process p has read pairing f and hands a request sealed with it to the relay.
Send(p, method, f) ==
  /\ Goto(p, "wait", method)
  /\ snap' = [snap EXCEPT ![p] = f]
  /\ inflight' = inflight \cup
       {[from |-> p, method |-> method, client |-> f.client, psk |-> f.psk, rot |-> f.rot]}
  /\ UNCHANGED <<held, now, reply, dev, origin>>

-----------------------------------------------------------------------------
(* Operations up to their request or their critical section *)

\* Client::start_pairing up to write_pending_pairing: the unlocked absence
\* check, fresh identifiers and the initial exchange.  A failed or cancelled
\* exchange stored nothing (Stop).
StartPairing(p) ==
  /\ pc[p] = "idle"
  /\ file.st = "absent"
  /\ \E c \in Clients, k \in Psks, t \in Times :
       /\ FreshClient(c) /\ FreshPsk(k)
       /\ origin' = [origin EXCEPT ![k] = Origin(c)]
       /\ snap' = [snap EXCEPT ![p] = Attempt(c, k, t)]
  /\ Goto(p, "lock", "write")
  /\ UNCHANGED <<store, held, now, reply, inflight, dev>>

\* relay.complete in start_pairing: the relay may have taken the completion
\* even if the client sees a failure, and any failure removes the pending file.
HandOff(p) ==
  /\ pc[p] = "handoff"
  /\ LET c == snap[p].client
         offered == [dev EXCEPT ![c] = [@ EXCEPT !.st = "offered", !.cur = snap[p].psk]]
     IN \/ /\ dev' = offered
           /\ Leave(p)
        \/ /\ dev' \in {dev, offered}
           /\ Goto(p, "lock", "abandon")
           /\ UNCHANGED <<snap, held, now, reply>>
  /\ UNCHANGED <<store, inflight, origin>>

\* Client::finish_pairing up to its request: read_pending_pairing takes no lock.
FinishPairing(p) ==
  /\ pc[p] = "idle"
  /\ file.st = "pending"
  /\ Send(p, "finish", file)
  /\ UNCHANGED store

\* Client::remove_pairing up to its request: it never rotates.
RemovePairing(p) ==
  /\ pc[p] = "idle"
  /\ file.st = "active"
  /\ Send(p, "remove", file)
  /\ UNCHANGED store

\* Client::abort_pairing and Client::force_remove_pairing.
DropPairing(p) ==
  /\ pc[p] = "idle"
  /\ file.st # "absent"
  /\ \E o \in {"abort", "force"} : Goto(p, "lock", o)
  /\ UNCHANGED <<store, snap, held, now, reply, external>>

\* approval_exchange, list_secrets and upload_secret begin with
\* maybe_rotate_psk: its first read takes no lock.
Use(p) ==
  /\ pc[p] = "idle"
  /\ file.st = "active"
  /\ \E t \in Times :
       IF RotationDue(file, t)
       THEN Goto(p, "lock", "rotate") /\ now' = [now EXCEPT ![p] = t]
       ELSE Goto(p, "read", "use") /\ UNCHANGED now
  /\ UNCHANGED <<store, snap, held, reply, external>>

\* ... and then read the pairing again, without the lock, and seal the request.
UseRead(p) ==
  /\ pc[p] = "read"
  /\ IF file.st = "active"
     THEN Send(p, "use", file)
     ELSE Leave(p) /\ UNCHANGED external
  /\ UNCHANGED store

-----------------------------------------------------------------------------
(* The critical section of config.rs *)

\* DirectoryLock::new and the read under it.
Lock(p) ==
  /\ pc[p] = "lock"
  /\ lock = None
  /\ lock' = p
  /\ held' = [held EXCEPT ![p] = file]
  /\ pc' = [pc EXCEPT ![p] = "locked"]
  /\ UNCHANGED <<file, disk, op, snap, now, reply, external>>

\* read_pending_pairing_file with an expected client ID.
MutAnyPending(h, s) == h.st = "pending"
OwnPending(h, s) == h.st = "pending" /\ h.client = s.client

\* The comparison of IDs in remove_active_pairing.
OwnActive(h, s) == h.st = "active" /\ h.client = s.client

\* The comparison of keys in clear_rotation_key, which looks at no other member.
MutAnyRotation(h, s) == h.st # "absent"
OwnRotation(h, s) == h.st # "absent" /\ h.rot = s.rot

\* lock_pairing_if_rotated_before repeats the check of the unlocked read.
MutDueUnchecked(h, t) == h.st = "active"
StillDue(h, t) == h.st = "active" /\ RotationDue(h, t)

\* What the operation of p requires of the file it read under the lock.
Permitted(p) ==
  LET h == held[p] s == snap[p] IN
  \/ op[p] = "write" /\ h.st = "absent"
  \/ op[p] \in {"abandon", "finish"} /\ OwnPending(h, s)
  \/ op[p] = "abort" /\ h.st = "pending"
  \/ op[p] = "force" /\ h.st # "absent"
  \/ op[p] = "remove" /\ OwnActive(h, s)
  \/ op[p] = "rotate" /\ StillDue(h, now[p])
  \/ op[p] = "clear" /\ OwnRotation(h, s)

MutWireResult(p) ==
  IF op[p] = "finish" THEN [held[p] EXCEPT !.st = "accepted"] ELSE snap[p]
\* write_pending_pairing, finish_pending_pairing and clear_rotation_key write
\* the file; the remaining operations delete it.
Rewritten(p) ==
  CASE op[p] = "write"  -> snap[p]
    [] op[p] = "finish" -> [held[p] EXCEPT !.st = "active"]
    [] op[p] = "clear"  -> [held[p] EXCEPT !.rot = None]
    [] OTHER -> Absent

\* AtomicWriteFile::commit or remove_file: visible, not yet durable.
Commit(p) ==
  /\ pc[p] = "locked"
  /\ op[p] # "rotate"
  /\ Permitted(p)
  /\ file' = Rewritten(p)
  /\ disk' = Settled(file')
  /\ pc' = [pc EXCEPT ![p] = "sync"]
  /\ UNCHANGED <<lock, op, snap, held, now, reply, external>>

\* rotate_locked: a fresh successor of the PSK read under the lock, written
\* with its rotation key and the new rotation time in one file.
Rotate(p) ==
  /\ pc[p] = "locked"
  /\ op[p] = "rotate"
  /\ Permitted(p)
  /\ \E k \in Psks :
       /\ FreshPsk(k)
       /\ origin' = [origin EXCEPT ![k] = Successor(held[p])]
       /\ file' = [held[p] EXCEPT !.psk = k, !.rot = k, !.rotatedAt = now[p]]
  /\ disk' = Settled(file')
  /\ pc' = [pc EXCEPT ![p] = "sync"]
  /\ UNCHANGED <<lock, op, snap, held, now, reply, inflight, dev>>

\* An early return under the lock.  Only a rotation that another process has
\* already made lets the operation go on.
Decline(p) ==
  /\ pc[p] = "locked"
  /\ ~Permitted(p)
  /\ lock' = None
  /\ IF op[p] = "rotate" /\ held[p].st = "active"
     THEN /\ Goto(p, "read", "use")
          /\ held' = [held EXCEPT ![p] = Absent]
          /\ now' = [now EXCEPT ![p] = 0]
          /\ UNCHANGED <<snap, reply>>
     ELSE Leave(p)
  /\ UNCHANGED <<file, disk, external>>

\* DirectoryLock::sync.
MutNoSync == disk' = disk
MakeDurable == disk' = file

\* The end of a write: the sync, the release of the lock, and what follows them.
Sync(p) ==
  /\ pc[p] = "sync"
  /\ MakeDurable
  /\ lock' = None
  /\ \/ /\ op[p] \notin {"write", "finish", "rotate"}
        /\ Leave(p)
     \/ /\ \/ op[p] = "write"  /\ Goto(p, "handoff", "write")
           \/ op[p] = "finish" /\ Goto(p, "report", "finish")
           \/ op[p] = "rotate" /\ Goto(p, "read", "use")
        /\ held' = [held EXCEPT ![p] = Absent]
        /\ now' = [now EXCEPT ![p] = 0]
        /\ UNCHANGED <<snap, reply>>
  /\ UNCHANGED <<file, external>>

-----------------------------------------------------------------------------
(* Responses and failures *)

\* What an authenticated response makes process p do under the lock: confirm
\* the rotation its request carried, or apply an accepted activation or removal.
MutAnyReply(p) == IF op[p] = "use" THEN {} ELSE {op[p]}
FollowUp(p) ==
  CASE op[p] = "use" /\ snap[p].rot # None -> {"clear"}
    [] op[p] # "use" /\ reply[p] = "ok" -> {op[p]}
    [] OTHER -> {}

\* The process opens the response of the device.
Receive(p) ==
  /\ pc[p] = "wait"
  /\ reply[p] # "none"
  /\ \/ /\ \E o \in FollowUp(p) : Goto(p, "lock", o)
        /\ UNCHANGED <<snap, held, now, reply>>
     \/ /\ FollowUp(p) = {}
        /\ Leave(p)
  /\ UNCHANGED <<store, external>>

\* The completion of finish_pairing tells the device that the local pairing is
\* active; its delivery is not guaranteed.
Report(p) ==
  /\ pc[p] = "report"
  /\ dev' \in {dev, [dev EXCEPT ![snap[p].client].told = TRUE]}
  /\ Leave(p)
  /\ UNCHANGED <<store, inflight, origin>>

\* The process stops: it is killed anywhere, is cancelled or gives up while it
\* exchanges messages, or an I/O error ends its operation.  The kernel releases
\* the lock, and a request that the relay accepted can still reach the device.
Stop(p) ==
  /\ pc[p] # "idle"
  /\ lock' = IF lock = p THEN None ELSE lock
  /\ inflight' = Abandon({p})
  /\ Leave(p)
  /\ UNCHANGED <<file, disk, dev, origin>>

\* The machine loses power: every process dies and the file reverts.
PowerLoss ==
  /\ CanLosePower
  /\ file' = disk
  /\ lock' = None
  /\ pc' = [p \in Procs |-> "idle"]
  /\ op' = [p \in Procs |-> "none"]
  /\ snap' = [p \in Procs |-> Absent]
  /\ held' = [p \in Procs |-> Absent]
  /\ now' = [p \in Procs |-> 0]
  /\ reply' = [p \in Procs |-> "none"]
  /\ inflight' = Abandon(Procs)
  /\ UNCHANGED <<disk, dev, origin>>

-----------------------------------------------------------------------------
(* The device (external) *)

\* The user accepts or rejects an attempt after comparing the SAS.
Decide(c) ==
  /\ dev[c].st = "offered"
  /\ \E d \in {"accepted", "rejected"} : dev' = [dev EXCEPT ![c].st = d]
  /\ UNCHANGED <<store, local, inflight, origin>>

\* Section 9.2: the current PSK, then the previous one within its overlap.
OpensOrdinary(r) ==
  /\ dev[r.client].st = "active"
  /\ r.psk \in {dev[r.client].cur, dev[r.client].prev}

\* Section 9.2, steps 3 to 5: the candidate derived from the current PSK.
OpensCandidate(r) ==
  /\ dev[r.client].st = "active"
  /\ ~OpensOrdinary(r)
  /\ r.rot # None
  /\ r.rot = r.psk
  /\ origin[r.rot] = [client |-> r.client, parent |-> dev[r.client].cur]

\* The terminal response to request r, if its sender still waits.
Respond(r, result) ==
  /\ reply' = IF r.from = None THEN reply ELSE [reply EXCEPT ![r.from] = result]
  /\ inflight' = inflight \ {r}

Removed(d, r, result) ==
  IF r.method = "remove" /\ result = "ok" THEN [d EXCEPT !.st = "removed"] ELSE d

\* Any method can get an authenticated error; a use ends alike with every
\* authenticated response, so "ok" stands for all of them.
Results(r) == IF r.method = "use" THEN {"ok"} ELSE {"ok", "error"}

\* An ordinary request.
AnswerOrdinary(r) ==
  /\ OpensOrdinary(r)
  /\ \E result \in Results(r) :
       /\ Respond(r, result)
       /\ dev' = [dev EXCEPT ![r.client] = Removed(@, r, result)]
  /\ UNCHANGED <<store, pc, op, snap, held, now, origin>>

\* A request that opens under the candidate makes it the current PSK.
AnswerRotation(r) ==
  /\ OpensCandidate(r)
  /\ \E result \in Results(r) :
       /\ Respond(r, result)
       /\ dev' = [dev EXCEPT ![r.client] =
            Removed([@ EXCEPT !.cur = r.psk, !.prev = dev[r.client].cur], r, result)]
  /\ UNCHANGED <<store, pc, op, snap, held, now, origin>>

\* Section 7.4: the activation request of a decided attempt.
AnswerActivation(r) ==
  /\ r.method = "finish"
  /\ r.psk = dev[r.client].cur
  /\ \/ /\ dev[r.client].st = "accepted"
        /\ Respond(r, "ok")
        /\ dev' = [dev EXCEPT ![r.client].st = "active"]
     \/ /\ dev[r.client].st = "rejected"
        /\ Respond(r, "rejected")
        /\ UNCHANGED dev
  /\ UNCHANGED <<store, pc, op, snap, held, now, origin>>

\* The overlap of the previous PSK ends.
OverlapEnds(c) ==
  /\ dev[c].prev # None
  /\ dev' = [dev EXCEPT ![c].prev = None]
  /\ UNCHANGED <<store, local, inflight, origin>>

-----------------------------------------------------------------------------

ProcessStep(p) ==
  \/ StartPairing(p) \/ HandOff(p) \/ FinishPairing(p) \/ RemovePairing(p)
  \/ DropPairing(p) \/ Use(p) \/ UseRead(p)
  \/ Lock(p) \/ Commit(p) \/ Rotate(p) \/ Decline(p) \/ Sync(p)
  \/ Receive(p) \/ Report(p) \/ Stop(p)

DeviceStep ==
  \/ \E c \in Clients : Decide(c) \/ OverlapEnds(c)
  \/ \E r \in inflight : AnswerOrdinary(r) \/ AnswerRotation(r) \/ AnswerActivation(r)

Next == (\E p \in Procs : ProcessStep(p)) \/ PowerLoss \/ DeviceStep

Spec == Init /\ [][Next]_vars

-----------------------------------------------------------------------------
(* Properties *)

\* The stored pairing can still reach the device: the device's current PSK is
\* the stored one, or the stored rotation key derives the stored PSK from it.
\* No interleaving of rotations, confirmations, delayed requests and killed
\* processes may strand an active pairing (pairing.rs maybe_rotate_psk_at,
\* config.rs clear_rotation_key).
Recoverable ==
  file.st = "active" /\ dev[file.client].st = "active" =>
    \/ file.psk = dev[file.client].cur
    \/ file.rot = file.psk /\ origin[file.psk].parent = dev[file.client].cur

\* A pairing is active locally only if the device activated the same client
\* ID, with whatever crash, power loss or replacement came in between
\* (pairing.rs finish_pairing, config.rs finish_pending_pairing).
ActiveOnlyAfterDevice ==
  /\ file.st = "active" => dev[file.client].st \in {"active", "removed"}
  /\ disk.st = "active" => dev[disk.client].st \in {"active", "removed"}

\* Once the device has been told that the local pairing is active, a power loss
\* cannot undo the activation (config.rs finish_pending_pairing syncs the
\* directory before pairing.rs finish_pairing completes).
ReportedIsDurable ==
  file.st = "active" /\ dev[file.client].told =>
    disk.st = "active" /\ disk.client = file.client

\* A delayed operation changes only the pairing it belongs to, and a new
\* pairing never replaces another one: the comment in config.rs
\* read_pending_pairing_file, remove_active_pairing and write_pending_pairing.
SparesReplacement ==
  [][\A p \in Procs : lock = p /\ lock' = p /\ file' # file =>
       /\ op[p] = "write" => file.st = "absent"
       /\ op[p] \in {"abandon", "finish", "remove", "clear"} =>
            file.client = snap[p].client]_vars

\* Two processes never rotate the same generation twice: a rotation replaces a
\* confirmed PSK that is older than the interval, also if the first, unlocked,
\* check is out of date (config.rs lock_pairing_if_rotated_before).
RotationSpacing ==
  [][file.st = "active" /\ file'.st = "active" /\ file'.client = file.client
       /\ file'.psk # file.psk =>
     file.rot = None /\ file'.rotatedAt > file.rotatedAt + Interval]_vars

\* An operation that authenticated a response to a request with a rotation key
\* does not return before that key is gone from the file
\* (docs/client-device-protocol.md:145, docs/cryptosystem.md section 9.3).
ConfirmedRotationIsCleared ==
  [][\A p \in Procs :
       Receive(p) /\ pc'[p] = "idle" /\ snap[p].rot # None => file.rot # snap[p].rot]_vars

\* remove_pairing deletes local state only after the device removed its side
\* (docs/client-device-protocol.md, PairingRemove).
RemovedAfterDevice ==
  [][\A p \in Procs : lock = p /\ lock' = p /\ op[p] = "remove" /\ file' # file =>
       dev[file.client].st = "removed"]_vars

-----------------------------------------------------------------------------
(* The promise to the device that the file keeps                           *)

\* The device's state of identity c, as far as the client is concerned.
PeerOf(c) ==
  CASE dev[c].st = "active"  -> [st |-> "active", key |-> dev[c].cur]
    [] dev[c].st = "removed" -> [st |-> "gone", key |-> None]
    [] OTHER                 -> [st |-> "never", key |-> None]

Promise == INSTANCE PairingPromise WITH
  Keys   <- Psks,
  status <- file.st,
  client <- file.client,
  key    <- file.psk,
  prior  <- IF file.st = "absent" THEN None ELSE origin[file.psk].parent,
  open   <- file.rot # None,
  peer   <- [c \in Clients |-> PeerOf(c)]

\* All processes of a home together behave towards the device like one client
\* that adopts, activates, rotates and forgets pairings one step at a time,
\* although they read without the lock, answer late and die anywhere
\* (docs/cryptosystem.md:834, one serialized state transition).
KeepsPromise == Promise!Spec

-----------------------------------------------------------------------------
(* Why Recoverable holds while the machine keeps its power                 *)
(*                                                                         *)
(* The PSKs of a client form a chain: each has at most one successor, and  *)
(* the stored PSK, written under the lock, is the last one.  The device is *)
(* at the stored PSK or one behind it, and a process that opened a         *)
(* response to a request with the stored rotation key knows which.         *)

\* The lock and the file contents read under it.
LockInv ==
  \A p \in Procs :
    /\ pc[p] \in {"locked", "sync"} <=> lock = p
    /\ pc[p] = "locked" => held[p] = file

\* What a process knows about the replies it waits for.
LocalInv ==
  \A p \in Procs :
    /\ pc[p] = "wait" => op[p] \in {"finish", "use", "remove"}
    /\ pc[p] = "handoff" => op[p] = "write"
    /\ op[p] = "none" <=> pc[p] = "idle"
    /\ op[p] = "write" => pc[p] \in {"lock", "locked", "sync", "handoff"}
    /\ op[p] = "none" \/ op[p] = "rotate" \/ pc[p] = "read" => reply[p] = "none"
    /\ op[p] = "clear" => snap[p].rot # None

\* Each PSK has at most one successor, of the same client.
ChainInv ==
  /\ \A k \in Psks : origin[k].parent # None =>
       origin[k].client # None /\ origin[origin[k].parent].client = origin[k].client
  /\ \A k, l \in Psks : origin[k].parent = origin[l].parent /\ origin[k].parent # None => k = l

\* The stored PSK is the last of its chain, and a pending one the only one.
FileInv ==
  file.st # "absent" =>
    /\ origin[file.psk].client = file.client
    /\ \A k \in Psks : origin[k].parent # file.psk
    /\ file.rot \in {None, file.psk}
    /\ file.st = "pending" =>
         file.rot = None /\ \A k \in Psks : origin[k].client = file.client => k = file.psk
    /\ file.st = "active" => dev[file.client].st \in {"active", "removed"}

\* A pairing that is still to be written is new to everyone.
WriterInv ==
  \A p \in Procs : op[p] = "write" =>
    /\ snap[p].st = "pending" /\ snap[p].rot = None
    /\ origin[snap[p].psk].client = snap[p].client
    /\ dev[snap[p].client].st = "none"
    /\ \A q \in Procs : q # p /\ op[q] = "write" => snap[q].client # snap[p].client
    /\ pc[p] \in {"lock", "locked"} =>
         /\ file.client # snap[p].client
         /\ origin[snap[p].psk].parent = None
         /\ \A k \in Psks : origin[k].client = snap[p].client => k = snap[p].psk

\* An activation is finished only after the device has made it.
FinishInv ==
  \A p \in Procs : op[p] = "finish" /\ (pc[p] \in {"lock", "locked"} \/ reply[p] = "ok") =>
    snap[p].client \in Clients /\ dev[snap[p].client].st \in {"active", "removed"}

\* A request carries the PSK of its client, and its sender remembers it.
RequestInv ==
  \A r \in inflight :
    /\ origin[r.psk].client = r.client
    /\ r.rot \in {None, r.psk}
    /\ r.from # None =>
         /\ pc[r.from] = "wait" /\ op[r.from] = r.method /\ reply[r.from] = "none"
         /\ snap[r.from].client = r.client
         /\ snap[r.from].psk = r.psk /\ snap[r.from].rot = r.rot

\* The device's current and previous PSK are neighbours in the client's chain.
DeviceInv ==
  \A c \in Clients :
    /\ dev[c].st = "none" => dev[c].prev = None
    /\ dev[c].st # "none" =>
         /\ dev[c].cur \in Psks /\ origin[dev[c].cur].client = c
         /\ dev[c].prev \in {None, origin[dev[c].cur].parent}

\* Process p may clear the rotation key its request carried.
Confirming(p) == snap[p].rot # None /\ (op[p] = "clear" \/ (op[p] = "use" /\ reply[p] # "none"))

\* If that key is still stored, the device has moved to the stored PSK.
ConfirmInv ==
  \A p \in Procs : Confirming(p) =>
    /\ origin[snap[p].rot].client # None
    /\ file.st = "active" /\ dev[file.client].st = "active" /\ file.rot = snap[p].rot =>
         dev[file.client].cur = file.psk

\* The inductive invariant behind Recoverable (config.rs write_rotation and
\* clear_rotation_key, which compare and write under one lock): it says which
\* lineage of keys every interleaving of the processes preserves.
Inductive ==
  TypeOK /\ LockInv /\ LocalInv /\ ChainInv /\ FileInv /\ WriterInv /\ FinishInv
    /\ RequestInv /\ DeviceInv /\ ConfirmInv /\ Recoverable
=============================================================================
