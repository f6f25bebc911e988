-------------------------- MODULE PairingRecovery ---------------------------
(***************************************************************************)
(* Proofs about the pairing file while the machine keeps its power, for any *)
(* number of processes, clients, keys and clock readings: the stored pairing *)
(* stays in reach of the device (Recoverable of module Pairing), and all   *)
(* processes together implement module PairingPromise.  Inductive is the   *)
(* invariant: one lemma per action shows that the action preserves it, and *)
(* has one step per conjunct.                                              *)
(***************************************************************************)
EXTENDS PairingProof

-----------------------------------------------------------------------------
(* The steps of the processes and of the device *)

\* A step that keeps file, chains and new clients, and starts no new writer,
\* keeps what is said about writers.
LEMMA WriterFrame ==
  ASSUME Inductive, TypeOK', UNCHANGED <<file, origin>>,
         \A x \in Clients : dev[x].st = "none" => dev'[x].st = "none",
         \A q \in Procs : op'[q] = "write" =>
           /\ op[q] = "write" /\ UNCHANGED snap[q]
           /\ pc'[q] \in {"lock", "locked"} => pc[q] \in {"lock", "locked"}
  PROVE  WriterInv'
<1> USE PairingMembers DEF Inductive, TypeOK
<1>1. \A q \in Procs : op[q] = "write" => snap[q].client \in Clients
  BY DEF WriterInv
<1>2. \A q \in Procs : op'[q] = "write" => dev'[snap[q].client].st = "none"
  BY <1>1 DEF WriterInv
<1>3. \A q, w \in Procs : op'[q] = "write" /\ op'[w] = "write" /\ q # w =>
        snap'[q].client # snap'[w].client
  BY DEF WriterInv
<1> SUFFICES ASSUME NEW q \in Procs, op'[q] = "write"
             PROVE  /\ snap[q].st = "pending" /\ snap[q].rot = None
                    /\ origin[snap[q].psk].client = snap[q].client
                    /\ pc'[q] \in {"lock", "locked"} =>
                         /\ file.client # snap[q].client
                         /\ origin[snap[q].psk].parent = None
                         /\ \A k \in Psks : origin[k].client = snap[q].client => k = snap[q].psk
  BY <1>2, <1>3 DEF WriterInv
<1> QED
  BY DEF WriterInv

\* A step that undoes no activation and starts no finishing process keeps what
\* is said about finishing processes.
LEMMA FinishFrame ==
  ASSUME Inductive,
         \A x \in Clients : dev[x].st \in {"active", "removed"} => dev'[x].st \in {"active", "removed"},
         \A q \in Procs : op'[q] = "finish" /\ (pc'[q] \in {"lock", "locked"} \/ reply'[q] = "ok") =>
           op[q] = "finish" /\ (pc[q] \in {"lock", "locked"} \/ reply[q] = "ok") /\ UNCHANGED snap[q]
  PROVE  FinishInv'
BY DEF Inductive, FinishInv

\* A step that keeps file and chains, does not move the device of an active
\* pairing and starts no confirmation keeps what is said about confirmations.
LEMMA ConfirmFrame ==
  ASSUME Inductive, UNCHANGED <<file, origin>>,
         file.st = "active" => dev'[file.client].st = dev[file.client].st
                                 /\ dev'[file.client].cur = dev[file.client].cur,
         \A q \in Procs : Confirming(q)' => Confirming(q) /\ UNCHANGED snap[q]
  PROVE  ConfirmInv'
BY DEF Inductive, ConfirmInv

\* A new pairing takes identifiers that no key chain, file or device knows.
LEMMA StartPairingStep ==
  ASSUME Inductive, NEW p \in Procs, StartPairing(p), TypeOK'
  PROVE  Inductive'
<1> USE NoneAssumption, PairingMembers DEF Inductive, TypeOK
<1>1. LockInv'
  BY DEF LockInv, StartPairing, Goto, store
<1>2. LocalInv'
  BY DEF LocalInv, StartPairing, Goto
<1>3. ChainInv'
  BY DEF ChainInv, StartPairing, Origin, FreshPsk
<1>4. FileInv'
  BY DEF FileInv, StartPairing, store
<1>5. WriterInv'
  BY DEF WriterInv, StartPairing, Attempt, Origin, Goto, store, FreshClient, FreshPsk, DeviceInv, FileInv,
       Pairings, Absent, Requests
<1>6. FinishInv'
  BY DEF FinishInv, StartPairing, Goto
<1>7. RequestInv'
  BY DEF RequestInv, StartPairing, Goto, FreshPsk, Requests
<1>8. DeviceInv'
  BY DEF DeviceInv, StartPairing, FreshPsk
<1>9. ConfirmInv'
  BY DEF ConfirmInv, Confirming, StartPairing, Attempt, Origin, Goto, store
<1>10. Recoverable'
  BY DEF Recoverable, StartPairing, store
<1> QED
  BY <1>1, <1>2, <1>3, <1>4, <1>5, <1>6, <1>7, <1>8, <1>9, <1>10

LEMMA FinishPairingStep ==
  ASSUME Inductive, NEW p \in Procs, FinishPairing(p), TypeOK'
  PROVE  Inductive'
<1> USE NoneAssumption, PairingMembers DEF Inductive, TypeOK
<1>1. LockInv'
  BY DEF LockInv, FinishPairing, Send, Goto, store
<1>2. LocalInv'
  BY DEF LocalInv, FinishPairing, Send, Goto
<1>3. ChainInv'
  BY DEF ChainInv, FinishPairing, Send
<1>4. FileInv'
  BY DEF FileInv, FinishPairing, Send, store
<1>5. WriterInv'
  BY DEF WriterInv, FinishPairing, Send, Goto, store
<1>6. FinishInv'
  BY DEF FinishInv, FinishPairing, Send, Goto, LocalInv
<1>7. RequestInv'
  BY DEF RequestInv, FinishPairing, Send, Goto, LocalInv, FileInv
<1>8. DeviceInv'
  BY DEF DeviceInv, FinishPairing, Send
<1>9. ConfirmInv'
  BY DEF ConfirmInv, Confirming, FinishPairing, Send, Goto, store
<1>10. Recoverable'
  BY DEF Recoverable, FinishPairing, store
<1> QED
  BY <1>1, <1>2, <1>3, <1>4, <1>5, <1>6, <1>7, <1>8, <1>9, <1>10

LEMMA RemovePairingStep ==
  ASSUME Inductive, NEW p \in Procs, RemovePairing(p), TypeOK'
  PROVE  Inductive'
<1> USE NoneAssumption, PairingMembers DEF Inductive, TypeOK
<1>1. LockInv'
  BY DEF LockInv, RemovePairing, Send, Goto, store
<1>2. LocalInv'
  BY DEF LocalInv, RemovePairing, Send, Goto
<1>3. ChainInv'
  BY DEF ChainInv, RemovePairing, Send
<1>4. FileInv'
  BY DEF FileInv, RemovePairing, Send, store
<1>5. WriterInv'
  BY DEF WriterInv, RemovePairing, Send, Goto, store
<1>6. FinishInv'
  BY DEF FinishInv, RemovePairing, Send, Goto
<1>7. RequestInv'
  BY DEF RequestInv, RemovePairing, Send, Goto, LocalInv, FileInv
<1>8. DeviceInv'
  BY DEF DeviceInv, RemovePairing, Send
<1>9. ConfirmInv'
  BY DEF ConfirmInv, Confirming, RemovePairing, Send, Goto, store
<1>10. Recoverable'
  BY DEF Recoverable, RemovePairing, Send, store
<1> QED
  BY <1>1, <1>2, <1>3, <1>4, <1>5, <1>6, <1>7, <1>8, <1>9, <1>10

LEMMA DropPairingStep ==
  ASSUME Inductive, NEW p \in Procs, DropPairing(p), TypeOK'
  PROVE  Inductive'
<1> USE NoneAssumption, PairingMembers DEF Inductive, TypeOK
<1>1. LockInv'
  BY DEF LockInv, DropPairing, Goto, store
<1>2. LocalInv'
  BY DEF LocalInv, DropPairing, Goto
<1>3. ChainInv'
  BY DEF ChainInv, DropPairing, external
<1>4. FileInv'
  BY DEF FileInv, DropPairing, store, external
<1>5. WriterInv'
  BY DEF WriterInv, DropPairing, Goto, store, external
<1>6. FinishInv'
  BY DEF FinishInv, DropPairing, Goto, external
<1>7. RequestInv'
  BY DEF RequestInv, DropPairing, Goto, external
<1>8. DeviceInv'
  BY DEF DeviceInv, DropPairing, external
<1>9. ConfirmInv'
  BY DEF ConfirmInv, Confirming, DropPairing, Goto, store, external
<1>10. Recoverable'
  BY DEF Recoverable, DropPairing, store, external
<1> QED
  BY <1>1, <1>2, <1>3, <1>4, <1>5, <1>6, <1>7, <1>8, <1>9, <1>10

LEMMA UseStep ==
  ASSUME Inductive, NEW p \in Procs, Use(p), TypeOK'
  PROVE  Inductive'
<1> USE NoneAssumption, PairingMembers DEF Inductive, TypeOK
<1>1. LockInv'
  BY DEF LockInv, Use, Goto, store
<1>2. LocalInv'
  BY DEF LocalInv, Use, Goto
<1>3. ChainInv'
  BY DEF ChainInv, Use, external
<1>4. FileInv'
  BY DEF FileInv, Use, store, external
<1>5. WriterInv'
  BY DEF WriterInv, Use, Goto, store, external
<1>6. FinishInv'
  BY DEF FinishInv, Use, Goto, external
<1>7. RequestInv'
  BY DEF RequestInv, Use, Goto, external, Requests
<1>8. DeviceInv'
  BY DEF DeviceInv, Use, external
<1>9. ConfirmInv'
  BY DEF ConfirmInv, Confirming, Use, Goto, store, external, LocalInv
<1>10. Recoverable'
  BY DEF Recoverable, Use, store, external
<1> QED
  BY <1>1, <1>2, <1>3, <1>4, <1>5, <1>6, <1>7, <1>8, <1>9, <1>10

LEMMA UseReadStep ==
  ASSUME Inductive, NEW p \in Procs, UseRead(p), TypeOK'
  PROVE  Inductive'
<1> USE NoneAssumption, PairingMembers DEF Inductive, TypeOK
<1>1. LockInv'
  BY DEF LockInv, UseRead, Send, Leave, Goto, store
<1>2. LocalInv'
  BY DEF LocalInv, UseRead, Send, Leave, Goto
<1>3. ChainInv'
  BY DEF ChainInv, UseRead, Send, external
<1>4. FileInv'
  BY DEF FileInv, UseRead, Send, store, external
<1>5. WriterInv'
  <2>1. \A q \in Procs : op'[q] = "write" =>
          /\ op[q] = "write" /\ UNCHANGED snap[q]
          /\ pc'[q] \in {"lock", "locked"} => pc[q] \in {"lock", "locked"}
    BY DEF UseRead, Send, Leave, Goto
  <2> QED
    BY <2>1, WriterFrame DEF UseRead, Send, store, external
<1>6. FinishInv'
  BY DEF FinishInv, UseRead, Send, Leave, Goto, store, external
<1>7. RequestInv'
  BY DEF RequestInv, UseRead, Send, Leave, Goto, external, LocalInv, FileInv, Requests
<1>8. DeviceInv'
  BY DEF DeviceInv, UseRead, Send, external
<1>9. ConfirmInv'
  BY DEF ConfirmInv, Confirming, UseRead, Send, Leave, Goto, store, external, LocalInv,
       Absent
<1>10. Recoverable'
  BY DEF Recoverable, UseRead, Send, store
<1> QED
  BY <1>1, <1>2, <1>3, <1>4, <1>5, <1>6, <1>7, <1>8, <1>9, <1>10

LEMMA LockStep ==
  ASSUME Inductive, NEW p \in Procs, Lock(p), TypeOK'
  PROVE  Inductive'
<1> USE NoneAssumption, PairingMembers DEF Inductive, TypeOK
<1>1. LockInv'
  BY DEF LockInv, Lock
<1>2. LocalInv'
  BY DEF LocalInv, Lock
<1>3. ChainInv'
  BY DEF ChainInv, Lock, external
<1>4. FileInv'
  BY DEF FileInv, Lock, external
<1>5. WriterInv'
  BY DEF WriterInv, Lock, external
<1>6. FinishInv'
  BY DEF FinishInv, Lock, external
<1>7. RequestInv'
  BY DEF RequestInv, Lock, external
<1>8. DeviceInv'
  BY DEF DeviceInv, Lock, external
<1>9. ConfirmInv'
  BY DEF ConfirmInv, Confirming, Lock, external
<1>10. Recoverable'
  BY DEF Recoverable, Lock, external
<1> QED
  BY <1>1, <1>2, <1>3, <1>4, <1>5, <1>6, <1>7, <1>8, <1>9, <1>10

\* The file is rewritten or deleted as held under the lock: finishing keeps the
\* only key of a client, and clearing a rotation key meets a device that has it.
LEMMA CommitStep ==
  ASSUME Inductive, CanLosePower = FALSE, NEW p \in Procs, Commit(p), TypeOK'
  PROVE  Inductive'
<1> USE NoneAssumption, PairingMembers DEF Inductive, TypeOK
<1>1. LockInv'
  BY DEF LockInv, Commit
<1>2. LocalInv'
  BY DEF LocalInv, Commit
<1>3. ChainInv'
  BY DEF ChainInv, Commit, external
<1>4. FileInv'
  <2>1. held[p] = file /\ UNCHANGED <<dev, origin>>
    BY DEF Commit, LockInv, external
  <2>2. CASE op[p] = "write"
    <3>1. file' = snap[p] /\ snap[p].rot = None /\ snap[p].st = "pending"
      BY <2>2 DEF Commit, Rewritten, WriterInv
    <3>2. \A k \in Psks : origin[k].parent # snap[p].psk
      BY <2>2, <3>1 DEF Commit, WriterInv, ChainInv
    <3> QED
      BY <2>1, <2>2, <3>1, <3>2 DEF Commit, FileInv, WriterInv
  <2>3. CASE op[p] = "finish"
    <3>1. file.st = "pending" /\ file.client = snap[p].client /\ file \in Stored
      BY <2>1, <2>3, StoredPairing DEF Commit, Permitted, OwnPending
    <3>2. /\ file'.st = "active" /\ file'.client = file.client
          /\ file'.psk = file.psk /\ file'.rot = file.rot
      BY <2>1, <2>3, <3>1 DEF Commit, Rewritten, Stored
    <3>3. dev[file.client].st \in {"active", "removed"}
      BY <2>3, <3>1 DEF Commit, FinishInv
    <3> QED
      BY <2>1, <3>1, <3>2, <3>3 DEF FileInv
  <2>4. CASE op[p] = "clear"
    <3>1. file.st # "absent" /\ file \in Stored
      BY <2>1, <2>4, StoredPairing DEF Commit, Permitted, OwnRotation
    <3>2. /\ file'.st = file.st /\ file'.client = file.client
          /\ file'.psk = file.psk /\ file'.rot = None
      BY <2>1, <2>4, <3>1 DEF Commit, Rewritten, Stored
    <3> QED
      BY <2>1, <3>1, <3>2 DEF FileInv
  <2>5. CASE op[p] \notin {"write", "finish", "clear"}
    BY <2>5 DEF Commit, Rewritten, FileInv, Absent
  <2> QED
    BY <2>2, <2>3, <2>4, <2>5
<1>5. WriterInv'
  BY DEF WriterInv, Commit, Rewritten, external, LockInv, Absent
<1>6. FinishInv'
  BY DEF FinishInv, Commit, external
<1>7. RequestInv'
  BY DEF RequestInv, Commit, external
<1>8. DeviceInv'
  BY DEF DeviceInv, Commit, external
<1>9. ConfirmInv'
  <2>1. file'.rot = None
    BY DEF Commit, Permitted, OwnPending, Rewritten, LockInv, FileInv, WriterInv, Absent
  <2>2. \A q \in Procs : Confirming(q)' => Confirming(q) /\ snap[q].rot # None
    BY DEF Commit, Confirming
  <2> QED
    BY <2>1, <2>2 DEF ConfirmInv, Commit, external
<1>10. Recoverable'
  BY SMTT(60) DEF Recoverable, Commit, Permitted, OwnActive, OwnRotation, Rewritten,
       Settled, external, LockInv, FileInv, ConfirmInv, Confirming, WriterInv, DeviceInv,
       Absent
<1> QED
  BY <1>1, <1>2, <1>3, <1>4, <1>5, <1>6, <1>7, <1>8, <1>9, <1>10

\* A rotation extends the chain by a fresh key, when the device is at the old one.
LEMMA RotateStep ==
  ASSUME Inductive, CanLosePower = FALSE, NEW p \in Procs, Rotate(p), TypeOK'
  PROVE  Inductive'
<1> USE NoneAssumption, PairingMembers DEF Inductive, TypeOK
<1>1. LockInv'
  BY DEF LockInv, Rotate
<1>2. LocalInv'
  BY DEF LocalInv, Rotate
<1>3. ChainInv'
  BY DEF ChainInv, Rotate, Successor, Permitted, StillDue, FreshPsk, LockInv, FileInv
<1>4. FileInv'
  BY DEF FileInv, Rotate, Successor, Permitted, StillDue, FreshPsk, LockInv, ChainInv
<1>5. WriterInv'
  BY DEF WriterInv, Rotate, Successor, FreshPsk, LockInv
<1>6. FinishInv'
  BY DEF FinishInv, Rotate
<1>7. RequestInv'
  BY DEF RequestInv, Rotate, FreshPsk, Requests
<1>8. DeviceInv'
  BY DEF DeviceInv, Rotate, FreshPsk
<1>9. ConfirmInv'
  BY DEF ConfirmInv, Confirming, Rotate, FreshPsk
<1>10. Recoverable'
  BY DEF Recoverable, Rotate, Successor, Permitted, StillDue, RotationDue, LockInv
<1> QED
  BY <1>1, <1>2, <1>3, <1>4, <1>5, <1>6, <1>7, <1>8, <1>9, <1>10

LEMMA DeclineStep ==
  ASSUME Inductive, NEW p \in Procs, Decline(p), TypeOK'
  PROVE  Inductive'
<1> USE NoneAssumption, PairingMembers DEF Inductive, TypeOK
<1>1. LockInv'
  BY DEF LockInv, Decline, Leave, Goto
<1>2. LocalInv'
  BY DEF LocalInv, Decline, Leave, Goto
<1>3. ChainInv'
  BY DEF ChainInv, Decline, external
<1>4. FileInv'
  BY DEF FileInv, Decline, external
<1>5. WriterInv'
  <2>1. \A q \in Procs : op'[q] = "write" =>
          /\ op[q] = "write" /\ UNCHANGED snap[q]
          /\ pc'[q] \in {"lock", "locked"} => pc[q] \in {"lock", "locked"}
    BY DEF Decline, Leave, Goto
  <2> QED
    BY <2>1, WriterFrame DEF Decline, external
<1>6. FinishInv'
  BY DEF FinishInv, Decline, Leave, Goto, external
<1>7. RequestInv'
  BY DEF RequestInv, Decline, Leave, Goto, external, Requests
<1>8. DeviceInv'
  BY DEF DeviceInv, Decline, external
<1>9. ConfirmInv'
  BY DEF ConfirmInv, Confirming, Decline, Leave, Goto, external, LocalInv
<1>10. Recoverable'
  BY DEF Recoverable, Decline, external
<1> QED
  BY <1>1, <1>2, <1>3, <1>4, <1>5, <1>6, <1>7, <1>8, <1>9, <1>10

LEMMA SyncStep ==
  ASSUME Inductive, NEW p \in Procs, Sync(p), TypeOK'
  PROVE  Inductive'
<1> USE NoneAssumption, PairingMembers DEF Inductive, TypeOK
<1>1. LockInv'
  <2>1. /\ lock = p /\ pc[p] = "sync" /\ lock' = None /\ UNCHANGED file
        /\ pc'[p] \in {"idle", "handoff", "report", "read"}
    BY DEF Sync, Leave, Goto, LockInv
  <2>2. \A q \in Procs : q # p => UNCHANGED <<pc[q], held[q]>>
    BY DEF Sync, Leave, Goto
  <2> QED
    BY <2>1, <2>2 DEF LockInv
<1>2. LocalInv'
  BY DEF LocalInv, Sync, Leave, Goto
<1>3. ChainInv'
  BY DEF ChainInv, Sync, external
<1>4. FileInv'
  BY DEF FileInv, Sync, external
<1>5. WriterInv'
  <2>1. \A q \in Procs : op'[q] = "write" =>
          /\ op[q] = "write" /\ UNCHANGED snap[q]
          /\ pc'[q] \in {"lock", "locked"} => pc[q] \in {"lock", "locked"}
    BY DEF Sync, Leave, Goto
  <2> QED
    BY <2>1, WriterFrame DEF Sync, external
<1>6. FinishInv'
  BY DEF FinishInv, Sync, Leave, Goto, external
<1>7. RequestInv'
  BY DEF RequestInv, Sync, Leave, Goto, external, Requests
<1>8. DeviceInv'
  BY DEF DeviceInv, Sync, external
<1>9. ConfirmInv'
  <2>1. \A q \in Procs : Confirming(q)' => Confirming(q) /\ UNCHANGED snap[q]
    BY DEF Confirming, LocalInv, Sync, Leave, Goto
  <2> QED
    BY <2>1, ConfirmFrame DEF Sync, external
<1>10. Recoverable'
  BY DEF Recoverable, Sync, external
<1> QED
  BY <1>1, <1>2, <1>3, <1>4, <1>5, <1>6, <1>7, <1>8, <1>9, <1>10

LEMMA StopStep ==
  ASSUME Inductive, NEW p \in Procs, Stop(p), TypeOK'
  PROVE  Inductive'
<1> USE NoneAssumption, PairingMembers DEF Inductive, TypeOK
<1>1. LockInv'
  BY DEF LockInv, Stop, Leave
<1>2. LocalInv'
  BY DEF LocalInv, Stop, Leave
<1>3. ChainInv'
  BY DEF ChainInv, Stop
<1>4. FileInv'
  BY DEF FileInv, Stop
<1>5. WriterInv'
  BY DEF WriterInv, Stop, Leave
<1>6. FinishInv'
  BY DEF FinishInv, Stop, Leave
<1>7. RequestInv'
  BY DEF RequestInv, Stop, Leave, Abandon, Requests
<1>8. DeviceInv'
  BY DEF DeviceInv, Stop
<1>9. ConfirmInv'
  BY DEF ConfirmInv, Confirming, Stop, Leave
<1>10. Recoverable'
  BY DEF Recoverable, Stop
<1> QED
  BY <1>1, <1>2, <1>3, <1>4, <1>5, <1>6, <1>7, <1>8, <1>9, <1>10

LEMMA DecideStep ==
  ASSUME Inductive, NEW c \in Clients, Decide(c), TypeOK'
  PROVE  Inductive'
<1> USE NoneAssumption, PairingMembers DEF Inductive, TypeOK
<1>1. LockInv'
  BY DEF LockInv, Decide, store, local
<1>2. LocalInv'
  BY DEF LocalInv, Decide, local
<1>3. ChainInv'
  BY DEF ChainInv, Decide
<1>4. FileInv'
  BY DEF FileInv, Decide, store
<1>5. WriterInv'
  BY DEF WriterInv, Decide, store, local
<1>6. FinishInv'
  BY DEF FinishInv, Decide, local
<1>7. RequestInv'
  BY DEF RequestInv, Decide, local
<1>8. DeviceInv'
  BY DEF DeviceInv, Decide
<1>9. ConfirmInv'
  BY DEF ConfirmInv, Confirming, Decide, store, local
<1>10. Recoverable'
  BY DEF Recoverable, Decide, store
<1> QED
  BY <1>1, <1>2, <1>3, <1>4, <1>5, <1>6, <1>7, <1>8, <1>9, <1>10

LEMMA OverlapEndsStep ==
  ASSUME Inductive, NEW c \in Clients, OverlapEnds(c), TypeOK'
  PROVE  Inductive'
<1> USE NoneAssumption, PairingMembers DEF Inductive, TypeOK
<1>1. LockInv'
  BY DEF LockInv, OverlapEnds, store, local
<1>2. LocalInv'
  BY DEF LocalInv, OverlapEnds, local
<1>3. ChainInv'
  BY DEF ChainInv, OverlapEnds
<1>4. FileInv'
  BY DEF FileInv, OverlapEnds, store
<1>5. WriterInv'
  BY DEF WriterInv, OverlapEnds, store, local
<1>6. FinishInv'
  BY DEF FinishInv, OverlapEnds, local
<1>7. RequestInv'
  BY DEF RequestInv, OverlapEnds, local
<1>8. DeviceInv'
  BY DEF DeviceInv, OverlapEnds
<1>9. ConfirmInv'
  BY DEF ConfirmInv, Confirming, OverlapEnds, store, local
<1>10. Recoverable'
  BY DEF Recoverable, OverlapEnds, store
<1> QED
  BY <1>1, <1>2, <1>3, <1>4, <1>5, <1>6, <1>7, <1>8, <1>9, <1>10

\* The device learns of a pairing that it did not know.
LEMMA HandOffStep ==
  ASSUME Inductive, NEW p \in Procs, HandOff(p), TypeOK'
  PROVE  Inductive'
<1> USE NoneAssumption, PairingMembers DEF Inductive, TypeOK
<1> DEFINE c == snap[p].client
<1>1. op[p] = "write" /\ c \in Clients /\ snap[p].psk \in Psks /\ dev[c].st = "none"
  BY DEF HandOff, LocalInv, WriterInv
<1>2. /\ \A x \in Clients : x # c => dev'[x] = dev[x]
      /\ dev'[c].prev = dev[c].prev
      /\ dev'[c] = dev[c] \/ (dev'[c].st = "offered" /\ dev'[c].cur = snap[p].psk)
  <2> DEFINE b == [dev[c] EXCEPT !.st = "offered", !.cur = snap[p].psk]
  <2>1. dev' \in {dev, [dev EXCEPT ![c] = b]}
    BY DEF HandOff
  <2>2. dev[c] \in Bindings
    BY <1>1
  <2>3. b.prev = dev[c].prev /\ b.st = "offered" /\ b.cur = snap[p].psk
    BY <2>2
  <2> HIDE DEF b
  <2>4. dev' = [dev EXCEPT ![c] = b] => dev'[c] = b /\ \A x \in Clients : x # c => dev'[x] = dev[x]
    BY <1>1
  <2> QED
    BY <2>1, <2>3, <2>4
<1>3. /\ pc[p] = "handoff"
      /\ Leave(p) \/ (Goto(p, "lock", "abandon") /\ UNCHANGED <<snap, held, now, reply>>)
      /\ UNCHANGED <<store, inflight, origin>>
  BY DEF HandOff
<1> USE <1>1, <1>2, <1>3 DEF Leave, Goto, store
<1>4. LockInv' /\ LocalInv' /\ ChainInv'
  BY DEF LockInv, LocalInv, ChainInv
<1>5. FileInv'
  BY DEF FileInv
<1>6. WriterInv'
  BY SMTT(30) DEF WriterInv
<1>7. FinishInv'
  <2>1. \A x \in Clients : dev[x].st \in {"active", "removed"} => dev'[x].st \in {"active", "removed"}
    OBVIOUS
  <2>2. \A q \in Procs : op'[q] = "finish" => q # p /\ UNCHANGED <<op[q], pc[q], reply[q], snap[q]>>
    OBVIOUS
  <2> QED
    BY <2>1, <2>2, FinishFrame
<1>8. RequestInv'
  BY SMTT(30) DEF RequestInv, Requests
<1>9. DeviceInv'
  BY SMTT(30) DEF DeviceInv, WriterInv
<1>10. ConfirmInv'
  <2>1. file.st = "active" => file.client # c /\ UNCHANGED dev[file.client]
    BY DEF FileInv
  <2>2. \A q \in Procs : Confirming(q)' => Confirming(q) /\ UNCHANGED snap[q]
    BY DEF Confirming
  <2> QED
    BY <2>1, <2>2 DEF ConfirmInv
<1>11. Recoverable'
  BY DEF Recoverable
<1> QED
  BY <1>4, <1>5, <1>6, <1>7, <1>8, <1>9, <1>10, <1>11

LEMMA ReportStep ==
  ASSUME Inductive, NEW p \in Procs, Report(p), TypeOK'
  PROVE  Inductive'
<1> USE NoneAssumption, PairingMembers DEF Inductive, TypeOK
<1>1. \A x \in Clients : /\ dev'[x].st = dev[x].st /\ dev'[x].cur = dev[x].cur
                         /\ dev'[x].prev = dev[x].prev
  <2> DEFINE c == snap[p].client
             b == [dev[c] EXCEPT !.told = TRUE]
  <2>1. dev' \in {dev, [dev EXCEPT ![c] = b]}
    BY DEF Report
  <2>2. c \in Clients => b.st = dev[c].st /\ b.cur = dev[c].cur /\ b.prev = dev[c].prev
    OBVIOUS
  <2> QED
    BY <2>1, <2>2
<1>2. Leave(p) /\ UNCHANGED <<store, inflight, origin>> /\ pc[p] = "report"
  BY DEF Report
<1> USE <1>1, <1>2 DEF Leave, store
<1>4. LockInv' /\ LocalInv' /\ ChainInv'
  BY DEF LockInv, LocalInv, ChainInv
<1>5. FileInv'
  BY DEF FileInv
<1>6. WriterInv'
  BY DEF WriterInv
<1>7. FinishInv'
  BY DEF FinishInv
<1>8. RequestInv'
  BY DEF RequestInv
<1>9. DeviceInv'
  BY DEF DeviceInv
<1>10. ConfirmInv'
  BY SMTT(30) DEF ConfirmInv, Confirming
<1>11. Recoverable'
  BY DEF Recoverable
<1> QED
  BY <1>4, <1>5, <1>6, <1>7, <1>8, <1>9, <1>10, <1>11

\* Each process waits for one request.
LEMMA OneRequest ==
  ASSUME Inductive, NEW r \in inflight, NEW q \in inflight, r.from = q.from, r.from # None
  PROVE  r = q
BY DEF Inductive, RequestInv, TypeOK, Requests

\* The device answers under its current or previous key.
LEMMA AnswerOrdinaryStep ==
  ASSUME Inductive, NEW r \in inflight, AnswerOrdinary(r), TypeOK'
  PROVE  Inductive'
<1> USE NoneAssumption, PairingMembers DEF Inductive, TypeOK
<1> DEFINE c == r.client
<1>1. r \in Requests /\ c \in Clients /\ r.psk \in Psks /\ dev[c] \in Bindings
  BY DEF Requests
<1>2. PICK result \in Results(r) :
        Respond(r, result) /\ dev' = [dev EXCEPT ![c] = Removed(dev[c], r, result)]
  BY DEF AnswerOrdinary
<1>3. /\ \A x \in Clients : x # c => dev'[x] = dev[x]
      /\ dev'[c].cur = dev[c].cur /\ dev'[c].prev = dev[c].prev
      /\ dev[c].st = "active" /\ dev'[c].st \in {"active", "removed"}
      /\ r.psk \in {dev[c].cur, dev[c].prev}
  <2>1. [dev[c] EXCEPT !.st = "removed"].cur = dev[c].cur
        /\ [dev[c] EXCEPT !.st = "removed"].prev = dev[c].prev
        /\ [dev[c] EXCEPT !.st = "removed"].st = "removed"
    BY <1>1
  <2> QED
    BY <1>1, <1>2, <2>1 DEF AnswerOrdinary, OpensOrdinary, Removed
<1>4. /\ inflight' = inflight \ {r}
      /\ \A q \in Procs : reply'[q] # reply[q] => q = r.from /\ reply'[q] = result /\ result # "none"
      /\ UNCHANGED <<store, pc, op, snap, held, now, origin>>
  BY <1>2 DEF AnswerOrdinary, Respond, Results
<1> USE <1>1, <1>3, <1>4 DEF store
<1>5. LockInv' /\ LocalInv' /\ ChainInv'
  BY DEF LockInv, LocalInv, ChainInv, RequestInv
<1>6. FileInv'
  BY DEF FileInv
<1>7. WriterInv'
  <2>1. \A x \in Clients : dev[x].st = "none" => dev'[x].st = "none"
    OBVIOUS
  <2> QED
    BY <2>1, WriterFrame
<1>8. FinishInv'
  BY SMTT(30) DEF FinishInv, RequestInv, Requests
<1>9. RequestInv'
  BY OneRequest DEF RequestInv, Requests
<1>10. DeviceInv'
  BY DEF DeviceInv
<1>11. ConfirmInv'
  <2> SUFFICES ASSUME NEW q \in Procs, Confirming(q)'
               PROVE  /\ origin[snap[q].rot].client # None
                      /\ file.st = "active" /\ dev'[file.client].st = "active" /\ file.rot = snap[q].rot =>
                           dev'[file.client].cur = file.psk
    BY DEF ConfirmInv
  <2>1. CASE Confirming(q)
    <3>1. file.st = "active" => dev'[file.client].cur = dev[file.client].cur
            /\ (dev'[file.client].st = "active" => dev[file.client].st = "active")
      OBVIOUS
    <3> QED
      BY <2>1, <3>1 DEF ConfirmInv
  <2>2. CASE ~Confirming(q)
    <3>1. q = r.from /\ snap[q].rot = r.psk /\ origin[r.psk].client = c
      BY <2>2 DEF Confirming, RequestInv
    <3>2. file.st = "active" /\ file.rot = r.psk => r.psk = dev[c].cur
      BY DEF FileInv, DeviceInv
    <3> QED
      BY <3>1, <3>2 DEF FileInv
  <2> QED
    BY <2>1, <2>2
<1>12. Recoverable'
  BY DEF Recoverable
<1> QED
  BY <1>5, <1>6, <1>7, <1>8, <1>9, <1>10, <1>11, <1>12

\* The device moves to the successor of its key, which is the stored one.
LEMMA AnswerRotationStep ==
  ASSUME Inductive, NEW r \in inflight, AnswerRotation(r), TypeOK'
  PROVE  Inductive'
<1> USE NoneAssumption, PairingMembers DEF Inductive, TypeOK
<1> DEFINE c == r.client
           b == [dev[c] EXCEPT !.cur = r.psk, !.prev = dev[c].cur]
<1>1. r \in Requests /\ c \in Clients /\ r.psk \in Psks /\ dev[c] \in Bindings
  BY DEF Requests
<1>2. PICK result \in Results(r) :
        Respond(r, result) /\ dev' = [dev EXCEPT ![c] = Removed(b, r, result)]
  BY DEF AnswerRotation
<1>3. /\ \A x \in Clients : x # c => dev'[x] = dev[x]
      /\ dev'[c].cur = r.psk /\ dev'[c].prev = dev[c].cur
      /\ dev[c].st = "active" /\ dev'[c].st \in {"active", "removed"}
      /\ origin[r.psk].client = c /\ origin[r.psk].parent = dev[c].cur
  <2>1. b.cur = r.psk /\ b.prev = dev[c].cur /\ b.st = dev[c].st
    BY <1>1
  <2>2. [b EXCEPT !.st = "removed"].cur = r.psk
        /\ [b EXCEPT !.st = "removed"].prev = dev[c].cur
        /\ [b EXCEPT !.st = "removed"].st = "removed"
    BY <1>1
  <2> QED
    BY <1>1, <1>2, <2>1, <2>2 DEF AnswerRotation, OpensCandidate, Removed
<1>4. /\ inflight' = inflight \ {r}
      /\ \A q \in Procs : reply'[q] # reply[q] => q = r.from /\ reply'[q] = result /\ result # "none"
      /\ UNCHANGED <<store, pc, op, snap, held, now, origin>>
  BY <1>2 DEF AnswerRotation, Respond, Results
<1> HIDE DEF b
<1> USE <1>1, <1>3, <1>4 DEF store
<1>5. LockInv' /\ LocalInv' /\ ChainInv'
  BY DEF LockInv, LocalInv, ChainInv, RequestInv
<1>6. FileInv'
  BY DEF FileInv
<1>7. WriterInv'
  <2>1. \A x \in Clients : dev[x].st = "none" => dev'[x].st = "none"
    OBVIOUS
  <2> QED
    BY <2>1, WriterFrame
<1>8. FinishInv'
  BY SMTT(30) DEF FinishInv, RequestInv
<1>9. RequestInv'
  BY OneRequest DEF RequestInv, Requests
<1>10. DeviceInv'
  BY DEF DeviceInv
<1>11. ConfirmInv'
  <2> SUFFICES ASSUME NEW q \in Procs, Confirming(q)'
               PROVE  /\ origin[snap[q].rot].client # None
                      /\ file.st = "active" /\ dev'[file.client].st = "active" /\ file.rot = snap[q].rot =>
                           dev'[file.client].cur = file.psk
    BY DEF ConfirmInv
  <2>1. CASE Confirming(q)
    <3>1. file.st = "active" /\ file.client = c /\ file.rot = snap[q].rot => FALSE
      BY <2>1 DEF ConfirmInv, FileInv
    <3> QED
      BY <2>1, <3>1 DEF ConfirmInv
  <2>2. CASE ~Confirming(q)
    <3>1. q = r.from /\ snap[q].rot = r.psk
      BY <2>2 DEF Confirming, RequestInv
    <3> QED
      BY <3>1 DEF FileInv
  <2> QED
    BY <2>1, <2>2
<1>12. Recoverable'
  BY DEF Recoverable, FileInv, ChainInv, DeviceInv
<1> QED
  BY <1>5, <1>6, <1>7, <1>8, <1>9, <1>10, <1>11, <1>12

\* The device activates a client that no stored pairing has active yet.
LEMMA AnswerActivationStep ==
  ASSUME Inductive, NEW r \in inflight, AnswerActivation(r), TypeOK'
  PROVE  Inductive'
<1> USE NoneAssumption, PairingMembers DEF Inductive, TypeOK
<1> DEFINE c == r.client
<1>1. r \in Requests /\ c \in Clients /\ dev[c] \in Bindings
  BY DEF Requests
<1>2. /\ \A x \in Clients : x # c => dev'[x] = dev[x]
      /\ dev'[c].cur = dev[c].cur /\ dev'[c].prev = dev[c].prev
      /\ \/ dev[c].st = "accepted" /\ dev'[c].st = "active" /\ Respond(r, "ok")
         \/ dev[c].st = "rejected" /\ dev'[c].st = "rejected" /\ Respond(r, "rejected")
  <2>1. [dev[c] EXCEPT !.st = "active"].cur = dev[c].cur
        /\ [dev[c] EXCEPT !.st = "active"].prev = dev[c].prev
        /\ [dev[c] EXCEPT !.st = "active"].st = "active"
    BY <1>1
  <2>2. UNCHANGED dev \/ dev' = [dev EXCEPT ![c] = [dev[c] EXCEPT !.st = "active"]]
    BY DEF AnswerActivation
  <2>3. dev' = [dev EXCEPT ![c] = [dev[c] EXCEPT !.st = "active"]] =>
          dev'[c] = [dev[c] EXCEPT !.st = "active"] /\ \A x \in Clients : x # c => dev'[x] = dev[x]
    BY <1>1
  <2> QED
    BY <1>1, <2>1, <2>2, <2>3 DEF AnswerActivation
<1>3. /\ inflight' = inflight \ {r}
      /\ \A q \in Procs : reply'[q] # reply[q] =>
           q = r.from /\ reply'[q] \in {"ok", "rejected"} /\ (reply'[q] = "ok" => dev'[c].st = "active")
      /\ UNCHANGED <<store, pc, op, snap, held, now, origin>> /\ r.method = "finish"
  BY <1>2 DEF AnswerActivation, Respond
<1>4. file.st = "active" => UNCHANGED dev[file.client]
  BY <1>2, <1>3 DEF FileInv, store
<1> USE <1>1, <1>2, <1>3, <1>4 DEF store
<1>5. LockInv' /\ LocalInv' /\ ChainInv'
  BY DEF LockInv, LocalInv, ChainInv, RequestInv
<1>6. FileInv'
  BY DEF FileInv
<1>7. WriterInv'
  <2>1. \A x \in Clients : dev[x].st = "none" => dev'[x].st = "none"
    OBVIOUS
  <2> QED
    BY <2>1, WriterFrame
<1>8. FinishInv'
  <2> SUFFICES ASSUME NEW q \in Procs, op[q] = "finish",
                      pc[q] \in {"lock", "locked"} \/ reply'[q] = "ok"
               PROVE  snap[q].client \in Clients /\ dev'[snap[q].client].st \in {"active", "removed"}
    BY DEF FinishInv
  <2>1. CASE reply'[q] = reply[q]
    <3>1. snap[q].client \in Clients /\ dev[snap[q].client].st \in {"active", "removed"}
      BY <2>1 DEF FinishInv
    <3> QED
      BY <3>1
  <2>2. CASE reply'[q] # reply[q]
    <3>1. q = r.from /\ snap[q].client = c
      BY <2>2 DEF RequestInv
    <3>2. pc[q] = "wait" /\ reply'[q] = "ok"
      BY <3>1 DEF RequestInv
    <3> QED
      BY <2>2, <3>1, <3>2
  <2> QED
    BY <2>1, <2>2
<1>9. RequestInv'
  BY OneRequest DEF RequestInv, Requests
<1>10. DeviceInv'
  BY DEF DeviceInv
<1>11. ConfirmInv'
  <2>1. \A q \in Procs : reply'[q] # reply[q] => op[q] = "finish"
    BY DEF RequestInv
  <2>2. \A q \in Procs : Confirming(q)' => Confirming(q)
    BY <2>1 DEF Confirming
  <2> QED
    BY <2>2, ConfirmFrame
<1>12. Recoverable'
  BY DEF Recoverable
<1> QED
  BY <1>5, <1>6, <1>7, <1>8, <1>9, <1>10, <1>11, <1>12

\* The operations that can follow a response.
LEMMA ReceiveFollows ==
  ASSUME NEW p \in Procs
  PROVE  \A o \in FollowUp(p) : \/ o = "clear" /\ op[p] = "use" /\ snap[p].rot # None
                                \/ o = op[p] /\ op[p] # "use" /\ reply[p] = "ok"
BY DEF FollowUp

\* An authenticated response starts a confirmation or applies a decision.
LEMMA ReceiveStep ==
  ASSUME Inductive, NEW p \in Procs, Receive(p), TypeOK'
  PROVE  Inductive'
<1> USE NoneAssumption, PairingMembers DEF Inductive, TypeOK
<1>1. pc[p] = "wait" /\ reply[p] # "none" /\ UNCHANGED <<store, external>>
  BY DEF Receive
<1>2. CASE Leave(p)
  <2> USE <1>1, <1>2 DEF Leave, store, external
  <2>1. LockInv' /\ LocalInv' /\ ChainInv' /\ FileInv'
    BY DEF LockInv, LocalInv, ChainInv, FileInv
  <2>2. WriterInv' /\ FinishInv' /\ DeviceInv'
    BY DEF WriterInv, FinishInv, DeviceInv
  <2>3. RequestInv'
    BY DEF RequestInv
  <2>4. ConfirmInv' /\ Recoverable'
    BY DEF ConfirmInv, Confirming, Recoverable
  <2> QED
    BY <2>1, <2>2, <2>3, <2>4
<1>3. ASSUME NEW o \in FollowUp(p), Goto(p, "lock", o), UNCHANGED <<snap, held, now, reply>>
      PROVE  Inductive'
  <2>0. \/ o = "clear" /\ op[p] = "use" /\ snap[p].rot # None
        \/ o = op[p] /\ op[p] # "use" /\ reply[p] = "ok"
    BY ReceiveFollows
  <2> USE <1>1, <1>3, <2>0 DEF Goto, store, external
  <2>1. LockInv' /\ LocalInv' /\ ChainInv' /\ FileInv'
    BY DEF LockInv, LocalInv, ChainInv, FileInv
  <2>2. WriterInv' /\ FinishInv' /\ DeviceInv'
    BY DEF WriterInv, FinishInv, DeviceInv, LocalInv
  <2>3. RequestInv'
    BY DEF RequestInv
  <2>4. ConfirmInv' /\ Recoverable'
    BY DEF ConfirmInv, Confirming, Recoverable
  <2> QED
    BY <2>1, <2>2, <2>3, <2>4
<1> QED
  BY <1>2, <1>3 DEF Receive

-----------------------------------------------------------------------------
(* The theorems *)

LEMMA InductiveInit == Init => Inductive
<1> SUFFICES ASSUME Init PROVE Inductive
  OBVIOUS
<1>1. TypeOK
  BY TypeInit
<1>2. LockInv /\ LocalInv /\ ChainInv /\ FileInv /\ WriterInv /\ FinishInv
  BY NoneAssumption
     DEF Init, LockInv, LocalInv, ChainInv, FileInv, WriterInv, FinishInv, Absent
<1>3. RequestInv /\ DeviceInv /\ ConfirmInv /\ Recoverable
  BY DEF Init, RequestInv, DeviceInv, ConfirmInv, Confirming, Recoverable, Absent
<1> QED
  BY <1>1, <1>2, <1>3 DEF Inductive

LEMMA InductiveNext ==
  ASSUME CanLosePower = FALSE, Inductive, [Next]_vars
  PROVE  Inductive'
<1>1. TypeOK'
  BY TypeStep DEF Inductive
<1>2. ASSUME NEW p \in Procs, ProcessStep(p) PROVE Inductive'
  BY <1>1, <1>2, StartPairingStep, HandOffStep, FinishPairingStep, RemovePairingStep,
     DropPairingStep, UseStep, UseReadStep, LockStep, CommitStep, RotateStep,
     DeclineStep, SyncStep, ReceiveStep, ReportStep, StopStep
     DEF ProcessStep
<1>3. ASSUME NEW c \in Clients, Decide(c) \/ OverlapEnds(c) PROVE Inductive'
  BY <1>1, <1>3, DecideStep, OverlapEndsStep
<1>4. ASSUME NEW r \in inflight, AnswerOrdinary(r) \/ AnswerRotation(r) \/ AnswerActivation(r)
      PROVE  Inductive'
  BY <1>1, <1>4, AnswerOrdinaryStep, AnswerRotationStep, AnswerActivationStep
<1>5. CASE PowerLoss
  BY <1>5 DEF PowerLoss
<1>6. CASE UNCHANGED vars
  BY <1>6 DEF vars, Inductive, TypeOK, LockInv, LocalInv, ChainInv, FileInv, WriterInv,
       FinishInv, RequestInv, DeviceInv, ConfirmInv, Confirming, Recoverable
<1> QED
  BY <1>2, <1>3, <1>4, <1>5, <1>6 DEF Next, DeviceStep

\* While the machine keeps its power, no interleaving of processes that rotate,
\* confirm, pair, abort, remove and die strands an active pairing
\* (pairing.rs maybe_rotate_psk_at, config.rs clear_rotation_key).
THEOREM AlwaysRecoverable ==
  ASSUME CanLosePower = FALSE
  PROVE  Spec => []Recoverable
<1>1. Inductive /\ [Next]_vars => Inductive'
  BY InductiveNext
<1>2. Inductive => Recoverable
  BY DEF Inductive
<1> QED
  BY InductiveInit, <1>1, <1>2, PTL DEF Spec

\* Two processes never rotate the same generation twice
\* (config.rs lock_pairing_if_rotated_before).
THEOREM RotationsAreSpaced ==
  ASSUME CanLosePower = FALSE
  PROVE  Spec => RotationSpacing
<1> DEFINE Spaced == file.st = "active" /\ file'.st = "active" /\ file'.client = file.client
                       /\ file'.psk # file.psk =>
                     file.rot = None /\ file'.rotatedAt > file.rotatedAt + Interval
<1>1. ASSUME Inductive, [Next]_vars PROVE [Spaced]_vars
  <2> USE <1>1 DEF Inductive, TypeOK
  <2>1. ASSUME NEW p \in Procs, Rotate(p) PROVE Spaced
    <3>1. held[p] = file /\ held[p].rot = None /\ held[p].rotatedAt < Cutoff(now[p])
      BY <2>1 DEF Rotate, Permitted, StillDue, RotationDue, LockInv
    <3>2. file'.rotatedAt = now[p]
      BY <2>1, <3>1, StoredPairing DEF Rotate
    <3>3. now[p] \in Nat /\ Interval \in Nat
      BY TimeAssumption
    <3>4. file.st = "active" => file.rotatedAt \in Nat
      BY TimeAssumption, StoredPairing DEF Stored
    <3> QED
      BY <3>1, <3>2, <3>3, <3>4 DEF Cutoff
  <2>2. ASSUME NEW p \in Procs, Commit(p) PROVE Spaced
    <3>1. held[p] = file
      BY <2>2 DEF Commit, LockInv
    <3>2. op[p] = "clear" => file'.psk = file.psk
      BY <2>2, <3>1, StoredPairing DEF Commit, Permitted, OwnRotation, Rewritten, Stored
    <3> QED
      BY <2>2, <3>1, <3>2 DEF Commit, Permitted, Rewritten, Absent
  <2>3. UNCHANGED file \/ (\E p \in Procs : Rotate(p) \/ Commit(p))
    BY <1>1 DEF Next, ProcessStep, DeviceStep, StartPairing, HandOff, FinishPairing,
         RemovePairing, DropPairing, Use, UseRead, Lock, Decline, Sync, Receive, Report,
         Stop, PowerLoss, Decide, OverlapEnds, AnswerOrdinary, AnswerRotation,
         AnswerActivation, store, vars
  <2> QED
    BY <2>1, <2>2, <2>3
<1>2. Inductive /\ [Next]_vars => Inductive'
  BY InductiveNext
<1>3. Inductive /\ [Next]_vars => [Spaced]_vars
  BY <1>1
<1> QED
  BY InductiveInit, <1>2, <1>3, PTL DEF Spec, RotationSpacing

-----------------------------------------------------------------------------
(* The promise to the device: what it is about *)

Prior == IF file.st = "absent" THEN None ELSE origin[file.psk].parent
PeerMap == [c \in Clients |-> PeerOf(c)]

\* What the promise is about.
promised == <<file.st, file.client, file.psk, Prior, file.rot # None, PeerMap>>

-----------------------------------------------------------------------------
(* Steps that the promise does not see *)

\* A fresh key is not the stored one.
LEMMA StoredIsUsed ==
  ASSUME Inductive, file.st # "absent", NEW k \in Psks, FreshPsk(k)
  PROVE  k # file.psk
BY PairingMembers, NoneAssumption DEF Inductive, TypeOK, FileInv, FreshPsk

LEMMA StartPairingUnseen ==
  ASSUME Inductive, NEW p \in Procs, StartPairing(p)
  PROVE  UNCHANGED promised
<1>1. UNCHANGED <<file, dev>>
  BY DEF StartPairing, store
<1>2. Prior' = Prior
  BY <1>1 DEF StartPairing, Prior
<1> QED
  BY <1>1, <1>2 DEF promised, PeerMap, PeerOf

\* An offer is made for an identity that the device has not activated.
LEMMA HandOffUnseen ==
  ASSUME Inductive, NEW p \in Procs, HandOff(p)
  PROVE  UNCHANGED promised
<1> USE DEF Inductive, TypeOK
<1>1. UNCHANGED <<file, origin>>
  BY DEF HandOff, store
<1>2. dev[snap[p].client].st = "none"
  BY DEF HandOff, LocalInv, WriterInv
<1>3. ASSUME NEW c \in Clients PROVE PeerOf(c)' = PeerOf(c)
  BY <1>2 DEF HandOff, PeerOf, Bindings
<1> QED
  BY <1>1, <1>3 DEF promised, PeerMap, Prior

LEMMA ReportUnseen ==
  ASSUME Inductive, NEW p \in Procs, Report(p)
  PROVE  UNCHANGED promised
<1> USE DEF Inductive, TypeOK
<1>1. UNCHANGED <<file, origin>>
  BY DEF Report, store
<1>2. ASSUME NEW c \in Clients PROVE PeerOf(c)' = PeerOf(c)
  BY DEF Report, PeerOf, Bindings
<1> QED
  BY <1>1, <1>2 DEF promised, PeerMap, Prior

LEMMA DeviceUnseen ==
  ASSUME Inductive, NEW c \in Clients, Decide(c) \/ OverlapEnds(c)
  PROVE  UNCHANGED promised
<1> USE DEF Inductive, TypeOK
<1>1. UNCHANGED <<file, origin>>
  BY DEF Decide, OverlapEnds, store
<1>2. ASSUME NEW b \in Clients PROVE PeerOf(b)' = PeerOf(b)
  BY DEF Decide, OverlapEnds, PeerOf, Bindings
<1> QED
  BY <1>1, <1>2 DEF promised, PeerMap, Prior

-----------------------------------------------------------------------------
(* Steps of the client *)

\* The write under the lock: a new pairing, its activation, the end of a
\* handover, or the end of the pairing.
LEMMA CommitPromised ==
  ASSUME Inductive, NEW p \in Procs, Commit(p)
  PROVE  Promise!Next
<1> USE DEF Inductive, TypeOK
<1>1. held[p] = file /\ UNCHANGED <<dev, origin>> /\ file' = Rewritten(p) /\ Permitted(p)
  BY DEF Commit, LockInv, external
<1>2. PeerMap' = PeerMap
  BY <1>1 DEF PeerMap, PeerOf
<1>3. CASE op[p] = "write"
  <2>1. file.st = "absent" /\ file' = snap[p] /\ snap[p].st = "pending" /\ snap[p].rot = None
    BY <1>1, <1>3 DEF Permitted, Rewritten, WriterInv
  <2>2. snap[p].client \in Clients /\ snap[p].psk \in Psks
    BY <2>1, PairingMembers
  <2>3. origin[snap[p].psk].parent = None
    BY <1>3 DEF Commit, WriterInv
  <2>4. PeerOf(snap[p].client).st = "never"
    BY <1>3 DEF WriterInv, PeerOf
  <2> QED
    BY <1>1, <1>2, <2>1, <2>2, <2>3, <2>4 DEF Promise!Next, Promise!Adopt, PeerMap
<1>4. CASE op[p] = "finish"
  <2>1. file.st = "pending" /\ file \in Stored /\ file.client = snap[p].client
    BY <1>1, <1>4, StoredPairing DEF Permitted, OwnPending
  <2>2. file' = [file EXCEPT !.st = "active"]
    BY <1>1, <1>4 DEF Rewritten
  <2>3. file.client \in Clients /\ PeerOf(file.client).st # "never"
    BY <1>4, <2>1 DEF Commit, FinishInv, PeerOf, Stored
  <2>4. /\ file'.st = "active" /\ file'.client = file.client /\ file'.psk = file.psk
        /\ file'.rot = file.rot
    BY <2>1, <2>2 DEF Stored
  <2> QED
    BY <1>1, <1>2, <2>1, <2>3, <2>4 DEF Promise!Next, Promise!Activate, PeerMap
<1>5. CASE op[p] = "clear"
  <2>1. file.st # "absent" /\ file.rot = snap[p].rot /\ snap[p].rot # None
    BY <1>1, <1>5 DEF Permitted, OwnRotation, LocalInv
  <2>2. file \in Stored /\ file.st = "active"
    BY <2>1, StoredPairing DEF FileInv, Stored
  <2>3. file' = [file EXCEPT !.rot = None]
    BY <1>1, <1>5 DEF Rewritten
  <2>4. /\ file'.st = "active" /\ file'.client = file.client /\ file'.psk = file.psk
        /\ file'.rot = None
    BY <2>2, <2>3 DEF Stored
  <2>5. file.client \in Clients
    BY <2>2 DEF Stored
  <2>6. PeerOf(file.client).st = "active" => PeerOf(file.client).key = file.psk
    BY <1>5, <2>1, <2>2 DEF ConfirmInv, Confirming, PeerOf
  <2> QED
    BY <1>1, <1>2, <2>1, <2>2, <2>4, <2>5, <2>6 DEF Promise!Next, Promise!Settle, PeerMap
<1>6. CASE op[p] \notin {"write", "finish", "clear"}
  <2>1. file.st # "absent" /\ file' = Absent
    BY <1>1, <1>6 DEF Commit, Permitted, OwnPending, OwnActive, Rewritten
  <2> QED
    BY <1>2, <2>1 DEF Promise!Next, Promise!Forget, Absent, PeerMap
<1> QED
  BY <1>3, <1>4, <1>5, <1>6

LEMMA RotatePromised ==
  ASSUME Inductive, NEW p \in Procs, Rotate(p)
  PROVE  Promise!Next
<1> USE DEF Inductive, TypeOK
<1>1. held[p] = file /\ UNCHANGED dev /\ file.st = "active" /\ file.rot = None
  BY DEF Rotate, Permitted, StillDue, RotationDue, LockInv
<1>2. PICK k \in Psks : /\ FreshPsk(k)
                        /\ origin' = [origin EXCEPT ![k] =
                             [client |-> held[p].client, parent |-> held[p].psk]]
                        /\ file' = [held[p] EXCEPT !.psk = k, !.rot = k, !.rotatedAt = now[p]]
  BY DEF Rotate, Successor
<1>3. file \in Stored
  BY <1>1, StoredPairing
<1>4. /\ file'.st = "active" /\ file'.client = file.client
      /\ file'.psk = k /\ file'.rot = k /\ k # None
  BY <1>1, <1>2, <1>3, NoneAssumption DEF Stored
<1>5. origin'[k].parent = file.psk
  BY <1>1, <1>2
<1>6. k # file.psk
  BY <1>1, <1>2, StoredIsUsed
<1>7. PeerMap' = PeerMap
  BY <1>1 DEF PeerMap, PeerOf
<1> QED
  BY <1>1, <1>4, <1>5, <1>6, <1>7 DEF Promise!Next, Promise!Succeed, PeerMap

-----------------------------------------------------------------------------
(* Steps of the device *)

\* An activation takes place before the local one, with the key of the attempt.
LEMMA ActivationPromised ==
  ASSUME Inductive, NEW r \in inflight, AnswerActivation(r)
  PROVE  Promise!Next \/ UNCHANGED promised
<1> USE DEF Inductive, TypeOK
<1> DEFINE c == r.client
<1>1. c \in Clients /\ UNCHANGED <<file, origin>>
  BY DEF AnswerActivation, Requests, store
<1>2. CASE UNCHANGED dev
  BY <1>1, <1>2 DEF promised, Prior, PeerMap, PeerOf
<1>3. CASE dev[c].st = "accepted" /\ dev' = [dev EXCEPT ![c].st = "active"]
  <2>1. dev[c].cur \in Psks /\ origin[dev[c].cur].client = c
    BY <1>1, <1>3 DEF DeviceInv
  <2>2. PeerMap' = [PeerMap EXCEPT ![c] = [st |-> "active", key |-> dev[c].cur]]
    BY <1>1, <1>3 DEF PeerMap, PeerOf, Bindings
  <2>3. ASSUME file.st # "absent", c = file.client PROVE file.st = "pending" /\ dev[c].cur = file.psk
    <3>1. file.st = "pending"
      BY <1>3, <2>3, PairingMembers DEF FileInv
    <3> QED
      BY <2>1, <2>3, <3>1 DEF FileInv
  <2>4. PeerMap[c].st = "never"
    BY <1>1, <1>3 DEF PeerMap, PeerOf
  <2>5. UNCHANGED <<file.st, file.client, file.psk, Prior, file.rot # None>>
    BY <1>1 DEF Prior
  <2>6. Promise!PeerActivates(c)
    BY <1>1, <2>1, <2>2, <2>3, <2>4, <2>5
       DEF Promise!PeerActivates, Promise!Current, Promise!pairing, PeerMap, Prior
  <2> QED
    BY <1>1, <2>6 DEF Promise!Next
<1> QED
  BY <1>2, <1>3 DEF AnswerActivation

LEMMA OrdinaryPromised ==
  ASSUME Inductive, NEW r \in inflight, AnswerOrdinary(r)
  PROVE  Promise!Next \/ UNCHANGED promised
<1> USE DEF Inductive, TypeOK
<1> DEFINE c == r.client
<1>1. c \in Clients /\ UNCHANGED <<file, origin>>
  BY DEF AnswerOrdinary, Requests, store
<1>2. dev[c].st = "active"
  BY DEF AnswerOrdinary, OpensOrdinary
<1>3. CASE UNCHANGED dev
  BY <1>1, <1>3 DEF promised, Prior, PeerMap, PeerOf
<1>4. CASE dev' = [dev EXCEPT ![c] = [dev[c] EXCEPT !.st = "removed"]]
  <2>1. PeerMap' = [PeerMap EXCEPT ![c] = [st |-> "gone", key |-> None]]
    BY <1>1, <1>4 DEF PeerMap, PeerOf, Bindings
  <2>2. PeerMap[c].st = "active"
    BY <1>1, <1>2 DEF PeerMap, PeerOf
  <2>3. Promise!PeerLeaves(c)
    BY <1>1, <2>1, <2>2 DEF Promise!PeerLeaves, Promise!pairing, PeerMap, Prior
  <2> QED
    BY <1>1, <2>3 DEF Promise!Next
<1>5. PICK result \in {"ok", "error"} : dev' = [dev EXCEPT ![c] = Removed(dev[c], r, result)]
  BY DEF AnswerOrdinary, Results
<1> QED
  BY <1>1, <1>3, <1>4, <1>5 DEF Removed

\* The device moves only from the parent of the stored key to the stored key.
LEMMA RotationPromised ==
  ASSUME Inductive, NEW r \in inflight, AnswerRotation(r)
  PROVE  Promise!Next
<1> USE DEF Inductive, TypeOK
<1> DEFINE c == r.client
<1>1. c \in Clients /\ r.psk \in Psks /\ UNCHANGED <<file, origin>>
  BY DEF AnswerRotation, Requests, store
<1>2. dev[c].st = "active" /\ origin[r.psk] = [client |-> c, parent |-> dev[c].cur]
  BY DEF AnswerRotation, OpensCandidate
<1>3. dev[c].cur \in Psks /\ origin[dev[c].cur].client = c
  BY <1>1, <1>2 DEF DeviceInv
<1>4. PeerMap[c] = [st |-> "active", key |-> dev[c].cur]
  BY <1>1, <1>2 DEF PeerMap, PeerOf
<1>5. PICK result \in {"ok", "error"} : dev' = [dev EXCEPT ![c] =
        Removed([dev[c] EXCEPT !.cur = r.psk, !.prev = dev[c].cur], r, result)]
  BY DEF AnswerRotation, Results
<1>6. CASE dev' = [dev EXCEPT ![c] = [dev[c] EXCEPT !.cur = r.psk, !.prev = dev[c].cur]]
  <2>1. PeerMap' = [PeerMap EXCEPT ![c].key = r.psk]
    BY <1>1, <1>2, <1>4, <1>6 DEF PeerMap, PeerOf, Bindings
  <2>2. ASSUME file.st # "absent", c = file.client
        PROVE  file.rot # None /\ dev[c].cur = Prior /\ r.psk = file.psk
    <3>1. file.st # "pending"
      <4>1. r.psk # dev[c].cur
        BY <1>1, <1>2, NoneAssumption DEF AnswerRotation, OpensCandidate, OpensOrdinary
      <4> QED
        BY <1>1, <1>2, <1>3, <2>2, <4>1 DEF FileInv
    <3>2. file.st = "active" /\ file.psk \in Psks
      BY <2>2, <3>1, PairingMembers
    <3>3. file.psk # dev[c].cur
      BY <1>1, <1>2, <2>2 DEF FileInv
    <3>4. file.rot = file.psk /\ origin[file.psk].parent = dev[c].cur
      BY <1>2, <2>2, <3>2, <3>3 DEF Recoverable
    <3>5. r.psk = file.psk
      BY <1>1, <1>2, <1>3, <3>2, <3>4, NoneAssumption DEF ChainInv
    <3> QED
      BY <2>2, <3>2, <3>4, <3>5, NoneAssumption DEF Prior
  <2>3. UNCHANGED <<file.st, file.client, file.psk, Prior, file.rot # None>>
    BY <1>1 DEF Prior
  <2>4. PeerMap[c].st = "active" /\ PeerMap[c].key = dev[c].cur
    BY <1>4
  <2>5. Promise!PeerFollows(c)
    <3> HIDE DEF c, Inductive, TypeOK
    <3> QED
      BY <1>1, <2>1, <2>2, <2>3, <2>4
         DEF Promise!PeerFollows, Promise!Current, Promise!pairing, PeerMap, Prior
  <2> QED
    BY <1>1, <2>5 DEF Promise!Next
<1>7. CASE dev' = [dev EXCEPT ![c] =
             [[dev[c] EXCEPT !.cur = r.psk, !.prev = dev[c].cur] EXCEPT !.st = "removed"]]
  <2>1. PeerMap' = [PeerMap EXCEPT ![c] = [st |-> "gone", key |-> None]]
    BY <1>1, <1>7 DEF PeerMap, PeerOf, Bindings
  <2>2. Promise!PeerLeaves(c)
    BY <1>1, <1>4, <2>1 DEF Promise!PeerLeaves, Promise!pairing, PeerMap, Prior
  <2> QED
    BY <1>1, <2>2 DEF Promise!Next
<1> QED
  BY <1>5, <1>6, <1>7 DEF Removed

-----------------------------------------------------------------------------
(* The theorems *)

LEMMA PromiseInit == Init => Promise!Init
BY DEF Init, Promise!Init, Absent, PeerOf

LEMMA PromiseStep ==
  ASSUME CanLosePower = FALSE, Inductive, [Next]_vars
  PROVE  [Promise!Next]_(Promise!vars)
<1>1. UNCHANGED promised => UNCHANGED Promise!vars
  BY DEF promised, Promise!vars, PeerMap, Prior
<1>2. ASSUME UNCHANGED <<file, dev, origin>> PROVE UNCHANGED promised
  BY <1>2 DEF promised, Prior, PeerMap, PeerOf
<1>3. ASSUME NEW p \in Procs, ProcessStep(p) PROVE Promise!Next \/ UNCHANGED promised
  <2>1. \/ StartPairing(p) \/ HandOff(p) \/ Report(p) \/ Commit(p) \/ Rotate(p)
        \/ UNCHANGED <<file, dev, origin>>
    BY <1>3 DEF ProcessStep, FinishPairing, RemovePairing, DropPairing, Use, UseRead, Send,
         Lock, Decline, Sync, Receive, Stop, store, external
  <2> QED
    BY <1>2, <2>1, StartPairingUnseen, HandOffUnseen, ReportUnseen, CommitPromised, RotatePromised
<1>4. ASSUME NEW c \in Clients, Decide(c) \/ OverlapEnds(c) PROVE UNCHANGED promised
  BY <1>4, DeviceUnseen
<1>5. ASSUME NEW r \in inflight, AnswerOrdinary(r) \/ AnswerRotation(r) \/ AnswerActivation(r)
      PROVE  Promise!Next \/ UNCHANGED promised
  BY <1>5, OrdinaryPromised, RotationPromised, ActivationPromised
<1>6. CASE PowerLoss
  BY <1>6 DEF PowerLoss
<1>7. CASE UNCHANGED vars
  BY <1>1, <1>2, <1>7 DEF vars
<1> QED
  BY <1>1, <1>3, <1>4, <1>5, <1>6, <1>7 DEF Next, DeviceStep

\* All processes of a home together implement the promise to the device while
\* the machine keeps its power: one pairing at a time, activated after the
\* device, with one open handover at most (config.rs, pairing.rs
\* maybe_rotate_psk_at).
THEOREM PromiseIsKept ==
  ASSUME CanLosePower = FALSE
  PROVE  Spec => KeepsPromise
<1>1. Inductive /\ [Next]_vars => Inductive'
  BY InductiveNext
<1>2. Inductive /\ [Next]_vars => [Promise!Next]_(Promise!vars)
  BY PromiseStep
<1> QED
  BY InductiveInit, PromiseInit, <1>1, <1>2, PTL DEF Spec, KeepsPromise, Promise!Spec

-----------------------------------------------------------------------------
(* What the promise is worth: who keeps it always shares a key with the    *)
(* device.  This is about the steps of PairingPromise alone, whatever the  *)
(* processes do.                                                           *)

\* The device's state of identities, and the key of an attempt: until the client
\* activates it there is no other.
PromiseInv ==
  /\ PeerMap \in [Clients -> Promise!Peers]
  /\ file.st \in {"absent", "pending", "active"}
  /\ file.st # "absent" => file.client \in Clients /\ file.psk \in Psks
  /\ file.st = "pending" =>
       /\ file.rot = None
       /\ PeerMap[file.client].st = "active" => PeerMap[file.client].key = file.psk
  /\ Promise!InStep

LEMMA PromiseInvInit == Promise!Init => PromiseInv
  BY DEF Promise!Init, PromiseInv, Promise!InStep, Promise!Peers, PeerMap

LEMMA PromiseInvStep ==
  ASSUME PromiseInv, [Promise!Next]_(Promise!vars)
  PROVE  PromiseInv'
<1> USE DEF PromiseInv, Promise!InStep, Promise!pairing
<1>1. CASE Promise!Adopt
  BY <1>1 DEF Promise!Adopt, PeerMap
<1>2. CASE Promise!Activate \/ Promise!Forget
  BY <1>2 DEF Promise!Activate, Promise!Forget, PeerMap
<1>3. CASE Promise!Succeed \/ Promise!Settle
  BY <1>3 DEF Promise!Succeed, Promise!Settle, PeerMap
<1>4. ASSUME NEW c \in Clients, Promise!PeerActivates(c) PROVE PromiseInv'
  BY <1>4 DEF Promise!PeerActivates, Promise!Current, Promise!Peers, PeerMap
<1>5. ASSUME NEW c \in Clients, Promise!PeerFollows(c) PROVE PromiseInv'
  BY <1>5 DEF Promise!PeerFollows, Promise!Current, Promise!Peers, PeerMap
<1>6. ASSUME NEW c \in Clients, Promise!PeerLeaves(c) PROVE PromiseInv'
  BY <1>6 DEF Promise!PeerLeaves, Promise!Peers, PeerMap
<1>7. CASE UNCHANGED Promise!vars
  BY <1>7 DEF Promise!vars, PeerMap
<1> QED
  BY <1>1, <1>2, <1>3, <1>4, <1>5, <1>6, <1>7 DEF Promise!Next

\* A client that keeps the promise has the device's key, or the device has the
\* prior key of a handover that is still open (docs/cryptosystem.md section 9).
THEOREM PromiseKeepsInStep == Promise!Spec => []Promise!InStep
<1>1. PromiseInv /\ [Promise!Next]_(Promise!vars) => PromiseInv'
  BY PromiseInvStep
<1>2. PromiseInv => Promise!InStep
  BY DEF PromiseInv
<1> QED
  BY PromiseInvInit, <1>1, <1>2, PTL DEF Promise!Spec

\* So the processes of a home always share a key with the device while the
\* machine keeps its power.
THEOREM AlwaysInStep ==
  ASSUME CanLosePower = FALSE
  PROVE  Spec => []Promise!InStep
BY PromiseIsKept, PromiseKeepsInStep, PTL DEF KeepsPromise
=============================================================================
