--------------------------- MODULE RunCommandProof ---------------------------
(***************************************************************************)
(* Proofs about RunCommand: its type invariant, and that a signal blocked  *)
(* for the transition is honoured.                                         *)
(***************************************************************************)
EXTENDS RunCommand, TLAPS

-----------------------------------------------------------------------------
(* Types *)

LEMMA TypeNext == TypeOK /\ [Next]_vars => TypeOK'
<1> SUFFICES ASSUME TypeOK, [Next]_vars PROVE TypeOK'
  OBVIOUS
<1> USE DEF TypeOK, signals, Step, Running, Ends, BeforeBlock, BeforeCheck, AfterCheck
<1>1. CASE OwnStep
  <2>1. CASE Select
    BY <2>1 DEF Select
  <2>2. CASE Listen
    BY <2>2 DEF Listen, Signals
  <2>3. CASE Turn
    BY <2>3 DEF Turn, Noted
  <2>4. CASE Cancelled
    BY <2>4 DEF Cancelled
  <2>5. CASE StartService
    BY <2>5 DEF StartService
  <2>6. CASE BlockInterrupts
    BY <2>6 DEF BlockInterrupts
  <2>7. CASE Check
    BY <2>7 DEF Check
  <2>8. CASE Prepare
    BY <2>8 DEF Prepare
  <2>9. CASE Recheck
    BY <2>9 DEF Recheck
  <2>10. CASE Restore
    BY <2>10 DEF Restore, Restored, Signals
  <2>11. CASE Unblock
    BY <2>11 DEF Unblock, Released
  <2>12. CASE Exec
    BY <2>12 DEF Exec
  <2> QED
    BY <1>1, <2>1, <2>2, <2>3, <2>4, <2>5, <2>6, <2>7, <2>8, <2>9, <2>10, <2>11, <2>12
    DEF OwnStep
<1>2. CASE Approved
  BY <1>2 DEF Approved
<1>3. CASE Fail
  BY <1>3 DEF Fail
<1>4. CASE HelperStarts \/ HelperEnds
  BY <1>4 DEF HelperStarts, HelperEnds
<1>5. ASSUME NEW s \in Signals, Arrive(s) PROVE TypeOK'
  BY <1>5 DEF Arrive, Signals
<1>6. CASE Ended \/ UNCHANGED vars
  BY <1>6 DEF Ended, vars
<1> QED
  BY <1>1, <1>2, <1>3, <1>4, <1>5, <1>6 DEF Next

\* Every variable of agentknock run keeps to its values.
THEOREM TypeCorrect == Spec => []TypeOK
<1>1. Init => TypeOK
  BY DEF Init, TypeOK, Running, BeforeBlock
<1> QED
  BY <1>1, TypeNext, PTL DEF Spec

-----------------------------------------------------------------------------
(* Blocked signals *)

AfterBlock == BeforeCheck \cup AfterCheck
Masked == AfterBlock \ {"exec"}

\* The runtime's disposition of s is installed.
Listening(s) ==
  \/ step \in {"waiting", "service", "block", "check", "prepare", "recheck", "restoreInterrupt"}
  \/ step = "listenTerminate" /\ s = "SIGINT"
  \/ step = "restoreTerminate" /\ s = "SIGTERM"

\* The mask lasts until it is restored, dispositions change one by one, and no
\* signal has arrived at a step that is still to come.
Transition ==
  /\ step \in AfterBlock => (mask <=> step # "exec")
  /\ step \in Running => \A s \in Signals : handler[s] = IF Listening(s) THEN "runtime" ELSE "caller"
  /\ step \in BeforeBlock => \A s \in Signals : arrival[s] \notin AfterBlock

\* A signal that arrived while blocked: another thread took it, it is pending
\* and still to be seen by the last check, it is pending and came after that, or
\* it is the caller's business.
Accounted(s) ==
  \/ fate[s] = "stolen"
  \/ fate[s] = "pending" /\ step \in BeforeCheck
  \/ /\ arrival[s] \in AfterCheck
     /\ \/ fate[s] = "pending" /\ step \in Masked
        \/ s \in caller.ignores \/ caller.blocks

Blocking ==
  step \in AfterBlock \cup {"executed"} =>
    \A s \in Signals : arrival[s] \in AfterBlock => Accounted(s)

BlockingInv == TypeOK /\ Transition /\ Blocking

LEMMA TransitionNext == BlockingInv /\ [Next]_vars => Transition'
<1> SUFFICES ASSUME BlockingInv, [Next]_vars PROVE Transition'
  OBVIOUS
<1> USE DEF BlockingInv, TypeOK, Transition, Listening, AfterBlock, Masked, Signals,
            signals, Step, Running, Ends, BeforeBlock, BeforeCheck, AfterCheck
<1>1. CASE OwnStep
  <2>1. CASE Select \/ Cancelled \/ StartService \/ BlockInterrupts
    BY <2>1 DEF Select, Cancelled, StartService, BlockInterrupts
  <2>2. CASE Listen
    BY <2>2 DEF Listen
  <2>3. CASE Turn
    BY <2>3 DEF Turn
  <2>4. CASE Check \/ Prepare \/ Recheck
    BY <2>4 DEF Check, Prepare, Recheck
  <2>5. CASE Restore
    BY <2>5 DEF Restore, Restored
  <2>6. CASE Unblock \/ Exec
    BY <2>6 DEF Unblock, Exec
  <2> QED
    BY <1>1, <2>1, <2>2, <2>3, <2>4, <2>5, <2>6 DEF OwnStep
<1>2. CASE Approved \/ Fail
  BY <1>2 DEF Approved, Fail
<1>3. CASE HelperStarts \/ HelperEnds
  BY <1>3 DEF HelperStarts, HelperEnds
<1>4. ASSUME NEW s \in Signals, Arrive(s) PROVE Transition'
  BY <1>4 DEF Arrive
<1>5. CASE Ended \/ UNCHANGED vars
  BY <1>5 DEF Ended, vars
<1> QED
  BY <1>1, <1>2, <1>3, <1>4, <1>5 DEF Next

LEMMA BlockingNext == BlockingInv /\ [Next]_vars => Blocking'
<1> SUFFICES ASSUME BlockingInv, [Next]_vars PROVE Blocking'
  OBVIOUS
<1> USE DEF BlockingInv, TypeOK, Transition, Blocking, Accounted, AfterBlock, Masked,
            signals, Step, Running, Ends, BeforeBlock, BeforeCheck, AfterCheck
<1>1. CASE OwnStep
  <2>1. CASE Select \/ Listen \/ Turn \/ Cancelled \/ StartService
    BY <2>1 DEF Select, Listen, Turn, Cancelled, StartService
  \* Nothing has arrived while blocked when the mask is set.
  <2>2. CASE BlockInterrupts
    BY <2>2 DEF BlockInterrupts
  <2>3. CASE Check \/ Prepare
    BY <2>3 DEF Check, Prepare
  \* The last check lets the run go on only if nothing is pending.
  <2>4. CASE Recheck
    BY <2>4 DEF Recheck, Interrupted
  \* A pending signal is discarded only if the caller ignores it,
  <2>5. CASE Restore
    BY <2>5 DEF Restore, Restored, Signals
  \* and takes the caller's disposition when it is unblocked.
  <2>6. CASE Unblock
    BY <2>6 DEF Unblock, Released
  <2>7. CASE Exec
    BY <2>7 DEF Exec
  <2> QED
    BY <1>1, <2>1, <2>2, <2>3, <2>4, <2>5, <2>6, <2>7 DEF OwnStep
<1>2. CASE Approved \/ Fail
  BY <1>2 DEF Approved, Fail
<1>3. CASE HelperStarts \/ HelperEnds
  BY <1>3 DEF HelperStarts, HelperEnds
\* A new signal is pending, taken, or the caller ignores it.
<1>4. ASSUME NEW s \in Signals, Arrive(s) PROVE Blocking'
  <2> SUFFICES ASSUME step' \in AfterBlock \cup {"executed"},
                      NEW r \in Signals, arrival'[r] \in AfterBlock
               PROVE  Accounted(r)'
    OBVIOUS
  <2>1. CASE r = s
    BY <1>4, <2>1 DEF Arrive, Blocked, Listening
  <2>2. CASE r # s
    BY <1>4, <2>2 DEF Arrive
  <2> QED
    BY <2>1, <2>2
<1>5. CASE Ended \/ UNCHANGED vars
  BY <1>5 DEF Ended, vars
<1> QED
  BY <1>1, <1>2, <1>3, <1>4, <1>5 DEF Next

\* A signal that arrives while both are blocked is honoured, whatever the caller
\* ignores or blocks and whichever threads live.
THEOREM BlockedIsHonoured == Spec => []BlockedSignalIsHonoured
<1>1. Init => BlockingInv
  BY DEF Init, BlockingInv, TypeOK, Transition, Blocking, Listening, AfterBlock,
         Running, BeforeBlock, BeforeCheck, AfterCheck, Masked
<1>2. BlockingInv /\ [Next]_vars => BlockingInv'
  BY TypeNext, TransitionNext, BlockingNext DEF BlockingInv
<1>3. BlockingInv => BlockedSignalIsHonoured
  BY DEF BlockingInv, Blocking, Accounted, AfterBlock, Masked, BlockedSignalIsHonoured,
         BeforeCheck, AfterCheck
<1> QED
  BY <1>1, <1>2, <1>3, PTL DEF Spec
=============================================================================
