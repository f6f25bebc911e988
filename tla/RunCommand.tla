----------------------------- MODULE RunCommand -----------------------------
(***************************************************************************)
(* agentknock run (main.rs run_command, executable.rs) between its start   *)
(* and the replacement of its process: what becomes of SIGINT and SIGTERM. *)
(*                                                                         *)
(* While the runtime listens, a signal is first caught by a handler that   *)
(* only notes it, and becomes visible to the program when the signal       *)
(* driver of the single-threaded runtime takes its turn, which it does     *)
(* only while the program awaits.  Signals that are blocked stay pending.  *)
(* A thread of the runtime's blocking pool, started to resolve the name of *)
(* the relay or proxy, has its own signal mask.                            *)
(*                                                                         *)
(* Runtime and kernel are external code.  The approval itself is module    *)
(* ApprovalExchange; here it ends, in any way, in one step.                *)
(***************************************************************************)

Signals == {"SIGINT", "SIGTERM"}

VARIABLES
  step,     \* what run_command does next, or how it ended
  handler,  \* whose disposition is installed for each signal
  mask,     \* whether the main thread blocks both signals for the transition
  fate,     \* what has become of each signal
  arrival,  \* the step at which each signal arrived
  helper,   \* whether a thread of the blocking pool lives
  caller    \* dispositions and mask inherited from the caller

vars == <<step, handler, mask, fate, arrival, helper, caller>>
signals == <<fate, arrival>>

-----------------------------------------------------------------------------

BeforeBlock == {"select", "listenInterrupt", "listenTerminate", "waiting", "service", "block"}
BeforeCheck == {"check", "prepare", "recheck"}
AfterCheck == {"restoreInterrupt", "restoreTerminate", "unblock", "exec"}
Running == BeforeBlock \cup BeforeCheck \cup AfterCheck
Ends == {"executed", "interrupted", "failed", "killed"}

TypeOK ==
  /\ step \in Running \cup Ends
  /\ handler \in [Signals -> {"caller", "runtime"}]
  /\ mask \in BOOLEAN
  /\ fate \in [Signals -> {"unsent", "pending", "caught", "stolen", "seen", "dropped"}]
  /\ arrival \in [Signals -> Running \cup {"none"}]
  /\ helper \in BOOLEAN
  /\ caller \in [ignores : SUBSET Signals, blocks : BOOLEAN]

Init ==
  /\ step = "select"
  /\ handler = [s \in Signals |-> "caller"]
  /\ mask = FALSE
  /\ fate = [s \in Signals |-> "unsent"]
  /\ arrival = [s \in Signals |-> "none"]
  /\ helper = FALSE
  /\ caller \in [ignores : SUBSET Signals, blocks : BOOLEAN]

-----------------------------------------------------------------------------
(* Kernel and runtime (external) *)

\* A signal to the process goes to any thread that does not block it.
Blocked == caller.blocks \/ (mask /\ ~helper)

Arrive(s) ==
  /\ step \in Running /\ fate[s] = "unsent"
  /\ arrival' = [arrival EXCEPT ![s] = step]
  /\ \/ /\ Blocked
        /\ fate' = [fate EXCEPT ![s] = "pending"] /\ UNCHANGED step
     \/ /\ ~Blocked /\ handler[s] = "runtime"
        /\ fate' = [fate EXCEPT ![s] = IF mask THEN "stolen" ELSE "caught"] /\ UNCHANGED step
     \/ /\ ~Blocked /\ handler[s] = "caller"
        /\ fate' = [fate EXCEPT ![s] = "dropped"]
        /\ step' = IF s \in caller.ignores THEN step ELSE "killed"
  /\ UNCHANGED <<handler, mask, helper, caller>>

\* The program awaits and the signal driver publishes what the handler noted.
Noted == {s \in Signals : fate[s] = "caught"}
Turn ==
  /\ step = "waiting" /\ Noted # {}
  /\ fate' = [s \in Signals |-> IF s \in Noted THEN "seen" ELSE fate[s]]
  /\ UNCHANGED <<step, handler, mask, arrival, helper, caller>>

\* Connecting resolves a name on a thread that ends after some idle time.
HelperStarts ==
  /\ step = "waiting" /\ ~helper
  /\ helper' = TRUE
  /\ UNCHANGED <<step, handler, mask, signals, caller>>

HelperEnds ==
  /\ helper /\ step \in Running
  /\ helper' = FALSE
  /\ UNCHANGED <<step, handler, mask, signals, caller>>

-----------------------------------------------------------------------------
(* Steps of run_command *)

Step(from, to) == step = from /\ step' = to

\* Selection of the executable and SignalState::capture.
Select ==
  /\ Step("select", "listenInterrupt")
  /\ UNCHANGED <<handler, mask, signals, helper, caller>>

\* CommandSignals::new registers one signal after the other.
Listen ==
  /\ \/ /\ Step("listenInterrupt", "listenTerminate")
        /\ handler' = [handler EXCEPT !["SIGINT"] = "runtime"]
     \/ /\ Step("listenTerminate", "waiting")
        /\ handler' = [handler EXCEPT !["SIGTERM"] = "runtime"]
  /\ UNCHANGED <<mask, signals, helper, caller>>

\* CommandSignals::wait and received: SIGINT or SIGTERM has been published.
MutInterruptOnly == fate["SIGINT"] = "seen"
Received == \E s \in Signals : fate[s] = "seen"

\* The exchange is cancelled by a published signal, which it polls first.
Cancelled ==
  /\ Step("waiting", "interrupted")
  /\ Received
  /\ UNCHANGED <<handler, mask, signals, helper, caller>>

\* The device approves and the completion is handed off, in one last poll.
Approved ==
  /\ ~Received
  /\ Step("waiting", "service")
  /\ UNCHANGED <<handler, mask, signals, helper, caller>>

\* InvocationService::start blocks the thread until the service is ready; it
\* is left out if the response needs no service.
StartService ==
  /\ Step("service", "block")
  /\ UNCHANGED <<handler, mask, signals, helper, caller>>

\* BlockedSignals::new.
BlockInterrupts ==
  /\ Step("block", "check")
  /\ mask' = TRUE
  /\ UNCHANGED <<handler, signals, helper, caller>>

\* BlockedSignals::interrupted: sigpending.
MutTerminateOnly == fate["SIGTERM"] = "pending"
Interrupted == \E s \in Signals : fate[s] = "pending"

Check ==
  /\ step = "check"
  /\ step' = IF Received \/ Interrupted THEN "interrupted" ELSE "prepare"
  /\ UNCHANGED <<handler, mask, signals, helper, caller>>

\* SelectedExecutable::execute: the hash is verified, then signals are checked
\* once more before standard input is installed.
Prepare ==
  /\ Step("prepare", "recheck")
  /\ UNCHANGED <<handler, mask, signals, helper, caller>>

Recheck ==
  /\ step = "recheck"
  /\ step' = IF Interrupted THEN "interrupted" ELSE "restoreInterrupt"
  /\ UNCHANGED <<handler, mask, signals, helper, caller>>

\* restore_for_exec puts the caller's dispositions back; ignoring a signal
\* discards it if it is pending.
MutRestoreDefault(s) == handler' = [handler EXCEPT ![s] = "default"] /\ UNCHANGED fate
Restored(s) ==
  /\ handler' = [handler EXCEPT ![s] = "caller"]
  /\ fate' = [fate EXCEPT ![s] =
       IF @ = "pending" /\ s \in caller.ignores THEN "dropped" ELSE @]

Restore ==
  /\ \/ Step("restoreInterrupt", "restoreTerminate") /\ Restored("SIGINT")
     \/ Step("restoreTerminate", "unblock") /\ Restored("SIGTERM")
  /\ UNCHANGED <<mask, arrival, helper, caller>>

\* ... and unblocks the signals: what is pending takes the caller's disposition.
Released == {s \in Signals : fate[s] = "pending" /\ ~caller.blocks}
Unblock ==
  /\ step = "unblock"
  /\ mask' = FALSE
  /\ fate' = [s \in Signals |-> IF s \in Released THEN "dropped" ELSE fate[s]]
  /\ step' = IF Released \subseteq caller.ignores THEN "exec" ELSE "killed"
  /\ UNCHANGED <<handler, arrival, helper, caller>>

Exec ==
  /\ Step("exec", "executed")
  /\ UNCHANGED <<handler, mask, signals, helper, caller>>

\* The selection, a registration, the exchange, the service, the hash check,
\* dup2 or execve fails; or the device denies.
Fail ==
  /\ step \in Running
  /\ step' = "failed"
  /\ UNCHANGED <<handler, mask, signals, helper, caller>>

Ended == step \in Ends /\ UNCHANGED vars

\* What run_command does without the network.
OwnStep ==
  \/ Select \/ Listen \/ Turn \/ Cancelled \/ StartService \/ BlockInterrupts
  \/ Check \/ Prepare \/ Recheck \/ Restore \/ Unblock \/ Exec

Next ==
  \/ OwnStep \/ Approved \/ Fail \/ HelperStarts \/ HelperEnds \/ Ended
  \/ \E s \in Signals : Arrive(s)

\* The thread of run_command runs; the exchange need never end by itself.
Spec == Init /\ [][Next]_vars /\ WF_vars(OwnStep)

-----------------------------------------------------------------------------
(* Properties *)

\* A signal that arrives after BlockInterrupts, and is not taken by another
\* thread, is honoured: it prevents the execution, or arrives too late for the
\* last check and follows the caller's disposition and mask (main.rs
\* run_command, executable.rs restore_for_exec; command-execution.md:500).
BlockedSignalIsHonoured ==
  step = "executed" => \A s \in Signals : arrival[s] \in BeforeCheck \cup AfterCheck =>
    \/ fate[s] = "stolen"
    \/ arrival[s] \in AfterCheck /\ (s \in caller.ignores \/ caller.blocks)

\* A signal that arrives during the exchange ends the run, even if relay and
\* device never answer (main.rs CommandSignals::wait, which is polled first).
SignalEndsWait ==
  \A s \in Signals : step = "waiting" /\ fate[s] = "caught" ~> step \in Ends

\* command-execution.md:497: a signal after response authentication prevents
\* execution (until the dispositions are restored).
SignalPreventsExecution ==
  step = "executed" => \A s \in Signals :
    arrival[s] \notin {"service", "block"} \cup BeforeCheck
=============================================================================
