---------------------------- MODULE ChildProcess ----------------------------
(***************************************************************************)
(* run_attached (crates/cb-process): cb installs its signal handlers,      *)
(* starts an agent on its own terminal, forwards SIGINT and SIGTERM while  *)
(* it waits, and returns the agent's exit status.                          *)
(*                                                                         *)
(* A handler of tokio stays installed for the life of the process and      *)
(* remembers a signal once until the loop receives it.  There is none for  *)
(* any other signal (SIGHUP and SIGQUIT, which a terminal sends too): it   *)
(* ends cb wherever it is, and the agent goes on alone.  A process id can  *)
(* be given to somebody else from the moment the process was reaped.       *)
(***************************************************************************)
EXTENDS Integers

CONSTANTS
  Signals,     \* signals cb forwards
  Unhandled,   \* signals cb has no handler for
  Terminal,    \* those a terminal sends to the whole foreground group
  Codes,       \* exit codes of agents
  Fatal,       \* numbers of the signals that may end an agent
  NoSignal,
  MaxArrivals  \* bound of the instance

ASSUME SignalsApart == Signals \cap Unhandled = {} /\ NoSignal \notin Signals
ASSUME TerminalSignals == Terminal \subseteq Signals \cup Unhandled
ASSUME ArrivalsBounded == MaxArrivals \in Nat
ASSUME ExitNumbers == Codes \subseteq Nat /\ Fatal \subseteq Nat \ {0}

VARIABLES
  cb,          \* where run_attached is, or what ended cb: "killed" by a signal
               \* that would be forwarded, "hungup" by another
  installed,   \* the handlers are in place
  child,       \* "none", "running", "zombie" or "reaped"
  pending,     \* signals remembered for the loop
  forwarding,  \* the signal being forwarded
  heard,       \* signals the agent got since they last arrived at cb
  lost,        \* signals since whose last arrival a kill has failed
  exit,        \* what the agent's exit status will be reported as
  arrivals     \* signals sent to cb so far

childVars == <<cb, installed, child, pending, forwarding, heard, lost, exit, arrivals>>

ChildInit ==
  /\ cb = "idle" /\ installed = FALSE /\ child = "none"
  /\ pending = {} /\ forwarding = NoSignal
  /\ heard = {} /\ lost = {}
  /\ exit = 0 /\ arrivals = 0

\* Fault: the handlers are left to be installed later.
StartSpawning ==
  /\ cb = "idle"
  /\ cb' = "spawn"
  /\ UNCHANGED <<installed, child, pending, forwarding, heard, lost, exit, arrivals>>

\* install_forwarded_signals comes first, and may fail.
Start ==
  /\ cb = "idle"
  /\ \/ cb' = "spawn" /\ installed' = TRUE
     \/ cb' = "failed" /\ UNCHANGED installed
  /\ UNCHANGED <<child, pending, forwarding, heard, lost, exit, arrivals>>

Spawn ==
  /\ cb = "spawn"
  /\ \/ cb' = "wait" /\ child' = "running"
     \/ cb' = "failed" /\ UNCHANGED child
  /\ UNCHANGED <<installed, pending, forwarding, heard, lost, exit, arrivals>>

\* exit_code: the code, or 128 plus the signal.
ExitCodes == Codes \cup {128 + s : s \in Fatal}

ChildExits ==
  /\ child = "running"
  /\ child' = "zombie"
  /\ exit' \in ExitCodes
  /\ UNCHANGED <<cb, installed, pending, forwarding, heard, lost, arrivals>>

\* Fault: the exit is also collected while a signal is forwarded.
ReapAnyTime ==
  /\ cb \in {"wait", "kill", "pkill"} /\ child = "zombie"
  /\ child' = "reaped"
  /\ cb' = IF cb = "wait" THEN "returned" ELSE cb
  /\ UNCHANGED <<installed, pending, forwarding, heard, lost, exit, arrivals>>

\* child.wait() is only polled by the select.
Reap ==
  /\ cb = "wait" /\ child = "zombie"
  /\ child' = "reaped"
  /\ cb' = "returned"
  /\ UNCHANGED <<installed, pending, forwarding, heard, lost, exit, arrivals>>

\* The select may take a signal before an exit it could take as well.
Receive(s) ==
  /\ cb = "wait" /\ s \in pending
  /\ pending' = pending \ {s}
  /\ forwarding' = s
  /\ cb' = "kill"
  /\ UNCHANGED <<installed, child, heard, lost, exit, arrivals>>

\* Fault: what is forwarded only reaches the agent's own children.
KillNobody ==
  /\ cb = "kill"
  /\ cb' = "pkill"
  /\ UNCHANGED <<installed, child, pending, forwarding, heard, lost, exit, arrivals>>

\* `kill -SIG pid`; a zombie does not hear it.  That the command cannot be
\* started, or fails, is ignored.
Kill ==
  /\ cb = "kill"
  /\ \/ /\ heard' = IF child = "running" THEN heard \cup {forwarding} ELSE heard
        /\ UNCHANGED lost
     \/ lost' = lost \cup {forwarding} /\ UNCHANGED heard
  /\ cb' = "pkill"
  /\ UNCHANGED <<installed, child, pending, forwarding, exit, arrivals>>

\* `pkill -SIG -P pid`, for the children of the agent.
Pkill ==
  /\ cb = "pkill"
  /\ forwarding' = NoSignal
  /\ cb' = "wait"
  /\ UNCHANGED <<installed, child, pending, heard, lost, exit, arrivals>>

Ended == cb \in {"killed", "hungup"}

\* A signal to cb, or from the terminal to cb and the agent alike.  With a
\* handler it is remembered, and dropped when nobody waits any more; without
\* one it ends cb.
Arrive(s, group) ==
  /\ arrivals < MaxArrivals /\ ~ Ended
  /\ arrivals' = arrivals + 1
  /\ IF s \in Signals /\ installed
     THEN /\ pending' = IF cb \in {"returned", "failed"} THEN pending ELSE pending \cup {s}
          /\ UNCHANGED cb
     ELSE cb' = (IF s \in Signals THEN "killed" ELSE "hungup") /\ UNCHANGED pending
  /\ heard' = IF group /\ child = "running" THEN heard \cup {s} ELSE heard \ {s}
  /\ lost' = lost \ {s}
  /\ UNCHANGED <<installed, child, forwarding, exit>>

\* What cb does once run_attached was called, and what happens to it.
Loop == Spawn \/ Reap \/ (\E s \in Signals : Receive(s)) \/ Kill \/ Pkill
Surroundings ==
  \/ ChildExits
  \/ \E s \in Signals \cup Unhandled, group \in BOOLEAN :
       (group => s \in Terminal) /\ Arrive(s, group)

ChildNext == Start \/ Loop \/ Surroundings
ChildSpec == ChildInit /\ [][ChildNext]_childVars

-----------------------------------------------------------------------------
ChildTypeOK ==
  /\ cb \in {"idle", "spawn", "wait", "kill", "pkill", "returned", "failed",
            "killed", "hungup"}
  /\ installed \in BOOLEAN
  /\ child \in {"none", "running", "zombie", "reaped"}
  /\ pending \subseteq Signals /\ lost \subseteq Signals
  /\ heard \subseteq Signals \cup Unhandled
  /\ forwarding \in Signals \cup {NoSignal}
  /\ exit \in ExitCodes \cup {0}
  /\ arrivals \in 0 .. MaxArrivals

\* An agent that was started and not reaped has a cb that waits for it: no
\* signal that cb forwards, from before the start to the exit, ends cb and
\* leaves the agent behind.  Only a signal cb has no handler for does.
AgentIsNotAbandoned ==
  child \in {"running", "zombie"} => cb \in {"wait", "kill", "pkill", "hungup"}

\* No signal is sent to the process id of an agent that was reaped, which may
\* be somebody else's by then, and a signal is only forwarded for an agent
\* that was started.
ReapedIsLeftAlone ==
  cb \in {"kill", "pkill"} => child \in {"running", "zombie"} /\ forwarding \in Signals

\* A signal that arrives while the agent runs reaches it, unless it exits
\* first, its kill fails or a signal that is not forwarded ends cb, whatever
\* other signals arrive or are being forwarded.
SignalsReachAgent ==
  \A s \in Signals :
    (s \in pending /\ child = "running")
      ~> (s \in heard \cup lost \/ child # "running" \/ cb = "hungup")
=============================================================================
