------------------------------ MODULE QemuGuest ------------------------------
(***************************************************************************)
(* The harness that boots QEMU guests (src/emulation/system): Start picks  *)
(* a port, launches QEMU and waits in two phases until the guest can be    *)
(* used; Stop ends QEMU.  Several guests start side by side on one         *)
(* machine, each in a fresh work directory with a key of its own.  Time is *)
(* what is left until the deadline of waitSSH: every probe that fails      *)
(* takes at least one unit of it.                                          *)
(***************************************************************************)
EXTENDS Naturals

CONSTANTS
    Guest,          \* the guests, each with the caller of its Start and Stop
    Port,           \* the local ports freePort may return
    NoPort,
    Patience        \* bound: the failing probes bootTimeout leaves time for

ASSUME QemuGuestAssumption == NoPort \notin Port /\ Patience \in Nat

VARIABLES
    pc,             \* where Start or Stop is
    port,           \* the forwarded port
    log,            \* the open file qemuOut
    qemu,           \* the QEMU process
    bound,          \* QEMU listens on the port
    boot,           \* how far the guest's system is
    left,           \* the time left until the deadline
    reaped,         \* cmd.ProcessState is set
    cancelled,      \* ctx is done
    said            \* what Start returned

harness == <<pc, port, log, left, reaped, said>>
machine == <<qemu, bound, boot>>
vars == <<harness, machine, cancelled>>

Init ==
    /\ pc = [g \in Guest |-> "idle"]
    /\ port = [g \in Guest |-> NoPort]
    /\ log = [g \in Guest |-> FALSE]
    /\ left = [g \in Guest |-> Patience]
    /\ reaped = [g \in Guest |-> FALSE]
    /\ said = [g \in Guest |-> ""]
    /\ qemu = [g \in Guest |-> "none"]
    /\ bound = [g \in Guest |-> FALSE]
    /\ boot = [g \in Guest |-> "booting"]
    /\ cancelled = [g \in Guest |-> FALSE]

Goto(g, from, to) == pc[g] = from /\ pc' = [pc EXCEPT ![g] = to]
Say(g, what) == said' = [said EXCEPT ![g] = what]

-----------------------------------------------------------------------------
(* Start, up to the launch of QEMU.                                        *)

Call(g) ==
    /\ Goto(g, "idle", "prepare")
    /\ UNCHANGED <<port, log, left, reaped, said, machine, cancelled>>

\* Available, the key, the seed image and the overlay.
Prepare(g) ==
    /\ ~cancelled[g]
    /\ Goto(g, "prepare", "port")
    /\ UNCHANGED <<port, log, left, reaped, said, machine, cancelled>>

\* The port is free now: the listener that finds it closes it again.
FreePort(g) ==
    /\ Goto(g, "port", "launch")
    /\ \E p \in Port :
          /\ \A h \in Guest : bound[h] => port[h] # p
          /\ port' = [port EXCEPT ![g] = p]
    /\ UNCHANGED <<log, left, reaped, said, machine, cancelled>>

Launch(g) ==
    /\ Goto(g, "launch", "reach")
    /\ log' = [log EXCEPT ![g] = TRUE]
    /\ qemu' = [qemu EXCEPT ![g] = "running"]
    /\ UNCHANGED <<port, left, reaped, said, bound, boot, cancelled>>

\* Mutant of StartFails: the log stays open when QEMU cannot be launched.
StartFailsOpen(g) ==
    /\ pc[g] \in {"prepare", "port", "launch"}
    /\ pc' = [pc EXCEPT ![g] = "ended"]
    /\ log' = [log EXCEPT ![g] = (pc[g] = "launch")]
    /\ Say(g, "error")
    /\ UNCHANGED <<port, left, reaped, machine, cancelled>>

\* Any of these steps fails: no QEMU, and its log is closed again.
StartFails(g) ==
    /\ pc[g] \in {"prepare", "port", "launch"}
    /\ pc' = [pc EXCEPT ![g] = "ended"]
    /\ Say(g, "error")
    /\ UNCHANGED <<port, log, left, reaped, machine, cancelled>>

-----------------------------------------------------------------------------
(* waitSSH.                                                                *)

\* exited(): ProcessState is set by Wait alone, which only Stop calls.
Exited(g) == reaped[g] /\ qemu[g] = "exited"

\* sshd of h listens behind its port.
Listens(h) == bound[h] /\ boot[h] \in {"early", "late", "done", "degraded"}

\* ssh gets in: the guest behind the port knows the key of g alone.
Answers(g) == \E h \in Guest : Listens(h) /\ port[h] = port[g] /\ h = g

Waiting(g, phase) == pc[g] = phase /\ left[g] > 0 /\ ~Exited(g)

\* Mutant of Spend: the loop does not look at the deadline.
SpendNothing(g) == left' = left

Spend(g) == \E l \in 0..(left[g] - 1) : left' = [left EXCEPT ![g] = l]

\* A probe that succeeds takes its time as well.
Lasts(g) == \E l \in 0..left[g] : left' = [left EXCEPT ![g] = l]

\* Phase 1: a connection, then `true` over ssh; nothing looks at the deadline
\* between its answer and phase 2.
Reach(g) ==
    /\ Waiting(g, "reach") /\ ~cancelled[g]
    /\ Answers(g)
    /\ Goto(g, "reach", "settle")
    /\ Lasts(g)
    /\ UNCHANGED <<port, log, reaped, said, machine, cancelled>>

ReachFails(g) ==
    /\ Waiting(g, "reach")
    /\ ~Answers(g) \/ cancelled[g]
    /\ Spend(g)
    /\ UNCHANGED <<pc, port, log, reaped, said, machine, cancelled>>

\* Mutant of Settled: phase 2 asks no more than phase 1.
SettledEarly(g) == Answers(g)

\* `cloud-init status --wait` returns 0; it blocks while cloud-init is at
\* work, and a degraded end has another exit status.
Settled(g) == Answers(g) /\ boot[g] = "done"

\* Phase 2; the deadline is not looked at when the answer comes.
Settle(g) ==
    /\ Waiting(g, "settle") /\ ~cancelled[g]
    /\ Settled(g)
    /\ Goto(g, "settle", "up")
    /\ Say(g, "ok")
    /\ UNCHANGED <<port, log, left, reaped, machine, cancelled>>

SettleFails(g) ==
    /\ Waiting(g, "settle")
    /\ ~Answers(g) \/ boot[g] = "degraded" \/ cancelled[g]
    /\ Spend(g)
    /\ UNCHANGED <<pc, port, log, reaped, said, machine, cancelled>>

\* Mutant of GiveUp: Start returns the error without Stop.
GiveUpAtOnce(g) ==
    /\ pc[g] \in {"reach", "settle"}
    /\ left[g] = 0 \/ Exited(g)
    /\ pc' = [pc EXCEPT ![g] = "ended"]
    /\ Say(g, IF left[g] = 0 THEN "timeout" ELSE "exited early")
    /\ UNCHANGED <<port, log, left, reaped, machine, cancelled>>

\* Start stops QEMU before it returns the error of waitSSH.
GiveUp(g) ==
    /\ pc[g] \in {"reach", "settle"}
    /\ left[g] = 0 \/ Exited(g)
    /\ pc' = [pc EXCEPT ![g] = "stop"]
    /\ Say(g, IF left[g] = 0 THEN "timeout" ELSE "exited early")
    /\ UNCHANGED <<port, log, left, reaped, machine, cancelled>>

-----------------------------------------------------------------------------
(* Stop.                                                                   *)

CallStop(g) ==
    /\ Goto(g, "up", "stop")
    /\ UNCHANGED <<port, log, left, reaped, said, machine, cancelled>>

Interrupt(g) ==
    /\ Goto(g, "stop", "grace")
    /\ UNCHANGED <<port, log, left, reaped, said, machine, cancelled>>

\* Mutant of Kill: there is no time limit on the interrupt.
KillNever(g) == FALSE /\ UNCHANGED vars

\* 15 seconds after the interrupt.
Kill(g) ==
    /\ Goto(g, "grace", "killed")
    /\ UNCHANGED <<port, log, left, reaped, said, machine, cancelled>>

\* Wait returns, and the log is closed.
Reap(g) ==
    /\ pc[g] \in {"grace", "killed"} /\ qemu[g] = "exited"
    /\ pc' = [pc EXCEPT ![g] = "ended"]
    /\ reaped' = [reaped EXCEPT ![g] = TRUE]
    /\ log' = [log EXCEPT ![g] = FALSE]
    /\ UNCHANGED <<port, left, said, machine, cancelled>>

-----------------------------------------------------------------------------
(* QEMU and the guest in it.                                               *)

\* hostfwd opens the port; QEMU exits when somebody else has it.
Bind(g) ==
    /\ qemu[g] = "running" /\ ~bound[g]
    /\ \A h \in Guest : bound[h] => port[h] # port[g]
    /\ bound' = [bound EXCEPT ![g] = TRUE]
    /\ UNCHANGED <<harness, qemu, boot, cancelled>>

\* QEMU exits: no port, bad options, a crash, an interrupt, the kill.
QemuExits(g) ==
    /\ qemu[g] = "running"
    /\ qemu' = [qemu EXCEPT ![g] = "exited"]
    /\ bound' = [bound EXCEPT ![g] = FALSE]
    /\ UNCHANGED <<harness, boot, cancelled>>

Booted(g, from, to) ==
    /\ bound[g] /\ boot[g] = from /\ boot' = [boot EXCEPT ![g] = to]
    /\ UNCHANGED <<harness, qemu, bound, cancelled>>

SshdStarts(g) == Booted(g, "booting", "early")

\* cloud-init makes new host keys, restarts sshd, and ends.
CloudInit(g) ==
    \/ Booted(g, "early", "restart")
    \/ Booted(g, "restart", "late")
    \/ Booted(g, "late", "done")
    \/ Booted(g, "late", "degraded")

\* The caller's context ends.
Cancel(g) ==
    /\ ~cancelled[g] /\ pc[g] \notin {"idle", "ended"}
    /\ cancelled' = [cancelled EXCEPT ![g] = TRUE]
    /\ UNCHANGED <<harness, machine>>

-----------------------------------------------------------------------------
Step(g) ==
    \/ Prepare(g) \/ FreePort(g) \/ Launch(g) \/ StartFails(g)
    \/ Reach(g) \/ ReachFails(g) \/ Settle(g) \/ SettleFails(g) \/ GiveUp(g)
    \/ Interrupt(g) \/ Kill(g) \/ Reap(g)

Next ==
    \E g \in Guest :
       \/ Call(g) \/ CallStop(g) \/ Cancel(g)
       \/ Step(g)
       \/ Bind(g) \/ QemuExits(g) \/ SshdStarts(g) \/ CloudInit(g)

\* The harness goes on; cloud-init ends once sshd was started, or the machine
\* under it does; a killed process exits.  Nobody need call Stop, and a guest
\* need not boot.
Fairness ==
    \A g \in Guest :
       /\ WF_vars(Step(g))
       /\ WF_vars(CloudInit(g))
       /\ WF_vars(pc[g] = "killed" /\ QemuExits(g))

Spec == Init /\ [][Next]_vars /\ Fairness

-----------------------------------------------------------------------------
(* Properties.                                                             *)

\* Type correctness; QEMU and its log exist from the launch on.
TypeOK ==
    /\ pc \in [Guest -> {"idle", "prepare", "port", "launch", "reach",
                         "settle", "up", "stop", "grace", "killed", "ended"}]
    /\ port \in [Guest -> Port \cup {NoPort}]
    /\ log \in [Guest -> BOOLEAN]
    /\ left \in [Guest -> 0..Patience]
    /\ reaped \in [Guest -> BOOLEAN] /\ cancelled \in [Guest -> BOOLEAN]
    /\ said \in [Guest -> {"", "ok", "error", "timeout", "exited early"}]
    /\ qemu \in [Guest -> {"none", "running", "exited"}]
    /\ bound \in [Guest -> BOOLEAN]
    /\ boot \in [Guest -> {"booting", "early", "restart", "late", "done",
                           "degraded"}]
    /\ \A g \in Guest :
          /\ bound[g] => qemu[g] = "running"
          /\ qemu[g] = "none" => ~log[g] /\ ~bound[g] /\ boot[g] = "booting"

\* Once Start has returned an error, or Stop has returned, the guest's QEMU
\* does not run, was waited for, and its log is closed; on every path.
NoLeftover ==
    \A g \in Guest :
       pc[g] = "ended" => /\ qemu[g] # "running" /\ ~log[g]
                          /\ qemu[g] = "exited" => reaped[g]

\* A guest handed to the caller is the caller's own, even when another one was
\* given the same port, and as long as QEMU runs its sshd is not restarted any
\* more (the reason of waitSSH's second phase).
ReadyIsSteady ==
    \A g \in Guest :
       pc[g] = "up" /\ qemu[g] = "running" =>
          /\ bound[g] /\ boot[g] = "done"
          /\ \A h \in Guest \ {g} : bound[h] => port[h] # port[g]

\* Every Start comes to an end: waitSSH by its deadline when the guest never
\* boots, exits, is degraded or sits behind another guest's port.
StartEnds ==
    \A g \in Guest :
       pc[g] \in {"prepare", "port", "launch", "reach", "settle"}
          ~> pc[g] \in {"up", "stop", "ended"}

\* Every Stop comes to an end, if QEMU ignores the interrupt as well.
StopEnds == \A g \in Guest : pc[g] = "stop" ~> pc[g] = "ended"

\* "startup failures are visible (never discard — that hid the CI failure and
\* wasted the full timeout)" (qemusystem.go:267-268): once QEMU has exited,
\* waitSSH spends no more of its time.
NoWastedWait ==
    [][\A g \in Guest :
          qemu[g] = "exited" /\ pc[g] \in {"reach", "settle"} =>
             left'[g] = left[g]]_vars

=============================================================================
