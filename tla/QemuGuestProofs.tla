-------------------------- MODULE QemuGuestProofs --------------------------
(***************************************************************************)
(* Safety of the QEMU harness, for any number of guests and ports: nothing *)
(* is left behind on any path, and a guest handed out is the caller's own  *)
(* and steady.                                                             *)
(***************************************************************************)
EXTENDS QemuGuest, TLAPS

Early == {"idle", "prepare", "port", "launch"}
Late == {"reach", "settle", "up", "stop", "grace", "killed"}

\* QEMU exists from the launch on, and only Stop reaps it.
Stages ==
    \A g \in Guest :
       /\ pc[g] \in Early => qemu[g] = "none"
       /\ pc[g] \in Late => qemu[g] # "none"
       /\ reaped[g] => pc[g] = "ended"

\* No two guests listen on one port.
PortsApart ==
    \A g, h \in Guest : g # h /\ bound[g] /\ bound[h] => port[g] # port[h]

\* The part of ReadyIsSteady that is about the guest itself.
Steady ==
    \A g \in Guest :
       pc[g] = "up" /\ qemu[g] = "running" => bound[g] /\ boot[g] = "done"

\* NoLeftover is not inductive: that QEMU does not run when Start gives up
\* before the launch, and was not reaped while Stop is at it, is in Stages.
IInv == TypeOK /\ Stages /\ PortsApart /\ Steady /\ NoLeftover

LEMMA InitIInv == Init => IInv
  <1> SUFFICES ASSUME Init PROVE IInv
    OBVIOUS
  <1>1. TypeOK
    <2>1. left \in [Guest -> 0..Patience]
      <3>1. left = [g \in Guest |-> Patience]
        BY DEF Init
      <3>2. Patience \in 0..Patience
        BY QemuGuestAssumption
      <3>3. QED
        BY <3>1, <3>2
    <2>2. /\ log \in [Guest -> BOOLEAN] /\ reaped \in [Guest -> BOOLEAN]
          /\ cancelled \in [Guest -> BOOLEAN] /\ bound \in [Guest -> BOOLEAN]
      BY DEF Init
    <2>3. \A g \in Guest : ~bound[g] /\ ~log[g]
      BY Zenon DEF Init
    <2>4. QED
      BY <2>1, <2>2, <2>3 DEF Init, TypeOK
  <1>2. Stages
    BY DEF Init, Stages, Early, Late
  <1>3. PortsApart /\ Steady /\ NoLeftover
    BY DEF Init, PortsApart, Steady, NoLeftover
  <1>4. QED
    BY <1>1, <1>2, <1>3 DEF IInv

-----------------------------------------------------------------------------
(* Steps of the harness.                                                   *)

\* A step that leaves QEMU, the port and the log alone and does not cross the
\* launch, the hand-over or the end.
LEMMA Move ==
    ASSUME IInv, NEW g \in Guest, NEW to, TypeOK',
           UNCHANGED <<port, log, reaped, machine>>,
           pc' = [pc EXCEPT ![g] = to],
           \/ pc[g] \in Early /\ to \in Early
           \/ pc[g] \in Late /\ to \in Late \ {"up"}
    PROVE  IInv'
  <1> USE DEF IInv, machine
  <1>1. \A h \in Guest : pc'[h] = IF h = g THEN to ELSE pc[h]
    <2>1. DOMAIN pc = Guest
      BY DEF TypeOK
    <2>2. QED
      BY <2>1
  <1>2. pc[g] # "ended" /\ to # "ended" /\ to # "up"
    BY DEF Early, Late
  <1>3. ~reaped[g]
    BY <1>2 DEF Stages
  <1>4. Stages'
    <2>1. /\ to \in Early => qemu[g] = "none"
          /\ to \in Late => qemu[g] # "none"
      <3>1. Early \cap Late = {}
        BY DEF Early, Late
      <3>2. QED
        BY <3>1 DEF Stages
    <2>2. QED
      BY <1>1, <1>3, <2>1 DEF Stages
  <1>5. PortsApart'
    BY DEF PortsApart
  <1>6. Steady'
    BY <1>1, <1>2 DEF Steady
  <1>7. NoLeftover'
    BY <1>1, <1>2 DEF NoLeftover
  <1>8. QED
    BY <1>4, <1>5, <1>6, <1>7

LEMMA CallStep == ASSUME IInv, NEW g \in Guest, Call(g) PROVE IInv'
  <1>1. TypeOK'
    BY DEF IInv, TypeOK, Call, Goto, machine
  <1>2. QED
    BY <1>1, Move DEF Call, Goto, Early, Late

LEMMA PrepareStep == ASSUME IInv, NEW g \in Guest, Prepare(g) PROVE IInv'
  <1>1. TypeOK'
    BY DEF IInv, TypeOK, Prepare, Goto, machine
  <1>2. QED
    BY <1>1, Move DEF Prepare, Goto, Early, Late

LEMMA ReachStep == ASSUME IInv, NEW g \in Guest, Reach(g) PROVE IInv'
  <1>1. TypeOK'
    <2>1. PICK l \in 0..left[g] : left' = [left EXCEPT ![g] = l]
      BY DEF Reach, Lasts
    <2>2. left[g] \in 0..Patience
      BY DEF IInv, TypeOK
    <2>3. l \in 0..Patience
      BY <2>1, <2>2, QemuGuestAssumption
    <2>4. left' \in [Guest -> 0..Patience]
      BY <2>1, <2>3 DEF IInv, TypeOK
    <2>5. QED
      BY <2>4 DEF IInv, TypeOK, Reach, Goto, machine
  <1>2. QED
    BY <1>1, Move DEF Reach, Goto, Waiting, Early, Late

LEMMA GiveUpStep == ASSUME IInv, NEW g \in Guest, GiveUp(g) PROVE IInv'
  <1>1. TypeOK'
    BY DEF IInv, TypeOK, GiveUp, Say, machine
  <1>2. QED
    BY <1>1, Move DEF GiveUp, Say, Early, Late

LEMMA CallStopStep == ASSUME IInv, NEW g \in Guest, CallStop(g) PROVE IInv'
  <1>1. TypeOK'
    BY DEF IInv, TypeOK, CallStop, Goto, machine
  <1>2. QED
    BY <1>1, Move DEF CallStop, Goto, Early, Late

LEMMA InterruptStep == ASSUME IInv, NEW g \in Guest, Interrupt(g) PROVE IInv'
  <1>1. TypeOK'
    BY DEF IInv, TypeOK, Interrupt, Goto, machine
  <1>2. QED
    BY <1>1, Move DEF Interrupt, Goto, Early, Late

LEMMA KillStep == ASSUME IInv, NEW g \in Guest, Kill(g) PROVE IInv'
  <1>1. TypeOK'
    BY DEF IInv, TypeOK, Kill, Goto, machine
  <1>2. QED
    BY <1>1, Move DEF Kill, Goto, Early, Late

\* A probe that fails costs time and nothing else.
LEMMA ProbeStep ==
    ASSUME IInv, NEW g \in Guest, Waiting(g, pc[g]), Spend(g),
           UNCHANGED <<pc, port, log, reaped, said, machine, cancelled>>
    PROVE  IInv'
  <1>1. TypeOK'
    <2>1. PICK l \in 0..(left[g] - 1) : left' = [left EXCEPT ![g] = l]
      BY DEF Spend
    <2>2. left[g] \in 0..Patience
      BY DEF IInv, TypeOK
    <2>3. l \in 0..Patience
      BY <2>1, <2>2, QemuGuestAssumption
    <2>4. QED
      BY <2>1, <2>3 DEF IInv, TypeOK, machine
  <1>2. QED
    BY <1>1 DEF IInv, Stages, PortsApart, Steady, NoLeftover, machine

LEMMA ReachFailsStep == ASSUME IInv, NEW g \in Guest, ReachFails(g) PROVE IInv'
  BY ProbeStep DEF ReachFails, Waiting

LEMMA SettleFailsStep == ASSUME IInv, NEW g \in Guest, SettleFails(g) PROVE IInv'
  BY ProbeStep DEF SettleFails, Waiting

\* Only a guest without a QEMU gets another port.
LEMMA FreePortStep == ASSUME IInv, NEW g \in Guest, FreePort(g) PROVE IInv'
  <1> USE DEF FreePort, Goto, machine, IInv
  <1>1. TypeOK'
    BY DEF TypeOK
  <1>2. Stages'
    BY DEF TypeOK, Stages, Early, Late
  <1>3. PortsApart'
    <2>1. pc[g] \in Early /\ ~bound[g]
      BY DEF TypeOK, Stages, Early
    <2>2. PICK p \in Port : port' = [port EXCEPT ![g] = p]
      OBVIOUS
    <2>3. \A h \in Guest : bound[h] => h # g /\ port'[h] = port[h]
      BY <2>1, <2>2 DEF TypeOK
    <2>4. QED
      BY <2>3 DEF PortsApart
  <1>4. Steady'
    BY DEF TypeOK, Steady
  <1>5. NoLeftover'
    BY DEF TypeOK, Stages, NoLeftover, Early, Late
  <1>6. QED
    BY <1>1, <1>2, <1>3, <1>4, <1>5

LEMMA LaunchStep == ASSUME IInv, NEW g \in Guest, Launch(g) PROVE IInv'
  <1> USE DEF Launch, Goto, IInv
  <1>1. TypeOK'
    BY DEF TypeOK
  <1>2. Stages'
    BY DEF TypeOK, Stages, Early, Late
  <1>3. PortsApart'
    BY DEF TypeOK, PortsApart
  <1>4. Steady'
    BY DEF TypeOK, Steady
  <1>5. NoLeftover'
    BY DEF TypeOK, Stages, NoLeftover, Early, Late
  <1>6. QED
    BY <1>1, <1>2, <1>3, <1>4, <1>5

LEMMA StartFailsStep == ASSUME IInv, NEW g \in Guest, StartFails(g) PROVE IInv'
  <1> USE DEF StartFails, Say, machine, IInv
  <1>1. TypeOK'
    BY DEF TypeOK
  <1>2. Stages'
    BY DEF TypeOK, Stages, Early, Late
  <1>3. PortsApart'
    BY DEF TypeOK, PortsApart
  <1>4. Steady'
    BY DEF TypeOK, Steady
  <1>5. NoLeftover'
    BY DEF TypeOK, Stages, NoLeftover, Early, Late
  <1>6. QED
    BY <1>1, <1>2, <1>3, <1>4, <1>5

\* The hand-over: ssh answered with the key of g alone, after cloud-init.
LEMMA SettleStep == ASSUME IInv, NEW g \in Guest, Settle(g) PROVE IInv'
  <1> USE DEF Settle, Goto, Say, Waiting, machine, IInv
  <1>1. TypeOK'
    BY DEF TypeOK
  <1>2. Stages'
    BY DEF TypeOK, Stages, Early, Late
  <1>3. PortsApart'
    BY DEF TypeOK, PortsApart
  <1>4. Steady'
    BY DEF TypeOK, Steady, Settled, Answers, Listens
  <1>5. NoLeftover'
    BY DEF TypeOK, Stages, NoLeftover, Early, Late
  <1>6. QED
    BY <1>1, <1>2, <1>3, <1>4, <1>5

\* Wait has returned: QEMU has exited, and was reaped.
LEMMA ReapStep == ASSUME IInv, NEW g \in Guest, Reap(g) PROVE IInv'
  <1> USE DEF Reap, machine, IInv
  <1>1. TypeOK'
    BY DEF TypeOK
  <1>2. Stages'
    BY DEF TypeOK, Stages, Early, Late
  <1>3. PortsApart'
    BY DEF TypeOK, PortsApart
  <1>4. Steady'
    BY DEF TypeOK, Steady
  <1>5. NoLeftover'
    <2>1. reaped'[g] /\ ~log'[g] /\ qemu[g] = "exited"
      BY DEF TypeOK
    <2>2. \A h \in Guest \ {g} :
             pc'[h] = pc[h] /\ reaped'[h] = reaped[h] /\ log'[h] = log[h]
      BY DEF TypeOK
    <2>3. QED
      BY <2>1, <2>2 DEF NoLeftover
  <1>6. QED
    BY <1>1, <1>2, <1>3, <1>4, <1>5

-----------------------------------------------------------------------------
(* Steps of QEMU and the guest.                                            *)

LEMMA BindStep == ASSUME IInv, NEW g \in Guest, Bind(g) PROVE IInv'
  <1> USE DEF Bind, harness, IInv
  <1>1. TypeOK'
    BY DEF TypeOK
  <1>2. Stages'
    BY DEF TypeOK, Stages, Early, Late
  <1>3. PortsApart'
    <2>1. \A h \in Guest : bound'[h] => h = g \/ bound[h]
      BY DEF TypeOK
    <2>2. \A h \in Guest : bound[h] => port[h] # port[g]
      OBVIOUS
    <2>3. QED
      BY <2>1, <2>2 DEF PortsApart
  <1>4. Steady'
    BY DEF TypeOK, Steady
  <1>5. NoLeftover'
    BY DEF NoLeftover
  <1>6. QED
    BY <1>1, <1>2, <1>3, <1>4, <1>5

LEMMA QemuExitsStep == ASSUME IInv, NEW g \in Guest, QemuExits(g) PROVE IInv'
  <1> USE DEF QemuExits, harness, IInv
  <1>1. TypeOK'
    BY DEF TypeOK
  <1>2. \A h \in Guest : /\ qemu'[h] = IF h = g THEN "exited" ELSE qemu[h]
                         /\ bound'[h] => h # g /\ bound[h]
    BY DEF TypeOK
  <1>3. Stages'
    BY <1>2 DEF Stages
  <1>4. PortsApart'
    BY <1>2 DEF PortsApart
  <1>5. Steady'
    <2>1. \A h \in Guest \ {g} : bound'[h] = bound[h]
      BY DEF TypeOK
    <2>2. QED
      BY <1>2, <2>1 DEF Steady
  <1>6. NoLeftover'
    <2>1. pc[g] # "ended"
      BY DEF NoLeftover
    <2>2. QED
      BY <1>2, <2>1 DEF NoLeftover
  <1>7. QED
    BY <1>1, <1>3, <1>4, <1>5, <1>6

\* The guest boots: from "done" there is no step on.
LEMMA BootedStep ==
    ASSUME IInv, NEW g \in Guest, NEW from, NEW to, Booted(g, from, to),
           from # "done", to \in {"early", "restart", "late", "done", "degraded"}
    PROVE  IInv'
  <1> USE DEF Booted, harness, IInv
  <1>1. TypeOK'
    BY DEF TypeOK
  <1>2. Stages'
    BY DEF Stages
  <1>3. PortsApart'
    BY DEF PortsApart
  <1>4. Steady'
    BY DEF TypeOK, Steady
  <1>5. NoLeftover'
    BY DEF NoLeftover
  <1>6. QED
    BY <1>1, <1>2, <1>3, <1>4, <1>5

LEMMA CancelStep == ASSUME IInv, NEW g \in Guest, Cancel(g) PROVE IInv'
  <1> USE DEF Cancel, harness, machine, IInv
  <1>1. TypeOK'
    BY DEF TypeOK
  <1>2. QED
    BY <1>1 DEF Stages, PortsApart, Steady, NoLeftover

LEMMA StutterStep == IInv /\ UNCHANGED vars => IInv'
  <1> SUFFICES ASSUME IInv, UNCHANGED vars PROVE IInv'
    OBVIOUS
  <1> USE DEF vars, harness, machine, IInv
  <1>1. TypeOK'
    BY DEF TypeOK
  <1>2. Stages' /\ PortsApart'
    BY DEF Stages, PortsApart
  <1>3. Steady' /\ NoLeftover'
    BY DEF Steady, NoLeftover
  <1>4. QED
    BY <1>1, <1>2, <1>3

-----------------------------------------------------------------------------
(* The theorems.                                                           *)

LEMMA NextIInv == IInv /\ [Next]_vars => IInv'
  <1> SUFFICES ASSUME IInv, [Next]_vars PROVE IInv'
    OBVIOUS
  <1>1. CASE UNCHANGED vars
    BY <1>1, StutterStep
  <1>2. ASSUME NEW g \in Guest, Step(g) PROVE IInv'
    BY <1>2, PrepareStep, FreePortStep, LaunchStep, StartFailsStep, ReachStep,
       ReachFailsStep, SettleStep, SettleFailsStep, GiveUpStep, InterruptStep,
       KillStep, ReapStep DEF Step
  <1>3. ASSUME NEW g \in Guest, CloudInit(g) \/ SshdStarts(g) PROVE IInv'
    BY <1>3, BootedStep DEF CloudInit, SshdStarts
  <1>4. QED
    BY <1>1, <1>2, <1>3, CallStep, CallStopStep, CancelStep, BindStep,
       QemuExitsStep DEF Next

\* The inductive invariant of the harness.
THEOREM Invariance == Spec => []IInv
  BY InitIInv, NextIInv, PTL DEF Spec

\* Type correctness.
THEOREM TypeCorrect == Spec => []TypeOK
  <1>1. IInv => TypeOK
    BY DEF IInv
  <1>2. QED
    BY <1>1, Invariance, PTL

\* For any number of guests, ports and probes: once Start has failed or Stop
\* has returned, no QEMU runs unreaped and no log is open.
THEOREM NothingLeft == Spec => []NoLeftover
  <1>1. IInv => NoLeftover
    BY DEF IInv
  <1>2. QED
    BY <1>1, Invariance, PTL

\* A guest that was handed out is the caller's own and is not restarted, however
\* many guests race for its port.
THEOREM HandedOutSteady == Spec => []ReadyIsSteady
  <1>1. IInv => ReadyIsSteady
    BY DEF IInv, Steady, PortsApart, ReadyIsSteady
  <1>2. QED
    BY <1>1, Invariance, PTL

=============================================================================
