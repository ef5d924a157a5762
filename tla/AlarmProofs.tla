---------------------------- MODULE AlarmProofs ----------------------------
(***************************************************************************)
(* Alarm frames are never shared or freed while in use, and the interrupted *)
(* context survives the handler: for any number of processes, pages and     *)
(* programs.                                                                *)
(***************************************************************************)
EXTENDS Alarm, TLAPS

\* The saturated count stays in its range.
LEMMA CountedRange ==
    ASSUME NEW n \in 0..MaxTicks
    PROVE  Counted(n) \in 0..MaxTicks
BY AlarmAssumption DEF Counted

\* Init satisfies the invariant.
LEMMA InitHolds == Init => IInv
<1> SUFFICES ASSUME Init PROVE IInv
  OBVIOUS
<1>1. PICK r \in Regs : /\ trapframe = [s \in Slots |-> <<"main", r>>]
                        /\ frame = [g \in Pages |-> <<"main", r>>]
                        /\ interrupted = [s \in Slots |-> <<"main", r>>]
  BY DEF Init
<1>2. TypeOK
  <2>1. <<"main", r>> \in Contexts
    BY DEF Contexts
  <2>2. 0 \in 0..MaxTicks
    BY AlarmAssumption
  <2> QED BY <1>1, <2>1, <2>2, Zenon DEF Init, TypeOK
<1>3. FramesOwned /\ ContextKept
  BY DEF Init, FramesOwned, ContextKept
<1>4. Between
  BY <1>1 DEF Init, Between
<1> QED BY <1>2, <1>3, <1>4 DEF IInv

\* Every step keeps the types.
LEMMA NextTypes ==
    ASSUME TypeOK, NEW s \in Slots,
           \/ Alloc(s) \/ Exit(s) \/ Free(s) \/ Exec(s) \/ Compute(s)
           \/ \E n \in Intervals, h \in Handlers : Sigalarm(s, n, h)
           \/ TimerTick(s)
           \/ Sigreturn(s) /\ alarm_tf[s] # NoPage
    PROVE  TypeOK'
<1> USE DEF TypeOK, Set
<1>1. 0 \in 0..MaxTicks
  BY AlarmAssumption
<1>2. \A r \in Regs : /\ <<"main", r>> \in Contexts
                      /\ <<trapframe[s][1], r>> \in Contexts
  BY DEF Contexts
<1>3. <<handler[s], trapframe[s][2]>> \in Contexts
  BY DEF Contexts
<1>4. /\ Counted(cur_ticks[s]) \in 0..MaxTicks
      /\ Counted(rest[s]) \in 0..MaxTicks
  BY CountedRange
<1>5. CASE Alloc(s)
  BY <1>1, <1>2, <1>5, Zenon DEF Alloc, pages
<1>6. CASE Exit(s)
  BY <1>6 DEF Exit, pages, alarm
<1>7. CASE Free(s)
  BY <1>7 DEF Free, pages, alarm, history
<1>8. CASE Exec(s)
  BY <1>2, <1>8, Zenon DEF Exec, pages, alarm
<1>9. CASE Compute(s)
  BY <1>2, <1>9, Zenon DEF Compute, pages, alarm, history
<1>10. CASE \E n \in Intervals, h \in Handlers : Sigalarm(s, n, h)
  BY <1>10 DEF Sigalarm, pages
<1>11. CASE Tick(s)
  BY <1>4, <1>11 DEF Tick, pages
<1>12. CASE \E g \in Pages : Fire(s, g)
  BY <1>1, <1>3, <1>12 DEF Fire
<1>13. CASE FirePanic(s)
  BY <1>4, <1>13 DEF FirePanic, history
<1>14. CASE Sigreturn(s) /\ alarm_tf[s] # NoPage
  BY <1>1, <1>14 DEF Sigreturn
<1> QED BY <1>5, <1>6, <1>7, <1>8, <1>9, <1>10, <1>11, <1>12, <1>13, <1>14 DEF TimerTick

\* Fire gives the process a page of its own with its context on it.
LEMMA FireKeeps ==
    ASSUME IInv, NEW s \in Slots, NEW g \in Pages, Fire(s, g)
    PROVE  FramesOwned' /\ ContextKept' /\ Between'
<1> USE DEF IInv, TypeOK, Set
<1>1. /\ g \in kmem /\ state[s] = "USED" /\ in_alarm_handler[s] = 0
      /\ in_alarm_handler' = [in_alarm_handler EXCEPT ![s] = 1]
      /\ kmem' = kmem \ {g} /\ frame' = [frame EXCEPT ![g] = trapframe[s]]
      /\ alarm_tf' = [alarm_tf EXCEPT ![s] = g]
      /\ interrupted' = [interrupted EXCEPT ![s] = trapframe[s]]
      /\ handling' = [handling EXCEPT ![s] = TRUE] /\ state' = state
      /\ trapframe' = [trapframe EXCEPT ![s] = <<handler[s], trapframe[s][2]>>]
      /\ cur_ticks' = [cur_ticks EXCEPT ![s] = 0] /\ rest' = [rest EXCEPT ![s] = 0]
  BY DEF Fire, AlarmDue
<1>2. \A t \in Slots : alarm_tf[t] # g
  BY <1>1, AlarmAssumption DEF FramesOwned
<1>3. FramesOwned'
  BY <1>1, <1>2 DEF FramesOwned
<1>4. ContextKept'
  BY <1>1, <1>2, AlarmAssumption DEF ContextKept
<1>5. Between'
  BY <1>1 DEF Between
<1> QED BY <1>3, <1>4, <1>5

\* sigreturn() frees a page that no other slot uses.
LEMMA SigreturnKeeps ==
    ASSUME IInv, NEW s \in Slots, Sigreturn(s)
    PROVE  FramesOwned' /\ ContextKept' /\ Between'
<1> USE DEF IInv, TypeOK, Set
<1>1. /\ handling[s] /\ alarm_tf[s] # NoPage /\ frame[alarm_tf[s]] = interrupted[s]
      /\ trapframe' = [trapframe EXCEPT ![s] = frame[alarm_tf[s]]]
      /\ kmem' = kmem \cup {alarm_tf[s]} /\ frame' = frame /\ state' = state
      /\ alarm_tf' = [alarm_tf EXCEPT ![s] = NoPage]
      /\ in_alarm_handler' = [in_alarm_handler EXCEPT ![s] = 0]
      /\ handling' = [handling EXCEPT ![s] = FALSE] /\ interrupted' = interrupted
      /\ cur_ticks' = [cur_ticks EXCEPT ![s] = 0] /\ rest' = [rest EXCEPT ![s] = 0]
  BY DEF Sigreturn, ContextKept
<1>2. FramesOwned'
  BY <1>1 DEF FramesOwned
<1>3. ContextKept'
  BY <1>1 DEF ContextKept
<1>4. Between'
  BY <1>1 DEF Between
<1> QED BY <1>2, <1>3, <1>4

\* Every step keeps the invariant.
LEMMA NextKeeps == IInv /\ [Next]_vars => IInv'
<1> SUFFICES ASSUME IInv, [Next]_vars PROVE IInv'
  OBVIOUS
<1>1. CASE UNCHANGED vars
  BY <1>1 DEF IInv, TypeOK, FramesOwned, ContextKept, Between, vars, alarm, pages, history
<1>2. CASE Next
  <2>1. PICK s \in Slots :
            \/ Alloc(s) \/ Exit(s) \/ Free(s) \/ Exec(s) \/ Compute(s)
            \/ \E n \in Intervals, h \in Handlers : Sigalarm(s, n, h)
            \/ TimerTick(s)
            \/ Sigreturn(s)
    BY <1>2 DEF Next
  <2>2. Sigreturn(s) => alarm_tf[s] # NoPage
    BY DEF Sigreturn, IInv, ContextKept
  <2>3. TypeOK'
    BY <2>1, <2>2, NextTypes DEF IInv
  <2>4. FramesOwned' /\ ContextKept' /\ Between'
    <3> USE DEF IInv, TypeOK, Set
    <3>1. CASE Alloc(s)
      BY <3>1 DEF Alloc, pages, FramesOwned, ContextKept, Between
    <3>2. CASE Exit(s)
      BY <3>2 DEF Exit, pages, alarm, FramesOwned, ContextKept, Between
    <3>3. CASE Free(s)
      BY <3>3 DEF Free, pages, alarm, history, FramesOwned, ContextKept, Between
    <3>4. CASE Exec(s)
      BY <3>4 DEF Exec, pages, alarm, FramesOwned, ContextKept, Between
    <3>5. CASE Compute(s)
      BY <3>5 DEF Compute, pages, alarm, history, FramesOwned, ContextKept, Between
    <3>6. CASE \E n \in Intervals, h \in Handlers : Sigalarm(s, n, h)
      BY <3>6 DEF Sigalarm, pages, FramesOwned, ContextKept, Between
    <3>7. CASE Tick(s)
      BY <3>7 DEF Tick, pages, FramesOwned, ContextKept, Between
    <3>8. CASE \E g \in Pages : Fire(s, g)
      BY <3>8, FireKeeps
    <3>9. CASE FirePanic(s)
      BY <3>9 DEF FirePanic, history, AlarmDue, FramesOwned, ContextKept, Between
    <3>10. CASE Sigreturn(s)
      BY <3>10, SigreturnKeeps
    <3> QED BY <2>1, <3>1, <3>2, <3>3, <3>4, <3>5, <3>6, <3>7, <3>8, <3>9, <3>10 DEF TimerTick
  <2> QED BY <2>3, <2>4 DEF IInv
<1> QED BY <1>1, <1>2

\* The inductive invariant holds in every reachable state.
THEOREM Invariance == Spec => []IInv
BY InitHolds, NextKeeps, PTL DEF Spec

\* No alarm frame is free, or shared by two slots, while a slot points to it.
THEOREM FramesAreOwned == Spec => []FramesOwned
<1>1. IInv => FramesOwned
  BY DEF IInv
<1> QED BY <1>1, Invariance, PTL

\* The context an alarm interrupted survives until sigreturn().
THEOREM ContextIsKept == Spec => []ContextKept
<1>1. IInv => ContextKept
  BY DEF IInv
<1> QED BY <1>1, Invariance, PTL

\* Only Fire starts a handler, and Between says where it finds the process: in
\* main code, with cur_ticks counting from the last alarm.
LEMMA NextSpaced ==
    ASSUME IInv, [Next]_vars, NEW s \in Slots, ~handling[s], handling'[s]
    PROVE  trapframe[s][1] = "main" /\ Counted(rest[s]) >= ticks[s]
<1> USE DEF IInv, TypeOK, Set
<1>1. PICK t \in Slots :
          \/ Alloc(t) \/ Exit(t) \/ Free(t) \/ Exec(t) \/ Compute(t)
          \/ \E n \in Intervals, h \in Handlers : Sigalarm(t, n, h)
          \/ TimerTick(t)
          \/ Sigreturn(t)
  BY DEF Next, vars, history
<1>2. CASE \E g \in Pages : Fire(t, g)
  <2>1. t = s
    BY <1>2 DEF Fire
  <2>2. state[s] = "USED" /\ AlarmDue(s)
    BY <1>2, <2>1 DEF Fire
  <2> QED BY <2>2 DEF AlarmDue, Between
<1>3. CASE ~\E g \in Pages : Fire(t, g)
  BY <1>1, <1>3 DEF Alloc, Exit, Free, Exec, Compute, Sigalarm, TimerTick, Tick, FirePanic,
                    Sigreturn, history
<1> QED BY <1>2, <1>3

\* alarmtest.c, test2: a handler is never interrupted by its own alarm, and the
\* alarm comes no sooner than ticks user ticks after the last one was handled.
THEOREM AlarmsAreSpaced == Spec => AlarmsSpaced
<1>1. IInv /\ [Next]_vars =>
        [\A s \in Slots : ~handling[s] /\ handling'[s] =>
            trapframe[s][1] = "main" /\ Counted(rest[s]) >= ticks[s]]_vars
  BY NextSpaced
<1> QED BY <1>1, Invariance, PTL DEF Spec, AlarmsSpaced

=============================================================================
