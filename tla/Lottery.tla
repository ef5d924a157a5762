------------------------------ MODULE Lottery ------------------------------
(***************************************************************************)
(* What the LBS branch of scheduler() is meant to choose, stated from the   *)
(* table as a whole, and compared with what its loops choose.               *)
(***************************************************************************)
EXTENDS SmpSched, FiniteSetsExt

\* The tickets of the RUNNABLE processes up to slot i.
Upto(i) == {s \in 1..i : state[s] = "RUNNABLE"}
TicketsUpto(i) == MapThenSumSet(LAMBDA s : tickets[s], Upto(i))

\* The process that holds the ticket number v.
Holds(s, v) == s \in Upto(NPROC) /\ TicketsUpto(s - 1) < v /\ v <= TicketsUpto(s)

\* When nothing changed while a hart looked for it, the process the hart
\* switches to is the one that came first among those with as many tickets
\* as the holder of the drawn ticket, and the hart finds nobody only when it
\* drew a ticket that nobody holds.
LotteryRule ==
    [][\A c \in Harts : still[c] =>
        /\ \A s \in Slots :
            (hart[c].pc = "take" /\ hart'[c] = Running(s)) =>
                /\ \E t \in Slots : Holds(t, hart[c].value) /\ tickets[s] = tickets[t]
                /\ \A t \in Upto(NPROC) :
                        tickets[t] = tickets[s] => arrival_time[t] >= arrival_time[s]
        /\ (hart[c].pc \in {"pick", "take"} /\ hart'[c] = Top) =>
                ~\E t \in Slots : Holds(t, hart[c].value)]_vars

=============================================================================
