----------------------------- MODULE Supervisor -----------------------------
(***************************************************************************)
(* The main of all-in-one: it spawns the services and a heartbeat for each *)
(* service name, waits until one of them ends or a signal asks for it,     *)
(* sets the shutdown flag, awaits the others in turn and returns the first *)
(* error.  A heartbeat writes a row, sleeps thirty seconds from the return  *)
(* of the write, and so on; the row carries the time its write began, and  *)
(* the system status takes it for stale after ninety seconds.  Time passes *)
(* in ticks; a write and a late wake-up take as many as they like.         *)
(***************************************************************************)
EXTENDS Naturals, Sequences, SequencesExt

CONSTANTS
    Order,          \* the services in the order they are awaited, of which
    Server, Listener,   \* are the HTTP server and the realtime listener
    Names,          \* the services that write heartbeats
    Interval,       \* SERVICE_HEARTBEAT_INTERVAL_SECONDS, in ticks
    StaleAfter,     \* SERVICE_HEARTBEAT_STALE_SECONDS, in ticks
    MaxTicks,       \* bound on the ticks that pass
    MaxFaults,      \* bound on services and writes that fail
    None

Services == ToSet(Order)

Assumptions ==
    /\ Order \in Seq(Services) /\ IsInjective(Order) /\ {Server, Listener} \subseteq Services
    /\ None \notin Services \cup {"start", "signal"} /\ Services \cap {"start", "signal"} = {}
    /\ Interval \in Nat /\ StaleAfter \in Nat /\ MaxTicks \in Nat /\ MaxFaults \in Nat

VARIABLES
    main,       \* the main task: what it is at, the services it still awaits,
                \* its primary and its first secondary error, and its result
    service,    \* state of each spawned service
    shutdown,   \* the flag they share
    beat,       \* of each name: its task; the ticks it waited since its last write
                \* returned, those since the one under way asked for the time, and
                \* the age of its row; since the write of that row began, busy: the
                \* ticks spent on writes and late wake-ups, missed: the failed writes
    ticks, faults

vars == <<main, service, shutdown, beat, ticks, faults>>

Init ==
    /\ main = [pc |-> "starting", await |-> <<>>, primary |-> None, secondary |-> None, result |-> None]
    /\ service = [s \in Services |-> "none"]
    /\ shutdown = FALSE
    /\ beat = [n \in Names |-> [state |-> "none", waited |-> 0, asked |-> None,
                              age |-> None, busy |-> 0, missed |-> 0]]
    /\ ticks = 0 /\ faults = 0

\* The listener is spawned before the queues are connected and the address is
\* bound, the rest after it; an error in between returns at once.
SpawnListener ==
    /\ main.pc = "starting"
    /\ service' = [service EXCEPT ![Listener] = "running"]
    /\ main' = [main EXCEPT !.pc = "connecting"]
    /\ UNCHANGED <<shutdown, beat, ticks, faults>>
SpawnServices ==
    /\ main.pc = "connecting"
    /\ service' = [s \in Services |-> IF s = Listener THEN service[s] ELSE "running"]
    /\ beat' = [n \in Names |-> [beat[n] EXCEPT !.state = "running", !.waited = Interval]]
    /\ main' = [main EXCEPT !.pc = "select"]
    /\ UNCHANGED <<shutdown, ticks, faults>>

\* main returns: the runtime drops what still runs.
Return(result) ==
    /\ main' = [main EXCEPT !.pc = "returned", !.await = <<>>, !.result = result]
    /\ service' = [s \in Services |-> IF service[s] = "running" THEN "aborted" ELSE service[s]]
    /\ beat' = [n \in Names |->
         IF beat[n].state = "running" THEN [beat[n] EXCEPT !.state = "aborted"] ELSE beat[n]]
StartFails ==
    /\ main.pc \in {"starting", "connecting"} /\ faults < MaxFaults
    /\ faults' = faults + 1
    /\ Return("start")
    /\ UNCHANGED <<shutdown, ticks>>

\* A service fails or panics; without an error it ends only because of the flag.
Fails(s) ==
    /\ service[s] = "running" /\ main.pc # "returned" /\ faults < MaxFaults
    /\ faults' = faults + 1
    /\ service' = [service EXCEPT ![s] = "failed"]
    /\ UNCHANGED <<main, shutdown, beat, ticks>>
Ends(s) ==
    /\ service[s] = "running" /\ shutdown
    /\ service' = [service EXCEPT ![s] = "ended"]
    /\ UNCHANGED <<main, shutdown, beat, ticks, faults>>

\* The select: a signal, whose handler may fail to be installed, or whichever of
\* the services that ended it polls first.
Shutdown(primary, others) ==
    /\ shutdown' = TRUE
    /\ main' = [main EXCEPT !.pc = "await", !.primary = primary, !.await = others]
SignalHandlerFails ==
    /\ main.pc = "select" /\ faults < MaxFaults
    /\ faults' = faults + 1
    /\ Return("signal")
    /\ UNCHANGED <<shutdown, ticks>>
Signal ==
    /\ main.pc = "select"
    /\ Shutdown(None, Order)
    /\ UNCHANGED <<service, beat, ticks, faults>>
ServiceEnded ==
    /\ main.pc = "select"
    /\ \E i \in DOMAIN Order :
         service[Order[i]] = "failed" /\ Shutdown(Order[i], RemoveAt(Order, i))
    /\ UNCHANGED <<service, beat, ticks, faults>>

\* collect_shutdown_errors.
FirstError(s) == IF service[s] = "failed" /\ main.secondary = None THEN s ELSE main.secondary
Await ==
    LET s == Head(main.await)
    IN /\ main.pc = "await" /\ main.await # <<>>
       /\ service[s] # "running"
       /\ main' = [main EXCEPT !.await = Tail(@), !.secondary = FirstError(s)]
       /\ UNCHANGED <<service, shutdown, beat, ticks, faults>>

\* wait_for_heartbeat_shutdown.
HeartbeatsEnded == \A n \in Names : beat[n].state # "running"

\* preserve_primary_result.
\* A faulty one: the result of the shutdown.
SecondaryResult(primary, secondary) == secondary
Preserved(primary, secondary) == IF primary = None THEN secondary ELSE primary
Finish ==
    /\ main.pc = "await" /\ main.await = <<>>
    /\ HeartbeatsEnded
    /\ Return(Preserved(main.primary, main.secondary))
    /\ UNCHANGED <<shutdown, ticks, faults>>

\* wait_for_heartbeat_tick_or_shutdown has waited, or need not for the first write:
\* write_service_heartbeat_tick takes the time that the row will carry.
BeginWrite(n) ==
    /\ beat[n].state = "running" /\ beat[n].asked = None
    /\ beat[n].waited = Interval \/ shutdown
    /\ beat' = [beat EXCEPT ![n].asked = 0]
    /\ UNCHANGED <<main, service, shutdown, ticks, faults>>

\* The write has returned.  The flag is looked at only then, so that a shutdown
\* during the wait is followed by one more write; the wait starts now.
AfterWrite(b) ==
    [b EXCEPT !.state = IF shutdown THEN "ended" ELSE "running", !.waited = 0, !.asked = None]
\* What it returns makes no difference: a row that was written although the reply
\* was lost is written, too.
WriteBeat(n) ==
    /\ beat[n].state = "running" /\ beat[n].asked # None
    /\ beat' = [beat EXCEPT ![n] =
         AfterWrite([beat[n] EXCEPT !.age = beat[n].asked, !.busy = beat[n].asked, !.missed = 0])]
    /\ UNCHANGED <<main, service, shutdown, ticks, faults>>
WriteFails(n) ==
    /\ beat[n].state = "running" /\ beat[n].asked # None /\ faults < MaxFaults
    /\ faults' = faults + 1
    /\ beat' = [beat EXCEPT ![n] = AfterWrite([beat[n] EXCEPT !.missed = @ + 1])]
    /\ UNCHANGED <<main, service, shutdown, ticks>>
HeartbeatStep(n) == BeginWrite(n) \/ WriteBeat(n) \/ WriteFails(n)

\* Time passes for a heartbeat that waits, up to the end of its timer, for one that
\* is woken late or writes, and for the row.
Older(age) == IF age = None THEN None ELSE age + 1
Waits(b) == b.asked = None /\ b.waited < Interval
Later(b) ==
    [b EXCEPT !.age = Older(@), !.asked = Older(@),
              !.waited = IF b.state = "running" /\ Waits(b) THEN @ + 1 ELSE @,
              !.busy = IF b.state = "running" /\ ~Waits(b) THEN @ + 1 ELSE @]
Tick ==
    /\ ticks < MaxTicks
    /\ ticks' = ticks + 1
    /\ beat' = [n \in Names |-> Later(beat[n])]
    /\ UNCHANGED <<main, service, shutdown, faults>>

\* service_heartbeat_is_stale.
IsStale(n) == beat[n].age # None /\ beat[n].age > StaleAfter

MainStep == SpawnListener \/ SpawnServices \/ ServiceEnded \/ Await \/ Finish

Next ==
    \/ MainStep \/ StartFails \/ SignalHandlerFails \/ Signal \/ Tick
    \/ \E s \in Services : Fails(s) \/ Ends(s)
    \/ \E n \in Names : HeartbeatStep(n)

\* The services end after the flag is set: their waits are bounded; a write
\* returns, if only with an error.
Fairness ==
    /\ WF_vars(MainStep)
    /\ \A s \in Services : WF_vars(Ends(s))
    /\ \A n \in Names : WF_vars(HeartbeatStep(n))

Spec == Init /\ [][Next]_vars /\ Fairness

-----------------------------------------------------------------------------
TypeOK ==
    /\ main.pc \in {"starting", "connecting", "select", "await", "returned"}
    /\ main.result \in Services \cup {None, "start", "signal"}
    /\ service \in [Services -> {"none", "running", "ended", "failed", "aborted"}]
    /\ \A n \in Names : beat[n].state \in {"none", "running", "ended", "aborted"}

\* main returns success only if every service ended without an error, and the
\* error it returns is the one that made it shut down, if there is one.
ResultIsTrue ==
    main.pc = "returned" =>
      /\ main.result = None => \A s \in Services : service[s] = "ended"
      /\ main.result \in Services => service[main.result] = "failed"
      /\ main.primary # None => main.result = main.primary

\* No service or heartbeat is cut off, except where main returns before it has
\* waited for anything: while it starts, or without its signal handler.
NothingIsCutOff ==
    main.pc = "returned" /\ main.result \notin {"start", "signal"} =>
      /\ \A s \in Services : service[s] \in {"ended", "failed"}
      /\ \A n \in Names : beat[n].state = "ended"

\* A running service is shown stale only if the writes that failed since its row
\* was written, each followed by a wait, and the time its writes and late wake-ups
\* took fill what StaleAfter leaves of the one wait between two writes: after two
\* failed writes, then, one slow failed write, or a single write slow enough.
StaleMeansMissedWrites ==
    \A n \in Names : beat[n].state = "running" /\ IsStale(n) =>
        (beat[n].missed + 1) * Interval + beat[n].busy > StaleAfter

\* Whatever ends first, the process ends.
Owed == \/ main.pc \in {"starting", "connecting", "await"}
        \/ main.pc = "select" /\ \E s \in Services : service[s] = "failed"
=============================================================================
